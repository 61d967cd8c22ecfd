------------------------------ MODULE MCMemory ------------------------------
EXTENDS MemoryService

\* The interface's requests no part of the program sends: explicit swaps of page 0 of
\* process 2, a query, and an allocation larger than memory.
MCApi ==
  {Api(Request("SwapOut", 2, 0, None, 0)), Api(Request("SwapIn", 2, 0, None, 0)),
   Api(Request("Query", 0, 0, None, 0)), Request("Alloc", 0, 0, None, NFrames + 1)}
=============================================================================
