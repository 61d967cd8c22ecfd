-------------------------- MODULE MCProcessService --------------------------
(***************************************************************************)
(* The process service for TLC.  Each cfg chooses the instructions and the *)
(* requests of one question: MCLife, MCAny, MCRequest and MCSync pass,     *)
(* MCWait, MCKill and MCHang show a violation.                             *)
(***************************************************************************)
EXTENDS ProcessService, TLC
=============================================================================
