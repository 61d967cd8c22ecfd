---------------------------- MODULE VirtualDisk ----------------------------
(* The allocation bitmap of the virtual disk (hardware/disk.rs): the set of  *)
(* sectors in use, out of the Sectors behind the four metadata sectors.      *)
(* Allocating and freeing write the bitmap through to sector 0, so that one  *)
(* set stands for the bitmap in memory and for the one in the image.         *)
EXTENDS Integers, FiniteSets

CONSTANT NSectors

ASSUME NSectorsAssumption == NSectors \in Nat \ {0}

Sectors == 1 .. NSectors

\* "No sector": the start of a file that is not on the disk.
NoSector == 0

Run(start, n) == start .. (start + n - 1)

\* allocate_sectors: where n contiguous sectors are free, first fit.
FreeRuns(used, n) == {s \in Sectors : Run(s, n) \subseteq Sectors \ used}

HasRun(used, n) == FreeRuns(used, n) # {}

FirstRun(used, n) == CHOOSE s \in FreeRuns(used, n) : \A t \in FreeRuns(used, n) : s <= t

AllocateSectors(used, n) == IF HasRun(used, n) THEN used \cup Run(FirstRun(used, n), n) ELSE used

\* Mutant of FreeSectors: one sector too many.
FreeSectorsInclusive(used, start, n) == used \ (start .. start + n)

\* free_sectors does not ask whether the sectors were in use.
FreeSectors(used, start, n) == used \ Run(start, n)
=============================================================================
