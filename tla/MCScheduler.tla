---------------------------- MODULE MCScheduler -----------------------------
(***************************************************************************)
(* The scheduler for TLC: pids and CPUs are model values (MCScheduler.cfg).*)
(***************************************************************************)
EXTENDS Scheduler, TLC
=============================================================================
