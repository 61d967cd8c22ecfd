------------------------------- MODULE RunSet -------------------------------
(***************************************************************************)
(* What a multiprocessor scheduler promises, whatever its queue looks      *)
(* like: it knows a set of pids, it gives a CPU only a pid it knows and    *)
(* that runs on no other CPU, and a scheduling decision neither forgets    *)
(* nor invents a pid.                                                      *)
(***************************************************************************)
CONSTANTS Pid, CPU, NoPid

VARIABLES known,    \* the pids the scheduler has been given
          running   \* the pid each CPU runs, or NoPid

vars == <<known, running>>

Elsewhere(c) == {running[d] : d \in CPU \ {c}}
Eligible(c)  == known \ Elsewhere(c)

Init == /\ known = {}
        /\ running = [c \in CPU |-> NoPid]

Admit(p) == /\ known' = known \cup {p}
            /\ UNCHANGED running

\* A client takes p off every CPU.  A pid admitted more than once may still
\* be known afterwards.
Withdraw(p) == /\ known' \in {known, known \ {p}}
               /\ running' = [c \in CPU |-> IF running[c] = p THEN NoPid ELSE running[c]]

\* A CPU asks for work: it gets some eligible pid, or idles for want of one.
Dispatch(c) == /\ UNCHANGED known
               /\ \/ /\ Eligible(c) = {}
                     /\ running' = [running EXCEPT ![c] = NoPid]
                  \/ \E p \in Eligible(c) : running' = [running EXCEPT ![c] = p]

Next == \/ \E p \in Pid : Admit(p) \/ Withdraw(p)
        \/ \E c \in CPU : Dispatch(c)

Spec == Init /\ [][Next]_vars
=============================================================================
