----------------------------- MODULE Scheduler ------------------------------
(***************************************************************************)
(* The round-robin scheduler of services/process/scheduler.rs on its own:  *)
(* its clients call ready, block and remove for any pid at any time, and   *)
(* each virtual CPU asks for a decision once per tick.                     *)
(***************************************************************************)
EXTENDS SchedulerOps

CONSTANT MaxQueue   \* bound: clients call ready only below this queue length

VARIABLE sched

Init == sched = NewScheduler

Ready(p) == /\ Len(sched.queue) < MaxQueue
            /\ sched' = ready(sched, p)

\* block() and remove() are one method; calling it for an unknown pid is
\* the identity.
Remove(p) == /\ p \in Known(sched)
             /\ sched' = remove(sched, p)

Schedule(c) == sched' = schedule(sched, c)

Yield(c) == /\ sched.current[c] # NoPid
            /\ sched' = yield_current(sched, c)

Next == \/ \E p \in Pid : Ready(p) \/ Remove(p)
        \/ \E c \in CPU : Schedule(c) \/ Yield(c)

Spec == Init /\ [][Next]_sched

\* The timer ticks every 10 ms and asks once for each CPU: no CPU stops
\* scheduling.  Clients owe nothing.
FairSpec == Spec /\ \A c \in CPU : WF_sched(Schedule(c))

-----------------------------------------------------------------------------
TypeOK == sched \in SchedulerState

\* docs/scheduler.md, invariant 1: a pid is current on at most one CPU.
OneCpuPerPid == Exclusive(sched)

\* Nobody overtakes: as long as no CPU runs p and p is not removed, the
\* oldest entry of p moves only towards the front, or onto a CPU, whatever
\* the others do and however many busy entries the rotation moves about.
Place(s, p) == First({i \in DOMAIN s.queue : s.queue[i] = p})
NoOvertaking ==
    [][\A p \in InQueue(sched) \ OnCpu(sched) :
          \/ Remove(p)
          \/ p \in OnCpu(sched')
          \/ p \in InQueue(sched') /\ Place(sched', p) <= Place(sched, p)]_sched

\* A decision (schedule, yield_current, with the rotation of dequeue_next
\* inside them) loses no entry and duplicates none, wherever busy entries
\* stand in the queue.
DecisionsConserveEntries ==
    [][(\E c \in CPU : Schedule(c) \/ Yield(c))
         => \A p \in Pid : Entries(sched', p) = Entries(sched, p)]_sched

\* Work conservation: a decision leaves a CPU idle only if every queued pid
\* runs on another CPU, however busy entries and duplicates are mixed.
NeverIdleWithWork ==
    [][\A c \in CPU : (Schedule(c) \/ Yield(c)) /\ sched'.current[c] = NoPid
         => InQueue(sched') \subseteq OnCpu(sched')]_sched

\* No starvation: a queued pid gets a CPU, even when clients keep queueing
\* other pids and duplicate entries of it.  The exception is a pid that its
\* clients remove again and again: each remove drops its oldest entry, and
\* with it its place in the queue.
QueuedPidsRun ==
    \A p \in Pid : \/ []<><<Remove(p)>>_sched
                   \/ p \in InQueue(sched) ~> (p \in OnCpu(sched) \/ p \notin InQueue(sched))

\* The scheduler implements the abstract one.
Abstract == INSTANCE RunSet WITH known <- Known(sched), running <- sched.current
RefinesRunSet == Abstract!Spec
=============================================================================
