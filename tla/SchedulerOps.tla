---------------------------- MODULE SchedulerOps ----------------------------
(***************************************************************************)
(* The methods of `Scheduler` (services/process/scheduler.rs) as operators *)
(* on its state, a record                                                  *)
(*   queue    ready_queue, the pids waiting for a CPU, oldest first        *)
(*   current  cpu_current, the pid each virtual CPU is running             *)
(*   ticks    cpu_ticks, the ticks each CPU has spent on its pid           *)
(* Threads are left out: every caller passes tid 1.  The priority of an    *)
(* entry is left out too: under RoundRobin, the policy the process service *)
(* constructs, no method reads it.                                         *)
(***************************************************************************)
EXTENDS Naturals, Sequences, FiniteSets

CONSTANTS Pid,      \* process ids
          CPU,      \* virtual CPUs
          NoPid,    \* the None of cpu_current
          Quantum   \* time_slice: ticks a pid may keep its CPU

ASSUME SchedulerAssumption ==
    /\ NoPid \notin Pid
    /\ Quantum \in Nat \ {0}

SchedulerState == [queue   : Seq(Pid),
                   current : [CPU -> Pid \cup {NoPid}],
                   ticks   : [CPU -> 0 .. Quantum - 1]]

NewScheduler == [queue   |-> <<>>,
                 current |-> [c \in CPU |-> NoPid],
                 ticks   |-> [c \in CPU |-> 0]]

OnCpu(s)   == {s.current[c] : c \in CPU} \ {NoPid}
InQueue(s) == {s.queue[i] : i \in DOMAIN s.queue}

\* Every pid the scheduler still knows of, waiting or running.
Known(s) == InQueue(s) \cup OnCpu(s)

\* The entries of p, queued and running.
Entries(s, p) == Cardinality({i \in DOMAIN s.queue : s.queue[i] = p})
                     + (IF p \in OnCpu(s) THEN 1 ELSE 0)

\* No pid is current on two CPUs.
Exclusive(s) ==
    \A c, d \in CPU : c # d /\ s.current[c] # NoPid => s.current[c] # s.current[d]

\* Mutant of Busy: the skip of pids running elsewhere is forgotten.
BusyNone(s, c) == {}

\* The pids the other CPUs are running: `busy` in dequeue_next.
Busy(s, c) == {s.current[d] : d \in CPU \ {c}} \ {NoPid}

\* The smallest element of a non-empty set of numbers.
First(S) == CHOOSE i \in S : \A j \in S : i <= j

-----------------------------------------------------------------------------
\* Mutant of ready: push_front for push_back.
ReadyFirst(s, p) == [s EXCEPT !.queue = <<p>> \o @]

\* ready(): append, without looking whether the pid is already there.
ready(s, p) == [s EXCEPT !.queue = Append(@, p)]

WithoutIndex(q, i) ==
    [j \in 1 .. Len(q) - 1 |-> IF j < i THEN q[j] ELSE q[j + 1]]

\* Mutant of remove: the loop over the CPUs is forgotten.
RemoveFromQueueOnly(s, p) ==
    LET at == {i \in DOMAIN s.queue : s.queue[i] = p}
    IN  IF at = {} THEN s ELSE [s EXCEPT !.queue = WithoutIndex(@, First(at))]

\* remove() and block(): off every CPU, and the oldest queue entry dropped.
\* A second entry of the same pid stays in the queue.
remove(s, p) ==
    LET at == {i \in DOMAIN s.queue : s.queue[i] = p}
    IN  [queue   |-> IF at = {} THEN s.queue ELSE WithoutIndex(s.queue, First(at)),
         current |-> [c \in CPU |-> IF s.current[c] = p THEN NoPid ELSE s.current[c]],
         ticks   |-> [c \in CPU |-> IF s.current[c] = p THEN 0 ELSE s.ticks[c]]]

\* Mutant of RotatedPast: busy entries are popped and not pushed back.
RotatedDroppingBusy(q, i) == SubSeq(q, i + 1, Len(q))

\* The queue after popping entry i, the i-1 busy entries before it pushed
\* to the back one by one.
RotatedPast(q, i) ==
    [j \in 1 .. Len(q) - 1 |->
        IF j <= Len(q) - i THEN q[i + j] ELSE q[j - (Len(q) - i)]]

\* Mutant of dequeue_next: only the head of the queue is looked at.
DequeueHeadOnly(s, c) ==
    IF s.queue = <<>> \/ Head(s.queue) \in Busy(s, c)
    THEN [s EXCEPT !.current[c] = NoPid]
    ELSE [queue   |-> Tail(s.queue),
          current |-> [s.current EXCEPT ![c] = Head(s.queue)],
          ticks   |-> [s.ticks EXCEPT ![c] = 0]]

\* dequeue_next(): the first pid that no other CPU runs, or Idle.
dequeue_next(s, c) ==
    LET free == {i \in DOMAIN s.queue : s.queue[i] \notin Busy(s, c)}
        i    == First(free)
    IN  IF free = {}
        THEN [s EXCEPT !.current[c] = NoPid]
        ELSE [queue   |-> RotatedPast(s.queue, i),
              current |-> [s.current EXCEPT ![c] = s.queue[i]],
              ticks   |-> [s.ticks EXCEPT ![c] = 0]]

\* Mutant of Requeued: the running pid keeps its place at the front.
RequeuedFirst(s, c) ==
    IF s.current[c] = NoPid THEN s
    ELSE [queue   |-> <<s.current[c]>> \o s.queue,
          current |-> [s.current EXCEPT ![c] = NoPid],
          ticks   |-> [s.ticks EXCEPT ![c] = 0]]

\* Mutant of Requeued: the push_back is forgotten.
RequeuedNowhere(s, c) ==
    [s EXCEPT !.current[c] = NoPid, !.ticks[c] = 0]

\* The running pid goes to the back of the queue and leaves the CPU.
Requeued(s, c) ==
    IF s.current[c] = NoPid THEN s
    ELSE [queue   |-> Append(s.queue, s.current[c]),
          current |-> [s.current EXCEPT ![c] = NoPid],
          ticks   |-> [s.ticks EXCEPT ![c] = 0]]

\* yield_current()
yield_current(s, c) == dequeue_next(Requeued(s, c), c)

\* Mutant of schedule: <= for <.
ScheduleOneTickMore(s, c) ==
    IF s.current[c] # NoPid /\ s.ticks[c] + 1 <= Quantum
    THEN [s EXCEPT !.ticks[c] = @ + 1]
    ELSE dequeue_next(Requeued(s, c), c)

\* schedule(): one tick more for the running pid, or, its quantum spent,
\* requeue it and pick the next.  The decision is Run iff current[c] of the
\* result is a pid.
schedule(s, c) ==
    IF s.current[c] # NoPid /\ s.ticks[c] + 1 < Quantum
    THEN [s EXCEPT !.ticks[c] = @ + 1]
    ELSE dequeue_next(Requeued(s, c), c)
=============================================================================
