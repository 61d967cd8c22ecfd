-------------------------- MODULE SchedulerProofs ---------------------------
(***************************************************************************)
(* Theorems about the scheduler on its own, for any set of pids, any set   *)
(* of CPUs, any quantum and any number of queue entries.                   *)
(***************************************************************************)
EXTENDS Scheduler, SchedulerOpsProofs

\* The inductive invariant: refinement needs both halves, since a pid may
\* keep its CPU only because no other CPU runs it.
Inv == TypeOK /\ OneCpuPerPid

\* A new scheduler satisfies the invariant.
LEMMA InitInv == Init => Inv
  BY SchedulerAssumption
     DEF Init, Inv, TypeOK, OneCpuPerPid, NewScheduler, SchedulerState, Exclusive

\* Every method call keeps the invariant.
LEMMA NextInv == Inv /\ [Next]_sched => Inv'
<1> SUFFICES ASSUME Inv, [Next]_sched
             PROVE  Inv'
  OBVIOUS
<1> USE DEF Inv, TypeOK, OneCpuPerPid
<1>1. ASSUME NEW p \in Pid, Ready(p)
      PROVE  Inv'
  <2>1. sched' \in SchedulerState
    BY <1>1, ReadyType DEF Ready
  <2>2. sched'.current = sched.current
    BY <1>1, ReadyKnown DEF Ready
  <2> QED
    BY <2>1, <2>2 DEF Exclusive
<1>2. ASSUME NEW p \in Pid, Remove(p)
      PROVE  Inv'
  BY <1>2, RemoveType, RemoveExclusive DEF Remove
<1>3. ASSUME NEW c \in CPU, Schedule(c)
      PROVE  Inv'
  BY <1>3, ScheduleType, ScheduleExclusive DEF Schedule
<1>4. ASSUME NEW c \in CPU, Yield(c)
      PROVE  Inv'
  BY <1>4, YieldType, ScheduleExclusive DEF Yield
<1>5. CASE UNCHANGED sched
  BY <1>5
<1> QED
  BY <1>1, <1>2, <1>3, <1>4, <1>5 DEF Next

\* Every reachable state of the scheduler is well formed; in particular no
\* CPU has spent more ticks on its pid than time_slice allows.
THEOREM TypeCorrect == Spec => []TypeOK
<1>1. Inv => TypeOK
  BY DEF Inv
<1> QED
  BY InitInv, NextInv, <1>1, PTL DEF Spec

\* docs/scheduler.md, invariant 1, for every sequence of calls to ready,
\* remove, block, schedule and yield_current, duplicate entries included.
THEOREM NeverOnTwoCpus == Spec => []OneCpuPerPid
<1>1. Inv => OneCpuPerPid
  BY DEF Inv
<1> QED
  BY InitInv, NextInv, <1>1, PTL DEF Spec

-----------------------------------------------------------------------------
(* Refinement *)

\* A new scheduler is an empty run set.
LEMMA RefinesInit == Init => Abstract!Init
  BY DEF Init, Abstract!Init, NewScheduler, Known, InQueue, OnCpu

\* Every method call is a step of the run set, or none.
LEMMA RefinesNext == Inv /\ [Next]_sched => [Abstract!Next]_(Abstract!vars)
<1> SUFFICES ASSUME Inv, [Next]_sched
             PROVE  [Abstract!Next]_(Abstract!vars)
  OBVIOUS
<1> USE DEF Inv, TypeOK, OneCpuPerPid
<1>1. ASSUME NEW p \in Pid, Ready(p)
      PROVE  Abstract!Next
  <2>1. Abstract!Admit(p)
    BY <1>1, ReadyKnown DEF Ready, Abstract!Admit
  <2> QED
    BY <2>1 DEF Abstract!Next
<1>2. ASSUME NEW p \in Pid, Remove(p)
      PROVE  Abstract!Next
  <2>1. Abstract!Withdraw(p)
    BY <1>2, RemoveKnown DEF Remove, Abstract!Withdraw
  <2> QED
    BY <2>1 DEF Abstract!Next
<1>3. ASSUME NEW c \in CPU, Schedule(c) \/ Yield(c)
      PROVE  Abstract!Next
  <2>1. sched' = schedule(sched, c) \/ sched' = yield_current(sched, c)
    BY <1>3 DEF Schedule, Yield
  <2>2. /\ Known(sched') = Known(sched)
        /\ \/ /\ Known(sched) \subseteq Busy(sched, c)
              /\ sched'.current = [sched.current EXCEPT ![c] = NoPid]
           \/ \E p \in Known(sched) \ Busy(sched, c) :
                 sched'.current = [sched.current EXCEPT ![c] = p]
    <3> DEFINE s == sched
               r == sched'
    <3>1. s \in SchedulerState /\ Exclusive(s) /\ (r = schedule(s, c) \/ r = yield_current(s, c))
      BY <2>1
    <3> HIDE DEF s, r
    <3>2. /\ Known(r) = Known(s)
          /\ \/ Known(s) \subseteq Busy(s, c) /\ r.current = [s.current EXCEPT ![c] = NoPid]
             \/ \E p \in Known(s) \ Busy(s, c) : r.current = [s.current EXCEPT ![c] = p]
      BY <3>1, DecisionDispatches, SMTT(30)
    <3> QED
      BY <3>2 DEF s, r
  <2>3. Abstract!Eligible(c) = Known(sched) \ Busy(sched, c)
    <3>1. NoPid \notin Known(sched)
      BY SchedulerAssumption DEF Known, InQueue, OnCpu, SchedulerState
    <3> QED
      BY <3>1 DEF Abstract!Eligible, Abstract!Elsewhere, Busy
  <2>4. Abstract!Dispatch(c)
    BY <2>2, <2>3 DEF Abstract!Dispatch
  <2> QED
    BY <2>4 DEF Abstract!Next
<1>4. CASE UNCHANGED sched
  BY <1>4 DEF Abstract!vars, Known, InQueue, OnCpu
<1> QED
  BY <1>1, <1>2, <1>3, <1>4 DEF Next

\* The round-robin scheduler implements RunSet: no decision forgets or
\* invents a pid, and none gives a CPU a pid that runs elsewhere.
THEOREM ImplementsRunSet == Spec => RefinesRunSet
  BY InitInv, NextInv, RefinesInit, RefinesNext, PTL DEF Spec, RefinesRunSet, Abstract!Spec

\* The scheduler is work conserving: no rotation past busy entries makes a
\* CPU overlook a pid that could run on it.
THEOREM WorkConserving == Spec => NeverIdleWithWork
<1>1. Inv /\ [Next]_sched =>
        [\A c \in CPU : (Schedule(c) \/ Yield(c)) /\ sched'.current[c] = NoPid
            => InQueue(sched') \subseteq OnCpu(sched')]_sched
  <2> SUFFICES ASSUME Inv, NEW c \in CPU, Schedule(c) \/ Yield(c), sched'.current[c] = NoPid
               PROVE  InQueue(sched') \subseteq OnCpu(sched')
    OBVIOUS
  <2> DEFINE s == sched
             r == sched'
  <2>1. /\ s \in SchedulerState /\ Exclusive(s) /\ r.current[c] = NoPid
        /\ r = schedule(s, c) \/ r = yield_current(s, c)
    BY DEF Inv, TypeOK, OneCpuPerPid, Schedule, Yield
  <2> HIDE DEF s, r
  <2>2. InQueue(r) \subseteq OnCpu(r)
    BY <2>1, IdleDecision
  <2> QED
    BY <2>2 DEF s, r
<1> QED
  BY InitInv, NextInv, <1>1, PTL DEF Spec, NeverIdleWithWork

-----------------------------------------------------------------------------
(* No overtaking *)

\* Any entry of p in the queue bounds the place of p.
LEMMA PlaceBound ==
    ASSUME NEW s \in SchedulerState, NEW p, NEW k \in 1 .. Len(s.queue), s.queue[k] = p
    PROVE  /\ p \in InQueue(s)
           /\ Place(s, p) \in 1 .. Len(s.queue) /\ s.queue[Place(s, p)] = p
           /\ Place(s, p) <= k
<1> DEFINE at == {i \in DOMAIN s.queue : s.queue[i] = p}
<1>1. s.queue \in Seq(Pid) /\ DOMAIN s.queue = 1 .. Len(s.queue) /\ Len(s.queue) \in Nat
  BY DEF SchedulerState
<1>2. at \subseteq Nat /\ k \in at
  BY <1>1
<1>3. Place(s, p) = First(at)
  BY DEF Place
<1>4. Place(s, p) \in at /\ Place(s, p) <= k
  <2> HIDE DEF at
  <2> QED
    BY <1>2, <1>3, FirstIsLeast
<1> QED
  BY <1>1, <1>2, <1>4 DEF InQueue

\* What dequeue_next() does to the place of a pid no CPU runs: it stands
\* behind every entry the search skips, so the rotation brings it forward.
LEMMA DequeueNoOvertaking ==
    ASSUME NEW s \in SchedulerState, NEW c \in CPU, NEW p \in Pid,
           p \notin OnCpu(s), NEW k \in 1 .. Len(s.queue), s.queue[k] = p
    PROVE  LET r == dequeue_next(s, c)
           IN  p \in OnCpu(r) \/ \E j \in 1 .. Len(r.queue) : j <= k /\ r.queue[j] = p
<1> DEFINE r == dequeue_next(s, c)
<1>1. s.queue \in Seq(Pid) /\ Len(s.queue) \in Nat
  BY DEF SchedulerState
<1>2. p \notin Busy(s, c)
  BY DEF Busy, OnCpu
<1>3. PICK i \in 1 .. Len(s.queue) :
            /\ \A j \in 1 .. i - 1 : s.queue[j] \in Busy(s, c)
            /\ r = [queue   |-> RotatedPast(s.queue, i),
                    current |-> [s.current EXCEPT ![c] = s.queue[i]],
                    ticks   |-> [s.ticks EXCEPT ![c] = 0]]
  BY <1>2, DequeueCases
<1>4. i <= k
  <2>1. k \notin 1 .. i - 1
    BY <1>2, <1>3
  <2> QED
    BY <1>1, <2>1
<1>5. CASE k = i
  <2>1. r.current[c] = p
    BY <1>3, <1>5 DEF SchedulerState
  <2>2. p # NoPid
    BY SchedulerAssumption
  <2> QED
    BY <2>1, <2>2 DEF OnCpu
<1>6. CASE i < k
  <2>1. r.queue = RotatedPast(s.queue, i)
    BY <1>3
  <2>2. Len(r.queue) = Len(s.queue) - 1
    BY <1>1, <2>1, RotatedPastType
  <2>3. k - i \in 1 .. Len(s.queue) - 1 /\ k - i <= Len(s.queue) - i /\ i + (k - i) = k /\ k - i <= k
    BY <1>1, <1>6
  <2>4. RotatedPast(s.queue, i)[k - i] = s.queue[k]
    BY <2>3 DEF RotatedPast
  <2> QED
    BY <2>1, <2>2, <2>3, <2>4
<1> QED
  BY <1>4, <1>5, <1>6

\* The same for a whole decision: the requeued pid goes behind everybody.
LEMMA DecisionNoOvertaking ==
    ASSUME NEW s \in SchedulerState, NEW c \in CPU, NEW p \in Pid,
           p \notin OnCpu(s), NEW k \in 1 .. Len(s.queue), s.queue[k] = p,
           NEW r, r = schedule(s, c) \/ r = yield_current(s, c)
    PROVE  p \in OnCpu(r) \/ \E j \in 1 .. Len(r.queue) : j <= k /\ r.queue[j] = p
<1>1. s.queue \in Seq(Pid) /\ Len(s.queue) \in Nat
  BY DEF SchedulerState
<1>2. CASE r = [s EXCEPT !.ticks[c] = @ + 1]
  BY <1>1, <1>2 DEF SchedulerState
<1>3. CASE r = dequeue_next(Requeued(s, c), c)
  <2> DEFINE t == Requeued(s, c)
  <2>1. t \in SchedulerState
    BY RequeuedType
  <2>2. t.current = [s.current EXCEPT ![c] = NoPid]
    BY RequeuedKnown
  <2>3. p \notin OnCpu(t)
    BY <2>2 DEF OnCpu, SchedulerState
  <2>4. k \in 1 .. Len(t.queue) /\ t.queue[k] = p
    <3>1. CASE s.current[c] = NoPid
      BY <3>1 DEF Requeued
    <3>2. CASE s.current[c] # NoPid
      <4>1. s.current[c] \in Pid
        BY <3>2 DEF SchedulerState
      <4>2. t.queue = Append(s.queue, s.current[c])
        BY <3>2 DEF Requeued
      <4> QED
        BY <1>1, <4>1, <4>2
    <3> QED
      BY <3>1, <3>2
  <2>5. r = dequeue_next(t, c)
    BY <1>3
  <2> HIDE DEF t
  <2> QED
    BY <2>1, <2>3, <2>4, <2>5, DequeueNoOvertaking
<1> QED
  BY <1>2, <1>3 DEF schedule, yield_current

\* No method call lets an entry overtake one that is free to run.
LEMMA StepNoOvertaking ==
    ASSUME Inv, Next, NEW p \in InQueue(sched) \ OnCpu(sched)
    PROVE  \/ Remove(p)
           \/ p \in OnCpu(sched')
           \/ p \in InQueue(sched') /\ Place(sched', p) <= Place(sched, p)
<1> DEFINE s == sched
           r == sched'
<1>1. s \in SchedulerState /\ r \in SchedulerState
  BY NextInv DEF Inv, TypeOK
<1>2. s.queue \in Seq(Pid) /\ Len(s.queue) \in Nat /\ DOMAIN s.queue = 1 .. Len(s.queue)
  BY <1>1 DEF SchedulerState
<1>3. PICK k0 \in 1 .. Len(s.queue) : s.queue[k0] = p
  BY <1>2 DEF InQueue
<1>4. PICK k \in 1 .. Len(s.queue) : k = Place(s, p) /\ s.queue[k] = p
  BY <1>1, <1>3, PlaceBound
<1>5. p \in Pid /\ p \notin OnCpu(s)
  BY <1>2, <1>3
<1>6. SUFFICES ASSUME ~ Remove(p), p \notin OnCpu(r)
               PROVE  \E j \in 1 .. Len(r.queue) : j <= k /\ r.queue[j] = p
  <2>1. SUFFICES ASSUME NEW j \in 1 .. Len(r.queue), j <= k, r.queue[j] = p
                 PROVE  p \in InQueue(r) /\ Place(r, p) <= k
    BY <1>4
  <2>2. p \in InQueue(r) /\ Place(r, p) \in 1 .. Len(r.queue) /\ Place(r, p) <= j
    BY <1>1, <2>1, PlaceBound
  <2>3. Len(r.queue) \in Nat
    BY <1>1 DEF SchedulerState
  <2> QED
    BY <1>2, <2>1, <2>2, <2>3
<1>7. ASSUME NEW x \in Pid, Ready(x)
      PROVE  \E j \in 1 .. Len(r.queue) : j <= k /\ r.queue[j] = p
  <2>1. r.queue = Append(s.queue, x)
    BY <1>1, <1>7 DEF Ready, ready, SchedulerState
  <2>2. k \in 1 .. Len(r.queue) /\ r.queue[k] = p /\ k <= k
    BY <1>2, <1>4, <2>1
  <2> QED
    BY <2>2
<1>8. ASSUME NEW x \in Pid, Remove(x)
      PROVE  \E j \in 1 .. Len(r.queue) : j <= k /\ r.queue[j] = p
  <2>1. x # p /\ r = remove(s, x)
    BY <1>6, <1>8 DEF Remove
  <2>2. CASE r.queue = s.queue
    BY <1>2, <1>4, <2>2
  <2>3. ASSUME NEW i \in 1 .. Len(s.queue), s.queue[i] = x, r.queue = WithoutIndex(s.queue, i)
        PROVE  \E j \in 1 .. Len(r.queue) : j <= k /\ r.queue[j] = p
    <3>1. k # i
      BY <1>4, <2>1, <2>3
    <3>2. Len(r.queue) = Len(s.queue) - 1
      BY <1>2, <2>3, WithoutIndexType
    <3>3. CASE k < i
      <4>1. WithoutIndex(s.queue, i)[k] = s.queue[k]
        BY <1>2, <3>3 DEF WithoutIndex
      <4> QED
        BY <1>2, <1>4, <2>3, <3>2, <3>3, <4>1
    <3>4. CASE i < k
      <4>1. k - 1 \in 1 .. Len(s.queue) - 1 /\ ~ (k - 1 < i) /\ (k - 1) + 1 = k /\ k - 1 <= k
        BY <1>2, <3>4
      <4>2. WithoutIndex(s.queue, i)[k - 1] = s.queue[k]
        BY <4>1 DEF WithoutIndex
      <4> QED
        BY <1>4, <2>3, <3>2, <4>1, <4>2
    <3> QED
      BY <1>2, <3>1, <3>3, <3>4
  <2> QED
    BY <1>1, <2>1, <2>2, <2>3, RemoveCases
<1>9. ASSUME NEW c \in CPU, Schedule(c) \/ Yield(c)
      PROVE  \E j \in 1 .. Len(r.queue) : j <= k /\ r.queue[j] = p
  <2>1. r = schedule(s, c) \/ r = yield_current(s, c)
    BY <1>9 DEF Schedule, Yield
  <2> HIDE DEF s, r
  <2> QED
    BY <1>1, <1>4, <1>5, <1>6, <2>1, DecisionNoOvertaking
<1> QED
  BY <1>7, <1>8, <1>9 DEF Next

\* Round robin is first come, first served: whatever is queued, removed,
\* rotated or requeued meanwhile, nobody is served before a pid that was
\* queued earlier and that no CPU runs.
THEOREM FirstComeFirstServed == Spec => NoOvertaking
<1>1. Inv /\ [Next]_sched =>
        [\A p \in InQueue(sched) \ OnCpu(sched) :
            \/ Remove(p)
            \/ p \in OnCpu(sched')
            \/ p \in InQueue(sched') /\ Place(sched', p) <= Place(sched, p)]_sched
  BY StepNoOvertaking
<1> QED
  BY InitInv, NextInv, <1>1, PTL DEF Spec, NoOvertaking

\* No decision loses or duplicates an entry, however many CPUs decide and
\* however busy entries and duplicates are mixed in the queue.
THEOREM NoEntryLost == Spec => DecisionsConserveEntries
<1>1. Inv /\ [Next]_sched =>
        [(\E c \in CPU : Schedule(c) \/ Yield(c))
            => \A p \in Pid : Entries(sched', p) = Entries(sched, p)]_sched
  <2> SUFFICES ASSUME Inv, NEW c \in CPU, Schedule(c) \/ Yield(c), NEW p \in Pid
               PROVE  Entries(sched', p) = Entries(sched, p)
    OBVIOUS
  <2> DEFINE s == sched
             r == sched'
  <2>1. /\ s \in SchedulerState /\ Exclusive(s)
        /\ r = schedule(s, c) \/ r = yield_current(s, c)
    BY DEF Inv, TypeOK, OneCpuPerPid, Schedule, Yield
  <2> HIDE DEF s, r
  <2>2. Entries(r, p) = Entries(s, p)
    BY <2>1, DecisionConserves
  <2> QED
    BY <2>2 DEF s, r
<1> QED
  BY InitInv, NextInv, <1>1, PTL DEF Spec, DecisionsConserveEntries
=============================================================================
