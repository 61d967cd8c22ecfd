------------------------- MODULE SchedulerOpsProofs -------------------------
(***************************************************************************)
(* What each method of the scheduler does to any scheduler state: it keeps *)
(* the type and the exclusivity of the CPUs, and it changes the set of     *)
(* known pids as the abstract scheduler (RunSet) allows.                   *)
(***************************************************************************)
EXTENDS SchedulerOps, WellFoundedInduction, FiniteSetTheorems, TLAPS

\* A non-empty set of numbers has a least element, and First picks it.
LEMMA FirstIsLeast ==
    ASSUME NEW S, S \subseteq Nat, S # {}
    PROVE  First(S) \in S /\ \A j \in S : First(S) <= j
<1> DEFINE less == OpToRel(<, Nat)
<1>1. PICK i \in S : \A j \in S : ~ (<<j, i>> \in less)
  <2>1. IsWellFoundedOn(less, Nat)
    BY NatLessThanWellFounded
  <2> QED
    BY <2>1, WFMin
<1>2. ASSUME NEW j \in S
      PROVE  i <= j
  <2>1. ~ (<<j, i>> \in less)
    BY <1>1
  <2>2. ~ (j < i)
    BY <2>1 DEF OpToRel
  <2> QED
    BY <2>2
<1> QED
  BY <1>2 DEF First

\* Dropping one entry leaves a queue.
LEMMA WithoutIndexType ==
    ASSUME NEW q \in Seq(Pid), NEW i \in DOMAIN q
    PROVE  /\ WithoutIndex(q, i) \in Seq(Pid)
           /\ Len(WithoutIndex(q, i)) = Len(q) - 1
  BY DEF WithoutIndex

\* Taking an entry out and rotating the ones before it leaves a queue.
LEMMA RotatedPastType ==
    ASSUME NEW q \in Seq(Pid), NEW i \in DOMAIN q
    PROVE  /\ RotatedPast(q, i) \in Seq(Pid)
           /\ Len(RotatedPast(q, i)) = Len(q) - 1
  BY DEF RotatedPast

-----------------------------------------------------------------------------
(* The two searches of the queue, by cases *)

\* remove() either finds no entry of p, or drops the oldest one.
LEMMA RemoveCases ==
    ASSUME NEW s \in SchedulerState, NEW p \in Pid
    PROVE  \/ /\ \A i \in 1 .. Len(s.queue) : s.queue[i] # p
              /\ remove(s, p).queue = s.queue
           \/ \E i \in 1 .. Len(s.queue) :
                 /\ s.queue[i] = p
                 /\ \A j \in 1 .. i - 1 : s.queue[j] # p
                 /\ remove(s, p).queue = WithoutIndex(s.queue, i)
<1> DEFINE at == {i \in DOMAIN s.queue : s.queue[i] = p}
<1>1. s.queue \in Seq(Pid) /\ DOMAIN s.queue = 1 .. Len(s.queue) /\ Len(s.queue) \in Nat
  BY DEF SchedulerState
<1>2. remove(s, p).queue = IF at = {} THEN s.queue ELSE WithoutIndex(s.queue, First(at))
  BY DEF remove
<1>3. CASE at = {}
  BY <1>1, <1>2, <1>3
<1>4. CASE at # {}
  <2>1. at \subseteq Nat
    BY <1>1
  <2>2. PICK i \in at : i = First(at) /\ \A j \in at : i <= j
    BY <1>4, <2>1, FirstIsLeast
  <2>3. ASSUME NEW j \in 1 .. i - 1
        PROVE  s.queue[j] # p
    <3>1. i \in 1 .. Len(s.queue)
      BY <1>1
    <3>2. j \in 1 .. Len(s.queue) /\ ~ (i <= j)
      BY <1>1, <3>1
    <3>3. j \notin at
      BY <2>2, <3>2
    <3> QED
      BY <1>1, <3>2, <3>3
  <2>4. remove(s, p).queue = WithoutIndex(s.queue, i)
    BY <1>2, <1>4, <2>2
  <2> QED
    BY <1>1, <2>2, <2>3, <2>4
<1> QED
  BY <1>3, <1>4

\* dequeue_next() either finds every entry busy and idles, or takes the
\* oldest entry that is not.
LEMMA DequeueCases ==
    ASSUME NEW s \in SchedulerState, NEW c \in CPU
    PROVE  \/ /\ \A i \in 1 .. Len(s.queue) : s.queue[i] \in Busy(s, c)
              /\ dequeue_next(s, c) = [s EXCEPT !.current[c] = NoPid]
           \/ \E i \in 1 .. Len(s.queue) :
                 /\ s.queue[i] \notin Busy(s, c)
                 /\ \A j \in 1 .. i - 1 : s.queue[j] \in Busy(s, c)
                 /\ dequeue_next(s, c) =
                       [queue   |-> RotatedPast(s.queue, i),
                        current |-> [s.current EXCEPT ![c] = s.queue[i]],
                        ticks   |-> [s.ticks EXCEPT ![c] = 0]]
<1> DEFINE free == {i \in DOMAIN s.queue : s.queue[i] \notin Busy(s, c)}
<1>1. s.queue \in Seq(Pid) /\ DOMAIN s.queue = 1 .. Len(s.queue) /\ Len(s.queue) \in Nat
  BY DEF SchedulerState
<1>2. dequeue_next(s, c) =
         IF free = {}
         THEN [s EXCEPT !.current[c] = NoPid]
         ELSE [queue   |-> RotatedPast(s.queue, First(free)),
               current |-> [s.current EXCEPT ![c] = s.queue[First(free)]],
               ticks   |-> [s.ticks EXCEPT ![c] = 0]]
  BY DEF dequeue_next
<1>3. CASE free = {}
  BY <1>1, <1>2, <1>3
<1>4. CASE free # {}
  <2>1. free \subseteq Nat
    BY <1>1
  <2>2. PICK i \in free : i = First(free) /\ \A j \in free : i <= j
    BY <1>4, <2>1, FirstIsLeast
  <2>3. ASSUME NEW j \in 1 .. i - 1
        PROVE  s.queue[j] \in Busy(s, c)
    <3>1. i \in 1 .. Len(s.queue)
      BY <1>1
    <3>2. j \in 1 .. Len(s.queue) /\ ~ (i <= j)
      BY <1>1, <3>1
    <3>3. j \notin free
      BY <2>2, <3>2
    <3> QED
      BY <1>1, <3>2, <3>3
  <2>4. dequeue_next(s, c) =
               [queue   |-> RotatedPast(s.queue, i),
                current |-> [s.current EXCEPT ![c] = s.queue[i]],
                ticks   |-> [s.ticks EXCEPT ![c] = 0]]
    <3> HIDE DEF free
    <3> QED
      BY <1>2, <1>4, <2>2
  <2> QED
    BY <1>1, <2>2, <2>3, <2>4
<1> QED
  BY <1>3, <1>4

-----------------------------------------------------------------------------
(* Types *)

\* ready() leaves a scheduler state.
LEMMA ReadyType ==
    ASSUME NEW s \in SchedulerState, NEW p \in Pid
    PROVE  ready(s, p) \in SchedulerState
<1>1. s.queue \in Seq(Pid)
  BY DEF SchedulerState
<1>2. Append(s.queue, p) \in Seq(Pid)
  BY <1>1
<1> QED
  BY <1>2 DEF ready, SchedulerState

\* remove() leaves a scheduler state.
LEMMA RemoveType ==
    ASSUME NEW s \in SchedulerState, NEW p \in Pid
    PROVE  remove(s, p) \in SchedulerState
<1>1. s.queue \in Seq(Pid)
  BY DEF SchedulerState
<1>2. remove(s, p).queue \in Seq(Pid)
  BY <1>1, RemoveCases, WithoutIndexType
<1>3. remove(s, p).current \in [CPU -> Pid \cup {NoPid}]
  BY DEF remove, SchedulerState
<1>4. remove(s, p).ticks \in [CPU -> 0 .. Quantum - 1]
  BY SchedulerAssumption DEF remove, SchedulerState
<1>5. remove(s, p) = [queue |-> remove(s, p).queue, current |-> remove(s, p).current,
                      ticks |-> remove(s, p).ticks]
  BY DEF remove
<1> QED
  BY <1>2, <1>3, <1>4, <1>5 DEF SchedulerState

\* Requeueing the running pid leaves a scheduler state.
LEMMA RequeuedType ==
    ASSUME NEW s \in SchedulerState, NEW c \in CPU
    PROVE  Requeued(s, c) \in SchedulerState
  BY SchedulerAssumption DEF Requeued, SchedulerState

\* dequeue_next() leaves a scheduler state.
LEMMA DequeueType ==
    ASSUME NEW s \in SchedulerState, NEW c \in CPU
    PROVE  dequeue_next(s, c) \in SchedulerState
<1>1. s.queue \in Seq(Pid)
  BY DEF SchedulerState
<1>2. CASE dequeue_next(s, c) = [s EXCEPT !.current[c] = NoPid]
  BY <1>2 DEF SchedulerState
<1>3. ASSUME NEW i \in 1 .. Len(s.queue),
             dequeue_next(s, c) = [queue   |-> RotatedPast(s.queue, i),
                                   current |-> [s.current EXCEPT ![c] = s.queue[i]],
                                   ticks   |-> [s.ticks EXCEPT ![c] = 0]]
      PROVE  dequeue_next(s, c) \in SchedulerState
  <2>1. RotatedPast(s.queue, i) \in Seq(Pid)
    BY <1>1, RotatedPastType
  <2>2. s.queue[i] \in Pid
    BY <1>1
  <2> QED
    BY <1>3, <2>1, <2>2, SchedulerAssumption DEF SchedulerState
<1> QED
  BY <1>2, <1>3, DequeueCases

\* yield_current() leaves a scheduler state.
LEMMA YieldType ==
    ASSUME NEW s \in SchedulerState, NEW c \in CPU
    PROVE  yield_current(s, c) \in SchedulerState
  BY RequeuedType, DequeueType DEF yield_current

\* schedule() leaves a scheduler state: no CPU counts up to its quantum.
LEMMA ScheduleType ==
    ASSUME NEW s \in SchedulerState, NEW c \in CPU
    PROVE  schedule(s, c) \in SchedulerState
<1>1. CASE s.current[c] # NoPid /\ s.ticks[c] + 1 < Quantum
  <2>1. s.ticks[c] + 1 \in 0 .. Quantum - 1
    BY <1>1, SchedulerAssumption DEF SchedulerState
  <2> QED
    BY <1>1, <2>1 DEF schedule, SchedulerState
<1>2. CASE ~ (s.current[c] # NoPid /\ s.ticks[c] + 1 < Quantum)
  BY <1>2, RequeuedType, DequeueType DEF schedule
<1> QED
  BY <1>1, <1>2

-----------------------------------------------------------------------------
(* Exclusivity *)

\* remove() puts no pid on a second CPU.
LEMMA RemoveExclusive ==
    ASSUME NEW s \in SchedulerState, NEW p \in Pid, Exclusive(s)
    PROVE  Exclusive(remove(s, p))
  BY SchedulerAssumption DEF remove, Exclusive, SchedulerState

\* Requeueing puts no pid on a second CPU.
LEMMA RequeuedExclusive ==
    ASSUME NEW s \in SchedulerState, NEW c \in CPU, Exclusive(s)
    PROVE  Exclusive(Requeued(s, c)) /\ Requeued(s, c).current[c] = NoPid
  BY DEF Requeued, Exclusive, SchedulerState

\* The pid dequeue_next() picks is not in Busy: no other CPU runs it.
LEMMA DequeueExclusive ==
    ASSUME NEW s \in SchedulerState, NEW c \in CPU, Exclusive(s)
    PROVE  Exclusive(dequeue_next(s, c))
<1>1. CASE dequeue_next(s, c) = [s EXCEPT !.current[c] = NoPid]
  BY <1>1 DEF Exclusive, SchedulerState
<1>2. ASSUME NEW i \in 1 .. Len(s.queue),
             s.queue[i] \notin Busy(s, c),
             dequeue_next(s, c) = [queue   |-> RotatedPast(s.queue, i),
                                   current |-> [s.current EXCEPT ![c] = s.queue[i]],
                                   ticks   |-> [s.ticks EXCEPT ![c] = 0]]
      PROVE  Exclusive(dequeue_next(s, c))
  <2>1. s.queue[i] # NoPid
    BY SchedulerAssumption DEF SchedulerState
  <2>2. \A d \in CPU \ {c} : s.current[d] # s.queue[i]
    BY <1>2, <2>1 DEF Busy
  <2> QED
    BY <1>2, <2>2 DEF Exclusive, SchedulerState
<1> QED
  BY <1>1, <1>2, DequeueCases

\* schedule() puts no pid on a second CPU.
LEMMA ScheduleExclusive ==
    ASSUME NEW s \in SchedulerState, NEW c \in CPU, Exclusive(s)
    PROVE  Exclusive(schedule(s, c)) /\ Exclusive(yield_current(s, c))
<1>1. Exclusive(dequeue_next(Requeued(s, c), c))
  BY RequeuedType, RequeuedExclusive, DequeueExclusive
<1>2. Exclusive([s EXCEPT !.ticks[c] = @ + 1])
  BY DEF Exclusive, SchedulerState
<1> QED
  BY <1>1, <1>2 DEF schedule, yield_current

-----------------------------------------------------------------------------
(* The pids the scheduler knows *)

\* Dropping entry i leaves exactly the other entries.
LEMMA WithoutIndexEntries ==
    ASSUME NEW q \in Seq(Pid), NEW i \in 1 .. Len(q)
    PROVE  LET r == WithoutIndex(q, i)
           IN  {r[k] : k \in DOMAIN r} = {q[k] : k \in 1 .. Len(q) \ {i}}
<1> DEFINE r == WithoutIndex(q, i)
<1>1. /\ DOMAIN r = 1 .. Len(q) - 1
      /\ \A k \in 1 .. Len(q) - 1 : r[k] = IF k < i THEN q[k] ELSE q[k + 1]
  BY DEF WithoutIndex
<1>2. ASSUME NEW k \in 1 .. Len(q) - 1
      PROVE  \E j \in 1 .. Len(q) \ {i} : q[j] = r[k]
  <2>1. CASE k < i
    BY <1>1, <2>1
  <2>2. CASE ~ (k < i)
    <3>1. k + 1 \in 1 .. Len(q) \ {i}
      BY <2>2
    <3> QED
      BY <1>1, <2>2, <3>1
  <2> QED
    BY <2>1, <2>2
<1>3. ASSUME NEW j \in 1 .. Len(q) \ {i}
      PROVE  \E k \in 1 .. Len(q) - 1 : r[k] = q[j]
  <2>1. CASE j < i
    BY <1>1, <2>1
  <2>2. CASE ~ (j < i)
    <3>1. j - 1 \in 1 .. Len(q) - 1 /\ ~ (j - 1 < i) /\ (j - 1) + 1 = j
      BY <2>2
    <3> QED
      BY <1>1, <3>1
  <2> QED
    BY <2>1, <2>2
<1> HIDE DEF r
<1>4. {r[k] : k \in DOMAIN r} = {q[k] : k \in 1 .. Len(q) \ {i}}
  <2>1. DOMAIN r = 1 .. Len(q) - 1
    BY <1>1
  <2>2. \A k \in DOMAIN r : \E j \in 1 .. Len(q) \ {i} : q[j] = r[k]
    BY <1>2, <2>1
  <2>3. \A j \in 1 .. Len(q) \ {i} : \E k \in DOMAIN r : r[k] = q[j]
    BY <1>3, <2>1
  <2> QED
    BY <2>2, <2>3, ZenonT(60)
<1> QED
  BY <1>4 DEF r

\* So does taking it out with the rotation of dequeue_next.
LEMMA RotatedPastEntries ==
    ASSUME NEW q \in Seq(Pid), NEW i \in 1 .. Len(q)
    PROVE  LET r == RotatedPast(q, i)
           IN  {r[k] : k \in DOMAIN r} = {q[k] : k \in 1 .. Len(q) \ {i}}
<1> DEFINE r == RotatedPast(q, i)
           n == Len(q) - i
<1>1. /\ DOMAIN r = 1 .. Len(q) - 1
      /\ \A k \in 1 .. Len(q) - 1 : r[k] = IF k <= n THEN q[i + k] ELSE q[k - n]
  BY DEF RotatedPast
<1>2. ASSUME NEW k \in 1 .. Len(q) - 1
      PROVE  \E j \in 1 .. Len(q) \ {i} : q[j] = r[k]
  <2>1. CASE k <= n
    <3>1. i + k \in 1 .. Len(q) \ {i}
      BY <2>1
    <3> QED
      BY <1>1, <2>1, <3>1
  <2>2. CASE ~ (k <= n)
    <3>1. k - n \in 1 .. Len(q) \ {i}
      BY <2>2
    <3> QED
      BY <1>1, <2>2, <3>1
  <2> QED
    BY <2>1, <2>2
<1>3. ASSUME NEW j \in 1 .. Len(q) \ {i}
      PROVE  \E k \in 1 .. Len(q) - 1 : r[k] = q[j]
  <2>1. CASE j < i
    <3>1. j + n \in 1 .. Len(q) - 1 /\ ~ (j + n <= n) /\ (j + n) - n = j
      BY <2>1
    <3> QED
      BY <1>1, <3>1
  <2>2. CASE ~ (j < i)
    <3>1. j - i \in 1 .. Len(q) - 1 /\ j - i <= n /\ i + (j - i) = j
      BY <2>2
    <3> QED
      BY <1>1, <3>1
  <2> QED
    BY <2>1, <2>2
<1> HIDE DEF r
<1>4. {r[k] : k \in DOMAIN r} = {q[k] : k \in 1 .. Len(q) \ {i}}
  <2>1. DOMAIN r = 1 .. Len(q) - 1
    BY <1>1
  <2>2. \A k \in DOMAIN r : \E j \in 1 .. Len(q) \ {i} : q[j] = r[k]
    BY <1>2, <2>1
  <2>3. \A j \in 1 .. Len(q) \ {i} : \E k \in DOMAIN r : r[k] = q[j]
    BY <1>3, <2>1
  <2> QED
    BY <2>2, <2>3, ZenonT(60)
<1> QED
  BY <1>4 DEF r


\* ready() adds p.
LEMMA ReadyKnown ==
    ASSUME NEW s \in SchedulerState, NEW p \in Pid
    PROVE  /\ ready(s, p).current = s.current
           /\ Known(ready(s, p)) = Known(s) \cup {p}
<1> DEFINE r == Append(s.queue, p)
<1>1. s.queue \in Seq(Pid) /\ Len(s.queue) \in Nat /\ DOMAIN s.queue = 1 .. Len(s.queue)
  BY DEF SchedulerState
<1>2. /\ DOMAIN r = 1 .. Len(s.queue) + 1
      /\ \A k \in 1 .. Len(s.queue) : r[k] = s.queue[k]
      /\ r[Len(s.queue) + 1] = p
  BY <1>1
<1>3. ready(s, p).current = s.current /\ ready(s, p).queue = r
  BY DEF ready, SchedulerState
<1> HIDE DEF r
<1>4. {r[k] : k \in DOMAIN r} = {s.queue[k] : k \in DOMAIN s.queue} \cup {p}
  <2>1. \A k \in DOMAIN r : k \in DOMAIN s.queue \/ k = Len(s.queue) + 1
    BY <1>1, <1>2
  <2>2. \A k \in DOMAIN s.queue : k \in DOMAIN r /\ r[k] = s.queue[k]
    BY <1>1, <1>2
  <2>3. Len(s.queue) + 1 \in DOMAIN r
    BY <1>1, <1>2
  <2> QED
    BY <1>2, <2>1, <2>2, <2>3
<1> QED
  BY <1>3, <1>4 DEF Known, InQueue, OnCpu

\* remove() takes p off every CPU; p stays known only through a second
\* queue entry, and nobody else is touched.
LEMMA RemoveKnown ==
    ASSUME NEW s \in SchedulerState, NEW p \in Pid
    PROVE  /\ remove(s, p).current =
                 [c \in CPU |-> IF s.current[c] = p THEN NoPid ELSE s.current[c]]
           /\ Known(remove(s, p)) \in {Known(s), Known(s) \ {p}}
<1> DEFINE r == remove(s, p)
<1>1. s.queue \in Seq(Pid) /\ Len(s.queue) \in Nat /\ DOMAIN s.queue = 1 .. Len(s.queue)
  BY DEF SchedulerState
<1>2. r.current = [c \in CPU |-> IF s.current[c] = p THEN NoPid ELSE s.current[c]]
  BY DEF remove
<1>3. OnCpu(r) = OnCpu(s) \ {p}
  BY <1>2 DEF OnCpu
<1>4. InQueue(r) \in {InQueue(s), InQueue(s) \ {p}} /\ InQueue(s) \subseteq InQueue(r) \cup {p}
  <2>1. CASE r.queue = s.queue
    BY <2>1 DEF InQueue
  <2>2. ASSUME NEW i \in 1 .. Len(s.queue),
               s.queue[i] = p, r.queue = WithoutIndex(s.queue, i)
        PROVE  InQueue(r) \in {InQueue(s), InQueue(s) \ {p}}
                  /\ InQueue(s) \subseteq InQueue(r) \cup {p}
    <3>1. InQueue(r) = {s.queue[k] : k \in 1 .. Len(s.queue) \ {i}}
      BY <1>1, <2>2, WithoutIndexEntries DEF InQueue
    <3>2. InQueue(s) = {s.queue[k] : k \in 1 .. Len(s.queue)}
      BY <1>1 DEF InQueue
    <3> QED
      BY <2>2, <3>1, <3>2
  <2> QED
    BY <2>1, <2>2, RemoveCases
<1>5. Known(r) \in {Known(s), Known(s) \ {p}}
  BY <1>3, <1>4 DEF Known
<1> QED
  BY <1>2, <1>5

\* Requeueing the current pid of a CPU forgets nobody.
LEMMA RequeuedKnown ==
    ASSUME NEW s \in SchedulerState, NEW c \in CPU
    PROVE  /\ Requeued(s, c).current = [s.current EXCEPT ![c] = NoPid]
           /\ Known(Requeued(s, c)) = Known(s)
<1>1. CASE s.current[c] = NoPid
  BY <1>1 DEF Requeued, SchedulerState
<1>2. CASE s.current[c] # NoPid
  <2> DEFINE p == s.current[c]
             t == ready(s, p)
             r == Requeued(s, c)
  <2>1. p \in Pid /\ p \in Known(s)
    BY <1>2 DEF SchedulerState, Known, OnCpu
  <2>2. Known(t) = Known(s) /\ t.current = s.current
    BY <2>1, ReadyKnown
  <2>3. r.queue = t.queue /\ r.current = [s.current EXCEPT ![c] = NoPid]
    BY <1>2 DEF Requeued, ready, SchedulerState
  <2>4. p \in InQueue(t)
    <3>1. s.queue \in Seq(Pid) /\ Len(s.queue) \in Nat /\ t.queue = Append(s.queue, p)
      BY DEF SchedulerState, ready
    <3>2. Len(s.queue) + 1 \in DOMAIN t.queue /\ t.queue[Len(s.queue) + 1] = p
      BY <2>1, <3>1
    <3> QED
      BY <3>2 DEF InQueue
  <2>5. OnCpu(r) \subseteq OnCpu(t) /\ OnCpu(t) \subseteq OnCpu(r) \cup {p}
    BY <2>2, <2>3 DEF OnCpu, SchedulerState
  <2>6. Known(r) = Known(s)
    BY <2>2, <2>3, <2>4, <2>5 DEF Known, InQueue
  <2> QED
    BY <2>3, <2>6
<1> QED
  BY <1>1, <1>2


\* dequeue_next() for a CPU that runs nothing: the known pids stay, and the
\* CPU gets one that no other CPU runs, or idles because there is none.
LEMMA DequeueKnown ==
    ASSUME NEW s \in SchedulerState, NEW c \in CPU, s.current[c] = NoPid
    PROVE  LET r == dequeue_next(s, c)
           IN  /\ Known(r) = Known(s)
               /\ \/ Known(s) \subseteq Busy(s, c) /\ r.current = [s.current EXCEPT ![c] = NoPid]
                  \/ \E p \in Known(s) \ Busy(s, c) : r.current = [s.current EXCEPT ![c] = p]
<1> DEFINE r == dequeue_next(s, c)
<1>1. s.queue \in Seq(Pid) /\ Len(s.queue) \in Nat /\ DOMAIN s.queue = 1 .. Len(s.queue)
  BY DEF SchedulerState
<1>2. CASE /\ \A i \in 1 .. Len(s.queue) : s.queue[i] \in Busy(s, c)
           /\ r = [s EXCEPT !.current[c] = NoPid]
  <2>1. r.current = [s.current EXCEPT ![c] = NoPid] /\ r.queue = s.queue
    BY <1>2 DEF SchedulerState
  <2>2. r.current = s.current
    BY <2>1 DEF SchedulerState
  <2>3. Known(r) = Known(s)
    BY <2>1, <2>2 DEF Known, InQueue, OnCpu
  <2>4. InQueue(s) \subseteq Busy(s, c)
    BY <1>1, <1>2 DEF InQueue
  <2>5. OnCpu(s) \subseteq Busy(s, c)
    BY DEF OnCpu, Busy
  <2> QED
    BY <2>1, <2>3, <2>4, <2>5 DEF Known
<1>3. ASSUME NEW i \in 1 .. Len(s.queue),
             s.queue[i] \notin Busy(s, c),
             r = [queue   |-> RotatedPast(s.queue, i),
                  current |-> [s.current EXCEPT ![c] = s.queue[i]],
                  ticks   |-> [s.ticks EXCEPT ![c] = 0]]
      PROVE  /\ Known(r) = Known(s)
             /\ \E p \in Known(s) \ Busy(s, c) : r.current = [s.current EXCEPT ![c] = p]
  <2> DEFINE p == s.queue[i]
  <2>1. p \in Pid /\ p # NoPid
    BY <1>1, SchedulerAssumption
  <2>2. r.current = [s.current EXCEPT ![c] = p]
    BY <1>3
  <2>3. InQueue(r) = {s.queue[k] : k \in 1 .. Len(s.queue) \ {i}}
    <3>1. r.queue = RotatedPast(s.queue, i)
      BY <1>3
    <3> DEFINE v == RotatedPast(s.queue, i)
    <3>2. {v[k] : k \in DOMAIN v} = {s.queue[k] : k \in 1 .. Len(s.queue) \ {i}}
      BY <1>1, RotatedPastEntries
    <3> HIDE DEF r, v
    <3> QED
      BY <3>1, <3>2 DEF InQueue, v
  <2>4. InQueue(s) = {s.queue[k] : k \in 1 .. Len(s.queue)}
    BY <1>1 DEF InQueue
  <2>5. InQueue(s) = InQueue(r) \cup {p}
    BY <2>3, <2>4
  <2>6. OnCpu(r) = OnCpu(s) \cup {p}
    BY <2>1, <2>2 DEF OnCpu, SchedulerState
  <2>7. Known(r) = Known(s) /\ p \in Known(s)
    BY <2>5, <2>6 DEF Known
  <2> QED
    BY <1>3, <2>2, <2>7
<1> QED
  BY <1>2, <1>3, DequeueCases

\* A decision, schedule() or yield_current(), dispatches as RunSet allows.
\* With quantum left the running pid keeps its CPU, which is allowed
\* because no other CPU runs it.
LEMMA DecisionDispatches ==
    ASSUME NEW s \in SchedulerState, NEW c \in CPU, Exclusive(s),
           NEW r, r = schedule(s, c) \/ r = yield_current(s, c)
    PROVE  /\ Known(r) = Known(s)
           /\ \/ Known(s) \subseteq Busy(s, c) /\ r.current = [s.current EXCEPT ![c] = NoPid]
              \/ \E p \in Known(s) \ Busy(s, c) : r.current = [s.current EXCEPT ![c] = p]
<1>1. CASE r = dequeue_next(Requeued(s, c), c)
  <2> DEFINE t == Requeued(s, c)
  <2>1. t \in SchedulerState
    BY RequeuedType
  <2>2. t.current = [s.current EXCEPT ![c] = NoPid] /\ Known(t) = Known(s)
    BY RequeuedKnown
  <2>3. t.current[c] = NoPid /\ Busy(t, c) = Busy(s, c)
    BY <2>2 DEF Busy, SchedulerState
  <2>4. \A p : [t.current EXCEPT ![c] = p] = [s.current EXCEPT ![c] = p]
    BY <2>2 DEF SchedulerState
  <2>5. r = dequeue_next(t, c)
    BY <1>1
  <2> HIDE DEF t
  <2>6. /\ Known(r) = Known(t)
        /\ \/ Known(t) \subseteq Busy(t, c) /\ r.current = [t.current EXCEPT ![c] = NoPid]
           \/ \E p \in Known(t) \ Busy(t, c) : r.current = [t.current EXCEPT ![c] = p]
    BY <2>1, <2>3, <2>5, DequeueKnown
  <2> QED
    BY <2>2, <2>3, <2>4, <2>6
<1>2. CASE s.current[c] # NoPid /\ r = [s EXCEPT !.ticks[c] = @ + 1]
  <2>1. r.current = s.current /\ r.queue = s.queue
    BY <1>2 DEF SchedulerState
  <2>2. Known(r) = Known(s)
    BY <2>1 DEF Known, InQueue, OnCpu
  <2>3. s.current[c] \in Known(s) \ Busy(s, c)
    BY <1>2 DEF Known, OnCpu, Busy, Exclusive
  <2>4. r.current = [s.current EXCEPT ![c] = s.current[c]]
    BY <2>1 DEF SchedulerState
  <2> QED
    BY <2>2, <2>3, <2>4
<1> QED
  BY <1>1, <1>2 DEF schedule, yield_current

\* A CPU that a decision leaves idle had nobody to run.
LEMMA IdleDecision ==
    ASSUME NEW s \in SchedulerState, NEW c \in CPU, Exclusive(s),
           NEW r, r = schedule(s, c) \/ r = yield_current(s, c), r.current[c] = NoPid
    PROVE  InQueue(r) \subseteq OnCpu(r)
<1>1. /\ Known(r) = Known(s)
      /\ \/ Known(s) \subseteq Busy(s, c) /\ r.current = [s.current EXCEPT ![c] = NoPid]
         \/ \E p \in Known(s) \ Busy(s, c) : r.current = [s.current EXCEPT ![c] = p]
  BY DecisionDispatches
<1>2. s.current \in [CPU -> Pid \cup {NoPid}] /\ Known(s) \subseteq Pid
  BY DEF SchedulerState, Known, InQueue, OnCpu
<1>3. Known(s) \subseteq Busy(s, c) /\ r.current = [s.current EXCEPT ![c] = NoPid]
  BY <1>1, <1>2, SchedulerAssumption
<1>4. Busy(s, c) \subseteq OnCpu(r)
  BY <1>2, <1>3 DEF Busy, OnCpu
<1> QED
  BY <1>1, <1>3, <1>4 DEF Known

-----------------------------------------------------------------------------
(* How many entries a pid has in the queue *)

At(q, p)    == {i \in DOMAIN q : q[i] = p}
Count(q, p) == Cardinality(At(q, p))

\* A queue has finitely many entries of a pid.
LEMMA CountType ==
    ASSUME NEW q \in Seq(Pid), NEW p
    PROVE  /\ IsFiniteSet(At(q, p)) /\ Count(q, p) \in Nat
           /\ Count(q, p) = 0 <=> \A i \in 1 .. Len(q) : q[i] # p
<1>1. DOMAIN q = 1 .. Len(q) /\ Len(q) \in Nat
  OBVIOUS
<1>2. IsFiniteSet(1 .. Len(q))
  BY <1>1, FS_Interval
<1>3. At(q, p) \in SUBSET (1 .. Len(q))
  BY <1>1 DEF At
<1>4. IsFiniteSet(At(q, p))
  BY <1>2, <1>3, FS_Subset
<1>5. Count(q, p) \in Nat /\ (Count(q, p) = 0 <=> At(q, p) = {})
  BY <1>4, FS_CardinalityType, FS_EmptySet DEF Count
<1>6. At(q, p) = {} <=> \A i \in 1 .. Len(q) : q[i] # p
  BY <1>1 DEF At
<1> QED
  BY <1>4, <1>5, <1>6

\* f and g go to and fro between S and T.
Inverses(f, g, S, T) == /\ f \in [S -> T] /\ \A x \in S : g[f[x]] = x
                        /\ g \in [T -> S] /\ \A y \in T : f[g[y]] = y

\* Then S and T have the same size.
LEMMA SameSize ==
    ASSUME NEW S, NEW T, IsFiniteSet(S), NEW f, NEW g, Inverses(f, g, S, T)
    PROVE  Cardinality(T) = Cardinality(S)
<1>1. f \in Injection(S, T)
  BY DEF Injection, IsInjective, Inverses
<1>2. f \in Surjection(S, T)
  BY DEF Surjection, Inverses
<1>3. ExistsBijection(S, T)
  BY <1>1, <1>2 DEF ExistsBijection, Bijection
<1> QED
  BY <1>3, FS_Bijection

\* push_back adds an entry of its pid.
LEMMA CountAppend ==
    ASSUME NEW q \in Seq(Pid), NEW x \in Pid, NEW p
    PROVE  Count(Append(q, x), p) = Count(q, p) + (IF x = p THEN 1 ELSE 0)
<1> DEFINE r == Append(q, x)
           n == Len(q) + 1
<1>1. /\ Len(q) \in Nat /\ DOMAIN q = 1 .. Len(q) /\ DOMAIN r = 1 .. n
      /\ \A i \in 1 .. Len(q) : r[i] = q[i]
      /\ r[n] = x
  OBVIOUS
<1> HIDE DEF r
<1>2. At(r, p) = IF x = p THEN At(q, p) \cup {n} ELSE At(q, p)
  <2>1. \A i : i \in 1 .. n <=> i \in 1 .. Len(q) \/ i = n
    BY <1>1
  <2> HIDE DEF n
  <2> QED
    BY <1>1, <2>1 DEF At
<1>3. n \notin At(q, p)
  BY <1>1 DEF At
<1>4. IsFiniteSet(At(q, p)) /\ Count(q, p) \in Nat
  BY CountType
<1> HIDE DEF n
<1>5. Cardinality(At(q, p) \cup {n}) = Cardinality(At(q, p)) + 1
  BY <1>3, <1>4, FS_AddElement
<1>6. Count(r, p) = Count(q, p) + (IF x = p THEN 1 ELSE 0)
  BY <1>2, <1>4, <1>5 DEF Count
<1> QED
  BY <1>6 DEF r

\* A queue r that holds the entries of q but entry i, each in another place,
\* has as many entries of p as q less that one.
LEMMA CountMoved ==
    ASSUME NEW q \in Seq(Pid), NEW i \in 1 .. Len(q), NEW p,
           NEW r, NEW f, NEW g, Inverses(f, g, 1 .. Len(q) \ {i}, DOMAIN r),
           DOMAIN r = 1 .. Len(q) - 1, \A k \in DOMAIN r : r[k] = q[g[k]]
    PROVE  Count(q, p) = Count(r, p) + (IF q[i] = p THEN 1 ELSE 0)
<1> DEFINE S == At(q, p) \ {i}
           T == At(r, p)
           F == [k \in S |-> f[k]]
           G == [k \in T |-> g[k]]
<1>1. DOMAIN q = 1 .. Len(q)
  OBVIOUS
<1>2. IsFiniteSet(At(q, p)) /\ Count(q, p) \in Nat
  BY CountType
<1>3. IsFiniteSet(S) /\ Cardinality(S) = IF q[i] = p THEN Count(q, p) - 1 ELSE Count(q, p)
  BY <1>1, <1>2, FS_RemoveElement DEF Count, At
<1> DEFINE D == 1 .. Len(q) \ {i}
           E == DOMAIN r
<1>a. /\ f \in [D -> E] /\ g \in [E -> D]
      /\ \A k \in D : g[f[k]] = k
      /\ \A k \in E : f[g[k]] = k /\ r[k] = q[g[k]]
      /\ S = {k \in D : q[k] = p} /\ T = {k \in E : r[k] = p}
  BY <1>1 DEF At, Inverses
<1> HIDE DEF D, E, S, T
<1>4. F \in [S -> T]
  BY <1>a
<1>5. G \in [T -> S]
  BY <1>a
<1>6. \A x \in S : G[F[x]] = x
  BY <1>4, <1>a
<1>7. \A y \in T : F[G[y]] = y
  BY <1>5, <1>a
<1>8. Inverses(F, G, S, T)
  BY <1>4, <1>5, <1>6, <1>7 DEF Inverses
<1> HIDE DEF F, G
<1>9. Cardinality(T) = Cardinality(S)
  BY <1>3, <1>8, SameSize
<1> QED
  BY <1>2, <1>3, <1>9 DEF Count, T

\* Dropping entry i drops one entry of its pid and none of the others.
LEMMA CountWithout ==
    ASSUME NEW q \in Seq(Pid), NEW i \in 1 .. Len(q), NEW p
    PROVE  Count(q, p) = Count(WithoutIndex(q, i), p) + (IF q[i] = p THEN 1 ELSE 0)
<1> DEFINE r == WithoutIndex(q, i)
           f == [k \in 1 .. Len(q) \ {i} |-> IF k < i THEN k ELSE k - 1]
           g == [k \in 1 .. Len(q) - 1 |-> IF k < i THEN k ELSE k + 1]
<1>1. Len(q) \in Nat /\ i \in Nat /\ DOMAIN r = 1 .. Len(q) - 1
  BY DEF WithoutIndex
<1>2. f \in [1 .. Len(q) \ {i} -> 1 .. Len(q) - 1]
  BY <1>1
<1>3. g \in [1 .. Len(q) - 1 -> 1 .. Len(q) \ {i}]
  BY <1>1
<1>4. \A k \in 1 .. Len(q) \ {i} : g[f[k]] = k
  BY <1>1
<1>5. \A k \in 1 .. Len(q) - 1 : f[g[k]] = k /\ r[k] = q[g[k]]
  BY <1>1 DEF WithoutIndex
<1>6. Inverses(f, g, 1 .. Len(q) \ {i}, DOMAIN r) /\ \A k \in DOMAIN r : r[k] = q[g[k]]
  <2> HIDE DEF r, f, g
  <2> QED
    BY <1>1, <1>2, <1>3, <1>4, <1>5 DEF Inverses
<1> HIDE DEF r, f, g
<1>7. Count(q, p) = Count(r, p) + (IF q[i] = p THEN 1 ELSE 0)
  BY <1>1, <1>6, CountMoved
<1> QED
  BY <1>7 DEF r

\* So does the rotation of dequeue_next.
LEMMA CountRotated ==
    ASSUME NEW q \in Seq(Pid), NEW i \in 1 .. Len(q), NEW p
    PROVE  Count(q, p) = Count(RotatedPast(q, i), p) + (IF q[i] = p THEN 1 ELSE 0)
<1> DEFINE r == RotatedPast(q, i)
           n == Len(q) - i
           f == [k \in 1 .. Len(q) \ {i} |-> IF k < i THEN k + n ELSE k - i]
           g == [k \in 1 .. Len(q) - 1 |-> IF k <= n THEN i + k ELSE k - n]
<1>1. Len(q) \in Nat /\ i \in Nat /\ DOMAIN r = 1 .. Len(q) - 1
  BY DEF RotatedPast
<1>2. f \in [1 .. Len(q) \ {i} -> 1 .. Len(q) - 1]
  BY <1>1
<1>3. g \in [1 .. Len(q) - 1 -> 1 .. Len(q) \ {i}]
  BY <1>1
<1>4. \A k \in 1 .. Len(q) \ {i} : g[f[k]] = k
  BY <1>1
<1>5. \A k \in 1 .. Len(q) - 1 : f[g[k]] = k /\ r[k] = q[g[k]]
  BY <1>1 DEF RotatedPast
<1>6. Inverses(f, g, 1 .. Len(q) \ {i}, DOMAIN r) /\ \A k \in DOMAIN r : r[k] = q[g[k]]
  <2> HIDE DEF r, f, g
  <2> QED
    BY <1>1, <1>2, <1>3, <1>4, <1>5 DEF Inverses
<1> HIDE DEF r, f, g
<1>7. Count(q, p) = Count(r, p) + (IF q[i] = p THEN 1 ELSE 0)
  BY <1>1, <1>6, CountMoved
<1> QED
  BY <1>7 DEF r

-----------------------------------------------------------------------------
(* Conservation of entries *)

\* dequeue_next() for a CPU that runs nothing moves the entry it takes from
\* the queue to the CPU and rotates the others.
LEMMA DequeueConserves ==
    ASSUME NEW s \in SchedulerState, NEW c \in CPU, s.current[c] = NoPid, NEW p \in Pid
    PROVE  Entries(dequeue_next(s, c), p) = Entries(s, p)
<1> DEFINE r == dequeue_next(s, c)
<1>1. s.queue \in Seq(Pid) /\ s.current \in [CPU -> Pid \cup {NoPid}]
  BY DEF SchedulerState
<1>2. CASE r = [s EXCEPT !.current[c] = NoPid]
  <2>1. r.queue = s.queue /\ r.current = s.current
    BY <1>1, <1>2 DEF SchedulerState
  <2> QED
    BY <2>1 DEF Entries, OnCpu
<1>3. ASSUME NEW i \in 1 .. Len(s.queue),
             s.queue[i] \notin Busy(s, c),
             r = [queue   |-> RotatedPast(s.queue, i),
                  current |-> [s.current EXCEPT ![c] = s.queue[i]],
                  ticks   |-> [s.ticks EXCEPT ![c] = 0]]
      PROVE  Entries(r, p) = Entries(s, p)
  <2> DEFINE x == s.queue[i]
  <2>1. x \in Pid /\ x # NoPid
    BY <1>1, SchedulerAssumption
  <2>2. x \notin OnCpu(s) /\ OnCpu(r) = OnCpu(s) \cup {x}
    <3>1. r.current = [s.current EXCEPT ![c] = x]
      BY <1>3
    <3>2. x \notin OnCpu(s)
      BY <1>3, <2>1 DEF Busy, OnCpu
    <3> HIDE DEF x, r
    <3> QED
      BY <1>1, <2>1, <3>1, <3>2 DEF OnCpu
  <2>3. Count(s.queue, p) = Count(RotatedPast(s.queue, i), p) + (IF x = p THEN 1 ELSE 0)
    BY <1>1, CountRotated
  <2>4. RotatedPast(s.queue, i) \in Seq(Pid) /\ r.queue = RotatedPast(s.queue, i)
    BY <1>1, <1>3, RotatedPastType
  <2> HIDE DEF r, x
  <2>5. Count(r.queue, p) \in Nat /\ Count(s.queue, p) \in Nat
    BY <1>1, <2>4, CountType
  <2> QED
    BY <2>2, <2>3, <2>4, <2>5 DEF Entries, Count, At
<1> QED
  BY <1>2, <1>3, DequeueCases

\* Requeueing moves the running pid from the CPU to the queue; no other CPU
\* runs it, so it does not count as running any more.
LEMMA RequeuedConserves ==
    ASSUME NEW s \in SchedulerState, NEW c \in CPU, Exclusive(s), NEW p \in Pid
    PROVE  Entries(Requeued(s, c), p) = Entries(s, p)
<1> DEFINE t == Requeued(s, c)
           x == s.current[c]
<1>1. s.queue \in Seq(Pid) /\ s.current \in [CPU -> Pid \cup {NoPid}]
  BY DEF SchedulerState
<1>2. CASE x = NoPid
  BY <1>2 DEF Requeued
<1>3. CASE x # NoPid
  <2>1. x \in Pid /\ t.queue = Append(s.queue, x) /\ t.current = [s.current EXCEPT ![c] = NoPid]
    BY <1>1, <1>3 DEF Requeued
  <2>2. x \in OnCpu(s) /\ \A d \in CPU \ {c} : s.current[d] # x
    BY <1>3 DEF OnCpu, Exclusive
  <2> HIDE DEF t, x
  <2>3. OnCpu(t) = OnCpu(s) \ {x}
    BY <1>1, <2>1, <2>2 DEF OnCpu, x
  <2>4. Count(t.queue, p) = Count(s.queue, p) + (IF x = p THEN 1 ELSE 0) /\ Count(s.queue, p) \in Nat
    BY <1>1, <2>1, CountAppend, CountType
  <2>5. Entries(t, p) = Entries(s, p)
    BY <2>2, <2>3, <2>4 DEF Entries, Count, At
  <2> QED
    BY <2>5 DEF t
<1> QED
  BY <1>2, <1>3

\* So a whole decision conserves the entries of every pid.
LEMMA DecisionConserves ==
    ASSUME NEW s \in SchedulerState, NEW c \in CPU, Exclusive(s), NEW p \in Pid,
           NEW r, r = schedule(s, c) \/ r = yield_current(s, c)
    PROVE  Entries(r, p) = Entries(s, p)
<1>1. CASE r = [s EXCEPT !.ticks[c] = @ + 1]
  <2>1. r.queue = s.queue /\ r.current = s.current
    BY <1>1 DEF SchedulerState
  <2> QED
    BY <2>1 DEF Entries, OnCpu
<1>2. CASE r = dequeue_next(Requeued(s, c), c)
  <2> DEFINE t == Requeued(s, c)
  <2>1. t \in SchedulerState /\ t.current[c] = NoPid
    BY RequeuedType, RequeuedExclusive
  <2>2. Entries(t, p) = Entries(s, p)
    BY RequeuedConserves
  <2>3. r = dequeue_next(t, c)
    BY <1>2
  <2> HIDE DEF t
  <2> QED
    BY <2>1, <2>2, <2>3, DequeueConserves
<1> QED
  BY <1>1, <1>2 DEF schedule, yield_current

\* The entries of p are a number; there is none iff p is not known, and one
\* that runs and has no second entry is not queued.
LEMMA EntriesKnown ==
    ASSUME NEW s \in SchedulerState, NEW p \in Pid
    PROVE  /\ Entries(s, p) \in Nat
           /\ Entries(s, p) = 0 <=> p \notin Known(s)
           /\ Entries(s, p) = 1 /\ p \in OnCpu(s) => p \notin InQueue(s)
<1>1. s.queue \in Seq(Pid) /\ DOMAIN s.queue = 1 .. Len(s.queue)
  BY DEF SchedulerState
<1>2. /\ Count(s.queue, p) \in Nat
      /\ Count(s.queue, p) = 0 <=> \A i \in 1 .. Len(s.queue) : s.queue[i] # p
  BY <1>1, CountType
<1>3. Count(s.queue, p) = 0 <=> p \notin InQueue(s)
  BY <1>1, <1>2 DEF InQueue
<1>4. Entries(s, p) = Count(s.queue, p) + (IF p \in OnCpu(s) THEN 1 ELSE 0)
  BY DEF Entries, Count, At
<1> QED
  BY <1>2, <1>3, <1>4 DEF Known

\* ready() adds an entry of p, whatever is there already.
LEMMA ReadyEntries ==
    ASSUME NEW s \in SchedulerState, NEW p \in Pid, NEW q \in Pid
    PROVE  Entries(ready(s, p), q) = Entries(s, q) + (IF p = q THEN 1 ELSE 0)
<1> DEFINE r == ready(s, p)
<1>1. s.queue \in Seq(Pid) /\ r.queue = Append(s.queue, p) /\ r.current = s.current
  BY DEF SchedulerState, ready
<1> HIDE DEF r
<1>2. /\ Count(r.queue, q) = Count(s.queue, q) + (IF p = q THEN 1 ELSE 0)
      /\ Count(s.queue, q) \in Nat
  BY <1>1, CountAppend, CountType
<1>3. OnCpu(r) = OnCpu(s)
  BY <1>1 DEF OnCpu
<1>4. /\ Entries(r, q) = Count(r.queue, q) + (IF q \in OnCpu(r) THEN 1 ELSE 0)
      /\ Entries(s, q) = Count(s.queue, q) + (IF q \in OnCpu(s) THEN 1 ELSE 0)
  BY DEF Entries, Count, At
<1>5. Entries(r, q) = Entries(s, q) + (IF p = q THEN 1 ELSE 0)
  BY <1>2, <1>3, <1>4
<1> QED
  BY <1>5 DEF r

\* remove() leaves the others alone, and nothing of a pid that had at most
\* one entry.
LEMMA RemoveEntries ==
    ASSUME NEW s \in SchedulerState, NEW p \in Pid, NEW q \in Pid
    PROVE  /\ q # p => Entries(remove(s, p), q) = Entries(s, q)
           /\ Entries(s, p) <= 1 => Entries(remove(s, p), p) = 0
<1> DEFINE r == remove(s, p)
<1>1. s.queue \in Seq(Pid) /\ r \in SchedulerState
  BY RemoveType DEF SchedulerState
<1>2. r.current = [c \in CPU |-> IF s.current[c] = p THEN NoPid ELSE s.current[c]]
  BY DEF remove
<1>3. /\ r.queue \in Seq(Pid)
      /\ \/ r.queue = s.queue /\ \A i \in 1 .. Len(s.queue) : s.queue[i] # p
         \/ \E i \in 1 .. Len(s.queue) : s.queue[i] = p /\ r.queue = WithoutIndex(s.queue, i)
  BY <1>1, RemoveCases, ZenonT(60) DEF SchedulerState
<1> HIDE DEF r
<1>4. OnCpu(r) = OnCpu(s) \ {p}
  BY <1>2 DEF OnCpu
<1>5. /\ Count(s.queue, p) \in Nat /\ Count(s.queue, q) \in Nat
      /\ Count(r.queue, p) \in Nat /\ Count(r.queue, q) \in Nat
  BY <1>1, <1>3, CountType
<1>6. /\ q # p => Count(r.queue, q) = Count(s.queue, q)
      /\ Count(s.queue, p) <= 1 => Count(r.queue, p) = 0
  <2>1. CASE r.queue = s.queue /\ \A i \in 1 .. Len(s.queue) : s.queue[i] # p
    BY <1>1, <2>1, CountType
  <2>2. ASSUME NEW i \in 1 .. Len(s.queue), s.queue[i] = p, r.queue = WithoutIndex(s.queue, i)
        PROVE  /\ q # p => Count(r.queue, q) = Count(s.queue, q)
               /\ Count(s.queue, p) <= 1 => Count(r.queue, p) = 0
    <3>1. /\ Count(s.queue, q) = Count(r.queue, q) + (IF p = q THEN 1 ELSE 0)
          /\ Count(s.queue, p) = Count(r.queue, p) + 1
      BY <1>1, <2>2, CountWithout
    <3> QED
      BY <1>5, <3>1
  <2> QED
    BY <1>3, <2>1, <2>2
<1>7. /\ Entries(r, q) = Count(r.queue, q) + (IF q \in OnCpu(r) THEN 1 ELSE 0)
      /\ Entries(s, q) = Count(s.queue, q) + (IF q \in OnCpu(s) THEN 1 ELSE 0)
      /\ Entries(r, p) = Count(r.queue, p) + (IF p \in OnCpu(r) THEN 1 ELSE 0)
      /\ Entries(s, p) = Count(s.queue, p) + (IF p \in OnCpu(s) THEN 1 ELSE 0)
  BY DEF Entries, Count, At
<1>8. /\ q # p => Entries(r, q) = Entries(s, q)
      /\ Entries(s, p) <= 1 => Entries(r, p) = 0
  BY <1>4, <1>5, <1>6, <1>7
<1> QED
  BY <1>8 DEF r

\* With exclusive CPUs, a pid is current on as many CPUs as it runs: one or
\* none.
LEMMA CpusOf ==
    ASSUME NEW s \in SchedulerState, Exclusive(s), NEW p \in Pid
    PROVE  Cardinality({c \in CPU : s.current[c] = p}) = IF p \in OnCpu(s) THEN 1 ELSE 0
<1> DEFINE C == {c \in CPU : s.current[c] = p}
<1>1. p # NoPid
  BY SchedulerAssumption
<1>2. CASE p \in OnCpu(s)
  <2>1. PICK c \in CPU : s.current[c] = p
    BY <1>2 DEF OnCpu
  <2>2. C = {c}
    BY <1>1, <2>1 DEF Exclusive
  <2> HIDE DEF C
  <2>3. Cardinality(C) = 1
    BY <2>2, FS_Singleton
  <2> QED
    BY <1>2, <2>3 DEF C
<1>3. CASE p \notin OnCpu(s)
  <2>1. C = {}
    BY <1>1, <1>3 DEF OnCpu
  <2> HIDE DEF C
  <2>2. Cardinality(C) = 0
    BY <2>1, FS_EmptySet
  <2> QED
    BY <1>3, <2>2 DEF C
<1> QED
  BY <1>2, <1>3
=============================================================================
