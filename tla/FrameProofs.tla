----------------------------- MODULE FrameProofs -----------------------------
(***************************************************************************)
(* What the operations of the frame allocator preserve, for any number of  *)
(* frames and any processes.                                               *)
(***************************************************************************)
EXTENDS FrameAllocator, SequenceTheorems, TLAPS

\* The allocator's types, its queue and its counters are right.
Sound(a) == a \in AllocatorType /\ QueueExact(a) /\ CountsExact(a)

\* FrameAllocator::new: the queue is the frames in address order.
LEMMA NewAllocatorSound == Sound(NewAllocator)
<1> DEFINE a == NewAllocator
<1>1. NFrames \in Nat
  BY NFramesAssumption
<1>2. a.free \in Seq(Frames) /\ Len(a.free) = NFrames /\ \A i \in 1 .. NFrames : a.free[i] = i - 1
  BY <1>1 DEF NewAllocator, Frames
<1>3. a \in AllocatorType
  BY <1>1, <1>2 DEF AllocatorType, NewAllocator
<1>4. \A f \in Frames : f + 1 \in 1 .. Len(a.free) /\ a.free[f + 1] = f
  BY <1>1, <1>2 DEF Frames
<1>5. \A i \in 1 .. Len(a.free) : a.owner[a.free[i]] = None
  BY <1>1, <1>2 DEF NewAllocator, Frames
<1>6. QueueExact(a)
  <2>1. \A i, j \in 1 .. Len(a.free) : a.free[i] = a.free[j] => i = j
    BY <1>1, <1>2
  <2> HIDE DEF a
  <2> QED
    BY <2>1, <1>4, <1>5 DEF QueueExact
<1>7. CountsExact(a)
  BY <1>1, <1>2 DEF CountsExact, NewAllocator
<1> QED
  BY <1>3, <1>6, <1>7 DEF Sound

\* A process is never taken for "nobody".
LEMMA PidIsSomebody == \A p \in Pids : p # None
  BY PidsAssumption DEF None

\* What an allocation that succeeds leaves (PhysicalMemoryManager::allocate_frames):
\* the queue without its first n frames, which now have an owner.
LEMMA AllocateSound ==
  ASSUME NEW a, Sound(a), NEW pid \in Pids, NEW n \in Nat
  PROVE  Sound(AllocateFrames(a, pid, n))
<1>1. CASE ~CanAllocate(a, n)
  BY <1>1 DEF AllocateFrames
<1>2. CASE CanAllocate(a, n)
  <2> DEFINE b == AllocateFrames(a, pid, n)
             k == Len(a.free)
  <2>1. a.free \in Seq(Frames) /\ a.owner \in [Frames -> Pids \cup {None}]
        /\ a.freeCount \in Int /\ a.usedCount \in Int /\ NFrames \in Nat
    BY NFramesAssumption DEF Sound, AllocatorType
  <2>2. k \in Nat /\ n <= k
    BY <2>1, <1>2 DEF CanAllocate
  <2>3. /\ b.owner = [f \in Frames |-> IF f \in FirstFree(a, n) THEN pid ELSE a.owner[f]]
        /\ b.free = SubSeq(a.free, n + 1, k)
        /\ b.freeCount = a.freeCount - n
        /\ b.usedCount = a.usedCount + n
    BY <1>2 DEF AllocateFrames
  <2>4. b.free \in Seq(Frames) /\ Len(b.free) = k - n
        /\ \A i \in 1 .. k - n : b.free[i] = a.free[i + n]
    <3> HIDE DEF b
    <3>1. n + 1 \in 1 .. k + 1 /\ k - (n + 1) + 1 = k - n
      BY <2>2
    <3>2. CASE n = k
      <4>1. SubSeq(a.free, n + 1, k) = << >>
        BY <3>2, <2>1, <2>2, SubSeqEmpty
      <4> QED
        BY <4>1, <3>2, <2>2, <2>3
    <3>3. CASE n < k
      <4>1. n + 1 \in 1 .. k /\ k \in n + 1 - 1 .. Len(a.free)
        BY <3>3, <2>2
      <4> DEFINE s == SubSeq(a.free, n + 1, k)
      <4>2. s \in Seq(Frames) /\ Len(s) = k - (n + 1) + 1
            /\ \A i \in 1 .. k - (n + 1) + 1 : s[i] = a.free[(n + 1) + i - 1]
        BY <4>1, <2>1, <2>2
      <4>3. \A i \in 1 .. k - n : (n + 1) + i - 1 = i + n
        BY <2>2
      <4> HIDE DEF s
      <4>4. \A i \in 1 .. k - n : s[i] = a.free[i + n]
        BY <4>2, <4>3, <3>1
      <4> QED
        BY <4>2, <4>4, <3>1, <2>3 DEF s
    <3> QED
      BY <3>2, <3>3, <2>2
  <2>5. b \in AllocatorType
    <3>1. b = [owner |-> b.owner, free |-> b.free, freeCount |-> b.freeCount,
               usedCount |-> b.usedCount]
      BY <1>2 DEF AllocateFrames
    <3>2. b.owner \in [Frames -> Pids \cup {None}]
      BY <2>1, <2>3
    <3>3. b.freeCount \in Int /\ b.usedCount \in Int
      BY <2>1, <2>3
    <3> HIDE DEF b
    <3> QED
      BY <3>1, <3>2, <3>3, <2>4 DEF AllocatorType
  <2> HIDE DEF b
  <2>6. \A i, j \in 1 .. k : a.free[i] = a.free[j] => i = j
    BY DEF Sound, QueueExact
  <2>7. \A i \in 1 .. k : a.free[i] \in Frames /\ a.owner[a.free[i]] = None
    BY <2>1 DEF Sound, QueueExact
  <2>8. \A i, j \in 1 .. k - n : b.free[i] = b.free[j] => i = j
    <3> SUFFICES ASSUME NEW i \in 1 .. k - n, NEW j \in 1 .. k - n, b.free[i] = b.free[j]
                 PROVE  i = j
      OBVIOUS
    <3>1. i + n \in 1 .. k /\ j + n \in 1 .. k
      BY <2>2
    <3>2. a.free[i + n] = a.free[j + n]
      BY <2>4
    <3>3. i + n = j + n
      BY <3>1, <3>2, <2>6
    <3> QED
      BY <3>3, <2>2
  <2>9. \A i \in 1 .. k - n : b.owner[b.free[i]] = None
    <3> SUFFICES ASSUME NEW i \in 1 .. k - n PROVE b.owner[b.free[i]] = None
      OBVIOUS
    <3>1. i + n \in 1 .. k /\ b.free[i] = a.free[i + n]
      BY <2>2, <2>4
    <3>2. a.free[i + n] \notin FirstFree(a, n)
      <4> SUFFICES ASSUME NEW j \in 1 .. n, a.free[i + n] = a.free[j] PROVE FALSE
        BY DEF FirstFree
      <4>1. j \in 1 .. k
        BY <2>2
      <4>2. i + n = j
        BY <4>1, <3>1, <2>6
      <4> QED
        BY <4>2
    <3> QED
      BY <3>1, <3>2, <2>7, <2>3
  <2>10. \A f \in Frames : b.owner[f] = None => \E i \in 1 .. k - n : b.free[i] = f
    <3> SUFFICES ASSUME NEW f \in Frames, b.owner[f] = None
                 PROVE  \E i \in 1 .. k - n : b.free[i] = f
      OBVIOUS
    <3>1. f \notin FirstFree(a, n) /\ a.owner[f] = None
      BY <2>3, PidIsSomebody
    <3>2. PICK i \in 1 .. k : a.free[i] = f
      BY <3>1 DEF Sound, QueueExact
    <3>3. i \notin 1 .. n
      BY <3>1, <3>2 DEF FirstFree
    <3>4. i - n \in 1 .. k - n /\ (i - n) + n = i
      BY <3>3, <2>2
    <3> QED
      BY <3>2, <3>4, <2>4
  <2>11. QueueExact(b)
    BY <2>4, <2>8, <2>9, <2>10 DEF QueueExact
  <2>12. a.freeCount = k /\ a.freeCount + a.usedCount = NFrames
    BY DEF Sound, CountsExact
  <2>13. CountsExact(b)
    BY <2>1, <2>2, <2>3, <2>4, <2>12 DEF CountsExact
  <2> QED
    BY <2>5, <2>11, <2>13 DEF Sound, b
<1> QED
  BY <1>1, <1>2

\* FrameAllocator::free: whatever frame is named, queue and counters stay right,
\* because a frame that is free already is refused.
LEMMA FreeSound ==
  ASSUME NEW a, Sound(a), NEW f
  PROVE  Sound(FreeFrame(a, f))
<1>1. CASE ~CanFree(a, f)
  BY <1>1 DEF FreeFrame
<1>2. CASE CanFree(a, f)
  <2> DEFINE b == FreeFrame(a, f)
             k == Len(a.free)
  <2>1. a.free \in Seq(Frames) /\ a.owner \in [Frames -> Pids \cup {None}]
        /\ a.freeCount \in Int /\ a.usedCount \in Int /\ NFrames \in Nat
    BY NFramesAssumption DEF Sound, AllocatorType
  <2>2. k \in Nat /\ f \in Frames /\ a.owner[f] # None
    BY <2>1, <1>2 DEF CanFree
  <2>3. /\ b.owner = [a.owner EXCEPT ![f] = None]
        /\ b.free = Append(a.free, f)
        /\ b.freeCount = a.freeCount + 1
        /\ b.usedCount = a.usedCount - 1
    BY <1>2 DEF FreeFrame
  <2>4. b.free \in Seq(Frames) /\ Len(b.free) = k + 1 /\ b.free[k + 1] = f
        /\ \A i \in 1 .. k : b.free[i] = a.free[i]
    BY <2>1, <2>2, <2>3
  <2>5. b \in AllocatorType
    <3>1. b = [owner |-> b.owner, free |-> b.free, freeCount |-> b.freeCount,
               usedCount |-> b.usedCount]
      BY <1>2 DEF FreeFrame
    <3>2. b.owner \in [Frames -> Pids \cup {None}]
      BY <2>1, <2>3
    <3>3. b.freeCount \in Int /\ b.usedCount \in Int
      BY <2>1, <2>3
    <3> HIDE DEF b
    <3> QED
      BY <3>1, <3>2, <3>3, <2>4 DEF AllocatorType
  <2> HIDE DEF b
  <2>6. \A i, j \in 1 .. k : a.free[i] = a.free[j] => i = j
    BY DEF Sound, QueueExact
  <2>7. \A i \in 1 .. k : a.free[i] \in Frames /\ a.owner[a.free[i]] = None /\ a.free[i] # f
    BY <2>1, <2>2 DEF Sound, QueueExact
  <2>8. \A i \in 1 .. k + 1 : i = k + 1 \/ i \in 1 .. k
    BY <2>2
  <2>9. \A i, j \in 1 .. k + 1 : b.free[i] = b.free[j] => i = j
    BY <2>4, <2>6, <2>7, <2>8
  <2>10. \A i \in 1 .. k + 1 : b.owner[b.free[i]] = None
    BY <2>1, <2>2, <2>3, <2>4, <2>7, <2>8
  <2>11. \A g \in Frames : b.owner[g] = None => \E i \in 1 .. k + 1 : b.free[i] = g
    <3> SUFFICES ASSUME NEW g \in Frames, b.owner[g] = None
                 PROVE  \E i \in 1 .. k + 1 : b.free[i] = g
      OBVIOUS
    <3>1. CASE g = f
      <4>1. k + 1 \in 1 .. k + 1
        BY <2>2
      <4> QED
        BY <4>1, <3>1, <2>4
    <3>2. CASE g # f
      <4>1. a.owner[g] = None
        BY <3>2, <2>1, <2>3
      <4>2. PICK i \in 1 .. k : a.free[i] = g
        BY <4>1 DEF Sound, QueueExact
      <4>3. i \in 1 .. k + 1
        BY <2>2
      <4> QED
        BY <4>2, <4>3, <2>4
    <3> QED
      BY <3>1, <3>2
  <2>12. QueueExact(b)
    BY <2>4, <2>9, <2>10, <2>11 DEF QueueExact
  <2>13. a.freeCount = k /\ a.freeCount + a.usedCount = NFrames
    BY DEF Sound, CountsExact
  <2>14. CountsExact(b)
    <3> HIDE DEF k
    <3>1. b.freeCount = k + 1 /\ b.usedCount = a.usedCount - 1
      BY <2>3, <2>13
    <3>2. b.freeCount + b.usedCount = NFrames
      BY <3>1, <2>1, <2>2, <2>13
    <3> QED
      BY <3>1, <3>2, <2>4 DEF CountsExact
  <2> QED
    BY <2>5, <2>12, <2>14 DEF Sound, b
<1> QED
  BY <1>1, <1>2
=============================================================================
