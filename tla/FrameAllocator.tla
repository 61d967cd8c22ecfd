--------------------------- MODULE FrameAllocator ---------------------------
(* The physical frame allocator of the memory service (services/memory/      *)
(* alloc.rs), as operators on the record                                     *)
(*   owner      which process holds each frame, None for a free one (the     *)
(*              fields `allocated` and `owner` of Frame, always set together)*)
(*   free       free_queue, in the order frames are handed out               *)
(*   freeCount, usedCount   the counters kept beside them                    *)
(* process_frames only feeds get_process_frames, which nothing calls.        *)
EXTENDS Integers, Sequences

CONSTANTS NFrames, Pids

ASSUME NFramesAssumption == NFrames \in Nat \ {0}
ASSUME PidsAssumption == Pids \subseteq Nat

None == -1

Frames == 0 .. (NFrames - 1)

\* FrameAllocator::new: every frame is free, in address order.
NewAllocator ==
  [owner |-> [f \in Frames |-> None], free |-> [i \in 1 .. NFrames |-> i - 1],
   freeCount |-> NFrames, usedCount |-> 0]

\* The frames the next allocation of n takes.
FirstFree(a, n) == {a.free[i] : i \in 1 .. n}

CanAllocate(a, n) == n <= Len(a.free)

\* allocate_frames: all or nothing. When the queue runs dry the frames already
\* taken are freed again in the order they came, which leaves the queue as it was.
AllocateFrames(a, pid, n) ==
  IF CanAllocate(a, n)
  THEN [owner |-> [f \in Frames |-> IF f \in FirstFree(a, n) THEN pid ELSE a.owner[f]],
        free |-> SubSeq(a.free, n + 1, Len(a.free)),
        freeCount |-> a.freeCount - n, usedCount |-> a.usedCount + n]
  ELSE a

\* The address AllocFrame answers with: the first frame of the allocation.
FirstFrame(a) == a.free[1]

\* Mutant of CanFree: a frame that is free already is freed once more.
CanFreeTwice(a, f) == f \in Frames

\* FrameAllocator::free refuses a frame that does not exist or is free already.
CanFree(a, f) == f \in Frames /\ a.owner[f] # None

FreeFrame(a, f) ==
  IF CanFree(a, f)
  THEN [owner |-> [a.owner EXCEPT ![f] = None], free |-> Append(a.free, f),
        freeCount |-> a.freeCount + 1, usedCount |-> a.usedCount - 1]
  ELSE a

AllocatorType ==
  [owner : [Frames -> Pids \cup {None}], free : Seq(Frames),
   freeCount : Int, usedCount : Int]

\* The queue holds every free frame, and each of them once.
QueueExact(a) ==
  /\ \A i, j \in 1 .. Len(a.free) : a.free[i] = a.free[j] => i = j
  /\ \A i \in 1 .. Len(a.free) : a.owner[a.free[i]] = None
  /\ \A f \in Frames : a.owner[f] = None => \E i \in 1 .. Len(a.free) : a.free[i] = f

\* The counters the statistics are computed from agree with the queue.
CountsExact(a) ==
  a.freeCount = Len(a.free) /\ a.freeCount + a.usedCount = NFrames
=============================================================================
