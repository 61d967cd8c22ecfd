--------------------------- MODULE OwnershipProofs ---------------------------
(***************************************************************************)
(* Who owns which frame, while the process service and the memory service  *)
(* work at the same time on the same page tables: as long as no wait was   *)
(* given up, a frame behind a page belongs to that page alone, and a       *)
(* process that has exited leaves no frame behind (PrivateFrames and       *)
(* ExitReturnsFrames of module MemoryService), for any number of           *)
(* processes, frames, pages and requests.                                  *)
(***************************************************************************)
EXTENDS MemoryProofs
------------------------------------------------------------------------------
(* Private frames.  As long as no wait was given up, what is queued at the   *)
(* service is at most one request that the process service waits for, behind *)
(* requests of others and the UnmapPage and FreeFrame messages of an exit or *)
(* an exec; every frame on its way into a page table is still behind no      *)
(* page; and a frame in a FreeFrame message is unmapped before it is freed.  *)

\* A request of another client, and one of those that exit and exec do not wait for.
FromOthers(r) == /\ r.kind \in {"SwapOut", "SwapIn", "Query", "Alloc"}
                 /\ r.to \in {"api", "none"}
                 /\ r.kind = "Alloc" => r.pid = 0
Leaving(r)    == r.kind \in {"Unmap", "Free"} /\ r.to = "none"
NotAwaited(r) == FromOthers(r) \/ Leaving(r)

\* A frame that is the process's and behind no page yet.
Fresh(f, p, m, own) == /\ f \in Frames /\ own[f] = p
                       /\ \A q \in Pids, v \in Pages : m[q][v] # f

AllocWaits(c) == c.at \in {"execAlloc", "forkAlloc"}
MapWaits(c)   == c.at \in {"execMap", "forkMap"}
Waits(c)      == c.at = "fault" \/ AllocWaits(c) \/ MapWaits(c)

\* The request the client waits for.
Awaited(r, c, m, own) ==
    /\ r.to = "client"
    /\ c.at = "fault" => r.kind = "Fault"
    /\ AllocWaits(c) => r.kind = "Alloc" /\ r.pid = c.pid /\ r.count = 1
    /\ MapWaits(c) => /\ r.kind = "Map" /\ r.pid = c.pid /\ r.page = c.page
                      /\ Fresh(r.frame, c.pid, m, own)

Asking(c, rp, h) == Waits(c) /\ rp = NoReply /\ ~h

\* What is queued (q), for a client that stands at c with the answer rp.
QueueShape(q, c, rp, h, m, own) ==
    /\ ~Asking(c, rp, h) => \A i \in 1 .. Len(q) : NotAwaited(q[i])
    /\ Asking(c, rp, h) => /\ Len(q) > 0 /\ Awaited(q[Len(q)], c, m, own)
                           /\ \A i \in 1 .. Len(q) - 1 : NotAwaited(q[i])
    /\ rp # NoReply \/ MapWaits(c) => \A i \in 1 .. Len(q) : ~Leaving(q[i])
    /\ ~Waits(c) => rp = NoReply
    /\ h => c.at = "fault" /\ rp = NoReply
    /\ AllocWaits(c) /\ rp \in Frames => Fresh(rp, c.pid, m, own)

\* A page whose frame is to be freed is unmapped first.
UnmappedFirst(q, m) ==
    \A i \in 1 .. Len(q) : q[i].kind = "Free" =>
        \A p \in Pids, v \in Pages : m[p][v] # None /\ m[p][v] = q[i].frame =>
            \E j \in 1 .. i - 1 : q[j].kind = "Unmap" /\ q[j].pid = p /\ q[j].page = v

OwnFrames(m, own) ==
    /\ \A p \in Pids, v \in Pages : m[p][v] # None => own[m[p][v]] = p
    /\ \A p, q \in Pids : \A v, w \in Pages :
          m[p][v] # None /\ m[q][w] = m[p][v] => q = p /\ w = v

Private(q, c, rp, h, m, own) ==
    QueueShape(q, c, rp, h, m, own) /\ UnmappedFirst(q, m) /\ OwnFrames(m, own)

PrivInv == /\ timeouts \in Nat
           /\ timeouts = 0 => Private(inbox, client, reply, hung, mmu, alloc.owner)

\* Serving the first request leaves the pages of the frames to be freed unmapped first.
LEMMA TailUnmapped ==
    ASSUME NEW q \in Seq(Requests), q # <<>>, NEW m, NEW n, UnmappedFirst(q, m),
           \A p \in Pids, v \in Pages : n[p][v] # None =>
               /\ n[p][v] = m[p][v]
               /\ ~(Head(q).kind = "Unmap" /\ Head(q).pid = p /\ Head(q).page = v)
    PROVE  UnmappedFirst(Tail(q), n)
<1>1. /\ Tail(q) \in Seq(Requests) /\ Len(Tail(q)) = Len(q) - 1 /\ Len(q) \in Nat
      /\ \A i \in 1 .. Len(q) - 1 : Tail(q)[i] = q[i + 1]
      /\ Head(q) = q[1]
    OBVIOUS
<1> SUFFICES ASSUME NEW i \in 1 .. Len(q) - 1, q[i + 1].kind = "Free", NEW p \in Pids, NEW v \in Pages,
                    n[p][v] # None, n[p][v] = q[i + 1].frame
             PROVE  \E j \in 1 .. i - 1 : Tail(q)[j].kind = "Unmap" /\ Tail(q)[j].pid = p
                                          /\ Tail(q)[j].page = v
    BY <1>1 DEF UnmappedFirst
<1>2. i + 1 \in 1 .. Len(q) /\ m[p][v] # None /\ m[p][v] = q[i + 1].frame
    BY <1>1
<1>3. PICK j \in 1 .. (i + 1) - 1 : q[j].kind = "Unmap" /\ q[j].pid = p /\ q[j].page = v
    BY <1>2 DEF UnmappedFirst
<1>4. j # 1
    BY <1>1, <1>3
<1>5. j - 1 \in 1 .. i - 1 /\ Tail(q)[j - 1] = q[j]
    BY <1>1, <1>4
<1> QED
    BY <1>3, <1>5

\* A request nobody waits for is served: what the client waits for stays last, and no
\* frame on its way into a page table is touched.
LEMMA ServedShape ==
    ASSUME NEW q \in Seq(Requests), q # <<>>, NEW c, NEW rp, NEW h, NEW m, NEW own, NEW n, NEW own2,
           QueueShape(q, c, rp, h, m, own), NotAwaited(Head(q)), c.pid \in Pids,
           ~Leaving(Head(q)) => \A f \in Frames, p \in Pids : Fresh(f, p, m, own) => Fresh(f, p, n, own2)
    PROVE  QueueShape(Tail(q), c, rp, h, n, own2)
<1>1. /\ Tail(q) \in Seq(Requests) /\ Len(Tail(q)) = Len(q) - 1 /\ Len(q) \in Nat /\ Len(q) >= 1
      /\ \A i \in 1 .. Len(q) - 1 : Tail(q)[i] = q[i + 1]
      /\ Head(q) = q[1]
    OBVIOUS
<1>2. q[1].to # "client"
    BY <1>1 DEF NotAwaited, FromOthers, Leaving
<1> DEFINE t == Tail(q) k == Len(q) - 1
<1>3. Len(t) = k /\ k \in Nat /\ \A i \in 1 .. k : t[i] = q[i + 1] /\ i + 1 \in 1 .. Len(q)
    BY <1>1
<1> HIDE DEF t
<1>4. ~Asking(c, rp, h) => \A i \in 1 .. Len(t) : NotAwaited(t[i])
    BY <1>3 DEF QueueShape
<1>5. Asking(c, rp, h) => k > 0
    BY <1>1, <1>2 DEF QueueShape, Awaited
<1>6. rp # NoReply \/ MapWaits(c) => \A i \in 1 .. Len(t) : ~Leaving(t[i])
    BY <1>3 DEF QueueShape
<1>7. rp # NoReply \/ MapWaits(c) => ~Leaving(Head(q))
    BY <1>1 DEF QueueShape
<1>8. Asking(c, rp, h) => /\ Len(t) > 0 /\ Awaited(t[Len(t)], c, n, own2)
                          /\ \A i \in 1 .. Len(t) - 1 : NotAwaited(t[i])
    <2> SUFFICES ASSUME Asking(c, rp, h)
                 PROVE  /\ Len(t) > 0 /\ Awaited(t[Len(t)], c, n, own2)
                        /\ \A i \in 1 .. Len(t) - 1 : NotAwaited(t[i])
        OBVIOUS
    <2>1. t[k] = q[Len(q)]
        BY <1>3, <1>5, <1>1
    <2>2. Awaited(q[Len(q)], c, m, own) /\ \A i \in 1 .. Len(q) - 1 : NotAwaited(q[i])
        BY DEF QueueShape
    <2>3. Awaited(q[Len(q)], c, n, own2)
        <3>1. MapWaits(c) => Fresh(q[Len(q)].frame, c.pid, n, own2)
            BY <2>2, <1>7 DEF Awaited, Fresh
        <3> QED
            BY <2>2, <3>1 DEF Awaited
    <2>4. \A i \in 1 .. k - 1 : NotAwaited(t[i])
        BY <2>2, <1>3
    <2> QED
        BY <2>1, <2>3, <2>4, <1>3, <1>5
<1>9. AllocWaits(c) /\ rp \in Frames => Fresh(rp, c.pid, n, own2)
    <2>1. rp \in Frames => rp # NoReply
        BY NFramesAssumption DEF Frames, NoReply
    <2> QED
        BY <2>1, <1>7 DEF QueueShape
<1>10. QueueShape(t, c, rp, h, n, own2)
    BY <1>4, <1>6, <1>8, <1>9 DEF QueueShape
<1> QED
    BY <1>10 DEF t

\* The request the client waits for is the only one left and is served.
LEMMA AnsweredShape ==
    ASSUME NEW c, NEW rp, NEW h, NEW m, NEW own, Waits(c),
           \/ rp # NoReply /\ h = FALSE
           \/ rp = NoReply /\ h = TRUE /\ c.at = "fault",
           AllocWaits(c) /\ rp \in Frames => Fresh(rp, c.pid, m, own)
    PROVE  QueueShape(<<>>, c, rp, h, m, own)
<1>1. ~Asking(c, rp, h)
    BY DEF Asking
<1>2. Len(<<>>) = 0 /\ \A i \in 1 .. Len(<<>>) : FALSE
    OBVIOUS
<1>3. h => c.at = "fault" /\ rp = NoReply
    OBVIOUS
<1> QED
    BY <1>1, <1>2, <1>3 DEF QueueShape

\* The client sends messages it does not wait for.
LEMMA SentShape ==
    ASSUME NEW q \in Seq(Requests), NEW c, NEW m, NEW own, ~Waits(c),
           \A i \in 1 .. Len(q) : NotAwaited(q[i])
    PROVE  QueueShape(q, c, NoReply, FALSE, m, own)
<1>1. ~Asking(c, NoReply, FALSE) /\ ~MapWaits(c) /\ ~AllocWaits(c)
    BY DEF Asking, Waits
<1> QED
    BY <1>1 DEF QueueShape

\* The client sends messages and, last, one that it waits for.
LEMMA AskedShape ==
    ASSUME NEW q \in Seq(Requests), NEW c, NEW m, NEW own, Waits(c), Len(q) > 0,
           Awaited(q[Len(q)], c, m, own),
           \A i \in 1 .. Len(q) - 1 : NotAwaited(q[i]),
           MapWaits(c) => \A i \in 1 .. Len(q) - 1 : ~Leaving(q[i])
    PROVE  QueueShape(q, c, NoReply, FALSE, m, own)
<1>1. Asking(c, NoReply, FALSE)
    BY DEF Asking
<1>2. ~Leaving(q[Len(q)])
    BY DEF Leaving, Awaited
<1>3. MapWaits(c) => \A i \in 1 .. Len(q) : ~Leaving(q[i])
    <2>1. \A i \in 1 .. Len(q) : i \in 1 .. Len(q) - 1 \/ i = Len(q)
        OBVIOUS
    <2> QED
        BY <1>2, <2>1
<1>4. NoReply \notin Frames
    BY NFramesAssumption DEF Frames, NoReply
<1> QED
    BY <1>1, <1>3, <1>4 DEF QueueShape

\* An allocation (alloc.rs, allocate) takes free frames only, the first of the queue first.
LEMMA AllocateOwners ==
    ASSUME NEW a, Sound(a), NEW p \in Pids, NEW n \in Nat
    PROVE  /\ AllocateFrames(a, p, n).owner \in [Frames -> Pids \cup {None}]
           /\ \A f \in Frames : a.owner[f] # None => AllocateFrames(a, p, n).owner[f] = a.owner[f]
           /\ n = 1 /\ CanAllocate(a, 1) =>
                 /\ FirstFrame(a) \in Frames /\ a.owner[FirstFrame(a)] = None
                 /\ AllocateFrames(a, p, n).owner[FirstFrame(a)] = p
                 /\ \A f \in Frames : f # FirstFrame(a) => AllocateFrames(a, p, n).owner[f] = a.owner[f]
<1> DEFINE b == AllocateFrames(a, p, n)
<1>1. a.free \in Seq(Frames) /\ Len(a.free) \in Nat /\ a.owner \in [Frames -> Pids \cup {None}]
      /\ \A i \in 1 .. Len(a.free) : a.owner[a.free[i]] = None
    BY DEF Sound, AllocatorType, QueueExact
<1>2. b.owner \in [Frames -> Pids \cup {None}]
    BY AllocateSound DEF Sound, AllocatorType
<1>3. CASE ~CanAllocate(a, n)
    BY <1>1, <1>2, <1>3 DEF AllocateFrames
<1>4. CASE CanAllocate(a, n)
    <2>1. b.owner = [f \in Frames |-> IF f \in FirstFree(a, n) THEN p ELSE a.owner[f]] /\ n <= Len(a.free)
        BY <1>4 DEF AllocateFrames, CanAllocate
    <2>2. \A f \in FirstFree(a, n) : a.owner[f] = None
        BY <1>1, <2>1 DEF FirstFree
    <2>3. n = 1 => FirstFree(a, n) = {FirstFrame(a)} /\ FirstFrame(a) \in Frames
        BY <1>1, <2>1 DEF FirstFree, FirstFrame
    <2> HIDE DEF b
    <2>4. \A f \in Frames : a.owner[f] # None => b.owner[f] = a.owner[f]
        BY <2>1, <2>2
    <2>5. n = 1 => /\ FirstFrame(a) \in Frames /\ a.owner[FirstFrame(a)] = None
                   /\ b.owner[FirstFrame(a)] = p
                   /\ \A f \in Frames : f # FirstFrame(a) => b.owner[f] = a.owner[f]
        BY <2>1, <2>2, <2>3
    <2> QED
        BY <1>2, <2>4, <2>5 DEF b
<1> QED
    BY <1>3, <1>4

\* With every frame taken, the frame that is freed is the one allocated next.
LEMMA FreedIsNext ==
    ASSUME NEW a, Sound(a), ~CanAllocate(a, 1), NEW f \in Frames, a.owner[f] # None, NEW p \in Pids
    PROVE  /\ CanAllocate(FreeFrame(a, f), 1) /\ FirstFrame(FreeFrame(a, f)) = f
           /\ \A g \in Frames : AllocateFrames(FreeFrame(a, f), p, 1).owner[g] =
                                  IF g = f THEN p ELSE a.owner[g]
<1> DEFINE b == FreeFrame(a, f)
<1>1. a.free \in Seq(Frames) /\ Len(a.free) = 0 /\ a.owner \in [Frames -> Pids \cup {None}]
    BY DEF Sound, AllocatorType, CanAllocate
<1>2. b.free = Append(a.free, f) /\ b.owner = [a.owner EXCEPT ![f] = None]
    BY DEF FreeFrame, CanFree
<1>3. Len(b.free) = 1 /\ b.free[1] = f /\ Sound(b)
    BY <1>1, <1>2, FreeSound
<1> HIDE DEF b
<1>4. CanAllocate(b, 1) /\ FirstFrame(b) = f
    BY <1>3 DEF CanAllocate, FirstFrame
<1>5. /\ AllocateFrames(b, p, 1).owner[f] = p
      /\ \A g \in Frames : g # f => AllocateFrames(b, p, 1).owner[g] = b.owner[g]
    BY <1>3, <1>4, AllocateOwners
<1>6. \A g \in Frames : g # f => b.owner[g] = a.owner[g]
    BY <1>1, <1>2
<1> QED
    BY <1>4, <1>5, <1>6 DEF b

\* What page tables hold (FramesInv).
Tables == [Pids -> [Pages -> Frames \cup {None}]]

\* Allocating a frame that has no owner disturbs no page.
LEMMA OwnFramesAllocate ==
    ASSUME NEW m \in Tables, NEW own, NEW own2, OwnFrames(m, own),
           \A f \in Frames : own[f] # None => own2[f] = own[f]
    PROVE  /\ OwnFrames(m, own2)
           /\ \A f \in Frames, p \in Pids : Fresh(f, p, m, own) => Fresh(f, p, m, own2)
<1>1. \A p \in Pids, v \in Pages : m[p][v] # None => m[p][v] \in Frames
    BY DEF Tables
<1> QED
    BY <1>1, PidIsSomebody DEF OwnFrames, Fresh

\* Frames that no page has may change their owner, and pages may be unmapped.
LEMMA OwnFramesLess ==
    ASSUME NEW m \in Tables, NEW n \in Tables, NEW own, NEW own2, OwnFrames(m, own),
           \A p \in Pids, v \in Pages : n[p][v] # None => n[p][v] = m[p][v] /\ own2[n[p][v]] = own[n[p][v]]
    PROVE  OwnFrames(n, own2)
    BY DEF OwnFrames

\* A frame that is the process's own, and behind no page, is mapped.
LEMMA OwnFramesMap ==
    ASSUME NEW m \in Tables, NEW own, OwnFrames(m, own), NEW p \in Pids, NEW v \in Pages,
           NEW f, Fresh(f, p, m, own)
    PROVE  OwnFrames([m EXCEPT ![p][v] = f], own)
<1> DEFINE n == [m EXCEPT ![p][v] = f]
<1>1. n[p][v] = f /\ \A q \in Pids, w \in Pages : (q # p \/ w # v) => n[q][w] = m[q][w]
    BY DEF Tables
<1>2. f \in Frames /\ own[f] = p /\ \A q \in Pids, w \in Pages : m[q][w] # f
    BY DEF Fresh
<1> HIDE DEF n
<1>3. \A q \in Pids, w \in Pages : n[q][w] # None => own[n[q][w]] = q
    BY <1>1, <1>2 DEF OwnFrames
<1>4. ASSUME NEW q \in Pids, NEW w \in Pages, NEW q2 \in Pids, NEW w2 \in Pages,
             n[q][w] # None, n[q2][w2] = n[q][w]
      PROVE  q2 = q /\ w2 = w
    BY <1>1, <1>2, <1>4 DEF OwnFrames
<1> QED
    BY <1>3, <1>4 DEF OwnFrames, n

\* Handling one request and sending its answer (service.rs, the memory service's loop)
\* keeps frames private.
LEMMA PrivateServed ==
    ASSUME MemInv, FramesInv, Private(inbox, client, reply, hung, mmu, alloc.owner), ServiceStep
    PROVE  Private(inbox', client', reply', hung', mmu', alloc'.owner)
<1> DEFINE r == Head(inbox)
           own == alloc.owner
<1>0. /\ Sound(alloc) /\ client \in ClientStates /\ mmu \in Tables /\ inbox \in Seq(Mappable)
      /\ hung \in BOOLEAN
    BY DEF MemInv, FramesInv, ClientInv, Tables
<1>1. inbox # <<>> /\ inbox' = Tail(inbox) /\ client' = client /\ hung = FALSE
    BY <1>0 DEF ServiceStep, HandleAllocFrame, HandleFreeFrame, HandleMapPageWithResponse,
       HandleUnmapPage, FaultSwapIn, FaultAllocate, FaultSwapOut, FaultExhausted,
       HandleSwapOut, HandleSwapIn, HandleQuery, Answer, Faulting, Serving, clientVars
<1>2. /\ inbox \in Seq(Requests) /\ r \in Mappable /\ r = inbox[1] /\ Len(inbox) \in Nat
      /\ Len(inbox) >= 1 /\ (Len(inbox) = 1 => Tail(inbox) = <<>>)
    <2>1. inbox \in Seq(Requests)
        BY DEF MemInv, QueueInv
    <2> QED
        BY <2>1, <1>0, <1>1
<1>3. QueueShape(inbox, client, reply, hung, mmu, own) /\ UnmappedFirst(inbox, mmu) /\ OwnFrames(mmu, own)
    BY DEF Private
<1>4. \/ NotAwaited(r)
      \/ Asking(client, reply, hung) /\ Len(inbox) = 1 /\ Awaited(r, client, mmu, own)
    <2>1. CASE ~Asking(client, reply, hung)
        BY <2>1, <1>2, <1>3 DEF QueueShape
    <2>2. CASE Asking(client, reply, hung) /\ Len(inbox) = 1
        BY <2>2, <1>2, <1>3 DEF QueueShape
    <2>3. CASE Asking(client, reply, hung) /\ Len(inbox) # 1
        <3> DEFINE k == Len(inbox)
        <3>0. k \in Nat /\ k >= 1 /\ k # 1
            BY <2>3, <1>2
        <3> HIDE DEF k
        <3>1. 1 \in 1 .. k - 1
            BY <3>0
        <3> USE DEF k
        <3> QED
            BY <2>3, <3>1, <1>2, <1>3 DEF QueueShape
    <2> QED
        BY <2>1, <2>2, <2>3
<1> HIDE DEF r
<1>5. r \in Requests /\ r.pid \in Pids /\ r.page \in Pages /\ r.count \in Nat
      /\ (r.kind = "Map" => r.frame \in Frames) /\ client.pid \in Pids
    BY <1>2, <1>0 DEF Mappable, Requests, ClientStates
<1>6. own \in [Frames -> Pids \cup {None}]
    BY <1>0 DEF Sound, AllocatorType
<1>7. mmu' \in Tables
    BY FramesInvNext DEF FramesInv, Tables, Next
<1>n. CASE NotAwaited(r)
    <2>1. r.to # "client" /\ r.kind \in {"SwapOut", "SwapIn", "Query", "Alloc", "Unmap", "Free"}
        BY <1>n DEF NotAwaited, FromOthers, Leaving
    <2>2. reply' = reply /\ hung' = hung
        BY <2>1 DEF r, ServiceStep, HandleAllocFrame, HandleFreeFrame, HandleMapPageWithResponse,
           HandleUnmapPage, FaultSwapIn, FaultAllocate, FaultSwapOut, FaultExhausted,
           HandleSwapOut, HandleSwapIn, HandleQuery, Answer, Faulting, Serving, serviceVars
    <2>3. ASSUME ~Leaving(r) => \A f \in Frames, p \in Pids : Fresh(f, p, mmu, own) => Fresh(f, p, mmu', alloc'.owner),
                 OwnFrames(mmu', alloc'.owner),
                 \A p \in Pids, v \in Pages : mmu'[p][v] # None =>
                    /\ mmu'[p][v] = mmu[p][v]
                    /\ ~(r.kind = "Unmap" /\ r.pid = p /\ r.page = v)
          PROVE  Private(inbox', client', reply', hung', mmu', alloc'.owner)
        <3>1. QueueShape(Tail(inbox), client, reply, hung, mmu', alloc'.owner)
            BY <2>3, <1>1, <1>2, <1>3, <1>5, <1>n, ServedShape DEF r
        <3>2. UnmappedFirst(Tail(inbox), mmu')
            BY <2>3, <1>1, <1>2, <1>3, TailUnmapped DEF r
        <3> QED
            BY <2>3, <3>1, <3>2, <2>2, <1>1 DEF Private
    <2>4. CASE r.kind \in {"SwapOut", "SwapIn", "Query"}
        <3>1. mmu' = mmu /\ alloc' = alloc
            BY <2>4 DEF r, ServiceStep, HandleAllocFrame, HandleFreeFrame, HandleMapPageWithResponse,
               HandleUnmapPage, FaultSwapIn, FaultAllocate, FaultSwapOut, FaultExhausted,
               HandleSwapOut, HandleSwapIn, HandleQuery, Faulting, Serving, serviceVars
        <3> QED
            BY <2>3, <2>4, <3>1, <1>3
    <2>5. CASE r.kind = "Alloc"
        <3>1. mmu' = mmu /\ alloc' = AllocateFrames(alloc, r.pid, r.count)
            BY <2>5 DEF r, ServiceStep, HandleAllocFrame, HandleFreeFrame, HandleMapPageWithResponse,
               HandleUnmapPage, FaultSwapIn, FaultAllocate, FaultSwapOut, FaultExhausted,
               HandleSwapOut, HandleSwapIn, HandleQuery, Faulting, Serving, serviceVars
        <3>2. \A f \in Frames : own[f] # None => alloc'.owner[f] = own[f]
            BY <3>1, <1>0, <1>5, AllocateOwners
        <3>3. /\ OwnFrames(mmu, alloc'.owner)
              /\ \A f \in Frames, p \in Pids : Fresh(f, p, mmu, own) => Fresh(f, p, mmu, alloc'.owner)
            BY <3>2, <1>0, <1>3, OwnFramesAllocate
        <3> QED
            BY <2>3, <2>5, <3>1, <3>3
    <2>6. CASE r.kind = "Unmap"
        <3>1. mmu' = [mmu EXCEPT ![r.pid][r.page] = None] /\ alloc' = alloc
            BY <2>6 DEF r, ServiceStep, HandleAllocFrame, HandleFreeFrame, HandleMapPageWithResponse,
               HandleUnmapPage, FaultSwapIn, FaultAllocate, FaultSwapOut, FaultExhausted,
               HandleSwapOut, HandleSwapIn, HandleQuery, Faulting, Serving, serviceVars
        <3>2. /\ mmu'[r.pid][r.page] = None
              /\ \A p \in Pids, v \in Pages : (p # r.pid \/ v # r.page) => mmu'[p][v] = mmu[p][v]
            BY <3>1, <1>0, <1>5 DEF Tables
        <3>3. OwnFrames(mmu', own)
            <4>1. \A p \in Pids, v \in Pages : mmu'[p][v] # None =>
                        mmu'[p][v] = mmu[p][v] /\ own[mmu'[p][v]] = own[mmu'[p][v]]
                BY <3>2
            <4> HIDE DEF own
            <4>2. mmu \in Tables /\ mmu' \in Tables /\ OwnFrames(mmu, own)
                BY <1>0, <1>3, <1>7 DEF own
            <4> QED
                BY <4>1, <4>2, OwnFramesLess
        <3>4. \A f \in Frames, p \in Pids : Fresh(f, p, mmu, own) => Fresh(f, p, mmu', own)
            <4>1. None \notin Frames
                BY NFramesAssumption DEF Frames, None
            <4> QED
                BY <3>2, <4>1 DEF Fresh
        <3> QED
            BY <2>3, <3>1, <3>2, <3>3, <3>4
    <2>7. CASE r.kind = "Free"
        <3>1. mmu' = mmu /\ alloc' = FreeFrame(alloc, r.frame)
            BY <2>7 DEF r, ServiceStep, HandleAllocFrame, HandleFreeFrame, HandleMapPageWithResponse,
               HandleUnmapPage, FaultSwapIn, FaultAllocate, FaultSwapOut, FaultExhausted,
               HandleSwapOut, HandleSwapIn, HandleQuery, Faulting, Serving, serviceVars
        <3>2. \A p \in Pids, v \in Pages : mmu[p][v] # None => mmu[p][v] # r.frame
            <4>1. 1 \in 1 .. Len(inbox) /\ \A j \in 1 .. 1 - 1 : FALSE
                BY <1>2
            <4> QED
                BY <4>1, <2>7, <1>2, <1>3 DEF UnmappedFirst
        <3>3. \A f \in Frames : f # r.frame => alloc'.owner[f] = own[f]
            BY <3>1, <1>6 DEF FreeFrame, CanFree
        <3>4. \A p \in Pids, v \in Pages : mmu[p][v] # None => alloc'.owner[mmu[p][v]] = own[mmu[p][v]]
            BY <3>2, <3>3, <1>0 DEF Tables
        <3>5. OwnFrames(mmu, alloc'.owner)
            BY <3>4, <1>0, <1>3, OwnFramesLess
        <3>6. Leaving(r)
            BY <1>n, <2>7 DEF NotAwaited, FromOthers
        <3> QED
            BY <2>3, <2>7, <3>1, <3>5, <3>6
    <2> QED
        BY <2>1, <2>4, <2>5, <2>6, <2>7
<1>a. CASE Asking(client, reply, hung) /\ Len(inbox) = 1 /\ Awaited(r, client, mmu, own)
    <2>1. /\ Waits(client) /\ reply = NoReply /\ r.to = "client" /\ inbox' = <<>>
          /\ r.kind \in {"Fault", "Alloc", "Map"} /\ (r.kind = "Fault" => client.at = "fault")
          /\ (AllocWaits(client) => r.kind = "Alloc" /\ r.pid = client.pid /\ r.count = 1)
          /\ (r.kind = "Map" => Fresh(r.frame, r.pid, mmu, own))
        BY <1>a, <1>1, <1>2 DEF Asking, Awaited, Waits, AllocWaits, MapWaits
    <2>2. UnmappedFirst(<<>>, mmu')
        BY DEF UnmappedFirst
    <2>3. \A f \in Frames : f # NoReply
        BY NFramesAssumption DEF Frames, NoReply
    <2>4. ASSUME OwnFrames(mmu', alloc'.owner),
                 \/ reply' # NoReply /\ hung' = FALSE
                 \/ reply' = NoReply /\ hung' = TRUE /\ r.kind = "Fault",
                 r.kind = "Alloc" /\ r.count = 1 /\ reply' \in Frames => Fresh(reply', r.pid, mmu', alloc'.owner)
          PROVE  Private(inbox', client', reply', hung', mmu', alloc'.owner)
        <3>1. AllocWaits(client) /\ reply' \in Frames => Fresh(reply', client.pid, mmu', alloc'.owner)
            BY <2>1, <2>4
        <3>2. \/ reply' # NoReply /\ hung' = FALSE
              \/ reply' = NoReply /\ hung' = TRUE /\ client.at = "fault"
            BY <2>1, <2>4
        <3>3. QueueShape(<<>>, client, reply', hung', mmu', alloc'.owner)
            BY <2>1, <3>1, <3>2, AnsweredShape
        <3> QED
            BY <2>1, <2>2, <2>4, <3>3, <1>1 DEF Private
    <2>5. CASE r.kind = "Alloc"
        <3>1. /\ mmu' = mmu /\ alloc' = AllocateFrames(alloc, r.pid, r.count) /\ hung' = hung
              /\ reply' = IF CanAllocate(alloc, r.count) THEN FirstFrame(alloc) ELSE Failed
            BY <2>1, <2>5 DEF r, ServiceStep, HandleAllocFrame, HandleFreeFrame, HandleMapPageWithResponse,
               HandleUnmapPage, FaultSwapIn, FaultAllocate, FaultSwapOut, FaultExhausted,
               HandleSwapOut, HandleSwapIn, HandleQuery, Faulting, Serving, Answer, serviceVars
        <3>2. /\ \A f \in Frames : own[f] # None => alloc'.owner[f] = own[f]
              /\ r.count = 1 /\ CanAllocate(alloc, 1) =>
                   /\ FirstFrame(alloc) \in Frames /\ own[FirstFrame(alloc)] = None
                   /\ alloc'.owner[FirstFrame(alloc)] = r.pid
            BY <3>1, <1>0, <1>5, AllocateOwners
        <3>3. OwnFrames(mmu, alloc'.owner)
            BY <3>2, <1>0, <1>3, OwnFramesAllocate
        <3>4. Failed # NoReply /\ Failed \notin Frames
            BY NFramesAssumption DEF Frames, NoReply, Failed
        <3>5. r.count = 1 /\ reply' \in Frames => Fresh(reply', r.pid, mmu, alloc'.owner)
            <4> SUFFICES ASSUME r.count = 1, reply' \in Frames PROVE Fresh(reply', r.pid, mmu, alloc'.owner)
                OBVIOUS
            <4>1. CanAllocate(alloc, 1) /\ reply' = FirstFrame(alloc)
                BY <3>1, <3>4
            <4>2. own[reply'] = None /\ alloc'.owner[reply'] = r.pid
                BY <4>1, <3>2
            <4>3. \A p \in Pids, v \in Pages : mmu[p][v] # reply'
                <5>1. None \notin Frames
                    BY NFramesAssumption DEF Frames, None
                <5> QED
                    BY <4>2, <5>1, <1>3, PidIsSomebody DEF OwnFrames
            <4> QED
                BY <4>2, <4>3 DEF Fresh
        <3>6. reply' # NoReply
            <4>1. CASE CanAllocate(alloc, r.count) /\ AllocWaits(client)
                BY <4>1, <2>1, <2>3, <3>1, <3>2
            <4>2. CASE ~CanAllocate(alloc, r.count)
                BY <4>2, <3>1, <3>4
            <4>3. AllocWaits(client)
                BY <2>1, <2>5, <1>a DEF Waits, Awaited
            <4> QED
                BY <4>1, <4>2, <4>3
        <3> QED
            BY <2>4, <3>1, <3>3, <3>5, <3>6, <1>1
    <2>6. CASE r.kind = "Map"
        <3>1. /\ mmu' = [mmu EXCEPT ![r.pid][r.page] = r.frame] /\ alloc' = alloc /\ hung' = hung
              /\ reply' = Done
            BY <2>1, <2>6 DEF r, ServiceStep, HandleAllocFrame, HandleFreeFrame, HandleMapPageWithResponse,
               HandleUnmapPage, FaultSwapIn, FaultAllocate, FaultSwapOut, FaultExhausted,
               HandleSwapOut, HandleSwapIn, HandleQuery, Faulting, Serving, Answer, serviceVars
        <3>2. OwnFrames(mmu', own)
            BY <3>1, <2>1, <2>6, <1>0, <1>3, <1>5, OwnFramesMap
        <3>3. Done # NoReply
            BY DEF Done, NoReply
        <3> QED
            BY <2>4, <2>6, <3>1, <3>2, <3>3, <1>1
    <2>7. CASE r.kind = "Fault"
        <3>1. FaultSwapIn \/ FaultAllocate \/ FaultSwapOut \/ FaultExhausted
            BY <2>7 DEF r, ServiceStep, HandleAllocFrame, HandleFreeFrame, HandleMapPageWithResponse,
               HandleUnmapPage, HandleSwapOut, HandleSwapIn, HandleQuery, Serving
        <3>2. CASE FaultExhausted
            <4>1. mmu' = mmu /\ alloc' = alloc /\ hung' = hung /\ reply' = Failed
                BY <3>2, <2>1 DEF FaultExhausted, Answer, r
            <4>2. Failed # NoReply
                BY DEF Failed, NoReply
            <4> QED
                BY <2>4, <2>7, <4>1, <4>2, <1>1, <1>3
        <3>3. CASE FaultSwapIn \/ FaultAllocate
            <4> DEFINE f == FirstFrame(alloc)
            <4>1. /\ CanAllocate(alloc, 1) /\ alloc' = AllocateFrames(alloc, r.pid, 1)
                  /\ mmu' = [mmu EXCEPT ![r.pid][r.page] = f]
                  /\ (hung' = hung /\ reply' = f) \/ (hung' = TRUE /\ reply' = reply)
                BY <3>3, <2>1 DEF FaultSwapIn, FaultAllocate, MapFault, Answer, r
            <4>2. /\ \A g \in Frames : own[g] # None => alloc'.owner[g] = own[g]
                  /\ f \in Frames /\ own[f] = None /\ alloc'.owner[f] = r.pid
                BY <4>1, <1>0, <1>5, AllocateOwners
            <4> HIDE DEF f
            <4>3. OwnFrames(mmu, alloc'.owner)
                BY <4>2, <1>0, <1>3, OwnFramesAllocate
            <4>4. Fresh(f, r.pid, mmu, alloc'.owner)
                <5>1. None \notin Frames
                    BY NFramesAssumption DEF Frames, None
                <5>2. \A p \in Pids, v \in Pages : mmu[p][v] # f
                    BY <4>2, <5>1, <1>3, PidIsSomebody DEF OwnFrames
                <5> QED
                    BY <4>2, <5>2 DEF Fresh
            <4>5. OwnFrames(mmu', alloc'.owner)
                BY <4>1, <4>3, <4>4, <1>0, <1>5, OwnFramesMap
            <4> QED
                BY <2>1, <2>3, <2>4, <2>7, <4>1, <4>2, <4>5, <1>1
        <3>4. CASE FaultSwapOut
            <4>1. PICK pv \in Victims(r.pid) :
                    LET freed == FreeFrame(alloc, mmu[pv[1]][pv[2]])
                    IN  /\ alloc' = AllocateFrames(freed, r.pid, 1)
                        /\ IF CanAllocate(freed, 1)
                           THEN /\ mmu' = [mmu EXCEPT ![pv[1]][pv[2]] = None,
                                                      ![r.pid][r.page] = FirstFrame(freed)]
                                /\ reply' = FirstFrame(freed)
                           ELSE /\ mmu' = [mmu EXCEPT ![pv[1]][pv[2]] = None]
                                /\ reply' = Failed
                BY <3>4, <2>1 DEF FaultSwapOut, Answer, r
            <4> DEFINE p == pv[1]
                       v == pv[2]
                       f == mmu[p][v]
                       m == [mmu EXCEPT ![p][v] = None]
            <4>2. pv[1] \in Pids /\ pv[2] \in Pages /\ f # None
                BY <4>1 DEF Victims, PresentPages
            <4>3. f \in Frames /\ own[f] = p /\ p # None
                BY <4>2, <1>0, <1>3, PidIsSomebody DEF Tables, OwnFrames
            <4>4. ~CanAllocate(alloc, 1) /\ hung' = hung
                BY <3>4 DEF FaultSwapOut
            <4>5. /\ CanAllocate(FreeFrame(alloc, f), 1) /\ FirstFrame(FreeFrame(alloc, f)) = f
                  /\ \A g \in Frames : AllocateFrames(FreeFrame(alloc, f), r.pid, 1).owner[g] =
                                         IF g = f THEN r.pid ELSE own[g]
                BY <4>3, <4>4, <1>0, <1>5, FreedIsNext
            <4>6. /\ mmu' = [m EXCEPT ![r.pid][r.page] = f] /\ reply' = f
                  /\ \A g \in Frames : alloc'.owner[g] = IF g = f THEN r.pid ELSE own[g]
                BY <4>1, <4>5
            <4>7. /\ m \in Tables /\ m[p][v] = None
                  /\ \A q \in Pids, w \in Pages : (q # p \/ w # v) => m[q][w] = mmu[q][w]
                BY <4>2, <1>0 DEF Tables
            <4>8. \A q \in Pids, w \in Pages : m[q][w] # f
                BY <4>2, <4>7, <1>3 DEF OwnFrames
            <4> HIDE DEF m, f, p, v
            <4>9. \A q \in Pids, w \in Pages : m[q][w] # None =>
                        m[q][w] = mmu[q][w] /\ alloc'.owner[m[q][w]] = own[m[q][w]]
                <5>1. \A q \in Pids, w \in Pages : m[q][w] # None => m[q][w] \in Frames
                    BY <4>7 DEF Tables
                <5> QED
                    BY <5>1, <4>6, <4>7, <4>8
            <4>10. OwnFrames(m, alloc'.owner)
                <5> DEFINE own2 == alloc'.owner
                <5>1. \A q \in Pids, w \in Pages : m[q][w] # None =>
                            m[q][w] = mmu[q][w] /\ own2[m[q][w]] = own[m[q][w]]
                    BY <4>9
                <5>2. mmu \in Tables /\ m \in Tables /\ OwnFrames(mmu, own)
                    BY <1>0, <1>3, <4>7
                <5> HIDE DEF own2, own
                <5>3. OwnFrames(m, own2)
                    BY <5>1, <5>2, OwnFramesLess
                <5> QED
                    BY <5>3 DEF own2
            <4>11. Fresh(f, r.pid, m, alloc'.owner)
                BY <4>3, <4>6, <4>8 DEF Fresh
            <4>12. OwnFrames(mmu', alloc'.owner)
                BY <4>6, <4>7, <4>10, <4>11, <1>5, OwnFramesMap
            <4> QED
                BY <2>3, <2>4, <2>7, <4>3, <4>4, <4>6, <4>12, <1>1
        <3> QED
            BY <3>1, <3>2, <3>3, <3>4
    <2> QED
        BY <2>1, <2>5, <2>6, <2>7
<1> QED
    BY <1>4, <1>n, <1>a

\* Messages are queued behind others.
LEMMA SentUnmapped ==
    ASSUME NEW q \in Seq(Requests), NEW msgs \in Seq(Requests), NEW m,
           UnmappedFirst(q, m), UnmappedFirst(msgs, m)
    PROVE  UnmappedFirst(q \o msgs, m)
<1> DEFINE k == Len(q) n == Len(msgs) c == q \o msgs
<1>1. k \in Nat /\ n \in Nat /\ Len(c) = k + n
      /\ (\A i \in 1 .. k : c[i] = q[i]) /\ (\A i \in 1 .. n : c[k + i] = msgs[i])
    OBVIOUS
<1>2. \A i \in 1 .. Len(c) : i \in 1 .. k \/ (i - k \in 1 .. n /\ i = k + (i - k))
    BY <1>1
<1> HIDE DEF c, k, n
<1> SUFFICES ASSUME NEW i \in 1 .. Len(c), c[i].kind = "Free", NEW p \in Pids, NEW v \in Pages,
                    m[p][v] # None, m[p][v] = c[i].frame
             PROVE  \E j \in 1 .. i - 1 : c[j].kind = "Unmap" /\ c[j].pid = p /\ c[j].page = v
    BY DEF UnmappedFirst, c
<1>3. CASE i \in 1 .. k
    <2>1. PICK j \in 1 .. i - 1 : q[j].kind = "Unmap" /\ q[j].pid = p /\ q[j].page = v
        BY <1>1, <1>3 DEF UnmappedFirst, k
    <2>2. j \in 1 .. k
        BY <1>1, <1>3
    <2> QED
        BY <1>1, <2>1, <2>2
<1>4. CASE i - k \in 1 .. n /\ i = k + (i - k)
    <2> DEFINE x == i - k
    <2>1. x \in 1 .. n /\ c[i] = msgs[x]
        BY <1>1, <1>4
    <2>2. PICK j \in 1 .. x - 1 : msgs[j].kind = "Unmap" /\ msgs[j].pid = p /\ msgs[j].page = v
        BY <2>1 DEF UnmappedFirst, n
    <2>3. j \in 1 .. n /\ k + j \in 1 .. i - 1
        BY <1>1, <2>1, SMTT(30)
    <2> QED
        BY <1>1, <2>2, <2>3
<1> QED
    BY <1>2, <1>3, <1>4

\* The messages of an exit (service.rs, syscall_exit).
ExitMessages(p, o) ==
    [i \in 1 .. 2 * Len(o) |->
       IF i % 2 = 1 THEN Request("Unmap", p, o[(i + 1) \div 2], None, 0)
       ELSE Request("Free", 0, 0, mmu[p][o[i \div 2]], 0)]

\* Nobody waits for the messages of an exit, they free every frame behind the pages,
\* and a frame is unmapped before it is freed.
LEMMA ExitMessagesShape ==
    ASSUME MmuInv, NEW p \in Pids, NEW o \in Seq(Pages), NEW own, OwnFrames(mmu, own), NEW msgs,
           msgs = ExitMessages(p, o)
    PROVE  /\ msgs \in Seq(Requests)
           /\ \A i \in 1 .. Len(msgs) : Leaving(msgs[i])
           /\ \A i \in 1 .. Len(msgs) : msgs[i].kind = "Unmap" => msgs[i].pid = p
           /\ \A i \in 1 .. Len(o) : \E j \in 1 .. Len(msgs) : msgs[j].kind = "Free"
                                                               /\ msgs[j].frame = mmu[p][o[i]]
           /\ UnmappedFirst(msgs, mmu)
<1>0. msgs \in Seq(Requests)
    BY ExitMessagesTyped DEF ExitMessages
<1> DEFINE k == Len(o)
<1>1. k \in Nat /\ Len(msgs) = 2 * k
    <2>1. k \in Nat /\ 2 * k \in Nat /\ DOMAIN msgs = 1 .. 2 * k
        BY DEF ExitMessages
    <2> QED
        BY <2>1, <1>0
<1>2. ASSUME NEW i \in 1 .. 2 * k
      PROVE  /\ i % 2 = 1 => /\ msgs[i].kind = "Unmap" /\ msgs[i].pid = p /\ msgs[i].to = "none"
                             /\ msgs[i].page = o[(i + 1) \div 2]
             /\ i % 2 # 1 => /\ msgs[i].kind = "Free" /\ msgs[i].to = "none"
                             /\ msgs[i].frame = mmu[p][o[i \div 2]]
    BY <1>2 DEF Request, ExitMessages
<1> HIDE DEF k
<1>3. \A i \in 1 .. k : 2 * i \in 1 .. 2 * k /\ (2 * i) % 2 # 1 /\ (2 * i) \div 2 = i
    BY <1>1
<1>4. ASSUME NEW i \in 1 .. 2 * k, i % 2 # 1
      PROVE  /\ i - 1 \in 1 .. 2 * k /\ (i - 1) % 2 = 1 /\ ((i - 1) + 1) \div 2 = i \div 2
             /\ i - 1 \in 1 .. i - 1 /\ i \div 2 \in 1 .. k
    <2> DEFINE h == i \div 2
    <2>1. i = 2 * h /\ h \in Int /\ i >= 1 /\ i <= 2 * k /\ k \in Nat
        BY <1>1, <1>4
    <2> HIDE DEF h
    <2>2. h \in 1 .. k /\ i - 1 \in 1 .. 2 * k /\ i - 1 \in 1 .. i - 1
        BY <2>1
    <2>3. (i - 1) + 1 = i
        BY <2>1
    <2>4. (i - 1) % 2 = 1
        BY <2>1
    <2> QED
        BY <2>2, <2>3, <2>4 DEF h
<1>5. \A i \in 1 .. Len(msgs) : Leaving(msgs[i]) /\ (msgs[i].kind = "Unmap" => msgs[i].pid = p)
    BY <1>1, <1>2 DEF Leaving
<1>6. \A i \in 1 .. k : \E j \in 1 .. Len(msgs) : msgs[j].kind = "Free" /\ msgs[j].frame = mmu[p][o[i]]
    <2>1. \A i \in 1 .. k : 2 * i \in 1 .. Len(msgs) /\ msgs[2 * i].kind = "Free"
                            /\ msgs[2 * i].frame = mmu[p][o[i]]
        BY <1>1, <1>2, <1>3
    <2> QED
        BY <2>1
<1>7. UnmappedFirst(msgs, mmu)
    <2> SUFFICES ASSUME NEW i \in 1 .. Len(msgs), msgs[i].kind = "Free"
                 PROVE  \A q \in Pids, v \in Pages : mmu[q][v] # None /\ mmu[q][v] = msgs[i].frame =>
                            \E j \in 1 .. i - 1 : msgs[j].kind = "Unmap" /\ msgs[j].pid = q /\ msgs[j].page = v
        BY DEF UnmappedFirst
    <2> SUFFICES ASSUME NEW q \in Pids, NEW v \in Pages, mmu[q][v] # None, mmu[q][v] = msgs[i].frame
                 PROVE  \E j \in 1 .. i - 1 : msgs[j].kind = "Unmap" /\ msgs[j].pid = q /\ msgs[j].page = v
        OBVIOUS
    <2>0. i \in 1 .. 2 * k
        BY <1>1
    <2>1. i % 2 # 1
        BY <1>2, <2>0
    <2>2. msgs[i].frame = mmu[p][o[i \div 2]] /\ o[i \div 2] \in Pages
        BY <1>2, <1>4, <2>0, <2>1 DEF k
    <2>3. q = p /\ v = o[i \div 2]
        BY <2>2 DEF OwnFrames
    <2>4. i - 1 \in 1 .. 2 * k /\ (i - 1) % 2 = 1 /\ ((i - 1) + 1) \div 2 = i \div 2 /\ i - 1 \in 1 .. i - 1
        BY <1>4, <2>0, <2>1
    <2>5. msgs[i - 1].kind = "Unmap" /\ msgs[i - 1].pid = p /\ msgs[i - 1].page = o[((i - 1) + 1) \div 2]
        BY <1>2, <2>4
    <2> QED
        BY <2>3, <2>4, <2>5
<1> QED
    BY <1>0, <1>5, <1>6, <1>7 DEF k

\* The request the process service sends and waits for, and the ones it sends before.
LEMMA RequestShape ==
    ASSUME NEW p \in Pids, NEW v \in Pages, NEW o \in Seq(Pages)
    PROVE  /\ \A c, m, own : c.at = "fault" => Awaited(Await(Request("Fault", p, v, None, 1)), c, m, own)
           /\ \A c, m, own : AllocWaits(c) /\ c.pid = p => Awaited(Await(Request("Alloc", p, 0, None, 1)), c, m, own)
           /\ \A i \in 1 .. Len(Unmaps(p, o)) : /\ Leaving(Unmaps(p, o)[i])
                                                /\ Unmaps(p, o)[i].kind = "Unmap" /\ Unmaps(p, o)[i].pid = p
    BY DEF Awaited, AllocWaits, MapWaits, Await, Request, Unmaps, Leaving

\* Before it sends anything the process service waits for nothing.
LEMMA NothingAwaited ==
    ASSUME NEW q, NEW c, NEW rp, NEW h \in BOOLEAN, NEW m, NEW own, QueueShape(q, c, rp, h, m, own),
           ~Waits(c)
    PROVE  rp = NoReply /\ h = FALSE /\ \A i \in 1 .. Len(q) : NotAwaited(q[i])
    BY DEF QueueShape, Asking, Waits

\* What the process service sends keeps frames private, unless it gives up a wait.
LEMMA PrivateSent ==
    ASSUME MemInv, FramesInv, Private(inbox, client, reply, hung, mmu, alloc.owner), ClientStep,
           ~ClientTimesOut
    PROVE  Private(inbox', client', reply', hung', mmu', alloc'.owner)
<1> DEFINE own == alloc.owner
<1>0. /\ MmuInv /\ client \in ClientStates /\ inbox \in Seq(Requests) /\ inbox' \in Seq(Requests)
      /\ hung \in BOOLEAN
    BY ClientKeeps DEF MemInv, FramesInv, ClientInv, QueueInv
<1>1. QueueShape(inbox, client, reply, hung, mmu, own) /\ UnmappedFirst(inbox, mmu) /\ OwnFrames(mmu, own)
    BY DEF Private
<1>2. mmu' = mmu /\ alloc' = alloc /\ hung' = hung
    BY DEF ClientStep, ClientFault, ClientExit, ClientExec, ClientFork, ClientSends, ClientForkPage,
           ClientReceives, ApiRequest, serviceVars
<1>3. Len(inbox) \in Nat /\ Len(inbox') \in Nat /\ 0 \in Pids /\ 0 \in Pages /\ \A p \in Users : p \in Pids
    BY <1>0, MemoryAssumption DEF Users
<1> HIDE DEF own
<1>u. ASSUME NEW q \in Seq(Requests), \A i \in 1 .. Len(q) : q[i].kind # "Free"
      PROVE  UnmappedFirst(q, mmu)
    BY <1>u DEF UnmappedFirst
<1>q. ASSUME QueueShape(inbox', client', reply', FALSE, mmu, own), UnmappedFirst(inbox', mmu), hung = FALSE
      PROVE  Private(inbox', client', reply', hung', mmu', alloc'.owner)
    BY <1>1, <1>2, <1>q DEF Private, own
\* Messages nobody waits for.
<1>s. ASSUME NEW next, NEW msgs \in Seq(Requests), ClientSends(next, msgs), ~Waits(next),
             \A i \in 1 .. Len(msgs) : NotAwaited(msgs[i]), UnmappedFirst(msgs, mmu)
      PROVE  Private(inbox', client', reply', hung', mmu', alloc'.owner)
    <2>1. client.at = "idle" /\ inbox' = inbox \o msgs /\ client' = next /\ reply' = NoReply
        BY <1>s DEF ClientSends
    <2>2. hung = FALSE /\ \A i \in 1 .. Len(inbox) : NotAwaited(inbox[i])
        BY <2>1, <1>0, <1>1, NothingAwaited DEF Waits, AllocWaits, MapWaits
    <2>3. \A i \in 1 .. Len(inbox \o msgs) : NotAwaited((inbox \o msgs)[i])
        <3>1. \A i \in 1 .. Len(inbox \o msgs) : \/ i \in 1 .. Len(inbox) /\ (inbox \o msgs)[i] = inbox[i]
                                                 \/ i - Len(inbox) \in 1 .. Len(msgs)
                                                    /\ (inbox \o msgs)[i] = msgs[i - Len(inbox)]
            BY <1>0, <1>s
        <3> QED
            BY <3>1, <2>2, <1>s
    <2>4. QueueShape(inbox', next, NoReply, FALSE, mmu, own)
        BY <2>1, <2>3, <1>0, <1>s, SentShape
    <2>5. UnmappedFirst(inbox', mmu)
        BY <2>1, <1>0, <1>1, <1>s, SentUnmapped
    <2> QED
        BY <2>1, <2>2, <2>4, <2>5, <1>q
\* Messages, and last a request the client waits for.
<1>w. ASSUME NEW next, NEW msgs \in Seq(Requests), NEW r \in Requests, ~Waits(client),
             inbox' = inbox \o (msgs \o <<r>>), client' = next, reply' = NoReply,
             Waits(next), ~MapWaits(next), Awaited(r, next, mmu, own), r.kind # "Free",
             \A i \in 1 .. Len(msgs) : NotAwaited(msgs[i]) /\ msgs[i].kind # "Free"
      PROVE  Private(inbox', client', reply', hung', mmu', alloc'.owner)
    <2> DEFINE tail == msgs \o <<r>>
               all == inbox \o tail
               n == Len(msgs)
               k == Len(inbox)
    <2>1. hung = FALSE /\ \A i \in 1 .. Len(inbox) : NotAwaited(inbox[i])
        BY <1>0, <1>1, <1>w, NothingAwaited
    <2>2. /\ tail \in Seq(Requests) /\ n \in Nat /\ Len(tail) = n + 1 /\ tail[n + 1] = r
          /\ \A i \in 1 .. n : tail[i] = msgs[i]
        BY <1>w
    <2>3. UnmappedFirst(tail, mmu)
        <3>1. \A i \in 1 .. n + 1 : i \in 1 .. n \/ i = n + 1
            BY <2>2
        <3>2. \A i \in 1 .. Len(tail) : tail[i].kind # "Free"
            BY <2>2, <3>1, <1>w
        <3> QED
            BY <2>2, <3>2, <1>u
    <2> HIDE DEF tail
    <2>4. UnmappedFirst(all, mmu)
        BY <2>2, <2>3, <1>0, <1>1, SentUnmapped
    <2>5. /\ all \in Seq(Requests) /\ k \in Nat /\ Len(all) = k + (n + 1)
          /\ (\A i \in 1 .. k : all[i] = inbox[i]) /\ \A i \in 1 .. n + 1 : all[k + i] = tail[i]
        <3>1. tail \in Seq(Requests) /\ inbox \in Seq(Requests)
            BY <2>2, <1>0
        <3>2. /\ all \in Seq(Requests) /\ k \in Nat /\ Len(all) = k + Len(tail)
              /\ (\A i \in 1 .. k : all[i] = inbox[i]) /\ \A i \in 1 .. Len(tail) : all[k + i] = tail[i]
            BY <3>1
        <3> QED
            BY <3>2, <2>2
    <2> HIDE DEF all, n, k
    <2>6. all[Len(all)] = r /\ Len(all) > 0
        BY <2>2, <2>5
    <2>7. \A i \in 1 .. Len(all) - 1 : NotAwaited(all[i])
        <3>1. \A i \in 1 .. Len(all) - 1 : i \in 1 .. k \/ (i - k \in 1 .. n /\ i = k + (i - k))
            BY <2>2, <2>5
        <3>2. \A i \in 1 .. n : i \in 1 .. n + 1 /\ all[k + i] = msgs[i] /\ NotAwaited(msgs[i])
            BY <2>2, <2>5, <1>w DEF n
        <3>3. \A i \in 1 .. k : NotAwaited(all[i])
            BY <2>1, <2>5 DEF k
        <3> QED
            BY <3>1, <3>2, <3>3
    <2>8. QueueShape(all, next, NoReply, FALSE, mmu, own)
        BY <2>5, <2>6, <2>7, <1>w, AskedShape
    <2>9. inbox' = all
        BY <1>w DEF all, tail
    <2> QED
        BY <2>1, <2>4, <2>8, <2>9, <1>w, <1>q
<1>4. ASSUME NEW p \in Users, NEW v \in Pages, ClientFault(p, v)
      PROVE  Private(inbox', client', reply', hung', mmu', alloc'.owner)
    <2> DEFINE next == [Idle EXCEPT !.at = "fault"]
               r == Await(Request("Fault", p, v, None, 1))
    <2>1. ClientSends(next, <<r>>)
        BY <1>4 DEF ClientFault
    <2>2. next.at = "fault" /\ Awaited(r, next, mmu, own)
        BY <1>3, <1>0, RequestShape, MemoryAssumption DEF Idle, Awaited, AllocWaits, MapWaits, Await, Request
    <2>3. r \in Requests
        BY <1>3, RequestTyped DEF None
    <2>4. r.kind # "Free"
        BY DEF Await, Request
    <2> HIDE DEF next, r
    <2>5. client.at = "idle" /\ inbox' = inbox \o <<r>> /\ client' = next /\ reply' = NoReply
        BY <2>1 DEF ClientSends
    <2>6. <<>> \in Seq(Requests) /\ <<>> \o <<r>> = <<r>> /\ \A i \in 1 .. Len(<<>>) : FALSE
        BY <2>3
    <2>7. Waits(next) /\ ~MapWaits(next) /\ ~Waits(client)
        BY <2>2, <2>5 DEF Waits, AllocWaits, MapWaits
    <2> QED
        BY <2>2, <2>3, <2>4, <2>5, <2>6, <2>7, <1>w
<1>5. ASSUME NEW p \in Users, ClientExit(p)
      PROVE  Private(inbox', client', reply', hung', mmu', alloc'.owner)
    <2>1. PICK o \in Orders(PagesOf(p)) : ClientSends(Idle, ExitMessages(p, o))
        BY <1>5 DEF ClientExit, ExitMessages
    <2> DEFINE ms == ExitMessages(p, o)
    <2>2. o \in Seq(Pages)
        BY OrdersAreSequences DEF PagesOf
    <2>3. ClientSends(Idle, ms) /\ p \in Pids /\ MmuInv /\ OwnFrames(mmu, own) /\ ms = ExitMessages(p, o)
        BY <2>1, <1>0, <1>1, <1>3
    <2> HIDE DEF ms
    <2>4. ms \in Seq(Requests) /\ (\A i \in 1 .. Len(ms) : Leaving(ms[i])) /\ UnmappedFirst(ms, mmu)
        BY <2>2, <2>3, ExitMessagesShape
    <2>5. ~Waits(Idle)
        BY DEF Waits, AllocWaits, MapWaits, Idle
    <2>6. \A i \in 1 .. Len(ms) : NotAwaited(ms[i])
        BY <2>4 DEF NotAwaited
    <2> QED
        BY <2>3, <2>4, <2>5, <2>6, <1>s
<1>6. ASSUME NEW p \in Users, ClientExec(p)
      PROVE  Private(inbox', client', reply', hung', mmu', alloc'.owner)
    <2> DEFINE next == [Idle EXCEPT !.at = "execAlloc", !.pid = p]
               r == Await(Request("Alloc", p, 0, None, 1))
    <2>1. PICK o \in Orders(PagesOf(p)) : ClientSends(next, Unmaps(p, o) \o <<r>>)
        BY <1>6 DEF ClientExec
    <2>2. o \in Seq(Pages)
        BY OrdersAreSequences DEF PagesOf
    <2>3. Unmaps(p, o) \in Seq(Requests)
        <3>1. Unmaps(p, o) \in Seq(Mappable)
            BY <2>2, <1>0, <1>3, ExitMessagesMappable
        <3>2. \A i \in 1 .. Len(Unmaps(p, o)) : Unmaps(p, o)[i] \in Requests
            BY <3>1 DEF Mappable
        <3> QED
            BY <3>1, <3>2, SequenceOf
    <2>4. next.at = "execAlloc" /\ next.pid = p
        BY DEF Idle
    <2>5. r \in Requests /\ r.kind # "Free"
        <3>1. r \in Requests
            BY <1>3, RequestTyped DEF None
        <3>2. r.kind # "Free"
            BY DEF Await, Request
        <3> QED
            BY <3>1, <3>2
    <2> HIDE DEF next
    <2>6. Waits(next) /\ ~MapWaits(next) /\ AllocWaits(next)
        BY <2>4 DEF Waits, AllocWaits, MapWaits
    <2>7. Awaited(r, next, mmu, own)
        BY <2>2, <2>4, <2>6, <1>3, RequestShape
    <2>8. \A i \in 1 .. Len(Unmaps(p, o)) : NotAwaited(Unmaps(p, o)[i]) /\ Unmaps(p, o)[i].kind # "Free"
        <3>1. \A i \in 1 .. Len(Unmaps(p, o)) : Leaving(Unmaps(p, o)[i]) /\ Unmaps(p, o)[i].kind = "Unmap"
            BY <2>2, <1>3, RequestShape
        <3> QED
            BY <3>1 DEF NotAwaited
    <2> HIDE DEF r
    <2>9. /\ client.at = "idle" /\ inbox' = inbox \o (Unmaps(p, o) \o <<r>>) /\ client' = next
          /\ reply' = NoReply
        BY <2>1 DEF ClientSends
    <2>10. ~Waits(client)
        BY <2>9 DEF Waits, AllocWaits, MapWaits
    <2> QED
        BY <2>3, <2>5, <2>6, <2>7, <2>8, <2>9, <2>10, <1>w
<1>7. ASSUME NEW q \in Users, NEW p \in Users, ClientFork(q, p)
      PROVE  Private(inbox', client', reply', hung', mmu', alloc'.owner)
    <2> DEFINE next == ForkNext(p, q, PagesOf(q))
    <2>1. ClientSends(next, <<>>)
        BY <1>7 DEF ClientFork
    <2>2. ~Waits(next)
        BY DEF ForkNext, Idle, Waits, AllocWaits, MapWaits
    <2>3. <<>> \in Seq(Requests) /\ (\A i \in 1 .. Len(<<>>) : FALSE) /\ UnmappedFirst(<<>>, mmu)
        BY DEF UnmappedFirst
    <2> HIDE DEF next
    <2> QED
        BY <2>1, <2>2, <2>3, <1>s
<1>8. ASSUME ClientForkPage
      PROVE  Private(inbox', client', reply', hung', mmu', alloc'.owner)
    <2> DEFINE r == Await(Request("Alloc", client.pid, 0, None, 1))
    <2>1. PICK v \in client.todo : client' = [client EXCEPT !.at = "forkAlloc", !.page = v, !.todo = @ \ {v}]
        BY <1>8 DEF ClientForkPage
    <2>2. client.at = "forkPage" /\ inbox' = Append(inbox, r) /\ reply' = NoReply
        BY <1>8 DEF ClientForkPage
    <2>3. client.pid \in Pids
        BY <1>0 DEF ClientStates
    <2>4. client'.at = "forkAlloc" /\ client'.pid = client.pid
        BY <2>1, <1>0 DEF ClientStates
    <2>5. AllocWaits(client') /\ Waits(client') /\ ~MapWaits(client') /\ ~Waits(client)
        BY <2>2, <2>4 DEF Waits, AllocWaits, MapWaits
    <2>6. r \in Requests
        BY <2>3, <1>3, RequestTyped DEF None
    <2>7. r.kind # "Free"
        BY DEF Await, Request
    <2>8. <<>> \in Seq(Pages)
        OBVIOUS
    <2>9. Awaited(r, client', mmu, own)
        BY <2>3, <2>4, <2>5, <2>8, <1>3, RequestShape
    <2> HIDE DEF r
    <2>10. <<>> \in Seq(Requests) /\ inbox' = inbox \o (<<>> \o <<r>>) /\ \A i \in 1 .. Len(<<>>) : FALSE
        BY <2>2, <2>6, <1>0
    <2> QED
        BY <2>2, <2>5, <2>6, <2>7, <2>9, <2>10, <1>w
<1>9. ASSUME ClientReceives
      PROVE  Private(inbox', client', reply', hung', mmu', alloc'.owner)
    <2> DEFINE maps == AllocWaits(client) /\ Granted(reply)
               r == Await(Request("Map", client.pid, client.page, reply, 0))
               next == [client EXCEPT !.at = IF Forking THEN "forkMap" ELSE "execMap"]
    <2>1. reply # NoReply /\ reply' = NoReply /\ Resume(reply)
        BY <1>9 DEF ClientReceives
    <2>2. ~Asking(client, reply, hung) /\ hung = FALSE
        BY <2>1, <1>0, <1>1 DEF Asking, QueueShape
    <2>3. \A i \in 1 .. Len(inbox) : NotAwaited(inbox[i]) /\ ~Leaving(inbox[i])
        BY <2>1, <2>2, <1>1 DEF QueueShape
    <2>4. Dropped = inbox
        <3>1. \A i \in 1 .. Len(inbox) : inbox[i].to # "client"
            BY <2>3 DEF NotAwaited, FromOthers, Leaving
        <3>2. DOMAIN inbox = 1 .. Len(inbox) /\ inbox = [i \in DOMAIN inbox |-> inbox[i]]
            BY <1>0
        <3> QED
            BY <3>1, <3>2 DEF Dropped
    <2>5. CASE maps
        <3>1. client' = next /\ inbox' = Append(inbox, r)
            BY <2>1, <2>4, <2>5 DEF Resume, AllocWaits
        <3>2. MapWaits(client') /\ Waits(client') /\ client'.pid = client.pid /\ client'.page = client.page
              /\ ~AllocWaits(client') /\ client'.at # "fault"
            <4>1. client'.at \in {"forkMap", "execMap"}
                BY <3>1, <1>0 DEF ClientStates
            <4>2. client'.pid = client.pid /\ client'.page = client.page
                BY <3>1, <1>0 DEF ClientStates
            <4> QED
                BY <4>1, <4>2 DEF MapWaits, AllocWaits, Waits
        <3>3. reply \in Frames /\ Fresh(reply, client.pid, mmu, own)
            BY <2>5, <1>1 DEF Granted, QueueShape
        <3>4. r.to = "client" /\ r.kind = "Map" /\ r.pid = client.pid /\ r.page = client.page /\ r.frame = reply
            BY DEF Await, Request
        <3>5. r \in Requests
            <4>1. reply \in Int
                BY <3>3, NFramesAssumption DEF Frames
            <4>2. client.pid \in Pids /\ client.page \in Pages
                BY <1>0 DEF ClientStates
            <4> QED
                BY <4>1, <4>2, RequestTyped
        <3> HIDE DEF r, next, maps
        <3>6. Awaited(r, client', mmu, own)
            BY <3>2, <3>3, <3>4 DEF Awaited
        <3>7. /\ Len(inbox') = Len(inbox) + 1 /\ inbox'[Len(inbox')] = r
              /\ \A i \in 1 .. Len(inbox) : inbox'[i] = inbox[i]
            BY <3>1, <3>5, <1>0
        <3>8. Len(inbox') > 0 /\ Len(inbox') - 1 = Len(inbox)
            BY <3>7, <1>3
        <3>9. QueueShape(inbox', client', NoReply, FALSE, mmu, own)
            BY <2>3, <3>2, <3>6, <3>7, <3>8, <1>0, AskedShape
        <3>10. UnmappedFirst(inbox', mmu)
            <4>1. \A i \in 1 .. Len(inbox') : i \in 1 .. Len(inbox) \/ i = Len(inbox')
                BY <3>8, <1>3
            <4>2. \A i \in 1 .. Len(inbox) : inbox[i].kind # "Free"
                BY <2>3 DEF NotAwaited, FromOthers
            <4>3. \A i \in 1 .. Len(inbox') : inbox'[i].kind # "Free"
                BY <4>1, <4>2, <3>4, <3>7
            <4> QED
                BY <4>3, <1>0, <1>u
        <3> QED
            BY <2>1, <2>2, <3>9, <3>10, <1>q
    <2>6. CASE ~maps
        <3>1. inbox' = inbox /\ (client' = Idle \/ client' = ForkNext(client.pid, client.parent, client.todo))
            BY <2>1, <2>4, <2>6 DEF Resume, AllocWaits
        <3>2. ~Waits(client')
            <4>1. client'.at \in {"idle", "forkPage"}
                <5>1. Idle.at = "idle" /\ \A p, q, todo : ForkNext(p, q, todo).at \in {"idle", "forkPage"}
                    BY DEF ForkNext, Idle
                <5> QED
                    BY <3>1, <5>1
            <4> QED
                BY <4>1 DEF Waits, AllocWaits, MapWaits
        <3>3. QueueShape(inbox', client', NoReply, FALSE, mmu, own)
            BY <2>3, <3>1, <3>2, <1>0, SentShape
        <3> QED
            BY <2>1, <2>2, <3>1, <3>3, <1>1, <1>q
    <2> QED
        BY <2>5, <2>6
<1>10. ASSUME ApiRequest
       PROVE  Private(inbox', client', reply', hung', mmu', alloc'.owner)
    <2>1. PICK r \in ApiRequests : inbox' = <<r>>
        BY <1>10 DEF ApiRequest
    <2>2. inbox = <<>> /\ reply' = reply /\ client' = client
        BY <1>10 DEF ApiRequest, clientVars
    <2>3. FromOthers(r) /\ r.kind # "Free" /\ ~Leaving(r) /\ NotAwaited(r)
        BY ApiKindsAssumption DEF FromOthers, Leaving, NotAwaited
    <2>4. Len(inbox) = 0 /\ Len(inbox') = 1 /\ inbox'[1] = r /\ \A i \in 1 .. Len(inbox') : inbox'[i] = r
        BY <2>1, <2>2
    <2>5. ~Asking(client, reply, hung)
        BY <2>4, <1>1 DEF QueueShape
    <2>6. QueueShape(inbox', client, reply, hung, mmu, own)
        <3>1. \A i \in 1 .. Len(inbox') : NotAwaited(inbox'[i]) /\ ~Leaving(inbox'[i])
            BY <2>3, <2>4
        <3> QED
            BY <3>1, <2>5, <1>1 DEF QueueShape
    <2>7. UnmappedFirst(inbox', mmu)
        BY <2>3, <2>4, <1>0, <1>u
    <2> QED
        BY <2>2, <2>6, <2>7, <1>1, <1>2 DEF Private, own
<1> QED
    BY <1>4, <1>5, <1>6, <1>7, <1>8, <1>9, <1>10 DEF ClientStep

\* Nothing is queued, mapped or waited for at the start.
LEMMA PrivInvInit == Init => PrivInv
<1> SUFFICES ASSUME Init PROVE PrivInv
    OBVIOUS
<1>1. inbox = <<>> /\ client = Idle /\ reply = NoReply /\ hung = FALSE /\ mmu = Absent /\ timeouts = 0
    BY DEF Init
<1>2. ~Waits(Idle)
    BY DEF Idle, Waits, AllocWaits, MapWaits
<1>3. <<>> \in Seq(Requests) /\ \A i \in 1 .. Len(<<>>) : FALSE
    OBVIOUS
<1>4. QueueShape(<<>>, Idle, NoReply, FALSE, mmu, alloc.owner)
    BY <1>2, <1>3, SentShape
<1>5. UnmappedFirst(<<>>, mmu)
    BY DEF UnmappedFirst
<1>6. OwnFrames(mmu, alloc.owner)
    <2>1. \A p \in Pids, v \in Pages : mmu[p][v] = None
        BY <1>1 DEF Absent
    <2> QED
        BY <2>1 DEF OwnFrames
<1> QED
    BY <1>1, <1>4, <1>5, <1>6 DEF PrivInv, Private

\* Every step keeps frames private.
LEMMA PrivInvNext == MemInv /\ FramesInv /\ PrivInv /\ [Next]_vars => PrivInv'
<1> SUFFICES ASSUME MemInv, FramesInv, PrivInv, [Next]_vars PROVE PrivInv'
    OBVIOUS
<1>1. CASE UNCHANGED vars
    BY <1>1 DEF PrivInv, vars, serviceVars, clientVars
<1>2. CASE ServiceStep
    <2>1. timeouts' = timeouts
        BY <1>2 DEF ServiceStep, HandleAllocFrame, HandleFreeFrame, HandleMapPageWithResponse,
           HandleUnmapPage, FaultSwapIn, FaultAllocate, FaultSwapOut, FaultExhausted,
           HandleSwapOut, HandleSwapIn, HandleQuery, Answer, clientVars
    <2>2. timeouts = 0 => Private(inbox, client, reply, hung, mmu, alloc.owner)'
        BY <1>2, PrivateServed DEF PrivInv
    <2> QED
        BY <2>1, <2>2 DEF PrivInv
<1>3. CASE ClientStep /\ ~ClientTimesOut
    <2>1. timeouts' = timeouts
        BY <1>3 DEF ClientStep, ClientFault, ClientExit, ClientExec, ClientFork, ClientSends,
           ClientForkPage, ClientReceives, ApiRequest, clientVars
    <2>2. timeouts = 0 => Private(inbox, client, reply, hung, mmu, alloc.owner)'
        BY <1>3, PrivateSent DEF PrivInv
    <2> QED
        BY <2>1, <2>2 DEF PrivInv
<1>4. CASE ClientTimesOut
    <2>1. timeouts' = timeouts + 1 /\ timeouts \in Nat
        BY <1>4 DEF ClientTimesOut, PrivInv
    <2>2. timeouts' \in Nat /\ timeouts' # 0
        BY <2>1
    <2> QED
        BY <2>2 DEF PrivInv
<1> QED
    BY <1>1, <1>2, <1>3, <1>4 DEF Next, ClientStep

\* PrivInv holds in every reachable state.
LEMMA PrivInvAlways == Spec => []PrivInv
<1>1. MemInv /\ FramesInv /\ PrivInv /\ [Next]_vars => PrivInv'
    BY PrivInvNext
<1> QED
    BY <1>1, MemInvAlways, FramesInvAlways, PrivInvInit, PTL DEF Spec

\* As long as no wait was given up, the frame behind a page of a process is its own and
\* behind no other page: through faults, swaps, fork, exec and the exit messages that
\* are still queued, for any number of processes, pages and frames.
THEOREM FramesStayPrivate == Spec => []PrivateFrames
<1>1. PrivInv => PrivateFrames
    <2> SUFFICES ASSUME PrivInv, timeouts = 0, NEW pv \in PresentPages
                 PROVE  /\ alloc.owner[mmu[pv[1]][pv[2]]] = pv[1]
                        /\ \A qw \in PresentPages : mmu[qw[1]][qw[2]] = mmu[pv[1]][pv[2]] => qw = pv
        BY DEF PrivateFrames
    <2>1. OwnFrames(mmu, alloc.owner)
        BY DEF PrivInv, Private
    <2>2. \A qw \in PresentPages : /\ qw[1] \in Pids /\ qw[2] \in Pages /\ qw = <<qw[1], qw[2]>>
                                   /\ mmu[qw[1]][qw[2]] # None
        BY DEF PresentPages
    <2>3. alloc.owner[mmu[pv[1]][pv[2]]] = pv[1]
        BY <2>1, <2>2 DEF OwnFrames
    <2>4. ASSUME NEW qw \in PresentPages, mmu[qw[1]][qw[2]] = mmu[pv[1]][pv[2]] PROVE qw = pv
        <3>1. qw[1] = pv[1] /\ qw[2] = pv[2]
            BY <2>1, <2>2, <2>4 DEF OwnFrames
        <3> QED
            BY <3>1, <2>2
    <2> QED
        BY <2>3, <2>4
<1> QED
    BY <1>1, PrivInvAlways, PTL
------------------------------------------------------------------------------
(* Frames come back.  Every frame of a process that lives is behind one of   *)
(* its pages or about to be mapped; every frame of one that has exited is    *)
(* named by a FreeFrame message that is still queued.                        *)

\* A frame that was granted and is not mapped yet.
Promised(f, q, c, rp, h) ==
    \/ AllocWaits(c) /\ rp = f
    \/ MapWaits(c) /\ Asking(c, rp, h) /\ q[Len(q)].frame = f

FramesAccounted(q, c, rp, h, m, own, lf, repl) ==
    \A f \in Frames, p \in Users : own[f] = p /\ p \notin repl =>
        IF lf[p] = "dead"
        THEN \E i \in 1 .. Len(q) : q[i].kind = "Free" /\ q[i].frame = f
        ELSE (\E v \in Pages : m[p][v] = f) \/ (Promised(f, q, c, rp, h) /\ c.pid = p)

\* Pages are unmapped only of processes that exited or executed another program.
UnmapsOfTheDead(q, lf, repl) ==
    \A i \in 1 .. Len(q) : q[i].kind = "Unmap" =>
        q[i].pid \in repl \/ (q[i].pid \in Users /\ lf[q[i].pid] = "dead")

\* A fault, an exec and a fork map pages where there was nothing.
FaultFree(q, c, rp, h, m, lf, repl) ==
    Asking(c, rp, h) /\ c.at = "fault" =>
        LET r == q[Len(q)]
        IN  /\ r.pid \in Users /\ lf[r.pid] = "run"
            /\ m[r.pid][r.page] = None \/ r.pid \in repl

ForkStates == {"forkPage", "forkAlloc", "forkMap"}

PlacesFree(c, rp, m, lf, repl) ==
    /\ c.at \notin {"idle", "fault"} => c.pid \in Users /\ lf[c.pid] # "dead"
    /\ AllocWaits(c) \/ (MapWaits(c) /\ rp = NoReply) => c.pid \in repl \/ m[c.pid][c.page] = None
    /\ c.at \in ForkStates => \A v \in c.todo : m[c.pid][v] = None
    /\ c.at \in {"forkAlloc", "forkMap"} => c.page \notin c.todo
    /\ MapWaits(c) => lf[c.pid] = "run"
    /\ \A p \in Users : lf[p] = "new" => \A v \in Pages : m[p][v] = None

Returned(q, c, rp, h, m, own, lf, repl) ==
    /\ FramesAccounted(q, c, rp, h, m, own, lf, repl)
    /\ UnmapsOfTheDead(q, lf, repl)
    /\ FaultFree(q, c, rp, h, m, lf, repl)
    /\ PlacesFree(c, rp, m, lf, repl)

OwnInv ==
    /\ life \in [Users -> {"new", "run", "dead"}]
    /\ timeouts = 0 => Returned(inbox, client, reply, hung, mmu, alloc.owner, life, replaced)

\* An order of some pages names each of them.
LEMMA OrdersCover ==
    ASSUME NEW vs \in SUBSET Pages, NEW o \in Orders(vs)
    PROVE  /\ \A v \in vs : \E i \in 1 .. Len(o) : o[i] = v
           /\ \A i \in 1 .. Len(o) : o[i] \in vs
<1> DEFINE n == Cardinality(vs)
           T == {o[i] : i \in 1 .. n}
<1>1. IsFiniteSet(vs)
    BY MemoryAssumption, FS_Subset
<1>2. n \in Nat
    BY <1>1, FS_CardinalityType
<1>3. o \in [1 .. n -> vs] /\ \A i, j \in 1 .. n : o[i] = o[j] => i = j
    BY DEF Orders
<1> HIDE DEF n
<1>4. Len(o) = n
    BY <1>2, <1>3
<1>5. o \in Bijection(1 .. n, T)
    <2>1. o \in [1 .. n -> T]
        BY <1>3
    <2>2. o \in Injection(1 .. n, T)
        BY <2>1, <1>3 DEF Injection, IsInjective
    <2>3. o \in Surjection(1 .. n, T)
        BY <2>1 DEF Surjection
    <2> QED
        BY <2>2, <2>3 DEF Bijection
<1>6. T \in SUBSET vs
    BY <1>3
<1> HIDE DEF T
<1>7. Cardinality(T) = n
    <2>1. ExistsBijection(1 .. n, T)
        BY <1>5 DEF ExistsBijection
    <2> QED
        BY <2>1, <1>2, FS_CountingElements
<1>8. T = vs
    BY <1>1, <1>6, <1>7, FS_Subset DEF n
<1> QED
    BY <1>3, <1>4, <1>8 DEF T

\* A request nobody waits for is served.
LEMMA ReturnedServed ==
    ASSUME NEW q \in Seq(Requests), q # <<>>, NEW c \in ClientStates, NEW rp, NEW h, NEW m \in Tables,
           NEW own, NEW n \in Tables, NEW own2, NEW lf, NEW repl,
           QueueShape(q, c, rp, h, m, own), NotAwaited(Head(q)),
           Returned(q, c, rp, h, m, own, lf, repl),
           \A f \in Frames, p \in Users : own2[f] = p =>
              own[f] = p /\ ~(Head(q).kind = "Free" /\ Head(q).frame = f),
           \A p \in Pids, v \in Pages : n[p][v] # m[p][v] =>
              n[p][v] = None /\ Head(q).kind = "Unmap" /\ Head(q).pid = p
    PROVE  Returned(Tail(q), c, rp, h, n, own2, lf, repl)
<1> DEFINE t == Tail(q)
           k == Len(q) - 1
           hd == Head(q)
<1>1. /\ t \in Seq(Requests) /\ Len(t) = k /\ k \in Nat /\ Len(q) = k + 1
      /\ \A i \in 1 .. k : t[i] = q[i + 1]
      /\ hd = q[1] /\ q[1] \in Requests
    OBVIOUS
<1>2. q[1].to # "client"
    BY <1>1 DEF NotAwaited, FromOthers, Leaving
<1>3. /\ \A f \in Frames, p \in Users : own2[f] = p => own[f] = p /\ ~(hd.kind = "Free" /\ hd.frame = f)
      /\ \A p \in Pids, v \in Pages : n[p][v] # m[p][v] => n[p][v] = None /\ hd.kind = "Unmap" /\ hd.pid = p
    OBVIOUS
<1> HIDE DEF t, k, hd
<1>4. Asking(c, rp, h) => k > 0 /\ t[Len(t)] = q[Len(q)]
    <2> SUFFICES ASSUME Asking(c, rp, h) PROVE k > 0 /\ t[Len(t)] = q[Len(q)]
        OBVIOUS
    <2>1. q[Len(q)].to = "client"
        BY DEF QueueShape, Awaited
    <2>2. k > 0
        BY <1>1, <1>2, <2>1
    <2>3. k \in 1 .. k
        BY <1>1, <2>2
    <2> QED
        BY <1>1, <2>2, <2>3
<1>5. \A f : Promised(f, q, c, rp, h) => Promised(f, t, c, rp, h)
    BY <1>4 DEF Promised
<1>6. \A i \in 1 .. Len(q) : i = 1 \/ (i - 1 \in 1 .. k /\ t[i - 1] = q[i])
    BY <1>1
<1>7. \A p \in Users : p \in Pids /\ (hd.kind = "Unmap" /\ hd.pid = p => p \in repl \/ lf[p] = "dead")
    <2>1. 1 \in 1 .. Len(q)
        BY <1>1
    <2> QED
        BY <1>1, <2>1 DEF Returned, UnmapsOfTheDead, Users
<1>8. FramesAccounted(t, c, rp, h, n, own2, lf, repl)
    <2> SUFFICES ASSUME NEW f \in Frames, NEW p \in Users, own2[f] = p, p \notin repl
                 PROVE  IF lf[p] = "dead"
                        THEN \E i \in 1 .. Len(t) : t[i].kind = "Free" /\ t[i].frame = f
                        ELSE (\E v \in Pages : n[p][v] = f) \/ (Promised(f, t, c, rp, h) /\ c.pid = p)
        BY DEF FramesAccounted
    <2>1. own[f] = p /\ ~(hd.kind = "Free" /\ hd.frame = f)
        BY <1>3
    <2>2. CASE lf[p] = "dead"
        <3>1. PICK i \in 1 .. Len(q) : q[i].kind = "Free" /\ q[i].frame = f
            BY <2>1, <2>2 DEF Returned, FramesAccounted
        <3>2. i - 1 \in 1 .. k /\ t[i - 1] = q[i]
            BY <1>1, <1>6, <2>1, <3>1
        <3>3. \E j \in 1 .. Len(t) : t[j].kind = "Free" /\ t[j].frame = f
            BY <3>1, <3>2, <1>1
        <3> QED
            BY <2>2, <3>3
    <2>3. CASE lf[p] # "dead"
        <3>1. (\E v \in Pages : m[p][v] = f) \/ (Promised(f, q, c, rp, h) /\ c.pid = p)
            BY <2>1, <2>3 DEF Returned, FramesAccounted
        <3>2. \A v \in Pages : n[p][v] = m[p][v]
            BY <1>3, <1>7, <2>3
        <3> QED
            BY <2>3, <3>1, <3>2, <1>5
    <2> QED
        BY <2>2, <2>3
<1>9. UnmapsOfTheDead(t, lf, repl)
    <2>1. \A i \in 1 .. Len(t) : i + 1 \in 1 .. Len(q) /\ t[i] = q[i + 1]
        BY <1>1
    <2> QED
        BY <2>1 DEF Returned, UnmapsOfTheDead
<1>10. FaultFree(t, c, rp, h, n, lf, repl)
    <2> SUFFICES ASSUME Asking(c, rp, h), c.at = "fault"
                 PROVE  /\ t[Len(t)].pid \in Users /\ lf[t[Len(t)].pid] = "run"
                        /\ n[t[Len(t)].pid][t[Len(t)].page] = None \/ t[Len(t)].pid \in repl
        BY DEF FaultFree
    <2> DEFINE r == q[Len(q)]
    <2>1. r = t[Len(t)] /\ r \in Requests
        BY <1>1, <1>4
    <2>2. r.pid \in Users /\ lf[r.pid] = "run" /\ (m[r.pid][r.page] = None \/ r.pid \in repl)
        BY DEF Returned, FaultFree
    <2> HIDE DEF r
    <2>3. r.pid \in Pids /\ r.page \in Pages
        BY <2>1 DEF Requests
    <2> QED
        BY <2>1, <2>2, <2>3, <1>3
<1>11. PlacesFree(c, rp, n, lf, repl)
    <2>1. c.pid \in Pids /\ c.page \in Pages /\ c.todo \subseteq Pages
        BY DEF ClientStates
    <2>2. \A p \in Pids, v \in Pages : m[p][v] = None => n[p][v] = None
        BY <1>3
    <2> QED
        BY <2>1, <2>2, <1>7 DEF Returned, PlacesFree
<1>12. Returned(t, c, rp, h, n, own2, lf, repl)
    BY <1>8, <1>9, <1>10, <1>11 DEF Returned
<1> QED
    BY <1>12 DEF t

\* The request the client waits for is the only one left and is answered.
LEMMA ReturnedAnswered ==
    ASSUME NEW r, NEW c \in ClientStates, NEW rp, NEW h, NEW rp2, NEW h2, NEW m, NEW own,
           NEW n, NEW own2, NEW lf, NEW repl,
           Asking(c, rp, h), ~Asking(c, rp2, h2), r.kind \notin {"Free", "Unmap"},
           Returned(<<r>>, c, rp, h, m, own, lf, repl),
           \A f \in Frames, p \in Users : own2[f] = p =>
              \/ own[f] = p
              \/ lf[p] # "dead" /\ \E v \in Pages : n[p][v] = f
              \/ lf[p] # "dead" /\ AllocWaits(c) /\ rp2 = f /\ c.pid = p,
           \A p \in Users, v \in Pages : p \notin repl /\ m[p][v] \in Frames /\ own2[m[p][v]] = p =>
              \E w \in Pages : n[p][w] = m[p][v],
           MapWaits(c) => n[c.pid][c.page] = r.frame,
           PlacesFree(c, rp2, n, lf, repl)
    PROVE  Returned(<<>>, c, rp2, h2, n, own2, lf, repl)
<1> DEFINE q == <<r>>
<1>1. Len(q) = 1 /\ q[Len(q)] = r /\ \A i \in 1 .. Len(q) : q[i] = r
    OBVIOUS
<1>2. Returned(q, c, rp, h, m, own, lf, repl)
    OBVIOUS
<1> HIDE DEF q
<1>3. Len(<<>>) = 0 /\ \A i \in 1 .. Len(<<>>) : FALSE
    OBVIOUS
<1>4. c.page \in Pages /\ rp = NoReply
    BY DEF ClientStates, Asking
<1>5. FramesAccounted(<<>>, c, rp2, h2, n, own2, lf, repl)
    <2> SUFFICES ASSUME NEW f \in Frames, NEW p \in Users, own2[f] = p, p \notin repl
                 PROVE  /\ lf[p] # "dead"
                        /\ (\E v \in Pages : n[p][v] = f) \/ (Promised(f, <<>>, c, rp2, h2) /\ c.pid = p)
        BY DEF FramesAccounted
    <2>1. CASE own[f] = p
        <3>1. lf[p] # "dead"
            BY <2>1, <1>1, <1>2 DEF Returned, FramesAccounted
        <3>2. (\E v \in Pages : m[p][v] = f) \/ (Promised(f, q, c, rp, h) /\ c.pid = p)
            BY <2>1, <3>1, <1>2 DEF Returned, FramesAccounted
        <3>3. CASE \E v \in Pages : m[p][v] = f
            BY <3>1, <3>3
        <3>4. CASE Promised(f, q, c, rp, h) /\ c.pid = p
            <4>1. f # NoReply
                BY NFramesAssumption DEF Frames, NoReply
            <4>2. MapWaits(c) /\ r.frame = f
                BY <3>4, <4>1, <1>1, <1>4 DEF Promised
            <4> QED
                BY <3>1, <3>4, <4>2, <1>4
        <3> QED
            BY <3>2, <3>3, <3>4
    <2>2. CASE lf[p] # "dead" /\ \E v \in Pages : n[p][v] = f
        BY <2>2
    <2>3. CASE lf[p] # "dead" /\ AllocWaits(c) /\ rp2 = f /\ c.pid = p
        BY <2>3 DEF Promised
    <2> QED
        BY <2>1, <2>2, <2>3
<1>6. UnmapsOfTheDead(<<>>, lf, repl)
    BY <1>3 DEF UnmapsOfTheDead
<1>7. FaultFree(<<>>, c, rp2, h2, n, lf, repl)
    BY DEF FaultFree
<1> QED
    BY <1>5, <1>6, <1>7 DEF Returned

\* Handling one request keeps every frame accounted for.
LEMMA ReturnedService ==
    ASSUME MemInv, FramesInv, Private(inbox, client, reply, hung, mmu, alloc.owner),
           Returned(inbox, client, reply, hung, mmu, alloc.owner, life, replaced), ServiceStep
    PROVE  Returned(inbox', client', reply', hung', mmu', alloc'.owner, life', replaced')
<1> DEFINE r == Head(inbox)
           own == alloc.owner
           own2 == alloc'.owner
<1>0. /\ Sound(alloc) /\ client \in ClientStates /\ mmu \in Tables /\ inbox \in Seq(Mappable)
      /\ hung \in BOOLEAN
    BY DEF MemInv, FramesInv, ClientInv, Tables
<1>1. /\ inbox # <<>> /\ inbox' = Tail(inbox) /\ client' = client /\ hung = FALSE
      /\ life' = life /\ replaced' = replaced
    BY <1>0 DEF ServiceStep, HandleAllocFrame, HandleFreeFrame, HandleMapPageWithResponse,
       HandleUnmapPage, FaultSwapIn, FaultAllocate, FaultSwapOut, FaultExhausted,
       HandleSwapOut, HandleSwapIn, HandleQuery, Answer, Faulting, Serving, clientVars
<1>2. /\ inbox \in Seq(Requests) /\ r \in Mappable /\ r = inbox[1] /\ Len(inbox) \in Nat
      /\ Len(inbox) >= 1 /\ (Len(inbox) = 1 => Tail(inbox) = <<>> /\ inbox = <<r>>)
    <2>1. inbox \in Seq(Requests)
        BY DEF MemInv, QueueInv
    <2> QED
        BY <2>1, <1>0, <1>1
<1>3. QueueShape(inbox, client, reply, hung, mmu, own) /\ OwnFrames(mmu, own)
    BY DEF Private
<1>4. \/ NotAwaited(r)
      \/ Asking(client, reply, hung) /\ Len(inbox) = 1 /\ Awaited(r, client, mmu, own)
    <2>1. CASE ~Asking(client, reply, hung)
        BY <2>1, <1>2, <1>3 DEF QueueShape
    <2>2. CASE Asking(client, reply, hung) /\ Len(inbox) = 1
        BY <2>2, <1>2, <1>3 DEF QueueShape
    <2>3. CASE Asking(client, reply, hung) /\ Len(inbox) # 1
        <3> DEFINE k == Len(inbox)
        <3>0. k \in Nat /\ k >= 1 /\ k # 1
            BY <2>3, <1>2
        <3> HIDE DEF k
        <3>1. 1 \in 1 .. k - 1
            BY <3>0
        <3> USE DEF k
        <3> QED
            BY <2>3, <3>1, <1>2, <1>3 DEF QueueShape
    <2> QED
        BY <2>1, <2>2, <2>3
<1> HIDE DEF r
<1>5. r \in Requests /\ r.pid \in Pids /\ r.page \in Pages /\ r.count \in Nat
      /\ (r.kind = "Map" => r.frame \in Frames) /\ client.pid \in Pids /\ client.page \in Pages
    BY <1>2, <1>0 DEF Mappable, Requests, ClientStates
<1>6. own \in [Frames -> Pids \cup {None}]
    BY <1>0 DEF Sound, AllocatorType
<1>7. mmu' \in Tables
    BY FramesInvNext DEF FramesInv, Tables, Next
<1>8. /\ \A p \in Users : p \in Pids /\ p # 0 /\ p # None
      /\ None \notin Frames /\ NoReply \notin Frames /\ Done \notin Frames /\ Failed \notin Frames
      /\ Done # NoReply /\ Failed # NoReply
    BY PidIsSomebody, NFramesAssumption DEF Users, Frames, None, NoReply, Done, Failed
<1>9. \A p \in Pids, v \in Pages : mmu[p][v] # None => mmu[p][v] \in Frames /\ own[mmu[p][v]] = p
    BY <1>0, <1>3 DEF Tables, OwnFrames
<1> HIDE DEF own, own2
<1>n. CASE NotAwaited(r)
    <2>1. r.to # "client" /\ r.kind \in {"SwapOut", "SwapIn", "Query", "Alloc", "Unmap", "Free"}
          /\ (r.kind = "Alloc" => r.pid = 0)
        BY <1>n DEF NotAwaited, FromOthers, Leaving
    <2>2. reply' = reply /\ hung' = hung
        BY <2>1 DEF r, ServiceStep, HandleAllocFrame, HandleFreeFrame, HandleMapPageWithResponse,
           HandleUnmapPage, FaultSwapIn, FaultAllocate, FaultSwapOut, FaultExhausted,
           HandleSwapOut, HandleSwapIn, HandleQuery, Answer, Faulting, Serving, serviceVars
    <2>3. ASSUME \A f \in Frames, p \in Users : own2[f] = p => own[f] = p /\ ~(r.kind = "Free" /\ r.frame = f),
                 \A p \in Pids, v \in Pages : mmu'[p][v] # mmu[p][v] =>
                    mmu'[p][v] = None /\ r.kind = "Unmap" /\ r.pid = p
          PROVE  Returned(inbox', client', reply', hung', mmu', alloc'.owner, life', replaced')
        <3>1. Returned(inbox, client, reply, hung, mmu, own, life, replaced)
            BY DEF own
        <3>2. Returned(Tail(inbox), client, reply, hung, mmu', own2, life, replaced)
            BY <2>3, <3>1, <1>0, <1>1, <1>2, <1>3, <1>7, <1>n, ReturnedServed DEF r
        <3> QED
            BY <3>2, <2>2, <1>1 DEF own2
    <2>4. CASE r.kind \in {"SwapOut", "SwapIn", "Query"}
        <3>1. mmu' = mmu /\ alloc' = alloc
            BY <2>4 DEF r, ServiceStep, HandleAllocFrame, HandleFreeFrame, HandleMapPageWithResponse,
               HandleUnmapPage, FaultSwapIn, FaultAllocate, FaultSwapOut, FaultExhausted,
               HandleSwapOut, HandleSwapIn, HandleQuery, Faulting, Serving, serviceVars
        <3>2. own2 = own
            BY <3>1 DEF own, own2
        <3> QED
            BY <2>3, <2>4, <3>1, <3>2
    <2>5. CASE r.kind = "Alloc"
        <3>1. mmu' = mmu /\ alloc' = AllocateFrames(alloc, r.pid, r.count)
            BY <2>5 DEF r, ServiceStep, HandleAllocFrame, HandleFreeFrame, HandleMapPageWithResponse,
               HandleUnmapPage, FaultSwapIn, FaultAllocate, FaultSwapOut, FaultExhausted,
               HandleSwapOut, HandleSwapIn, HandleQuery, Faulting, Serving, serviceVars
        <3>2. \A f \in Frames : own2[f] = own[f] \/ own2[f] = r.pid
            BY <3>1, <1>6 DEF AllocateFrames, own, own2
        <3> QED
            BY <2>1, <2>3, <2>5, <3>1, <3>2, <1>8
    <2>6. CASE r.kind = "Unmap"
        <3>1. mmu' = [mmu EXCEPT ![r.pid][r.page] = None] /\ alloc' = alloc
            BY <2>6 DEF r, ServiceStep, HandleAllocFrame, HandleFreeFrame, HandleMapPageWithResponse,
               HandleUnmapPage, FaultSwapIn, FaultAllocate, FaultSwapOut, FaultExhausted,
               HandleSwapOut, HandleSwapIn, HandleQuery, Faulting, Serving, serviceVars
        <3>2. /\ mmu'[r.pid][r.page] = None
              /\ \A p \in Pids, v \in Pages : (p # r.pid \/ v # r.page) => mmu'[p][v] = mmu[p][v]
            BY <3>1, <1>0, <1>5 DEF Tables
        <3>3. own2 = own
            BY <3>1 DEF own, own2
        <3>4. \A p \in Pids, v \in Pages : mmu'[p][v] # mmu[p][v] =>
                    mmu'[p][v] = None /\ r.kind = "Unmap" /\ r.pid = p
            BY <2>6, <3>2
        <3> QED
            BY <2>3, <2>6, <3>3, <3>4
    <2>7. CASE r.kind = "Free"
        <3>1. mmu' = mmu /\ alloc' = FreeFrame(alloc, r.frame)
            BY <2>7 DEF r, ServiceStep, HandleAllocFrame, HandleFreeFrame, HandleMapPageWithResponse,
               HandleUnmapPage, FaultSwapIn, FaultAllocate, FaultSwapOut, FaultExhausted,
               HandleSwapOut, HandleSwapIn, HandleQuery, Faulting, Serving, serviceVars
        <3>2. \A f \in Frames : IF f = r.frame THEN own2[f] = None ELSE own2[f] = own[f]
            BY <3>1, <1>6 DEF FreeFrame, CanFree, own, own2
        <3> QED
            BY <2>3, <2>7, <3>1, <3>2, <1>8
    <2> QED
        BY <2>1, <2>4, <2>5, <2>6, <2>7
<1>a. CASE Asking(client, reply, hung) /\ Len(inbox) = 1 /\ Awaited(r, client, mmu, own)
    <2>1. /\ Waits(client) /\ reply = NoReply /\ r.to = "client" /\ inbox' = <<>> /\ inbox = <<r>>
          /\ r.kind \in {"Fault", "Alloc", "Map"} /\ (r.kind = "Fault" <=> client.at = "fault")
          /\ (r.kind = "Alloc" <=> AllocWaits(client)) /\ (r.kind = "Map" <=> MapWaits(client))
          /\ (AllocWaits(client) => r.pid = client.pid /\ r.count = 1)
          /\ (MapWaits(client) => r.pid = client.pid /\ r.page = client.page)
        BY <1>a, <1>1, <1>2 DEF Asking, Awaited, Waits, AllocWaits, MapWaits
    <2>2. PlacesFree(client, reply, mmu, life, replaced)
        BY DEF Returned
    <2>3. ASSUME reply' # NoReply \/ hung',
                 \A f \in Frames, p \in Users : own2[f] = p =>
                    \/ own[f] = p
                    \/ life[p] # "dead" /\ \E v \in Pages : mmu'[p][v] = f
                    \/ life[p] # "dead" /\ AllocWaits(client) /\ reply' = f /\ client.pid = p,
                 \A p \in Users, v \in Pages : p \notin replaced /\ mmu[p][v] \in Frames /\ own2[mmu[p][v]] = p =>
                    \E w \in Pages : mmu'[p][w] = mmu[p][v],
                 MapWaits(client) => mmu'[client.pid][client.page] = r.frame,
                 PlacesFree(client, reply', mmu', life, replaced)
          PROVE  Returned(inbox', client', reply', hung', mmu', alloc'.owner, life', replaced')
        <3>1. Returned(<<r>>, client, reply, hung, mmu, own, life, replaced)
            BY <2>1 DEF own
        <3>2. ~Asking(client, reply', hung')
            BY <2>3 DEF Asking
        <3>3. r.kind \notin {"Free", "Unmap"}
            BY <2>1
        <3>4. Returned(<<>>, client, reply', hung', mmu', own2, life, replaced)
            BY <3>1, <3>2, <3>3, <2>3, <1>0, <1>a, ReturnedAnswered
        <3> QED
            BY <3>4, <2>1, <1>1 DEF own2
    <2>4. CASE r.kind = "Alloc"
        <3>1. /\ mmu' = mmu /\ alloc' = AllocateFrames(alloc, r.pid, 1)
              /\ reply' = IF CanAllocate(alloc, 1) THEN FirstFrame(alloc) ELSE Failed
            BY <2>1, <2>4 DEF r, ServiceStep, HandleAllocFrame, HandleFreeFrame, HandleMapPageWithResponse,
               HandleUnmapPage, FaultSwapIn, FaultAllocate, FaultSwapOut, FaultExhausted,
               HandleSwapOut, HandleSwapIn, HandleQuery, Faulting, Serving, Answer, serviceVars
        <3>2. AllocWaits(client) /\ ~MapWaits(client) /\ r.pid = client.pid /\ life[client.pid] # "dead"
            BY <2>1, <2>2, <2>4 DEF PlacesFree, AllocWaits
        <3>3. CanAllocate(alloc, 1) => /\ FirstFrame(alloc) \in Frames /\ own2[FirstFrame(alloc)] = r.pid
                                       /\ \A f \in Frames : f # FirstFrame(alloc) => own2[f] = own[f]
            BY <3>1, <1>0, <1>5, AllocateOwners DEF own, own2
        <3>4. ~CanAllocate(alloc, 1) => own2 = own
            BY <3>1 DEF AllocateFrames, own, own2
        <3>5. reply' # NoReply
            BY <3>1, <3>3, <1>8
        <3>6. \A f \in Frames, p \in Users : own2[f] = p =>
                 own[f] = p \/ (life[p] # "dead" /\ AllocWaits(client) /\ reply' = f /\ client.pid = p)
            BY <3>1, <3>2, <3>3, <3>4
        <3>7. PlacesFree(client, reply', mmu', life, replaced)
            BY <2>2, <3>1, <3>2 DEF PlacesFree
        <3> QED
            BY <2>3, <3>1, <3>2, <3>5, <3>6, <3>7
    <2>5. CASE r.kind = "Map"
        <3>1. mmu' = [mmu EXCEPT ![r.pid][r.page] = r.frame] /\ alloc' = alloc /\ reply' = Done
            BY <2>1, <2>5 DEF r, ServiceStep, HandleAllocFrame, HandleFreeFrame, HandleMapPageWithResponse,
               HandleUnmapPage, FaultSwapIn, FaultAllocate, FaultSwapOut, FaultExhausted,
               HandleSwapOut, HandleSwapIn, HandleQuery, Faulting, Serving, Answer, serviceVars
        <3>2. /\ MapWaits(client) /\ ~AllocWaits(client) /\ client.at # "fault" /\ r.pid = client.pid
              /\ r.page = client.page
            BY <2>1, <2>5
        <3>3. /\ client.pid \in Users /\ life[client.pid] = "run"
              /\ client.pid \in replaced \/ mmu[client.pid][client.page] = None
            BY <2>1, <2>2, <3>2 DEF PlacesFree, MapWaits
        <3>4. /\ mmu'[r.pid][r.page] = r.frame
              /\ \A p \in Pids, v \in Pages : (p # r.pid \/ v # r.page) => mmu'[p][v] = mmu[p][v]
            BY <3>1, <1>0, <1>5 DEF Tables
        <3>5. own2 = own
            BY <3>1 DEF own, own2
        <3>6. \A p \in Users, v \in Pages : p \notin replaced /\ mmu[p][v] \in Frames /\ own2[mmu[p][v]] = p =>
                    \E w \in Pages : mmu'[p][w] = mmu[p][v]
            BY <3>2, <3>3, <3>4, <1>8
        <3>7. PlacesFree(client, reply', mmu', life, replaced)
            <4>1. client.at \in ForkStates => \A v \in client.todo : mmu'[client.pid][v] = None
                <5>1. client.at \in ForkStates => client.at = "forkMap"
                    BY <3>2 DEF ForkStates, MapWaits
                <5>2. client.todo \subseteq Pages
                    BY <1>0 DEF ClientStates
                <5> QED
                    BY <2>2, <3>2, <3>4, <5>1, <5>2, <1>5 DEF PlacesFree
            <4>2. \A p \in Users : life[p] = "new" => \A v \in Pages : mmu'[p][v] = None
                BY <2>2, <3>2, <3>3, <3>4, <1>8 DEF PlacesFree
            <4>3. ~(AllocWaits(client) \/ (MapWaits(client) /\ reply' = NoReply))
                BY <3>1, <3>2, <1>8
            <4> QED
                BY <2>2, <4>1, <4>2, <4>3 DEF PlacesFree
        <3> QED
            BY <2>3, <3>1, <3>2, <3>4, <3>5, <3>6, <3>7, <1>8
    <2>6. CASE r.kind = "Fault"
        <3>1. FaultSwapIn \/ FaultAllocate \/ FaultSwapOut \/ FaultExhausted
            BY <2>6 DEF r, ServiceStep, HandleAllocFrame, HandleFreeFrame, HandleMapPageWithResponse,
               HandleUnmapPage, HandleSwapOut, HandleSwapIn, HandleQuery, Serving
        <3>2. client.at = "fault" /\ ~MapWaits(client) /\ ~AllocWaits(client)
            BY <2>1, <2>6
        <3>3. r.pid \in Users /\ life[r.pid] = "run" /\ (mmu[r.pid][r.page] = None \/ r.pid \in replaced)
            <4>1. FaultFree(<<r>>, client, reply, hung, mmu, life, replaced) /\ <<r>>[Len(<<r>>)] = r
                BY <2>1 DEF Returned
            <4> QED
                BY <4>1, <3>2, <1>a DEF FaultFree
        <3>4. ASSUME \A p \in Users : life[p] = "new" => \A v \in Pages : mmu'[p][v] = None
              PROVE  PlacesFree(client, reply', mmu', life, replaced)
            BY <3>2, <3>4 DEF PlacesFree, ForkStates
        <3>5. CASE FaultExhausted
            <4>1. mmu' = mmu /\ alloc' = alloc /\ reply' = Failed
                BY <3>5, <2>1 DEF FaultExhausted, Answer, r
            <4>2. own2 = own
                BY <4>1 DEF own, own2
            <4>3. PlacesFree(client, reply', mmu', life, replaced)
                BY <2>2, <3>4, <4>1 DEF PlacesFree
            <4> QED
                BY <2>3, <3>2, <4>1, <4>2, <4>3, <1>8
        <3>6. CASE FaultSwapIn \/ FaultAllocate
            <4> DEFINE f == FirstFrame(alloc)
            <4>1. /\ CanAllocate(alloc, 1) /\ alloc' = AllocateFrames(alloc, r.pid, 1)
                  /\ mmu' = [mmu EXCEPT ![r.pid][r.page] = f]
                  /\ (reply' = f \/ hung')
                BY <3>6, <2>1 DEF FaultSwapIn, FaultAllocate, MapFault, Answer, r
            <4>2. /\ \A g \in Frames : g # f => own2[g] = own[g]
                  /\ f \in Frames
                BY <4>1, <1>0, <1>5, AllocateOwners DEF own, own2
            <4>3. /\ mmu'[r.pid][r.page] = f
                  /\ \A p \in Pids, v \in Pages : (p # r.pid \/ v # r.page) => mmu'[p][v] = mmu[p][v]
                BY <4>1, <1>0, <1>5 DEF Tables
            <4>4. own2[f] = r.pid
                BY <4>1, <1>0, <1>5, AllocateOwners DEF own2
            <4> HIDE DEF f
            <4>5. \A g \in Frames, p \in Users : own2[g] = p =>
                     own[g] = p \/ (life[p] # "dead" /\ \E v \in Pages : mmu'[p][v] = g)
                BY <3>3, <4>2, <4>3, <4>4, <1>5
            <4>6. \A p \in Users, v \in Pages : p \notin replaced /\ mmu[p][v] \in Frames /\ own2[mmu[p][v]] = p =>
                     \E w \in Pages : mmu'[p][w] = mmu[p][v]
                BY <3>3, <4>3, <1>8
            <4>7. \A p \in Users : life[p] = "new" => \A v \in Pages : mmu'[p][v] = None
                BY <2>2, <3>3, <4>3, <1>8 DEF PlacesFree
            <4>8. reply' # NoReply \/ hung'
                BY <4>1, <4>2, <1>8
            <4>9. PlacesFree(client, reply', mmu', life, replaced)
                BY <4>7, <3>4
            <4> QED
                BY <2>3, <3>2, <4>5, <4>6, <4>8, <4>9
        <3>7. CASE FaultSwapOut
            <4>1. PICK pv \in Victims(r.pid) :
                    LET freed == FreeFrame(alloc, mmu[pv[1]][pv[2]])
                    IN  /\ alloc' = AllocateFrames(freed, r.pid, 1)
                        /\ IF CanAllocate(freed, 1)
                           THEN /\ mmu' = [mmu EXCEPT ![pv[1]][pv[2]] = None,
                                                      ![r.pid][r.page] = FirstFrame(freed)]
                                /\ reply' = FirstFrame(freed)
                           ELSE /\ mmu' = [mmu EXCEPT ![pv[1]][pv[2]] = None]
                                /\ reply' = Failed
                BY <3>7, <2>1 DEF FaultSwapOut, Answer, r
            <4> DEFINE p0 == pv[1]
                       v0 == pv[2]
                       f == mmu[p0][v0]
                       m == [mmu EXCEPT ![p0][v0] = None]
            <4>2. p0 \in Pids /\ v0 \in Pages /\ f # None
                BY <4>1 DEF Victims, PresentPages
            <4>3. f \in Frames /\ own[f] = p0 /\ p0 # None
                BY <4>2, <1>9, PidIsSomebody
            <4>4. ~CanAllocate(alloc, 1)
                BY <3>7 DEF FaultSwapOut
            <4>5. /\ CanAllocate(FreeFrame(alloc, f), 1) /\ FirstFrame(FreeFrame(alloc, f)) = f
                  /\ \A g \in Frames : AllocateFrames(FreeFrame(alloc, f), r.pid, 1).owner[g] =
                                         IF g = f THEN r.pid ELSE own[g]
                BY <4>3, <4>4, <1>0, <1>5, FreedIsNext DEF own
            <4>6. /\ mmu' = [m EXCEPT ![r.pid][r.page] = f] /\ reply' = f
                  /\ \A g \in Frames : own2[g] = IF g = f THEN r.pid ELSE own[g]
                BY <4>1, <4>5 DEF own2
            <4>7. /\ m \in Tables /\ m[p0][v0] = None
                  /\ \A q \in Pids, w \in Pages : (q # p0 \/ w # v0) => m[q][w] = mmu[q][w]
                BY <4>2, <1>0 DEF Tables
            <4>8. /\ mmu'[r.pid][r.page] = f
                  /\ \A q \in Pids, w \in Pages : (q # r.pid \/ w # r.page) => mmu'[q][w] = m[q][w]
                BY <4>6, <4>7, <1>5 DEF Tables
            <4> HIDE DEF m, p0, v0
            <4>9. mmu[p0][v0] = f
                OBVIOUS
            <4> HIDE DEF f
            <4>10. \A g \in Frames, p \in Users : own2[g] = p =>
                     own[g] = p \/ (life[p] # "dead" /\ \E v \in Pages : mmu'[p][v] = g)
                BY <3>3, <4>6, <4>8, <1>5
            <4>11. ASSUME NEW p \in Users, NEW v \in Pages, p \notin replaced, mmu[p][v] \in Frames,
                          own2[mmu[p][v]] = p
                   PROVE  \E w \in Pages : mmu'[p][w] = mmu[p][v]
                <5>1. CASE p = p0 /\ v = v0
                    BY <5>1, <4>3, <4>6, <4>8, <4>9, <4>11, <1>5
                <5>2. CASE p # p0 \/ v # v0
                    <6>1. m[p][v] = mmu[p][v]
                        BY <5>2, <4>7, <1>8
                    <6>2. p # r.pid \/ v # r.page
                        BY <3>3, <4>11, <1>8
                    <6>3. mmu'[p][v] = m[p][v]
                        BY <6>2, <4>8, <1>8
                    <6> QED
                        BY <6>1, <6>3
                <5> QED
                    BY <5>1, <5>2
            <4>12. \A p \in Users : life[p] = "new" => \A v \in Pages : mmu'[p][v] = None
                BY <2>2, <3>3, <4>7, <4>8, <1>8 DEF PlacesFree
            <4>13. PlacesFree(client, reply', mmu', life, replaced)
                BY <4>12, <3>4
            <4>14. reply' # NoReply
                BY <4>3, <4>6, <1>8
            <4> QED
                BY <2>3, <3>2, <4>10, <4>11, <4>13, <4>14
        <3> QED
            BY <3>1, <3>5, <3>6, <3>7
    <2> QED
        BY <2>1, <2>4, <2>5, <2>6
<1> QED
    BY <1>4, <1>n, <1>a

\* What the process service sends keeps every frame accounted for, unless it gives up
\* a wait.
LEMMA ReturnedClient ==
    ASSUME MemInv, FramesInv, life \in [Users -> {"new", "run", "dead"}],
           Private(inbox, client, reply, hung, mmu, alloc.owner),
           Returned(inbox, client, reply, hung, mmu, alloc.owner, life, replaced), ClientStep,
           ~ClientTimesOut
    PROVE  Returned(inbox', client', reply', hung', mmu', alloc'.owner, life', replaced')
<1> DEFINE own == alloc.owner
           Goal == Returned(inbox', client', reply', hung', mmu', alloc'.owner, life', replaced')
<1>0. /\ MmuInv /\ client \in ClientStates /\ inbox \in Seq(Requests) /\ inbox' \in Seq(Requests)
      /\ hung \in BOOLEAN /\ mmu \in Tables
    BY ClientKeeps DEF MemInv, FramesInv, ClientInv, QueueInv, Tables
<1>1. QueueShape(inbox, client, reply, hung, mmu, own) /\ OwnFrames(mmu, own)
    BY DEF Private
<1>2. mmu' = mmu /\ alloc'.owner = own /\ hung' = hung
    BY DEF ClientStep, ClientFault, ClientExit, ClientExec, ClientFork, ClientSends, ClientForkPage,
           ClientReceives, ApiRequest, serviceVars
<1>3. /\ Len(inbox) \in Nat /\ Len(inbox') \in Nat /\ 0 \in Pids /\ 0 \in Pages /\ \A p \in Users : p \in Pids
      /\ NoReply \notin Frames /\ None \notin Frames
    BY <1>0, MemoryAssumption, NFramesAssumption DEF Users, Frames, NoReply, None
<1>4. /\ FramesAccounted(inbox, client, reply, hung, mmu, own, life, replaced)
      /\ UnmapsOfTheDead(inbox, life, replaced)
      /\ FaultFree(inbox, client, reply, hung, mmu, life, replaced)
      /\ PlacesFree(client, reply, mmu, life, replaced)
    BY DEF Returned
<1>5. /\ client.pid \in Pids /\ client.page \in Pages /\ client.todo \subseteq Pages
    BY <1>0 DEF ClientStates
<1> HIDE DEF own
<1>g. ASSUME FramesAccounted(inbox', client', reply', hung, mmu, own, life', replaced'),
             UnmapsOfTheDead(inbox', life', replaced'),
             FaultFree(inbox', client', reply', hung, mmu, life', replaced'),
             PlacesFree(client', reply', mmu, life', replaced')
      PROVE  Goal
    BY <1>2, <1>g DEF Returned
<1> HIDE DEF Goal
\* Until it has sent something the client is promised nothing.
<1>p. ASSUME ~Waits(client) PROVE \A f \in Frames : ~Promised(f, inbox, client, reply, hung)
    BY <1>p DEF Promised, Waits
\* What is queued stays queued.
<1>k. ASSUME NEW msgs \in Seq(Requests), inbox' = inbox \o msgs
      PROVE  /\ Len(inbox') = Len(inbox) + Len(msgs) /\ Len(msgs) \in Nat
             /\ \A i \in 1 .. Len(inbox) : i \in 1 .. Len(inbox') /\ inbox'[i] = inbox[i]
             /\ \A i \in 1 .. Len(msgs) : Len(inbox) + i \in 1 .. Len(inbox') /\ inbox'[Len(inbox) + i] = msgs[i]
             /\ \A i \in 1 .. Len(inbox') : \/ i \in 1 .. Len(inbox) /\ inbox'[i] = inbox[i]
                                            \/ \E j \in 1 .. Len(msgs) : inbox'[i] = msgs[j]
    <2>1. /\ Len(inbox \o msgs) = Len(inbox) + Len(msgs) /\ Len(msgs) \in Nat
          /\ \A i \in 1 .. Len(inbox) : (inbox \o msgs)[i] = inbox[i]
          /\ \A i \in 1 .. Len(msgs) : (inbox \o msgs)[Len(inbox) + i] = msgs[i]
        BY <1>0, <1>k
    <2>2. \A i \in 1 .. Len(inbox) + Len(msgs) : \/ i \in 1 .. Len(inbox)
                                                 \/ i - Len(inbox) \in 1 .. Len(msgs) /\ i = Len(inbox) + (i - Len(inbox))
        BY <2>1, <1>3
    <2>3. \A i \in 1 .. Len(inbox') : \/ i \in 1 .. Len(inbox) /\ inbox'[i] = inbox[i]
                                      \/ \E j \in 1 .. Len(msgs) : inbox'[i] = msgs[j]
        BY <2>1, <2>2, <1>k
    <2>4. /\ \A i \in 1 .. Len(inbox) : i \in 1 .. Len(inbox')
          /\ \A i \in 1 .. Len(msgs) : Len(inbox) + i \in 1 .. Len(inbox')
        BY <2>1, <1>3, <1>k
    <2> QED
        BY <2>1, <2>3, <2>4, <1>k
\* Whatever the client sends before it waits, and whoever turns out to be replaced.
<1>s. ASSUME NEW msgs \in Seq(Requests), inbox' = inbox \o msgs, ~Waits(client), replaced \subseteq replaced',
             \A p \in Users : life[p] = "dead" => life'[p] = "dead",
             \A p \in Users, v \in Pages : life'[p] = "dead" /\ life[p] # "dead" /\ mmu[p][v] # None =>
                 \E i \in 1 .. Len(msgs) : msgs[i].kind = "Free" /\ msgs[i].frame = mmu[p][v],
             \A i \in 1 .. Len(msgs) : msgs[i].kind = "Unmap" =>
                 msgs[i].pid \in replaced' \/ (msgs[i].pid \in Users /\ life'[msgs[i].pid] = "dead")
      PROVE  /\ FramesAccounted(inbox', client', reply', hung, mmu, own, life', replaced')
             /\ UnmapsOfTheDead(inbox', life', replaced')
    <2>1. /\ \A i \in 1 .. Len(inbox) : i \in 1 .. Len(inbox') /\ inbox'[i] = inbox[i]
          /\ \A i \in 1 .. Len(msgs) : Len(inbox) + i \in 1 .. Len(inbox') /\ inbox'[Len(inbox) + i] = msgs[i]
          /\ \A i \in 1 .. Len(inbox') : \/ i \in 1 .. Len(inbox) /\ inbox'[i] = inbox[i]
                                         \/ \E j \in 1 .. Len(msgs) : inbox'[i] = msgs[j]
        BY <1>s, <1>k
    <2>2. UnmapsOfTheDead(inbox', life', replaced')
        BY <2>1, <1>s, <1>4 DEF UnmapsOfTheDead
    <2>3. ASSUME NEW f \in Frames, NEW p \in Users, own[f] = p, p \notin replaced'
          PROVE  IF life'[p] = "dead"
                 THEN \E i \in 1 .. Len(inbox') : inbox'[i].kind = "Free" /\ inbox'[i].frame = f
                 ELSE (\E v \in Pages : mmu[p][v] = f) \/ (Promised(f, inbox', client', reply', hung) /\ client'.pid = p)
        <3>1. p \notin replaced
            BY <2>3, <1>s
        <3>2. CASE life[p] = "dead"
            <4>1. life'[p] = "dead"
                BY <3>2, <1>s
            <4>2. \E i \in 1 .. Len(inbox) : inbox[i].kind = "Free" /\ inbox[i].frame = f
                BY <2>3, <3>1, <3>2, <1>4 DEF FramesAccounted
            <4> QED
                BY <4>1, <4>2, <2>1
        <3>3. CASE life[p] # "dead"
            <4>1. PICK v \in Pages : mmu[p][v] = f
                BY <2>3, <3>1, <3>3, <1>4, <1>s, <1>p, SMTT(30) DEF FramesAccounted
            <4>2. CASE life'[p] # "dead"
                BY <4>1, <4>2
            <4>3. CASE life'[p] = "dead"
                <5>1. mmu[p][v] # None
                    BY <4>1, <1>3, <2>3
                <5>2. PICK i \in 1 .. Len(msgs) : msgs[i].kind = "Free" /\ msgs[i].frame = f
                    BY <5>1, <4>1, <4>3, <3>3, <1>s
                <5> QED
                    BY <5>2, <4>3, <2>1
            <4> QED
                BY <4>2, <4>3
        <3> QED
            BY <3>2, <3>3
    <2>4. FramesAccounted(inbox', client', reply', hung, mmu, own, life', replaced')
        BY <2>3 DEF FramesAccounted
    <2> QED
        BY <2>2, <2>4
<1>6. ASSUME NEW p \in Users, NEW v \in Pages, ClientFault(p, v) PROVE Goal
    <2> DEFINE next == [Idle EXCEPT !.at = "fault"]
               r == Await(Request("Fault", p, v, None, 1))
    <2>1. /\ client.at = "idle" /\ inbox' = inbox \o <<r>> /\ client' = next /\ reply' = NoReply
          /\ life' = life /\ life[p] = "run"
          /\ replaced' = IF mmu[p][v] = None THEN replaced ELSE replaced \cup {p}
        BY <1>6 DEF ClientFault, ClientSends
    <2>2. next.at = "fault" /\ ~Waits(client)
        BY <2>1 DEF Idle, Waits, AllocWaits, MapWaits
    <2>3. r \in Requests
        BY <1>3, RequestTyped DEF None
    <2>4. r.kind = "Fault" /\ r.pid = p /\ r.page = v
        BY DEF Await, Request
    <2> HIDE DEF next, r
    <2>5. /\ <<r>> \in Seq(Requests) /\ Len(<<r>>) = 1 /\ <<r>>[1] = r
          /\ \A i \in 1 .. Len(<<r>>) : <<r>>[i].kind = "Fault"
        BY <2>3, <2>4
    <2>6. /\ FramesAccounted(inbox', client', reply', hung, mmu, own, life', replaced')
          /\ UnmapsOfTheDead(inbox', life', replaced')
        BY <2>1, <2>2, <2>5, <1>s
    <2>7. inbox'[Len(inbox')] = r
        BY <2>1, <2>5, <1>k, <1>3
    <2>8. FaultFree(inbox', client', reply', hung, mmu, life', replaced')
        BY <2>1, <2>4, <2>7 DEF FaultFree
    <2>9. PlacesFree(client', reply', mmu, life', replaced')
        <3>1. client'.at = "fault"
            BY <2>1, <2>2
        <3>2. ~AllocWaits(client') /\ ~MapWaits(client')
            BY <3>1 DEF AllocWaits, MapWaits
        <3> QED
            BY <3>1, <3>2, <2>1, <1>4 DEF PlacesFree, ForkStates
    <2> QED
        BY <2>6, <2>8, <2>9, <1>g
\* The client is idle or between two pages of a fork.
<1>i. ASSUME client'.at = "idle", \A p \in Users : life'[p] = "new" => life[p] = "new"
      PROVE  /\ FaultFree(inbox', client', reply', hung, mmu, life', replaced')
             /\ PlacesFree(client', reply', mmu, life', replaced')
    <2>1. ~AllocWaits(client') /\ ~MapWaits(client')
        BY <1>i DEF AllocWaits, MapWaits
    <2> QED
        BY <2>1, <1>i, <1>4 DEF FaultFree, PlacesFree, ForkStates
<1>7. ASSUME NEW p \in Users, ClientExit(p) PROVE Goal
    <2>1. PICK o \in Orders(PagesOf(p)) : ClientSends(Idle, ExitMessages(p, o))
        BY <1>7 DEF ClientExit, ExitMessages
    <2>2. o \in Seq(Pages)
        BY OrdersAreSequences DEF PagesOf
    <2>3. \A v \in Pages : mmu[p][v] # None => \E i \in 1 .. Len(o) : o[i] = v
        <3>1. PagesOf(p) \in SUBSET Pages
            BY DEF PagesOf
        <3>2. \A v \in PagesOf(p) : \E i \in 1 .. Len(o) : o[i] = v
            BY <3>1, OrdersCover
        <3> QED
            BY <3>2 DEF PagesOf
    <2> DEFINE ms == ExitMessages(p, o)
    <2>4. p \in Pids /\ MmuInv /\ OwnFrames(mmu, own) /\ ms = ExitMessages(p, o)
        BY <1>0, <1>1, <1>3
    <2>5. /\ client.at = "idle" /\ inbox' = inbox \o ms /\ client' = Idle /\ reply' = NoReply
          /\ life' = [life EXCEPT ![p] = "dead"] /\ life[p] = "run" /\ replaced' = replaced
        BY <1>7, <2>1 DEF ClientExit, ClientSends
    <2> HIDE DEF ms
    <2>6. ms \in Seq(Requests)
        BY <2>2, <2>4, ExitMessagesShape
    <2>7. /\ \A i \in 1 .. Len(ms) : ms[i].kind = "Unmap" => ms[i].pid = p
          /\ \A i \in 1 .. Len(o) : \E j \in 1 .. Len(ms) : ms[j].kind = "Free" /\ ms[j].frame = mmu[p][o[i]]
        BY <2>2, <2>4, ExitMessagesShape
    <2>8. \A v \in Pages : mmu[p][v] # None => \E i \in 1 .. Len(ms) : ms[i].kind = "Free" /\ ms[i].frame = mmu[p][v]
        BY <2>3, <2>7
    <2>9. life'[p] = "dead" /\ \A q \in Users : q # p => life'[q] = life[q]
        BY <2>5
    <2>10. ~Waits(client) /\ Idle.at = "idle"
        BY <2>5 DEF Waits, AllocWaits, MapWaits, Idle
    <2>11. /\ FramesAccounted(inbox', client', reply', hung, mmu, own, life', replaced')
           /\ UnmapsOfTheDead(inbox', life', replaced')
        <3>1. \A q \in Users : life[q] = "dead" => life'[q] = "dead"
            BY <2>5, <2>9
        <3>2. \A i \in 1 .. Len(ms) : ms[i].kind = "Unmap" =>
                 ms[i].pid \in replaced' \/ (ms[i].pid \in Users /\ life'[ms[i].pid] = "dead")
            BY <2>7, <2>9
        <3>3. \A q \in Users, v \in Pages : life'[q] = "dead" /\ life[q] # "dead" /\ mmu[q][v] # None =>
                 \E i \in 1 .. Len(ms) : ms[i].kind = "Free" /\ ms[i].frame = mmu[q][v]
            BY <2>8, <2>9
        <3> QED
            BY <3>1, <3>2, <3>3, <2>6, <2>5, <2>10, <1>s
    <2>12. \A q \in Users : life'[q] = "new" => life[q] = "new"
        BY <2>9
    <2> QED
        BY <2>5, <2>10, <2>11, <2>12, <1>i, <1>g
<1>8. ASSUME NEW p \in Users, ClientExec(p) PROVE Goal
    <2> DEFINE next == [Idle EXCEPT !.at = "execAlloc", !.pid = p]
               r == Await(Request("Alloc", p, 0, None, 1))
    <2>1. PICK o \in Orders(PagesOf(p)) : ClientSends(next, Unmaps(p, o) \o <<r>>)
        BY <1>8 DEF ClientExec
    <2>2. o \in Seq(Pages) /\ \A i \in 1 .. Len(o) : o[i] \in PagesOf(p)
        BY OrdersAreSequences, OrdersCover DEF PagesOf
    <2>3. next.at = "execAlloc" /\ next.pid = p /\ next.page = 0
        BY DEF Idle
    <2>4. r \in Requests
        BY <1>3, RequestTyped DEF None
    <2>5. r.kind = "Alloc"
        BY DEF Await, Request
    <2>6. /\ Len(Unmaps(p, o)) = Len(o) /\ Unmaps(p, o) \in Seq(Requests)
          /\ \A i \in 1 .. Len(Unmaps(p, o)) : Unmaps(p, o)[i].pid = p
        <3>1. Unmaps(p, o) \in Seq(Mappable)
            BY <2>2, <1>0, <1>3, ExitMessagesMappable
        <3>2. \A i \in 1 .. Len(Unmaps(p, o)) : Unmaps(p, o)[i] \in Requests
            BY <3>1 DEF Mappable
        <3>3. Len(Unmaps(p, o)) = Len(o)
            <4>1. Len(o) \in Nat /\ DOMAIN o = 1 .. Len(o)
                BY <2>2
            <4> QED
                BY <3>1, <4>1 DEF Unmaps
        <3>4. \A i \in 1 .. Len(Unmaps(p, o)) : Unmaps(p, o)[i].pid = p
            BY <2>2, <1>3, RequestShape
        <3> QED
            BY <3>1, <3>2, <3>3, <3>4, SequenceOf
    <2> DEFINE ms == Unmaps(p, o) \o <<r>>
    <2> HIDE DEF r, next
    <2>7. ms \in Seq(Requests) /\ \A i \in 1 .. Len(ms) : ms[i].kind = "Unmap" => ms[i].pid = p /\ Len(o) > 0
        <3>1. ms \in Seq(Requests)
            BY <2>4, <2>6
        <3>2. \A i \in 1 .. Len(ms) : ms[i] = r \/ (i \in 1 .. Len(o) /\ ms[i] = Unmaps(p, o)[i])
            BY <2>4, <2>6
        <3>3. \A i \in 1 .. Len(o) : Len(o) > 0
            BY <2>2
        <3> HIDE DEF ms
        <3> QED
            BY <3>1, <3>2, <3>3, <2>5, <2>6
    <2>8. /\ client.at = "idle" /\ inbox' = inbox \o ms /\ client' = next /\ reply' = NoReply
          /\ life' = life /\ life[p] # "dead"
          /\ replaced' = IF PagesOf(p) = {} THEN replaced ELSE replaced \cup {p}
        BY <1>8, <2>1 DEF ClientExec, ClientSends
    <2> HIDE DEF ms
    <2>9. ~Waits(client)
        BY <2>8 DEF Waits, AllocWaits, MapWaits
    <2>10. \A i \in 1 .. Len(ms) : ms[i].kind = "Unmap" => ms[i].pid \in replaced'
        <3>1. Len(o) > 0 => PagesOf(p) # {}
            BY <2>2
        <3> QED
            BY <3>1, <2>7, <2>8
    <2>11. /\ FramesAccounted(inbox', client', reply', hung, mmu, own, life', replaced')
           /\ UnmapsOfTheDead(inbox', life', replaced')
        BY <2>7, <2>8, <2>9, <2>10, <1>s
    <2>12. FaultFree(inbox', client', reply', hung, mmu, life', replaced')
        BY <2>3, <2>8 DEF FaultFree
    <2>13. PlacesFree(client', reply', mmu, life', replaced')
        <3>1. client'.at = "execAlloc" /\ client'.pid = p /\ client'.page = 0
            BY <2>3, <2>8
        <3>2. p \in replaced' \/ mmu[p][0] = None
            BY <2>8, <1>3 DEF PagesOf
        <3>3. AllocWaits(client') /\ ~MapWaits(client')
            BY <3>1 DEF AllocWaits, MapWaits
        <3> QED
            BY <3>1, <3>2, <3>3, <2>8, <1>4 DEF PlacesFree, ForkStates
    <2> QED
        BY <2>11, <2>12, <2>13, <1>g
\* A fork goes on with the next page, or is done.
<1>f. ASSUME NEW p \in Users, NEW q \in Pids, NEW todo \in SUBSET Pages, client' = ForkNext(p, q, todo),
             life'[p] # "dead", \A v \in todo : mmu[p][v] = None,
             \A x \in Users : life'[x] = "new" => life[x] = "new"
      PROVE  /\ FaultFree(inbox', client', reply', hung, mmu, life', replaced')
             /\ PlacesFree(client', reply', mmu, life', replaced')
    <2>1. CASE todo = {}
        <3>1. client'.at = "idle"
            BY <2>1, <1>f DEF ForkNext, Idle
        <3> QED
            BY <3>1, <1>i, <1>f
    <2>2. CASE todo # {}
        <3>1. client'.at = "forkPage" /\ client'.pid = p /\ client'.todo = todo
            BY <2>2, <1>f DEF ForkNext, Idle
        <3>2. ~AllocWaits(client') /\ ~MapWaits(client')
            BY <3>1 DEF AllocWaits, MapWaits
        <3>3. FaultFree(inbox', client', reply', hung, mmu, life', replaced')
            BY <3>1 DEF FaultFree
        <3>4. PlacesFree(client', reply', mmu, life', replaced')
            BY <3>1, <3>2, <1>f, <1>4 DEF PlacesFree, ForkStates
        <3> QED
            BY <3>3, <3>4
    <2> QED
        BY <2>1, <2>2
<1>9. ASSUME NEW q \in Users, NEW p \in Users, ClientFork(q, p) PROVE Goal
    <2>1. /\ client.at = "idle" /\ inbox' = inbox \o <<>> /\ client' = ForkNext(p, q, PagesOf(q))
          /\ reply' = NoReply /\ life[p] = "new" /\ replaced' = replaced
          /\ life' = IF PagesOf(q) = {} THEN [life EXCEPT ![p] = "run"] ELSE life
        BY <1>9 DEF ClientFork, ClientSends
    <2>2. ~Waits(client) /\ <<>> \in Seq(Requests) /\ \A i \in 1 .. Len(<<>>) : FALSE
        BY <2>1 DEF Waits, AllocWaits, MapWaits
    <2>3. \A x \in Users : life'[x] = life[x] \/ (x = p /\ life'[x] = "run")
        BY <2>1
    <2>4. /\ FramesAccounted(inbox', client', reply', hung, mmu, own, life', replaced')
          /\ UnmapsOfTheDead(inbox', life', replaced')
        <3>1. \A x \in Users : life[x] = "dead" => life'[x] = "dead"
            BY <2>1, <2>3
        <3>2. \A x \in Users : life'[x] = "dead" => life[x] = "dead"
            BY <2>1, <2>3
        <3> QED
            BY <3>1, <3>2, <2>1, <2>2, <1>s
    <2>5. \A v \in PagesOf(q) : mmu[p][v] = None
        BY <2>1, <1>4 DEF PlacesFree, PagesOf
    <2>6. PagesOf(q) \in SUBSET Pages /\ q \in Pids
        BY <1>3 DEF PagesOf
    <2>7. life'[p] # "dead" /\ \A x \in Users : life'[x] = "new" => life[x] = "new"
        BY <2>1, <2>3
    <2>8. /\ FaultFree(inbox', client', reply', hung, mmu, life', replaced')
          /\ PlacesFree(client', reply', mmu, life', replaced')
        BY <2>1, <2>5, <2>6, <2>7, <1>f
    <2> QED
        BY <2>4, <2>8, <1>g
<1>10. ASSUME ClientForkPage PROVE Goal
    <2> DEFINE r == Await(Request("Alloc", client.pid, 0, None, 1))
    <2>1. PICK v \in client.todo : client' = [client EXCEPT !.at = "forkAlloc", !.page = v, !.todo = @ \ {v}]
        BY <1>10 DEF ClientForkPage
    <2>2. client.at = "forkPage" /\ inbox' = Append(inbox, r) /\ reply' = NoReply
          /\ life' = life /\ replaced' = replaced
        BY <1>10 DEF ClientForkPage
    <2>3. client'.at = "forkAlloc" /\ client'.pid = client.pid /\ client'.page = v
          /\ client'.todo = client.todo \ {v}
        BY <2>1, <1>0 DEF ClientStates
    <2>4. r \in Requests
        BY <1>3, <1>5, RequestTyped DEF None
    <2>5. r.kind = "Alloc"
        BY DEF Await, Request
    <2> HIDE DEF r
    <2>6. /\ inbox' = inbox \o <<r>> /\ <<r>> \in Seq(Requests)
          /\ \A i \in 1 .. Len(<<r>>) : <<r>>[i].kind = "Alloc"
        BY <2>2, <2>4, <2>5, <1>0
    <2>7. ~Waits(client)
        BY <2>2 DEF Waits, AllocWaits, MapWaits
    <2>8. /\ FramesAccounted(inbox', client', reply', hung, mmu, own, life', replaced')
          /\ UnmapsOfTheDead(inbox', life', replaced')
        BY <2>2, <2>6, <2>7, <1>s
    <2>9. FaultFree(inbox', client', reply', hung, mmu, life', replaced')
        BY <2>3 DEF FaultFree
    <2>10. PlacesFree(client', reply', mmu, life', replaced')
        <3>1. client.pid \in Users /\ life[client.pid] # "dead" /\ \A w \in client.todo : mmu[client.pid][w] = None
            BY <2>2, <1>4 DEF PlacesFree, ForkStates
        <3>2. AllocWaits(client') /\ ~MapWaits(client')
            BY <2>3 DEF AllocWaits, MapWaits
        <3> QED
            BY <2>1, <2>2, <2>3, <3>1, <3>2, <1>4 DEF PlacesFree, ForkStates
    <2> QED
        BY <2>8, <2>9, <2>10, <1>g
<1>11. ASSUME ClientReceives PROVE Goal
    <2> DEFINE maps == AllocWaits(client) /\ Granted(reply)
               r == Await(Request("Map", client.pid, client.page, reply, 0))
               next == [client EXCEPT !.at = IF Forking THEN "forkMap" ELSE "execMap"]
    <2>1. reply # NoReply /\ reply' = NoReply /\ Resume(reply) /\ replaced' = replaced /\ Waits(client)
        BY <1>11 DEF ClientReceives, Waiting, Waits, AllocWaits, MapWaits
    <2>2. ~Asking(client, reply, hung) /\ hung = FALSE
        BY <2>1, <1>0, <1>1 DEF Asking, QueueShape
    <2>3. \A i \in 1 .. Len(inbox) : NotAwaited(inbox[i]) /\ ~Leaving(inbox[i])
        BY <2>1, <2>2, <1>1 DEF QueueShape
    <2>4. Dropped = inbox
        <3>1. \A i \in 1 .. Len(inbox) : inbox[i].to # "client"
            BY <2>3 DEF NotAwaited, FromOthers, Leaving
        <3>2. DOMAIN inbox = 1 .. Len(inbox) /\ inbox = [i \in DOMAIN inbox |-> inbox[i]]
            BY <1>0
        <3> QED
            BY <3>1, <3>2 DEF Dropped
    <2>5. \A i \in 1 .. Len(inbox) : inbox[i].kind \notin {"Free", "Unmap"}
        BY <2>3 DEF NotAwaited, FromOthers
    <2>6. client.at # "fault" => client.pid \in Users /\ life[client.pid] # "dead"
        BY <2>1, <1>4 DEF PlacesFree, Waits, AllocWaits, MapWaits
    <2>7. CASE maps
        <3>1. client' = next /\ inbox' = Append(inbox, r) /\ life' = [life EXCEPT ![client.pid] = "run"]
            BY <2>1, <2>4, <2>7 DEF Resume, AllocWaits
        <3>2. client'.at \in {"forkMap", "execMap"} /\ (client'.at = "forkMap" => client.at = "forkAlloc")
              /\ client'.todo = client.todo
            BY <2>7, <3>1, <1>0 DEF ClientStates, Forking, AllocWaits
        <3>3. client'.pid = client.pid /\ client'.page = client.page
            BY <3>1, <1>0 DEF ClientStates
        <3>4. MapWaits(client') /\ ~AllocWaits(client') /\ client'.at # "fault" /\ Waits(client')
              /\ client.at # "fault"
            BY <2>7, <3>2 DEF MapWaits, AllocWaits, Waits
        <3>5. reply \in Frames
            BY <2>7 DEF Granted
        <3>6. r.kind = "Map" /\ r.frame = reply
            BY DEF Await, Request
        <3>7. r \in Requests
            <4>1. reply \in Int
                BY <3>5, NFramesAssumption DEF Frames
            <4> QED
                BY <4>1, <1>5, RequestTyped
        <3> HIDE DEF r, next
        <3>8. /\ Len(inbox') = Len(inbox) + 1 /\ inbox'[Len(inbox')] = r
              /\ \A i \in 1 .. Len(inbox) : inbox'[i] = inbox[i]
            BY <3>1, <3>7, <1>0
        <3>9. \A i \in 1 .. Len(inbox') : inbox'[i].kind # "Unmap"
            <4>1. \A i \in 1 .. Len(inbox') : i \in 1 .. Len(inbox) \/ i = Len(inbox')
                BY <3>8, <1>3
            <4> QED
                BY <4>1, <3>6, <3>8, <2>5
        <3>10. life'[client.pid] = "run" /\ \A p \in Users : p # client.pid => life'[p] = life[p]
            BY <3>1, <3>4, <2>6
        <3>11. FramesAccounted(inbox', client', reply', hung, mmu, own, life', replaced')
            <4>1. ASSUME NEW f \in Frames, NEW p \in Users, own[f] = p, p \notin replaced
                  PROVE  /\ life'[p] # "dead"
                         /\ (\E v \in Pages : mmu[p][v] = f) \/ (Promised(f, inbox', client', reply', hung) /\ client'.pid = p)
                <5>1. life[p] # "dead"
                    BY <4>1, <2>5, <1>4 DEF FramesAccounted
                <5>2. (\E v \in Pages : mmu[p][v] = f) \/ (Promised(f, inbox, client, reply, hung) /\ client.pid = p)
                    BY <4>1, <5>1, <1>4 DEF FramesAccounted
                <5>3. life'[p] # "dead"
                    BY <5>1, <3>10
                <5>4. CASE Promised(f, inbox, client, reply, hung) /\ client.pid = p
                    <6>1. f = reply
                        BY <5>4, <2>2 DEF Promised
                    <6>2. Asking(client', reply', hung)
                        BY <2>1, <2>2, <3>4 DEF Asking
                    <6> QED
                        BY <5>3, <5>4, <6>1, <6>2, <3>3, <3>4, <3>6, <3>8 DEF Promised
                <5> QED
                    BY <5>2, <5>3, <5>4
            <4> QED
                BY <4>1, <2>1 DEF FramesAccounted
        <3>12. UnmapsOfTheDead(inbox', life', replaced')
            BY <3>9 DEF UnmapsOfTheDead
        <3>13. FaultFree(inbox', client', reply', hung, mmu, life', replaced')
            BY <3>4 DEF FaultFree
        <3>14. PlacesFree(client', reply', mmu, life', replaced')
            <4>1. client.pid \in replaced \/ mmu[client.pid][client.page] = None
                BY <2>7, <1>4 DEF PlacesFree
            <4>2. client'.at = "forkMap" => /\ \A v \in client.todo : mmu[client.pid][v] = None
                                            /\ client.page \notin client.todo
                BY <3>2, <1>4 DEF PlacesFree, ForkStates
            <4>3. \A p \in Users : life'[p] = "new" => \A v \in Pages : mmu[p][v] = None
                BY <3>10, <1>4 DEF PlacesFree
            <4>4. client'.at \in ForkStates => client'.at = "forkMap"
                BY <3>2 DEF ForkStates
            <4> QED
                BY <4>1, <4>2, <4>3, <4>4, <2>1, <2>6, <3>2, <3>3, <3>4, <3>10 DEF PlacesFree
        <3> QED
            BY <3>11, <3>12, <3>13, <3>14, <1>g
    <2>8. CASE ~maps
        <3>1. /\ inbox' = inbox
              /\ \/ ~Forking /\ client' = Idle /\ life' = life
                 \/ /\ Forking /\ client' = ForkNext(client.pid, client.parent, client.todo)
                    /\ life' = [life EXCEPT ![client.pid] = "run"]
            BY <2>1, <2>4, <2>8 DEF Resume, AllocWaits, Forking
        <3>2. \A f \in Frames : ~Promised(f, inbox, client, reply, hung)
            BY <2>2, <2>8 DEF Promised, Granted
        <3>3. \A p \in Users : \/ life'[p] = life[p]
                               \/ life'[p] = "run" /\ life[p] # "dead"
            BY <3>1, <2>6 DEF Forking
        <3>4. FramesAccounted(inbox', client', reply', hung, mmu, own, life', replaced')
            <4>1. ASSUME NEW f \in Frames, NEW p \in Users, own[f] = p, p \notin replaced
                  PROVE  life'[p] # "dead" /\ \E v \in Pages : mmu[p][v] = f
                <5>1. life[p] # "dead"
                    BY <4>1, <2>5, <1>4 DEF FramesAccounted
                <5>2. \E v \in Pages : mmu[p][v] = f
                    BY <4>1, <5>1, <3>2, <1>4 DEF FramesAccounted
                <5> QED
                    BY <5>1, <5>2, <3>3
            <4> QED
                BY <4>1, <2>1 DEF FramesAccounted
        <3>5. UnmapsOfTheDead(inbox', life', replaced')
            BY <3>1, <2>5 DEF UnmapsOfTheDead
        <3>6. \A p \in Users : life'[p] = "new" => life[p] = "new"
            BY <3>3
        <3>7. CASE client' = Idle
            <4>1. client'.at = "idle"
                BY <3>7 DEF Idle
            <4> QED
                BY <4>1, <3>4, <3>5, <3>6, <1>i, <1>g
        <3>8. CASE /\ Forking /\ client' = ForkNext(client.pid, client.parent, client.todo)
                   /\ life' = [life EXCEPT ![client.pid] = "run"]
            <4>1. client.pid \in Users /\ client.parent \in Pids /\ client.todo \in SUBSET Pages
                BY <3>8, <2>6, <1>0 DEF Forking, ClientStates
            <4>2. life'[client.pid] # "dead"
                BY <3>8, <4>1
            <4>3. \A v \in client.todo : mmu[client.pid][v] = None
                BY <3>8, <1>4 DEF PlacesFree, ForkStates, Forking
            <4>4. /\ FaultFree(inbox', client', reply', hung, mmu, life', replaced')
                  /\ PlacesFree(client', reply', mmu, life', replaced')
                BY <3>8, <3>6, <4>1, <4>2, <4>3, <1>f
            <4> QED
                BY <4>4, <3>4, <3>5, <1>g
        <3> QED
            BY <3>1, <3>7, <3>8
    <2> QED
        BY <2>7, <2>8
<1>12. ASSUME ApiRequest PROVE Goal
    <2>1. PICK r \in ApiRequests : inbox' = <<r>>
        BY <1>12 DEF ApiRequest
    <2>2. inbox = <<>> /\ reply' = reply /\ client' = client /\ life' = life /\ replaced' = replaced
        BY <1>12 DEF ApiRequest, clientVars
    <2>3. r.kind \notin {"Free", "Unmap"}
        BY ApiKindsAssumption
    <2>4. Len(inbox) = 0 /\ Len(inbox') = 1 /\ \A i \in 1 .. Len(inbox') : inbox'[i] = r
        BY <2>1, <2>2
    <2>5. ~Asking(client, reply, hung)
        BY <2>4, <1>1 DEF QueueShape
    <2>6. FramesAccounted(inbox', client', reply', hung, mmu, own, life', replaced')
        <3>1. \A f : Promised(f, inbox', client, reply, hung) <=> Promised(f, inbox, client, reply, hung)
            BY <2>5 DEF Promised
        <3>2. \A i \in 1 .. Len(inbox) : FALSE
            BY <2>4
        <3> QED
            BY <3>1, <3>2, <2>2, <1>4 DEF FramesAccounted
    <2>7. UnmapsOfTheDead(inbox', life', replaced')
        BY <2>3, <2>4 DEF UnmapsOfTheDead
    <2>8. FaultFree(inbox', client', reply', hung, mmu, life', replaced')
        BY <2>2, <2>5 DEF FaultFree
    <2> QED
        BY <2>2, <2>6, <2>7, <2>8, <1>4, <1>g
<1> QED
    BY <1>6, <1>7, <1>8, <1>9, <1>10, <1>11, <1>12 DEF ClientStep, Goal

\* Nobody owns a frame at the start.
LEMMA OwnInvInit == Init => OwnInv
<1> SUFFICES ASSUME Init PROVE OwnInv
    OBVIOUS
<1>1. /\ inbox = <<>> /\ client = Idle /\ reply = NoReply /\ hung = FALSE /\ mmu = Absent
      /\ life = [p \in Users |-> "new"] /\ alloc.owner = [f \in Frames |-> None]
    BY DEF Init, NewAllocator
<1>2. \A i \in 1 .. Len(inbox) : FALSE
    BY <1>1
<1>3. client.at = "idle" /\ ~AllocWaits(client) /\ ~MapWaits(client)
    BY <1>1 DEF Idle, AllocWaits, MapWaits
<1>4. FramesAccounted(inbox, client, reply, hung, mmu, alloc.owner, life, replaced)
    <2>1. \A p \in Users : p # None
        BY PidIsSomebody DEF Users
    <2> QED
        BY <1>1, <2>1 DEF FramesAccounted
<1>5. UnmapsOfTheDead(inbox, life, replaced)
    BY <1>2 DEF UnmapsOfTheDead
<1>6. FaultFree(inbox, client, reply, hung, mmu, life, replaced)
    BY <1>3 DEF FaultFree
<1>7. PlacesFree(client, reply, mmu, life, replaced)
    <2>1. \A p \in Users, v \in Pages : mmu[p][v] = None
        BY <1>1 DEF Absent, Users
    <2> QED
        BY <1>3, <2>1 DEF PlacesFree, ForkStates
<1>8. life \in [Users -> {"new", "run", "dead"}]
    BY <1>1
<1> QED
    BY <1>4, <1>5, <1>6, <1>7, <1>8 DEF OwnInv, Returned

\* Every step keeps every frame accounted for.
LEMMA OwnInvNext == MemInv /\ FramesInv /\ PrivInv /\ OwnInv /\ [Next]_vars => OwnInv'
<1> SUFFICES ASSUME MemInv, FramesInv, PrivInv, OwnInv, [Next]_vars PROVE OwnInv'
    OBVIOUS
<1>0. life \in [Users -> {"new", "run", "dead"}]
    BY DEF OwnInv
<1>1. CASE UNCHANGED vars
    BY <1>1 DEF OwnInv, vars, serviceVars, clientVars
<1>2. CASE ServiceStep
    <2>1. timeouts' = timeouts /\ life' = life
        BY <1>2 DEF ServiceStep, HandleAllocFrame, HandleFreeFrame, HandleMapPageWithResponse,
           HandleUnmapPage, FaultSwapIn, FaultAllocate, FaultSwapOut, FaultExhausted,
           HandleSwapOut, HandleSwapIn, HandleQuery, Answer, clientVars
    <2>2. timeouts = 0 => Returned(inbox, client, reply, hung, mmu, alloc.owner, life, replaced)'
        BY <1>2, ReturnedService DEF PrivInv, OwnInv
    <2> QED
        BY <2>1, <2>2, <1>0 DEF OwnInv
<1>3. CASE ClientStep
    <2>1. life' \in [Users -> {"new", "run", "dead"}]
        <3>1. \/ life' = life
              \/ \E p, s : s \in {"run", "dead"} /\ life' = [life EXCEPT ![p] = s]
            BY <1>3 DEF ClientStep, ClientFault, ClientExit, ClientExec, ClientFork, ClientForkPage,
               ClientReceives, ClientTimesOut, ApiRequest, Resume, clientVars
        <3> QED
            BY <3>1, <1>0
    <2>2. CASE ~ClientTimesOut
        <3>1. timeouts' = timeouts
            BY <1>3, <2>2 DEF ClientStep, ClientFault, ClientExit, ClientExec, ClientFork, ClientSends,
               ClientForkPage, ClientReceives, ApiRequest, clientVars
        <3>2. timeouts = 0 => Returned(inbox, client, reply, hung, mmu, alloc.owner, life, replaced)'
            BY <1>0, <1>3, <2>2, ReturnedClient DEF PrivInv, OwnInv
        <3> QED
            BY <2>1, <3>1, <3>2 DEF OwnInv
    <2>3. CASE ClientTimesOut
        <3>1. timeouts' = timeouts + 1 /\ timeouts \in Nat
            BY <2>3 DEF ClientTimesOut, PrivInv
        <3>2. timeouts' # 0
            BY <3>1
        <3> QED
            BY <2>1, <3>2 DEF OwnInv
    <2> QED
        BY <2>2, <2>3
<1> QED
    BY <1>1, <1>2, <1>3 DEF Next

\* As long as no wait was given up, a process that has exited, and was not given pages
\* anew over others, has none of its frames left once the service has caught up.
THEOREM ExitLeaksNoFrame == Spec => []ExitReturnsFrames
<1>1. OwnInv => ExitReturnsFrames
    <2> SUFFICES ASSUME OwnInv, timeouts = 0, inbox = <<>>, NEW p \in Users, life[p] = "dead",
                        p \notin replaced, NEW f \in Frames
                 PROVE  alloc.owner[f] # p
        BY DEF ExitReturnsFrames
    <2>1. FramesAccounted(inbox, client, reply, hung, mmu, alloc.owner, life, replaced)
        BY DEF OwnInv, Returned
    <2>2. \A i \in 1 .. Len(inbox) : FALSE
        OBVIOUS
    <2> QED
        BY <2>1, <2>2 DEF FramesAccounted
<1>2. MemInv /\ FramesInv /\ PrivInv /\ OwnInv /\ [Next]_vars => OwnInv'
    BY OwnInvNext
<1> QED
    BY <1>1, <1>2, OwnInvInit, MemInvAlways, FramesInvAlways, PrivInvAlways, PTL DEF Spec
=============================================================================
