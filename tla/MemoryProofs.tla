---------------------------- MODULE MemoryProofs ----------------------------
(***************************************************************************)
(* The memory service neither loses a frame or a swap slot nor hands one   *)
(* out twice, and a page that a fault swapped out stays on the disk: the   *)
(* invariants of module MemoryService, for any number of processes,        *)
(* frames, pages and slots and any requests.                               *)
(***************************************************************************)
EXTENDS MemoryService, FrameProofs, FiniteSetTheorems, NaturalsInduction

\* What a request handler relies on: the allocator is sound, and whatever is queued
\* names a process and counts frames.  Requests are built from the client's state
\* and from the page tables, so these are typed as well.
QueueInv == inbox \in Seq(Requests)

MmuInv == mmu \in [Pids -> [Pages -> Int]]

Places == {"idle", "fault", "execAlloc", "execMap", "forkPage", "forkAlloc", "forkMap"}

ClientStates ==
    [at : Places, pid : Pids, parent : Pids, todo : SUBSET Pages, page : Pages]

ClientInv == client \in ClientStates

MemInv == Sound(alloc) /\ QueueInv /\ MmuInv /\ ClientInv

\* The typing of the requests the process service and the tests put together.
LEMMA RequestTyped ==
    ASSUME NEW kind \in {"Alloc", "Free", "Map", "Unmap", "Fault",
                         "SwapOut", "SwapIn", "Query"},
           NEW p \in Pids, NEW v \in Pages, NEW f \in Int, NEW n \in Nat
    PROVE  /\ Request(kind, p, v, f, n) \in Requests
           /\ Await(Request(kind, p, v, f, n)) \in Requests
    BY DEF Request, Await, Requests

\* An order of some pages, as the loops over get_page_entries take them, is a sequence.
LEMMA OrdersAreSequences ==
    ASSUME NEW vs \in SUBSET Pages, NEW o \in Orders(vs)
    PROVE  o \in Seq(Pages)
<1>1. IsFiniteSet(vs)
    BY MemoryAssumption, FS_Subset
<1>2. Cardinality(vs) \in Nat
    BY <1>1, FS_CardinalityType
<1>3. o \in [1 .. Cardinality(vs) -> vs]
    BY DEF Orders
<1> QED
    BY <1>2, <1>3

\* The service and its client start with every frame free and nothing queued.
LEMMA MemInvInit == Init => MemInv
<1> SUFFICES ASSUME Init PROVE MemInv
    OBVIOUS
<1>1. Sound(alloc)
    BY NewAllocatorSound DEF Init
<1>2. QueueInv
    BY DEF Init, QueueInv
<1>3. MmuInv
    BY DEF Init, MmuInv, Absent, None
<1>4. ClientInv
    BY MemoryAssumption DEF Init, ClientInv, Idle, ClientStates, Places
<1> QED
    BY <1>1, <1>2, <1>3, <1>4 DEF MemInv

\* A request that is served is one of the queue's, and is taken off it.
LEMMA Served ==
    ASSUME QueueInv, NEW kinds, Serving(kinds)
    PROVE  Head(inbox) \in Requests /\ Tail(inbox) \in Seq(Requests)
    BY DEF QueueInv, Serving

\* The frame of an allocation of one frame that succeeds exists.
LEMMA FirstFrameExists ==
    ASSUME NEW a, Sound(a), CanAllocate(a, 1)
    PROVE  FirstFrame(a) \in Frames /\ FirstFrame(a) \in Int
<1>1. a.free \in Seq(Frames) /\ Len(a.free) >= 1
    BY DEF Sound, AllocatorType, CanAllocate
<1>2. a.free[1] \in Frames
    BY <1>1
<1> QED
    BY <1>2, NFramesAssumption DEF FirstFrame, Frames

\* A mapping, an unmapping or a swap changes one entry of one process's page table.
LEMMA EntryTyped ==
    ASSUME NEW m \in [Pids -> [Pages -> Int]], NEW p \in Pids, NEW v \in Pages, NEW f \in Int
    PROVE  [m EXCEPT ![p][v] = f] \in [Pids -> [Pages -> Int]]
    OBVIOUS

\* Every request handler of the service keeps the invariant.
LEMMA ServiceKeeps == MemInv /\ ServiceStep => MemInv'
<1> SUFFICES ASSUME MemInv, ServiceStep PROVE MemInv'
    OBVIOUS
<1>0. Sound(alloc) /\ QueueInv /\ MmuInv /\ ClientInv /\ None \in Int
    BY DEF MemInv, None
<1> DEFINE r == Head(inbox)
<1>a. ASSUME NEW a, NEW kinds, Serving(kinds), Answer(a) PROVE QueueInv' /\ ClientInv'
    <2>1. Tail(inbox) \in Seq(Requests)
        BY <1>0, <1>a, Served
    <2> QED
        BY <2>1, <1>0, <1>a DEF Answer, QueueInv, ClientInv, clientVars
<1>b. ASSUME NEW kinds, Serving(kinds)
      PROVE  r.pid \in Pids /\ r.page \in Pages /\ r.frame \in Int /\ r.count \in Nat
    <2>1. r \in Requests
        BY <1>0, <1>b, Served
    <2> HIDE DEF r
    <2> QED
        BY <2>1 DEF Requests
<1> HIDE DEF r
<1>1. CASE HandleAllocFrame
    <2>1. Serving({"Alloc"}) /\ alloc' = AllocateFrames(alloc, r.pid, r.count)
        BY <1>1 DEF HandleAllocFrame, r
    <2>2. Sound(alloc')
        BY <2>1, <1>0, <1>b, AllocateSound
    <2>3. QueueInv' /\ ClientInv'
        BY <1>1, <1>a DEF HandleAllocFrame
    <2> QED
        BY <2>2, <2>3, <1>0, <1>1 DEF MemInv, MmuInv, HandleAllocFrame
<1>2. CASE HandleFreeFrame
    <2>1. Sound(alloc')
        BY <1>2, <1>0, FreeSound DEF HandleFreeFrame
    <2>2. QueueInv' /\ ClientInv'
        BY <1>2, <1>a DEF HandleFreeFrame
    <2> QED
        BY <2>1, <2>2, <1>0, <1>2 DEF MemInv, MmuInv, HandleFreeFrame
<1>3. CASE HandleMapPageWithResponse
    <2>1. Serving({"Map"}) /\ mmu' = [mmu EXCEPT ![r.pid][r.page] = r.frame]
        BY <1>3 DEF HandleMapPageWithResponse, r
    <2>2. MmuInv'
        BY <2>1, <1>0, <1>b, EntryTyped DEF MmuInv
    <2>3. QueueInv' /\ ClientInv'
        BY <1>3, <1>a DEF HandleMapPageWithResponse
    <2> QED
        BY <2>2, <2>3, <1>0, <1>3 DEF MemInv, HandleMapPageWithResponse
<1>4. CASE HandleUnmapPage
    <2>1. Serving({"Unmap"}) /\ mmu' = [mmu EXCEPT ![r.pid][r.page] = None]
        BY <1>4 DEF HandleUnmapPage, r
    <2>2. MmuInv'
        BY <2>1, <1>0, <1>b, EntryTyped DEF MmuInv
    <2>3. QueueInv' /\ ClientInv'
        BY <1>4, <1>a DEF HandleUnmapPage
    <2> QED
        BY <2>2, <2>3, <1>0, <1>4 DEF MemInv, HandleUnmapPage
<1>5. CASE FaultSwapIn
    <2>1. /\ Serving({"Fault"}) /\ CanAllocate(alloc, 1)
          /\ alloc' = AllocateFrames(alloc, r.pid, 1)
          /\ mmu' = [mmu EXCEPT ![r.pid][r.page] = FirstFrame(alloc)]
          /\ inbox' = Tail(inbox) /\ client' = client
        BY <1>5 DEF FaultSwapIn, Faulting, MapFault, clientVars, r
    <2>2. Sound(alloc')
        BY <2>1, <1>0, <1>b, AllocateSound
    <2>3. MmuInv'
        BY <2>1, <1>0, <1>b, EntryTyped, FirstFrameExists DEF MmuInv
    <2>4. QueueInv' /\ ClientInv'
        BY <2>1, <1>0, Served DEF QueueInv, ClientInv
    <2> QED
        BY <2>2, <2>3, <2>4 DEF MemInv
<1>6. CASE FaultAllocate
    <2>1. /\ Serving({"Fault"}) /\ CanAllocate(alloc, 1)
          /\ alloc' = AllocateFrames(alloc, r.pid, 1)
          /\ mmu' = [mmu EXCEPT ![r.pid][r.page] = FirstFrame(alloc)]
          /\ Answer(FirstFrame(alloc))
        BY <1>6 DEF FaultAllocate, Faulting, MapFault, r
    <2>2. Sound(alloc')
        BY <2>1, <1>0, <1>b, AllocateSound
    <2>3. MmuInv'
        BY <2>1, <1>0, <1>b, EntryTyped, FirstFrameExists DEF MmuInv
    <2>4. QueueInv' /\ ClientInv'
        BY <2>1, <1>a
    <2> QED
        BY <2>2, <2>3, <2>4 DEF MemInv
<1>7. CASE FaultSwapOut
    <2>1. Serving({"Fault"})
        BY <1>7 DEF FaultSwapOut, Faulting
    <2>2. PICK pv \in Victims(r.pid) :
            LET freed == FreeFrame(alloc, mmu[pv[1]][pv[2]])
            IN  /\ alloc' = AllocateFrames(freed, r.pid, 1)
                /\ IF CanAllocate(freed, 1)
                   THEN /\ mmu' = [mmu EXCEPT ![pv[1]][pv[2]] = None,
                                              ![r.pid][r.page] = FirstFrame(freed)]
                        /\ Answer(FirstFrame(freed))
                   ELSE /\ mmu' = [mmu EXCEPT ![pv[1]][pv[2]] = None]
                        /\ Answer(Failed)
        BY <1>7 DEF FaultSwapOut, r
    <2> DEFINE freed == FreeFrame(alloc, mmu[pv[1]][pv[2]])
    <2>3. pv[1] \in Pids /\ pv[2] \in Pages
        BY <2>2 DEF Victims, PresentPages
    <2>4. Sound(freed)
        BY <1>0, FreeSound
    <2> HIDE DEF freed
    <2>5. Sound(alloc')
        BY <2>1, <2>2, <2>4, <1>b, AllocateSound DEF freed
    <2> DEFINE m == [mmu EXCEPT ![pv[1]][pv[2]] = None]
    <2>6. m \in [Pids -> [Pages -> Int]]
        BY <1>0, <2>3, EntryTyped DEF MmuInv
    <2>7. CASE CanAllocate(freed, 1)
        <3>1. mmu' = [m EXCEPT ![r.pid][r.page] = FirstFrame(freed)] /\ Answer(FirstFrame(freed))
            BY <2>2, <2>7 DEF freed
        <3>2. FirstFrame(freed) \in Int
            BY <2>4, <2>7, FirstFrameExists
        <3> HIDE DEF m
        <3>3. MmuInv'
            BY <3>1, <3>2, <2>1, <2>6, <1>b, EntryTyped DEF MmuInv
        <3> QED
            BY <3>1, <3>3, <2>1, <2>5, <1>a DEF MemInv
    <2>8. CASE ~CanAllocate(freed, 1)
        <3>1. mmu' = m /\ Answer(Failed)
            BY <2>2, <2>8 DEF freed
        <3>2. MmuInv'
            BY <3>1, <2>6 DEF MmuInv
        <3> QED
            BY <3>1, <3>2, <2>1, <2>5, <1>a DEF MemInv
    <2> QED
        BY <2>7, <2>8
<1>8. CASE FaultExhausted \/ HandleSwapOut \/ HandleSwapIn \/ HandleQuery
    <2>1. alloc' = alloc /\ mmu' = mmu
        BY <1>8 DEF FaultExhausted, HandleSwapOut, HandleSwapIn, HandleQuery, serviceVars
    <2>2. QueueInv' /\ ClientInv'
        BY <1>8, <1>a DEF FaultExhausted, Faulting, HandleSwapOut, HandleSwapIn, HandleQuery
    <2> QED
        BY <2>1, <2>2, <1>0 DEF MemInv, MmuInv
<1> QED
    BY <1>1, <1>2, <1>3, <1>4, <1>5, <1>6, <1>7, <1>8 DEF ServiceStep

\* What a new transaction of the process service leaves, when its messages and the
\* state it waits in are typed.
LEMMA SendsKeep ==
    ASSUME MemInv, NEW next, NEW msgs \in Seq(Requests), ClientSends(next, msgs),
           next \in ClientStates
    PROVE  MemInv'
<1>1. alloc' = alloc /\ mmu' = mmu /\ client' = next /\ inbox' = inbox \o msgs
    BY DEF ClientSends, serviceVars
<1>2. QueueInv'
    BY <1>1 DEF MemInv, QueueInv
<1> QED
    BY <1>1, <1>2 DEF MemInv, MmuInv, ClientInv

\* Where a fork stands once a page is done: waiting for the next one or idle.
LEMMA ForkNextTyped ==
    ASSUME NEW p \in Pids, NEW parent \in Pids, NEW todo \in SUBSET Pages
    PROVE  ForkNext(p, parent, todo) \in ClientStates
    BY MemoryAssumption DEF ForkNext, Idle, ClientStates, Places

\* Giving a wait up changes only where an answer goes.
LEMMA DroppedTyped == QueueInv => Dropped \in Seq(Requests)
<1> SUFFICES ASSUME QueueInv PROVE Dropped \in Seq(Requests)
    OBVIOUS
<1>1. Len(inbox) \in Nat /\ DOMAIN inbox = 1 .. Len(inbox)
      /\ \A i \in 1 .. Len(inbox) : inbox[i] \in Requests
    BY DEF QueueInv
<1>2. \A q \in Requests : [q EXCEPT !.to = "dropped"] \in Requests
    BY DEF Requests
<1>3. \A i \in 1 .. Len(inbox) : Dropped[i] \in Requests
    BY <1>1, <1>2 DEF Dropped
<1>4. Dropped = [i \in 1 .. Len(inbox) |-> Dropped[i]]
    BY <1>1 DEF Dropped
<1> QED
    BY <1>1, <1>3, <1>4

\* Going on after a wait, with an answer or without one: the message a granted frame
\* leads to and the next state of the transaction are typed.
LEMMA ResumeKeeps ==
    ASSUME QueueInv, ClientInv, NEW a, Resume(a)
    PROVE  QueueInv' /\ ClientInv'
<1> DEFINE maps   == client.at \in {"execAlloc", "forkAlloc"} /\ Granted(a)
           aborts == client.at = "forkAlloc" /\ a = NoReply
           after  == IF Forking /\ ~aborts THEN ForkNext(client.pid, client.parent, client.todo)
                     ELSE Idle
           map    == Await(Request("Map", client.pid, client.page, a, 0))
<1>1. client \in ClientStates
    BY DEF ClientInv
<1>2. client.pid \in Pids /\ client.parent \in Pids /\ client.todo \in SUBSET Pages
      /\ client.page \in Pages
    BY <1>1 DEF ClientStates
<1>3. after \in ClientStates
    <2>1. Idle \in ClientStates
        BY MemoryAssumption DEF Idle, ClientStates, Places
    <2>2. ForkNext(client.pid, client.parent, client.todo) \in ClientStates
        BY <1>2, ForkNextTyped
    <2> QED
        BY <2>1, <2>2
<1>4. \A at \in Places : [client EXCEPT !.at = at] \in ClientStates
    BY <1>1 DEF ClientStates
<1>5. Dropped \in Seq(Requests)
    BY DroppedTyped
<1>6. /\ client' = IF maps THEN [client EXCEPT !.at = IF Forking THEN "forkMap" ELSE "execMap"]
                   ELSE after
      /\ inbox' = IF maps THEN Append(Dropped, map) ELSE Dropped
    BY DEF Resume
<1>7. maps => map \in Requests
    <2> SUFFICES ASSUME Granted(a) PROVE map \in Requests
        OBVIOUS
    <2>1. a \in Int
        BY NFramesAssumption DEF Granted, Frames
    <2> QED
        BY <2>1, <1>2, RequestTyped
<1> HIDE DEF maps, after, map
<1>8. client' \in ClientStates
    BY <1>3, <1>4, <1>6 DEF Places
<1>9. inbox' \in Seq(Requests)
    BY <1>5, <1>6, <1>7
<1> QED
    BY <1>8, <1>9 DEF QueueInv, ClientInv

\* The messages of an exit (syscall_exit), for whatever order of the pages.
LEMMA ExitMessagesTyped ==
    ASSUME MmuInv, NEW p \in Pids, NEW o \in Seq(Pages)
    PROVE  [i \in 1 .. 2 * Len(o) |->
              IF i % 2 = 1 THEN Request("Unmap", p, o[(i + 1) \div 2], None, 0)
              ELSE Request("Free", 0, 0, mmu[p][o[i \div 2]], 0)] \in Seq(Requests)
<1> DEFINE k == Len(o)
           msg(i) == IF i % 2 = 1 THEN Request("Unmap", p, o[(i + 1) \div 2], None, 0)
                     ELSE Request("Free", 0, 0, mmu[p][o[i \div 2]], 0)
<1>1. k \in Nat /\ 2 * k \in Nat
    OBVIOUS
<1>2. ASSUME NEW i \in 1 .. 2 * k PROVE msg(i) \in Requests
    <2>1. CASE i % 2 = 1
        <3>1. (i + 1) \div 2 \in 1 .. k
            BY <2>1, <1>1
        <3>2. o[(i + 1) \div 2] \in Pages
            BY <3>1
        <3>3. None \in Int
            BY DEF None
        <3> QED
            BY <2>1, <3>2, <3>3, RequestTyped
    <2>2. CASE i % 2 # 1
        <3>1. i \div 2 \in 1 .. k
            BY <2>2, <1>1
        <3>2. o[i \div 2] \in Pages
            BY <3>1
        <3>3. mmu[p][o[i \div 2]] \in Int
            BY <3>2 DEF MmuInv
        <3> QED
            BY <2>2, <3>3, RequestTyped, MemoryAssumption
    <2> QED
        BY <2>1, <2>2
<1> HIDE DEF msg, k
<1>3. [i \in 1 .. 2 * k |-> msg(i)] \in Seq(Requests)
    BY <1>1, <1>2
<1> QED
    BY <1>3 DEF msg, k

\* Every step of the process service keeps the invariant.
LEMMA ClientKeeps == MemInv /\ ClientStep => MemInv'
<1> SUFFICES ASSUME MemInv, ClientStep PROVE MemInv'
    OBVIOUS
<1>0. Sound(alloc) /\ QueueInv /\ MmuInv /\ ClientInv
    BY DEF MemInv
<1>a. \A p \in Users : p \in Pids
    BY DEF Users
<1>b. \A at \in Places, p \in Pids :
        [Idle EXCEPT !.at = at, !.pid = p] \in ClientStates
    BY MemoryAssumption DEF Idle, ClientStates, Places
<1>c. 0 \in Pids /\ 0 \in Pages /\ None \in Int
    BY MemoryAssumption DEF None
<1>1. ASSUME NEW p \in Users, NEW v \in Pages, ClientFault(p, v) PROVE MemInv'
    <2>1. Await(Request("Fault", p, v, None, 1)) \in Requests
        BY <1>a, <1>c, RequestTyped
    <2>2. [Idle EXCEPT !.at = "fault"] \in ClientStates
        BY MemoryAssumption DEF Idle, ClientStates, Places
    <2>3. <<Await(Request("Fault", p, v, None, 1))>> \in Seq(Requests)
        BY <2>1
    <2>4. ClientSends([Idle EXCEPT !.at = "fault"], <<Await(Request("Fault", p, v, None, 1))>>)
        BY <1>1 DEF ClientFault
    <2> QED
        BY <2>2, <2>3, <2>4, SendsKeep
<1>2. ASSUME NEW p \in Users, ClientExit(p) PROVE MemInv'
    <2> DEFINE msgs(o) == [i \in 1 .. 2 * Len(o) |->
              IF i % 2 = 1 THEN Request("Unmap", p, o[(i + 1) \div 2], None, 0)
              ELSE Request("Free", 0, 0, mmu[p][o[i \div 2]], 0)]
    <2>1. PICK o \in Orders(PagesOf(p)) : ClientSends(Idle, msgs(o))
        BY <1>2 DEF ClientExit
    <2>2. o \in Seq(Pages)
        BY OrdersAreSequences DEF PagesOf
    <2>3. msgs(o) \in Seq(Requests)
        BY <2>2, <1>0, <1>a, ExitMessagesTyped
    <2>4. Idle \in ClientStates
        BY MemoryAssumption DEF Idle, ClientStates, Places
    <2> HIDE DEF msgs
    <2> QED
        BY <2>1, <2>3, <2>4, SendsKeep
<1>3. ASSUME NEW p \in Users, ClientExec(p) PROVE MemInv'
    <2> DEFINE next == [Idle EXCEPT !.at = "execAlloc", !.pid = p]
               ask == Await(Request("Alloc", p, 0, None, 1))
    <2>1. PICK o \in Orders(PagesOf(p)) : ClientSends(next, Unmaps(p, o) \o <<ask>>)
        BY <1>3 DEF ClientExec
    <2>2. o \in Seq(Pages)
        BY OrdersAreSequences DEF PagesOf
    <2>3. Unmaps(p, o) \in Seq(Requests)
        <3>1. Len(o) \in Nat /\ DOMAIN o = 1 .. Len(o) /\ \A i \in 1 .. Len(o) : o[i] \in Pages
            BY <2>2
        <3>2. \A i \in 1 .. Len(o) : Request("Unmap", p, o[i], None, 0) \in Requests
            BY <3>1, <1>a, <1>c, RequestTyped
        <3> QED
            BY <3>1, <3>2 DEF Unmaps
    <2>4. <<ask>> \in Seq(Requests)
        BY <1>a, <1>c, RequestTyped
    <2>5. next \in ClientStates
        BY <1>a, <1>b DEF Places
    <2> HIDE DEF next, ask
    <2>6. Unmaps(p, o) \o <<ask>> \in Seq(Requests)
        BY <2>3, <2>4
    <2> QED
        BY <2>1, <2>5, <2>6, SendsKeep
<1>4. ASSUME NEW q \in Users, NEW p \in Users, ClientFork(q, p) PROVE MemInv'
    <2>1. ClientSends(ForkNext(p, q, PagesOf(q)), <<>>)
        BY <1>4 DEF ClientFork
    <2>2. PagesOf(q) \in SUBSET Pages
        BY DEF PagesOf
    <2>3. <<>> \in Seq(Requests)
        OBVIOUS
    <2> QED
        BY <2>1, <2>2, <2>3, <1>a, ForkNextTyped, SendsKeep
<1>5. CASE ClientForkPage
    <2>1. PICK v \in client.todo :
            client' = [client EXCEPT !.at = "forkAlloc", !.page = v, !.todo = @ \ {v}]
        BY <1>5 DEF ClientForkPage
    <2>2. ClientInv'
        BY <2>1, <1>0 DEF ClientInv, ClientStates, Places
    <2>3. Await(Request("Alloc", client.pid, 0, None, 1)) \in Requests
        <3>1. client.pid \in Pids
            BY <1>0 DEF ClientInv, ClientStates
        <3> QED
            BY <3>1, <1>c, RequestTyped
    <2>4. QueueInv'
        BY <2>3, <1>0, <1>5 DEF ClientForkPage, QueueInv
    <2> QED
        BY <2>2, <2>4, <1>0, <1>5 DEF ClientForkPage, MemInv, MmuInv, serviceVars
<1>6. CASE ClientReceives \/ ClientTimesOut
    <2>1. alloc' = alloc /\ mmu' = mmu /\ \E a \in {reply, NoReply} : Resume(a)
        BY <1>6 DEF ClientReceives, ClientTimesOut, serviceVars
    <2>2. QueueInv' /\ ClientInv'
        BY <2>1, <1>0, ResumeKeeps
    <2> QED
        BY <2>1, <2>2, <1>0 DEF MemInv, MmuInv
<1>7. CASE ApiRequest
    <2>1. PICK r \in ApiRequests : inbox' = <<r>>
        BY <1>7 DEF ApiRequest
    <2>2. r \in Requests
        BY ApiAssumption
    <2>3. QueueInv'
        BY <2>1, <2>2 DEF QueueInv
    <2> QED
        BY <2>3, <1>0, <1>7 DEF ApiRequest, MemInv, MmuInv, ClientInv, serviceVars, clientVars
<1> QED
    BY <1>1, <1>2, <1>3, <1>4, <1>5, <1>6, <1>7 DEF ClientStep

\* MemInv holds in every reachable state.
LEMMA MemInvAlways == Spec => []MemInv
<1>1. MemInv /\ UNCHANGED vars => MemInv'
    BY DEF MemInv, QueueInv, MmuInv, ClientInv, vars, serviceVars, clientVars
<1>2. MemInv /\ [Next]_vars => MemInv'
    BY <1>1, ServiceKeeps, ClientKeeps DEF Next
<1> QED
    BY <1>2, MemInvInit, PTL DEF Spec

\* Whatever is requested, in whatever order, and whichever waits time out: the free
\* queue of the frame allocator (alloc.rs) holds every free frame exactly once and
\* its two counters add up to the frames there are.
THEOREM FramesNeverLost == Spec => []FramesPartition
<1>1. MemInv => FramesPartition
    BY DEF MemInv, Sound, FramesPartition
<1> QED
    BY <1>1, MemInvAlways, PTL
------------------------------------------------------------------------------
(* Swap slots.                                                               *)

SwapSound(w) == w \in S!SwapType /\ S!SlotsExact(w)

\* At the start every slot is free, in order.
LEMMA NewSwapSound == SwapSound(S!NewSwap)
<1> DEFINE w == S!NewSwap
<1>0. NSlots \in Nat \ {0}
    BY MemoryAssumption
<1>1. w \in S!SwapType
    BY <1>0 DEF S!NewSwap, S!SwapType, S!Slots
<1>2. /\ \A s \in S!Slots : w.page[s] = S!Empty
      /\ w.free = [i \in 1 .. NSlots |-> i - 1] /\ w.used = 0
      /\ \A p \in Pids : w.ofPid[p] = <<>>
    BY DEF S!NewSwap
<1>3. Len(w.free) = NSlots /\ \A i \in 1 .. NSlots : w.free[i] = i - 1 /\ i - 1 \in S!Slots
    BY <1>0, <1>2 DEF S!Slots
<1>4. \A s \in S!Slots : s + 1 \in 1 .. NSlots /\ w.free[s + 1] = s
    BY <1>0, <1>3 DEF S!Slots
<1> HIDE DEF w
<1>5. \A i, j \in 1 .. Len(w.free) : w.free[i] = w.free[j] => i = j
    BY <1>0, <1>3
<1>6. \A i \in 1 .. Len(w.free) : w.page[w.free[i]] = S!Empty
    BY <1>2, <1>3
<1>7. \A s \in S!Slots : \E i \in 1 .. Len(w.free) : w.free[i] = s
    BY <1>3, <1>4
<1>8. S!SlotsExact(w)
    BY <1>0, <1>2, <1>3, <1>5, <1>6, <1>7 DEF S!SlotsExact
<1> QED
    BY <1>1, <1>8 DEF SwapSound, w

\* The fields of a swap manager, one by one.
LEMMA SwapFields ==
    ASSUME NEW w, SwapSound(w)
    PROVE  /\ w.page \in [S!Slots -> (Pids \X Pages) \cup {S!Empty}]
           /\ w.free \in Seq(S!Slots) /\ w.used \in Int
           /\ w.ofPid \in [Pids -> Seq(S!Slots)]
           /\ \A i, j \in 1 .. Len(w.free) : w.free[i] = w.free[j] => i = j
           /\ \A p \in Pids : \A i, j \in 1 .. Len(w.ofPid[p]) :
                 w.ofPid[p][i] = w.ofPid[p][j] => i = j
           /\ \A i \in 1 .. Len(w.free) : w.page[w.free[i]] = S!Empty
           /\ \A p \in Pids : \A i \in 1 .. Len(w.ofPid[p]) :
                 w.page[w.ofPid[p][i]] # S!Empty /\ w.page[w.ofPid[p][i]][1] = p
           /\ \A s \in S!Slots :
                 /\ w.page[s] = S!Empty => \E i \in 1 .. Len(w.free) : w.free[i] = s
                 /\ w.page[s] # S!Empty => \E i \in 1 .. Len(w.ofPid[w.page[s][1]]) :
                                                w.ofPid[w.page[s][1]][i] = s
           /\ w.used = NSlots - Len(w.free)
    BY DEF SwapSound, S!SwapType, S!SlotsExact

\* A slot that is occupied is occupied for a page.
LEMMA OccupiedForPage ==
    ASSUME NEW w, SwapSound(w), NEW s \in S!Slots, w.page[s] # S!Empty
    PROVE  w.page[s] \in Pids \X Pages /\ w.page[s][1] \in Pids
<1>1. w.page[s] \in Pids \X Pages
    BY SwapFields
<1> QED
    BY <1>1

\* allocate_slot takes the next free slot for the page and for the list of its process.
LEMMA AllocateSlotSound ==
    ASSUME NEW w, SwapSound(w), NEW p \in Pids, NEW v \in Pages
    PROVE  SwapSound(S!AllocateSlot(w, p, v))
<1> DEFINE n == S!AllocateSlot(w, p, v)
           s == w.free[1]
<1>1. CASE ~S!HasSpace(w)
    BY <1>1 DEF S!AllocateSlot
<1>2. CASE S!HasSpace(w)
    <2>0. NSlots \in Nat
        BY MemoryAssumption
    <2>1. w.free \in Seq(S!Slots) /\ w.free # <<>> /\ w.used = NSlots - Len(w.free)
          /\ w.page \in [S!Slots -> (Pids \X Pages) \cup {S!Empty}]
          /\ w.ofPid \in [Pids -> Seq(S!Slots)]
        BY <1>2, SwapFields DEF S!HasSpace
    <2>2. Len(w.free) \in Nat \ {0} /\ 1 \in 1 .. Len(w.free)
        BY <2>1
    <2>3. s \in S!Slots /\ w.page[s] = S!Empty
        BY <2>1, <2>2, SwapFields
    <2> DEFINE P == [w.page EXCEPT ![s] = <<p, v>>]
               F == Tail(w.free)
               L == Append(w.ofPid[p], s)
               O == [w.ofPid EXCEPT ![p] = L]
    <2>4. n = [w EXCEPT !.page = P, !.free = F, !.used = w.used + 1, !.ofPid = O]
        BY <1>2, <2>1 DEF S!AllocateSlot, S!NextSlot
    <2>5. F \in Seq(S!Slots) /\ Len(F) = Len(w.free) - 1
          /\ \A i \in 1 .. Len(F) : F[i] = w.free[i + 1] /\ i + 1 \in 1 .. Len(w.free)
        BY <2>1, <2>2
    <2>6. L \in Seq(S!Slots) /\ Len(L) = Len(w.ofPid[p]) + 1 /\ Len(w.ofPid[p]) \in Nat
          /\ L[Len(L)] = s /\ \A i \in 1 .. Len(w.ofPid[p]) : L[i] = w.ofPid[p][i]
        BY <2>1, <2>3
    <2>7. P \in [S!Slots -> (Pids \X Pages) \cup {S!Empty}]
          /\ P[s] = <<p, v>> /\ \A t \in S!Slots : t # s => P[t] = w.page[t]
        BY <2>1, <2>3
    <2>8. <<p, v>> # S!Empty /\ <<p, v>>[1] = p
        BY DEF S!Empty
    <2> HIDE DEF F, L, P, s
    <2>9. O \in [Pids -> Seq(S!Slots)] /\ O[p] = L /\ \A q \in Pids : q # p => O[q] = w.ofPid[q]
        BY <2>1, <2>6
    <2> HIDE DEF O
    <2>10. /\ n \in S!SwapType /\ n.page = P /\ n.free = F /\ n.used = w.used + 1 /\ n.ofPid = O
        <3>1. w \in S!SwapType /\ w.used + 1 \in Int
            BY SwapFields DEF SwapSound
        <3> DEFINE u == w.used + 1
        <3>2. n = [w EXCEPT !.page = P, !.free = F, !.used = u, !.ofPid = O] /\ u \in Int
            BY <2>4, <3>1 DEF O
        <3> HIDE DEF u, n
        <3>3. n \in S!SwapType /\ n.page = P /\ n.free = F /\ n.used = u /\ n.ofPid = O
            BY <3>1, <3>2, <2>5, <2>7, <2>9 DEF S!SwapType
        <3> QED
            BY <3>3 DEF u
    <2> HIDE DEF n
    <2>11. \A i, j \in 1 .. Len(F) : F[i] = F[j] => i = j
        <3> SUFFICES ASSUME NEW i \in 1 .. Len(F), NEW j \in 1 .. Len(F), F[i] = F[j] PROVE i = j
            OBVIOUS
        <3>1. i + 1 = j + 1
            BY <2>5, SwapFields
        <3> QED
            BY <3>1
    <2>12. \A i \in 1 .. Len(F) : F[i] # s /\ F[i] \in S!Slots /\ P[F[i]] = S!Empty
        <3> SUFFICES ASSUME NEW i \in 1 .. Len(F)
                     PROVE  F[i] # s /\ F[i] \in S!Slots /\ P[F[i]] = S!Empty
            OBVIOUS
        <3>1. F[i] \in S!Slots /\ F[i] = w.free[i + 1] /\ i + 1 \in 1 .. Len(w.free) /\ i + 1 # 1
            BY <2>5
        <3>2. F[i] # s /\ w.page[F[i]] = S!Empty
            BY <3>1, <2>2, SwapFields DEF s
        <3> QED
            BY <3>1, <3>2, <2>7
    <2>13. \A q \in Pids : \A i \in 1 .. Len(w.ofPid[q]) :
              w.ofPid[q][i] \in S!Slots /\ w.ofPid[q][i] # s /\ w.page[w.ofPid[q][i]] # S!Empty
              /\ w.page[w.ofPid[q][i]][1] = q
        BY <2>1, <2>3, SwapFields
    <2>14. \A i \in 1 .. Len(L) : (i \in 1 .. Len(w.ofPid[p]) /\ L[i] = w.ofPid[p][i])
                                  \/ (i = Len(w.ofPid[p]) + 1 /\ L[i] = s)
        BY <2>6
    <2>15. \A q \in Pids : \A i, j \in 1 .. Len(O[q]) : O[q][i] = O[q][j] => i = j
        <3> SUFFICES ASSUME NEW q \in Pids, NEW i \in 1 .. Len(O[q]), NEW j \in 1 .. Len(O[q]),
                            O[q][i] = O[q][j]
                     PROVE  i = j
            OBVIOUS
        <3>1. CASE q # p
            BY <3>1, <2>9, SwapFields
        <3>2. CASE q = p
            <4>1. i \in 1 .. Len(L) /\ j \in 1 .. Len(L) /\ L[i] = L[j]
                BY <3>2, <2>9
            <4>2. \A k \in 1 .. Len(w.ofPid[p]) : w.ofPid[p][k] # s
                BY <2>13
            <4>3. \A k, l \in 1 .. Len(w.ofPid[p]) : w.ofPid[p][k] = w.ofPid[p][l] => k = l
                BY SwapFields
            <4> QED
                BY <4>1, <4>2, <4>3, <2>14
        <3> QED
            BY <3>1, <3>2
    <2>16. \A q \in Pids : \A i \in 1 .. Len(O[q]) : P[O[q][i]] # S!Empty /\ P[O[q][i]][1] = q
        <3> SUFFICES ASSUME NEW q \in Pids, NEW i \in 1 .. Len(O[q])
                     PROVE  P[O[q][i]] # S!Empty /\ P[O[q][i]][1] = q
            OBVIOUS
        <3>1. CASE q # p
            BY <3>1, <2>7, <2>9, <2>13
        <3>2. CASE q = p
            <4>1. i \in 1 .. Len(L) /\ O[q][i] = L[i]
                BY <3>2, <2>9
            <4>2. CASE L[i] = s
                BY <4>1, <4>2, <3>2, <2>7, <2>8
            <4>3. CASE i \in 1 .. Len(w.ofPid[p]) /\ L[i] = w.ofPid[p][i]
                BY <4>1, <4>3, <3>2, <2>7, <2>13
            <4> QED
                BY <4>1, <4>2, <4>3, <2>14
        <3> QED
            BY <3>1, <3>2
    <2>17. ASSUME NEW t \in S!Slots, P[t] = S!Empty PROVE \E i \in 1 .. Len(F) : F[i] = t
        <3>1. t # s /\ w.page[t] = S!Empty
            BY <2>7, <2>8, <2>17
        <3>2. PICK i \in 1 .. Len(w.free) : w.free[i] = t
            BY <3>1, SwapFields
        <3>3. i # 1 /\ i - 1 \in 1 .. Len(F)
            BY <3>1, <3>2, <2>2, <2>5 DEF s
        <3>4. F[i - 1] = w.free[(i - 1) + 1] /\ (i - 1) + 1 = i
            BY <3>3, <2>5
        <3> QED
            BY <3>2, <3>3, <3>4
    <2>18. ASSUME NEW t \in S!Slots, P[t] # S!Empty
           PROVE  \E i \in 1 .. Len(O[P[t][1]]) : O[P[t][1]][i] = t
        <3>1. CASE t = s
            <4>1. P[t][1] = p /\ O[p] = L /\ Len(L) \in 1 .. Len(L)
                BY <3>1, <2>6, <2>7, <2>8, <2>9
            <4> QED
                BY <3>1, <4>1, <2>6
        <3>2. CASE t # s
            <4> DEFINE q == w.page[t][1]
            <4>1. w.page[t] # S!Empty /\ P[t][1] = q /\ q \in Pids
                BY <3>2, <2>7, <2>18, OccupiedForPage
            <4>2. PICK i \in 1 .. Len(w.ofPid[q]) : w.ofPid[q][i] = t
                BY <4>1, SwapFields
            <4> HIDE DEF q
            <4>3. i \in 1 .. Len(O[q]) /\ O[q][i] = t
                BY <4>1, <4>2, <2>6, <2>9
            <4> QED
                BY <4>1, <4>3
        <3> QED
            BY <3>1, <3>2
    <2>19. w.used + 1 = NSlots - Len(F)
        BY <2>0, <2>1, <2>2, <2>5
    <2>20. S!SlotsExact(n)
        BY <2>10, <2>11, <2>12, <2>15, <2>16, <2>17, <2>18, <2>19 DEF S!SlotsExact
    <2> QED
        BY <2>10, <2>20 DEF SwapSound, n
<1> QED
    BY <1>1, <1>2
\* What `remove` at the first position of a slot leaves of a list that holds it once.
LEMMA RemovedOnce ==
    ASSUME NEW q \in Seq(S!Slots), NEW k \in 1 .. Len(q),
           \A i, j \in 1 .. Len(q) : q[i] = q[j] => i = j
    PROVE  /\ S!RemoveFirst(q, q[k]) \in Seq(S!Slots)
           /\ Len(S!RemoveFirst(q, q[k])) = Len(q) - 1
           /\ \A i \in 1 .. Len(q) - 1 : S!RemoveFirst(q, q[k])[i] = IF i < k THEN q[i] ELSE q[i + 1]
<1> DEFINE I == {i \in 1 .. Len(q) : q[i] = q[k]}
           a == SubSeq(q, 1, k - 1)
           b == SubSeq(q, k + 1, Len(q))
<1>1. Len(q) \in Nat /\ I = {k}
    OBVIOUS
<1>2. S!SelectInSeq(q, LAMBDA v : v = q[k]) = IF I # {} THEN S!Min(I) ELSE 0
    BY DEF S!SelectInSeq
<1>3. S!Min({k}) = k
    BY DEF S!Min
<1>4. S!SelectInSeq(q, LAMBDA v : v = q[k]) = k
    BY <1>1, <1>2, <1>3
<1>5. S!RemoveFirst(q, q[k]) = S!RemoveAt(q, k)
    BY <1>4 DEF S!RemoveFirst
<1>6. S!RemoveAt(q, k) = a \o b
    BY DEF S!RemoveAt
<1>7. a \in Seq(S!Slots) /\ Len(a) = k - 1 /\ \A i \in 1 .. k - 1 : a[i] = q[i]
    OBVIOUS
<1>8. b \in Seq(S!Slots) /\ Len(b) = Len(q) - k /\ \A i \in 1 .. Len(q) - k : b[i] = q[k + i]
    OBVIOUS
<1> HIDE DEF a, b, I
<1>9. a \o b \in Seq(S!Slots) /\ Len(a \o b) = Len(q) - 1
    <2>1. a \in Seq(S!Slots) /\ b \in Seq(S!Slots)
        BY <1>7, <1>8
    <2>2. a \o b \in Seq(S!Slots) /\ Len(a \o b) = Len(a) + Len(b)
        BY <2>1
    <2> QED
        BY <2>2, <1>1, <1>7, <1>8
<1>10. ASSUME NEW i \in 1 .. Len(q) - 1
       PROVE  (a \o b)[i] = IF i < k THEN q[i] ELSE q[i + 1]
    <2>1. CASE i < k
        BY <2>1, <1>7, <1>8
    <2>2. CASE i >= k
        <3>1. i - Len(a) \in 1 .. Len(q) - k /\ i > Len(a) /\ k + (i - Len(a)) = i + 1
            BY <2>2, <1>1, <1>7
        <3>2. a \in Seq(S!Slots) /\ b \in Seq(S!Slots) /\ Len(a) \in Nat /\ i \in 1 .. Len(a) + Len(b)
            BY <1>1, <1>7, <1>8
        <3>3. (a \o b)[i] = b[i - Len(a)]
            BY <3>1, <3>2
        <3>4. b[i - Len(a)] = q[k + (i - Len(a))]
            BY <3>1, <1>8
        <3>5. ~(i < k)
            BY <2>2
        <3> QED
            BY <3>1, <3>3, <3>4, <3>5
    <2>3. i < k \/ i >= k
        BY <1>1
    <2> QED
        BY <2>1, <2>2, <2>3
<1> QED
    BY <1>5, <1>6, <1>9, <1>10

\* free_slot gives the slot back to the end of the queue and takes it off its list.
LEMMA FreeSlotSound ==
    ASSUME NEW w, SwapSound(w), NEW s \in S!Slots
    PROVE  /\ SwapSound(S!FreeSlot(w, s))
           /\ \A t \in S!Slots : t # s => S!FreeSlot(w, s).page[t] = w.page[t]
<1> DEFINE n == S!FreeSlot(w, s)
           p == w.page[s][1]
<1>1. CASE w.page[s] = S!Empty
    BY <1>1 DEF S!FreeSlot
<1>2. CASE w.page[s] # S!Empty
    <2>0. NSlots \in Nat
        BY MemoryAssumption
    <2>1. w.free \in Seq(S!Slots) /\ w.used = NSlots - Len(w.free)
          /\ w.page \in [S!Slots -> (Pids \X Pages) \cup {S!Empty}]
          /\ w.ofPid \in [Pids -> Seq(S!Slots)]
        BY SwapFields
    <2>2. p \in Pids
        BY <1>2, OccupiedForPage
    <2>3. PICK k \in 1 .. Len(w.ofPid[p]) : w.ofPid[p][k] = s
        BY <1>2, SwapFields
    <2> DEFINE P == [w.page EXCEPT ![s] = S!Empty]
               F == Append(w.free, s)
               q == w.ofPid[p]
               L == S!RemoveFirst(q, s)
               O == [w.ofPid EXCEPT ![p] = L]
    <2>4. n = [w EXCEPT !.page = P, !.free = F, !.used = w.used - 1, !.ofPid = O]
        BY <1>2, <2>1 DEF S!FreeSlot
    <2>5. F \in Seq(S!Slots) /\ Len(F) = Len(w.free) + 1 /\ Len(w.free) \in Nat
          /\ F[Len(w.free) + 1] = s /\ \A i \in 1 .. Len(w.free) : F[i] = w.free[i]
        BY <2>1
    <2>q. q \in Seq(S!Slots) /\ Len(q) \in Nat /\ \A i, j \in 1 .. Len(q) : q[i] = q[j] => i = j
        BY <2>1, <2>2, SwapFields, SMTT(30)
    <2> HIDE DEF q
    <2>k. k \in 1 .. Len(q) /\ q[k] = s
        BY <2>3 DEF q
    <2>6. L \in Seq(S!Slots) /\ Len(L) = Len(q) - 1
          /\ \A i \in 1 .. Len(q) - 1 : L[i] = IF i < k THEN q[i] ELSE q[i + 1]
        BY <2>q, <2>k, RemovedOnce
    <2>7. P \in [S!Slots -> (Pids \X Pages) \cup {S!Empty}]
          /\ P[s] = S!Empty /\ \A t \in S!Slots : t # s => P[t] = w.page[t]
        BY <2>1
    <2> HIDE DEF F, L, P
    <2>9. O \in [Pids -> Seq(S!Slots)] /\ O[p] = L /\ \A r \in Pids : r # p => O[r] = w.ofPid[r]
        BY <2>1, <2>2, <2>6
    <2> HIDE DEF O
    <2>10. n \in S!SwapType /\ n.page = P /\ n.free = F /\ n.used = w.used - 1 /\ n.ofPid = O
        <3>1. w \in S!SwapType /\ w.used - 1 \in Int
            BY SwapFields DEF SwapSound
        <3> DEFINE u == w.used - 1
        <3>2. n = [w EXCEPT !.page = P, !.free = F, !.used = u, !.ofPid = O] /\ u \in Int
            BY <2>4, <3>1 DEF O
        <3> HIDE DEF u, n
        <3>3. n \in S!SwapType /\ n.page = P /\ n.free = F /\ n.used = u /\ n.ofPid = O
            BY <3>1, <3>2, <2>5, <2>7, <2>9 DEF S!SwapType
        <3> QED
            BY <3>3 DEF u
    <2> HIDE DEF n, p
    <2>11. \A i \in 1 .. Len(F) : (i \in 1 .. Len(w.free) /\ F[i] = w.free[i])
                                  \/ (i = Len(w.free) + 1 /\ F[i] = s)
        BY <2>5
    <2>12. \A i \in 1 .. Len(w.free) : w.free[i] # s /\ w.free[i] \in S!Slots
                                       /\ w.page[w.free[i]] = S!Empty
        BY <1>2, <2>1, SwapFields
    <2>13. \A i, j \in 1 .. Len(F) : F[i] = F[j] => i = j
        <3>1. \A i, j \in 1 .. Len(w.free) : w.free[i] = w.free[j] => i = j
            BY SwapFields
        <3> QED
            BY <3>1, <2>11, <2>12
    <2>14. \A i \in 1 .. Len(F) : P[F[i]] = S!Empty
        BY <2>7, <2>11, <2>12
    \* What stands where in the shortened list.
    <2>15. \A i \in 1 .. Len(L) : \E j \in 1 .. Len(q) :
              j # k /\ L[i] = q[j] /\ j = (IF i < k THEN i ELSE i + 1)
        <3> SUFFICES ASSUME NEW i \in 1 .. Len(L)
                     PROVE  \E j \in 1 .. Len(q) :
                               j # k /\ L[i] = q[j] /\ j = (IF i < k THEN i ELSE i + 1)
            OBVIOUS
        <3>1. i \in 1 .. Len(q) - 1 /\ i \in 1 .. Len(q) /\ i + 1 \in 1 .. Len(q)
            BY <2>6, <2>q
        <3>2. CASE i < k
            BY <3>1, <3>2, <2>6
        <3>3. CASE ~(i < k)
            <4>1. i + 1 # k
                BY <3>1, <3>3, <2>k
            <4> QED
                BY <3>1, <3>3, <4>1, <2>6
        <3> QED
            BY <3>2, <3>3
    <2>16. ASSUME NEW i \in 1 .. Len(L), NEW j \in 1 .. Len(L), L[i] = L[j] PROVE i = j
        <3>1. PICK i1 \in 1 .. Len(q) : L[i] = q[i1] /\ i1 = (IF i < k THEN i ELSE i + 1)
            BY <2>15
        <3>2. PICK j1 \in 1 .. Len(q) : L[j] = q[j1] /\ j1 = (IF j < k THEN j ELSE j + 1)
            BY <2>15
        <3>3. i1 = j1
            BY <3>1, <3>2, <2>16, <2>q
        <3>4. i \in Nat /\ j \in Nat /\ k \in Nat
            BY <2>6, <2>k, <2>q
        <3> QED
            BY <3>1, <3>2, <3>3, <3>4
    <2>17. \A r \in Pids : \A i, j \in 1 .. Len(O[r]) : O[r][i] = O[r][j] => i = j
        <3> SUFFICES ASSUME NEW r \in Pids, NEW i \in 1 .. Len(O[r]), NEW j \in 1 .. Len(O[r]),
                            O[r][i] = O[r][j]
                     PROVE  i = j
            OBVIOUS
        <3>1. CASE r # p
            BY <3>1, <2>9, SwapFields
        <3>2. CASE r = p
            BY <3>2, <2>9, <2>16
        <3> QED
            BY <3>1, <3>2
    <2>18. \A r \in Pids : \A i \in 1 .. Len(w.ofPid[r]) :
              w.ofPid[r][i] \in S!Slots /\ w.page[w.ofPid[r][i]] # S!Empty
              /\ w.page[w.ofPid[r][i]][1] = r
        BY <2>1, SwapFields
    <2>19. \A r \in Pids : \A i \in 1 .. Len(O[r]) : P[O[r][i]] # S!Empty /\ P[O[r][i]][1] = r
        <3> SUFFICES ASSUME NEW r \in Pids, NEW i \in 1 .. Len(O[r])
                     PROVE  P[O[r][i]] # S!Empty /\ P[O[r][i]][1] = r
            OBVIOUS
        <3>1. CASE r # p
            <4>1. O[r] = w.ofPid[r] /\ O[r][i] \in S!Slots /\ w.page[O[r][i]] # S!Empty
                  /\ w.page[O[r][i]][1] = r
                BY <3>1, <2>9, <2>18
            <4>2. O[r][i] # s
                BY <3>1, <4>1 DEF p
            <4> QED
                BY <4>1, <4>2, <2>7
        <3>2. CASE r = p
            <4>1. PICK j \in 1 .. Len(q) : j # k /\ O[r][i] = q[j]
                BY <3>2, <2>9, <2>15
            <4>2. q[j] # s
                BY <4>1, <2>k, <2>q
            <4>3. q[j] \in S!Slots /\ w.page[q[j]] # S!Empty /\ w.page[q[j]][1] = p
                BY <2>2, <2>18 DEF q, p
            <4> QED
                BY <3>2, <4>1, <4>2, <4>3, <2>7
        <3> QED
            BY <3>1, <3>2
    <2>20. ASSUME NEW t \in S!Slots, P[t] = S!Empty PROVE \E i \in 1 .. Len(F) : F[i] = t
        <3>1. CASE t = s
            BY <3>1, <2>5
        <3>2. CASE t # s
            <4>1. PICK i \in 1 .. Len(w.free) : w.free[i] = t
                BY <3>2, <2>7, <2>20, SwapFields
            <4> QED
                BY <4>1, <2>5
        <3> QED
            BY <3>1, <3>2
    <2>21. ASSUME NEW t \in S!Slots, P[t] # S!Empty
           PROVE  \E i \in 1 .. Len(O[P[t][1]]) : O[P[t][1]][i] = t
        <3> DEFINE r == w.page[t][1]
        <3>1. t # s /\ w.page[t] # S!Empty /\ P[t][1] = r /\ r \in Pids
            BY <2>7, <2>21, OccupiedForPage
        <3>2. PICK j \in 1 .. Len(w.ofPid[r]) : w.ofPid[r][j] = t
            BY <3>1, SwapFields
        <3> HIDE DEF r
        <3>3. CASE r # p
            BY <3>1, <3>2, <3>3, <2>9
        <3>4. CASE r = p
            <4>1. j \in 1 .. Len(q) /\ q[j] = t /\ j # k
                BY <3>1, <3>2, <3>4, <2>k DEF q
            <4>2. CASE j < k
                <5>1. j \in 1 .. Len(L) /\ L[j] = t
                    BY <4>1, <4>2, <2>6, <2>k, <2>q
                <5> QED
                    BY <5>1, <3>1, <3>4, <2>9
            <4>3. CASE j > k
                <5>1. j - 1 \in 1 .. Len(q) - 1 /\ ~(j - 1 < k) /\ (j - 1) + 1 = j
                    BY <4>1, <4>3, <2>k, <2>q
                <5>2. L[j - 1] = t /\ j - 1 \in 1 .. Len(L)
                    BY <5>1, <4>1, <2>6
                <5> QED
                    BY <5>2, <3>1, <3>4, <2>9
            <4> QED
                BY <4>1, <4>2, <4>3, <2>k, <2>q
        <3> QED
            BY <3>3, <3>4
    <2>22. w.used - 1 = NSlots - Len(F)
        BY <2>0, <2>1, <2>5
    <2>23. S!SlotsExact(n)
        BY <2>10, <2>13, <2>14, <2>17, <2>19, <2>20, <2>21, <2>22 DEF S!SlotsExact
    <2>24. SwapSound(n)
        BY <2>10, <2>23 DEF SwapSound
    <2> QED
        BY <2>7, <2>10, <2>24 DEF n
<1> QED
    BY <1>1, <1>2
\* Taking a slot disturbs no slot that is occupied.
LEMMA AllocateSlotPages ==
    ASSUME NEW w, SwapSound(w), NEW p \in Pids, NEW v \in Pages
    PROVE  /\ \A t \in S!Slots : w.page[t] # S!Empty => S!AllocateSlot(w, p, v).page[t] = w.page[t]
           /\ S!HasSpace(w) => /\ S!NextSlot(w) \in S!Slots
                               /\ S!AllocateSlot(w, p, v).page[S!NextSlot(w)] = <<p, v>>
<1>1. CASE ~S!HasSpace(w)
    BY <1>1 DEF S!AllocateSlot
<1>2. CASE S!HasSpace(w)
    <2> DEFINE s == S!NextSlot(w)
    <2>1. w.free \in Seq(S!Slots) /\ w.free # <<>>
          /\ w.page \in [S!Slots -> (Pids \X Pages) \cup {S!Empty}]
        BY <1>2, SwapFields DEF S!HasSpace
    <2>2. 1 \in 1 .. Len(w.free)
        BY <2>1
    <2>3. s \in S!Slots /\ w.page[s] = S!Empty
        BY <2>1, <2>2, SwapFields DEF S!NextSlot
    <2>4. w \in S!SwapType
        BY DEF SwapSound
    <2>5. S!AllocateSlot(w, p, v).page = [w.page EXCEPT ![s] = <<p, v>>]
        BY <1>2, <2>4 DEF S!AllocateSlot, S!SwapType
    <2> HIDE DEF s
    <2>6. \A t \in S!Slots : S!AllocateSlot(w, p, v).page[t] = IF t = s THEN <<p, v>> ELSE w.page[t]
        BY <2>1, <2>5
    <2> QED
        BY <2>3, <2>6 DEF s
<1> QED
    BY <1>1, <1>2

SwappedType == swapped \in [Pids -> [Pages -> S!Slots \cup {None}]]

\* SwappedPagesKept needs that taking a slot takes a free one.
SwapInv == SwapSound(swap) /\ SwappedType /\ SwappedPagesKept

\* Nothing is swapped at the start.
LEMMA SwapInvInit == Init => SwapInv
<1> SUFFICES ASSUME Init PROVE SwapInv
    OBVIOUS
<1>1. SwapSound(swap)
    BY NewSwapSound DEF Init
<1>2. SwappedType /\ \A p \in Pids, v \in Pages : ~IsSwapped(p, v)
    BY DEF Init, Absent, SwappedType, IsSwapped
<1> QED
    BY <1>1, <1>2 DEF SwapInv, SwappedPagesKept

\* A slot that is taken for some page keeps the invariant, if swapped_pages is left
\* alone or made to name it.
LEMMA SwapOutKeeps ==
    ASSUME SwapInv, NEW p \in Pids, NEW v \in Pages, swap' = S!AllocateSlot(swap, p, v),
           swappedIn' = swappedIn,
           \/ swapped' = swapped
           \/ S!CanSwapOut(swap) /\ swapped' = [swapped EXCEPT ![p][v] = S!NextSlot(swap)]
    PROVE  SwapInv'
<1>0. SwapSound(swap) /\ SwappedType /\ SwappedPagesKept
    BY DEF SwapInv
<1>1. SwapSound(swap')
    BY <1>0, AllocateSlotSound
<1>2. \A t \in S!Slots : swap.page[t] # S!Empty => swap'.page[t] = swap.page[t]
    BY <1>0, AllocateSlotPages
<1>3. ASSUME NEW q \in Pids, NEW u \in Pages, IsSwapped(q, u), <<q, u>> \notin swappedIn
      PROVE  swap'.page[swapped[q][u]] = <<q, u>> /\ S!OnDisk(swapped[q][u])
    <2>1. swapped[q][u] \in S!Slots
        BY <1>0, <1>3 DEF SwappedType, IsSwapped
    <2>2. swap.page[swapped[q][u]] = <<q, u>> /\ S!OnDisk(swapped[q][u])
        BY <1>0, <1>3 DEF SwappedPagesKept
    <2>3. <<q, u>> # S!Empty
        BY DEF S!Empty
    <2> QED
        BY <2>1, <2>2, <2>3, <1>2
<1>4. CASE swapped' = swapped
    BY <1>0, <1>1, <1>3, <1>4 DEF SwapInv, SwappedType, SwappedPagesKept, IsSwapped
<1>5. CASE S!CanSwapOut(swap) /\ swapped' = [swapped EXCEPT ![p][v] = S!NextSlot(swap)]
    <2> DEFINE s == S!NextSlot(swap)
    <2>1. s \in S!Slots /\ swap'.page[s] = <<p, v>> /\ S!OnDisk(s)
        BY <1>0, <1>5, AllocateSlotPages DEF S!CanSwapOut
    <2> HIDE DEF s
    <2>2. swapped' = [swapped EXCEPT ![p][v] = s]
        BY <1>5 DEF s
    <2>3. SwappedType'
        BY <2>1, <2>2, <1>0 DEF SwappedType
    <2>4. \A q \in Pids, u \in Pages : swapped'[q][u] = IF q = p /\ u = v THEN s ELSE swapped[q][u]
        BY <2>2, <1>0 DEF SwappedType
    <2>5. SwappedPagesKept'
        <3> SUFFICES ASSUME NEW q \in Pids, NEW u \in Pages, swapped'[q][u] # None,
                            <<q, u>> \notin swappedIn
                     PROVE  swap'.page[swapped'[q][u]] = <<q, u>> /\ S!OnDisk(swapped'[q][u])
            BY DEF SwappedPagesKept, IsSwapped
        <3>1. CASE q = p /\ u = v
            BY <3>1, <2>1, <2>4
        <3>2. CASE ~(q = p /\ u = v)
            BY <3>2, <2>4, <1>3 DEF IsSwapped
        <3> QED
            BY <3>1, <3>2
    <2> QED
        BY <1>1, <2>3, <2>5 DEF SwapInv
<1> QED
    BY <1>4, <1>5

\* The slot that SwapIn finds holds the page it asks for.
LEMMA OldestSlotHolds ==
    ASSUME NEW w, SwapSound(w), NEW p \in Pids, NEW v, S!SlotsHolding(w, p, v) # {}
    PROVE  S!OldestSlot(w, p, v) \in S!Slots /\ w.page[S!OldestSlot(w, p, v)] = <<p, v>>
<1> DEFINE H == S!SlotsHolding(w, p, v)
<1>1. w.ofPid[p] \in Seq(S!Slots) /\ H \subseteq 1 .. Len(w.ofPid[p])
      /\ \A i \in H : w.page[w.ofPid[p][i]] = <<p, v>>
    BY SwapFields DEF S!SlotsHolding
<1>2. H \subseteq Nat /\ H # {}
    BY <1>1
<1> HIDE DEF H
<1>3. \E i \in H : \A j \in H : i <= j
    <2> DEFINE R == OpToRel(<, Nat)
    <2>1. IsWellFoundedOn(R, Nat)
        BY NatLessThanWellFounded
    <2>2. PICK i \in H : \A j \in H : ~(<<j, i>> \in R)
        BY <1>2, <2>1, WFMin
    <2>3. \A j \in H : ~(j < i)
        BY <1>2, <2>2 DEF OpToRel
    <2> QED
        BY <1>2, <2>3
<1> DEFINE k == CHOOSE i \in H : \A j \in H : i <= j
<1>4. k \in H
    BY <1>3
<1>5. S!OldestSlot(w, p, v) = w.ofPid[p][k]
    BY DEF S!OldestSlot, H
<1> HIDE DEF k
<1>6. w.ofPid[p][k] \in S!Slots
    BY <1>1, <1>4
<1> QED
    BY <1>1, <1>4, <1>5, <1>6

\* Every step keeps the slots and the pages that faults swapped out.
LEMMA SwapInvNext == MemInv /\ SwapInv /\ [Next]_vars => SwapInv'
<1> SUFFICES ASSUME MemInv, SwapInv, [Next]_vars PROVE SwapInv'
    OBVIOUS
<1>0. SwapSound(swap) /\ SwappedType /\ SwappedPagesKept /\ QueueInv
    BY DEF SwapInv, MemInv
<1> DEFINE r == Head(inbox)
<1>a. ASSUME NEW kinds, Serving(kinds) PROVE r.pid \in Pids /\ r.page \in Pages
    <2>1. r \in Requests
        BY <1>0, <1>a, Served
    <2> HIDE DEF r
    <2> QED
        BY <2>1 DEF Requests
<1> HIDE DEF r
<1>1. CASE UNCHANGED <<swap, swapped, swappedIn>>
    BY <1>1 DEF SwapInv, SwapSound, SwappedType, SwappedPagesKept, IsSwapped
<1>2. CASE FaultSwapOut
    <2>1. PICK pv \in Victims(Head(inbox).pid) :
            /\ swap' = S!AllocateSlot(swap, pv[1], pv[2])
            /\ swapped' = [swapped EXCEPT ![pv[1]][pv[2]] = S!NextSlot(swap)]
        BY <1>2 DEF FaultSwapOut
    <2>2. pv[1] \in Pids /\ pv[2] \in Pages
        BY <2>1 DEF Victims, PresentPages
    <2> QED
        BY <2>1, <2>2, <1>2, SwapOutKeeps DEF FaultSwapOut
<1>3. CASE FaultExhausted
    <2>1. swapped' = swapped /\ swappedIn' = swappedIn
        BY <1>3 DEF FaultExhausted
    <2>2. CASE swap' = swap
        BY <2>1, <2>2, <1>1
    <2>3. CASE swap' # swap
        <3>1. PICK pv \in Victims(Head(inbox).pid) : swap' = S!AllocateSlot(swap, pv[1], pv[2])
            BY <2>3, <1>3 DEF FaultExhausted
        <3>2. pv[1] \in Pids /\ pv[2] \in Pages
            BY <3>1 DEF Victims, PresentPages
        <3> QED
            BY <3>1, <3>2, <2>1, SwapOutKeeps
    <2> QED
        BY <2>2, <2>3
<1>4. CASE HandleSwapOut
    <2>1. Serving({"SwapOut"}) /\ swap' = S!AllocateSlot(swap, r.pid, r.page)
          /\ swapped' = swapped /\ swappedIn' = swappedIn
        BY <1>4 DEF HandleSwapOut, r
    <2> QED
        BY <2>1, <1>a, SwapOutKeeps
<1>5. CASE HandleSwapIn
    <2> DEFINE found == S!SlotsHolding(swap, r.pid, r.page) # {}
               s == S!OldestSlot(swap, r.pid, r.page)
    <2>1. /\ Serving({"SwapIn"}) /\ swapped' = swapped
          /\ swap' = IF found THEN S!FreeSlot(swap, s) ELSE swap
          /\ swappedIn' = IF found THEN swappedIn \cup {<<r.pid, r.page>>} ELSE swappedIn
        BY <1>5 DEF HandleSwapIn, r
    <2>2. CASE ~found
        BY <2>1, <2>2, <1>1
    <2>3. CASE found
        <3>1. s \in S!Slots /\ swap.page[s] = <<r.pid, r.page>>
            BY <2>1, <2>3, <1>0, <1>a, OldestSlotHolds
        <3> HIDE DEF s
        <3>2. SwapSound(swap') /\ \A t \in S!Slots : t # s => swap'.page[t] = swap.page[t]
            BY <3>1, <2>1, <2>3, <1>0, FreeSlotSound
        <3>3. SwappedPagesKept'
            <4> SUFFICES ASSUME NEW q \in Pids, NEW u \in Pages, swapped[q][u] # None,
                                <<q, u>> \notin swappedIn'
                         PROVE  swap'.page[swapped[q][u]] = <<q, u>> /\ S!OnDisk(swapped[q][u])
                BY <2>1 DEF SwappedPagesKept, IsSwapped
            <4>1. <<q, u>> \notin swappedIn /\ <<q, u>> # <<r.pid, r.page>>
                BY <2>1, <2>3
            <4>2. swap.page[swapped[q][u]] = <<q, u>> /\ S!OnDisk(swapped[q][u])
                BY <4>1, <1>0 DEF SwappedPagesKept, IsSwapped
            <4>3. swapped[q][u] \in S!Slots
                BY <1>0 DEF SwappedType
            <4> QED
                BY <4>1, <4>2, <4>3, <3>1, <3>2
        <3>4. SwappedType'
            BY <2>1, <1>0 DEF SwappedType
        <3> QED
            BY <3>2, <3>3, <3>4 DEF SwapInv
    <2> QED
        BY <2>2, <2>3
<1>6. CASE ServiceStep
    BY <1>1, <1>2, <1>3, <1>4, <1>5, <1>6
       DEF ServiceStep, HandleAllocFrame, HandleFreeFrame, HandleMapPageWithResponse,
           HandleUnmapPage, FaultSwapIn, FaultAllocate, HandleQuery, serviceVars
<1>7. CASE ClientStep
    <2>1. UNCHANGED <<swap, swapped, swappedIn>>
        BY <1>7 DEF ClientStep, ClientFault, ClientExit, ClientExec, ClientFork, ClientSends,
           ClientForkPage, ClientReceives, ClientTimesOut, ApiRequest, serviceVars
    <2> QED
        BY <2>1, <1>1
<1> QED
    BY <1>1, <1>6, <1>7 DEF Next, vars, serviceVars

\* MemInv and SwapInv hold together in every reachable state.
LEMMA SwapInvAlways == Spec => []SwapInv
<1>1. MemInv /\ SwapInv /\ [Next]_vars => SwapInv'
    BY SwapInvNext
<1> QED
    BY <1>1, MemInvAlways, SwapInvInit, PTL DEF Spec

\* Whatever faults and requests take and free slots, and in whatever order: the free
\* queue and the processes' lists (swap.rs) split the slots between them.
THEOREM SlotsNeverLost == Spec => []SlotsPartition
<1>1. SwapInv => SlotsPartition
    BY DEF SwapInv, SwapSound, SlotsPartition
<1> QED
    BY <1>1, SwapInvAlways, PTL

\* A page that a fault swapped out keeps a slot of its own on the disk until a SwapIn
\* request is served for it.
THEOREM SwappedPagesNeverLost == Spec => []SwappedPagesKept
<1>1. SwapInv => SwappedPagesKept
    BY DEF SwapInv
<1> QED
    BY <1>1, SwapInvAlways, PTL
------------------------------------------------------------------------------
(* Page tables: what is mapped is a frame that exists.                       *)

\* A Map request names a frame; the others are not looked at.
Mappable == {r \in Requests : r.kind = "Map" => r.frame \in Frames}

FramesInv ==
    /\ mmu \in [Pids -> [Pages -> Frames \cup {None}]]
    /\ inbox \in Seq(Mappable)
    /\ hung \in BOOLEAN

\* Nothing is mapped or queued at the start.
LEMMA FramesInvInit == Init => FramesInv
<1> SUFFICES ASSUME Init PROVE FramesInv
    OBVIOUS
<1>1. mmu \in [Pids -> [Pages -> Frames \cup {None}]]
    BY DEF Init, Absent
<1>2. inbox \in Seq(Mappable)
    BY DEF Init
<1>3. hung \in BOOLEAN
    BY DEF Init
<1> QED
    BY <1>1, <1>2, <1>3 DEF FramesInv

\* Requests of other kinds are mappable whatever frame they name.
LEMMA RequestMappable ==
    ASSUME NEW kind \in {"Alloc", "Free", "Unmap", "Fault"},
           NEW p \in Pids, NEW v \in Pages, NEW f \in Int, NEW n \in Nat
    PROVE  Request(kind, p, v, f, n) \in Mappable /\ Await(Request(kind, p, v, f, n)) \in Mappable
<1>1. Request(kind, p, v, f, n) \in Requests /\ Await(Request(kind, p, v, f, n)) \in Requests
    BY RequestTyped
<1>2. Request(kind, p, v, f, n).kind = kind /\ Await(Request(kind, p, v, f, n)).kind = kind
    BY DEF Request, Await
<1> QED
    BY <1>1, <1>2 DEF Mappable

\* A list of requests is what each of them is.
LEMMA SequenceOf ==
    ASSUME NEW R, NEW T, NEW q \in Seq(R), \A i \in 1 .. Len(q) : q[i] \in T
    PROVE  q \in Seq(T)
<1>1. Len(q) \in Nat /\ q = [i \in 1 .. Len(q) |-> q[i]]
    OBVIOUS
<1> QED
    BY <1>1

\* The messages of exec and exit name no frame to map.
LEMMA ExitMessagesMappable ==
    ASSUME MmuInv, NEW p \in Pids, NEW o \in Seq(Pages)
    PROVE  /\ [i \in 1 .. 2 * Len(o) |->
                 IF i % 2 = 1 THEN Request("Unmap", p, o[(i + 1) \div 2], None, 0)
                 ELSE Request("Free", 0, 0, mmu[p][o[i \div 2]], 0)] \in Seq(Mappable)
           /\ Unmaps(p, o) \in Seq(Mappable)
<1> DEFINE k == 2 * Len(o)
           msgs == [i \in 1 .. k |->
                      IF i % 2 = 1 THEN Request("Unmap", p, o[(i + 1) \div 2], None, 0)
                      ELSE Request("Free", 0, 0, mmu[p][o[i \div 2]], 0)]
<1>1. msgs \in Seq(Requests) /\ k \in Nat
    BY ExitMessagesTyped
<1>2. Len(msgs) = k /\ \A i \in 1 .. k : msgs[i].kind \in {"Unmap", "Free"}
    BY <1>1 DEF Request
<1> HIDE DEF msgs, k
<1>3. \A i \in 1 .. Len(msgs) : msgs[i] \in Mappable
    BY <1>1, <1>2 DEF Mappable
<1>4. msgs \in Seq(Mappable)
    BY <1>1, <1>3, SequenceOf
<1>5. Len(o) \in Nat /\ DOMAIN o = 1 .. Len(o) /\ \A i \in 1 .. Len(o) : o[i] \in Pages
    OBVIOUS
<1>6. \A i \in 1 .. Len(o) : Request("Unmap", p, o[i], None, 0) \in Mappable
    <2>1. None \in Int
        BY DEF None
    <2> QED
        BY <2>1, <1>5, RequestMappable
<1>7. Unmaps(p, o) \in Seq(Mappable)
    BY <1>5, <1>6 DEF Unmaps
<1> QED
    BY <1>4, <1>7 DEF msgs, k

\* Every step keeps the page tables within the frames.
LEMMA FramesInvNext == MemInv /\ FramesInv /\ [Next]_vars => FramesInv'
<1> SUFFICES ASSUME MemInv, FramesInv, [Next]_vars PROVE FramesInv'
    OBVIOUS
<1>0. /\ Sound(alloc) /\ QueueInv /\ MmuInv /\ ClientInv
      /\ mmu \in [Pids -> [Pages -> Frames \cup {None}]] /\ inbox \in Seq(Mappable) /\ hung \in BOOLEAN
    BY DEF MemInv, FramesInv
<1> DEFINE Tables(m) == m \in [Pids -> [Pages -> Frames \cup {None}]]
<1>a. ASSUME NEW m, Tables(m), NEW p \in Pids, NEW v \in Pages, NEW f \in Frames \cup {None}
      PROVE  Tables([m EXCEPT ![p][v] = f])
    BY <1>a
<1>b. ASSUME Tables(mmu'), NEW q \in Seq(Mappable), inbox' = q, hung' \in BOOLEAN PROVE FramesInv'
    BY <1>b DEF FramesInv
<1>c. Tables(mmu)
    BY <1>0
<1>d. 0 \in Pids /\ 0 \in Pages /\ None \in Int /\ \A p \in Users : p \in Pids
    BY MemoryAssumption DEF None, Users
<1> HIDE DEF Tables
<1>1. CASE UNCHANGED vars
    BY <1>1, <1>0 DEF FramesInv, vars, serviceVars
<1>2. CASE ServiceStep
    <2> DEFINE r == Head(inbox)
    <2>1. inbox # <<>> /\ inbox' = Tail(inbox) /\ r \in Mappable /\ Tail(inbox) \in Seq(Mappable)
        <3>1. inbox # <<>> /\ inbox' = Tail(inbox)
            BY <1>2 DEF ServiceStep, HandleAllocFrame, HandleFreeFrame, HandleMapPageWithResponse,
               HandleUnmapPage, FaultSwapIn, FaultAllocate, FaultSwapOut, FaultExhausted,
               HandleSwapOut, HandleSwapIn, HandleQuery, Answer, Faulting, Serving
        <3> QED
            BY <3>1, <1>0
    <2> HIDE DEF r
    <2>2. r.pid \in Pids /\ r.page \in Pages /\ (r.kind = "Map" => r.frame \in Frames)
        BY <2>1 DEF Mappable, Requests
    <2>3. hung' \in BOOLEAN
        BY <1>2, <1>0 DEF ServiceStep, HandleAllocFrame, HandleFreeFrame, HandleMapPageWithResponse,
           HandleUnmapPage, FaultSwapIn, FaultAllocate, FaultSwapOut, FaultExhausted,
           HandleSwapOut, HandleSwapIn, HandleQuery, serviceVars
    <2>4. Tables(mmu')
        <3>1. CASE mmu' = mmu
            BY <3>1, <1>c
        <3>2. CASE HandleMapPageWithResponse
            <4>1. mmu' = [mmu EXCEPT ![r.pid][r.page] = r.frame] /\ r.kind = "Map"
                BY <3>2 DEF HandleMapPageWithResponse, Serving, r
            <4> QED
                BY <4>1, <2>2, <1>a, <1>c
        <3>3. CASE HandleUnmapPage
            <4>1. mmu' = [mmu EXCEPT ![r.pid][r.page] = None]
                BY <3>3 DEF HandleUnmapPage, r
            <4> QED
                BY <4>1, <2>2, <1>a, <1>c
        <3>4. CASE FaultSwapIn \/ FaultAllocate
            <4>1. CanAllocate(alloc, 1) /\ mmu' = [mmu EXCEPT ![r.pid][r.page] = FirstFrame(alloc)]
                BY <3>4 DEF FaultSwapIn, FaultAllocate, MapFault, r
            <4>2. FirstFrame(alloc) \in Frames
                BY <4>1, <1>0, FirstFrameExists
            <4> QED
                BY <4>1, <4>2, <2>2, <1>a, <1>c
        <3>5. CASE FaultSwapOut
            <4>1. PICK pv \in Victims(r.pid) :
                    LET freed == FreeFrame(alloc, mmu[pv[1]][pv[2]])
                    IN  IF CanAllocate(freed, 1)
                        THEN mmu' = [mmu EXCEPT ![pv[1]][pv[2]] = None,
                                                ![r.pid][r.page] = FirstFrame(freed)]
                        ELSE mmu' = [mmu EXCEPT ![pv[1]][pv[2]] = None]
                BY <3>5 DEF FaultSwapOut, r
            <4> DEFINE freed == FreeFrame(alloc, mmu[pv[1]][pv[2]])
                       m == [mmu EXCEPT ![pv[1]][pv[2]] = None]
            <4>2. pv[1] \in Pids /\ pv[2] \in Pages
                BY <4>1 DEF Victims, PresentPages
            <4>3. Sound(freed) /\ Tables(m)
                BY <4>2, <1>0, <1>a, <1>c, FreeSound
            <4>4. \/ mmu' = m
                  \/ CanAllocate(freed, 1) /\ mmu' = [m EXCEPT ![r.pid][r.page] = FirstFrame(freed)]
                BY <4>1
            <4> HIDE DEF freed, m
            <4>5. CASE mmu' = m
                BY <4>3, <4>5
            <4>6. CASE CanAllocate(freed, 1) /\ mmu' = [m EXCEPT ![r.pid][r.page] = FirstFrame(freed)]
                <5>1. FirstFrame(freed) \in Frames
                    BY <4>3, <4>6, FirstFrameExists
                <5> QED
                    BY <5>1, <4>3, <4>6, <2>2, <1>a
            <4> QED
                BY <4>4, <4>5, <4>6
        <3> QED
            BY <1>2, <3>1, <3>2, <3>3, <3>4, <3>5
               DEF ServiceStep, HandleAllocFrame, HandleFreeFrame, FaultExhausted, HandleSwapOut,
                   HandleSwapIn, HandleQuery, serviceVars
    <2> QED
        BY <2>1, <2>3, <2>4, <1>b
<1>3. ASSUME NEW next, NEW msgs \in Seq(Mappable), ClientSends(next, msgs) PROVE FramesInv'
    <2>1. inbox' = inbox \o msgs /\ mmu' = mmu /\ hung' = hung
        BY <1>3 DEF ClientSends, serviceVars
    <2>2. inbox \o msgs \in Seq(Mappable)
        BY <1>0
    <2> QED
        BY <2>1, <2>2, <1>0, <1>b, <1>c
<1>4. ASSUME NEW p \in Users, NEW v \in Pages, ClientFault(p, v) PROVE FramesInv'
    <2> DEFINE m == Await(Request("Fault", p, v, None, 1))
    <2>1. m \in Mappable
        BY <1>d, RequestMappable
    <2>2. ClientSends([Idle EXCEPT !.at = "fault"], <<m>>)
        BY <1>4 DEF ClientFault
    <2> HIDE DEF m
    <2>3. <<m>> \in Seq(Mappable)
        BY <2>1
    <2> QED
        BY <2>2, <2>3, <1>3
<1>5. ASSUME NEW p \in Users, ClientExit(p) PROVE FramesInv'
    <2> DEFINE msgs(o) == [i \in 1 .. 2 * Len(o) |->
              IF i % 2 = 1 THEN Request("Unmap", p, o[(i + 1) \div 2], None, 0)
              ELSE Request("Free", 0, 0, mmu[p][o[i \div 2]], 0)]
    <2>1. PICK o \in Orders(PagesOf(p)) : ClientSends(Idle, msgs(o))
        BY <1>5 DEF ClientExit
    <2>2. o \in Seq(Pages)
        BY OrdersAreSequences DEF PagesOf
    <2>3. msgs(o) \in Seq(Mappable)
        BY <2>2, <1>0, <1>d, ExitMessagesMappable
    <2> HIDE DEF msgs
    <2> QED
        BY <2>1, <2>3, <1>3
<1>6. ASSUME NEW p \in Users, ClientExec(p) PROVE FramesInv'
    <2> DEFINE next == [Idle EXCEPT !.at = "execAlloc", !.pid = p]
               ask == Await(Request("Alloc", p, 0, None, 1))
    <2>1. PICK o \in Orders(PagesOf(p)) : ClientSends(next, Unmaps(p, o) \o <<ask>>)
        BY <1>6 DEF ClientExec
    <2>2. o \in Seq(Pages)
        BY OrdersAreSequences DEF PagesOf
    <2>3. Unmaps(p, o) \in Seq(Mappable)
        BY <2>2, <1>0, <1>d, ExitMessagesMappable
    <2>4. ask \in Mappable
        BY <1>d, RequestMappable
    <2> HIDE DEF next, ask
    <2>5. Unmaps(p, o) \o <<ask>> \in Seq(Mappable)
        BY <2>3, <2>4
    <2> QED
        BY <2>1, <2>5, <1>3
<1>7. ASSUME NEW q \in Users, NEW p \in Users, ClientFork(q, p) PROVE FramesInv'
    <2>1. ClientSends(ForkNext(p, q, PagesOf(q)), <<>>)
        BY <1>7 DEF ClientFork
    <2>2. <<>> \in Seq(Mappable)
        OBVIOUS
    <2> QED
        BY <2>1, <2>2, <1>3
<1>8. CASE ClientForkPage
    <2> DEFINE m == Await(Request("Alloc", client.pid, 0, None, 1))
    <2>1. client.pid \in Pids
        BY <1>0 DEF ClientInv, ClientStates
    <2>2. m \in Mappable
        BY <2>1, <1>d, RequestMappable
    <2>3. inbox' = Append(inbox, m) /\ mmu' = mmu /\ hung' = hung
        BY <1>8 DEF ClientForkPage, serviceVars
    <2> HIDE DEF m
    <2>4. Append(inbox, m) \in Seq(Mappable)
        BY <2>2, <1>0
    <2> QED
        BY <2>3, <2>4, <1>0, <1>b, <1>c
<1>9. CASE ClientReceives \/ ClientTimesOut
    <2>1. mmu' = mmu /\ hung' = hung /\ \E a \in {reply, NoReply} : Resume(a)
        BY <1>9 DEF ClientReceives, ClientTimesOut, serviceVars
    <2>2. PICK a : Resume(a)
        BY <2>1
    <2> DEFINE map == Await(Request("Map", client.pid, client.page, a, 0))
    <2>3. inbox' = Dropped \/ (Granted(a) /\ inbox' = Append(Dropped, map))
        BY <2>2 DEF Resume
    <2>4. Dropped \in Seq(Mappable)
        <3>1. Dropped \in Seq(Requests) /\ inbox \in Seq(Mappable)
            BY <1>0, DroppedTyped
        <3>2. Len(Dropped) = Len(inbox) /\ Len(inbox) \in Nat /\ DOMAIN inbox = 1 .. Len(inbox)
            BY <3>1 DEF Dropped
        <3>3. ASSUME NEW i \in 1 .. Len(Dropped) PROVE Dropped[i] \in Mappable
            <4>1. inbox[i] \in Mappable
                BY <3>1, <3>2
            <4>2. inbox[i] \in Requests
                BY <4>1 DEF Mappable
            <4>3. Dropped[i] = inbox[i] \/ Dropped[i] = [inbox[i] EXCEPT !.to = "dropped"]
                BY <3>2 DEF Dropped
            <4>4. Dropped[i] \in Requests /\ Dropped[i].kind = inbox[i].kind
                  /\ Dropped[i].frame = inbox[i].frame
                BY <4>2, <4>3 DEF Requests
            <4> QED
                BY <4>1, <4>4 DEF Mappable
        <3> QED
            BY <3>1, <3>3, SequenceOf
    <2>5. CASE inbox' = Dropped
        BY <2>1, <2>4, <2>5, <1>0, <1>b, <1>c
    <2>6. CASE Granted(a) /\ inbox' = Append(Dropped, map)
        <3>1. client.pid \in Pids /\ client.page \in Pages
            BY <1>0 DEF ClientInv, ClientStates
        <3>2. a \in Frames /\ a \in Int
            BY <2>6, NFramesAssumption DEF Granted, Frames
        <3>3. map \in Requests
            BY <3>1, <3>2, RequestTyped
        <3>4. map.frame = a
            BY DEF Await, Request
        <3> HIDE DEF map
        <3>5. map \in Mappable
            BY <3>2, <3>3, <3>4 DEF Mappable
        <3>6. Append(Dropped, map) \in Seq(Mappable)
            BY <3>5, <2>4
        <3> QED
            BY <3>6, <2>1, <2>6, <1>0, <1>b, <1>c
    <2> QED
        BY <2>3, <2>5, <2>6
<1>10. CASE ApiRequest
    <2>1. PICK r \in ApiRequests : inbox' = <<r>>
        BY <1>10 DEF ApiRequest
    <2>2. r \in Mappable
        BY ApiAssumption, ApiKindsAssumption DEF Mappable
    <2>3. <<r>> \in Seq(Mappable) /\ mmu' = mmu /\ hung' = hung
        BY <2>2, <1>10 DEF ApiRequest, serviceVars
    <2> QED
        BY <2>1, <2>3, <1>0, <1>b, <1>c
<1> QED
    BY <1>1, <1>2, <1>4, <1>5, <1>6, <1>7, <1>8, <1>9, <1>10 DEF Next, ClientStep

\* FramesInv holds in every reachable state.
LEMMA FramesInvAlways == Spec => []FramesInv
<1>1. MemInv /\ FramesInv /\ [Next]_vars => FramesInv'
    BY FramesInvNext
<1> QED
    BY <1>1, MemInvAlways, FramesInvInit, PTL DEF Spec

\* The state of the service is typed whatever is requested: a page table entry is a
\* frame that exists, even when the client's waits time out in between.
THEOREM MemoryTypeCorrect == Spec => []MemTypeOK
<1>1. MemInv /\ SwapInv /\ FramesInv => MemTypeOK
    BY DEF MemInv, Sound, SwapInv, SwapSound, SwappedType, QueueInv, FramesInv, MemTypeOK
<1> QED
    BY <1>1, MemInvAlways, SwapInvAlways, FramesInvAlways, PTL
=============================================================================
