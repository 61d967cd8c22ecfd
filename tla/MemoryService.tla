---------------------------- MODULE MemoryService ----------------------------
(***************************************************************************)
(* The memory service (services/memory/service.rs) and its one client that *)
(* changes anything, the process service, joined by the bus: a queue of    *)
(* requests (inbox) the service serves in order, and for each request the  *)
(* client waits for a reply channel it gives up on after a timeout.        *)
(*                                                                         *)
(* Both threads share the MMU: the service maps and unmaps pages, the      *)
(* client reads the page table of a process when it forks, executes or     *)
(* exits.                                                                  *)
(*                                                                         *)
(* Addresses are page and frame numbers.  The bytes of a page, which are   *)
(* copied to and from the swap disk and on fork, are left out, and so are  *)
(* the flags of a mapping: what is modelled is which frame and which slot  *)
(* a page has.  Pid 0 is the client itself.                                *)
(***************************************************************************)
EXTENDS FrameAllocator, FiniteSets

CONSTANTS
    NSlots, DiskSlots,
    Pages,        \* virtual pages of a process
    ApiRequests,  \* requests other than the process service's own, see ApiRequest
    MaxInbox,     \* bound on the requests queued
    MaxTimeouts   \* bound on the number of waits given up

S == INSTANCE SwapSpace

ASSUME MemoryAssumption ==
    /\ 0 \in Pids /\ 0 \in Pages /\ Pages \subseteq Nat /\ IsFiniteSet(Pages)
    /\ NSlots \in Nat \ {0} /\ DiskSlots \in Nat
    /\ MaxInbox \in Nat /\ MaxTimeouts \in Nat

Users == Pids \ {0}

VARIABLES
    alloc,     \* memory_manager
    swap,      \* swap_manager
    swapped,   \* swapped_pages: the slot of a page swapped out by a fault, None
    mmu,       \* MMU page tables: the frame of each page, None
    inbox,     \* the kernel's channel to the service
    hung,      \* the service waits for a lock its own thread holds
    client,    \* what the process service is doing, see Idle
    reply,     \* what has arrived on the channel the client waits on
    life,      \* processes: "new", "run", "dead"
    timeouts,  \* waits given up so far
    swappedIn, \* history: the pages an explicit SwapIn request was served for
    replaced   \* history: processes whose pages an exec or a fault mapped anew

serviceVars == <<alloc, swap, swapped, mmu, hung, swappedIn>>
clientVars  == <<client, life, timeouts, replaced>>
vars == <<serviceVars, inbox, reply, clientVars>>

------------------------------------------------------------------------------
(* Requests.  `to` says where the answer goes: to the client that waits, to  *)
(* a channel the client has dropped, or nowhere (no answer expected).        *)

Request(kind, p, v, f, n) ==
    [kind |-> kind, pid |-> p, page |-> v, frame |-> f, count |-> n, to |-> "none"]

Await(r)   == [r EXCEPT !.to = "client"]
Api(r)     == [r EXCEPT !.to = "api"]
Requests   == [kind : {"Alloc", "Free", "Map", "Unmap", "Fault",
                       "SwapOut", "SwapIn", "Query"},
               pid : Pids, page : Pages, frame : Int, count : Nat,
               to : {"client", "dropped", "api", "none"}]

ASSUME ApiAssumption == ApiRequests \subseteq Requests

\* Only the process service sends Map, Unmap, Free and Fault requests, and it never
\* waits for the answer to somebody else's request; frames asked for otherwise are
\* nobody's (pid 0).
ASSUME ApiKindsAssumption ==
    \A r \in ApiRequests : /\ r.kind \in {"SwapOut", "SwapIn", "Query", "Alloc"}
                           /\ r.to \in {"api", "none"}
                           /\ r.kind = "Alloc" => r.pid = 0

\* Answers: the frame of an allocation or of a fault, or one of these.
Done    == -2
Failed  == -3
NoReply == -4

Idle == [at |-> "idle", pid |-> 0, parent |-> 0, todo |-> {}, page |-> 0]

Absent == [p \in Pids |-> [v \in Pages |-> None]]

Init ==
    /\ alloc = NewAllocator
    /\ swap = S!NewSwap
    /\ swapped = Absent
    /\ mmu = Absent
    /\ inbox = <<>>
    /\ hung = FALSE
    /\ client = Idle
    /\ reply = NoReply
    /\ life = [p \in Users |-> "new"]
    /\ timeouts = 0
    /\ swappedIn = {}
    /\ replaced = {}

------------------------------------------------------------------------------
(* The MMU.                                                                  *)

\* all_present_pages.
PresentPages == {pv \in Pids \X Pages : mmu[pv[1]][pv[2]] # None}

------------------------------------------------------------------------------
(* The service.  Each request is handled whole, then its answer is sent.     *)

Serving(kinds) == ~hung /\ inbox # <<>> /\ Head(inbox).kind \in kinds

\* The answer of a request whose client has given up goes to a dropped channel.
Answer(a) ==
    /\ inbox' = Tail(inbox)
    /\ reply' = IF Head(inbox).to = "client" THEN a ELSE reply
    /\ UNCHANGED clientVars

HandleAllocFrame ==
    /\ Serving({"Alloc"})
    /\ LET r == Head(inbox) IN
         /\ alloc' = AllocateFrames(alloc, r.pid, r.count)
         /\ Answer(IF CanAllocate(alloc, r.count) THEN FirstFrame(alloc) ELSE Failed)
    /\ UNCHANGED <<swap, swapped, mmu, hung, swappedIn>>

HandleFreeFrame ==
    /\ Serving({"Free"})
    /\ alloc' = FreeFrame(alloc, Head(inbox).frame)
    /\ Answer(IF CanFree(alloc, Head(inbox).frame) THEN Done ELSE Failed)
    /\ UNCHANGED <<swap, swapped, mmu, hung, swappedIn>>

\* MapPage with a response.  Without one it goes to the service's second set of page
\* tables, and so does a page fault: module PageTables.
HandleMapPageWithResponse ==
    /\ Serving({"Map"})
    /\ mmu' = [mmu EXCEPT ![Head(inbox).pid][Head(inbox).page] = Head(inbox).frame]
    /\ Answer(Done)
    /\ UNCHANGED <<alloc, swap, swapped, hung, swappedIn>>

\* Mutant of HandleUnmapPage: only the second set of page tables is changed.
UnmapOutsideMmu ==
    /\ Serving({"Unmap"})
    /\ Answer(Done)
    /\ UNCHANGED serviceVars

HandleUnmapPage ==
    /\ Serving({"Unmap"})
    /\ mmu' = [mmu EXCEPT ![Head(inbox).pid][Head(inbox).page] = None]
    /\ Answer(Done)
    /\ UNCHANGED <<alloc, swap, swapped, hung, swappedIn>>

\* Page faults with a response.  The service maps page v of p to frame f.
MapFault(p, v, f) == mmu' = [mmu EXCEPT ![p][v] = f]

Faulting == Serving({"Fault"})

IsSwapped(p, v) == swapped[p][v] # None

\* Step 1 with a free frame: the page is mapped and its data written back, then
\* swapped_pages is locked a second time by the thread that holds it.
FaultSwapIn ==
    /\ Faulting
    /\ CanAllocate(alloc, 1)
    /\ LET r == Head(inbox) IN
         /\ IsSwapped(r.pid, r.page)
         /\ alloc' = AllocateFrames(alloc, r.pid, 1)
         /\ MapFault(r.pid, r.page, FirstFrame(alloc))
    /\ hung' = TRUE
    /\ inbox' = Tail(inbox)
    /\ UNCHANGED <<swap, swapped, swappedIn, reply, clientVars>>

\* Step 2: a frame, as it was left by its last owner.
FaultAllocate ==
    /\ Faulting
    /\ CanAllocate(alloc, 1)
    /\ LET r == Head(inbox) IN
         /\ ~IsSwapped(r.pid, r.page)
         /\ alloc' = AllocateFrames(alloc, r.pid, 1)
         /\ MapFault(r.pid, r.page, FirstFrame(alloc))
    /\ Answer(FirstFrame(alloc))
    /\ UNCHANGED <<swap, swapped, hung, swappedIn>>

\* find_victim_page: some present page of another process, or else of this one.
Victims(p) ==
    LET others == {pv \in PresentPages : pv[1] # p}
    IN  IF others # {} THEN others ELSE PresentPages

\* Step 3 when a victim's data reaches the disk: its frame is freed and taken again.
FaultSwapOut ==
    /\ Faulting
    /\ ~CanAllocate(alloc, 1)
    /\ S!CanSwapOut(swap)
    /\ \E pv \in Victims(Head(inbox).pid) :
         LET r == Head(inbox)
             p == pv[1]
             v == pv[2]
             slot == S!NextSlot(swap)
             freed == FreeFrame(alloc, mmu[p][v])
         IN  /\ swap' = S!AllocateSlot(swap, p, v)
             /\ swapped' = [swapped EXCEPT ![p][v] = slot]
             /\ alloc' = AllocateFrames(freed, r.pid, 1)
             /\ IF CanAllocate(freed, 1)
                THEN /\ mmu' = [mmu EXCEPT ![p][v] = None, ![r.pid][r.page] = FirstFrame(freed)]
                     /\ Answer(FirstFrame(freed))
                ELSE /\ mmu' = [mmu EXCEPT ![p][v] = None]
                     /\ Answer(Failed)
    /\ UNCHANGED <<hung, swappedIn>>

\* Step 3 otherwise: no victim, no slot, or a slot beyond the disk, which stays taken.
FaultExhausted ==
    /\ Faulting
    /\ ~CanAllocate(alloc, 1)
    /\ PresentPages = {} \/ ~S!CanSwapOut(swap)
    /\ IF PresentPages = {} THEN swap' = swap
       ELSE \E pv \in Victims(Head(inbox).pid) : swap' = S!AllocateSlot(swap, pv[1], pv[2])
    /\ Answer(Failed)
    /\ UNCHANGED <<alloc, swapped, mmu, hung, swappedIn>>

\* SwapOut takes a slot; with a response the page is then written to it, which fails
\* beyond the disk and leaves the slot taken.
HandleSwapOut ==
    /\ Serving({"SwapOut"})
    /\ swap' = S!AllocateSlot(swap, Head(inbox).pid, Head(inbox).page)
    /\ Answer(IF S!CanSwapOut(swap) THEN Done ELSE Failed)
    /\ UNCHANGED <<alloc, swapped, mmu, hung, swappedIn>>

\* SwapIn frees the slot first; with a response it then reads it back.
HandleSwapIn ==
    /\ Serving({"SwapIn"})
    /\ LET r == Head(inbox)
           found == S!SlotsHolding(swap, r.pid, r.page) # {}
           slot == S!OldestSlot(swap, r.pid, r.page)
       IN  /\ swap' = IF found THEN S!FreeSlot(swap, slot) ELSE swap
           /\ swappedIn' = IF found THEN swappedIn \cup {<<r.pid, r.page>>} ELSE swappedIn
           /\ Answer(IF found /\ S!OnDisk(slot) THEN Done ELSE Failed)
    /\ UNCHANGED <<alloc, swapped, mmu, hung>>

\* GetStats and GetFrameMap answer from the allocator and change nothing.
HandleQuery ==
    /\ Serving({"Query"})
    /\ Answer(alloc.freeCount)
    /\ UNCHANGED <<serviceVars>>

ServiceStep ==
    \/ HandleAllocFrame \/ HandleFreeFrame
    \/ HandleMapPageWithResponse \/ HandleUnmapPage
    \/ FaultSwapIn \/ FaultAllocate \/ FaultSwapOut \/ FaultExhausted
    \/ HandleSwapOut \/ HandleSwapIn \/ HandleQuery

------------------------------------------------------------------------------
(* The process service.                                                      *)

Room(n) == Len(inbox) + n <= MaxInbox

\* Mutant of PagesOf: page 0 is skipped, as if it were never mapped.
PagesBehindTheFirst(p) == {v \in Pages : mmu[p][v] # None /\ v # 0}

\* The page table as get_page_entries reads it, and one order of its pages.
PagesOf(p) == {v \in Pages : mmu[p][v] # None}

Orders(vs) == {o \in [1 .. Cardinality(vs) -> vs] : \A i, j \in DOMAIN o : o[i] = o[j] => i = j}

Unmaps(p, order) == [i \in DOMAIN order |-> Request("Unmap", p, order[i], None, 0)]

\* recv_timeout gives the wait up: the answer will find the channel dropped.
Dropped == [i \in DOMAIN inbox |->
              IF inbox[i].to = "client" THEN [inbox[i] EXCEPT !.to = "dropped"] ELSE inbox[i]]

ClientSends(next, msgs) ==
    /\ client.at = "idle"
    /\ Room(Len(msgs))
    /\ client' = next
    /\ inbox' = inbox \o msgs
    /\ reply' = NoReply
    /\ UNCHANGED <<serviceVars, timeouts>>

\* A process's CPU missed a page: PageFaultHandler, awaited for 200 ms.  The request
\* names the page of the instruction (pc): the page missed when the fetch missed it,
\* a page that is present when a load or a store missed another one.
ClientFault(p, v) ==
    /\ life[p] = "run"
    /\ ClientSends([Idle EXCEPT !.at = "fault"], <<Await(Request("Fault", p, v, None, 1))>>)
    /\ replaced' = IF mmu[p][v] = None THEN replaced ELSE replaced \cup {p}
    /\ UNCHANGED life

\* syscall_exit: an UnmapPage and a FreeFrame for every page, none of them awaited.
ClientExit(p) ==
    /\ life[p] = "run"
    /\ \E o \in Orders(PagesOf(p)) :
         ClientSends(Idle,
           [i \in 1 .. 2 * Len(o) |->
              IF i % 2 = 1 THEN Request("Unmap", p, o[(i + 1) \div 2], None, 0)
              ELSE Request("Free", 0, 0, mmu[p][o[i \div 2]], 0)])
    /\ life' = [life EXCEPT ![p] = "dead"]
    /\ UNCHANGED replaced

\* exec_impl: UnmapPage for every page, then one frame for the code.
ClientExec(p) ==
    /\ life[p] # "dead"
    /\ \E o \in Orders(PagesOf(p)) :
         ClientSends([Idle EXCEPT !.at = "execAlloc", !.pid = p],
                     Unmaps(p, o) \o <<Await(Request("Alloc", p, 0, None, 1))>>)
    /\ life' = life
    /\ replaced' = IF PagesOf(p) = {} THEN replaced ELSE replaced \cup {p}

\* fork_impl: the pages of the parent one by one, starting with a frame for each.
ForkNext(p, parent, todo) ==
    IF todo = {} THEN Idle
    ELSE [Idle EXCEPT !.at = "forkPage", !.pid = p, !.parent = parent, !.todo = todo]

ClientFork(parent, p) ==
    /\ life[parent] = "run" /\ life[p] = "new"
    /\ ClientSends(ForkNext(p, parent, PagesOf(parent)), <<>>)
    /\ life' = IF PagesOf(parent) = {} THEN [life EXCEPT ![p] = "run"] ELSE life
    /\ UNCHANGED replaced

ClientForkPage ==
    /\ client.at = "forkPage" /\ Room(1)
    /\ \E v \in client.todo :
         client' = [client EXCEPT !.at = "forkAlloc", !.page = v, !.todo = @ \ {v}]
    /\ inbox' = Append(inbox, Await(Request("Alloc", client.pid, 0, None, 1)))
    /\ reply' = NoReply
    /\ UNCHANGED <<serviceVars, life, timeouts, replaced>>

\* Only an answer that holds a frame is mapped (mutant: any answer is).
AnyAnswer(a) == a # NoReply

Granted(a) == a \in Frames

\* What the client does once a wait is over, with the answer or, after the timeout,
\* with NoReply.  An allocation that succeeded is mapped; the answer to MapPage is
\* not looked at, the page is written through whatever the MMU says by then.
Forking == client.at \in {"forkAlloc", "forkMap"}

Resume(a) ==
    LET maps   == client.at \in {"execAlloc", "forkAlloc"} /\ Granted(a)
        aborts == client.at = "forkAlloc" /\ a = NoReply
        after  == IF Forking /\ ~aborts THEN ForkNext(client.pid, client.parent, client.todo)
                  ELSE Idle
    IN  /\ client' = IF maps THEN [client EXCEPT !.at = IF Forking THEN "forkMap" ELSE "execMap"]
                     ELSE after
        /\ inbox' = IF maps THEN Append(Dropped, Await(Request("Map", client.pid, client.page, a, 0)))
                    ELSE Dropped
        /\ life' = CASE aborts -> [life EXCEPT ![client.pid] = "dead"]
                     [] ~aborts /\ client.at # "fault" /\ (maps \/ Forking) ->
                          [life EXCEPT ![client.pid] = "run"]
                     [] OTHER -> life

Waiting == client.at \in {"fault", "execAlloc", "execMap", "forkAlloc", "forkMap"}

ClientReceives ==
    /\ Waiting /\ reply # NoReply
    /\ Room(1) \/ client.at \notin {"execAlloc", "forkAlloc"}
    /\ Resume(reply)
    /\ reply' = NoReply
    /\ UNCHANGED <<serviceVars, timeouts, replaced>>

ClientTimesOut ==
    /\ Waiting /\ reply = NoReply
    /\ timeouts < MaxTimeouts
    /\ timeouts' = timeouts + 1
    /\ Resume(NoReply)
    /\ UNCHANGED <<serviceVars, reply, replaced>>

\* A request the interface offers and the process service itself never sends.
ApiRequest ==
    /\ inbox = <<>>
    /\ \E r \in ApiRequests : inbox' = <<r>>
    /\ UNCHANGED <<serviceVars, reply, clientVars>>

ClientStep ==
    \/ \E p \in Users : \/ \E v \in Pages : ClientFault(p, v)
                        \/ ClientExit(p) \/ ClientExec(p)
                        \/ \E q \in Users : ClientFork(q, p)
    \/ ClientForkPage \/ ClientReceives \/ ClientTimesOut \/ ApiRequest

Next == ServiceStep \/ ClientStep

Spec == Init /\ [][Next]_vars

------------------------------------------------------------------------------
(* Properties.                                                               *)

MemTypeOK ==
    /\ alloc \in AllocatorType
    /\ swap \in S!SwapType
    /\ swapped \in [Pids -> [Pages -> S!Slots \cup {None}]]
    /\ mmu \in [Pids -> [Pages -> Frames \cup {None}]]
    /\ inbox \in Seq(Requests)
    /\ hung \in BOOLEAN

\* However allocations, frees, faults and swaps interleave, the free queue holds
\* every free frame exactly once and the counters add up: no frame is handed out
\* twice, freed twice or lost by the allocator.
FramesPartition == QueueExact(alloc) /\ CountsExact(alloc)

\* The same of the swap slots, whether a fault or a request took or freed them.
SlotsPartition == S!SlotsExact(swap)

\* A page a fault swapped out keeps its slot: the slot is occupied for this page,
\* on the disk, and no other swapped page has it, unless a SwapIn request freed it.
SwappedPagesKept ==
    \A p \in Pids, v \in Pages :
        IsSwapped(p, v) /\ <<p, v>> \notin swappedIn =>
            /\ swap.page[swapped[p][v]] = <<p, v>>
            /\ S!OnDisk(swapped[p][v])

\* As long as no wait was given up, the frame behind a page of a process is its own:
\* allocated to it and behind no other page, through faults, swaps, fork, exec and
\* the exit messages still in the queue.
PrivateFrames ==
    timeouts = 0 =>
        \A pv \in PresentPages :
            /\ alloc.owner[mmu[pv[1]][pv[2]]] = pv[1]
            /\ \A qw \in PresentPages : mmu[qw[1]][qw[2]] = mmu[pv[1]][pv[2]] => qw = pv

\* As long as no wait was given up, a process that has exited, and whose pages neither
\* an exec nor the fault of a load or store mapped anew, owns no frame once the service has caught up.
ExitReturnsFrames ==
    timeouts = 0 /\ inbox = <<>> =>
        \A p \in Users : life[p] = "dead" /\ p \notin replaced =>
            \A f \in Frames : alloc.owner[f] # p
=============================================================================
