----------------------------- MODULE SwapSpace -----------------------------
(* The swap manager (services/memory/swap.rs), as operators on the record    *)
(*   page   what each slot is occupied for: <<pid, page>>, or Empty          *)
(*   free   free_queue           used   used_slots                           *)
(*   ofPid  process_slots: the slots of each process, oldest first           *)
(* The configuration promises more slots than the disk has sectors for: only *)
(* slots below DiskSlots can be written. Swap is never disabled.             *)
EXTENDS Integers, SequencesExt

CONSTANTS NSlots, DiskSlots, Pids, Pages

Slots == 0 .. (NSlots - 1)

Empty == <<>>

NewSwap ==
  [page |-> [s \in Slots |-> Empty], free |-> [i \in 1 .. NSlots |-> i - 1], used |-> 0,
   ofPid |-> [p \in Pids |-> <<>>]]

HasSpace(w) == w.free # <<>>

\* allocate_slot takes the head of the free queue.
NextSlot(w) == w.free[1]

AllocateSlot(w, p, v) ==
  IF HasSpace(w)
  THEN [w EXCEPT !.page[NextSlot(w)] = <<p, v>>, !.free = Tail(@), !.used = @ + 1,
                 !.ofPid[p] = Append(@, NextSlot(w))]
  ELSE w

\* Mutant of FreeSlot: the slot stays in the list of its process.
FreeSlotStillListed(w, s) ==
  IF w.page[s] = Empty THEN w
  ELSE [w EXCEPT !.page[s] = Empty, !.free = Append(@, s), !.used = @ - 1]

\* free_slot refuses a slot that is free already, and removes the first position of
\* the list of its process that holds the slot.
FreeSlot(w, s) ==
  IF w.page[s] = Empty THEN w
  ELSE [w EXCEPT !.page[s] = Empty, !.free = Append(@, s), !.used = @ - 1,
                 !.ofPid[w.page[s][1]] = RemoveFirst(@, s)]

\* swap_out and swap_in fail on a slot whose sectors lie beyond the disk.
OnDisk(s) == s < DiskSlots

\* Mutant of CanSwapOut: whether the sectors of the slot exist is not asked.
CanSwapOutAnywhere(w) == HasSpace(w)

\* Is there a slot, and can the next one be written?
CanSwapOut(w) == HasSpace(w) /\ OnDisk(NextSlot(w))

\* The slot SwapIn finds: the oldest one of the process that holds the page.
SlotsHolding(w, p, v) ==
  {i \in 1 .. Len(w.ofPid[p]) : w.page[w.ofPid[p][i]] = <<p, v>>}

OldestSlot(w, p, v) ==
  w.ofPid[p][CHOOSE i \in SlotsHolding(w, p, v) : \A j \in SlotsHolding(w, p, v) : i <= j]

SwapType ==
  [page : [Slots -> (Pids \X Pages) \cup {Empty}], free : Seq(Slots), used : Int,
   ofPid : [Pids -> Seq(Slots)]]

\* The free queue and the processes' lists split the slots between them, each slot
\* once, as `page` says; and used_slots counts the occupied ones.
SlotsExact(w) ==
  /\ \A i, j \in 1 .. Len(w.free) : w.free[i] = w.free[j] => i = j
  /\ \A p \in Pids : \A i, j \in 1 .. Len(w.ofPid[p]) : w.ofPid[p][i] = w.ofPid[p][j] => i = j
  /\ \A i \in 1 .. Len(w.free) : w.page[w.free[i]] = Empty
  /\ \A p \in Pids : \A i \in 1 .. Len(w.ofPid[p]) :
       w.page[w.ofPid[p][i]] # Empty /\ w.page[w.ofPid[p][i]][1] = p
  /\ \A s \in Slots :
       IF w.page[s] = Empty THEN \E i \in 1 .. Len(w.free) : w.free[i] = s
       ELSE \E i \in 1 .. Len(w.ofPid[w.page[s][1]]) : w.ofPid[w.page[s][1]][i] = s
  /\ w.used = NSlots - Len(w.free)
=============================================================================
