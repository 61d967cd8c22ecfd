------------------------------ MODULE PageTables ------------------------------
(***************************************************************************)
(* The memory service's own page tables (services/memory/paging.rs), which *)
(* only requests without a response reach: MapPage and PageFaultHandler of *)
(* services/memory/service.rs.  They are a second set of tables, beside    *)
(* the ones of the MMU that requests with a response change; nothing       *)
(* translates addresses through them, and nothing ever unmaps a page.      *)
(***************************************************************************)
EXTENDS FrameAllocator

CONSTANTS TablePages, OneWaySlots  \* virtual pages; free swap slots, never used up

VARIABLES
    frames,  \* memory_manager
    tables   \* page_tables: the entry of each page of each process with a table

tableVars == <<frames, tables>>

Rights  == {"Read", "Write", "Execute"}
Entries == [frame : Frames, writable : BOOLEAN, executable : BOOLEAN]
Owners  == Pids \ {0}

TablesInit ==
    /\ frames = NewAllocator
    /\ tables = [p \in {} |-> <<>>]

------------------------------------------------------------------------------
\* PageFlags::from_prot: the protection MapPage asks for, or the one a fault
\* derives from the access (MemProt::read_only, read_write, execute).
FromProt(f, access) ==
    [frame |-> f, writable |-> access = "Write", executable |-> access = "Execute"]

\* PageTableManager::get_table, or create_table when the process has none.
TableOf(t, p) == IF p \in DOMAIN t THEN t[p] ELSE [v \in {} |-> FromProt(0, "Read")]

IsMapped(t, p, v) == v \in DOMAIN TableOf(t, p)

\* Mutant of Mapped: a table that takes the new entry over the old one.
MappedOver(t, p, v, e) ==
    [q \in DOMAIN t \cup {p} |->
       IF q # p THEN t[q]
       ELSE [u \in DOMAIN TableOf(t, p) \cup {v} |->
               IF u = v THEN e ELSE TableOf(t, p)[u]]]

\* PageTable::map refuses a page that has an entry; the table exists from then on.
Mapped(t, p, v, e) ==
    [q \in DOMAIN t \cup {p} |->
       IF q # p THEN t[q]
       ELSE [u \in DOMAIN TableOf(t, p) \cup {v} |->
               IF u \in DOMAIN TableOf(t, p) THEN TableOf(t, p)[u] ELSE e]]

------------------------------------------------------------------------------
\* AllocFrame and FreeFrame without a response.
OneWayAlloc(p, n) ==
    /\ CanAllocate(frames, n)
    /\ frames' = AllocateFrames(frames, p, n)
    /\ UNCHANGED tables

OneWayFree(f) ==
    /\ CanFree(frames, f)
    /\ frames' = FreeFrame(frames, f)
    /\ UNCHANGED tables

\* handle_map_page, of whatever frame the caller names.
OneWayMap(p, v, f, access) ==
    /\ tables' = Mapped(tables, p, v, FromProt(f, access))
    /\ UNCHANGED frames

\* handle_page_fault: refused without a table and for a page that is present;
\* with no frame left it succeeds without mapping anything if swap has room.
OneWayFault(p, v, access) ==
    /\ p \in DOMAIN tables /\ ~IsMapped(tables, p, v)
    /\ \/ /\ CanAllocate(frames, 1)
          /\ frames' = AllocateFrames(frames, p, 1)
          /\ tables' = Mapped(tables, p, v, FromProt(FirstFrame(frames), access))
       \/ /\ ~CanAllocate(frames, 1) /\ OneWaySlots > 0
          /\ UNCHANGED tableVars

TablesNext ==
    \/ \E f \in Frames : OneWayFree(f)
    \/ \E p \in Owners :
         \/ \E n \in 1 .. 2 : OneWayAlloc(p, n)
         \/ \E v \in TablePages, access \in Rights :
              OneWayFault(p, v, access) \/ \E f \in Frames : OneWayMap(p, v, f, access)

TablesSpec == TablesInit /\ [][TablesNext]_tableVars

------------------------------------------------------------------------------
(* A page keeps its frame and its rights: no later mapping and no fault      *)
(* replaces them (PageTable::map, AlreadyMapped).  And a fault takes a frame *)
(* only to map it: whenever a page appears together with an allocation, it   *)
(* is the allocated frame it gets, owned by its process (handle_page_fault). *)
MappingsStay ==
    [][\A p \in DOMAIN tables' : \A v \in DOMAIN tables'[p] :
         IF IsMapped(tables, p, v) THEN tables'[p][v] = tables[p][v]
         ELSE frames' # frames => /\ frames.owner[tables'[p][v].frame] = None
                                  /\ frames'.owner[tables'[p][v].frame] = p]_tableVars
==============================================================================
