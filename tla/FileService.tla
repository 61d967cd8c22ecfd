---------------------------- MODULE FileService ----------------------------
(***************************************************************************)
(* The file service (services/file/service.rs, file.rs, descriptor.rs)     *)
(* over the tree (FileTree) and the disk (VirtualDisk), with crashes.      *)
(*                                                                         *)
(* The service answers one request after another and saves the tree to a   *)
(* JSON file after each.  A request is one step, except where a crash in   *)
(* the middle would leave something else behind: the bitmap is on the disk *)
(* as soon as a write has freed or allocated sectors, the tree only when   *)
(* it was saved, and the JSON file is truncated before it is written.      *)
(*                                                                         *)
(* Every request is served as process 0, so all processes share one table  *)
(* of descriptors; a file is cached under its inode until the restart, and *)
(* a descriptor is a name for the cached file.                             *)
(***************************************************************************)
EXTENDS FileTree

CONSTANTS
    Paths,       \* the paths requests name
    Modes,       \* the modes files are opened in
    MaxFd,       \* max_fds
    MaxInode,    \* bound on the inodes handed out
    MaxLen,      \* bound on the length of a file, in sectors
    MaxCrashes   \* bound on the number of crashes

ASSUME FileAssumption ==
    /\ MaxFd \in Nat /\ MaxInode \in Nat /\ MaxLen \in Nat \ {0} /\ MaxCrashes \in Nat
    /\ Paths \subseteq Seq(Names)
    /\ Modes \subseteq {"Read", "Write", "ReadWrite", "Append"}

VARIABLES
    tree,      \* vfs
    files,     \* open_files: inode -> File
    fds,       \* the descriptors of process 0: descriptor -> inode
    nextFd,    \* next_fd of its table
    used,      \* the bitmap of the disk
    saved,     \* .genshin-vfs.json: the nodes, or Unreadable
    phase,     \* what the service is doing
    current,   \* the file a write is at
    crashes,   \* crashes so far
    damaged    \* history: "full" when an allocation failed, "crash" when a crash hit a
               \* request before its tree was saved

fileVars == <<tree, files, fds, nextFd, used, saved, phase, current, crashes, damaged>>

FirstFd == 3
\* The contents of the JSON file: can it be parsed, and the nodes in it.
Saved(nodes) == [ok |-> TRUE, nodes |-> nodes]
Unreadable == [ok |-> FALSE, nodes |-> <<>>]

\* The JSON file is missing at the first start, which reads the same.
FileInit ==
    /\ tree = NewTree
    /\ files = <<>> /\ fds = <<>> /\ nextFd = FirstFd
    /\ used = {}
    /\ saved = Unreadable
    /\ phase = "down"
    /\ current = NoInode
    /\ crashes = 0
    /\ damaged = {}

------------------------------------------------------------------------------
(* Files (file.rs).                                                          *)

NewFile(mode) == [len |-> 0, pos |-> 0, mode |-> mode, dirty |-> FALSE,
                  start |-> NoSector, count |-> 0]

\* load_from_disk: a file that is opened takes the node's sectors over.
LoadFile(n, mode) == [NewFile(mode) EXCEPT !.len = n.count, !.start = n.start, !.count = n.count]

CanRead(f)  == f.mode # "Write"
CanWrite(f) == f.mode # "Read"

ReadFile(f, n) ==
    [f EXCEPT !.pos = IF @ >= f.len THEN @ ELSE IF @ + n < f.len THEN @ + n ELSE f.len]

\* write: at the end in Append mode, else at the position, over a hole if need be.
WritePos(f) == IF f.mode = "Append" THEN f.len ELSE f.pos

WriteFile(f, n) ==
    [f EXCEPT !.pos = WritePos(f) + n, !.dirty = TRUE,
              !.len = IF WritePos(f) + n > @ THEN WritePos(f) + n ELSE @]

\* sync_to_disk frees the old sectors, and only then looks for new ones.
FreeOld(f) == IF f.start = NoSector THEN used ELSE FreeSectors(used, f.start, f.count)

Synced(f, u) == [f EXCEPT !.start = FirstRun(u, f.len), !.count = f.len, !.dirty = FALSE]

------------------------------------------------------------------------------
(* Requests.  Whatever a request did, the tree is saved after it.            *)

Serve == phase = "idle" /\ phase' = "save"

Quiet == UNCHANGED <<used, saved, current, crashes, damaged>>

\* Mutants of AllocateFd: the counter does not advance; the lowest free number is taken.
AllocateFdUncounted(i) == fds' = Put(fds, nextFd, i) /\ nextFd' = nextFd

AllocateFdLowest(i) ==
    LET free == {fd \in FirstFd .. nextFd : fd \notin DOMAIN fds}
        low  == CHOOSE fd \in free : \A x \in free : fd <= x
    IN  IF low >= MaxFd THEN UNCHANGED <<fds, nextFd>>
        ELSE fds' = Put(fds, low, i) /\ nextFd' = IF low = nextFd THEN nextFd + 1 ELSE nextFd

\* A descriptor is the next number, never one that was closed; past max_fds the
\* request fails, the file stays cached.
AllocateFd(i) ==
    IF nextFd >= MaxFd THEN UNCHANGED <<fds, nextFd>>
    ELSE fds' = Put(fds, nextFd, i) /\ nextFd' = nextFd + 1

\* open, when the path leads to a file or can be created: a cached file takes the new
\* mode and goes back to its start, whoever has it open.
CanCreate(path) == Lookup(tree, Front(path)) # NoInode /\ tree.next <= MaxInode

OpenNode(t, i, mode) ==
    /\ tree' = t
    /\ files' = IF i \in DOMAIN files
                THEN [files EXCEPT ![i].mode = mode, ![i].pos = 0]
                ELSE Put(files, i, LoadFile(t.nodes[i], mode))
    /\ AllocateFd(i)

HandleOpen(path, mode) ==
    /\ Serve
    /\ Lookup(tree, path) # NoInode
    /\ LET i == Lookup(tree, path)
       IN  IF tree.nodes[i].dir THEN UNCHANGED <<tree, files, fds, nextFd>>
           ELSE OpenNode(tree, i, mode)
    /\ Quiet

HandleOpenCreate(path, mode) ==
    /\ Serve
    /\ Lookup(tree, path) = NoInode
    /\ CanCreate(path)
    /\ LET t == Create(tree, Lookup(tree, Front(path)), Last(path), FALSE)
       IN  IF Lookup(t, path) = NoInode THEN tree' = t /\ UNCHANGED <<files, fds, nextFd>>
           ELSE OpenNode(t, Lookup(t, path), mode)
    /\ Quiet

HandleClose(fd) ==
    /\ Serve
    /\ fd \in DOMAIN fds
    /\ fds' = Without(fds, fd)
    /\ UNCHANGED <<tree, files, nextFd>> /\ Quiet

\* close with a response first syncs a file that is dirty, which a failed write left
\* so; the node is not told where the data is now.
HandleCloseWithResponse(fd) ==
    /\ Serve
    /\ fd \in DOMAIN fds
    /\ fds' = Without(fds, fd)
    /\ LET i == fds[fd]
           f == files[i]
           u == FreeOld(f)
       IN  /\ f.dirty
           /\ used' = AllocateSectors(u, f.len)
           /\ files' = IF HasRun(u, f.len) THEN [files EXCEPT ![i] = Synced(f, u)] ELSE files
    /\ UNCHANGED <<tree, nextFd, saved, current, crashes, damaged>>

HandleRead(fd, n) ==
    /\ Serve
    /\ fd \in DOMAIN fds
    /\ CanRead(files[fds[fd]])
    /\ files' = [files EXCEPT ![fds[fd]] = ReadFile(@, n)]
    /\ UNCHANGED <<tree, fds, nextFd>> /\ Quiet

HandleSeek(fd, pos) ==
    /\ Serve
    /\ fd \in DOMAIN fds
    /\ files' = [files EXCEPT ![fds[fd]].pos = pos]
    /\ UNCHANGED <<tree, fds, nextFd>> /\ Quiet

\* write: the data, and the old sectors freed and flushed ...
HandleWrite(fd, n) ==
    /\ phase = "idle"
    /\ fd \in DOMAIN fds
    /\ LET i == fds[fd]
           f == files[i]
       IN  /\ CanWrite(f)
           /\ WritePos(f) + n <= MaxLen
           /\ files' = [files EXCEPT ![i] = WriteFile(f, n)]
           /\ used' = FreeOld(f)
           /\ current' = i
    /\ phase' = "sync"
    /\ UNCHANGED <<tree, fds, nextFd, saved, crashes, damaged>>

\* ... then new sectors allocated, written and recorded in the node; or none found,
\* and the node and the file go on naming the sectors just freed.
SyncToDisk ==
    /\ phase = "sync"
    /\ LET f == files[current]
       IN  IF HasRun(used, f.len)
           THEN /\ used' = AllocateSectors(used, f.len)
                /\ files' = [files EXCEPT ![current] = Synced(f, used)]
                /\ tree' = SetBlocks(tree, current, FirstRun(used, f.len), f.len)
                /\ damaged' = damaged
           ELSE damaged' = damaged \cup {"full"} /\ UNCHANGED <<used, files, tree>>
    /\ phase' = "save" /\ current' = NoInode
    /\ UNCHANGED <<fds, nextFd, saved, crashes>>

\* handle_create is not reachable by a request.  mkdir asks whether the parent is a
\* directory before it creates the node; mkdir of the root makes a directory "/" in it,
\* which no path leads to.
HandleMkdir(path) ==
    /\ Serve
    /\ CanCreate(path)
    /\ LET parent == Lookup(tree, Front(path))
       IN  /\ tree.nodes[parent].dir
           /\ tree' = Create(tree, parent, Last(path), TRUE)
    /\ UNCHANGED <<files, fds, nextFd>> /\ Quiet

HandleDelete(path) ==
    /\ Serve
    /\ Lookup(tree, path) # NoInode
    /\ tree' = Delete(tree, Lookup(tree, path))
    /\ UNCHANGED <<files, fds, nextFd>> /\ Quiet

HandleRmdir(path) ==
    /\ Serve
    /\ LET i == Lookup(tree, path)
       IN  i # NoInode /\ tree.nodes[i].dir /\ CanDelete(tree, i) /\ tree' = Delete(tree, i)
    /\ UNCHANGED <<files, fds, nextFd>> /\ Quiet

\* Stat, ListDir, DiskInfo, Mount, and every request refused above: nothing changes,
\* and the tree is saved all the same.  So it is for CloneFds at a fork, which copies
\* the descriptors of the parent's own table: it has none.
HandleQuery ==
    /\ Serve
    /\ UNCHANGED <<tree, files, fds, nextFd>> /\ Quiet

\* save_to_file, after every request.
SaveToFile ==
    /\ phase = "save" /\ phase' = "idle"
    /\ saved' = Saved(tree.nodes)
    /\ UNCHANGED <<tree, files, fds, nextFd, used, current, crashes, damaged>>

------------------------------------------------------------------------------
(* Crash and restart.  Leaving by `exit` is a crash of an idle service.  The  *)
(* JSON file is truncated before it is written: a crash before the end of the *)
(* save leaves the last one or an unreadable one.                             *)

Crash ==
    /\ phase # "down" /\ crashes < MaxCrashes
    /\ phase' = "down" /\ crashes' = crashes + 1
    /\ damaged' = IF phase = "idle" THEN damaged ELSE damaged \cup {"crash"}
    /\ files' = <<>> /\ fds' = <<>> /\ nextFd' = FirstFd
    /\ current' = NoInode
    /\ tree' = NewTree
    /\ saved' \in {saved} \cup (IF phase = "save" THEN {Unreadable} ELSE {})
    /\ used' = used

\* new loads the tree, or starts a new one when the file cannot be parsed; then
\* import_host_files writes the program "h" if it has no data.
Booted == IF saved.ok THEN Load(saved.nodes) ELSE NewTree

Host == <<"p", "h">>

Imported(t) ==
    IF Lookup(t, Host) # NoInode THEN t
    ELSE IF Lookup(t, Front(Host)) # NoInode
         THEN Create(t, Lookup(t, Front(Host)), Last(Host), FALSE)
    ELSE t

Restart ==
    /\ phase = "down" /\ phase' = "idle"
    /\ LET t == Imported(Booted)
           i == Lookup(t, Host)
       IN  IF i # NoInode /\ Blocks(t.nodes[i]) = {} /\ HasRun(used, 1)
           THEN /\ used' = AllocateSectors(used, 1)
                /\ tree' = SetBlocks(t, i, FirstRun(used, 1), 1)
           ELSE tree' = t /\ used' = used
    /\ UNCHANGED <<files, fds, nextFd, saved, current, crashes, damaged>>

FileNext ==
    \/ \E path \in Paths, mode \in Modes : HandleOpen(path, mode) \/ HandleOpenCreate(path, mode)
    \/ \E fd \in FirstFd .. MaxFd - 1 :
         \/ HandleClose(fd) \/ HandleCloseWithResponse(fd)
         \/ \E n \in 1 .. MaxLen : HandleRead(fd, n) \/ HandleWrite(fd, n)
         \/ HandleSeek(fd, 0)
    \/ \E path \in Paths : HandleMkdir(path) \/ HandleDelete(path) \/ HandleRmdir(path)
    \/ HandleQuery
    \/ SyncToDisk \/ SaveToFile \/ Crash \/ Restart

FileSpec == FileInit /\ [][FileNext]_fileVars

------------------------------------------------------------------------------
(* Properties.                                                               *)

FileTypeOK ==
    /\ \A i \in DOMAIN tree.nodes : i \in 0 .. tree.next - 1 /\ tree.nodes[i].dir \in BOOLEAN
    /\ \A i \in DOMAIN files : files[i].mode \in Modes /\ files[i].count \in 0 .. MaxLen
    /\ \A fd \in DOMAIN fds : fd < nextFd /\ fds[fd] \in DOMAIN files
    /\ used \subseteq Sectors
    /\ phase \in {"down", "idle", "sync", "save"}
    /\ current # NoInode <=> phase = "sync"

\* Whatever was created, refused, deleted, saved, lost or loaded again, and wherever
\* it crashed, every name in a directory leads to the node of that name.
TreeExact == phase # "down" => NamesLead(tree)

\* The sectors of a file that is cached (its node may be gone), or of a node.
Holds(i) ==
    IF i \in DOMAIN files THEN Blocks(files[i]) ELSE Blocks(tree.nodes[i])

Holders == (DOMAIN files \cup DOMAIN tree.nodes) \ {current}

\* Unless an allocation failed or a crash hit a request half-way, the sectors of every
\* file are in use on the bitmap and nobody else's, through reopening, writing by
\* several descriptors, deleting while open, and restarts.
SectorsOwned ==
    damaged = {} /\ phase # "down" =>
        \A i \in Holders :
            /\ Holds(i) \subseteq used
            /\ \A j \in Holders : i # j => Holds(i) \cap Holds(j) = {}

\* ... and what is cached is what is on the disk: a file that is cached is clean, and
\* the node, if it still exists, says where its data is.
CacheClean ==
    damaged = {} /\ phase # "down" =>
        \A i \in DOMAIN files \ {current} :
            /\ ~files[i].dirty
            /\ Exists(tree, i) => /\ tree.nodes[i].start = files[i].start
                                  /\ tree.nodes[i].count = files[i].count

\* A descriptor once closed stays closed until the restart: a process that goes on
\* using it never reaches a file another one opened.
FdNotReused ==
    [][phase' # "down" =>
         \A fd \in FirstFd .. nextFd - 1 :
            fd \notin DOMAIN fds => fd \notin DOMAIN fds']_fileVars

\* A restart that finds the saved tree brings back every path of it, leading to the same
\* node with the same data.
RestartKeepsTree ==
    [][phase = "down" /\ phase' = "idle" /\ saved.ok =>
         \A path \in Paths :
            LET i == Lookup([nodes |-> saved.nodes, next |-> 0], path)
            IN  i # NoInode =>
                  /\ Lookup(tree', path) = i
                  /\ saved.nodes[i].count > 0 => /\ tree'.nodes[i].start = saved.nodes[i].start
                                           /\ tree'.nodes[i].count = saved.nodes[i].count]_fileVars
=============================================================================
