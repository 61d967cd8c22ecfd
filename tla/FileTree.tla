------------------------------ MODULE FileTree ------------------------------
(***************************************************************************)
(* The virtual file system tree (services/file/vfs.rs) as operators on the *)
(* record                                                                  *)
(*   nodes   inode -> node, for the inodes that exist                      *)
(*   next    next_inode                                                    *)
(* A node has its type, its name and parent, its children (name -> inode)  *)
(* and its data: the first sector and the number of sectors (`blocks`).    *)
(* A path is the sequence of its names.  Sizes are in sectors.             *)
(***************************************************************************)
EXTENDS VirtualDisk, Sequences, Functions

CONSTANT Names

Root == 0
NoInode == -1

Node(dir, name, parent) ==
    [dir |-> dir, name |-> name, parent |-> parent,
     children |-> [x \in {} |-> NoInode], start |-> NoSector, count |-> 0]

Exists(t, i) == i \in DOMAIN t.nodes

\* add_child refuses a parent that is no directory and a name that is taken.
CanAdd(t, parent, name) ==
    t.nodes[parent].dir /\ name \notin DOMAIN t.nodes[parent].children

\* HashMap::insert, for the tables of nodes, children, files and descriptors.
Put(f, x, y) == [z \in DOMAIN f \cup {x} |-> IF z = x THEN y ELSE f[z]]

\* create_file and create_directory: the node is inserted before the parent is asked;
\* when the parent refuses, the node stays in the table with no name leading to it.
Create(t, parent, name, dir) ==
    LET with == Put(t.nodes, t.next, Node(dir, name, parent))
    IN  [next  |-> t.next + 1,
         nodes |-> IF CanAdd(t, parent, name)
                   THEN [with EXCEPT ![parent].children = Put(@, name, t.next)]
                   ELSE with]

\* VirtualFileSystem::new: the root, a standard directory "p" (programs) and in it
\* the entry of a program "h".
NewTree ==
    Create(Create([nodes |-> [i \in {Root} |-> Node(TRUE, "/", NoInode)], next |-> 1],
                  Root, "p", TRUE),
           1, "h", FALSE)

\* lookup_path: from the root, a child at a time.  A walk is the nodes it passes.
At(walk, k) == IF k = 0 THEN Root ELSE walk[k]

Walks(t, path) ==
    {walk \in [1 .. Len(path) -> DOMAIN t.nodes] :
        \A k \in 1 .. Len(path) :
            LET children == t.nodes[At(walk, k - 1)].children
            IN  path[k] \in DOMAIN children /\ children[path[k]] = walk[k]}

Lookup(t, path) ==
    IF Exists(t, Root) /\ Walks(t, path) # {}
    THEN At(CHOOSE walk \in Walks(t, path) : TRUE, Len(path))
    ELSE NoInode

\* split_path: the parent of a path and its name.  The root splits into itself and "/".
Front(path) == IF path = <<>> THEN <<>> ELSE SubSeq(path, 1, Len(path) - 1)
Last(path)  == IF path = <<>> THEN "/" ELSE path[Len(path)]

\* can_delete: a directory must be empty.  Nothing ever counts references to a node.
CanDelete(t, i) == t.nodes[i].dir => DOMAIN t.nodes[i].children = {}

\* delete: the node leaves its parent's children and the table.  Its sectors are not freed.
Without(f, x) == Restrict(f, DOMAIN f \ {x})

\* Mutant of Delete: the name stays in the parent directory.
DeleteNodeOnly(t, i) == IF ~CanDelete(t, i) THEN t ELSE [t EXCEPT !.nodes = Without(t.nodes, i)]

Delete(t, i) ==
    IF ~CanDelete(t, i) THEN t
    ELSE LET n == t.nodes[i]
             nodes == IF Exists(t, n.parent)
                      THEN [t.nodes EXCEPT ![n.parent].children = Without(@, n.name)]
                      ELSE t.nodes
         IN  [t EXCEPT !.nodes = Without(nodes, i)]

\* Mutant of Load: the root keeps the children of the new tree.
LoadUnderNewRoot(saved) ==
    LET new == NewTree.nodes
    IN  [nodes |-> [i \in DOMAIN new \cup DOMAIN saved |->
                      IF i \in DOMAIN saved /\ i # Root THEN saved[i] ELSE new[i]],
         next  |-> NewTree.next + Cardinality(DOMAIN saved)]

\* save_to_file writes every node; load_from_file puts them over a new tree: the root
\* stays the new one and takes the saved children, and what the new tree has and the
\* file has not stays in the table.
SetMax(S) == CHOOSE m \in S : \A x \in S : x <= m

Load(saved) ==
    LET new == NewTree.nodes
    IN  [nodes |-> [i \in DOMAIN new \cup DOMAIN saved |->
                      IF i = Root THEN [new[Root] EXCEPT !.children =
                                          IF Root \in DOMAIN saved THEN saved[Root].children ELSE @]
                      ELSE IF i \in DOMAIN saved THEN saved[i] ELSE new[i]],
         next  |-> SetMax({NewTree.next} \cup {i + 1 : i \in DOMAIN saved})]

\* Mutant of SetBlocks: the number of sectors is not recorded.
SetStart(t, i, start, n) == IF Exists(t, i) THEN [t EXCEPT !.nodes[i].start = start] ELSE t

\* What handle_write and the import record: where the data of a node is, if it exists.
SetBlocks(t, i, start, n) ==
    IF Exists(t, i) THEN [t EXCEPT !.nodes[i].start = start, !.nodes[i].count = n] ELSE t

Blocks(n) == IF n.start = NoSector THEN {} ELSE Run(n.start, n.count)

\* Every name in a directory leads to a node of that name and that parent.
NamesLead(t) ==
    \A i \in DOMAIN t.nodes : \A x \in DOMAIN t.nodes[i].children :
        LET c == t.nodes[i].children[x]
        IN  Exists(t, c) /\ t.nodes[c].name = x /\ t.nodes[c].parent = i
=============================================================================
