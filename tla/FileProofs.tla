----------------------------- MODULE FileProofs -----------------------------
(***************************************************************************)
(* The file service, for any names, paths, sectors and any number of       *)
(* descriptors, files and crashes: names in directories lead to their      *)
(* nodes, sectors have one owner, the cache agrees with the disk, closed   *)
(* descriptors stay closed and a restart brings the saved tree back.       *)
(***************************************************************************)
EXTENDS FileService, FiniteSetTheorems, NaturalsInduction, TLAPS

------------------------------------------------------------------------------
(* Tables: functions on some elements of D, with values in R.                *)

Table(D, R) == UNION {[S -> R] : S \in SUBSET D}

\* What it is to be a table.
LEMMA TableIs ==
    ASSUME NEW D, NEW R, NEW f
    PROVE  f \in Table(D, R) <=> /\ DOMAIN f \subseteq D
                                 /\ f = [x \in DOMAIN f |-> f[x]]
                                 /\ \A x \in DOMAIN f : f[x] \in R
<1>1. ASSUME f \in Table(D, R)
      PROVE  /\ DOMAIN f \subseteq D /\ f = [x \in DOMAIN f |-> f[x]]
             /\ \A x \in DOMAIN f : f[x] \in R
    <2>1. PICK S \in SUBSET D : f \in [S -> R]
        BY <1>1 DEF Table
    <2> QED
        BY <2>1
<1>2. ASSUME DOMAIN f \subseteq D, f = [x \in DOMAIN f |-> f[x]], \A x \in DOMAIN f : f[x] \in R
      PROVE  f \in Table(D, R)
    <2>1. f \in [DOMAIN f -> R]
        BY <1>2
    <2> QED
        BY <1>2, <2>1 DEF Table
<1> QED
    BY <1>1, <1>2

\* Entering something into a table (HashMap::insert).
LEMMA TablePut ==
    ASSUME NEW D, NEW R, NEW f \in Table(D, R), NEW d \in D, NEW e \in R
    PROVE  Put(f, d, e) \in Table(D, R)
<1> DEFINE g == Put(f, d, e)
<1>1. g = [x \in DOMAIN f \cup {d} |-> IF x = d THEN e ELSE f[x]]
    BY DEF Put
<1>2. DOMAIN f \subseteq D /\ \A x \in DOMAIN f : f[x] \in R
    BY TableIs
<1> HIDE DEF g
<1>3. DOMAIN g \subseteq D /\ g = [x \in DOMAIN g |-> g[x]] /\ \A x \in DOMAIN g : g[x] \in R
    BY <1>1, <1>2
<1>4. g \in Table(D, R)
    BY <1>3, TableIs
<1> QED
    BY <1>4 DEF g

\* Taking something out of a table (HashMap::remove).
LEMMA TableWithout ==
    ASSUME NEW D, NEW R, NEW f \in Table(D, R), NEW d
    PROVE  Without(f, d) \in Table(D, R)
<1> DEFINE g == Without(f, d)
<1>1. g = [x \in DOMAIN f \ {d} |-> f[x]]
    BY DEF Without, Restrict
<1>2. DOMAIN f \subseteq D /\ \A x \in DOMAIN f : f[x] \in R
    BY TableIs
<1> HIDE DEF g
<1>3. DOMAIN g \subseteq D /\ g = [x \in DOMAIN g |-> g[x]] /\ \A x \in DOMAIN g : g[x] \in R
    BY <1>1, <1>2
<1>4. g \in Table(D, R)
    BY <1>3, TableIs
<1> QED
    BY <1>4 DEF g

\* Changing an entry of a table.
LEMMA TableSet ==
    ASSUME NEW D, NEW R, NEW f \in Table(D, R), NEW d \in DOMAIN f, NEW e \in R
    PROVE  [f EXCEPT ![d] = e] \in Table(D, R)
<1> DEFINE g == [f EXCEPT ![d] = e]
<1>1. DOMAIN f \subseteq D /\ f = [x \in DOMAIN f |-> f[x]] /\ \A x \in DOMAIN f : f[x] \in R
    BY TableIs
<1>2. DOMAIN g = DOMAIN f /\ g[d] = e /\ \A x \in DOMAIN f : x # d => g[x] = f[x]
    OBVIOUS
<1>3. g = [x \in DOMAIN g |-> g[x]]
    OBVIOUS
<1> HIDE DEF g
<1>4. \A x \in DOMAIN g : g[x] \in R
    BY <1>1, <1>2
<1>5. g \in Table(D, R)
    BY <1>1, <1>2, <1>3, <1>4, TableIs
<1> QED
    BY <1>5 DEF g

\* A table with nothing in it.
LEMMA TableEmpty ==
    ASSUME NEW D, NEW R
    PROVE  <<>> \in Table(D, R) /\ DOMAIN <<>> = {} /\ \A x : [y \in {} |-> x] \in Table(D, R)
<1>1. DOMAIN <<>> = {} /\ <<>> \in [{} -> R]
    OBVIOUS
<1>2. \A x : [y \in {} |-> x] \in [{} -> R]
    OBVIOUS
<1> QED
    BY <1>1, <1>2 DEF Table

\* A nonempty set of natural numbers has a least element.
LEMMA LeastExists ==
    ASSUME NEW S \in SUBSET Nat, S # {}
    PROVE  \E m \in S : \A x \in S : m <= x
<1> DEFINE R == OpToRel(<, Nat)
<1>1. IsWellFoundedOn(R, Nat)
    BY NatLessThanWellFounded
<1>2. PICK m \in S : \A x \in S : ~(<<x, m>> \in R)
    BY <1>1, WFMin
<1>3. \A x \in S : ~(x < m)
    BY <1>2 DEF OpToRel
<1> QED
    BY <1>3

\* ... and when it is bounded a greatest one, which is its SetMax.
LEMMA GreatestExists ==
    ASSUME NEW S \in SUBSET Nat, S # {}, NEW b \in Nat, \A x \in S : x <= b
    PROVE  SetMax(S) \in S /\ \A x \in S : x <= SetMax(S)
<1> DEFINE T == {m \in Nat : \A x \in S : x <= m}
<1>1. T \in SUBSET Nat /\ T # {}
    OBVIOUS
<1>2. PICK m \in T : \A y \in T : m <= y
    BY <1>1, LeastExists
<1>3. m \in Nat /\ \A x \in S : x <= m
    OBVIOUS
<1>4. m \in S
    <2> SUFFICES ASSUME m \notin S PROVE FALSE
        OBVIOUS
    <2>1. \A x \in S : x < m
        BY <1>3
    <2>2. PICK z \in S : z \in Nat /\ z < m
        BY <2>1
    <2>3. m - 1 \in Nat /\ \A x \in S : x <= m - 1
        BY <2>1, <2>2, <1>3
    <2>4. m - 1 \in T
        BY <2>3
    <2> QED
        BY <2>4, <1>2, <1>3
<1> QED
    BY <1>3, <1>4 DEF SetMax

------------------------------------------------------------------------------
(* The tree.                                                                 *)

Inodes == Nat

Labels == Names \cup {"/", "p", "h"}

NodeSet == [dir : BOOLEAN, name : Labels, parent : Int, children : Table(Labels, Nat),
            start : Nat, count : 0 .. MaxLen]

\* The three nodes of a new tree keep their names and places for as long as they exist,
\* the root holds no data, and no node has data without a place for it.
Standard(nodes) ==
    /\ Root \in DOMAIN nodes =>
         nodes[Root].name = "/" /\ nodes[Root].parent = NoInode /\ nodes[Root].dir
         /\ nodes[Root].start = NoSector /\ nodes[Root].count = 0
    /\ 1 \in DOMAIN nodes => nodes[1].name = "p" /\ nodes[1].parent = Root
    /\ 2 \in DOMAIN nodes => nodes[2].name = "h" /\ nodes[2].parent = 1
    /\ \A i \in DOMAIN nodes : nodes[i].count > 0 => nodes[i].start # NoSector

TreeTyped(t) ==
    /\ t \in [nodes : Table(Inodes, NodeSet), next : Nat]
    /\ DOMAIN t.nodes \subseteq 0 .. t.next - 1
    /\ t.next >= 1

TreeSound(t) == TreeTyped(t) /\ t.next >= 3 /\ Standard(t.nodes) /\ NamesLead(t)

\* A node that is made has its name and parent, no children and no data.
LEMMA NodeFields ==
    ASSUME NEW dir \in BOOLEAN, NEW name \in Labels, NEW parent \in Int
    PROVE  /\ Node(dir, name, parent) \in NodeSet
           /\ Node(dir, name, parent).dir = dir
           /\ Node(dir, name, parent).name = name
           /\ Node(dir, name, parent).parent = parent
           /\ DOMAIN Node(dir, name, parent).children = {}
           /\ Node(dir, name, parent).start = NoSector
           /\ Node(dir, name, parent).count = 0
<1> DEFINE c == [x \in {} |-> NoInode]
<1>1. c \in Table(Labels, Nat) /\ DOMAIN c = {}
    BY TableEmpty
<1>2. NoSector \in Nat /\ 0 \in 0 .. MaxLen
    BY FileAssumption DEF NoSector
<1>3. Node(dir, name, parent) =
        [dir |-> dir, name |-> name, parent |-> parent, children |-> c, start |-> NoSector, count |-> 0]
    BY DEF Node
<1> HIDE DEF c
<1> QED
    BY <1>1, <1>2, <1>3 DEF NodeSet

\* Two nodes that differ at most in their children.
SameNode(m, n) ==
    m.dir = n.dir /\ m.name = n.name /\ m.parent = n.parent /\ m.start = n.start /\ m.count = n.count

\* A directory whose children are replaced.
LEMMA NodeWithChildren ==
    ASSUME NEW n \in NodeSet, NEW c \in Table(Labels, Nat)
    PROVE  /\ [n EXCEPT !.children = c] \in NodeSet
           /\ [n EXCEPT !.children = c].children = c
           /\ SameNode([n EXCEPT !.children = c], n)
BY DEF NodeSet, SameNode

\* create_file and create_directory, node by node.
LEMMA CreateIs ==
    ASSUME NEW t, TreeTyped(t), NEW parent \in DOMAIN t.nodes, NEW name \in Labels, NEW dir \in BOOLEAN
    PROVE  LET u == Create(t, parent, name, dir) IN
           /\ TreeTyped(u) /\ u.next = t.next + 1
           /\ t.next \notin DOMAIN t.nodes /\ DOMAIN u.nodes = DOMAIN t.nodes \cup {t.next}
           /\ u.nodes[t.next] = Node(dir, name, parent)
           /\ \A i \in DOMAIN t.nodes : SameNode(u.nodes[i], t.nodes[i])
           /\ \A i \in DOMAIN t.nodes : i # parent => u.nodes[i] = t.nodes[i]
           /\ ~CanAdd(t, parent, name) => u.nodes[parent] = t.nodes[parent]
           /\ CanAdd(t, parent, name) =>
                u.nodes[parent].children = Put(t.nodes[parent].children, name, t.next)
<1> DEFINE u == Create(t, parent, name, dir)
           new == Node(dir, name, parent)
           with == Put(t.nodes, t.next, new)
           kids == Put(t.nodes[parent].children, name, t.next)
           n1 == [t.nodes[parent] EXCEPT !.children = kids]
           with1 == [with EXCEPT ![parent] = n1]
<1>1. /\ t.nodes \in Table(Inodes, NodeSet) /\ t.next \in Nat /\ DOMAIN t.nodes \subseteq 0 .. t.next - 1
      /\ t.next >= 1 /\ t.next + 1 \in Nat
    BY DEF TreeTyped
<1>2. t.next \notin DOMAIN t.nodes /\ parent \in Nat /\ parent \in Int /\ parent # t.next
    BY <1>1
<1>3. t.nodes[parent] \in NodeSet
    BY <1>1, TableIs
<1>4. t.nodes[parent].children \in Table(Labels, Nat)
    BY <1>3 DEF NodeSet
<1>5. kids \in Table(Labels, Nat)
    BY <1>1, <1>4, TablePut
<1>6. new \in NodeSet
    BY <1>2, NodeFields
<1> HIDE DEF new
<1>7. /\ with \in Table(Inodes, NodeSet) /\ DOMAIN with = DOMAIN t.nodes \cup {t.next}
      /\ with[t.next] = new /\ \A i \in DOMAIN t.nodes : i # t.next => with[i] = t.nodes[i]
    <2>1. t.next \in Inodes /\ t.nodes \in Table(Inodes, NodeSet)
        BY <1>1 DEF Inodes
    <2>2. with \in Table(Inodes, NodeSet)
        BY <2>1, <1>6, TablePut
    <2>3. DOMAIN with = DOMAIN t.nodes \cup {t.next}
        BY DEF Put
    <2>4. with[t.next] = new
        BY DEF Put
    <2>5. \A i \in DOMAIN t.nodes : i # t.next => with[i] = t.nodes[i]
        BY DEF Put
    <2> QED
        BY <2>2, <2>3, <2>4, <2>5
<1>8. with[parent] = t.nodes[parent]
    BY <1>2, <1>7
<1>9. u = [next |-> t.next + 1, nodes |-> IF CanAdd(t, parent, name) THEN with1 ELSE with]
    BY <1>8 DEF Create, new
<1> HIDE DEF kids
<1>10. n1 \in NodeSet /\ n1.children = kids /\ SameNode(n1, t.nodes[parent])
    BY <1>3, <1>5, NodeWithChildren
<1> HIDE DEF with, n1
<1>11. parent \in DOMAIN with
    BY <1>7
<1>12. /\ with1 \in Table(Inodes, NodeSet) /\ DOMAIN with1 = DOMAIN with /\ with1[parent] = n1
       /\ \A i \in DOMAIN with : i # parent => with1[i] = with[i]
    <2>1. with1 \in Table(Inodes, NodeSet)
        BY <1>7, <1>10, <1>11, TableSet
    <2> QED
        BY <2>1, <1>11
<1> HIDE DEF with1, u
<1>13. u.next = t.next + 1 /\ u.nodes = (IF CanAdd(t, parent, name) THEN with1 ELSE with)
    BY <1>9
<1>14. DOMAIN u.nodes = DOMAIN t.nodes \cup {t.next} /\ u.nodes \in Table(Inodes, NodeSet)
    BY <1>13, <1>12, <1>7
<1>15. DOMAIN u.nodes \subseteq 0 .. u.next - 1
    BY <1>1, <1>13, <1>14
<1>16. TreeTyped(u)
    BY <1>1, <1>9, <1>13, <1>14, <1>15 DEF TreeTyped
<1>17. u.nodes[t.next] = new
    BY <1>2, <1>7, <1>12, <1>13
<1>18. \A i \in DOMAIN t.nodes : i # parent => u.nodes[i] = t.nodes[i]
    BY <1>2, <1>7, <1>12, <1>13
<1>19. ~CanAdd(t, parent, name) => u.nodes[parent] = t.nodes[parent]
    BY <1>8, <1>13
<1>20. CanAdd(t, parent, name) => u.nodes[parent] = n1
    BY <1>12, <1>13
<1>21. \A i \in DOMAIN t.nodes : SameNode(u.nodes[i], t.nodes[i])
    BY <1>10, <1>18, <1>19, <1>20 DEF SameNode
<1> QED
    BY <1>2, <1>10, <1>13, <1>14, <1>16, <1>17, <1>18, <1>19, <1>20, <1>21 DEF u, new, kids

\* create_file and create_directory keep a sound tree sound.
LEMMA CreateSound ==
    ASSUME NEW t, TreeSound(t), NEW parent \in DOMAIN t.nodes, NEW name \in Labels, NEW dir \in BOOLEAN
    PROVE  TreeSound(Create(t, parent, name, dir))
<1> DEFINE u == Create(t, parent, name, dir)
           k == t.next
<1>1. TreeTyped(t) /\ t.next >= 3 /\ Standard(t.nodes) /\ NamesLead(t)
    BY DEF TreeSound
<1>2. /\ TreeTyped(u) /\ u.next = t.next + 1
      /\ k \notin DOMAIN t.nodes /\ DOMAIN u.nodes = DOMAIN t.nodes \cup {k}
      /\ u.nodes[k] = Node(dir, name, parent)
      /\ \A i \in DOMAIN t.nodes : SameNode(u.nodes[i], t.nodes[i])
      /\ \A i \in DOMAIN t.nodes : i # parent => u.nodes[i] = t.nodes[i]
      /\ ~CanAdd(t, parent, name) => u.nodes[parent] = t.nodes[parent]
      /\ CanAdd(t, parent, name) =>
           u.nodes[parent].children = Put(t.nodes[parent].children, name, t.next)
    BY <1>1, CreateIs
<1>3. t.next \in Nat /\ DOMAIN t.nodes \subseteq 0 .. t.next - 1
    BY <1>1 DEF TreeTyped
<1>4. parent \in Int /\ k \notin {Root, 1, 2}
    BY <1>1, <1>3 DEF Root
<1>5. /\ u.nodes[k].name = name /\ u.nodes[k].parent = parent /\ DOMAIN u.nodes[k].children = {}
      /\ u.nodes[k].start = NoSector /\ u.nodes[k].count = 0
    BY <1>2, <1>4, NodeFields
<1> HIDE DEF u, k
<1>6. Standard(u.nodes)
    BY <1>1, <1>2, <1>4, <1>5 DEF Standard, SameNode
<1>7. NamesLead(u)
    <2> SUFFICES ASSUME NEW i \in DOMAIN u.nodes, NEW x \in DOMAIN u.nodes[i].children
                 PROVE  LET c == u.nodes[i].children[x]
                        IN  c \in DOMAIN u.nodes /\ u.nodes[c].name = x /\ u.nodes[c].parent = i
        BY DEF NamesLead, Exists
    <2>1. i \in DOMAIN t.nodes
        BY <1>2, <1>5
    <2>2. CASE x \in DOMAIN t.nodes[i].children /\ u.nodes[i].children[x] = t.nodes[i].children[x]
        BY <2>1, <2>2, <1>1, <1>2 DEF NamesLead, Exists, SameNode
    <2>3. CASE i = parent /\ CanAdd(t, parent, name)
        <3>1. u.nodes[i].children = Put(t.nodes[i].children, name, k)
            BY <2>3, <1>2 DEF k
        <3>2. CASE x = name
            BY <3>1, <3>2, <2>3, <1>2, <1>5 DEF Put
        <3>3. CASE x # name
            BY <3>1, <3>3, <2>2 DEF Put
        <3> QED
            BY <3>2, <3>3
    <2> QED
        BY <2>1, <2>2, <2>3, <1>2
<1>8. u.next >= 3
    BY <1>1, <1>2, <1>3
<1> QED
    BY <1>2, <1>6, <1>7, <1>8 DEF TreeSound, u

\* delete, node by node: the node is gone, and its name out of its parent's children.
LEMMA DeleteIs ==
    ASSUME NEW t, TreeTyped(t), NEW i \in DOMAIN t.nodes, CanDelete(t, i)
    PROVE  LET u == Delete(t, i) IN
           /\ TreeTyped(u) /\ u.next = t.next
           /\ DOMAIN u.nodes = DOMAIN t.nodes \ {i}
           /\ \A j \in DOMAIN u.nodes : SameNode(u.nodes[j], t.nodes[j])
           /\ \A j \in DOMAIN u.nodes : j # t.nodes[i].parent => u.nodes[j] = t.nodes[j]
           /\ t.nodes[i].parent \in DOMAIN u.nodes =>
                u.nodes[t.nodes[i].parent].children =
                    Without(t.nodes[t.nodes[i].parent].children, t.nodes[i].name)
<1> DEFINE u == Delete(t, i)
           n == t.nodes[i]
           p == n.parent
           kids == Without(t.nodes[p].children, n.name)
           n1 == [t.nodes[p] EXCEPT !.children = kids]
           with1 == [t.nodes EXCEPT ![p] = n1]
           mid == IF p \in DOMAIN t.nodes THEN with1 ELSE t.nodes
<1>1. /\ t \in [nodes : Table(Inodes, NodeSet), next : Nat]
      /\ t.nodes \in Table(Inodes, NodeSet) /\ t.next \in Nat /\ DOMAIN t.nodes \subseteq 0 .. t.next - 1
      /\ t.next >= 1
    BY DEF TreeTyped
<1>2. u = [t EXCEPT !.nodes = Without(mid, i)]
    BY DEF Delete, Exists
<1>3. ASSUME p \in DOMAIN t.nodes
      PROVE  /\ with1 \in Table(Inodes, NodeSet) /\ DOMAIN with1 = DOMAIN t.nodes
             /\ with1[p].children = kids /\ SameNode(with1[p], t.nodes[p])
             /\ \A j \in DOMAIN t.nodes : j # p => with1[j] = t.nodes[j]
    <2>1. t.nodes[p] \in NodeSet
        BY <1>1, <1>3, TableIs
    <2>2. t.nodes[p].children \in Table(Labels, Nat)
        BY <2>1 DEF NodeSet
    <2>3. kids \in Table(Labels, Nat)
        BY <2>2, TableWithout
    <2> HIDE DEF kids
    <2>4. n1 \in NodeSet /\ n1.children = kids /\ SameNode(n1, t.nodes[p])
        BY <2>1, <2>3, NodeWithChildren
    <2> HIDE DEF n1
    <2>5. with1 \in Table(Inodes, NodeSet)
        BY <1>1, <1>3, <2>4, TableSet
    <2> QED
        BY <2>4, <2>5, <1>3
<1> HIDE DEF with1, kids, u
<1>4. /\ mid \in Table(Inodes, NodeSet) /\ DOMAIN mid = DOMAIN t.nodes
      /\ \A j \in DOMAIN t.nodes : j # p => mid[j] = t.nodes[j]
      /\ \A j \in DOMAIN t.nodes : SameNode(mid[j], t.nodes[j])
      /\ p \in DOMAIN t.nodes => mid[p].children = kids
    BY <1>1, <1>3 DEF SameNode
<1> HIDE DEF mid
<1>5. Without(mid, i) \in Table(Inodes, NodeSet)
    BY <1>4, TableWithout
<1>6. DOMAIN Without(mid, i) = DOMAIN t.nodes \ {i}
    BY <1>4 DEF Without, Restrict
<1>7. \A j \in DOMAIN t.nodes \ {i} : Without(mid, i)[j] = mid[j]
    BY <1>4 DEF Without, Restrict
<1> DEFINE w == Without(mid, i)
<1> HIDE DEF w
<1>8. u = [t EXCEPT !.nodes = w]
    BY <1>2 DEF w
<1>9. u.nodes = w /\ u.next = t.next /\ (w \in Table(Inodes, NodeSet) => u \in [nodes : Table(Inodes, NodeSet), next : Nat])
    BY <1>8, <1>1
<1>10. DOMAIN u.nodes = DOMAIN t.nodes \ {i} /\ \A j \in DOMAIN u.nodes : u.nodes[j] = mid[j]
    BY <1>6, <1>7, <1>9 DEF w
<1>11. TreeTyped(u)
    BY <1>1, <1>5, <1>9, <1>10 DEF TreeTyped, w
<1> HIDE DEF p, n
<1>12. /\ DOMAIN u.nodes = DOMAIN t.nodes \ {i}
       /\ \A j \in DOMAIN u.nodes : SameNode(u.nodes[j], t.nodes[j])
       /\ \A j \in DOMAIN u.nodes : j # p => u.nodes[j] = t.nodes[j]
       /\ p \in DOMAIN u.nodes => u.nodes[p].children = kids
    BY <1>4, <1>10
<1> QED
    BY <1>9, <1>11, <1>12 DEF u, p, n, kids

\* delete keeps a sound tree sound.
LEMMA DeleteSound ==
    ASSUME NEW t, TreeSound(t), NEW i \in DOMAIN t.nodes
    PROVE  TreeSound(Delete(t, i))
<1>1. TreeTyped(t) /\ t.next >= 3 /\ Standard(t.nodes) /\ NamesLead(t)
    BY DEF TreeSound
<1>2. CASE ~CanDelete(t, i)
    BY <1>2 DEF Delete
<1>3. CASE CanDelete(t, i)
    <2> DEFINE u == Delete(t, i)
               p == t.nodes[i].parent
               x0 == t.nodes[i].name
    <2>1. /\ TreeTyped(u) /\ u.next = t.next
          /\ DOMAIN u.nodes = DOMAIN t.nodes \ {i}
          /\ \A j \in DOMAIN u.nodes : SameNode(u.nodes[j], t.nodes[j])
          /\ \A j \in DOMAIN u.nodes : j # p => u.nodes[j] = t.nodes[j]
          /\ p \in DOMAIN u.nodes => u.nodes[p].children = Without(t.nodes[p].children, x0)
        BY <1>1, <1>3, DeleteIs
    <2> HIDE DEF u
    <2>2. Standard(u.nodes)
        BY <2>1, <1>1 DEF Standard, SameNode
    <2>3. NamesLead(u)
        <3> SUFFICES ASSUME NEW j \in DOMAIN u.nodes, NEW x \in DOMAIN u.nodes[j].children
                     PROVE  LET c == u.nodes[j].children[x]
                            IN  c \in DOMAIN u.nodes /\ u.nodes[c].name = x /\ u.nodes[c].parent = j
            BY DEF NamesLead, Exists
        <3>1. /\ x \in DOMAIN t.nodes[j].children /\ u.nodes[j].children[x] = t.nodes[j].children[x]
              /\ j = p => x # x0
            BY <2>1 DEF Without, Restrict
        <3> DEFINE c == t.nodes[j].children[x]
        <3>2. c \in DOMAIN t.nodes /\ t.nodes[c].name = x /\ t.nodes[c].parent = j
            BY <3>1, <2>1, <1>1 DEF NamesLead, Exists
        <3> HIDE DEF c
        <3>3. c # i
            BY <3>1, <3>2
        <3>4. c \in DOMAIN u.nodes /\ SameNode(u.nodes[c], t.nodes[c])
            BY <3>2, <3>3, <2>1
        <3> QED
            BY <3>1, <3>2, <3>4 DEF SameNode, c
    <2> QED
        BY <2>1, <2>2, <2>3, <1>1 DEF TreeSound, u
<1> QED
    BY <1>2, <1>3

\* Recording where the data of a node is, node by node.
LEMMA SetBlocksIs ==
    ASSUME NEW t, TreeTyped(t), NEW i \in DOMAIN t.nodes, NEW start \in Nat, NEW n \in 0 .. MaxLen
    PROVE  LET u == SetBlocks(t, i, start, n) IN
           /\ TreeTyped(u) /\ u.next = t.next /\ DOMAIN u.nodes = DOMAIN t.nodes
           /\ \A j \in DOMAIN t.nodes : j # i => u.nodes[j] = t.nodes[j]
           /\ u.nodes[i].dir = t.nodes[i].dir /\ u.nodes[i].name = t.nodes[i].name
           /\ u.nodes[i].parent = t.nodes[i].parent /\ u.nodes[i].children = t.nodes[i].children
           /\ u.nodes[i].start = start /\ u.nodes[i].count = n
<1> DEFINE u == SetBlocks(t, i, start, n)
           m == [t.nodes[i] EXCEPT !.start = start, !.count = n]
           w == [t.nodes EXCEPT ![i] = m]
<1>1. /\ t \in [nodes : Table(Inodes, NodeSet), next : Nat]
      /\ t.nodes \in Table(Inodes, NodeSet) /\ t.next \in Nat /\ DOMAIN t.nodes \subseteq 0 .. t.next - 1
      /\ t.next >= 1
    BY DEF TreeTyped
<1>2. t.nodes[i] \in NodeSet
    BY <1>1, TableIs
<1>3. m \in NodeSet
    BY <1>2 DEF NodeSet
<1>4. /\ m.dir = t.nodes[i].dir /\ m.name = t.nodes[i].name /\ m.parent = t.nodes[i].parent
      /\ m.children = t.nodes[i].children /\ m.start = start /\ m.count = n
    BY <1>2 DEF NodeSet
<1>5. u = [t EXCEPT !.nodes = w]
    BY <1>1, <1>2 DEF SetBlocks, Exists, NodeSet
<1> HIDE DEF m
<1>6. w \in Table(Inodes, NodeSet)
    BY <1>1, <1>3, TableSet
<1>7. DOMAIN w = DOMAIN t.nodes /\ w[i] = m /\ \A j \in DOMAIN t.nodes : j # i => w[j] = t.nodes[j]
    OBVIOUS
<1> HIDE DEF w, u
<1>8. u.nodes = w /\ u.next = t.next /\ u \in [nodes : Table(Inodes, NodeSet), next : Nat]
    BY <1>1, <1>5, <1>6
<1>9. TreeTyped(u)
    BY <1>1, <1>7, <1>8 DEF TreeTyped
<1> QED
    BY <1>4, <1>7, <1>8, <1>9 DEF u

\* ... keeps a sound tree sound, for any node but the root.
LEMMA SetBlocksSound ==
    ASSUME NEW t, TreeSound(t), NEW i, i # Root, NEW start \in Nat \ {0}, NEW n \in 0 .. MaxLen
    PROVE  TreeSound(SetBlocks(t, i, start, n))
<1> DEFINE u == SetBlocks(t, i, start, n)
<1>1. TreeTyped(t) /\ t.next >= 3 /\ Standard(t.nodes) /\ NamesLead(t)
    BY DEF TreeSound
<1>2. CASE i \notin DOMAIN t.nodes
    BY <1>2 DEF SetBlocks, Exists
<1>3. CASE i \in DOMAIN t.nodes
    <2>1. /\ TreeTyped(u) /\ u.next = t.next /\ DOMAIN u.nodes = DOMAIN t.nodes
          /\ \A j \in DOMAIN t.nodes : j # i => u.nodes[j] = t.nodes[j]
          /\ u.nodes[i].dir = t.nodes[i].dir /\ u.nodes[i].name = t.nodes[i].name
          /\ u.nodes[i].parent = t.nodes[i].parent /\ u.nodes[i].children = t.nodes[i].children
          /\ u.nodes[i].start = start /\ u.nodes[i].count = n
        BY <1>1, <1>3, SetBlocksIs
    <2> HIDE DEF u
    <2>2. Standard(u.nodes)
        BY <2>1, <1>1 DEF Standard, NoSector
    <2>3. NamesLead(u)
        BY <2>1, <1>1 DEF NamesLead, Exists
    <2> QED
        BY <2>1, <2>2, <2>3, <1>1 DEF TreeSound, u
<1> QED
    BY <1>2, <1>3

\* The tree of an empty disk.
LEMMA NewTreeIs ==
    /\ TreeSound(NewTree) /\ NewTree.next = 3 /\ DOMAIN NewTree.nodes = {Root, 1, 2}
    /\ \A i \in {Root, 1, 2} : NewTree.nodes[i].start = NoSector /\ NewTree.nodes[i].count = 0
<1> DEFINE yes == TRUE
           no == FALSE
           top == "/"
           dp == "p"
           fh == "h"
           root == Node(yes, top, NoInode)
           n0 == [i \in {Root} |-> root]
           t0 == [nodes |-> n0, next |-> 1]
           t1 == Create(t0, Root, dp, yes)
           t2 == Create(t1, 1, fh, no)
<1>1. /\ top \in Labels /\ dp \in Labels /\ fh \in Labels /\ yes \in BOOLEAN /\ no \in BOOLEAN
      /\ NoInode \in Int /\ Root \in Inodes /\ Root \in Int /\ 1 \in Int /\ Root # 1
    BY DEF Labels, NoInode, Root, Inodes
<1>2. NewTree = t2
    BY DEF NewTree
<1> HIDE DEF yes, no, top, dp, fh
<1>3. /\ root \in NodeSet /\ root.dir = yes /\ root.name = top /\ root.parent = NoInode
      /\ DOMAIN root.children = {} /\ root.start = NoSector /\ root.count = 0
    BY <1>1, NodeFields
<1> HIDE DEF root
<1>4. n0 \in Table(Inodes, NodeSet) /\ DOMAIN n0 = {Root} /\ n0[Root] = root
    <2>1. n0 \in [{Root} -> NodeSet] /\ {Root} \in SUBSET Inodes
        BY <1>1, <1>3
    <2> QED
        BY <2>1 DEF Table
<1> HIDE DEF n0
<1>5. TreeTyped(t0) /\ t0.nodes = n0 /\ t0.next = 1
    BY <1>4 DEF TreeTyped, Root
<1> HIDE DEF t0
<1>6. Root \in DOMAIN t0.nodes /\ CanAdd(t0, Root, dp)
    BY <1>3, <1>4, <1>5 DEF CanAdd, yes
<1>7. /\ TreeTyped(t1) /\ t1.next = t0.next + 1 /\ DOMAIN t1.nodes = DOMAIN t0.nodes \cup {t0.next}
      /\ t1.nodes[t0.next] = Node(yes, dp, Root)
      /\ \A i \in DOMAIN t0.nodes : SameNode(t1.nodes[i], t0.nodes[i])
      /\ CanAdd(t0, Root, dp) => t1.nodes[Root].children = Put(t0.nodes[Root].children, dp, t0.next)
    BY <1>1, <1>5, <1>6, CreateIs
<1>8. /\ t1.next = 2 /\ DOMAIN t1.nodes = {Root, 1} /\ t1.nodes[1] = Node(yes, dp, Root)
      /\ SameNode(t1.nodes[Root], root) /\ t1.nodes[Root].children = Put(root.children, dp, 1)
    BY <1>4, <1>5, <1>6, <1>7
<1> HIDE DEF t1
<1>9. /\ t1.nodes[1].dir = yes /\ t1.nodes[1].name = dp /\ t1.nodes[1].parent = Root
      /\ DOMAIN t1.nodes[1].children = {} /\ t1.nodes[1].start = NoSector /\ t1.nodes[1].count = 0
    BY <1>1, <1>8, NodeFields
<1>10. 1 \in DOMAIN t1.nodes /\ CanAdd(t1, 1, fh)
    BY <1>8, <1>9 DEF CanAdd, yes
<1>11. /\ TreeTyped(t2) /\ t2.next = t1.next + 1 /\ DOMAIN t2.nodes = DOMAIN t1.nodes \cup {t1.next}
       /\ t2.nodes[t1.next] = Node(no, fh, 1)
       /\ \A i \in DOMAIN t1.nodes : SameNode(t2.nodes[i], t1.nodes[i])
       /\ \A i \in DOMAIN t1.nodes : i # 1 => t2.nodes[i] = t1.nodes[i]
       /\ CanAdd(t1, 1, fh) => t2.nodes[1].children = Put(t1.nodes[1].children, fh, t1.next)
    BY <1>1, <1>7, <1>10, CreateIs
<1>12. /\ t2.next = 3 /\ DOMAIN t2.nodes = {Root, 1, 2} /\ t2.nodes[2] = Node(no, fh, 1)
       /\ SameNode(t2.nodes[1], t1.nodes[1]) /\ t2.nodes[Root] = t1.nodes[Root]
       /\ t2.nodes[1].children = Put(t1.nodes[1].children, fh, 2)
    BY <1>1, <1>8, <1>10, <1>11
<1> HIDE DEF t2
<1>13. /\ t2.nodes[2].name = fh /\ t2.nodes[2].parent = 1 /\ DOMAIN t2.nodes[2].children = {}
       /\ t2.nodes[2].start = NoSector /\ t2.nodes[2].count = 0
    BY <1>1, <1>12, NodeFields
<1>14. Standard(t2.nodes)
    <2>1. /\ t2.nodes[Root].name = "/" /\ t2.nodes[Root].parent = NoInode /\ t2.nodes[Root].dir = TRUE
          /\ t2.nodes[Root].start = NoSector /\ t2.nodes[Root].count = 0
        BY <1>3, <1>8, <1>12 DEF SameNode, yes, top
    <2>2. t2.nodes[1].name = "p" /\ t2.nodes[1].parent = Root /\ t2.nodes[1].count = 0
        BY <1>9, <1>12 DEF SameNode, dp
    <2>3. t2.nodes[2].name = "h" /\ t2.nodes[2].parent = 1 /\ t2.nodes[2].count = 0
        BY <1>13 DEF fh
    <2>4. \A i \in DOMAIN t2.nodes : ~(t2.nodes[i].count > 0)
        BY <2>1, <2>2, <2>3, <1>12
    <2> QED
        BY <2>1, <2>2, <2>3, <2>4 DEF Standard
<1>15. /\ DOMAIN t2.nodes[Root].children = {dp} /\ t2.nodes[Root].children[dp] = 1
       /\ DOMAIN t2.nodes[1].children = {fh} /\ t2.nodes[1].children[fh] = 2
    BY <1>3, <1>8, <1>9, <1>12 DEF Put
<1>16. NamesLead(t2)
    BY <1>9, <1>12, <1>13, <1>15 DEF NamesLead, Exists, SameNode
<1>17. TreeSound(t2)
    BY <1>11, <1>12, <1>14, <1>16 DEF TreeSound
<1> QED
    BY <1>2, <1>3, <1>8, <1>9, <1>12, <1>13, <1>17 DEF SameNode

\* The saved nodes are those of a sound tree.
SavedSound(nodes) == \E b \in Nat : TreeSound([nodes |-> nodes, next |-> b])

\* load_from_file, node by node, and that it makes a sound tree of what a sound one saved.
LEMMA LoadIs ==
    ASSUME NEW nodes, SavedSound(nodes)
    PROVE  LET u == Load(nodes) IN
           /\ TreeSound(u)
           /\ DOMAIN u.nodes = {Root, 1, 2} \cup DOMAIN nodes
           /\ \A i \in DOMAIN nodes : i # Root => u.nodes[i] = nodes[i]
           /\ Root \in DOMAIN nodes => u.nodes[Root].children = nodes[Root].children
           /\ \A i \in DOMAIN u.nodes :
                i \notin DOMAIN nodes => u.nodes[i].start = NoSector /\ u.nodes[i].count = 0
<1>1. PICK b \in Nat : TreeSound([nodes |-> nodes, next |-> b])
    BY DEF SavedSound
<1> DEFINE s == [nodes |-> nodes, next |-> b]
           new == NewTree.nodes
           c0 == IF Root \in DOMAIN nodes THEN nodes[Root].children ELSE new[Root].children
           r == [new[Root] EXCEPT !.children = c0]
           D == {Root, 1, 2} \cup DOMAIN nodes
           f == [i \in D |-> IF i = Root THEN r ELSE IF i \in DOMAIN nodes THEN nodes[i] ELSE new[i]]
           M == {3} \cup {i + 1 : i \in DOMAIN nodes}
           u == Load(nodes)
<1>2. s.nodes = nodes /\ s.next = b
    OBVIOUS
<1>3. TreeTyped(s) /\ Standard(nodes) /\ NamesLead(s)
    BY <1>1, <1>2 DEF TreeSound
<1>4. nodes \in Table(Inodes, NodeSet) /\ DOMAIN nodes \subseteq 0 .. b - 1
    BY <1>2, <1>3 DEF TreeTyped
<1>5. /\ TreeTyped(NewTree) /\ Standard(new) /\ NamesLead(NewTree) /\ NewTree.next = 3
      /\ DOMAIN new = {Root, 1, 2}
      /\ \A i \in {Root, 1, 2} : new[i].start = NoSector /\ new[i].count = 0
    BY NewTreeIs DEF TreeSound
<1>6. new \in Table(Inodes, NodeSet)
    BY <1>5 DEF TreeTyped
<1>7. (\A i \in DOMAIN nodes : nodes[i] \in NodeSet /\ i \in Nat) /\ \A i \in DOMAIN new : new[i] \in NodeSet
    BY <1>4, <1>6, TableIs
<1>8. c0 \in Table(Labels, Nat)
    BY <1>5, <1>7 DEF NodeSet
<1>9. u = [nodes |-> f, next |-> SetMax(M)]
    <2>1. DOMAIN new \cup DOMAIN nodes = D
        BY <1>5
    <2>2. [new[Root] EXCEPT !.children = IF Root \in DOMAIN nodes THEN nodes[Root].children ELSE @] = r
        BY <1>5, <1>7 DEF NodeSet
    <2> QED
        BY <2>1, <2>2, <1>5 DEF Load
<1> HIDE DEF c0, new, u
<1>10. r \in NodeSet /\ r.children = c0 /\ SameNode(r, new[Root])
    BY <1>5, <1>7, <1>8, NodeWithChildren
<1> HIDE DEF r
<1>11. /\ DOMAIN f = D /\ f[Root] = r
       /\ \A i \in DOMAIN nodes : i # Root => f[i] = nodes[i]
       /\ \A i \in {1, 2} : i \notin DOMAIN nodes => f[i] = new[i]
    BY DEF Root
<1>12. f \in Table(Inodes, NodeSet)
    <2>1. D \in SUBSET Inodes
        BY <1>7 DEF Inodes, Root
    <2>2. f \in [D -> NodeSet]
        BY <1>5, <1>7, <1>10
    <2> HIDE DEF f, D
    <2> QED
        BY <2>1, <2>2 DEF Table
<1>13. SetMax(M) \in Nat /\ \A x \in M : x <= SetMax(M)
    <2>1. M \in SUBSET Nat /\ M # {} /\ b + 3 \in Nat /\ \A x \in M : x <= b + 3
        BY <1>4, <1>7
    <2> HIDE DEF M
    <2> QED
        BY <2>1, GreatestExists
<1>14. SetMax(M) >= 3 /\ D \subseteq 0 .. SetMax(M) - 1
    <2>1. 3 <= SetMax(M)
        BY <1>13
    <2>2. \A i \in DOMAIN nodes : i + 1 \in M
        OBVIOUS
    <2>3. \A i \in DOMAIN nodes : i + 1 <= SetMax(M)
        BY <2>2, <1>13
    <2> DEFINE k == SetMax(M)
    <2>4. k \in Nat /\ k >= 3 /\ \A i \in DOMAIN nodes : i \in Nat /\ i + 1 <= k
        BY <2>1, <2>3, <1>7, <1>13
    <2> HIDE DEF k, M
    <2> QED
        BY <2>4 DEF Root, k
<1> DEFINE k == SetMax(M)
<1> HIDE DEF f, D, k
<1>15. u.nodes = f /\ u.next = k /\ u = [nodes |-> f, next |-> k]
    BY <1>9 DEF k
<1>16. k \in Nat /\ k >= 3 /\ D \subseteq 0 .. k - 1
    BY <1>13, <1>14 DEF k
<1>17. TreeTyped(u) /\ u.next >= 3
    <2>1. u \in [nodes : Table(Inodes, NodeSet), next : Nat]
        BY <1>12, <1>15, <1>16
    <2>2. DOMAIN u.nodes = D /\ u.next = k
        BY <1>11, <1>15
    <2> QED
        BY <2>1, <2>2, <1>16 DEF TreeTyped
<1>18. \A i \in {1, 2} : f[i].name = new[i].name /\ f[i].parent = new[i].parent
    BY <1>3, <1>5, <1>11 DEF Standard, Root
<1>19. \A i \in D : i \notin DOMAIN nodes => f[i].start = NoSector /\ f[i].count = 0
    BY <1>5, <1>10, <1>11 DEF SameNode, D
<1>20. Standard(f)
    <2>1. Root \in DOMAIN new
        BY <1>5
    <2>2. f[Root].name = "/" /\ f[Root].parent = NoInode /\ f[Root].dir
          /\ f[Root].start = NoSector /\ f[Root].count = 0
        BY <2>1, <1>5, <1>10, <1>11 DEF Standard, SameNode
    <2>3. \A i \in D : f[i].count > 0 => f[i].start # NoSector
        BY <2>2, <1>3, <1>11, <1>19 DEF Standard, Root
    <2>4. f[1].name = "p" /\ f[1].parent = Root /\ f[2].name = "h" /\ f[2].parent = 1
        BY <1>5, <1>18 DEF Standard
    <2> QED
        BY <2>2, <2>3, <2>4, <1>11 DEF Standard
<1>21. NamesLead(u)
    <2> SUFFICES ASSUME NEW i \in D, NEW x \in DOMAIN f[i].children
                 PROVE  LET c == f[i].children[x]
                        IN  c \in D /\ f[c].name = x /\ f[c].parent = i
        BY <1>11, <1>15 DEF NamesLead, Exists
    <2> DEFINE c == f[i].children[x]
    <2>1. CASE i \in DOMAIN nodes
        <3>1. x \in DOMAIN nodes[i].children /\ c = nodes[i].children[x]
            BY <2>1, <1>10, <1>11 DEF c0
        <3>2. c \in DOMAIN nodes /\ nodes[c].name = x /\ nodes[c].parent = i
            BY <2>1, <3>1, <1>2, <1>3 DEF NamesLead, Exists
        <3>3. c # Root
            BY <3>2, <2>1, <1>3, <1>7 DEF Standard, NoInode
        <3> QED
            BY <3>2, <3>3, <1>11 DEF D
    <2>2. CASE i \notin DOMAIN nodes
        <3>1. i \in DOMAIN new
            BY <2>2, <1>5 DEF D
        <3>2. x \in DOMAIN new[i].children /\ c = new[i].children[x]
            BY <2>2, <1>5, <3>1, <1>10, <1>11 DEF c0
        <3>3. c \in DOMAIN new /\ new[c].name = x /\ new[c].parent = i
            BY <3>1, <3>2, <1>5 DEF NamesLead, Exists, new
        <3>4. c # Root
            BY <3>1, <3>3, <1>5 DEF Standard, NoInode, Root
        <3> QED
            BY <3>3, <3>4, <1>5, <1>18 DEF D
    <2> QED
        BY <2>1, <2>2
<1> QED
    BY <1>10, <1>11, <1>15, <1>17, <1>19, <1>20, <1>21 DEF TreeSound, c0, D, u

\* lookup_path finds a node, or nothing.
LEMMA LookupExists ==
    ASSUME NEW t, NEW path \in Seq(Labels), Lookup(t, path) # NoInode
    PROVE  Lookup(t, path) \in DOMAIN t.nodes
<1> DEFINE w == CHOOSE walk \in Walks(t, path) : TRUE
<1>1. Root \in DOMAIN t.nodes /\ Walks(t, path) # {} /\ Lookup(t, path) = At(w, Len(path))
    BY DEF Lookup, Exists
<1>2. w \in Walks(t, path)
    BY <1>1
<1> HIDE DEF w
<1>3. w \in [1 .. Len(path) -> DOMAIN t.nodes] /\ Len(path) \in Nat
    BY <1>2 DEF Walks
<1> QED
    BY <1>1, <1>3 DEF At

\* Two walks along one path pass the same nodes.
LEMMA OneWalk ==
    ASSUME NEW t, NEW path \in Seq(Labels), NEW v \in Walks(t, path), NEW w \in Walks(t, path)
    PROVE  v = w
<1> DEFINE n == Len(path)
           S == {k \in 1 .. n : v[k] # w[k]}
<1>1. /\ v \in [1 .. n -> DOMAIN t.nodes] /\ w \in [1 .. n -> DOMAIN t.nodes] /\ n \in Nat
      /\ \A k \in 1 .. n : /\ t.nodes[At(v, k - 1)].children[path[k]] = v[k]
                           /\ t.nodes[At(w, k - 1)].children[path[k]] = w[k]
    BY DEF Walks
<1>2. S = {}
    <2> SUFFICES ASSUME S # {} PROVE FALSE
        OBVIOUS
    <2>1. S \in SUBSET Nat
        BY <1>1
    <2> HIDE DEF S
    <2>2. PICK k \in S : \A j \in S : k <= j
        BY <2>1, LeastExists
    <2>3. k \in 1 .. n /\ v[k] # w[k] /\ k - 1 \notin S
        BY <2>1, <2>2, <1>1 DEF S
    <2>4. At(v, k - 1) = At(w, k - 1)
        BY <2>3, <1>1 DEF At, S
    <2> QED
        BY <2>3, <2>4, <1>1
<1> QED
    BY <1>1, <1>2

\* Where a walk ends is what the path leads to.
LEMMA LookupIs ==
    ASSUME NEW t, NEW path \in Seq(Labels), Root \in DOMAIN t.nodes, NEW w \in Walks(t, path)
    PROVE  Lookup(t, path) = At(w, Len(path))
<1> DEFINE v == CHOOSE walk \in Walks(t, path) : TRUE
<1>1. v \in Walks(t, path)
    OBVIOUS
<1>2. Lookup(t, path) = At(v, Len(path))
    BY DEF Lookup, Exists
<1> HIDE DEF v
<1> QED
    BY <1>1, <1>2, OneWalk

\* A path that is not the root's does not lead to the root.
LEMMA LookupBelow ==
    ASSUME NEW t, TreeSound(t), NEW path \in Seq(Labels), path # <<>>, Lookup(t, path) # NoInode
    PROVE  Lookup(t, path) # Root
<1> DEFINE w == CHOOSE walk \in Walks(t, path) : TRUE
           n == Len(path)
<1>1. Root \in DOMAIN t.nodes /\ Walks(t, path) # {} /\ Lookup(t, path) = At(w, n)
    BY DEF Lookup, Exists
<1>2. w \in Walks(t, path)
    BY <1>1
<1> HIDE DEF w
<1>3. /\ w \in [1 .. n -> DOMAIN t.nodes] /\ n \in Nat /\ n # 0
      /\ \A k \in 1 .. n : LET children == t.nodes[At(w, k - 1)].children
                          IN  path[k] \in DOMAIN children /\ children[path[k]] = w[k]
    BY <1>2 DEF Walks
<1> HIDE DEF n
<1>4. At(w, n - 1) \in DOMAIN t.nodes
    BY <1>1, <1>3 DEF At
<1> DEFINE p == At(w, n - 1)
           x == path[n]
<1>5. x \in DOMAIN t.nodes[p].children /\ t.nodes[p].children[x] = w[n] /\ At(w, n) = w[n]
    BY <1>3 DEF At
<1> HIDE DEF p, x
<1>6. t.nodes[w[n]].parent = p
    BY <1>4, <1>5 DEF TreeSound, NamesLead, p
<1>7. p \in Nat
    BY <1>4 DEF TreeSound, TreeTyped, p
<1> QED
    BY <1>1, <1>5, <1>6, <1>7 DEF TreeSound, Standard, NoInode

\* The parent and the name a path splits into.
LEMMA SplitPath ==
    ASSUME NEW path \in Seq(Labels)
    PROVE  Front(path) \in Seq(Labels) /\ Last(path) \in Labels
<1>1. CASE path = <<>>
    <2>1. Front(path) = <<>> /\ Last(path) = "/"
        BY <1>1 DEF Front, Last
    <2>2. "/" \in Labels
        BY DEF Labels
    <2> QED
        BY <1>1, <2>1, <2>2
<1>2. CASE path # <<>>
    <2>1. Len(path) \in Nat /\ Len(path) # 0
        BY <1>2
    <2> QED
        BY <1>2, <2>1 DEF Front, Last
<1> QED
    BY <1>1, <1>2

\* Paths are sequences of labels.
LEMMA PathLabels ==
    /\ \A path \in Paths : path \in Seq(Labels)
    /\ Host \in Seq(Labels) /\ Host # <<>>
<1>1. \A path \in Seq(Names) : path \in Seq(Labels)
    <2> SUFFICES ASSUME NEW path \in Seq(Names) PROVE path \in Seq(Labels)
        OBVIOUS
    <2>1. path \in [1 .. Len(path) -> Labels] /\ Len(path) \in Nat
        BY DEF Labels
    <2> QED
        BY <2>1
<1>2. "p" \in Labels /\ "h" \in Labels
    BY DEF Labels
<1>3. <<"p", "h">> \in Seq(Labels)
    BY <1>2
<1> QED
    BY <1>1, <1>3, FileAssumption DEF Host

------------------------------------------------------------------------------
(* The disk.                                                                 *)

\* The first free run is a run of free sectors.
LEMMA FirstRunIs ==
    ASSUME NEW u, NEW n \in Nat, HasRun(u, n)
    PROVE  FirstRun(u, n) \in Sectors /\ Run(FirstRun(u, n), n) \subseteq Sectors \ u
<1> DEFINE S == FreeRuns(u, n)
<1>1. S \in SUBSET Nat /\ S # {}
    BY NSectorsAssumption DEF FreeRuns, HasRun, Sectors
<1> HIDE DEF S
<1>2. \E m \in S : \A x \in S : m <= x
    BY <1>1, LeastExists
<1>3. FirstRun(u, n) \in S
    BY <1>2 DEF FirstRun, S
<1> QED
    BY <1>3 DEF S, FreeRuns

------------------------------------------------------------------------------
(* The service's tables.                                                     *)

FileSet == [len : 0 .. MaxLen, pos : Nat, mode : Modes, dirty : BOOLEAN, start : Nat, count : 0 .. MaxLen]

\* What the operations of file.rs return.
LEMMA FileOps ==
    /\ \A n \in NodeSet, mode \in Modes :
         /\ LoadFile(n, mode) \in FileSet /\ ~LoadFile(n, mode).dirty
         /\ LoadFile(n, mode).start = n.start /\ LoadFile(n, mode).count = n.count
    /\ \A f \in FileSet, n \in Nat :
         /\ ReadFile(f, n) \in FileSet /\ ReadFile(f, n).dirty = f.dirty
         /\ ReadFile(f, n).start = f.start /\ ReadFile(f, n).count = f.count
    /\ \A f \in FileSet, n \in Nat : WritePos(f) + n <= MaxLen => WriteFile(f, n) \in FileSet
    /\ \A f \in FileSet : \A u : HasRun(u, f.len) =>
         /\ Synced(f, u) \in FileSet /\ ~Synced(f, u).dirty
         /\ Synced(f, u).start = FirstRun(u, f.len) /\ Synced(f, u).count = f.len
    /\ \A f \in FileSet, mode \in Modes, pos \in Nat :
         /\ [f EXCEPT !.mode = mode, !.pos = pos] \in FileSet
         /\ [f EXCEPT !.mode = mode, !.pos = pos].dirty = f.dirty
         /\ [f EXCEPT !.mode = mode, !.pos = pos].start = f.start
         /\ [f EXCEPT !.mode = mode, !.pos = pos].count = f.count
         /\ [f EXCEPT !.pos = pos] \in FileSet /\ [f EXCEPT !.pos = pos].dirty = f.dirty
         /\ [f EXCEPT !.pos = pos].start = f.start /\ [f EXCEPT !.pos = pos].count = f.count
<1>1. MaxLen \in Nat
    BY FileAssumption
<1>2. ASSUME NEW n \in NodeSet, NEW mode \in Modes
      PROVE  /\ LoadFile(n, mode) \in FileSet /\ ~LoadFile(n, mode).dirty
             /\ LoadFile(n, mode).start = n.start /\ LoadFile(n, mode).count = n.count
    <2>1. n.count \in 0 .. MaxLen /\ n.start \in Nat
        BY DEF NodeSet
    <2> DEFINE g == NewFile(mode)
    <2>2. g \in FileSet /\ ~g.dirty
        BY <1>1 DEF NewFile, FileSet, NoSector
    <2>3. LoadFile(n, mode) = [g EXCEPT !.len = n.count, !.start = n.start, !.count = n.count]
        BY DEF LoadFile
    <2> HIDE DEF g
    <2> QED
        BY <2>1, <2>2, <2>3 DEF FileSet
<1>3. ASSUME NEW f \in FileSet, NEW n \in Nat
      PROVE  /\ ReadFile(f, n) \in FileSet /\ ReadFile(f, n).dirty = f.dirty
             /\ ReadFile(f, n).start = f.start /\ ReadFile(f, n).count = f.count
    <2>1. f.pos \in Nat /\ f.len \in Nat
        BY <1>1 DEF FileSet
    <2> DEFINE pos == IF f.pos >= f.len THEN f.pos ELSE IF f.pos + n < f.len THEN f.pos + n ELSE f.len
    <2>2. pos \in Nat /\ ReadFile(f, n) = [f EXCEPT !.pos = pos]
        BY <2>1 DEF ReadFile, FileSet
    <2> HIDE DEF pos
    <2> QED
        BY <2>2 DEF FileSet
<1>4. ASSUME NEW f \in FileSet, NEW n \in Nat, WritePos(f) + n <= MaxLen
      PROVE  WriteFile(f, n) \in FileSet
    <2>1. f.pos \in Nat /\ f.len \in 0 .. MaxLen /\ WritePos(f) \in Nat
        BY <1>1 DEF FileSet, WritePos
    <2> DEFINE pos == WritePos(f) + n
               len == IF WritePos(f) + n > f.len THEN WritePos(f) + n ELSE f.len
    <2>2. pos \in Nat /\ len \in 0 .. MaxLen
        BY <2>1, <1>1, <1>4
    <2>3. WriteFile(f, n) = [f EXCEPT !.pos = pos, !.dirty = TRUE, !.len = len]
        BY DEF WriteFile, FileSet
    <2> HIDE DEF pos, len
    <2> QED
        BY <2>2, <2>3 DEF FileSet
<1>5. ASSUME NEW f \in FileSet, NEW u, HasRun(u, f.len)
      PROVE  /\ Synced(f, u) \in FileSet /\ ~Synced(f, u).dirty
             /\ Synced(f, u).start = FirstRun(u, f.len) /\ Synced(f, u).count = f.len
    <2> DEFINE s == FirstRun(u, f.len)
    <2>1. f.len \in 0 .. MaxLen /\ f.len \in Nat
        BY <1>1 DEF FileSet
    <2>2. s \in Nat
        BY <2>1, <1>5, FirstRunIs, NSectorsAssumption DEF Sectors
    <2>3. Synced(f, u) = [f EXCEPT !.start = s, !.count = f.len, !.dirty = FALSE]
        BY DEF Synced
    <2> HIDE DEF s
    <2>4. Synced(f, u) \in FileSet /\ Synced(f, u).start = s /\ Synced(f, u).count = f.len /\ ~Synced(f, u).dirty
        BY <2>1, <2>2, <2>3 DEF FileSet
    <2> QED
        BY <2>4 DEF s
<1>6. ASSUME NEW f \in FileSet, NEW mode \in Modes, NEW pos \in Nat
      PROVE  /\ [f EXCEPT !.mode = mode, !.pos = pos] \in FileSet
             /\ [f EXCEPT !.mode = mode, !.pos = pos].dirty = f.dirty
             /\ [f EXCEPT !.mode = mode, !.pos = pos].start = f.start
             /\ [f EXCEPT !.mode = mode, !.pos = pos].count = f.count
             /\ [f EXCEPT !.pos = pos] \in FileSet /\ [f EXCEPT !.pos = pos].dirty = f.dirty
             /\ [f EXCEPT !.pos = pos].start = f.start /\ [f EXCEPT !.pos = pos].count = f.count
    BY DEF FileSet
<1> QED
    BY <1>2, <1>3, <1>4, <1>5, <1>6

\* The inductive invariant behind the type invariant and the tree: the tree is sound, and
\* so is what was saved of one; cached files are files of inodes handed out, never the
\* root's, and descriptors name cached files; a service that is down has none.
FileInv ==
    /\ TreeSound(tree)
    /\ files \in Table(Inodes, FileSet) /\ DOMAIN files \subseteq 1 .. tree.next - 1
    /\ \A fd \in DOMAIN fds : fd \in Nat /\ fd < nextFd /\ fds[fd] \in DOMAIN files
    /\ nextFd \in Nat /\ nextFd >= FirstFd
    /\ used \subseteq Sectors
    /\ SavedSound(saved.nodes)
    /\ phase \in {"down", "idle", "sync", "save"}
    /\ IF phase = "sync" THEN current \in DOMAIN files ELSE current = NoInode
    /\ phase = "down" => DOMAIN files = {} /\ DOMAIN fds = {}

\* An unreadable file holds no nodes, which is sound.
LEMMA UnreadableSound == SavedSound(Unreadable.nodes)
<1> DEFINE s == [nodes |-> <<>>, next |-> 3]
<1>1. Unreadable.nodes = <<>> /\ s.nodes = <<>> /\ s.next = 3 /\ DOMAIN <<>> = {}
    BY DEF Unreadable
<1>2. <<>> \in Table(Inodes, NodeSet)
    BY TableEmpty
<1>3. TreeTyped(s)
    BY <1>1, <1>2 DEF TreeTyped
<1>4. Standard(<<>>) /\ NamesLead(s)
    BY <1>1 DEF Standard, NamesLead
<1>5. TreeSound(s)
    BY <1>1, <1>3, <1>4 DEF TreeSound
<1> QED
    BY <1>1, <1>5 DEF SavedSound

\* It holds at the first start.
LEMMA FileInitInv == FileInit => FileInv
<1> SUFFICES ASSUME FileInit PROVE FileInv
    OBVIOUS
<1>1. TreeSound(tree)
    BY NewTreeIs DEF FileInit
<1>2. files \in Table(Inodes, FileSet) /\ DOMAIN files = {} /\ DOMAIN fds = {}
    BY TableEmpty DEF FileInit
<1>3. SavedSound(saved.nodes)
    BY UnreadableSound DEF FileInit
<1> QED
    BY <1>1, <1>2, <1>3 DEF FileInit, FileInv, FirstFd

\* Opening a node of a tree that grew out of the service's.
LEMMA OpenNodeKeeps ==
    ASSUME FileInv, NEW t, TreeSound(t), t.next >= tree.next, NEW i \in DOMAIN t.nodes, i # Root,
           NEW mode \in Modes, OpenNode(t, i, mode)
    PROVE  /\ TreeSound(tree')
           /\ files' \in Table(Inodes, FileSet) /\ DOMAIN files' \subseteq 1 .. tree'.next - 1
           /\ \A fd \in DOMAIN fds' : fd \in Nat /\ fd < nextFd' /\ fds'[fd] \in DOMAIN files'
           /\ nextFd' \in Nat /\ nextFd' >= FirstFd
<1>1. tree' = t /\ AllocateFd(i)
    BY DEF OpenNode
<1>2. /\ t.next \in Nat /\ tree.next \in Nat /\ DOMAIN t.nodes \subseteq 0 .. t.next - 1
      /\ t.nodes \in Table(Inodes, NodeSet) /\ t.nodes[i] \in NodeSet
    BY TableIs DEF FileInv, TreeSound, TreeTyped
<1>3. files \in Table(Inodes, FileSet) /\ DOMAIN files \subseteq 1 .. tree.next - 1
    BY DEF FileInv
<1>4. files' \in Table(Inodes, FileSet) /\ DOMAIN files' = DOMAIN files \cup {i}
    <2>1. CASE i \in DOMAIN files
        <3> DEFINE g == [files[i] EXCEPT !.mode = mode, !.pos = 0]
        <3>1. files[i] \in FileSet
            BY <2>1, <1>3, TableIs
        <3>2. g \in FileSet
            BY <3>1, FileOps
        <3>3. files' = [files EXCEPT ![i] = g]
            BY <2>1, <3>1 DEF OpenNode, FileSet
        <3> HIDE DEF g
        <3>4. [files EXCEPT ![i] = g] \in Table(Inodes, FileSet)
            BY <2>1, <3>2, <1>3, TableSet
        <3> QED
            BY <2>1, <3>3, <3>4
    <2>2. CASE i \notin DOMAIN files
        <3> DEFINE g == LoadFile(t.nodes[i], mode)
        <3>1. g \in FileSet /\ i \in Inodes
            <4>1. i \in Inodes
                BY <1>2 DEF Inodes
            <4> QED
                BY <4>1, <1>2, FileOps
        <3>2. files' = Put(files, i, g)
            BY <2>2 DEF OpenNode
        <3> HIDE DEF g
        <3>3. Put(files, i, g) \in Table(Inodes, FileSet)
            BY <3>1, <1>3, TablePut
        <3>4. DOMAIN Put(files, i, g) = DOMAIN files \cup {i}
            BY DEF Put
        <3> QED
            BY <3>2, <3>3, <3>4
    <2> QED
        BY <2>1, <2>2
<1>5. DOMAIN files' \subseteq 1 .. tree'.next - 1
    BY <1>1, <1>2, <1>3, <1>4 DEF Root
<1>6. /\ \A fd \in DOMAIN fds : fd \in Nat /\ fd < nextFd /\ fds[fd] \in DOMAIN files
      /\ nextFd \in Nat /\ nextFd >= FirstFd
    BY DEF FileInv
<1>7. /\ \A fd \in DOMAIN fds' : fd \in Nat /\ fd < nextFd' /\ fds'[fd] \in DOMAIN files'
      /\ nextFd' \in Nat /\ nextFd' >= FirstFd
    <2>1. CASE nextFd >= MaxFd
        BY <2>1, <1>1, <1>4, <1>6 DEF AllocateFd
    <2>2. CASE ~(nextFd >= MaxFd)
        <3>1. fds' = Put(fds, nextFd, i) /\ nextFd' = nextFd + 1
            BY <2>2, <1>1 DEF AllocateFd
        <3>2. nextFd' \in Nat /\ nextFd < nextFd' /\ nextFd' >= FirstFd
            BY <3>1, <1>6 DEF FirstFd
        <3>3. \A fd \in DOMAIN fds : fd < nextFd'
            BY <3>1, <1>6
        <3> QED
            BY <3>1, <3>2, <3>3, <1>4, <1>6 DEF Put
    <2> QED
        BY <2>1, <2>2
<1> QED
    BY <1>1, <1>4, <1>5, <1>7

\* The tree a restart begins with is sound.
LEMMA ImportedSound ==
    ASSUME SavedSound(saved.nodes)
    PROVE  /\ TreeSound(Booted) /\ TreeSound(Imported(Booted))
           /\ Lookup(Imported(Booted), Host) # NoInode =>
                 /\ Lookup(Imported(Booted), Host) \in DOMAIN Imported(Booted).nodes
                 /\ Lookup(Imported(Booted), Host) # Root
<1> DEFINE b == Booted
           t == Imported(b)
           p == Lookup(b, Front(Host))
<1>1. TreeSound(b)
    BY LoadIs, NewTreeIs DEF Booted
<1> HIDE DEF b
<1>2. Host \in Seq(Labels) /\ Host # <<>> /\ Front(Host) \in Seq(Labels) /\ Last(Host) \in Labels
    BY PathLabels, SplitPath
<1>3. TreeSound(t)
    <2>1. CASE t = b
        BY <2>1, <1>1
    <2>2. CASE p # NoInode /\ t = Create(b, p, Last(Host), FALSE)
        <3>1. p \in DOMAIN b.nodes /\ FALSE \in BOOLEAN
            BY <2>2, <1>2, LookupExists
        <3> DEFINE no == FALSE
        <3>2. no \in BOOLEAN /\ t = Create(b, p, Last(Host), no)
            BY <2>2
        <3> HIDE DEF no
        <3> QED
            BY <3>1, <3>2, <1>1, <1>2, CreateSound
    <2> QED
        BY <2>1, <2>2 DEF Imported
<1> HIDE DEF t
<1>4. Lookup(t, Host) # NoInode => Lookup(t, Host) \in DOMAIN t.nodes /\ Lookup(t, Host) # Root
    BY <1>2, <1>3, LookupExists, LookupBelow
<1> QED
    BY <1>1, <1>3, <1>4 DEF t, b

\* A request that leaves the cache and the descriptors alone and the tree sound.
LEMMA TreeRequest ==
    ASSUME FileInv, phase = "idle", phase' = "save", TreeSound(tree'), tree'.next >= tree.next,
           UNCHANGED <<files, fds, nextFd>>, Quiet
    PROVE  FileInv'
<1>1. tree.next \in Nat /\ tree'.next \in Nat
    BY DEF FileInv, TreeSound, TreeTyped
<1>2. DOMAIN files \subseteq 1 .. tree'.next - 1
    BY <1>1 DEF FileInv
<1> QED
    BY <1>2 DEF FileInv, Quiet

\* A request that changes a cached file.
LEMMA FileRequest ==
    ASSUME FileInv, NEW i \in DOMAIN files, NEW g \in FileSet, files' = [files EXCEPT ![i] = g],
           UNCHANGED <<tree, fds, nextFd, saved>>, used' \subseteq Sectors,
           \/ phase' = "save" /\ current' = NoInode
           \/ phase' = "sync" /\ current' \in DOMAIN files
    PROVE  FileInv'
<1>1. files' \in Table(Inodes, FileSet) /\ DOMAIN files' = DOMAIN files
    BY TableSet DEF FileInv
<1> QED
    BY <1>1 DEF FileInv

\* Every step keeps it.
LEMMA FileStep == FileInv /\ [FileNext]_fileVars => FileInv'
<1> SUFFICES ASSUME FileInv, [FileNext]_fileVars PROVE FileInv'
    OBVIOUS
<1>0. /\ TreeSound(tree) /\ tree.next \in Nat
      /\ files \in Table(Inodes, FileSet) /\ \A i \in DOMAIN files : files[i] \in FileSet
      /\ \A fd \in DOMAIN fds : fds[fd] \in DOMAIN files
      /\ used \subseteq Sectors /\ SavedSound(saved.nodes)
    BY TableIs DEF FileInv, TreeSound, TreeTyped
<1>a. \A i \in DOMAIN files : i \in Nat /\ i # Root
    BY <1>0 DEF FileInv, Root
<1>b. \A path \in Paths : Lookup(tree, path) # NoInode => Lookup(tree, path) \in DOMAIN tree.nodes
    BY PathLabels, LookupExists
<1>c. \A path \in Paths, dir \in BOOLEAN : CanCreate(path) =>
         LET u == Create(tree, Lookup(tree, Front(path)), Last(path), dir)
         IN  TreeSound(u) /\ u.next >= tree.next
    <2> SUFFICES ASSUME NEW path \in Paths, NEW dir \in BOOLEAN, CanCreate(path)
                 PROVE  LET u == Create(tree, Lookup(tree, Front(path)), Last(path), dir)
                        IN  TreeSound(u) /\ u.next >= tree.next
        OBVIOUS
    <2> DEFINE p == Lookup(tree, Front(path))
               x == Last(path)
    <2>1. p # NoInode
        BY DEF CanCreate
    <2>2. Front(path) \in Seq(Labels) /\ x \in Labels
        BY <2>1, PathLabels, SplitPath
    <2>3. p \in DOMAIN tree.nodes
        BY <2>1, <2>2, LookupExists
    <2> HIDE DEF p, x
    <2>4. TreeSound(Create(tree, p, x, dir))
        BY <2>2, <2>3, <1>0, CreateSound
    <2>5. Create(tree, p, x, dir).next = tree.next + 1
        BY DEF Create
    <2> QED
        BY <2>4, <2>5, <1>0 DEF p, x
<1>1. ASSUME NEW path \in Paths, NEW mode \in Modes, HandleOpen(path, mode) PROVE FileInv'
    <2> DEFINE i == Lookup(tree, path)
    <2>1. i \in DOMAIN tree.nodes /\ phase = "idle" /\ phase' = "save" /\ Quiet
        BY <1>1, <1>b DEF HandleOpen, Serve
    <2>2. CASE tree.nodes[i].dir
        BY <2>1, <2>2, <1>0, <1>1, TreeRequest DEF HandleOpen
    <2>3. CASE ~tree.nodes[i].dir
        <3>1. OpenNode(tree, i, mode)
            BY <2>3, <1>1 DEF HandleOpen
        <3>2. i # Root
            BY <2>1, <2>3, <1>0 DEF TreeSound, Standard
        <3> HIDE DEF i
        <3>3. /\ TreeSound(tree')
              /\ files' \in Table(Inodes, FileSet) /\ DOMAIN files' \subseteq 1 .. tree'.next - 1
              /\ \A fd \in DOMAIN fds' : fd \in Nat /\ fd < nextFd' /\ fds'[fd] \in DOMAIN files'
              /\ nextFd' \in Nat /\ nextFd' >= FirstFd
            BY <2>1, <3>1, <3>2, <1>0, OpenNodeKeeps
        <3> QED
            BY <2>1, <3>3 DEF FileInv, Quiet
    <2> QED
        BY <2>2, <2>3
<1>2. ASSUME NEW path \in Paths, NEW mode \in Modes, HandleOpenCreate(path, mode) PROVE FileInv'
    <2> DEFINE no == FALSE
               t == Create(tree, Lookup(tree, Front(path)), Last(path), no)
               i == Lookup(t, path)
    <2>1. /\ phase = "idle" /\ phase' = "save" /\ Quiet /\ CanCreate(path) /\ no \in BOOLEAN
          /\ IF i = NoInode THEN tree' = t /\ UNCHANGED <<files, fds, nextFd>> ELSE OpenNode(t, i, mode)
        BY <1>2 DEF HandleOpenCreate, Serve
    <2> HIDE DEF no
    <2>2. TreeSound(t) /\ t.next >= tree.next
        BY <2>1, <1>c
    <2> HIDE DEF t
    <2>3. CASE i = NoInode
        BY <2>1, <2>2, <2>3, TreeRequest
    <2>4. CASE i # NoInode
        <3>1. path # <<>> /\ path \in Seq(Labels)
            <4>1. Lookup(tree, path) = NoInode /\ Lookup(tree, Front(path)) # NoInode
                BY <1>2, <2>1 DEF HandleOpenCreate, CanCreate
            <4>2. path = <<>> => Front(path) = path
                BY DEF Front
            <4> QED
                BY <4>1, <4>2, PathLabels
        <3>2. i \in DOMAIN t.nodes /\ i # Root
            BY <2>2, <2>4, <3>1, LookupExists, LookupBelow
        <3>3. OpenNode(t, i, mode)
            BY <2>1, <2>4
        <3> HIDE DEF i
        <3>4. /\ TreeSound(tree')
              /\ files' \in Table(Inodes, FileSet) /\ DOMAIN files' \subseteq 1 .. tree'.next - 1
              /\ \A fd \in DOMAIN fds' : fd \in Nat /\ fd < nextFd' /\ fds'[fd] \in DOMAIN files'
              /\ nextFd' \in Nat /\ nextFd' >= FirstFd
            BY <2>2, <3>2, <3>3, <1>0, OpenNodeKeeps
        <3> QED
            BY <2>1, <3>4 DEF FileInv, Quiet
    <2> QED
        BY <2>3, <2>4
<1>3. ASSUME NEW fd \in FirstFd .. MaxFd - 1, HandleClose(fd) PROVE FileInv'
    BY <1>3 DEF FileInv, HandleClose, Serve, Quiet, Without, Restrict
<1>4. ASSUME NEW fd \in FirstFd .. MaxFd - 1, HandleCloseWithResponse(fd) PROVE FileInv'
    <2> DEFINE i == fds[fd]
               f == files[i]
               u == FreeOld(f)
    <2>1. /\ phase = "idle" /\ phase' = "save" /\ fd \in DOMAIN fds
          /\ fds' = Without(fds, fd) /\ UNCHANGED <<tree, nextFd, saved, current>>
          /\ used' = AllocateSectors(u, f.len)
          /\ files' = IF HasRun(u, f.len) THEN [files EXCEPT ![i] = Synced(f, u)] ELSE files
        BY <1>4 DEF HandleCloseWithResponse, Serve
    <2>2. i \in DOMAIN files /\ f \in FileSet /\ f.len \in Nat
        BY <2>1, <1>0, FileAssumption DEF FileSet
    <2>3. u \subseteq Sectors
        BY <1>0 DEF FreeOld, FreeSectors
    <2> HIDE DEF u
    <2>4. used' \subseteq Sectors
        BY <2>1, <2>2, <2>3, FirstRunIs DEF AllocateSectors
    <2>5. HasRun(u, f.len) => Synced(f, u) \in FileSet
        BY <2>2, FileOps
    <2> DEFINE g == Synced(f, u)
    <2> HIDE DEF f, g, i
    <2>6. files' \in Table(Inodes, FileSet) /\ DOMAIN files' = DOMAIN files
        <3>1. CASE HasRun(u, f.len)
            <4>1. files' = [files EXCEPT ![i] = g] /\ g \in FileSet
                BY <3>1, <2>1, <2>5 DEF g
            <4>2. [files EXCEPT ![i] = g] \in Table(Inodes, FileSet)
                BY <4>1, <2>2, <1>0, TableSet
            <4> QED
                BY <4>1, <4>2
        <3>2. CASE ~HasRun(u, f.len)
            BY <3>2, <2>1, <1>0
        <3> QED
            BY <3>1, <3>2
    <2>7. \A d \in DOMAIN fds' : d \in DOMAIN fds /\ fds'[d] = fds[d]
        BY <2>1 DEF Without, Restrict
    <2> QED
        BY <2>1, <2>4, <2>6, <2>7 DEF FileInv
<1>5. ASSUME NEW fd \in FirstFd .. MaxFd - 1, NEW n \in 1 .. MaxLen, HandleRead(fd, n) PROVE FileInv'
    <2> DEFINE i == fds[fd]
               g == ReadFile(files[i], n)
    <2>1. /\ phase' = "save" /\ i \in DOMAIN files /\ Quiet /\ phase = "idle"
          /\ files' = [files EXCEPT ![i] = g] /\ UNCHANGED <<tree, fds, nextFd>>
        BY <1>5, <1>0 DEF HandleRead, Serve
    <2>2. g \in FileSet
        <3>1. files[i] \in FileSet /\ n \in Nat
            BY <2>1, <1>0, FileAssumption
        <3> QED
            BY <3>1, FileOps
    <2>3. current' = NoInode /\ used' \subseteq Sectors /\ saved' = saved
        BY <2>1, <1>0 DEF Quiet, FileInv
    <2> HIDE DEF g, i
    <2> QED
        BY <2>1, <2>2, <2>3, FileRequest
<1>6. ASSUME NEW fd \in FirstFd .. MaxFd - 1, NEW n \in 1 .. MaxLen, HandleWrite(fd, n) PROVE FileInv'
    <2> DEFINE i == fds[fd]
               f == files[i]
               g == WriteFile(f, n)
    <2>1. /\ phase' = "sync" /\ i \in DOMAIN files /\ WritePos(f) + n <= MaxLen /\ current' = i
          /\ files' = [files EXCEPT ![i] = g] /\ UNCHANGED <<tree, fds, nextFd, saved>> /\ used' = FreeOld(f)
        BY <1>6, <1>0 DEF HandleWrite
    <2>2. g \in FileSet
        <3>1. f \in FileSet /\ n \in Nat
            BY <2>1, <1>0, FileAssumption
        <3> QED
            BY <2>1, <3>1, FileOps
    <2>3. used' \subseteq Sectors
        BY <2>1, <1>0 DEF FreeOld, FreeSectors
    <2> HIDE DEF g, i
    <2> QED
        BY <2>1, <2>2, <2>3, FileRequest
<1>7. ASSUME NEW fd \in FirstFd .. MaxFd - 1, HandleSeek(fd, 0) PROVE FileInv'
    <2> DEFINE i == fds[fd]
               g == [files[i] EXCEPT !.pos = 0]
    <2>1. phase' = "save" /\ i \in DOMAIN files /\ Quiet /\ phase = "idle" /\ UNCHANGED <<tree, fds, nextFd>>
        BY <1>7, <1>0 DEF HandleSeek, Serve
    <2>2. files' = [files EXCEPT ![i] = g]
        BY <1>7, <1>0, <2>1 DEF HandleSeek, FileSet
    <2>3. g \in FileSet
        BY <2>1, <1>0 DEF FileSet
    <2>4. current' = NoInode /\ used' \subseteq Sectors /\ saved' = saved
        BY <2>1, <1>0 DEF Quiet, FileInv
    <2> HIDE DEF g, i
    <2> QED
        BY <2>1, <2>2, <2>3, <2>4, FileRequest
<1>8. ASSUME NEW path \in Paths, HandleMkdir(path) PROVE FileInv'
    <2> DEFINE yes == TRUE
    <2>1. /\ phase = "idle" /\ phase' = "save" /\ Quiet /\ CanCreate(path) /\ yes \in BOOLEAN
          /\ UNCHANGED <<files, fds, nextFd>>
          /\ tree' = Create(tree, Lookup(tree, Front(path)), Last(path), yes)
        BY <1>8 DEF HandleMkdir, Serve
    <2> HIDE DEF yes
    <2> QED
        BY <2>1, <1>c, TreeRequest
<1>d. \A i \in DOMAIN tree.nodes : TreeSound(Delete(tree, i)) /\ Delete(tree, i).next >= tree.next
    <2> SUFFICES ASSUME NEW i \in DOMAIN tree.nodes
                 PROVE  TreeSound(Delete(tree, i)) /\ Delete(tree, i).next >= tree.next
        OBVIOUS
    <2>1. TreeSound(Delete(tree, i))
        BY <1>0, DeleteSound
    <2>2. Delete(tree, i).next = tree.next
        BY <1>0 DEF Delete, TreeSound, TreeTyped
    <2> QED
        BY <2>1, <2>2, <1>0
<1>9. ASSUME NEW path \in Paths, HandleDelete(path) PROVE FileInv'
    BY <1>9, <1>b, <1>d, TreeRequest DEF HandleDelete, Serve
<1>10. ASSUME NEW path \in Paths, HandleRmdir(path) PROVE FileInv'
    BY <1>10, <1>b, <1>d, TreeRequest DEF HandleRmdir, Serve
<1>11. ASSUME HandleQuery PROVE FileInv'
    BY <1>11, <1>0, TreeRequest DEF HandleQuery, Serve
<1>12. ASSUME SyncToDisk PROVE FileInv'
    <2> DEFINE f == files[current]
               s == FirstRun(used, f.len)
               g == Synced(f, used)
    <2>1. phase = "sync" /\ phase' = "save" /\ current' = NoInode /\ UNCHANGED <<fds, nextFd, saved>>
        BY <1>12 DEF SyncToDisk
    <2>2. current \in DOMAIN files /\ current # Root /\ f \in FileSet /\ f.len \in 0 .. MaxLen /\ f.len \in Nat
        BY <2>1, <1>0, <1>a, FileAssumption DEF FileInv, FileSet
    <2>3. CASE HasRun(used, f.len)
        <3>1. /\ used' = AllocateSectors(used, f.len) /\ files' = [files EXCEPT ![current] = g]
              /\ tree' = SetBlocks(tree, current, s, f.len)
            BY <2>3, <1>12 DEF SyncToDisk
        <3>2. g \in FileSet /\ s \in Nat \ {0} /\ used' \subseteq Sectors
            <4>1. s \in Sectors /\ Run(s, f.len) \subseteq Sectors
                BY <2>2, <2>3, FirstRunIs
            <4>2. g \in FileSet
                BY <2>2, <2>3, FileOps
            <4>3. used' \subseteq Sectors
                BY <3>1, <4>1, <1>0 DEF AllocateSectors
            <4> HIDE DEF g, s
            <4> QED
                BY <4>1, <4>2, <4>3, NSectorsAssumption DEF Sectors
        <3> DEFINE n == f.len
        <3> HIDE DEF g, s, f, n
        <3>3. TreeSound(SetBlocks(tree, current, s, n))
            BY <2>2, <3>2, <1>0, SetBlocksSound DEF n
        <3>4. TreeSound(tree') /\ tree'.next = tree.next
            BY <3>1, <3>3, <1>0 DEF SetBlocks, TreeSound, TreeTyped, n
        <3>5. files' \in Table(Inodes, FileSet) /\ DOMAIN files' = DOMAIN files
            BY <3>1, <3>2, <2>2, <1>0, TableSet
        <3> QED
            BY <2>1, <3>2, <3>4, <3>5 DEF FileInv
    <2>4. CASE ~HasRun(used, f.len)
        BY <2>1, <2>4, <1>12 DEF SyncToDisk, FileInv
    <2> QED
        BY <2>3, <2>4
<1>13. ASSUME SaveToFile PROVE FileInv'
    <2>1. saved'.nodes = tree.nodes
        BY <1>13 DEF SaveToFile, Saved
    <2>2. tree = [nodes |-> tree.nodes, next |-> tree.next]
        BY <1>0 DEF TreeSound, TreeTyped
    <2>3. SavedSound(saved'.nodes)
        BY <2>1, <2>2, <1>0 DEF SavedSound
    <2> QED
        BY <1>13, <2>3 DEF SaveToFile, FileInv
<1>14. ASSUME Crash PROVE FileInv'
    <2>1. TreeSound(tree') /\ files' \in Table(Inodes, FileSet) /\ DOMAIN files' = {} /\ DOMAIN fds' = {}
        BY <1>14, NewTreeIs, TableEmpty DEF Crash
    <2>2. SavedSound(saved'.nodes)
        <3>1. CASE saved' = saved
            BY <3>1, <1>0
        <3>2. CASE saved' = Unreadable
            BY <3>2, UnreadableSound
        <3> QED
            BY <3>1, <3>2, <1>14 DEF Crash
    <2> QED
        BY <1>14, <2>1, <2>2 DEF Crash, FileInv, FirstFd
<1>15. ASSUME Restart PROVE FileInv'
    <2> DEFINE t == Imported(Booted)
               i == Lookup(t, Host)
               s == FirstRun(used, 1)
    <2>1. /\ phase = "down" /\ phase' = "idle" /\ UNCHANGED <<files, fds, nextFd, saved, current>>
          /\ IF i # NoInode /\ Blocks(t.nodes[i]) = {} /\ HasRun(used, 1)
             THEN used' = AllocateSectors(used, 1) /\ tree' = SetBlocks(t, i, s, 1)
             ELSE tree' = t /\ used' = used
        BY <1>15 DEF Restart
    <2>2. TreeSound(t) /\ (i # NoInode => i \in DOMAIN t.nodes /\ i # Root)
        BY <1>0, ImportedSound
    <2> HIDE DEF t, i
    <2>3. TreeSound(tree') /\ used' \subseteq Sectors
        <3>1. CASE i # NoInode /\ Blocks(t.nodes[i]) = {} /\ HasRun(used, 1)
            <4>1. s \in Sectors /\ Run(s, 1) \subseteq Sectors
                BY <3>1, FirstRunIs
            <4>2. used' \subseteq Sectors
                BY <3>1, <2>1, <4>1, <1>0 DEF AllocateSectors
            <4> HIDE DEF s
            <4> DEFINE one == 1
            <4>3. s \in Nat \ {0} /\ one \in 0 .. MaxLen
                BY <4>1, NSectorsAssumption, FileAssumption DEF Sectors
            <4>4. tree' = SetBlocks(t, i, s, one)
                BY <3>1, <2>1
            <4> HIDE DEF one
            <4> QED
                BY <4>2, <4>3, <4>4, <3>1, <2>2, SetBlocksSound
        <3>2. CASE ~(i # NoInode /\ Blocks(t.nodes[i]) = {} /\ HasRun(used, 1))
            BY <3>2, <2>1, <2>2, <1>0
        <3> QED
            BY <3>1, <3>2
    <2> QED
        BY <2>1, <2>3 DEF FileInv
<1>16. ASSUME UNCHANGED fileVars PROVE FileInv'
    BY <1>16 DEF fileVars, FileInv
<1> QED
    BY <1>1, <1>2, <1>3, <1>4, <1>5, <1>6, <1>7, <1>8, <1>9, <1>10, <1>11, <1>12, <1>13, <1>14,
       <1>15, <1>16 DEF FileNext

\* What the type invariant of the file service says of cached files, descriptors, sectors
\* and of the phase of a request, for any number of files, descriptors and crashes.
THEOREM FileTypeCorrect == FileSpec => []FileTypeOK
<1>1. FileInv => FileTypeOK
    <2> SUFFICES ASSUME FileInv PROVE FileTypeOK
        OBVIOUS
    <2>1. \A i \in DOMAIN tree.nodes : i \in 0 .. tree.next - 1 /\ tree.nodes[i] \in NodeSet
        BY TableIs DEF FileInv, TreeSound, TreeTyped
    <2>2. \A i \in DOMAIN files : files[i] \in FileSet
        BY TableIs DEF FileInv
    <2>3. (current # NoInode) <=> (phase = "sync")
        BY DEF FileInv, NoInode
    <2> QED
        BY <2>1, <2>2, <2>3 DEF FileInv, FileTypeOK, NodeSet, FileSet
<1> QED
    BY <1>1, FileInitInv, FileStep, PTL DEF FileSpec

\* create_file, create_directory, delete, save_to_file and load_from_file: whatever was
\* created, refused, deleted, saved or lost, a name leads to the node of that name.
THEOREM NamesAlwaysLead == FileSpec => []TreeExact
<1>1. FileInv => TreeExact
    BY DEF FileInv, TreeSound, TreeExact
<1> QED
    BY <1>1, FileInitInv, FileStep, PTL DEF FileSpec

\* FileTable::allocate: a descriptor that was closed is not handed out again.
THEOREM ClosedStaysClosed == FileSpec => FdNotReused
<1>1. FileInv /\ [FileNext]_fileVars =>
        [phase' # "down" =>
           \A fd \in FirstFd .. nextFd - 1 : fd \notin DOMAIN fds => fd \notin DOMAIN fds']_fileVars
    <2> SUFFICES ASSUME FileInv, FileNext, phase' # "down", NEW fd \in FirstFd .. nextFd - 1, fd \notin DOMAIN fds
                 PROVE  fd \notin DOMAIN fds'
        OBVIOUS
    <2>1. nextFd \in Nat /\ fd # nextFd
        BY DEF FileInv, FirstFd
    <2>2. \A i : AllocateFd(i) => fd \notin DOMAIN fds'
        BY <2>1 DEF AllocateFd, Put
    <2>3. \A t, i, mode : OpenNode(t, i, mode) => fd \notin DOMAIN fds'
        BY <2>2 DEF OpenNode
    <2>4. ASSUME NEW path \in Paths, NEW mode \in Modes, HandleOpen(path, mode) PROVE fd \notin DOMAIN fds'
        BY <2>3, <2>4 DEF HandleOpen
    <2>5. ASSUME NEW path \in Paths, NEW mode \in Modes, HandleOpenCreate(path, mode) PROVE fd \notin DOMAIN fds'
        BY <2>3, <2>5 DEF HandleOpenCreate
    <2>6. ASSUME NEW d \in FirstFd .. MaxFd - 1, HandleClose(d) \/ HandleCloseWithResponse(d)
          PROVE  fd \notin DOMAIN fds'
        BY <2>6 DEF HandleClose, HandleCloseWithResponse, Without, Restrict
    <2>7. ASSUME NEW d \in FirstFd .. MaxFd - 1, NEW n \in 1 .. MaxLen, HandleRead(d, n) \/ HandleWrite(d, n)
          PROVE  fd \notin DOMAIN fds'
        BY <2>7 DEF HandleRead, HandleWrite
    <2>8. ASSUME NEW d \in FirstFd .. MaxFd - 1, HandleSeek(d, 0) PROVE fd \notin DOMAIN fds'
        BY <2>8 DEF HandleSeek
    <2>9. ASSUME NEW path \in Paths, HandleMkdir(path) \/ HandleDelete(path) \/ HandleRmdir(path)
          PROVE  fd \notin DOMAIN fds'
        BY <2>9 DEF HandleMkdir, HandleDelete, HandleRmdir
    <2>10. ASSUME HandleQuery \/ SyncToDisk \/ SaveToFile \/ Restart PROVE fd \notin DOMAIN fds'
        BY <2>10 DEF HandleQuery, SyncToDisk, SaveToFile, Restart
    <2>11. ~Crash
        BY DEF Crash
    <2> QED
        BY <2>4, <2>5, <2>6, <2>7, <2>8, <2>9, <2>10, <2>11 DEF FileNext
<1> QED
    BY <1>1, FileInitInv, FileStep, PTL DEF FileSpec, FdNotReused

------------------------------------------------------------------------------
(* The sectors.                                                              *)

\* Holdings that are in use and disjoint.
Apart(h, u) ==
    \A i \in DOMAIN h : h[i] \subseteq u /\ \A j \in DOMAIN h : i # j => h[i] \cap h[j] = {}

\* Who holds less, or nothing, holds apart.
LEMMA ApartLess ==
    ASSUME NEW h, NEW u, NEW g, NEW v, Apart(h, u), u \subseteq v,
           \A i \in DOMAIN g : g[i] = {} \/ (i \in DOMAIN h /\ g[i] = h[i])
    PROVE  Apart(g, v)
BY DEF Apart

\* One may take what was in nobody's use ...
LEMMA ApartPlus ==
    ASSUME NEW h, NEW u, NEW g, NEW S, NEW k, Apart(h, u), S \cap u = {},
           \A i \in DOMAIN g : (i = k /\ g[i] = S) \/ (i # k /\ i \in DOMAIN h /\ g[i] = h[i])
    PROVE  Apart(g, u \cup S)
<1> SUFFICES ASSUME NEW i \in DOMAIN g
             PROVE  g[i] \subseteq u \cup S /\ \A j \in DOMAIN g : i # j => g[i] \cap g[j] = {}
    BY DEF Apart
<1>1. g[i] \subseteq u \cup S
    BY DEF Apart
<1>2. ASSUME NEW j \in DOMAIN g, i # j PROVE g[i] \cap g[j] = {}
    <2>1. CASE i = k
        BY <1>2, <2>1 DEF Apart
    <2>2. CASE j = k
        BY <1>2, <2>2 DEF Apart
    <2>3. CASE i # k /\ j # k
        BY <1>2, <2>3 DEF Apart
    <2> QED
        BY <2>1, <2>2, <2>3
<1> QED
    BY <1>1, <1>2

\* ... and give back what it held.
LEMMA ApartDrop ==
    ASSUME NEW h, NEW u, NEW g, NEW k \in DOMAIN h, Apart(h, u),
           \A i \in DOMAIN g : i # k /\ i \in DOMAIN h /\ g[i] = h[i]
    PROVE  Apart(g, u \ h[k])
BY DEF Apart

Held == [i \in Holders |-> Holds(i)]

BlocksOf(nodes) == [i \in DOMAIN nodes |-> Blocks(nodes[i])]

Clean ==
    \A i \in DOMAIN files \ {current} :
        /\ ~files[i].dirty
        /\ Exists(tree, i) => /\ tree.nodes[i].start = files[i].start
                              /\ tree.nodes[i].count = files[i].count

\* The inductive invariant behind the sectors: also what was saved names sectors in use
\* and nobody else's whenever a crash would do no damage, and when the service is down.
DiskInv ==
    damaged = {} =>
        /\ phase # "down" => Apart(Held, used) /\ Clean
        /\ phase \in {"idle", "down"} => Apart(BlocksOf(saved.nodes), used)

\* It is what the properties say of the sectors and of the cache.
LEMMA DiskInvIs == DiskInv => SectorsOwned /\ CacheClean
<1>1. Apart(Held, used) => \A i \in Holders : /\ Holds(i) \subseteq used
                                             /\ \A j \in Holders : i # j => Holds(i) \cap Holds(j) = {}
    BY DEF Apart, Held
<1> QED
    BY <1>1 DEF DiskInv, SectorsOwned, CacheClean, Clean

\* A tree in which every node is one of the service's tree with its data, or new.
Derived(t) ==
    \A i \in DOMAIN t.nodes :
        \/ /\ i \in DOMAIN tree.nodes
           /\ t.nodes[i].start = tree.nodes[i].start /\ t.nodes[i].count = tree.nodes[i].count
        \/ i \notin DOMAIN files /\ i \notin DOMAIN tree.nodes /\ t.nodes[i].start = NoSector

\* Creating and deleting make such trees.
LEMMA CreateDerived ==
    ASSUME FileInv, NEW p \in DOMAIN tree.nodes, NEW x \in Labels, NEW dir \in BOOLEAN
    PROVE  Derived(Create(tree, p, x, dir))
<1> DEFINE u == Create(tree, p, x, dir)
           k == tree.next
<1>1. TreeTyped(tree) /\ k \notin DOMAIN files /\ p \in Int
    <2>1. tree.next \in Nat /\ DOMAIN files \subseteq 1 .. tree.next - 1 /\ DOMAIN tree.nodes \subseteq 0 .. tree.next - 1
        BY DEF FileInv, TreeSound, TreeTyped
    <2> QED
        BY <2>1 DEF FileInv, TreeSound
<1>2. /\ k \notin DOMAIN tree.nodes /\ DOMAIN u.nodes = DOMAIN tree.nodes \cup {k}
      /\ u.nodes[k] = Node(dir, x, p)
      /\ \A i \in DOMAIN tree.nodes : SameNode(u.nodes[i], tree.nodes[i])
    BY <1>1, CreateIs
<1>3. u.nodes[k].start = NoSector
    BY <1>1, <1>2, NodeFields
<1> HIDE DEF u, k
<1>4. Derived(u)
    BY <1>1, <1>2, <1>3 DEF Derived, SameNode
<1> QED
    BY <1>4 DEF u

LEMMA DeleteDerived ==
    ASSUME FileInv, NEW i \in DOMAIN tree.nodes
    PROVE  Derived(Delete(tree, i))
<1> DEFINE u == Delete(tree, i)
<1>1. TreeTyped(tree)
    BY DEF FileInv, TreeSound
<1>2. CASE ~CanDelete(tree, i)
    BY <1>2 DEF Delete, Derived
<1>3. CASE CanDelete(tree, i)
    <2>1. /\ DOMAIN u.nodes = DOMAIN tree.nodes \ {i}
          /\ \A j \in DOMAIN u.nodes : SameNode(u.nodes[j], tree.nodes[j])
        BY <1>1, <1>3, DeleteIs
    <2> HIDE DEF u
    <2>2. Derived(u)
        BY <2>1 DEF Derived, SameNode
    <2> QED
        BY <2>2 DEF u
<1> QED
    BY <1>2, <1>3

\* Blocks depend on where the data is only.
LEMMA SameBlocks ==
    /\ \A m, n : m.start = n.start /\ m.count = n.count => Blocks(m) = Blocks(n)
    /\ \A m : m.start = NoSector => Blocks(m) = {}
BY DEF Blocks

\* A request on a derived tree that changes at most modes and positions of cached files,
\* and caches at most one more with the data of its node.
LEMMA DerivedRequest ==
    ASSUME FileInv, phase = "idle", Apart(Held, used), Clean, Derived(tree'),
           current' = NoInode, used' = used,
           DOMAIN files' \subseteq DOMAIN files \cup DOMAIN tree'.nodes,
           DOMAIN files \subseteq DOMAIN files',
           \A i \in DOMAIN files : /\ files'[i].start = files[i].start /\ files'[i].count = files[i].count
                                  /\ files'[i].dirty = files[i].dirty,
           \A i \in DOMAIN files' \ DOMAIN files :
               /\ files'[i].start = tree'.nodes[i].start /\ files'[i].count = tree'.nodes[i].count
               /\ ~files'[i].dirty
    PROVE  Apart(Held', used') /\ Clean'
<1>1. current = NoInode /\ DOMAIN files \subseteq Nat /\ DOMAIN tree.nodes \subseteq Nat
    BY DEF FileInv, TreeSound, TreeTyped
<1>2. NoInode \notin Nat
    BY DEF NoInode
<1>3. DOMAIN Held = DOMAIN files \cup DOMAIN tree.nodes
    BY <1>1, <1>2 DEF Held, Holders
<1>4. \A i \in DOMAIN files : Held[i] = Blocks(files[i])
    BY <1>3 DEF Held, Holds
<1>5. \A i \in DOMAIN tree.nodes : Held[i] = Blocks(tree.nodes[i])
    <2> SUFFICES ASSUME NEW i \in DOMAIN tree.nodes PROVE Held[i] = Blocks(tree.nodes[i])
        OBVIOUS
    <2>1. CASE i \in DOMAIN files
        <3>1. tree.nodes[i].start = files[i].start /\ tree.nodes[i].count = files[i].count
            BY <2>1, <1>1, <1>2 DEF Clean, Exists
        <3> QED
            BY <2>1, <3>1, <1>4, SameBlocks
    <2>2. CASE i \notin DOMAIN files
        BY <2>2, <1>3 DEF Held, Holds
    <2> QED
        BY <2>1, <2>2
<1>6. DOMAIN Held' \subseteq DOMAIN files' \cup DOMAIN tree'.nodes
    BY DEF Held, Holders
<1>7. \A i \in DOMAIN tree'.nodes : Blocks(tree'.nodes[i]) = {}
          \/ (i \in DOMAIN tree.nodes /\ Blocks(tree'.nodes[i]) = Blocks(tree.nodes[i]))
    BY SameBlocks DEF Derived
<1>8. \A i \in DOMAIN Held' : Held'[i] = {} \/ (i \in DOMAIN Held /\ Held'[i] = Held[i])
    <2> SUFFICES ASSUME NEW i \in DOMAIN Held'
                 PROVE  Held'[i] = {} \/ (i \in DOMAIN Held /\ Held'[i] = Held[i])
        OBVIOUS
    <2>1. CASE i \in DOMAIN files
        <3>1. Held'[i] = Blocks(files'[i])
            BY <2>1 DEF Held, Holds
        <3>2. Blocks(files'[i]) = Blocks(files[i])
            BY <2>1, SameBlocks
        <3> QED
            BY <2>1, <3>1, <3>2, <1>3, <1>4
    <2>2. CASE i \in DOMAIN files' \ DOMAIN files
        <3>1. Held'[i] = Blocks(files'[i]) /\ i \in DOMAIN tree'.nodes
            BY <2>2 DEF Held, Holds
        <3>2. Blocks(files'[i]) = Blocks(tree'.nodes[i])
            BY <2>2, SameBlocks
        <3> QED
            BY <3>1, <3>2, <1>3, <1>5, <1>7
    <2>3. CASE i \notin DOMAIN files'
        <3>1. Held'[i] = Blocks(tree'.nodes[i]) /\ i \in DOMAIN tree'.nodes
            BY <2>3, <1>6 DEF Held, Holds
        <3> QED
            BY <3>1, <1>3, <1>5, <1>7
    <2> QED
        BY <2>1, <2>2, <2>3
<1>9. Apart(Held', used')
    BY <1>8, ApartLess
<1>10. Clean'
    <2> SUFFICES ASSUME NEW i \in DOMAIN files'
                 PROVE  /\ ~files'[i].dirty
                        /\ i \in DOMAIN tree'.nodes => /\ tree'.nodes[i].start = files'[i].start
                                                       /\ tree'.nodes[i].count = files'[i].count
        BY DEF Clean, Exists
    <2>1. CASE i \in DOMAIN files
        <3>1. i \in DOMAIN files \ {current}
            BY <2>1, <1>1, <1>2
        <3>2. ~files[i].dirty /\ (i \in DOMAIN tree.nodes => /\ tree.nodes[i].start = files[i].start
                                                            /\ tree.nodes[i].count = files[i].count)
            BY <3>1 DEF Clean, Exists
        <3> QED
            BY <2>1, <3>2 DEF Derived
    <2>2. CASE i \notin DOMAIN files
        BY <2>2
    <2> QED
        BY <2>1, <2>2
<1> QED
    BY <1>9, <1>10

\* The tree a restart begins with names the sectors the saved one named.
LEMMA ImportedApart ==
    ASSUME SavedSound(saved.nodes), Apart(BlocksOf(saved.nodes), used)
    PROVE  Apart(BlocksOf(Imported(Booted).nodes), used)
<1> DEFINE b == Booted
           t == Imported(b)
           p == Lookup(b, Front(Host))
<1>1. Apart(BlocksOf(b.nodes), used)
    <2>1. CASE saved.ok
        <3> DEFINE u == Load(saved.nodes)
        <3>1. /\ TreeSound(u) /\ DOMAIN u.nodes = {Root, 1, 2} \cup DOMAIN saved.nodes
              /\ \A i \in DOMAIN saved.nodes : i # Root => u.nodes[i] = saved.nodes[i]
              /\ \A i \in DOMAIN u.nodes : i \notin DOMAIN saved.nodes => u.nodes[i].start = NoSector
            BY LoadIs
        <3> HIDE DEF u
        <3>2. u.nodes[Root].start = NoSector
            BY <3>1 DEF TreeSound, Standard
        <3>3. \A i \in DOMAIN BlocksOf(u.nodes) :
                \/ BlocksOf(u.nodes)[i] = {}
                \/ i \in DOMAIN BlocksOf(saved.nodes) /\ BlocksOf(u.nodes)[i] = BlocksOf(saved.nodes)[i]
            BY <3>1, <3>2, SameBlocks DEF BlocksOf
        <3>4. Apart(BlocksOf(u.nodes), used)
            BY <3>3, ApartLess
        <3> QED
            BY <2>1, <3>4 DEF u, Booted
    <2>2. CASE ~saved.ok
        <3>1. b = NewTree
            BY <2>2 DEF Booted
        <3>2. \A i \in DOMAIN NewTree.nodes : Blocks(NewTree.nodes[i]) = {}
            BY NewTreeIs, SameBlocks
        <3> QED
            BY <3>1, <3>2 DEF Apart, BlocksOf
    <2> QED
        BY <2>1, <2>2
<1>2. TreeSound(b)
    BY ImportedSound
<1>3. Host # <<>> /\ Front(Host) \in Seq(Labels) /\ Last(Host) \in Labels
    BY PathLabels, SplitPath
<1> HIDE DEF b
<1>4. CASE t = b
    BY <1>1, <1>4 DEF b
<1>5. CASE p # NoInode /\ t = Create(b, p, Last(Host), FALSE)
    <2> DEFINE no == FALSE
               k == b.next
               u == Create(b, p, Last(Host), no)
    <2>1. p \in DOMAIN b.nodes /\ no \in BOOLEAN /\ t = u
        BY <1>3, <1>5, LookupExists
    <2> HIDE DEF no, p
    <2>2. TreeTyped(b)
        BY <1>2 DEF TreeSound
    <2>3. /\ DOMAIN u.nodes = DOMAIN b.nodes \cup {k} /\ u.nodes[k] = Node(no, Last(Host), p)
          /\ \A i \in DOMAIN b.nodes : SameNode(u.nodes[i], b.nodes[i])
        BY <1>3, <2>1, <2>2, CreateIs
    <2>4. u.nodes[k].start = NoSector
        <3>1. p \in Int
            BY <2>1, <2>2 DEF TreeTyped
        <3> QED
            BY <3>1, <2>1, <2>3, <1>3, NodeFields
    <2> HIDE DEF u, k
    <2>5. \A i \in DOMAIN BlocksOf(u.nodes) :
            \/ BlocksOf(u.nodes)[i] = {}
            \/ i \in DOMAIN BlocksOf(b.nodes) /\ BlocksOf(u.nodes)[i] = BlocksOf(b.nodes)[i]
        BY <2>3, <2>4, SameBlocks DEF BlocksOf, SameNode
    <2>6. Apart(BlocksOf(u.nodes), used)
        BY <1>1, <2>5, ApartLess
    <2> QED
        BY <2>1, <2>6 DEF b
<1> QED
    BY <1>4, <1>5 DEF Imported, b

\* It holds at the first start.
LEMMA DiskInitInv == FileInit => DiskInv
<1> SUFFICES ASSUME FileInit PROVE DiskInv
    OBVIOUS
<1>1. saved.nodes = <<>> /\ phase = "down" /\ DOMAIN <<>> = {}
    BY DEF FileInit, Unreadable
<1>2. Apart(BlocksOf(saved.nodes), used)
    BY <1>1 DEF Apart, BlocksOf
<1> QED
    BY <1>1, <1>2 DEF DiskInv

\* Every step keeps it.
LEMMA DiskStep == FileInv /\ FileInv' /\ DiskInv /\ [FileNext]_fileVars => DiskInv'
<1> SUFFICES ASSUME FileInv, FileInv', DiskInv, [FileNext]_fileVars, damaged' = {}
             PROVE  /\ phase' # "down" => Apart(Held', used') /\ Clean'
                    /\ phase' \in {"idle", "down"} => Apart(BlocksOf(saved'.nodes), used')
    BY DEF DiskInv
<1> DEFINE Goal == /\ phase' # "down" => Apart(Held', used') /\ Clean'
                   /\ phase' \in {"idle", "down"} => Apart(BlocksOf(saved'.nodes), used')
<1>0. /\ TreeSound(tree) /\ TreeTyped(tree)
      /\ \A i \in DOMAIN files : files[i] \in FileSet /\ i \in Nat
      /\ \A fd \in DOMAIN fds : fds[fd] \in DOMAIN files
      /\ DOMAIN tree.nodes \subseteq Nat /\ \A i \in DOMAIN tree.nodes : tree.nodes[i] \in NodeSet
    BY TableIs DEF FileInv, TreeSound, TreeTyped
<1>a. damaged = {} /\ phase # "down" => Apart(Held, used) /\ Clean
    BY DEF DiskInv
<1>b. Derived(tree)
    BY DEF Derived
<1>c. ASSUME phase = "idle", phase' = "save", Quiet
      PROVE  Apart(Held, used) /\ Clean /\ current' = NoInode /\ used' = used
    BY <1>a, <1>c DEF Quiet, FileInv
<1>d. ASSUME phase = "idle", phase' = "save", Quiet, UNCHANGED files, Derived(tree') PROVE Goal
    <2>1. Apart(Held', used') /\ Clean'
        BY <1>c, <1>d, DerivedRequest
    <2> QED
        BY <2>1, <1>d
<1>e. ASSUME phase = "idle", phase' = "save", Quiet, NEW t, Derived(t), NEW i \in DOMAIN t.nodes,
             t.nodes[i] \in NodeSet, NEW mode \in Modes, OpenNode(t, i, mode)
      PROVE  Goal
    <2>1. tree' = t
        BY <1>e DEF OpenNode
    <2>2. /\ DOMAIN files' \subseteq DOMAIN files \cup DOMAIN t.nodes /\ DOMAIN files \subseteq DOMAIN files'
          /\ \A j \in DOMAIN files : /\ files'[j].start = files[j].start /\ files'[j].count = files[j].count
                                     /\ files'[j].dirty = files[j].dirty
          /\ \A j \in DOMAIN files' \ DOMAIN files :
               /\ files'[j].start = t.nodes[j].start /\ files'[j].count = t.nodes[j].count /\ ~files'[j].dirty
        <3>1. CASE i \in DOMAIN files
            <4>1. files' = [files EXCEPT ![i].mode = mode, ![i].pos = 0]
                BY <3>1, <1>e DEF OpenNode
            <4>2. DOMAIN files' = DOMAIN files
                BY <4>1
            <4>3. files[i] \in FileSet
                BY <3>1, <1>0
            <4>4. files'[i].start = files[i].start /\ files'[i].count = files[i].count /\ files'[i].dirty = files[i].dirty
                BY <3>1, <4>1, <4>3 DEF FileSet
            <4>5. \A j \in DOMAIN files : j # i => files'[j] = files[j]
                BY <4>1
            <4> QED
                BY <4>2, <4>4, <4>5
        <3>2. CASE i \notin DOMAIN files
            <4> DEFINE g == LoadFile(t.nodes[i], mode)
            <4>1. g.start = t.nodes[i].start /\ g.count = t.nodes[i].count /\ ~g.dirty
                BY <1>e, FileOps
            <4>2. files' = Put(files, i, g)
                BY <3>2, <1>e DEF OpenNode
            <4> HIDE DEF g
            <4>3. DOMAIN files' = DOMAIN files \cup {i} /\ files'[i] = g
                BY <4>2 DEF Put
            <4>4. \A j \in DOMAIN files : files'[j] = files[j]
                BY <3>2, <4>2 DEF Put
            <4> QED
                BY <4>1, <4>3, <4>4, <1>e
        <3> QED
            BY <3>1, <3>2
    <2>3. Apart(Held', used') /\ Clean'
        BY <2>1, <2>2, <1>c, <1>e, DerivedRequest
    <2> QED
        BY <2>3, <1>e
<1>f. ASSUME NEW path \in Paths, NEW dir \in BOOLEAN, CanCreate(path)
      PROVE  LET u == Create(tree, Lookup(tree, Front(path)), Last(path), dir)
             IN  Derived(u) /\ \A i \in DOMAIN u.nodes : u.nodes[i] \in NodeSet
    <2> DEFINE p == Lookup(tree, Front(path))
               x == Last(path)
               u == Create(tree, p, x, dir)
    <2>1. p # NoInode
        BY <1>f DEF CanCreate
    <2>2. Front(path) \in Seq(Labels) /\ x \in Labels
        BY <2>1, PathLabels, SplitPath
    <2>3. p \in DOMAIN tree.nodes
        BY <2>1, <2>2, LookupExists
    <2> HIDE DEF p, x
    <2>4. Derived(u) /\ TreeTyped(u)
        BY <2>2, <2>3, <1>0, CreateDerived, CreateIs
    <2> HIDE DEF u
    <2>5. \A i \in DOMAIN u.nodes : u.nodes[i] \in NodeSet
        BY <2>4, TableIs DEF TreeTyped
    <2> QED
        BY <2>4, <2>5 DEF u, p, x
<1>g. \A path \in Paths : Lookup(tree, path) # NoInode => Lookup(tree, path) \in DOMAIN tree.nodes
    BY PathLabels, LookupExists
<1>1. ASSUME NEW path \in Paths, NEW mode \in Modes, HandleOpen(path, mode) PROVE Goal
    <2> DEFINE i == Lookup(tree, path)
    <2>1. i \in DOMAIN tree.nodes /\ phase = "idle" /\ phase' = "save" /\ Quiet
        BY <1>1, <1>g DEF HandleOpen, Serve
    <2>2. CASE tree.nodes[i].dir
        <3>1. UNCHANGED <<tree, files>>
            BY <2>2, <1>1 DEF HandleOpen
        <3>2. Derived(tree')
            BY <3>1, <1>b DEF Derived
        <3> QED
            BY <2>1, <3>1, <3>2, <1>d
    <2>3. CASE ~tree.nodes[i].dir
        <3>1. OpenNode(tree, i, mode)
            BY <2>3, <1>1 DEF HandleOpen
        <3> HIDE DEF i
        <3> QED
            BY <2>1, <3>1, <1>0, <1>b, <1>e
    <2> QED
        BY <2>2, <2>3
<1>2. ASSUME NEW path \in Paths, NEW mode \in Modes, HandleOpenCreate(path, mode) PROVE Goal
    <2> DEFINE no == FALSE
               t == Create(tree, Lookup(tree, Front(path)), Last(path), no)
               i == Lookup(t, path)
    <2>1. /\ phase = "idle" /\ phase' = "save" /\ Quiet /\ CanCreate(path) /\ no \in BOOLEAN
          /\ IF i = NoInode THEN tree' = t /\ UNCHANGED <<files, fds, nextFd>> ELSE OpenNode(t, i, mode)
        BY <1>2 DEF HandleOpenCreate, Serve
    <2> HIDE DEF no
    <2>2. Derived(t) /\ \A j \in DOMAIN t.nodes : t.nodes[j] \in NodeSet
        BY <2>1, <1>f
    <2> HIDE DEF t
    <2>3. CASE i = NoInode
        <3>1. Derived(tree') /\ UNCHANGED files
            BY <2>1, <2>2, <2>3 DEF Derived
        <3> QED
            BY <2>1, <3>1, <1>d
    <2>4. CASE i # NoInode
        <3>1. i \in DOMAIN t.nodes
            BY <2>4, PathLabels, LookupExists
        <3>2. OpenNode(t, i, mode)
            BY <2>1, <2>4
        <3> HIDE DEF i
        <3> QED
            BY <2>1, <2>2, <3>1, <3>2, <1>e
    <2> QED
        BY <2>3, <2>4
<1>3. ASSUME NEW fd \in FirstFd .. MaxFd - 1, HandleClose(fd) PROVE Goal
    <2>1. Derived(tree')
        BY <1>3, <1>b DEF HandleClose, Derived
    <2> QED
        BY <1>3, <2>1, <1>d DEF HandleClose, Serve
<1>4. ASSUME NEW fd \in FirstFd .. MaxFd - 1, HandleCloseWithResponse(fd) PROVE Goal
    <2>1. fds[fd] \in DOMAIN files /\ files[fds[fd]].dirty /\ phase = "idle" /\ damaged = {}
        BY <1>4, <1>0 DEF HandleCloseWithResponse, Serve
    <2>2. current = NoInode /\ fds[fd] # NoInode
        BY <2>1, <1>0 DEF FileInv, NoInode
    <2> QED
        BY <2>1, <2>2, <1>a DEF Clean
<1>h. ASSUME NEW i \in DOMAIN files, NEW g, files' = [files EXCEPT ![i] = g],
             g.start = files[i].start, g.count = files[i].count, g.dirty = files[i].dirty,
             phase = "idle", phase' = "save", Quiet, UNCHANGED tree
      PROVE  Goal
    <2>1. DOMAIN files' = DOMAIN files /\ files'[i] = g /\ \A j \in DOMAIN files : j # i => files'[j] = files[j]
        BY <1>h
    <2>2. \A j \in DOMAIN files : /\ files'[j].start = files[j].start /\ files'[j].count = files[j].count
                                 /\ files'[j].dirty = files[j].dirty
        BY <2>1, <1>h
    <2>3. Derived(tree')
        BY <1>h, <1>b, <2>1 DEF Derived
    <2>4. /\ DOMAIN files' \subseteq DOMAIN files \cup DOMAIN tree'.nodes /\ DOMAIN files \subseteq DOMAIN files'
          /\ DOMAIN files' \ DOMAIN files = {}
        BY <2>1
    <2>5. Apart(Held', used') /\ Clean'
        BY <2>2, <2>3, <2>4, <1>c, <1>h, DerivedRequest
    <2> QED
        BY <2>5, <1>h
<1>5. ASSUME NEW fd \in FirstFd .. MaxFd - 1, NEW n \in 1 .. MaxLen, HandleRead(fd, n) PROVE Goal
    <2> DEFINE i == fds[fd]
               g == ReadFile(files[i], n)
    <2>1. /\ phase' = "save" /\ i \in DOMAIN files /\ Quiet /\ phase = "idle"
          /\ files' = [files EXCEPT ![i] = g] /\ UNCHANGED tree
        BY <1>5, <1>0 DEF HandleRead, Serve
    <2>2. files[i] \in FileSet /\ n \in Nat
        BY <2>1, <1>0, FileAssumption
    <2>3. g.start = files[i].start /\ g.count = files[i].count /\ g.dirty = files[i].dirty
        BY <2>2, FileOps
    <2> HIDE DEF g, i
    <2> QED
        BY <2>1, <2>3, <1>h
<1>6. ASSUME NEW fd \in FirstFd .. MaxFd - 1, NEW n \in 1 .. MaxLen, HandleWrite(fd, n) PROVE Goal
    <2> DEFINE k == fds[fd]
               f == files[k]
               g == WriteFile(f, n)
    <2>1. /\ phase = "idle" /\ phase' = "sync" /\ k \in DOMAIN files /\ current' = k /\ damaged = {}
          /\ files' = [files EXCEPT ![k] = g] /\ UNCHANGED <<tree, saved>> /\ used' = FreeOld(f)
        BY <1>6, <1>0 DEF HandleWrite
    <2>2. current = NoInode /\ NoInode \notin Nat /\ k \in Nat
        BY <2>1, <1>0 DEF FileInv, NoInode
    <2>3. k \in DOMAIN Held /\ Held[k] = Blocks(f)
        BY <2>1, <2>2 DEF Held, Holders, Holds
    <2>4. used' = used \ Blocks(f)
        BY <2>1 DEF FreeOld, FreeSectors, Blocks
    <2> HIDE DEF g, f, k
    <2>5. DOMAIN files' = DOMAIN files /\ \A i \in DOMAIN files : i # k => files'[i] = files[i]
        BY <2>1
    <2>6. \A i \in DOMAIN Held' : i # k /\ i \in DOMAIN Held /\ Held'[i] = Held[i]
        BY <2>1, <2>2, <2>5, <1>0 DEF Held, Holders, Holds
    <2>7. Apart(Held', used')
        BY <2>1, <2>3, <2>4, <2>6, <1>a, ApartDrop
    <2>8. Clean'
        BY <2>1, <2>2, <2>5, <1>0, <1>a DEF Clean, Exists
    <2> QED
        BY <2>1, <2>7, <2>8
<1>7. ASSUME NEW fd \in FirstFd .. MaxFd - 1, HandleSeek(fd, 0) PROVE Goal
    <2> DEFINE i == fds[fd]
               g == [files[i] EXCEPT !.pos = 0]
    <2>1. phase' = "save" /\ i \in DOMAIN files /\ Quiet /\ phase = "idle" /\ UNCHANGED tree
        BY <1>7, <1>0 DEF HandleSeek, Serve
    <2>2. files' = [files EXCEPT ![i] = g]
        BY <1>7, <1>0, <2>1 DEF HandleSeek, FileSet
    <2>3. g.start = files[i].start /\ g.count = files[i].count /\ g.dirty = files[i].dirty
        BY <2>1, <1>0 DEF FileSet
    <2> HIDE DEF g, i
    <2> QED
        BY <2>1, <2>2, <2>3, <1>h
<1>8. ASSUME NEW path \in Paths, HandleMkdir(path) PROVE Goal
    <2> DEFINE yes == TRUE
               t == Create(tree, Lookup(tree, Front(path)), Last(path), yes)
    <2>1. /\ phase = "idle" /\ phase' = "save" /\ Quiet /\ CanCreate(path) /\ yes \in BOOLEAN
          /\ UNCHANGED files /\ tree' = t
        BY <1>8 DEF HandleMkdir, Serve
    <2> HIDE DEF yes
    <2>2. Derived(t)
        BY <2>1, <1>f
    <2> HIDE DEF t
    <2>3. Derived(tree')
        BY <2>1, <2>2 DEF Derived
    <2> QED
        BY <2>1, <2>3, <1>d
<1>9. ASSUME NEW path \in Paths, HandleDelete(path) \/ HandleRmdir(path) PROVE Goal
    <2> DEFINE i == Lookup(tree, path)
               t == Delete(tree, i)
    <2>1. i \in DOMAIN tree.nodes /\ phase = "idle" /\ phase' = "save" /\ Quiet /\ UNCHANGED files /\ tree' = t
        BY <1>9, <1>g DEF HandleDelete, HandleRmdir, Serve
    <2> HIDE DEF i
    <2>2. Derived(t)
        BY <2>1, DeleteDerived
    <2> HIDE DEF t
    <2>3. Derived(tree')
        BY <2>1, <2>2 DEF Derived
    <2> QED
        BY <2>1, <2>3, <1>d
<1>10. ASSUME HandleQuery PROVE Goal
    <2>1. Derived(tree')
        BY <1>10, <1>b DEF HandleQuery, Derived
    <2> QED
        BY <1>10, <2>1, <1>d DEF HandleQuery, Serve
<1>11. ASSUME SyncToDisk PROVE Goal
    <2> DEFINE k == current
               f == files[k]
               n == f.len
               s == FirstRun(used, n)
               g == Synced(f, used)
    <2>1. phase = "sync" /\ phase' = "save" /\ current' = NoInode /\ UNCHANGED saved
        BY <1>11 DEF SyncToDisk
    <2>2. k \in DOMAIN files /\ f \in FileSet
        BY <2>1, <1>0 DEF FileInv
    <2>3. n \in 0 .. MaxLen /\ n \in Nat
        BY <2>2, FileAssumption DEF FileSet
    <2>4. HasRun(used, n)
        BY <1>11 DEF SyncToDisk
    <2>5. /\ used' = AllocateSectors(used, n) /\ files' = [files EXCEPT ![k] = g]
          /\ tree' = SetBlocks(tree, k, s, n) /\ damaged = {}
        BY <2>4, <1>11 DEF SyncToDisk
    <2>6. s \in Sectors /\ Run(s, n) \cap used = {} /\ used' = used \cup Run(s, n)
        BY <2>3, <2>4, <2>5, FirstRunIs DEF AllocateSectors
    <2>7. g.start = s /\ g.count = n /\ ~g.dirty
        BY <2>2, <2>4, FileOps
    <2>8. s \in Nat /\ s # NoSector
        <3> HIDE DEF s
        <3> QED
            BY <2>6, NSectorsAssumption DEF Sectors, NoSector
    <2>9. Apart(Held, used) /\ Clean
        BY <2>1, <2>5, <1>a
    <2> HIDE DEF k, f, n, s, g
    <2>10. Blocks(g) = Run(s, n)
        BY <2>7, <2>8 DEF Blocks
    <2>11. DOMAIN files' = DOMAIN files /\ files'[k] = g /\ \A i \in DOMAIN files : i # k => files'[i] = files[i]
        BY <2>2, <2>5
    <2>12. /\ DOMAIN tree'.nodes = DOMAIN tree.nodes
           /\ \A i \in DOMAIN tree.nodes : i # k => tree'.nodes[i] = tree.nodes[i]
           /\ k \in DOMAIN tree.nodes => tree'.nodes[k].start = s /\ tree'.nodes[k].count = n
        <3>1. CASE k \in DOMAIN tree.nodes
            BY <3>1, <2>3, <2>5, <2>8, <1>0, SetBlocksIs
        <3>2. CASE k \notin DOMAIN tree.nodes
            BY <3>2, <2>5 DEF SetBlocks, Exists
        <3> QED
            BY <3>1, <3>2
    <2>13. DOMAIN Held = (DOMAIN files \cup DOMAIN tree.nodes) \ {k}
        BY DEF Held, Holders, k
    <2>14. DOMAIN Held' \subseteq DOMAIN files \cup DOMAIN tree.nodes
        BY <2>11, <2>12 DEF Held, Holders
    <2>15. \A i \in DOMAIN Held' : i = k => Held'[i] = Run(s, n)
        BY <2>2, <2>10, <2>11 DEF Held, Holds
    <2>16. \A i \in DOMAIN Held' : i # k => i \in DOMAIN Held /\ Held'[i] = Held[i]
        BY <2>11, <2>12, <2>13, <2>14 DEF Held, Holds
    <2>17. Apart(Held', used \cup Run(s, n))
        BY <2>6, <2>9, <2>15, <2>16, ApartPlus
    <2>18. Clean'
        <3> SUFFICES ASSUME NEW i \in DOMAIN files
                     PROVE  /\ ~files'[i].dirty
                            /\ i \in DOMAIN tree.nodes => /\ tree'.nodes[i].start = files'[i].start
                                                          /\ tree'.nodes[i].count = files'[i].count
            BY <2>11, <2>12 DEF Clean, Exists
        <3>1. CASE i = k
            BY <3>1, <2>7, <2>11, <2>12
        <3>2. CASE i # k
            BY <3>2, <2>9, <2>11, <2>12 DEF Clean, Exists, k
        <3> QED
            BY <3>1, <3>2
    <2> QED
        BY <2>1, <2>6, <2>17, <2>18
<1>12. ASSUME SaveToFile PROVE Goal
    <2>1. /\ phase = "save" /\ phase' = "idle" /\ saved'.nodes = tree.nodes /\ damaged = {}
          /\ UNCHANGED <<tree, files, used, current>>
        BY <1>12 DEF SaveToFile, Saved
    <2>2. Apart(Held, used) /\ Clean /\ current = NoInode /\ NoInode \notin Nat
        BY <2>1, <1>a DEF FileInv, NoInode
    <2>3. Apart(Held', used') /\ Clean'
        <3>1. Held' = Held
            BY <2>1 DEF Held, Holders, Holds
        <3>2. Clean'
            BY <2>1, <2>2 DEF Clean, Exists
        <3> QED
            BY <3>1, <3>2, <2>1, <2>2
    <2>4. \A i \in DOMAIN BlocksOf(tree.nodes) : i \in DOMAIN Held /\ BlocksOf(tree.nodes)[i] = Held[i]
        <3> SUFFICES ASSUME NEW i \in DOMAIN tree.nodes
                     PROVE  i \in DOMAIN Held /\ Held[i] = Blocks(tree.nodes[i])
            BY DEF BlocksOf
        <3>1. i \in DOMAIN Held
            BY <2>2, <1>0 DEF Held, Holders
        <3>2. CASE i \in DOMAIN files
            <4>1. tree.nodes[i].start = files[i].start /\ tree.nodes[i].count = files[i].count
                BY <3>2, <2>2, <1>0 DEF Clean, Exists
            <4>2. Held[i] = Blocks(files[i])
                BY <3>1, <3>2 DEF Held, Holds
            <4> QED
                BY <3>1, <4>1, <4>2, SameBlocks
        <3>3. CASE i \notin DOMAIN files
            BY <3>1, <3>3 DEF Held, Holds
        <3> QED
            BY <3>2, <3>3
    <2>5. Apart(BlocksOf(tree.nodes), used)
        BY <2>2, <2>4, ApartLess
    <2> QED
        BY <2>1, <2>3, <2>5
<1>13. ASSUME Crash PROVE Goal
    <2>1. phase = "idle" /\ damaged = {}
        BY <1>13 DEF Crash
    <2>2. saved' = saved /\ used' = used /\ phase' = "down"
        BY <1>13, <2>1 DEF Crash
    <2> QED
        BY <2>1, <2>2 DEF DiskInv
<1>14. ASSUME Restart PROVE Goal
    <2> DEFINE t == Imported(Booted)
               i == Lookup(t, Host)
               s == FirstRun(used, 1)
    <2>1. /\ phase = "down" /\ phase' = "idle" /\ UNCHANGED <<files, fds, nextFd, saved, current>> /\ damaged = {}
          /\ IF i # NoInode /\ Blocks(t.nodes[i]) = {} /\ HasRun(used, 1)
             THEN used' = AllocateSectors(used, 1) /\ tree' = SetBlocks(t, i, s, 1)
             ELSE tree' = t /\ used' = used
        BY <1>14 DEF Restart
    <2>2. TreeSound(t) /\ (i # NoInode => i \in DOMAIN t.nodes)
        BY ImportedSound DEF FileInv
    <2>3. Apart(BlocksOf(saved.nodes), used)
        BY <2>1 DEF DiskInv
    <2>4. Apart(BlocksOf(t.nodes), used)
        BY <2>3, ImportedApart DEF FileInv
    <2> HIDE DEF t, i
    <2>5. Apart(BlocksOf(tree'.nodes), used') /\ used \subseteq used'
        <3>1. CASE i # NoInode /\ Blocks(t.nodes[i]) = {} /\ HasRun(used, 1)
            <4> DEFINE one == 1
                       u == SetBlocks(t, i, s, one)
            <4>1. s \in Sectors /\ Run(s, one) \cap used = {} /\ used' = used \cup Run(s, one)
                BY <3>1, <2>1, FirstRunIs DEF AllocateSectors
            <4> HIDE DEF s
            <4>2. s \in Nat /\ s # NoSector /\ one \in 0 .. MaxLen /\ tree' = u
                BY <3>1, <2>1, <4>1, NSectorsAssumption, FileAssumption DEF Sectors, NoSector
            <4> HIDE DEF one
            <4>3. TreeTyped(t) /\ i \in DOMAIN t.nodes
                BY <3>1, <2>2 DEF TreeSound
            <4>4. /\ DOMAIN u.nodes = DOMAIN t.nodes
                  /\ \A j \in DOMAIN t.nodes : j # i => u.nodes[j] = t.nodes[j]
                  /\ u.nodes[i].start = s /\ u.nodes[i].count = one
                BY <4>2, <4>3, SetBlocksIs
            <4> HIDE DEF u
            <4>5. Blocks(u.nodes[i]) = Run(s, one)
                BY <4>2, <4>4 DEF Blocks
            <4>6. \A j \in DOMAIN BlocksOf(u.nodes) :
                    \/ j = i /\ BlocksOf(u.nodes)[j] = Run(s, one)
                    \/ /\ j # i /\ j \in DOMAIN BlocksOf(t.nodes)
                       /\ BlocksOf(u.nodes)[j] = BlocksOf(t.nodes)[j]
                BY <4>4, <4>5 DEF BlocksOf
            <4>7. Apart(BlocksOf(u.nodes), used \cup Run(s, one))
                BY <4>1, <4>6, <2>4, ApartPlus
            <4> QED
                BY <4>1, <4>2, <4>7
        <3>2. CASE ~(i # NoInode /\ Blocks(t.nodes[i]) = {} /\ HasRun(used, 1))
            BY <3>2, <2>1, <2>4
        <3> QED
            BY <3>1, <3>2
    <2>6. DOMAIN files' = {}
        BY <2>1 DEF FileInv
    <2>7. \A j \in DOMAIN Held' : j \in DOMAIN BlocksOf(tree'.nodes) /\ Held'[j] = BlocksOf(tree'.nodes)[j]
        BY <2>6 DEF Held, Holders, Holds, BlocksOf
    <2>8. Apart(Held', used')
        BY <2>5, <2>7, ApartLess
    <2>9. Clean'
        BY <2>6 DEF Clean
    <2>10. Apart(BlocksOf(saved'.nodes), used')
        <3>1. saved' = saved
            BY <2>1
        <3>2. \A j \in DOMAIN BlocksOf(saved.nodes) : j \in DOMAIN BlocksOf(saved.nodes)
            OBVIOUS
        <3> QED
            BY <3>1, <2>3, <2>5, ApartLess
    <2> QED
        BY <2>8, <2>9, <2>10
<1>15. ASSUME UNCHANGED fileVars PROVE Goal
    <2>1. /\ UNCHANGED <<tree, files, used, saved, phase, current, damaged>>
        BY <1>15 DEF fileVars
    <2>2. Held' = Held
        BY <2>1 DEF Held, Holders, Holds
    <2>3. Clean <=> Clean'
        BY <2>1 DEF Clean, Exists
    <2> QED
        BY <2>1, <2>2, <2>3 DEF DiskInv
<1> QED
    BY <1>1, <1>2, <1>3, <1>4, <1>5, <1>6, <1>7, <1>8, <1>9, <1>10, <1>11, <1>12, <1>13, <1>14,
       <1>15 DEF FileNext

\* sync_to_disk, load_from_disk and the import at a restart: unless an allocation failed or
\* a crash hit a request half-way, every file's sectors are in use and nobody else's.
THEOREM SectorsStayOwned == FileSpec => []SectorsOwned
BY FileInitInv, FileStep, DiskInitInv, DiskStep, DiskInvIs, PTL DEF FileSpec

\* handle_write and open: ... and a cached file is clean and agrees with its node.
THEOREM CacheStaysClean == FileSpec => []CacheClean
BY FileInitInv, FileStep, DiskInitInv, DiskStep, DiskInvIs, PTL DEF FileSpec

------------------------------------------------------------------------------
(* Restarts.                                                                 *)

\* A tree with all the names of another one, leading to the same nodes.
Covers(u, t) ==
    \A i \in DOMAIN t.nodes :
        /\ i \in DOMAIN u.nodes
        /\ \A x \in DOMAIN t.nodes[i].children :
             /\ x \in DOMAIN u.nodes[i].children
             /\ u.nodes[i].children[x] = t.nodes[i].children[x]

\* What a path led to, it leads to in a tree with more names.
LEMMA CoversLookup ==
    ASSUME NEW t, NEW u, Covers(u, t), NEW path \in Seq(Labels), Lookup(t, path) # NoInode
    PROVE  Lookup(u, path) = Lookup(t, path)
<1> DEFINE w == CHOOSE walk \in Walks(t, path) : TRUE
           n == Len(path)
<1>1. Root \in DOMAIN t.nodes /\ Walks(t, path) # {} /\ Lookup(t, path) = At(w, n)
    BY DEF Lookup, Exists
<1>2. w \in Walks(t, path)
    BY <1>1
<1> HIDE DEF w
<1>3. /\ w \in [1 .. n -> DOMAIN t.nodes] /\ n \in Nat
      /\ \A k \in 1 .. n : LET children == t.nodes[At(w, k - 1)].children
                          IN  path[k] \in DOMAIN children /\ children[path[k]] = w[k]
    BY <1>2 DEF Walks
<1>4. w \in [1 .. n -> DOMAIN u.nodes]
    BY <1>3 DEF Covers
<1>5. \A k \in 1 .. n : At(w, k - 1) \in DOMAIN t.nodes
    BY <1>1, <1>3 DEF At
<1>6. \A k \in 1 .. n : LET children == u.nodes[At(w, k - 1)].children
                       IN  path[k] \in DOMAIN children /\ children[path[k]] = w[k]
    BY <1>3, <1>5 DEF Covers
<1>7. w \in Walks(u, path)
    BY <1>4, <1>6 DEF Walks
<1>8. Root \in DOMAIN u.nodes
    BY <1>1 DEF Covers
<1> QED
    BY <1>1, <1>7, <1>8, LookupIs

\* A restart that finds a readable file begins with a tree that covers the saved one and has
\* the data of its nodes but, perhaps, the root's.
LEMMA ImportedKeeps ==
    ASSUME SavedSound(saved.nodes), saved.ok, NEW s, s.nodes = saved.nodes
    PROVE  /\ Covers(Imported(Booted), s)
           /\ \A i \in DOMAIN s.nodes : i # Root =>
                 /\ Imported(Booted).nodes[i].start = s.nodes[i].start
                 /\ Imported(Booted).nodes[i].count = s.nodes[i].count
<1> DEFINE b == Booted
           t == Imported(b)
           p == Lookup(b, Front(Host))
<1>1. /\ \A i \in DOMAIN s.nodes : i \in DOMAIN b.nodes /\ (i # Root => b.nodes[i] = s.nodes[i])
      /\ Root \in DOMAIN s.nodes => b.nodes[Root].children = s.nodes[Root].children
    BY LoadIs DEF Booted
<1>2. TreeSound(b) /\ TreeTyped(b)
    BY ImportedSound DEF TreeSound
<1> HIDE DEF b
<1>3. Covers(b, s)
    <2>1. \A i \in DOMAIN s.nodes : b.nodes[i].children = s.nodes[i].children
        BY <1>1
    <2> QED
        BY <1>1, <2>1 DEF Covers
<1>4. Host # <<>> /\ Front(Host) \in Seq(Labels) /\ Last(Host) \in Labels
    BY PathLabels, SplitPath
<1>5. CASE t = b
    BY <1>1, <1>3, <1>5 DEF b
<1>6. CASE p # NoInode /\ t = Create(b, p, Last(Host), FALSE)
    <2> DEFINE no == FALSE
               x == Last(Host)
               u == Create(b, p, x, no)
    <2>1. p \in DOMAIN b.nodes /\ no \in BOOLEAN /\ t = u /\ x \in Labels
        BY <1>4, <1>6, LookupExists
    <2> HIDE DEF no, p, x
    <2>2. /\ DOMAIN u.nodes = DOMAIN b.nodes \cup {b.next}
          /\ \A i \in DOMAIN b.nodes : SameNode(u.nodes[i], b.nodes[i])
          /\ \A i \in DOMAIN b.nodes : i # p => u.nodes[i] = b.nodes[i]
          /\ ~CanAdd(b, p, x) => u.nodes[p] = b.nodes[p]
          /\ CanAdd(b, p, x) => u.nodes[p].children = Put(b.nodes[p].children, x, b.next)
        BY <1>2, <2>1, CreateIs
    <2> HIDE DEF u
    <2>3. \A y \in DOMAIN b.nodes[p].children :
             y \in DOMAIN u.nodes[p].children /\ u.nodes[p].children[y] = b.nodes[p].children[y]
        <3>1. CASE CanAdd(b, p, x)
            <4>1. x \notin DOMAIN b.nodes[p].children
                BY <3>1 DEF CanAdd
            <4> QED
                BY <3>1, <4>1, <2>2 DEF Put
        <3>2. CASE ~CanAdd(b, p, x)
            BY <3>2, <2>2
        <3> QED
            BY <3>1, <3>2
    <2>4. Covers(u, s)
        <3> SUFFICES ASSUME NEW i \in DOMAIN s.nodes, NEW y \in DOMAIN s.nodes[i].children
                     PROVE  /\ y \in DOMAIN u.nodes[i].children
                            /\ u.nodes[i].children[y] = s.nodes[i].children[y]
            BY <1>1, <2>2 DEF Covers
        <3>1. i \in DOMAIN b.nodes /\ y \in DOMAIN b.nodes[i].children /\ b.nodes[i].children[y] = s.nodes[i].children[y]
            BY <1>3 DEF Covers
        <3> QED
            BY <3>1, <2>2, <2>3
    <2>5. \A i \in DOMAIN s.nodes : i # Root => u.nodes[i].start = s.nodes[i].start /\ u.nodes[i].count = s.nodes[i].count
        BY <1>1, <2>2 DEF SameNode
    <2> QED
        BY <2>1, <2>4, <2>5 DEF b
<1> QED
    BY <1>5, <1>6 DEF Imported, b

\* load_from_file and import_host_files: a restart that finds the saved tree brings back
\* every path of it, leading to the same node with the same data.
THEOREM RestartsKeepTheTree == FileSpec => RestartKeepsTree
<1> DEFINE s == [nodes |-> saved.nodes, next |-> 0]
           A == phase = "down" /\ phase' = "idle" /\ saved.ok =>
                  \A path \in Paths :
                     LET i == Lookup(s, path)
                     IN  i # NoInode =>
                           /\ Lookup(tree', path) = i
                           /\ saved.nodes[i].count > 0 => /\ tree'.nodes[i].start = saved.nodes[i].start
                                                    /\ tree'.nodes[i].count = saved.nodes[i].count
<1>1. FileInv /\ [FileNext]_fileVars => [A]_fileVars
    <2> SUFFICES ASSUME FileInv, FileNext, phase = "down", phase' = "idle", saved.ok,
                        NEW path \in Paths, Lookup(s, path) # NoInode
                 PROVE  LET i == Lookup(s, path)
                        IN  /\ Lookup(tree', path) = i
                            /\ saved.nodes[i].count > 0 => /\ tree'.nodes[i].start = saved.nodes[i].start
                                                           /\ tree'.nodes[i].count = saved.nodes[i].count
        OBVIOUS
    <2> DEFINE t == Imported(Booted)
               h == Lookup(t, Host)
               r == FirstRun(used, 1)
               i == Lookup(s, path)
    <2>1. Restart
        BY DEF FileNext, HandleOpen, HandleOpenCreate, HandleClose, HandleCloseWithResponse, HandleRead,
               HandleWrite, HandleSeek, HandleMkdir, HandleDelete, HandleRmdir, HandleQuery, Serve,
               SyncToDisk, SaveToFile, Crash
    <2>2. SavedSound(saved.nodes) /\ s.nodes = saved.nodes /\ path \in Seq(Labels)
        BY PathLabels DEF FileInv
    <2>3. i \in DOMAIN saved.nodes
        BY <2>2, LookupExists
    <2>4. /\ Covers(t, s)
          /\ \A j \in DOMAIN s.nodes : j # Root =>
               t.nodes[j].start = s.nodes[j].start /\ t.nodes[j].count = s.nodes[j].count
        BY <2>2, ImportedKeeps
    <2>5. TreeSound(t) /\ TreeTyped(t) /\ (h # NoInode => h \in DOMAIN t.nodes)
        BY <2>2, ImportedSound DEF TreeSound
    <2>6. Standard(saved.nodes)
        BY <2>2 DEF SavedSound, TreeSound
    <2>7. ASSUME saved.nodes[i].count > 0
          PROVE  /\ t.nodes[i].start = saved.nodes[i].start /\ t.nodes[i].count = saved.nodes[i].count
                 /\ Blocks(t.nodes[i]) # {}
        <3>1. i # Root /\ saved.nodes[i].start # NoSector
            BY <2>3, <2>6, <2>7 DEF Standard
        <3>2. t.nodes[i].start = saved.nodes[i].start /\ t.nodes[i].count = saved.nodes[i].count
            BY <2>2, <2>3, <2>4, <3>1
        <3>3. t.nodes[i] \in NodeSet
            <4>1. i \in DOMAIN t.nodes
                BY <2>2, <2>3, <2>4 DEF Covers
            <4> QED
                BY <4>1, <2>5, TableIs DEF TreeTyped
        <3>4. t.nodes[i].start \in Nat /\ t.nodes[i].count \in Nat /\ t.nodes[i].count > 0
            BY <3>2, <3>3, <2>7, FileAssumption DEF NodeSet
        <3>5. t.nodes[i].start \in Blocks(t.nodes[i])
            BY <3>1, <3>2, <3>4 DEF Blocks, Run
        <3> QED
            BY <3>2, <3>5
    <2> HIDE DEF s
    <2>8. CASE h # NoInode /\ Blocks(t.nodes[h]) = {} /\ HasRun(used, 1)
        <3> DEFINE one == 1
                   u == SetBlocks(t, h, r, one)
        <3>1. tree' = u /\ one \in 0 .. MaxLen
            BY <2>1, <2>8, FileAssumption DEF Restart
        <3>2. r \in Nat
            <4>1. r \in Sectors
                BY <2>8, FirstRunIs
            <4> HIDE DEF r
            <4> QED
                BY <4>1, NSectorsAssumption DEF Sectors
        <3> HIDE DEF t, h, r, one
        <3>3. h \in DOMAIN t.nodes
            BY <2>5, <2>8
        <3>4. /\ DOMAIN u.nodes = DOMAIN t.nodes
              /\ \A j \in DOMAIN t.nodes : j # h => u.nodes[j] = t.nodes[j]
              /\ u.nodes[h].children = t.nodes[h].children
            BY <2>5, <3>1, <3>2, <3>3, SetBlocksIs
        <3> HIDE DEF u
        <3>5. Covers(u, s)
            <4>1. \A j \in DOMAIN t.nodes : u.nodes[j].children = t.nodes[j].children
                BY <3>4
            <4> QED
                BY <4>1, <3>4, <2>4 DEF Covers
        <3>6. Lookup(u, path) = i
            BY <2>2, <3>5, CoversLookup
        <3>7. i \in DOMAIN t.nodes
            BY <2>2, <2>3, <2>4 DEF Covers
        <3> HIDE DEF i
        <3>8. saved.nodes[i].count > 0 => u.nodes[i] = t.nodes[i]
            BY <2>7, <2>8, <3>4, <3>7
        <3> QED
            BY <2>7, <3>1, <3>6, <3>8 DEF i
    <2>9. CASE ~(h # NoInode /\ Blocks(t.nodes[h]) = {} /\ HasRun(used, 1))
        <3>1. tree' = t
            BY <2>1, <2>9 DEF Restart
        <3> HIDE DEF t
        <3>2. Lookup(t, path) = i
            BY <2>2, <2>4, CoversLookup
        <3> HIDE DEF i
        <3> QED
            BY <2>7, <3>1, <3>2 DEF i
    <2> QED
        BY <2>8, <2>9
<1>2. RestartKeepsTree <=> [][A]_fileVars
    BY DEF RestartKeepsTree
<1> HIDE DEF A
<1> QED
    BY <1>1, <1>2, FileInitInv, FileStep, PTL DEF FileSpec
=============================================================================
