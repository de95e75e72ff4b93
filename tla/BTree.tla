------------------------------- MODULE BTree --------------------------------
(***************************************************************************)
(* src/Btree/btree.cc: a B-tree that splits full nodes on the way down,    *)
(* and the benchmark that builds it and then inserts the keys a search     *)
(* does not find.                                                          *)
(*                                                                         *)
(* A call of insertNonFull on one node is a step, so that the tree is seen *)
(* between a split and the insertion it makes room for.  Memory that new   *)
(* does not initialise holds UNINIT; nodes are never freed.  The redo      *)
(* records the code appends to log are written and never read: left out.   *)
(***************************************************************************)
EXTENDS Integers, FiniteSets, FiniteSetsExt

CONSTANTS
  Key,       \* keys, a set of numbers
  T,         \* t, the minimum degree (3 in the code)
  SIZE,      \* size: keys inserted by buildTree
  OPS,       \* ops: searches of main
  NULL,      \* the null pointer
  UNINIT     \* what uninitialised memory holds

ASSUME TreeAssumption == /\ Key \subseteq Nat /\ Key # {}
                         /\ T \in Nat /\ T >= 2
                         /\ SIZE \in Nat /\ OPS \in Nat
                         /\ NULL \notin Nat /\ UNINIT \notin Nat /\ NULL # UNINIT

VARIABLES
  node,       \* the heap: a function from the nodes allocated, 1, 2, ...
  root,       \* BTree::root
  pc,         \* "idle", or "insertNonFull" when a call is under way
  this, k,    \* the node of the call and its argument
  top,        \* s, the new root of an insert that split the old one, or NULL
  built, done,  \* iterations of the loops of buildTree and main
  inserted    \* history: how often each key was given to insert

vars == <<node, root, pc, this, k, top, built, done, inserted>>

FULL == 2 * T - 1
Slot == 0 .. FULL - 1

\* new BTreeNode(t, isleaf)
NewNode(isleaf) == [keys |-> [j \in Slot |-> UNINIT],
                    C    |-> [j \in 0 .. FULL |-> UNINIT],
                    n    |-> 0,
                    leaf |-> isleaf]

Fresh == Cardinality(DOMAIN node) + 1

\* heap with one more node.
Alloc(heap, id, record) ==
  [x \in DOMAIN heap \cup {id} |-> IF x = id THEN record ELSE heap[x]]

IsFull(heap, x) == heap[x].n = FULL

-----------------------------------------------------------------------------
(***************************************************************************)
(* splitChild: the upper T - 1 keys (and T children) of the child y at     *)
(* place i of x move to a new node z, the key in the middle moves up to x. *)
(* y keeps the old words beyond its new n.                                 *)
(***************************************************************************)
\* For mutation: a half that is one key too long.
HalfUp == T

Half == T - 1

\* For mutation: children from one place too low.
UpperChildLow(y, j) == y.C[j + T - 1]

UpperKey(y, j)   == y.keys[j + T]
UpperChild(y, j) == y.C[j + T]

Upper(y) ==
  [NewNode(y.leaf) EXCEPT
     !.n    = Half,
     !.keys = [j \in Slot |-> IF j < T - 1 THEN UpperKey(y, j) ELSE @[j]],
     !.C    = [j \in 0 .. FULL |-> IF ~y.leaf /\ j < T THEN UpperChild(y, j) ELSE @[j]]]

\* For mutation: the middle key stays in y as well.
LowerWithMiddle(y) == [y EXCEPT !.n = Half + 1]

Lower(y) == [y EXCEPT !.n = Half]

\* The n first entries of an array with one more, put at place i.
Put(array, n, i, entry) ==
  [j \in DOMAIN array |-> CASE j = i            -> entry
                            [] j > i /\ j <= n  -> array[j - 1]
                            [] OTHER            -> array[j]]

\* x with key at place i and child z behind it.
Extended(x, i, key, z) ==
  [x EXCEPT !.n = @ + 1, !.keys = Put(@, x.n, i, key), !.C = Put(@, x.n + 1, i + 1, z)]

SplitChild(heap, x, i, z) ==
  LET y == heap[x].C[i]
  IN  [Alloc(heap, z, Upper(heap[y])) EXCEPT
         ![y] = Lower(@),
         ![x] = Extended(@, i, heap[y].keys[T - 1], z)]

\* For mutation: the place is never moved past the new key; one key too few is
\* looked at.
SideLeft(x, i, key) == i
LastNotGreaterButOne(x, key) == Max({-1} \cup {j \in 0 .. x.n - 2 : x.keys[j] <= key})

\* Which of the two halves of child i gets the key.
Side(x, i, key) == IF x.keys[i] < key THEN i + 1 ELSE i

\* The rightmost place of x whose key is not greater than key, or -1.
LastNotGreater(x, key) == Max({-1} \cup {j \in 0 .. x.n - 1 : x.keys[j] <= key})

\* A leaf with key put behind the keys that are not greater.
WithKey(x, key) ==
  [x EXCEPT !.keys = Put(@, x.n, LastNotGreater(x, key) + 1, key), !.n = @ + 1]

-----------------------------------------------------------------------------
Init ==
  /\ node = [x \in {} |-> NewNode(TRUE)]
  /\ root = NULL
  /\ pc = "idle"
  /\ this = NULL /\ k = 0 /\ top = NULL
  /\ built = 0 /\ done = 0
  /\ inserted = [key \in Key |-> 0]

\* BTree::insert(key), up to its call of insertNonFull.
InsertEmpty(key) ==
  /\ root = NULL
  /\ node' = Alloc(node, Fresh, [NewNode(TRUE) EXCEPT !.keys[0] = key, !.n = 1])
  /\ root' = Fresh
  /\ UNCHANGED <<pc, this, k, top>>

InsertFullRoot(key) ==
  /\ root # NULL
  /\ IsFull(node, root)
  /\ LET s     == Fresh
         heap  == Alloc(node, s, [NewNode(FALSE) EXCEPT !.C[0] = root])
         split == SplitChild(heap, s, 0, s + 1)
     IN  /\ node' = split
         /\ top' = s
         /\ this' = split[s].C[Side(split[s], 0, key)]
  /\ k' = key
  /\ pc' = "insertNonFull"
  /\ root' = root

InsertRoot(key) ==
  /\ root # NULL
  /\ ~IsFull(node, root)
  /\ this' = root /\ k' = key /\ top' = NULL
  /\ pc' = "insertNonFull"
  /\ UNCHANGED <<node, root>>

Insert(key) ==
  /\ InsertEmpty(key) \/ InsertFullRoot(key) \/ InsertRoot(key)
  /\ inserted' = [inserted EXCEPT ![key] = @ + 1]

\* insertNonFull on a leaf; when the calls return, insert makes s the root.
InsertNonFullLeaf ==
  /\ pc = "insertNonFull"
  /\ node[this].leaf
  /\ node' = [node EXCEPT ![this] = WithKey(@, k)]
  /\ root' = IF top = NULL THEN root ELSE top
  /\ pc' = "idle"
  /\ this' = NULL /\ k' = 0 /\ top' = NULL
  /\ UNCHANGED <<built, done, inserted>>

\* insertNonFull on an inner node.  The child on the way to the place of the
\* key: if it is full it is split first.
ChildPlace == LastNotGreater(node[this], k) + 1

\* For mutation: the call on the child is missing.
DescendNowhere ==
  /\ pc = "insertNonFull"
  /\ ~node[this].leaf
  /\ ~IsFull(node, node[this].C[ChildPlace])
  /\ UNCHANGED vars

Descend ==
  /\ pc = "insertNonFull"
  /\ ~node[this].leaf
  /\ ~IsFull(node, node[this].C[ChildPlace])
  /\ this' = node[this].C[ChildPlace]
  /\ UNCHANGED <<node, root, pc, k, top, built, done, inserted>>

SplitAndDescend ==
  /\ pc = "insertNonFull"
  /\ ~node[this].leaf
  /\ IsFull(node, node[this].C[ChildPlace])
  /\ node' = SplitChild(node, this, ChildPlace, Fresh)
  /\ this' = node'[this].C[Side(node'[this], ChildPlace, k)]
  /\ UNCHANGED <<root, pc, k, top, built, done, inserted>>

\* For mutation: the search does not look below the root.
SearchRoot(key) ==
  IF root # NULL /\ \E i \in 0 .. node[root].n - 1 : node[root].keys[i] = key
    THEN {root} ELSE {NULL}

\* What BTreeNode::search(key) may return from a node.  The key at the place
\* where the scan stops is read even when it is place n: a word an earlier
\* split left there, one that was never written, or one behind the array.
Search(key) ==
  LET First(x) == Min({x.n} \cup {j \in 0 .. x.n - 1 : x.keys[j] >= key})
      Read(x)  == IF First(x) \in Slot THEN x.keys[First(x)] ELSE UNINIT
      search[x \in DOMAIN node] ==
        (IF Read(node[x]) \in {key, UNINIT} THEN {x} ELSE {})
          \cup
        (IF Read(node[x]) = key THEN {}
         ELSE IF node[x].leaf THEN {NULL} ELSE search[node[x].C[First(node[x])]])
  IN  IF root = NULL THEN {NULL} ELSE search[root]

\* buildTree inserts any keys, some more than once.
Build ==
  /\ pc = "idle"
  /\ built < SIZE
  /\ built' = built + 1
  /\ \E key \in Key : Insert(key)
  /\ done' = done

\* main inserts the keys it does not find.
Operate ==
  /\ pc = "idle"
  /\ built = SIZE
  /\ done < OPS
  /\ done' = done + 1
  /\ \E key \in Key : \E p \in Search(key) :
       IF p = NULL THEN Insert(key)
                   ELSE UNCHANGED <<node, root, pc, this, k, top, inserted>>
  /\ built' = built

InsertNonFull == InsertNonFullLeaf \/ Descend \/ SplitAndDescend

Next == Build \/ Operate \/ InsertNonFull

Spec == Init /\ [][Next]_vars

\* The program goes on with a call it is in.
FairSpec == Spec /\ WF_vars(InsertNonFull)

-----------------------------------------------------------------------------
\* The root of the tree as the call under way has it.
Top == IF top = NULL THEN root ELSE top

Children(x) == IF node[x].leaf THEN {} ELSE {node[x].C[i] : i \in 0 .. node[x].n}
KeysOf(x)   == {node[x].keys[i] : i \in 0 .. node[x].n - 1}

\* A node and the nodes under it, and the keys of them all.
NodesUnder[x \in DOMAIN node] == {x} \cup UNION {NodesUnder[c] : c \in Children(x)}
KeysUnder(x) == UNION {KeysOf(y) : y \in NodesUnder[x]}

\* The depths at which there are leaves under a node.
LeafDepths[x \in DOMAIN node] ==
  IF node[x].leaf THEN {0}
  ELSE {depth + 1 : depth \in UNION {LeafDepths[c] : c \in Children(x)}}

TypeOK ==
  /\ DOMAIN node = 1 .. Cardinality(DOMAIN node)
  /\ \A x \in DOMAIN node :
       /\ node[x].n \in 0 .. FULL
       /\ node[x].leaf \in BOOLEAN
       /\ \A i \in 0 .. node[x].n - 1 : node[x].keys[i] \in Key
  /\ root \in DOMAIN node \cup {NULL}
  /\ pc \in {"idle", "insertNonFull"}
  /\ pc = "insertNonFull" => this \in DOMAIN node /\ k \in Key
  /\ built \in 0 .. SIZE /\ done \in 0 .. OPS

\* The places in use in a heap: of keys, and of children.
KeyPlaces(heap) == {p \in (DOMAIN heap) \X Slot : p[2] < heap[p[1]].n}
LinkPlaces(heap) ==
  {p \in (DOMAIN heap) \X (0 .. FULL) : ~heap[p[1]].leaf /\ p[2] <= heap[p[1]].n}

\* Every node but the root is the child of one place, and the root of none:
\* splits neither lose nor share a subtree, also while the new root is not
\* installed yet (splitChild, insert).
OneParent ==
  \A x \in DOMAIN node :
    Cardinality({p \in LinkPlaces(node) : node[p[1]].C[p[2]] = x}) = IF x = Top THEN 0 ELSE 1

\* All leaves are equally deep (splitChild, insert).
LevelLeaves == root # NULL => Cardinality(LeafDepths[Top]) = 1

\* A node other than the root has at least T - 1 keys, the root at least one.
Occupancy ==
  \A x \in DOMAIN node : node[x].n >= (IF x = Top THEN 1 ELSE T - 1)

\* The nodes form a tree with its leaves at one depth and enough keys in each,
\* so that its height stays logarithmic whatever is inserted (splitChild, insert).
WellFormed == OneParent /\ LevelLeaves /\ Occupancy

\* The keys of a node are in order and separate the keys under its children.
Ordered ==
  \A x \in DOMAIN node : \A i \in 0 .. node[x].n - 1 :
    /\ i > 0 => node[x].keys[i - 1] <= node[x].keys[i]
    /\ ~node[x].leaf =>
         /\ \A key \in KeysUnder(node[x].C[i]) : key <= node[x].keys[i]
         /\ \A key \in KeysUnder(node[x].C[i + 1]) : key >= node[x].keys[i]

\* insertNonFull is only called on a node with room, as stated at btree.cc:31
\* and 187 (splitChild needs it too, of the node it extends), and on one where
\* the key belongs: the splits above it have not moved its place elsewhere.
RoomAndPlace ==
  pc = "insertNonFull" =>
    /\ ~IsFull(node, this)
    /\ \A x \in DOMAIN node : \A i \in 0 .. node[x].n - 1 :
         ~node[x].leaf =>
           /\ this \in NodesUnder[node[x].C[i]]     => k <= node[x].keys[i]
           /\ this \in NodesUnder[node[x].C[i + 1]] => k >= node[x].keys[i]

\* The tree holds each key as often as insert got it, but for the one whose
\* insertion is under way: no split drops or doubles a key.
ContentsKept ==
  \A key \in Key :
    Cardinality({p \in KeyPlaces(node) : node[p[1]].keys[p[2]] = key})
      = inserted[key] - (IF pc = "insertNonFull" /\ key = k THEN 1 ELSE 0)

\* A key that was inserted is found, whatever the word behind the keys of a
\* node happens to be.
PresentIsFound ==
  pc = "idle" => \A key \in Key : inserted[key] > 0 => NULL \notin Search(key)

\* search "returns NULL if k is not present" (btree.cc:43).
AbsentIsNotFound ==
  pc = "idle" => \A key \in Key : inserted[key] = 0 => Search(key) = {NULL}

\* Every insertion comes to an end: the descent reaches a leaf.
InsertReturns == (pc = "insertNonFull") ~> (pc = "idle")
=============================================================================
