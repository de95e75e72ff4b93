-------------------------- MODULE BufferBTreeProofs --------------------------
(***************************************************************************)
(* What is true of BufferBTree for every set of keys, every minimum        *)
(* degree, every number of operations and every size of the buffer,        *)
(* whatever the reads of the buffer return: the shape of the tree, that    *)
(* every word in use was written, that an insertion goes down, and that    *)
(* the reads are right until the first transfer.                           *)
(*                                                                         *)
(* The argument has two halves.  TreeInv is about the fields n, C and leaf *)
(* alone, which are ordinary memory: the nodes whose keys all stay UNINIT  *)
(* are a B-tree with one key, so the lemmas of BTreeProofs about           *)
(* splitChild hold of them, and a wrong read can only choose another child *)
(* that is there.  MemInv is about the words in the buffer and the NVM:    *)
(* every loop of the code is a loop of moves, and what a part of a step    *)
(* does to the memory is that it writes some cells and leads from one      *)
(* memory to the next (Leads), which composes over loops and steps.        *)
(***************************************************************************)
EXTENDS BufferBTree, TLAPS

\* The nodes with their fields n, C and leaf alone.
Bare == INSTANCE BTreeProofs

-----------------------------------------------------------------------------
\* The assumption, as the lemmas about a B-tree want it.
LEMMA Given ==
  /\ Bare!TreeAssumption
  /\ Key \subseteq Nat /\ Key # {}
  /\ T \in Nat /\ T >= 2
  /\ SIZE \in Nat /\ OPS \in Nat
  /\ NULL \notin Nat /\ UNINIT \notin Nat /\ NULL # UNINIT
  /\ SLOTS \in Nat \ {0}
BY BufferTreeAssumption
   DEF BufferTreeAssumption, Nodes!TreeAssumption, Bare!TreeAssumption

LEMMA Degrees ==
  /\ Nodes!FULL \in Nat /\ Nodes!FULL >= 3 /\ Nodes!FULL = 2 * T - 1
  /\ Bare!FULL = Nodes!FULL /\ Bare!Slot = Nodes!Slot
BY Given DEF Nodes!FULL, Nodes!Slot, Bare!FULL, Bare!Slot

\* What the operators of BTree do is the same in each instance.
LEMMA SameFresh == Nodes!Fresh = Bare!Fresh
BY DEF Nodes!Fresh, Bare!Fresh, Nodes!Cardinality, Bare!Cardinality

LEMMA SameOperators ==
  ASSUME NEW heap, NEW x, NEW i, NEW z
  PROVE  /\ Nodes!SplitChild(heap, x, i, z) = Bare!SplitChild(heap, x, i, z)
         /\ \A record : Nodes!Alloc(heap, x, record) = Bare!Alloc(heap, x, record)
         /\ \A isleaf : Nodes!NewNode(isleaf) = Bare!NewNode(isleaf)
         /\ Nodes!IsFull(heap, x) = Bare!IsFull(heap, x)
BY DEF Nodes!SplitChild, Bare!SplitChild, Nodes!Alloc, Bare!Alloc, Nodes!Upper, Bare!Upper,
       Nodes!NewNode, Bare!NewNode, Nodes!Half, Bare!Half, Nodes!UpperKey, Bare!UpperKey,
       Nodes!UpperChild, Bare!UpperChild, Nodes!Lower, Bare!Lower, Nodes!Extended, Bare!Extended,
       Nodes!Put, Bare!Put, Nodes!FULL, Bare!FULL, Nodes!Slot, Bare!Slot,
       Nodes!IsFull, Bare!IsFull

LEMMA SameShape == Nodes!WellFormed <=> Bare!WellFormed
BY DEF Nodes!WellFormed, Bare!WellFormed, Nodes!OneParent, Bare!OneParent,
       Nodes!LevelLeaves, Bare!LevelLeaves, Nodes!Occupancy, Bare!Occupancy,
       Nodes!Top, Bare!Top, Nodes!LinkPlaces, Bare!LinkPlaces, Nodes!LeafDepths, Bare!LeafDepths,
       Nodes!Children, Bare!Children, Nodes!FULL, Bare!FULL, Nodes!Cardinality, Bare!Cardinality

LEMMA SameDepths == Nodes!LeafDepths = Bare!LeafDepths
BY DEF Nodes!LeafDepths, Bare!LeafDepths, Nodes!Children, Bare!Children

-----------------------------------------------------------------------------
(***************************************************************************)
(* The tree whatever is read.  The keys of the nodes themselves are never  *)
(* written, so the lemmas about a B-tree hold of it with UNINIT as its     *)
(* only key; that they are all the same one counts the places in use.      *)
(***************************************************************************)
Blank(heap) == \A x \in DOMAIN heap : \A j \in Nodes!Slot : heap[x].keys[j] = UNINIT

Pointers ==
  /\ root \in DOMAIN node \cup {NULL} /\ (root = NULL => DOMAIN node = {})
  /\ top \in DOMAIN node \cup {NULL}
  /\ pc \in {"idle", "insertNonFull", "end"}
  /\ pc # "insertNonFull" => top = NULL
  /\ pc = "insertNonFull" =>
       /\ root # NULL /\ k \in Key /\ inserted[k] > 0
       /\ this \in DOMAIN node /\ node[this].n < Nodes!FULL

\* No more keys than insertions.
Used(heap) == Bare!PlacesOf(heap, UNINIT)
Few == /\ Bare!IsFiniteSet(Used(node))
       /\ Bare!Cardinality(Used(node)) + (IF pc = "insertNonFull" THEN 1 ELSE 0) <= built + done

TreeInv ==
  /\ Bare!Numbered /\ Bare!Good(node) /\ Blank(node) /\ Pointers /\ Bare!Counters
  /\ Bare!Linked(node, Bare!Top) /\ Bare!Filled(node, Bare!Top) /\ Bare!Levelled(node)
  /\ Few

\* The places a key may go to, whatever is read.
LEMMA MaxIsGreatest ==
  ASSUME NEW S, S \subseteq Int, S # {}, NEW b \in Int, \A s \in S : s <= b
  PROVE  Max(S) \in S /\ \A s \in S : s <= Max(S)
<1>1. Max(S) = Bare!Max(S)
  BY DEF Max, Bare!Max
<1> QED
  BY <1>1, Given, Bare!MaxIsGreatest

LEMMA PlaceIs ==
  ASSUME NEW m, NEW x, NEW n \in Nat, NEW key
  PROVE  /\ Place(m, x, n, key) \in -1 .. n - 1
         /\ Place(m, x, n, key) # -1 => Read(m, x, Place(m, x, n, key)) <= key
         /\ \A j \in 0 .. n - 1 : Read(m, x, j) <= key => j <= Place(m, x, n, key)
<1> DEFINE S == {-1} \cup {j \in 0 .. Rightmost(n) : Read(m, x, j) <= key}
<1>1. S \subseteq -1 .. n - 1 /\ S # {}
  BY DEF Rightmost
<1>2. S \subseteq Int /\ n - 1 \in Int /\ \A s \in S : s <= n - 1
  BY <1>1
<1>3. \A j \in 0 .. n - 1 : Read(m, x, j) <= key => j \in S
  BY DEF Rightmost
<1>4. \A s \in S : s # -1 => Read(m, x, s) <= key
  OBVIOUS
<1>5. Place(m, x, n, key) = Max(S)
  BY DEF Place
<1> HIDE DEF S
<1>6. Max(S) \in S /\ \A s \in S : s <= Max(S)
  BY <1>1, <1>2, MaxIsGreatest
<1> QED
  BY <1>1, <1>3, <1>4, <1>5, <1>6

LEMMA SideIs ==
  ASSUME NEW m, NEW x, NEW i, NEW key
  PROVE  Side(m, x, i, key) \in {i, i + 1}
BY DEF Side

LEMMA SplitStaysBlank ==
  ASSUME NEW heap, NEW x, NEW i, NEW z, Bare!CanSplit(heap, x, i, z), Blank(heap)
  PROVE  Blank(Bare!SplitChild(heap, x, i, z))
<1> DEFINE y == heap[x].C[i]
           new == Bare!SplitChild(heap, x, i, z)
<1>1. /\ y \in DOMAIN heap /\ y # x /\ x \in DOMAIN heap /\ z \notin DOMAIN heap
      /\ DOMAIN new = DOMAIN heap \cup {z}
      /\ \A v \in DOMAIN heap \ {x, y} : new[v] = heap[v]
      /\ new[y] = Bare!Lower(heap[y]) /\ new[z] = Bare!Upper(heap[y])
      /\ new[x] = Bare!Extended(heap[x], i, heap[y].keys[T - 1], z)
  BY Given, Bare!SplitIs
<1>2. Bare!IsSplit(heap, x, i, y, z, new)
  BY Given, Bare!SplitWords
<1>3. Bare!GoodNode(DOMAIN heap, heap[y]) /\ heap[y].n = Bare!FULL /\ heap[x].n \in Nat
  BY Given, <1>1, Bare!GoodNodeIs DEF Bare!CanSplit, Bare!Good, Bare!IsFull
<1> HIDE DEF y, new
<1>4. \A j \in Nodes!Slot : j \in Int /\ 0 <= j /\ j < Nodes!FULL
  BY Degrees DEF Nodes!Slot
<1>5. \A v \in DOMAIN heap : \A j \in Nodes!Slot : heap[v].keys[j] = UNINIT
  BY DEF Blank
<1>6. ASSUME NEW j \in Nodes!Slot PROVE new[z].keys[j] = UNINIT
  <2>1. CASE j < T - 1
    <3>1. j \in 0 .. T - 2 /\ j + T \in Nodes!Slot
      BY <1>4, <2>1, Degrees, Given DEF Nodes!Slot
    <3>2. new[z].keys[j] = heap[y].keys[j + T]
      BY <1>2, <3>1 DEF Bare!IsSplit
    <3> QED
      BY <1>1, <1>5, <3>1, <3>2
  <2>2. CASE ~(j < T - 1)
    <3>1. j \in Bare!Slot /\ j >= T - 1
      BY <1>4, <2>2, Degrees, Given
    <3>2. Bare!Upper(heap[y]).keys[j] = UNINIT
      BY Given, <1>3, <3>1, Bare!UpperIs
    <3> QED
      BY <1>1, <3>2
  <2> QED
    BY <2>1, <2>2
<1>7. ASSUME NEW j \in Nodes!Slot PROVE new[x].keys[j] = UNINIT
  <2>1. T - 1 \in Nodes!Slot /\ j \in Bare!Slot
    BY Degrees, Given DEF Nodes!Slot
  <2>2. j > i => j - 1 \in Nodes!Slot
    <3>1. i \in Nat
      BY <1>3 DEF Bare!CanSplit
    <3> QED
      BY <1>4, <3>1, Degrees DEF Nodes!Slot
  <2>3. new[x].keys[j] =
          IF j = i THEN heap[y].keys[T - 1]
          ELSE IF j > i /\ j <= heap[x].n THEN heap[x].keys[j - 1] ELSE heap[x].keys[j]
    BY <1>2, <2>1 DEF Bare!IsSplit
  <2> QED
    BY <1>1, <1>5, <2>1, <2>2, <2>3
<1>8. \A j \in Nodes!Slot : new[y].keys[j] = UNINIT
  BY <1>1, <1>2, <1>5 DEF Bare!IsSplit
<1> QED
  BY <1>1, <1>5, <1>6, <1>7, <1>8 DEF Blank, new

LEMMA InitIsTree == Init => TreeInv
<1> SUFFICES ASSUME Init PROVE TreeInv
  OBVIOUS
<1>1. node = [x \in {} |-> Bare!NewNode(TRUE)]
  BY SameOperators DEF Init
<1>2. Bare!Init
  BY <1>1 DEF Init, Bare!Init
<1>3. Bare!IInv /\ Bare!OrderInv
  BY Given, <1>2, Bare!InitIsGood, Bare!InitIsOrdered
<1>4. DOMAIN node = {}
  BY DEF Init
<1>5. Blank(node) /\ Pointers
  BY <1>4 DEF Init, Blank, Pointers
<1>6. Few
  <2>1. Used(node) = {}
    BY <1>4 DEF Used, Bare!PlacesOf, Bare!KeyPlaces
  <2>2. Bare!IsFiniteSet({}) /\ Bare!Cardinality({}) = 0
    BY Given, Bare!FS_EmptySet
  <2> QED
    BY <2>1, <2>2 DEF Few, Init
<1> QED
  BY <1>3, <1>5, <1>6 DEF TreeInv, Bare!IInv, Bare!OrderInv

\* insertNonFull on a leaf: one more place is in use, and the key is no longer
\* awaited.
LEMMA LeafKeepsTree ==
  ASSUME TreeInv, InsertNonFullLeaf
  PROVE  TreeInv'
<1>1. /\ this \in DOMAIN node /\ node[this].leaf /\ node[this].n < Nodes!FULL
      /\ pc = "insertNonFull" /\ Bare!Good(node) /\ root # NULL
  BY DEF TreeInv, Pointers, InsertNonFullLeaf
<1>2. /\ node' = [node EXCEPT ![this].n = @ + 1]
      /\ root' = Bare!Top /\ top' = NULL /\ pc' = "idle" /\ this' = NULL
      /\ UNCHANGED <<built, done, inserted>>
  BY DEF InsertNonFullLeaf, Bare!Top
<1>3. /\ Bare!GoodNode(DOMAIN node, node[this])
      /\ node[this] \in Bare!Record(DOMAIN node)
      /\ node[this].n \in 0 .. Nodes!FULL /\ node[this].n \in Nat
  BY Given, <1>1, Degrees, Bare!GoodNodeIs DEF Bare!Good
<1>4. /\ DOMAIN node' = DOMAIN node
      /\ \A x \in DOMAIN node \ {this} : node'[x] = node[x]
      /\ node'[this] \in Bare!Record(DOMAIN node)
      /\ node'[this].n = node[this].n + 1 /\ node'[this].leaf
      /\ node'[this].keys = node[this].keys /\ node'[this].C = node[this].C
  <2> PICK r : r = [node[this] EXCEPT !.n = @ + 1]
    OBVIOUS
  <2>1. node' = [node EXCEPT ![this] = r]
    BY <1>2
  <2>2. /\ r \in Bare!Record(DOMAIN node) /\ r.n = node[this].n + 1 /\ r.leaf
        /\ r.keys = node[this].keys /\ r.C = node[this].C
    BY <1>1, <1>3, Degrees DEF Bare!Record
  <2> QED
    BY <1>1, <2>1, <2>2
<1>5. Bare!Good(node')
  <2>1. Bare!GoodNode(DOMAIN node, node'[this])
    BY <1>4 DEF Bare!GoodNode
  <2> QED
    BY <1>1, <1>4, <2>1 DEF Bare!Good
<1>6. Bare!Numbered'
  BY <1>4 DEF TreeInv, Bare!Numbered, Bare!Fresh
<1>7. Bare!Top' = Bare!Top
  BY <1>2 DEF Bare!Top
<1>8. Blank(node')
  BY <1>1, <1>4 DEF TreeInv, Blank
<1>9. Pointers' /\ Bare!Counters'
  <2>1. Bare!Top \in DOMAIN node
    BY <1>1 DEF TreeInv, Pointers, Bare!Top
  <2>2. NULL \notin DOMAIN node
    BY Given, Bare!NodesAreNumbers DEF TreeInv
  <2>3. Pointers'
    BY <1>1, <1>2, <1>4, <2>1, <2>2 DEF TreeInv, Pointers
  <2>4. Bare!Counters'
    BY <1>2 DEF TreeInv, Bare!Counters
  <2> QED
    BY <2>3, <2>4
<1>10. Bare!Linked(node', Bare!Top)
  <2>1. \A w : Bare!LinksTo(node', w) = Bare!LinksTo(node, w)
    <3>1. Bare!LinkPlaces(node') = Bare!LinkPlaces(node)
      BY <1>1, <1>4 DEF Bare!LinkPlaces
    <3>2. \A p \in Bare!LinkPlaces(node) : node'[p[1]].C[p[2]] = node[p[1]].C[p[2]]
      BY <1>1, <1>4 DEF Bare!LinkPlaces
    <3> QED
      BY <3>1, <3>2 DEF Bare!LinksTo
  <2> QED
    BY <1>4, <2>1 DEF TreeInv, Bare!Linked
<1>11. Bare!Filled(node', Bare!Top)
  <2>1. \A x \in DOMAIN node : node'[x].n = node[x].n \/ (x = this /\ node'[x].n = node[x].n + 1)
    BY <1>4
  <2> QED
    BY <1>3, <1>4, <2>1, Given DEF TreeInv, Bare!Filled
<1>12. Bare!Levelled(node')
  <2>1. PICK height : Bare!IsHeight(node, height)
    BY DEF TreeInv, Bare!Levelled
  <2>2. Bare!IsHeight(node', height)
    BY <1>1, <1>4, <2>1 DEF Bare!IsHeight
  <2> QED
    BY <2>2 DEF Bare!Levelled
<1>13. Few'
  <2>1. Bare!IsInsert(node, this, node[this].n, UNINIT, node')
    <3>1. \A j \in Bare!Slot : node'[this].keys[j] = UNINIT /\ node[this].keys[j] = UNINIT
      BY <1>1, <1>8, <1>4, Degrees DEF TreeInv, Blank
    <3>2. \A j \in Bare!Slot : j > node[this].n => ~(j <= node[this].n)
      BY <1>3, Degrees DEF Nodes!Slot
    <3> QED
      BY <1>1, <1>3, <1>4, <3>1, <3>2 DEF Bare!IsInsert
  <2>2. Bare!IsFiniteSet(Used(node))
    BY DEF TreeInv, Few
  <2>3. /\ Bare!IsFiniteSet(Used(node'))
        /\ Bare!Cardinality(Used(node'))
             = Bare!Cardinality(Used(node)) + (IF UNINIT = UNINIT THEN 1 ELSE 0)
    BY Given, <1>1, <1>3, <2>1, <2>2, Degrees, Bare!InsertAddsKey DEF Used
  <2>4. Bare!Cardinality(Used(node)) + 1 <= built + done
    BY <1>1 DEF TreeInv, Few
  <2>5. Used(node') = Used(node)'
    BY DEF Used, Bare!PlacesOf, Bare!KeyPlaces
  <2>6. Bare!IsFiniteSet(Used(node')) /\ Bare!Cardinality(Used(node')) + 0 <= built' + done'
    <3>1. Bare!Cardinality(Used(node)) \in Nat /\ built \in Nat /\ done \in Nat
      BY <2>2, Bare!FS_CardinalityType, Given DEF TreeInv, Bare!Counters
    <3> QED
      BY <1>2, <2>3, <2>4, <3>1
  <2> QED
    BY <1>2, <2>6 DEF Few
<1> QED
  BY <1>5, <1>6, <1>7, <1>8, <1>9, <1>10, <1>11, <1>12, <1>13 DEF TreeInv

\* The child on the way to the key, wherever the reads lead.
LEMMA ChildIs ==
  ASSUME TreeInv, pc = "insertNonFull", ~node[this].leaf
  PROVE  /\ this \in DOMAIN node /\ node[this].n \in Nat /\ node[this].n < Nodes!FULL
         /\ ChildPlace \in 0 .. node[this].n
         /\ node[this].C[ChildPlace] \in DOMAIN node
         /\ node[node[this].C[ChildPlace]].n \in 0 .. Nodes!FULL
<1>1. /\ this \in DOMAIN node /\ Bare!Good(node) /\ node[this].n < Nodes!FULL
  BY DEF TreeInv, Pointers
<1>2. Bare!GoodNode(DOMAIN node, node[this]) /\ node[this].n \in Nat
  BY Given, <1>1, Bare!GoodNodeIs DEF Bare!Good
<1>3. ChildPlace \in 0 .. node[this].n
  <2>1. Place(mem, this, node[this].n, k) \in -1 .. node[this].n - 1
    BY <1>2, PlaceIs
  <2> QED
    BY <1>2, <2>1 DEF ChildPlace
<1>4. node[this].C[ChildPlace] \in DOMAIN node
  BY <1>2, <1>3 DEF Bare!GoodNode
<1>5. node[node[this].C[ChildPlace]].n \in 0 .. Nodes!FULL
  BY Given, <1>1, <1>4, Degrees, Bare!GoodNodeIs DEF Bare!Good
<1> QED
  BY <1>1, <1>2, <1>3, <1>4, <1>5

LEMMA DescendKeepsTree ==
  ASSUME TreeInv, Descend
  PROVE  TreeInv'
<1>1. /\ this' = node[this].C[ChildPlace]
      /\ UNCHANGED <<node, root, pc, k, top, built, done, inserted>>
  BY DEF Descend
<1>2. this' \in DOMAIN node /\ node[this'].n < Nodes!FULL
  <2>1. /\ node[this].C[ChildPlace] \in DOMAIN node
        /\ node[node[this].C[ChildPlace]].n \in 0 .. Nodes!FULL
        /\ node[node[this].C[ChildPlace]].n # Nodes!FULL
    BY ChildIs DEF Descend, Nodes!IsFull
  <2> QED
    BY <1>1, <2>1, Degrees
<1>3. Pointers'
  BY <1>1, <1>2 DEF TreeInv, Pointers
<1>4. Bare!Top' = Bare!Top /\ Bare!Fresh' = Bare!Fresh
  BY <1>1 DEF Bare!Top, Bare!Fresh
<1>5. Bare!Numbered' /\ Bare!Counters'
  BY <1>1, <1>4 DEF TreeInv, Bare!Numbered, Bare!Counters
<1>6. Few'
  BY <1>1 DEF TreeInv, Few, Used, Bare!PlacesOf, Bare!KeyPlaces
<1> QED
  BY <1>1, <1>3, <1>4, <1>5, <1>6 DEF TreeInv

\* The child that is split.
LEMMA ChildCanSplit ==
  ASSUME TreeInv, SplitAndDescend
  PROVE  /\ Bare!CanSplit(node, this, ChildPlace, Bare!Fresh)
         /\ node' = Bare!SplitChild(node, this, ChildPlace, Bare!Fresh)
         /\ Nodes!Fresh = Bare!Fresh
<1>1. /\ ChildPlace \in 0 .. node[this].n /\ this \in DOMAIN node
      /\ Bare!IsFull(node, node[this].C[ChildPlace]) /\ ~node[this].leaf
      /\ ~Bare!IsFull(node, this)
  <2>1. pc = "insertNonFull" /\ ~node[this].leaf /\ Nodes!IsFull(node, node[this].C[ChildPlace])
    BY DEF SplitAndDescend
  <2>2. /\ ChildPlace \in 0 .. node[this].n /\ this \in DOMAIN node
        /\ node[this].n \in Nat /\ node[this].n < Nodes!FULL
    BY <2>1, ChildIs
  <2> QED
    BY <2>1, <2>2, Degrees DEF Bare!IsFull, Nodes!IsFull
<1>2. Bare!Fresh \notin DOMAIN node
  BY Given, Bare!NodesAreNumbers DEF TreeInv
<1>3. Bare!CanSplit(node, this, ChildPlace, Bare!Fresh)
  BY <1>1, <1>2 DEF TreeInv, Bare!CanSplit
<1>4. node' = Nodes!SplitChild(node, this, ChildPlace, Nodes!Fresh)
  BY DEF SplitAndDescend
<1> QED
  BY <1>3, <1>4, SameFresh, SameOperators

LEMMA SplitKeepsTree ==
  ASSUME TreeInv, SplitAndDescend
  PROVE  TreeInv'
<1> DEFINE i == ChildPlace
           z == Bare!Fresh
           new == Bare!SplitChild(node, this, i, z)
           keys == SplitKeys(Scan(mem, this, node[this].n, k), node, this, i, z)
<1>1. /\ node' = new
      /\ this' = new[this].C[Side(keys, this, i, k)]
      /\ UNCHANGED <<root, pc, k, top, built, done, inserted>>
      /\ pc = "insertNonFull"
  BY ChildCanSplit DEF SplitAndDescend
<1>2. Bare!CanSplit(node, this, i, z)
  BY ChildCanSplit
<1>3. Side(keys, this, i, k) \in {i, i + 1}
  BY SideIs
<1> PICK j : j = Side(keys, this, i, k)
  OBVIOUS
<1> HIDE DEF i, z, keys
<1>4. Bare!Good(new) /\ DOMAIN new = DOMAIN node \cup {z}
  <2>1. Bare!Good(new) /\ Bare!IsSplit(node, this, i, node[this].C[i], z, new)
    BY Given, <1>2, Bare!SplitWords
  <2> QED
    BY <2>1 DEF Bare!IsSplit
<1>5. Bare!Numbered'
  BY Given, <1>1, <1>4, Bare!FreshAdded DEF TreeInv, z
<1>6. this' \in DOMAIN new /\ new[this'].n < Nodes!FULL
  <2>1. j \in {i, i + 1}
    BY <1>3
  <2>2. new[this].C[j] \in DOMAIN new /\ new[new[this].C[j]].n < Bare!FULL
    BY Given, <1>2, <2>1, Bare!HalvesHaveRoom
  <2> QED
    BY <1>1, <2>2, Degrees
<1>7. Blank(new)
  BY <1>2, SplitStaysBlank DEF TreeInv
<1>8. Bare!Linked(new, Bare!Top) /\ Bare!Filled(new, Bare!Top)
  <2>1. Bare!Top \in DOMAIN node /\ this \in DOMAIN node
    BY <1>1 DEF TreeInv, Pointers, Bare!Top
  <2>2. /\ Bare!Linked(node, Bare!Top)
        /\ \A v \in DOMAIN node \ {this} : node[v].n >= (IF v = Bare!Top THEN 1 ELSE T - 1)
    BY DEF TreeInv, Bare!Filled
  <2>3. node[this].n >= (IF this = Bare!Top THEN 0 ELSE T - 1)
    <3>1. node[this].n \in Nat
      BY Given, <2>1, Bare!GoodNodeIs DEF TreeInv, Bare!Good
    <3> QED
      BY <2>1, <3>1, Given DEF TreeInv, Bare!Filled
  <2> QED
    BY Given, <1>2, <2>1, <2>2, <2>3, Bare!SplitKeepsTree
<1>9. Bare!Levelled(new)
  <2>1. PICK height : Bare!IsHeight(node, height)
    BY DEF TreeInv, Bare!Levelled
  <2>2. \E more : Bare!IsHeight(new, more)
    BY Given, <1>2, <2>1, Bare!SplitKeepsHeights
  <2> QED
    BY <2>2 DEF Bare!Levelled
<1>10. Bare!IsFiniteSet(Used(new)) /\ Bare!Cardinality(Used(new)) = Bare!Cardinality(Used(node))
  <2>1. Bare!IsFiniteSet(Used(node))
    BY DEF TreeInv, Few
  <2> QED
    BY Given, <1>2, <2>1, Bare!SplitKeepsKeys DEF Used
<1> HIDE DEF new
<1>11. Pointers'
  <2>1. root \in DOMAIN node' \cup {NULL} /\ top \in DOMAIN node' \cup {NULL} /\ root # NULL
    BY <1>1, <1>4 DEF TreeInv, Pointers
  <2> QED
    BY <1>1, <1>6, <2>1 DEF TreeInv, Pointers
<1>12. Bare!Top' = Bare!Top /\ Bare!Counters'
  BY <1>1 DEF TreeInv, Bare!Top, Bare!Counters
<1>13. Few'
  <2>1. Used(node)' = Used(new)
    BY <1>1 DEF Used, Bare!PlacesOf, Bare!KeyPlaces
  <2> QED
    BY <1>1, <1>10, <2>1 DEF TreeInv, Few
<1> QED
  BY <1>1, <1>4, <1>5, <1>7, <1>8, <1>9, <1>11, <1>12, <1>13 DEF TreeInv

-----------------------------------------------------------------------------
\* What an iteration of buildTree or main does to the counters.
Counted == /\ built' \in 0 .. SIZE /\ done' \in 0 .. OPS
           /\ built' + done' = built + done + 1

LEMMA CountedIs ==
  ASSUME TreeInv, Build \/ Operate
  PROVE  Counted /\ pc = "idle"
<1>1. built \in 0 .. SIZE /\ done \in 0 .. OPS /\ SIZE \in Nat /\ OPS \in Nat
  BY Given DEF TreeInv, Bare!Counters
<1> QED
  BY <1>1 DEF Build, Operate, Counted

LEMMA InsertCounts ==
  ASSUME TreeInv, NEW key \in Key, NEW m, Insert(key, m), Counted
  PROVE  Bare!Counters' /\ inserted'[key] > 0
<1>1. inserted \in [Key -> Nat] /\ inserted' = [inserted EXCEPT ![key] = @ + 1]
  BY DEF TreeInv, Bare!Counters, Insert
<1> QED
  BY <1>1 DEF Bare!Counters, Counted

LEMMA CountedSum ==
  ASSUME TreeInv, Counted
  PROVE  /\ built + done \in Nat /\ built' + done' \in Nat
         /\ built' + done' = built + done + 1
<1>1. built \in Nat /\ done \in Nat /\ built' \in Nat /\ done' \in Nat
  BY Given DEF TreeInv, Bare!Counters, Counted
<1>2. built' + done' = built + done + 1
  BY DEF Counted
<1>3. \A a \in Nat : \A b \in Nat : a + b \in Nat
  OBVIOUS
<1> QED
  BY <1>1, <1>2, <1>3

\* More may have been counted, and no less be in use.
LEMMA FewStays ==
  ASSUME TreeInv, pc = "idle", Counted, Bare!IsFiniteSet(Used(node')),
         NEW w \in {0, 1}, w = IF pc' = "insertNonFull" THEN 1 ELSE 0,
         Bare!Cardinality(Used(node')) + w <= Bare!Cardinality(Used(node)) + 1
  PROVE  Few'
<1>1. Used(node)' = Used(node')
  BY DEF Used, Bare!PlacesOf, Bare!KeyPlaces
<1>2. /\ Bare!Cardinality(Used(node)) \in Nat /\ Bare!Cardinality(Used(node')) \in Nat
      /\ built \in Nat /\ done \in Nat /\ built' \in Nat /\ done' \in Nat
  BY Given, Bare!FS_CardinalityType DEF TreeInv, Few, Bare!Counters, Counted
<1>3. Bare!Cardinality(Used(node)) <= built + done
  BY <1>2 DEF TreeInv, Few
<1>4. Bare!Cardinality(Used(node')) + w <= built' + done'
  <2>1. \A a, b, c, d \in Nat : a + w <= b + 1 /\ b <= c /\ d = c + 1 => a + w <= d
    OBVIOUS
  <2> QED
    BY <1>2, <1>3, <2>1, CountedSum
<1> QED
  BY <1>1, <1>4 DEF Few

LEMMA EmptyKeepsTree ==
  ASSUME TreeInv, pc = "idle", NEW key \in Key, NEW m, Insert(key, m), InsertEmpty(key, m), Counted
  PROVE  TreeInv' /\ DOMAIN node = {}
<1> DEFINE s == Bare!Fresh
           r == [Bare!NewNode(TRUE) EXCEPT !.n = 1]
<1>1. /\ root = NULL /\ node' = Bare!Alloc(node, s, r) /\ root' = s
      /\ UNCHANGED <<pc, this, k, top>>
  BY SameOperators, SameFresh DEF InsertEmpty
<1>2. DOMAIN node = {} /\ s \notin DOMAIN node /\ s # NULL
  BY Given, <1>1, Bare!NodesAreNumbers DEF TreeInv, Pointers
<1>3. /\ Bare!GoodNode({s}, r) /\ r.n = 1 /\ r.leaf
      /\ \A j \in Nodes!Slot : r.keys[j] = UNINIT
  <2>1. /\ Bare!NewNode(TRUE) \in Bare!Record({s})
        /\ Bare!NewNode(TRUE).leaf
    BY Given, Bare!NewNodeIs
  <2>2. \A j \in Nodes!Slot : Bare!NewNode(TRUE).keys[j] = UNINIT
    BY Degrees DEF Bare!NewNode
  <2>3. 1 \in 0 .. Bare!FULL
    BY Degrees
  <2> PICK new : new = Bare!NewNode(TRUE)
    OBVIOUS
  <2>4. r = [new EXCEPT !.n = 1]
    OBVIOUS
  <2> HIDE DEF r
  <2>5. r \in Bare!Record({s}) /\ r.n = 1 /\ r.leaf /\ r.keys = new.keys
    BY <2>1, <2>3, <2>4 DEF Bare!Record
  <2> QED
    BY <2>2, <2>5 DEF Bare!GoodNode
<1> HIDE DEF r
<1>4. DOMAIN node' = {s} /\ node'[s] = r
  <2>1. /\ DOMAIN node' = DOMAIN node \cup {s}
        /\ node'[s] = r
    BY <1>1, <1>2 DEF Bare!Alloc
  <2> QED
    BY <1>2, <2>1
<1>5. Bare!Top' = s
  BY <1>1 DEF Bare!Top, TreeInv, Pointers
<1>6. Bare!Numbered'
  BY Given, <1>2, <1>4, Bare!FreshAdded DEF TreeInv
<1> HIDE DEF s
<1>7. Bare!Good(node') /\ Blank(node')
  BY <1>3, <1>4 DEF Bare!Good, Blank
<1>8. Pointers' /\ Bare!Counters'
  BY <1>1, <1>2, <1>4, InsertCounts DEF TreeInv, Pointers
<1>9. Bare!Filled(node', s) /\ Bare!Linked(node', s)
  <2>1. Bare!LinksTo(node', s) = {}
    BY <1>3, <1>4 DEF Bare!LinksTo, Bare!LinkPlaces
  <2>2. Bare!IsFiniteSet({}) /\ Bare!Cardinality({}) = 0
    BY Given, Bare!FS_EmptySet
  <2> QED
    BY <1>3, <1>4, <2>1, <2>2 DEF Bare!Filled, Bare!Linked
<1>10. Bare!Levelled(node')
  <2> DEFINE height == [x \in DOMAIN node' |-> 0]
  <2>1. Bare!IsHeight(node', height)
    BY <1>3, <1>4 DEF Bare!IsHeight
  <2> QED
    BY <2>1 DEF Bare!Levelled
<1>11. Few'
  <2>1. Used(node') = {<<s, 0>>}
    <3>1. 0 \in Bare!Slot /\ \A j \in Bare!Slot : j < 1 => j = 0
      BY Degrees DEF Nodes!Slot
    <3> QED
      BY <1>3, <1>4, <3>1, Degrees DEF Used, Bare!PlacesOf, Bare!KeyPlaces
  <2>2. Bare!IsFiniteSet(Used(node')) /\ Bare!Cardinality(Used(node')) = 1
    <3>1. Bare!IsFiniteSet({<<s, 0>>}) /\ Bare!Cardinality({<<s, 0>>}) = 1
      BY Given, Bare!FS_Singleton
    <3> QED
      BY <2>1, <3>1
  <2>3. Bare!Cardinality(Used(node)) \in Nat
    BY Given, Bare!FS_CardinalityType DEF TreeInv, Few
  <2> QED
    BY <1>1, <2>2, <2>3, FewStays
<1> QED
  BY <1>2, <1>5, <1>6, <1>7, <1>8, <1>9, <1>10, <1>11 DEF TreeInv

LEMMA RootKeepsTree ==
  ASSUME TreeInv, pc = "idle", NEW key \in Key, NEW m, Insert(key, m), InsertRoot(key, m), Counted
  PROVE  TreeInv'
<1>1. /\ root # NULL /\ this' = root /\ k' = key /\ top' = NULL
      /\ pc' = "insertNonFull" /\ UNCHANGED <<node, root>>
      /\ node[root].n # Nodes!FULL
  BY DEF InsertRoot, Nodes!IsFull
<1>2. node[root].n < Nodes!FULL /\ root \in DOMAIN node
  <2>1. root \in DOMAIN node
    BY <1>1 DEF TreeInv, Pointers
  <2>2. node[root].n \in 0 .. Nodes!FULL
    BY Given, <2>1, Degrees, Bare!GoodNodeIs DEF TreeInv, Bare!Good
  <2> QED
    BY <1>1, <2>1, <2>2, Degrees
<1>3. Bare!Top' = Bare!Top /\ Bare!Fresh' = Bare!Fresh
  BY <1>1 DEF Bare!Top, Bare!Fresh, TreeInv, Pointers
<1>4. Bare!Numbered' /\ Bare!Counters' /\ inserted'[key] > 0
  BY <1>1, <1>3, InsertCounts DEF TreeInv, Bare!Numbered
<1>5. Pointers'
  BY <1>1, <1>2, <1>4 DEF Pointers, TreeInv
<1>6. Few'
  <2>1. Used(node') = Used(node)
    BY <1>1
  <2>2. Bare!IsFiniteSet(Used(node)) /\ Bare!Cardinality(Used(node)) \in Nat
    BY Given, Bare!FS_CardinalityType DEF TreeInv, Few
  <2> QED
    BY <1>1, <2>1, <2>2, FewStays
<1> QED
  BY <1>1, <1>3, <1>4, <1>5, <1>6 DEF TreeInv

\* The heap with a new root, and its split.
LEMMA NewRootIs ==
  ASSUME TreeInv, pc = "idle", NEW key \in Key, NEW m, InsertFullRoot(key, m)
  PROVE  LET s    == Bare!Fresh
             heap == Bare!Alloc(node, s, [Bare!NewNode(FALSE) EXCEPT !.C[0] = root])
         IN  /\ root \in DOMAIN node /\ root # NULL /\ node[root].n = Nodes!FULL
             /\ s \in Nat \ {0} /\ s \notin DOMAIN node /\ s + 1 \notin DOMAIN node
             /\ s + 1 # s /\ s # NULL
             /\ DOMAIN heap = DOMAIN node \cup {s}
             /\ Bare!CanSplit(heap, s, 0, s + 1)
             /\ \A word : Bare!PlacesOf(heap, word) = Bare!PlacesOf(node, word)
             /\ Bare!Linked(heap, s)
             /\ \A v \in DOMAIN heap \ {s} : heap[v].n >= (IF v = s THEN 1 ELSE T - 1)
             /\ heap[s].n >= 0 /\ heap[s].C[0] = root
             /\ Bare!Levelled(heap) /\ Blank(heap)
             /\ node' = Bare!SplitChild(heap, s, 0, s + 1)
             /\ top' = s /\ k' = key /\ pc' = "insertNonFull" /\ root' = root
             /\ Nodes!Fresh = s
             /\ Nodes!Alloc(node, s, [Nodes!NewNode(FALSE) EXCEPT !.C[0] = root]) = heap
<1> DEFINE s    == Bare!Fresh
           record == [Bare!NewNode(FALSE) EXCEPT !.C[0] = root]
           heap == Bare!Alloc(node, s, record)
<1>1. Nodes!Alloc(node, s, [Nodes!NewNode(FALSE) EXCEPT !.C[0] = root]) = heap
  BY SameOperators
<1>2. /\ root # NULL /\ Bare!IsFull(node, root)
      /\ node' = Bare!SplitChild(heap, s, 0, s + 1)
      /\ top' = s /\ k' = key /\ pc' = "insertNonFull" /\ root' = root
  <2>1. /\ root # NULL /\ Nodes!IsFull(node, root)
        /\ node' = Nodes!SplitChild(heap, s, 0, s + 1)
        /\ top' = s
    BY <1>1, SameFresh DEF InsertFullRoot
  <2>2. k' = key /\ pc' = "insertNonFull" /\ root' = root
    BY DEF InsertFullRoot
  <2>3. Nodes!IsFull(node, root) <=> Bare!IsFull(node, root)
    BY SameOperators
  <2>4. Nodes!SplitChild(heap, s, 0, s + 1) = Bare!SplitChild(heap, s, 0, s + 1)
    BY SameOperators
  <2> QED
    BY <2>1, <2>2, <2>3, <2>4
<1>3. /\ Bare!Good(node) /\ root \in DOMAIN node
      /\ Bare!Linked(node, root) /\ Bare!Filled(node, root) /\ Bare!Levelled(node)
  BY <1>2 DEF TreeInv, Pointers, Bare!Top
<1>4. /\ s \in Nat \ {0} /\ s \notin DOMAIN node /\ s + 1 \notin DOMAIN node
      /\ s + 1 # s /\ s # NULL
  <2>1. s \in Nat \ {0}
    BY DEF TreeInv, Bare!Numbered
  <2> QED
    BY Given, <2>1, Bare!NodesAreNumbers DEF TreeInv
<1> HIDE DEF s
<1>5. /\ DOMAIN heap = DOMAIN node \cup {s}
      /\ Bare!CanSplit(heap, s, 0, s + 1)
      /\ \A word : Bare!PlacesOf(heap, word) = Bare!PlacesOf(node, word)
      /\ Bare!Linked(heap, s)
      /\ \A v \in DOMAIN heap \ {s} : heap[v].n >= (IF v = s THEN 1 ELSE T - 1)
      /\ heap[s].n >= 0
  BY Given, <1>2, <1>3, <1>4, Bare!NewRoot
<1>6. Bare!Levelled(heap)
  BY Given, <1>3, <1>4, Bare!NewRootLevelled
<1>7. Blank(heap) /\ heap[s].C[0] = root
  <2>1. /\ heap[s] = record
        /\ \A v \in DOMAIN node : heap[v] = node[v]
    BY <1>4 DEF Bare!Alloc
  <2>2. record.C[0] = root /\ \A j \in Nodes!Slot : record.keys[j] = UNINIT
    <3>1. 0 \in 0 .. Bare!FULL
      BY Degrees
    <3> QED
      BY <3>1, Degrees DEF Bare!NewNode
  <2> HIDE DEF heap, record
  <2> QED
    BY <1>5, <2>1, <2>2 DEF Blank, TreeInv
<1>8. node[root].n = Nodes!FULL /\ Nodes!Fresh = s
  BY <1>2, Degrees, SameFresh DEF Bare!IsFull, s
<1> QED
  BY <1>1, <1>2, <1>3, <1>4, <1>5, <1>6, <1>7, <1>8 DEF s

LEMMA FullRootKeepsTree ==
  ASSUME TreeInv, pc = "idle", NEW key \in Key, NEW m, Insert(key, m), InsertFullRoot(key, m),
         Counted
  PROVE  TreeInv'
<1> DEFINE s     == Bare!Fresh
           heap  == Bare!Alloc(node, s, [Bare!NewNode(FALSE) EXCEPT !.C[0] = root])
           split == Bare!SplitChild(heap, s, 0, s + 1)
           keys  == SplitKeys(m, heap, s, 0, s + 1)
<1>1. /\ root \in DOMAIN node /\ root # NULL
      /\ s \in Nat \ {0} /\ s # NULL
      /\ DOMAIN heap = DOMAIN node \cup {s}
      /\ Bare!CanSplit(heap, s, 0, s + 1)
      /\ \A word : Bare!PlacesOf(heap, word) = Bare!PlacesOf(node, word)
      /\ Bare!Linked(heap, s)
      /\ \A v \in DOMAIN heap \ {s} : heap[v].n >= (IF v = s THEN 1 ELSE T - 1)
      /\ heap[s].n >= 0
      /\ Bare!Levelled(heap) /\ Blank(heap)
      /\ node' = split
      /\ top' = s /\ k' = key /\ pc' = "insertNonFull" /\ root' = root
  BY NewRootIs
<1>2. this' = split[s].C[Side(keys, s, 0, key)]
  BY NewRootIs DEF InsertFullRoot
<1>3. Side(keys, s, 0, key) \in {0, 0 + 1}
  BY SideIs
<1> PICK j : j = Side(keys, s, 0, key)
  OBVIOUS
<1> HIDE DEF heap, keys
<1>4. Bare!Linked(split, s) /\ Bare!Filled(split, s)
  <2>1. heap[s].n >= (IF s = s THEN 0 ELSE T - 1) /\ s \in DOMAIN heap
    BY <1>1
  <2> HIDE DEF s
  <2> QED
    BY Given, <1>1, <2>1, Bare!SplitKeepsTree
<1>5. this' \in DOMAIN split /\ split[this'].n < Nodes!FULL
  <2> HIDE DEF s
  <2>1. j \in {0, 0 + 1}
    BY <1>3
  <2>2. split[s].C[j] \in DOMAIN split /\ split[split[s].C[j]].n < Bare!FULL
    BY Given, <1>1, <2>1, Bare!HalvesHaveRoom
  <2> QED
    BY <1>2, <2>2, Degrees
<1>6. Bare!Good(split) /\ DOMAIN split = DOMAIN node \cup {s, s + 1} /\ Blank(split)
  <2> HIDE DEF s
  <2>1. Bare!Good(split) /\ Bare!IsSplit(heap, s, 0, heap[s].C[0], s + 1, split)
    BY Given, <1>1, Bare!SplitWords
  <2>2. DOMAIN split = DOMAIN heap \cup {s + 1}
    BY <2>1 DEF Bare!IsSplit
  <2>3. Blank(split)
    BY <1>1, SplitStaysBlank
  <2> HIDE DEF split
  <2> QED
    BY <1>1, <2>1, <2>2, <2>3
<1>7. Bare!Levelled(split)
  <2> HIDE DEF s
  <2>1. PICK height : Bare!IsHeight(heap, height)
    BY <1>1 DEF Bare!Levelled
  <2>2. \E more : Bare!IsHeight(split, more)
    BY Given, <1>1, <2>1, Bare!SplitKeepsHeights
  <2> QED
    BY <2>2 DEF Bare!Levelled
<1>8. Bare!IsFiniteSet(Used(split)) /\ Bare!Cardinality(Used(split)) = Bare!Cardinality(Used(node))
  <2> HIDE DEF s
  <2>1. Bare!IsFiniteSet(Bare!PlacesOf(heap, UNINIT))
    BY <1>1 DEF TreeInv, Few, Used
  <2>2. /\ Bare!IsFiniteSet(Bare!PlacesOf(split, UNINIT))
        /\ Bare!Cardinality(Bare!PlacesOf(split, UNINIT)) = Bare!Cardinality(Bare!PlacesOf(heap, UNINIT))
    BY Given, <1>1, <2>1, Bare!SplitKeepsKeys
  <2> HIDE DEF split
  <2> QED
    BY <1>1, <2>2 DEF Used
<1> HIDE DEF split
<1>9. Bare!Numbered'
  BY Given, <1>1, <1>6, Bare!TwoAdded DEF TreeInv
<1>10. Bare!Counters' /\ inserted'[key] > 0
  BY InsertCounts
<1> HIDE DEF s
<1>11. Pointers'
  <2>1. this' \in DOMAIN node' /\ node'[this'].n < Nodes!FULL
    BY <1>1, <1>5
  <2>2. root' \in DOMAIN node' /\ top' \in DOMAIN node' /\ root' # NULL
    BY <1>1, <1>6
  <2> QED
    BY <1>1, <1>10, <2>1, <2>2 DEF Pointers
<1>12. Bare!Top' = s
  BY <1>1 DEF Bare!Top
<1>13. Few'
  <2>1. Bare!Cardinality(Used(node)) \in Nat
    BY Given, Bare!FS_CardinalityType DEF TreeInv, Few
  <2> QED
    BY <1>1, <1>8, <2>1, FewStays
<1>14. /\ Bare!Good(node') /\ Blank(node') /\ Bare!Levelled(node')
       /\ Bare!Linked(node', Bare!Top') /\ Bare!Filled(node', Bare!Top')
  BY <1>1, <1>4, <1>6, <1>7, <1>12
<1> QED
  BY <1>9, <1>10, <1>11, <1>13, <1>14 DEF TreeInv

LEMMA InsertKeepsTree ==
  ASSUME TreeInv, pc = "idle", NEW key \in Key, NEW m, Insert(key, m), Counted
  PROVE  TreeInv'
BY EmptyKeepsTree, RootKeepsTree, FullRootKeepsTree DEF Insert

\* Steps that leave the tree alone.
LEMMA StillKeepsTree ==
  ASSUME TreeInv, UNCHANGED <<node, root, this, k, top, inserted>>,
         pc' = pc \/ (pc = "idle" /\ pc' = "end"),
         Counted \/ UNCHANGED <<built, done>>
  PROVE  TreeInv'
<1>1. Pointers' /\ Bare!Counters'
  BY DEF TreeInv, Pointers, Bare!Counters, Counted
<1>2. Bare!Top' = Bare!Top /\ Bare!Fresh' = Bare!Fresh /\ Used(node)' = Used(node)
  BY DEF Bare!Top, Bare!Fresh, Used, Bare!PlacesOf, Bare!KeyPlaces
<1>3. Bare!Numbered'
  BY <1>2 DEF TreeInv, Bare!Numbered
<1>4. Few'
  <2>1. built + done <= built' + done'
    <3>1. CASE Counted
      BY <3>1, CountedSum
    <3>2. CASE UNCHANGED <<built, done>>
      BY <3>2 DEF TreeInv, Bare!Counters
    <3> QED
      BY <3>1, <3>2
  <2>2. PICK w \in {0, 1} : w = IF pc = "insertNonFull" THEN 1 ELSE 0
    BY Zenon
  <2>3. w = IF pc' = "insertNonFull" THEN 1 ELSE 0
    BY <2>2
  <2>4. /\ Bare!IsFiniteSet(Used(node)) /\ Bare!Cardinality(Used(node)) \in Nat
        /\ Bare!Cardinality(Used(node)) + w <= built + done
    BY Given, <2>2, Bare!FS_CardinalityType DEF TreeInv, Few
  <2>5. built + done \in Nat /\ built' + done' \in Nat
    <3>1. CASE Counted
      BY <3>1, CountedSum
    <3>2. CASE UNCHANGED <<built, done>>
      BY <3>2, Given DEF TreeInv, Bare!Counters
    <3> QED
      BY <3>1, <3>2
  <2>6. Bare!Cardinality(Used(node)) + w <= built' + done'
    <3>1. \A a, b, c \in Nat : a + w <= b /\ b <= c => a + w <= c
      OBVIOUS
    <3> QED
      BY <2>1, <2>4, <2>5, <3>1
  <2> QED
    BY <1>2, <2>3, <2>4, <2>6 DEF Few
<1> QED
  BY <1>1, <1>2, <1>3, <1>4 DEF TreeInv

LEMMA StepKeepsTree == TreeInv /\ [Next]_vars => TreeInv'
<1> SUFFICES ASSUME TreeInv, [Next]_vars PROVE TreeInv'
  OBVIOUS
<1>1. CASE Build
  <2>1. PICK key \in Key : Insert(key, mem)
    BY <1>1 DEF Build
  <2> QED
    BY <1>1, <2>1, CountedIs, InsertKeepsTree
<1>2. CASE Operate
  <2>1. Counted /\ pc = "idle"
    BY <1>2, CountedIs
  <2>2. \/ \E key \in Key : \E m : Insert(key, m)
        \/ UNCHANGED <<node, root, pc, this, k, top, inserted>>
    BY <1>2 DEF Operate
  <2> QED
    BY <2>1, <2>2, InsertKeepsTree, StillKeepsTree
<1>3. CASE InsertNonFull
  BY <1>3, LeafKeepsTree, DescendKeepsTree, SplitKeepsTree DEF InsertNonFull
<1>4. CASE FinalTransfer
  BY <1>4, StillKeepsTree DEF FinalTransfer
<1>5. CASE UNCHANGED vars
  BY <1>5, StillKeepsTree DEF vars
<1> QED
  BY <1>1, <1>2, <1>3, <1>4, <1>5 DEF Next, Ended

\* The shape of the tree, whatever the reads of the buffer return.
THEOREM ShapeInvariant == Spec => []TreeInv
<1>1. Init => TreeInv
  BY InitIsTree
<1>2. TreeInv /\ [Next]_vars => TreeInv'
  BY StepKeepsTree
<1> QED
  BY <1>1, <1>2, PTL DEF Spec

\* A node has a key, so there are no more nodes than insertions.
LEMMA NodesAreFew ==
  ASSUME TreeInv
  PROVE  DOMAIN node \subseteq 1 .. SIZE + OPS /\ NULL \notin DOMAIN node
<1> DEFINE f == [x \in DOMAIN node |-> <<x, 0>>]
<1>1. ASSUME NEW x \in DOMAIN node PROVE <<x, 0>> \in Used(node)
  <2>1. node[x].n >= 1 /\ node[x].n \in Nat
    <3>1. node[x].n \in 0 .. Bare!FULL
      BY Given, Bare!GoodNodeIs DEF TreeInv, Bare!Good
    <3> QED
      BY <3>1, Given, Degrees DEF TreeInv, Bare!Filled
  <2>2. 0 \in Nodes!Slot /\ 0 \in Bare!Slot
    BY Degrees DEF Nodes!Slot
  <2> QED
    BY <2>1, <2>2, Given, Bare!InPlacesOf DEF Used, TreeInv, Blank
<1>2. f \in Bare!Injection(DOMAIN node, Used(node))
  BY <1>1 DEF Bare!Injection, Bare!IsInjective
<1>3. /\ Bare!IsFiniteSet(Used(node)) /\ Bare!Cardinality(Used(node)) \in Nat
      /\ Bare!Cardinality(DOMAIN node) <= Bare!Cardinality(Used(node))
      /\ Bare!Cardinality(DOMAIN node) \in Nat
  <2>1. Bare!IsFiniteSet(Used(node))
    BY DEF TreeInv, Few
  <2>2. Bare!IsFiniteSet(DOMAIN node) /\ Bare!Cardinality(DOMAIN node) <= Bare!Cardinality(Used(node))
    BY Given, <1>2, <2>1, Bare!FS_Injection
  <2> QED
    BY Given, <2>1, <2>2, Bare!FS_CardinalityType
<1>4. Bare!Cardinality(Used(node)) <= built + done
  BY <1>3, Given DEF TreeInv, Few, Bare!Counters
<1>5. Bare!Cardinality(DOMAIN node) <= SIZE + OPS
  BY <1>3, <1>4, Given DEF TreeInv, Bare!Counters
<1>6. DOMAIN node = 1 .. Bare!Cardinality(DOMAIN node)
  BY <1>3 DEF TreeInv, Bare!Numbered, Bare!Fresh
<1> HIDE DEF f
<1>7. DOMAIN node \subseteq 1 .. SIZE + OPS
  <2> PICK c \in Nat : c = Bare!Cardinality(DOMAIN node)
    BY <1>3
  <2>1. \A x \in 1 .. c : x \in 1 .. SIZE + OPS
    BY <1>5, Given
  <2> QED
    BY <1>6, <2>1
<1> QED
  BY <1>7, Given

-----------------------------------------------------------------------------
\* What LeafDepths computes, for a step to be able to say it of its two states.
LeavesAreLevel ==
  TreeInv => \A height : Bare!IsHeight(node, height)
               => \A x \in DOMAIN node : Max(Nodes!LeafDepths[x]) = height[x]

LEMMA LeavesLevel == LeavesAreLevel
<1> SUFFICES ASSUME TreeInv, NEW height, Bare!IsHeight(node, height), NEW x \in DOMAIN node
             PROVE  Max(Nodes!LeafDepths[x]) = height[x]
  BY DEF LeavesAreLevel
<1>1. Nodes!LeafDepths[x] = {height[x]}
  BY Given, SameDepths, Bare!LeafDepthsAre DEF TreeInv
<1>2. height[x] \in Nat
  BY DEF Bare!IsHeight
<1>3. ASSUME NEW h \in Nat PROVE Max({h}) = h
  <2> DEFINE S == {h}
  <2>1. S \subseteq Int /\ S # {} /\ h \in Int /\ \A s \in S : s <= h
    OBVIOUS
  <2> HIDE DEF S
  <2>2. Max(S) \in S
    BY <2>1, MaxIsGreatest
  <2> QED
    BY <2>2 DEF S
<1> QED
  BY <1>1, <1>2, <1>3

\* The next call is on a child of this node, as the step leaves it.
LEMMA CallGoesDown ==
  ASSUME TreeInv, TreeInv', [Next]_vars, LeavesAreLevel, LeavesAreLevel'
  PROVE  [pc = "insertNonFull" /\ pc' = "insertNonFull"
            => Max(Nodes!LeafDepths[this])' < Max(Nodes!LeafDepths[this])]_vars
<1> SUFFICES ASSUME Next, pc = "insertNonFull", pc' = "insertNonFull"
             PROVE  Max(Nodes!LeafDepths[this])' < Max(Nodes!LeafDepths[this])
                    \/ UNCHANGED vars
  OBVIOUS
<1>1. this \in DOMAIN node /\ this' \in DOMAIN node'
  BY DEF TreeInv, Pointers
<1>2. PICK height : Bare!IsHeight(node, height)
  BY DEF TreeInv, Bare!Levelled
<1>3. ASSUME NEW more, Bare!IsHeight(node', more), more[this] = height[this],
             NEW j \in 0 .. node'[this].n, ~node'[this].leaf, this' = node'[this].C[j],
             this \in DOMAIN node'
      PROVE  Max(Nodes!LeafDepths[this])' < Max(Nodes!LeafDepths[this])
  <2>1. more[this] = more[this'] + 1 /\ more[this'] \in Nat
    BY <1>1, <1>3 DEF Bare!IsHeight
  <2>2. Max(Nodes!LeafDepths[this]) = height[this]
    BY <1>1, <1>2 DEF LeavesAreLevel
  <2>3. Max(Nodes!LeafDepths[this])' = more[this']
    BY <1>1, <1>3 DEF LeavesAreLevel
  <2>4. \A a \in Nat : \A b : b = a + 1 => a < b
    OBVIOUS
  <2> QED
    BY <1>3, <2>1, <2>2, <2>3, <2>4
<1>4. CASE Descend
  <2>1. node' = node /\ this' = node[this].C[ChildPlace] /\ ~node[this].leaf
    BY <1>4 DEF Descend
  <2>2. ChildPlace \in 0 .. node[this].n
    BY <2>1, ChildIs
  <2> HIDE DEF ChildPlace
  <2> QED
    BY <1>1, <1>2, <1>3, <2>1, <2>2
<1>5. CASE SplitAndDescend
  <2> DEFINE i == ChildPlace
             z == Bare!Fresh
             new == Bare!SplitChild(node, this, i, z)
             keys == SplitKeys(Scan(mem, this, node[this].n, k), node, this, i, z)
  <2>1. node' = new /\ Bare!CanSplit(node, this, i, z) /\ this' = new[this].C[Side(keys, this, i, k)]
    BY <1>5, ChildCanSplit DEF SplitAndDescend
  <2>2. Side(keys, this, i, k) \in {i, i + 1}
    BY SideIs
  <2> PICK j : j = Side(keys, this, i, k)
    OBVIOUS
  <2> HIDE DEF i, z, keys
  <2>3. PICK more : Bare!IsHeight(new, more) /\ \A v \in DOMAIN node : more[v] = height[v]
    BY Given, <1>2, <2>1, Bare!SplitKeepsHeights
  <2>4. /\ ~new[this].leaf /\ new[this].n = node[this].n + 1 /\ this \in DOMAIN new
        /\ i \in 0 .. node[this].n /\ node[this].n \in Nat
    <3>1. /\ Bare!IsSplit(node, this, i, node[this].C[i], z, new)
      BY Given, <2>1, Bare!SplitWords
    <3>2. /\ i \in 0 .. node[this].n /\ node[this].n \in Nat /\ ~node[this].leaf
      BY Given, <1>1, <2>1, Bare!GoodNodeIs DEF Bare!CanSplit, Bare!Good
    <3> HIDE DEF new
    <3> QED
      BY <1>1, <3>1, <3>2 DEF Bare!IsSplit
  <2>5. j \in 0 .. new[this].n
    BY <2>2, <2>4
  <2> HIDE DEF new
  <2> QED
    BY <1>1, <1>3, <2>1, <2>3, <2>4, <2>5
<1>6. CASE InsertNonFullLeaf
  BY <1>6 DEF InsertNonFullLeaf
<1> QED
  BY <1>4, <1>5, <1>6 DEF Next, Ended, InsertNonFull, Build, Operate, FinalTransfer

\* Every call of insertNonFull is on a node nearer to the leaves, whatever the
\* reads return.
THEOREM CallsGoDown == Spec => InsertGoesDown
<1>1. LeavesAreLevel
  BY LeavesLevel
<1>2. TreeInv /\ TreeInv' /\ [Next]_vars /\ LeavesAreLevel /\ LeavesAreLevel'
        => [pc = "insertNonFull" /\ pc' = "insertNonFull"
              => Max(Nodes!LeafDepths[this])' < Max(Nodes!LeafDepths[this])]_vars
  BY CallGoesDown
<1> QED
  BY <1>1, <1>2, ShapeInvariant, PTL DEF Spec, InsertGoesDown

-----------------------------------------------------------------------------
(***************************************************************************)
(* The memory.  The words read are always among those written to it, Words *)
(* here: a read of a place that was written leads to one of them, if not   *)
(* to the one written there last.                                          *)
(***************************************************************************)
Word(m, l) == Buffer!View(m.buf)[l]

Untransferred(m) == \A l \in Location : m.buf.nvm[l] = UNINIT

Sound(m, W) ==
  /\ DOMAIN m = {"buf", "exact"} /\ m.exact \in BOOLEAN
  /\ DOMAIN m.buf.cache \subseteq Location
  /\ \A l \in DOMAIN m.buf.cache : m.buf.cache[l] \in W
  /\ \A l \in Location : m.buf.nvm[l] \in W \cup {UNINIT}

\* What a part of a step makes of the memory m that writes to L: nothing changes
\* elsewhere, what was written stays written, and a read can only have been
\* wrong after a transfer.
Leads(m, r, L, W) ==
  /\ Sound(r, W)
  /\ \A l \in Location \ L : Word(r, l) = Word(m, l)
  /\ \A l \in Location : Word(m, l) \in W => Word(r, l) \in W
  /\ r.exact => m.exact
  /\ Untransferred(r) => Untransferred(m) /\ (m.exact => r.exact)

LEMMA WordIs ==
  ASSUME NEW m, NEW l \in Location
  PROVE  Word(m, l) = IF l \in DOMAIN m.buf.cache THEN m.buf.cache[l] ELSE m.buf.nvm[l]
BY DEF Word, Buffer!View

LEMMA LeadsToItself ==
  ASSUME NEW m, NEW W, Sound(m, W)
  PROVE  Leads(m, m, {}, W)
BY DEF Leads

LEMMA LeadsOn ==
  ASSUME NEW m, NEW p, NEW r, NEW L, NEW M, NEW N, NEW W,
         Leads(m, p, L, W), Leads(p, r, M, W), L \subseteq N, M \subseteq N
  PROVE  Leads(m, r, N, W)
<1>1. Sound(r, W)
  BY DEF Leads
<1>2. \A l \in Location \ N : Word(r, l) = Word(m, l)
  BY DEF Leads
<1>3. \A l \in Location : Word(m, l) \in W => Word(r, l) \in W
  BY DEF Leads
<1>4. r.exact => m.exact
  BY DEF Leads
<1>5. Untransferred(r) => Untransferred(m) /\ (m.exact => r.exact)
  BY DEF Leads
<1> QED
  BY <1>1, <1>2, <1>3, <1>4, <1>5 DEF Leads

\* A read of a word that was written, and one before the first transfer.
LEMMA ReadIsWritten ==
  ASSUME NEW m, NEW W, Sound(m, W), UNINIT \notin W, NEW l \in Location, Word(m, l) \in W
  PROVE  /\ Buffer!Load(m.buf, l) \in W
         /\ Untransferred(m) => Buffer!Exact(m.buf, l)
<1> DEFINE cache == m.buf.cache
           below == {c \in DOMAIN cache : c <= l}
<1>0. Location \subseteq Int
  BY DEF Location
<1>1. below \subseteq Int /\ l \in Int /\ \A c \in below : c <= l
  BY <1>0 DEF Sound
<1>2. Buffer!Load(m.buf, l) = IF below = {} THEN m.buf.nvm[l] ELSE cache[Max(below)]
  BY DEF Buffer!Load, Buffer!Max, Max
<1>3. Word(m, l) = IF l \in DOMAIN cache THEN cache[l] ELSE m.buf.nvm[l]
  BY WordIs
<1>4. CASE l \in DOMAIN cache
  <2>1. l \in below
    BY <1>1, <1>4
  <2> HIDE DEF below
  <2>2. Max(below) \in below /\ l <= Max(below)
    BY <1>1, <2>1, MaxIsGreatest
  <2>3. Max(below) = l
    <3> PICK c : c = Max(below)
      OBVIOUS
    <3>1. c \in Int /\ c <= l /\ l <= c
      BY <1>1, <2>2
    <3> QED
      BY <1>1, <3>1
  <2>4. Buffer!Load(m.buf, l) = cache[l]
    BY <1>2, <2>1, <2>3
  <2> QED
    BY <1>3, <1>4, <2>4 DEF Buffer!Exact, Word
<1>5. CASE l \notin DOMAIN cache
  <2>1. m.buf.nvm[l] \in W
    BY <1>3, <1>5
  <2>2. ~Untransferred(m)
    BY <2>1 DEF Untransferred
  <2>3. CASE below = {}
    BY <1>2, <2>1, <2>2, <2>3
  <2>4. CASE below # {}
    <3>1. below \subseteq DOMAIN cache
      OBVIOUS
    <3> HIDE DEF below
    <3>2. Max(below) \in below
      BY <1>1, <2>4, MaxIsGreatest
    <3>3. cache[Max(below)] \in W
      BY <3>1, <3>2 DEF Sound
    <3> QED
      BY <1>2, <2>2, <2>4, <3>3
  <2> QED
    BY <2>3, <2>4
<1> QED
  BY <1>4, <1>5

LEMMA SeenIs ==
  ASSUME NEW m, NEW W, Sound(m, W), UNINIT \notin W,
         NEW S, S \subseteq Location, \A l \in S : Word(m, l) \in W,
         NEW r, DOMAIN r = DOMAIN m, r.buf = m.buf, r.exact \in BOOLEAN,
         r.exact <=> m.exact /\ \A l \in S : Buffer!Exact(m.buf, l)
  PROVE  Leads(m, r, {}, W)
<1>1. r.exact <=> m.exact /\ \A l \in S : Buffer!Exact(m.buf, l)
  OBVIOUS
<1>2. Sound(r, W)
  BY DEF Sound
<1>3. \A l : Word(r, l) = Word(m, l)
  BY DEF Word
<1>4. Untransferred(r) => Untransferred(m) /\ (m.exact => r.exact)
  <2>1. Untransferred(r) <=> Untransferred(m)
    BY DEF Untransferred
  <2>2. Untransferred(m) => \A l \in S : Buffer!Exact(m.buf, l)
    BY ReadIsWritten
  <2> QED
    BY <1>1, <2>1, <2>2
<1> QED
  BY <1>1, <1>2, <1>3, <1>4 DEF Leads

LEMMA StoreIs ==
  ASSUME NEW m, NEW W, Sound(m, W), UNINIT \notin W, NEW p \in Location, NEW key \in W,
         NEW r, r = [m EXCEPT !.buf = Buffer!Store(@, p, key)]
  PROVE  /\ Leads(m, r, {p}, W) /\ r.exact = m.exact /\ Word(r, p) = key
<1> DEFINE room == Buffer!WithRoom(m.buf)
<1>1. /\ DOMAIN room.cache \subseteq Location
      /\ \A l \in DOMAIN room.cache : room.cache[l] \in W
      /\ \A l \in Location : room.nvm[l] \in W \cup {UNINIT}
      /\ \A l \in Location : Word(m, l) = IF l \in DOMAIN room.cache THEN room.cache[l] ELSE room.nvm[l]
      /\ (\A l \in Location : room.nvm[l] = UNINIT) => Untransferred(m)
  <2>1. CASE room = m.buf
    BY <2>1, WordIs DEF Sound, Untransferred
  <2>2. CASE room = Buffer!Transfer(m.buf)
    <3>1. room.cache = [l \in {} |-> 0] /\ room.nvm = Buffer!View(m.buf)
      BY <2>2 DEF Buffer!Transfer, Buffer!InitialBuffer
    <3>2. DOMAIN room.cache = {} /\ \A l \in Location : room.nvm[l] = Word(m, l)
      BY <3>1 DEF Word
    <3>3. \A l \in Location : room.nvm[l] =
            IF l \in DOMAIN m.buf.cache THEN m.buf.cache[l] ELSE m.buf.nvm[l]
      BY <3>2, WordIs
    <3> HIDE DEF room
    <3> QED
      BY <3>2, <3>3 DEF Sound, Untransferred
  <2> QED
    BY <2>1, <2>2 DEF Buffer!WithRoom
<1>2. /\ r.exact = m.exact /\ DOMAIN r = DOMAIN m
      /\ r.buf.nvm = room.nvm
      /\ r.buf.cache = [l \in DOMAIN room.cache \cup {p} |-> IF l = p THEN key ELSE room.cache[l]]
  <2>1. r.buf = Buffer!Store(m.buf, p, key) /\ r.exact = m.exact /\ DOMAIN r = DOMAIN m
    BY DEF Sound
  <2> QED
    BY <2>1 DEF Buffer!Store
<1> HIDE DEF room
<1>3. /\ DOMAIN r.buf.cache = DOMAIN room.cache \cup {p}
      /\ \A l \in DOMAIN room.cache \cup {p} : r.buf.cache[l] = IF l = p THEN key ELSE room.cache[l]
  BY <1>2
<1>4. Sound(r, W)
  BY <1>1, <1>2, <1>3 DEF Sound
<1>5. \A l \in Location : Word(r, l) = IF l = p THEN key ELSE Word(m, l)
  <2> SUFFICES ASSUME NEW l \in Location PROVE Word(r, l) = IF l = p THEN key ELSE Word(m, l)
    OBVIOUS
  <2>1. Word(r, l) = IF l \in DOMAIN r.buf.cache THEN r.buf.cache[l] ELSE r.buf.nvm[l]
    BY WordIs
  <2> QED
    BY <1>1, <1>2, <1>3, <2>1
<1>6. Untransferred(r) => Untransferred(m)
  BY <1>1, <1>2 DEF Untransferred
<1> QED
  BY <1>2, <1>4, <1>5, <1>6 DEF Leads

\* No two keys of nodes share a location.
LEMMA AddressIs ==
  ASSUME NEW x \in 1 .. SIZE + OPS, NEW j \in Nodes!Slot
  PROVE  /\ Address(x, j) \in Location
         /\ \A y \in 1 .. SIZE + OPS : \A i \in Nodes!Slot :
              Address(x, j) = Address(y, i) => x = y /\ j = i
<1> PICK F : F = Nodes!FULL
  OBVIOUS
<1>1. F \in Nat /\ \A i \in Nodes!Slot : i \in Nat /\ i < F
  BY Degrees DEF Nodes!Slot
<1>2. \A y, i : Address(y, i) = (y - 1) * F + i
  BY DEF Address
<1>3. \A a, d \in Nat : /\ (a + 1 + d) * F = a * F + F + d * F
                        /\ a * F \in Nat /\ d * F \in Nat
  BY <1>1
<1>4. ASSUME NEW a \in 1 .. SIZE + OPS, NEW b \in 1 .. SIZE + OPS, a < b,
             NEW i \in Nodes!Slot, NEW l \in Nodes!Slot
      PROVE  Address(a, i) < Address(b, l)
  <2>1. PICK d \in Nat : b - 1 = (a - 1) + 1 + d
    <3>1. b - a - 1 \in Nat /\ b - 1 = (a - 1) + 1 + (b - a - 1)
      BY <1>4, Given
    <3> QED
      BY <3>1
  <2> PICK c \in Nat : c = a - 1
    BY Given
  <2>2. (c + 1 + d) * F = c * F + F + d * F /\ c * F \in Nat /\ d * F \in Nat
    BY <1>3
  <2> PICK p \in Nat, q \in Nat : p = c * F /\ q = d * F
    BY <2>2
  <2>3. (a - 1) * F = p /\ (b - 1) * F = p + F + q
    BY <2>1, <2>2
  <2>4. Address(a, i) = p + i /\ Address(b, l) = p + F + q + l
    BY <1>2, <2>3
  <2> QED
    BY <1>1, <2>4
<1>5. Address(x, j) \in Location
  <2>1. PICK d \in Nat : SIZE + OPS = (x - 1) + 1 + d
    <3>1. SIZE + OPS - x \in Nat /\ SIZE + OPS = (x - 1) + 1 + (SIZE + OPS - x)
      BY Given
    <3> QED
      BY <3>1
  <2> PICK c \in Nat : c = x - 1
    BY Given
  <2>2. (c + 1 + d) * F = c * F + F + d * F /\ c * F \in Nat /\ d * F \in Nat
    BY <1>3
  <2> PICK p \in Nat, q \in Nat : p = c * F /\ q = d * F
    BY <2>2
  <2>3. (x - 1) * F = p /\ (SIZE + OPS) * F = p + F + q
    BY <2>1, <2>2
  <2>4. Address(x, j) = p + j /\ (SIZE + OPS) * F = p + F + q
    BY <1>2, <2>3
  <2>5. Address(x, j) \in 0 .. (SIZE + OPS) * F - 1
    <3> PICK N : N = (SIZE + OPS) * F
      OBVIOUS
    <3>1. N = p + F + q
      BY <2>4
    <3>2. p + j \in 0 .. N - 1
      BY <1>1, <3>1
    <3> QED
      BY <2>4, <3>2
  <2> QED
    BY <2>5 DEF Location
<1>6. ASSUME NEW y \in 1 .. SIZE + OPS, NEW i \in Nodes!Slot, Address(x, j) = Address(y, i)
      PROVE  x = y /\ j = i
  <2>1. Address(x, j) \in Int /\ ~(Address(x, j) < Address(x, j))
    BY <1>5 DEF Location
  <2>2. x = y
    <3>1. ~(x < y) /\ ~(y < x)
      BY <1>4, <1>6, <2>1
    <3> QED
      BY <3>1, Given
  <2>3. (x - 1) * F \in Int
    BY <1>1, Given
  <2> PICK p \in Int : p = (x - 1) * F
    BY <2>3
  <2>4. p + j = p + i
    BY <1>2, <1>6, <2>2
  <2> QED
    BY <1>1, <2>2, <2>4
<1> QED
  BY <1>5, <1>6

\* One key read, written or moved.
LEMMA MoveIs ==
  ASSUME NEW m, NEW W, Sound(m, W), UNINIT \notin W, NEW x, NEW i, NEW y, NEW j,
         Address(x, i) \in Location, Address(y, j) \in Location, Word(m, Address(x, i)) \in W
  PROVE  LET r == Move(m, x, i, y, j)
         IN  /\ Leads(m, r, {Address(y, j)}, W)
             /\ Word(r, Address(y, j)) \in W
             /\ r.exact <=> m.exact /\ Buffer!Exact(m.buf, Address(x, i))
             /\ r.exact => Word(r, Address(y, j)) = Word(m, Address(x, i))
<1> DEFINE S == {Address(x, i)}
           seen == Seen(m, x, i)
           key == Read(m, x, i)
           r == Move(m, x, i, y, j)
<1>1. /\ DOMAIN seen = DOMAIN m /\ seen.buf = m.buf
      /\ seen.exact = (m.exact /\ Buffer!Exact(m.buf, Address(x, i)))
  BY DEF Seen, Sound
<1>2. S \subseteq Location /\ \A l \in S : Word(m, l) \in W
  OBVIOUS
<1> HIDE DEF seen
<1>3. Leads(m, seen, {}, W)
  <2>1. seen.exact \in BOOLEAN
    BY <1>1
  <2>2. seen.exact <=> m.exact /\ \A l \in S : Buffer!Exact(m.buf, l)
    BY <1>1
  <2> HIDE DEF S
  <2> QED
    BY <1>1, <1>2, <2>1, <2>2, SeenIs
<1>4. key \in W
  BY ReadIsWritten DEF Read
<1>5. r = [seen EXCEPT !.buf = Buffer!Store(@, Address(y, j), key)]
  BY DEF Move, Write, seen
<1>6. Sound(seen, W)
  BY <1>3 DEF Leads
<1>7. Leads(seen, r, {Address(y, j)}, W) /\ r.exact = seen.exact /\ Word(r, Address(y, j)) = key
  BY <1>4, <1>5, <1>6, StoreIs
<1>8. Leads(m, r, {Address(y, j)}, W)
  BY <1>3, <1>7, LeadsOn
<1>9. seen.exact <=> m.exact /\ Buffer!Exact(m.buf, Address(x, i))
  BY <1>1
<1>10. seen.exact => key = Word(m, Address(x, i))
  BY <1>9 DEF Read, Buffer!Exact, Word
<1> QED
  BY <1>4, <1>7, <1>8, <1>9, <1>10

\* What is true of 0 and of the next of every number it is true of.
LEMMA NatSteps ==
  ASSUME NEW S, 0 \in S, \A n \in Nat : n \in S => n + 1 \in S
  PROVE  Nat \subseteq S
<1> SUFFICES ASSUME NEW b \in Nat, b \notin S PROVE FALSE
  OBVIOUS
<1> DEFINE B == {n \in Nat : \A q \in 0 .. n : q \in S}
<1>1. B \subseteq Int /\ 0 \in B
  OBVIOUS
<1>2. \A n \in B : n <= b
  OBVIOUS
<1>3. \A n \in B : n + 1 \in B
  <2> SUFFICES ASSUME NEW n \in B, NEW q \in 0 .. n + 1 PROVE q \in S
    OBVIOUS
  <2>1. n \in S
    OBVIOUS
  <2> QED
    BY <2>1
<1> HIDE DEF B
<1>4. Max(B) \in B /\ \A n \in B : n <= Max(B)
  <2>1. b \in Int /\ B # {}
    BY <1>1
  <2> QED
    BY <1>1, <1>2, <2>1, MaxIsGreatest
<1> PICK n : n = Max(B)
  OBVIOUS
<1>5. n \in Int /\ n + 1 <= n
  BY <1>1, <1>3, <1>4
<1> QED
  BY <1>5

\* The memory after each iteration of a loop.
IsRun(f, m, x, from, y, to, n) ==
  f = [d \in 0 .. n |-> IF d = 0 THEN m ELSE Move(f[d - 1], x, from[d], y, to[d])]

LEMMA RunIs ==
  ASSUME NEW f, NEW m, NEW x, NEW from, NEW y, NEW to, NEW n \in Nat,
         IsRun(f, m, x, from, y, to, n)
  PROVE  f[0] = m /\ \A d \in 0 .. n - 1 : f[d + 1] = Move(f[d], x, from[d + 1], y, to[d + 1])
<1>1. \A d \in 0 .. n : f[d] = IF d = 0 THEN m ELSE Move(f[d - 1], x, from[d], y, to[d])
  BY DEF IsRun
<1>2. ASSUME NEW d \in 0 .. n - 1
      PROVE  f[d + 1] = Move(f[d], x, from[d + 1], y, to[d + 1])
  <2> PICK e : e = d + 1
    OBVIOUS
  <2>1. e \in 0 .. n /\ e # 0 /\ e - 1 = d
    OBVIOUS
  <2> QED
    BY <1>1, <2>1
<1> QED
  BY <1>1, <1>2

LEMMA RunExists ==
  ASSUME NEW m, NEW x, NEW from, NEW y, NEW to, NEW n \in Nat
  PROVE  \E f : IsRun(f, m, x, from, y, to, n)
<1> DEFINE S == {p \in Nat : \E f : IsRun(f, m, x, from, y, to, p)}
<1>1. 0 \in S
  <2> DEFINE f == [d \in 0 .. 0 |-> m]
  <2>1. IsRun(f, m, x, from, y, to, 0)
    BY DEF IsRun
  <2> QED
    BY <2>1
<1>2. ASSUME NEW p \in Nat, p \in S PROVE p + 1 \in S
  <2>1. PICK f : IsRun(f, m, x, from, y, to, p)
    BY <1>2
  <2> DEFINE g == [d \in 0 .. p + 1 |-> IF d = p + 1 THEN Move(f[p], x, from[d], y, to[d]) ELSE f[d]]
  <2>2. \A d \in 0 .. p : f[d] = IF d = 0 THEN m ELSE Move(f[d - 1], x, from[d], y, to[d])
    BY <2>1 DEF IsRun
  <2>3. ASSUME NEW d \in 0 .. p + 1
        PROVE  g[d] = IF d = 0 THEN m ELSE Move(g[d - 1], x, from[d], y, to[d])
    <3>1. CASE d = p + 1
      <4>1. g[d - 1] = f[p] /\ d # 0
        BY <3>1
      <4>2. g[d] = Move(f[p], x, from[d], y, to[d])
        BY <3>1
      <4> HIDE DEF g
      <4> QED
        BY <4>1, <4>2
    <3>2. CASE d # p + 1
      <4>1. g[d] = f[d] /\ d \in 0 .. p
        BY <3>2
      <4>2. d # 0 => g[d - 1] = f[d - 1]
        BY <3>2
      <4> HIDE DEF g
      <4> QED
        BY <2>2, <4>1, <4>2
    <3> QED
      BY <3>1, <3>2
  <2>4. g = [d \in 0 .. p + 1 |-> g[d]]
    OBVIOUS
  <2> HIDE DEF g
  <2>5. IsRun(g, m, x, from, y, to, p + 1)
    BY <2>3, <2>4 DEF IsRun
  <2> QED
    BY <2>5
<1> HIDE DEF S
<1>3. n \in S
  BY <1>1, <1>2, NatSteps
<1> QED
  BY <1>3 DEF S

LEMMA RunsAgree ==
  ASSUME NEW f, NEW g, NEW m, NEW x, NEW from, NEW y, NEW to, NEW n \in Nat, NEW p \in Nat,
         IsRun(f, m, x, from, y, to, n), IsRun(g, m, x, from, y, to, p), p <= n
  PROVE  g[p] = f[p]
<1> DEFINE S == {d \in Nat : d <= p => g[d] = f[d]}
<1>1. /\ f[0] = m /\ \A d \in 0 .. n - 1 : f[d + 1] = Move(f[d], x, from[d + 1], y, to[d + 1])
      /\ g[0] = m /\ \A d \in 0 .. p - 1 : g[d + 1] = Move(g[d], x, from[d + 1], y, to[d + 1])
  BY RunIs
<1>2. 0 \in S
  BY <1>1
<1>3. ASSUME NEW d \in Nat, d \in S PROVE d + 1 \in S
  <2> SUFFICES ASSUME d + 1 <= p PROVE g[d + 1] = f[d + 1]
    OBVIOUS
  <2>1. d \in 0 .. n - 1 /\ d \in 0 .. p - 1 /\ g[d] = f[d]
    BY <1>3
  <2> QED
    BY <1>1, <2>1
<1> HIDE DEF S
<1>4. p \in S
  BY <1>2, <1>3, NatSteps
<1> QED
  BY <1>4 DEF S

LEMMA MoveKeysRuns ==
  ASSUME NEW m, NEW x, NEW from, NEW y, NEW to, NEW n \in Nat
  PROVE  \E f : IsRun(f, m, x, from, y, to, n) /\ MoveKeys(m, x, from, y, to, n) = f[n]
<1> DEFINE P(f) == f = [d \in 0 .. n |-> IF d = 0 THEN m ELSE Move(f[d - 1], x, from[d], y, to[d])]
<1>1. \E f : P(f)
  <2>1. PICK f : IsRun(f, m, x, from, y, to, n)
    BY RunExists
  <2>2. P(f)
    BY <2>1 DEF IsRun
  <2> HIDE DEF P
  <2> QED
    BY <2>2
<1>2. MoveKeys(m, x, from, y, to, n) = (CHOOSE f : P(f))[n]
  BY DEF MoveKeys
<1> HIDE DEF P
<1>3. P(CHOOSE f : P(f))
  BY <1>1
<1> DEFINE f == CHOOSE g : P(g)
<1> HIDE DEF f
<1>4. P(f) /\ MoveKeys(m, x, from, y, to, n) = f[n]
  BY <1>2, <1>3 DEF f
<1>5. IsRun(f, m, x, from, y, to, n)
  BY <1>4 DEF P, IsRun
<1> QED
  BY <1>4, <1>5

\* A loop does its iterations one after the other.
LEMMA NoIteration ==
  ASSUME NEW m, NEW x, NEW from, NEW y, NEW to
  PROVE  MoveKeys(m, x, from, y, to, 0) = m
BY MoveKeysRuns, RunIs

LEMMA OneIteration ==
  ASSUME NEW m, NEW x, NEW from, NEW y, NEW to, NEW n \in Nat
  PROVE  MoveKeys(m, x, from, y, to, n + 1)
           = Move(MoveKeys(m, x, from, y, to, n), x, from[n + 1], y, to[n + 1])
<1> PICK p : p = n + 1
  OBVIOUS
<1>1. p \in Nat /\ n <= p /\ n \in 0 .. p - 1
  OBVIOUS
<1>2. PICK f : IsRun(f, m, x, from, y, to, p) /\ MoveKeys(m, x, from, y, to, p) = f[p]
  BY <1>1, MoveKeysRuns
<1>3. PICK g : IsRun(g, m, x, from, y, to, n) /\ MoveKeys(m, x, from, y, to, n) = g[n]
  BY MoveKeysRuns
<1>4. g[n] = f[n]
  BY <1>1, <1>2, <1>3, RunsAgree
<1>5. f[n + 1] = Move(f[n], x, from[n + 1], y, to[n + 1])
  BY <1>1, <1>2, RunIs
<1> QED
  BY <1>2, <1>3, <1>4, <1>5

\* A loop that moves words written from the places A to the places B, in L.
IsLoop(m, W, x, from, y, to, count, A, B, L) ==
  \A d \in 1 .. count : /\ A[d] = Address(x, from[d]) /\ B[d] = Address(y, to[d])
                        /\ A[d] \in Location /\ B[d] \in Location /\ B[d] \in L
                        /\ Word(m, A[d]) \in W

\* The memory before each of its iterations.
IsTrace(at, m, x, from, y, to, count) ==
  \A d \in 1 .. count : at[d] = MoveKeys(m, x, from, y, to, d - 1)

LEMMA LoopIs ==
  ASSUME NEW m, NEW W, Sound(m, W), UNINIT \notin W,
         NEW x, NEW from, NEW y, NEW to, NEW count \in Nat, NEW A, NEW B, NEW L,
         IsLoop(m, W, x, from, y, to, count, A, B, L),
         NEW r, r = MoveKeys(m, x, from, y, to, count),
         NEW at, IsTrace(at, m, x, from, y, to, count)
  PROVE  /\ Leads(m, r, L, W)
         /\ \A d \in 1 .. count : Word(r, B[d]) \in W
         /\ r.exact /\ (\A e \in 1 .. count : \A d \in 1 .. count :
                          d < e => A[e] # B[d] /\ B[e] # B[d])
              => \A d \in 1 .. count : Word(r, B[d]) = Word(m, A[d])
         /\ r.exact => \A d \in 1 .. count : Buffer!Exact(at[d].buf, A[d])
<1> DEFINE Clean == \A e \in 1 .. count : \A d \in 1 .. count : d < e => A[e] # B[d] /\ B[e] # B[d]
           moved(n) == MoveKeys(m, x, from, y, to, n)
           P(n) == /\ Leads(m, moved(n), {B[d] : d \in 1 .. n}, W)
                   /\ \A d \in 1 .. n : Word(moved(n), B[d]) \in W
                   /\ moved(n).exact /\ Clean => \A d \in 1 .. n : Word(moved(n), B[d]) = Word(m, A[d])
                   /\ moved(n).exact => \A d \in 1 .. n : Buffer!Exact(at[d].buf, A[d])
           S == {n \in Nat : n <= count => P(n)}
<1>1. moved(0) = m
  BY NoIteration
<1> HIDE DEF moved
<1>2. 0 \in S
  <2>1. {B[d] : d \in 1 .. 0} = {} /\ \A d \in 1 .. 0 : FALSE
    OBVIOUS
  <2>2. Leads(m, m, {}, W)
    BY LeadsToItself
  <2>3. P(0)
    BY <1>1, <2>1, <2>2
  <2> HIDE DEF P
  <2> QED
    BY <2>3
<1>3. ASSUME NEW n \in Nat, n \in S PROVE n + 1 \in S
  <2> SUFFICES ASSUME n + 1 <= count PROVE P(n + 1)
    OBVIOUS
  <2> PICK e : e = n + 1
    OBVIOUS
  <2> DEFINE p == moved(n)
             q == moved(e)
             Bs == {B[d] : d \in 1 .. n}
  <2>1. e \in 1 .. count /\ n <= count
    OBVIOUS
  <2>2. P(n)
    BY <1>3, <2>1
  <2>3. /\ Leads(m, p, Bs, W)
        /\ \A d \in 1 .. n : Word(p, B[d]) \in W
        /\ p.exact /\ Clean => \A d \in 1 .. n : Word(p, B[d]) = Word(m, A[d])
        /\ p.exact => \A d \in 1 .. n : Buffer!Exact(at[d].buf, A[d])
    BY <2>2
  <2>4. q = Move(p, x, from[e], y, to[e])
    BY OneIteration DEF moved
  <2>5. /\ A[e] = Address(x, from[e]) /\ B[e] = Address(y, to[e])
        /\ A[e] \in Location /\ B[e] \in Location /\ Word(m, A[e]) \in W
    BY <2>1 DEF IsLoop
  <2>6. \A d \in 1 .. e : d \in 1 .. n \/ d = e
    OBVIOUS
  <2>7. \A d \in 1 .. n : d \in 1 .. count /\ d < e /\ d # e
    BY <2>1
  <2> HIDE DEF p, q, Clean
  <2>8. Sound(p, W) /\ Word(p, A[e]) \in W
    BY <2>3, <2>5 DEF Leads
  <2>9. /\ Leads(p, q, {B[e]}, W)
        /\ Word(q, B[e]) \in W
        /\ q.exact <=> p.exact /\ Buffer!Exact(p.buf, A[e])
        /\ q.exact => Word(q, B[e]) = Word(p, A[e])
    BY <2>4, <2>5, <2>8, MoveIs
  <2>10. Leads(m, q, {B[d] : d \in 1 .. e}, W)
    <3>1. {B[e]} \subseteq {B[d] : d \in 1 .. e} /\ Bs \subseteq {B[d] : d \in 1 .. e}
      BY <2>6
    <3> HIDE DEF Bs
    <3> QED
      BY <2>3, <2>9, <3>1, LeadsOn
  <2>11. ASSUME NEW d \in 1 .. e PROVE Word(q, B[d]) \in W
    <3>1. CASE d = e
      BY <2>9, <3>1
    <3>2. CASE d # e
      <4>1. d \in 1 .. n /\ B[d] \in Location
        BY <2>6, <2>7, <3>2 DEF IsLoop
      <4> QED
        BY <2>3, <2>9, <4>1 DEF Leads
    <3> QED
      BY <3>1, <3>2
  <2>12. ASSUME q.exact, Clean, NEW d \in 1 .. e PROVE Word(q, B[d]) = Word(m, A[d])
    <3>1. CASE d = e
      <4>1. ASSUME NEW c \in 1 .. n PROVE A[e] # B[c]
        BY <2>1, <2>7, <2>12 DEF Clean
      <4>2. A[e] \in Location \ Bs
        BY <2>5, <4>1
      <4>3. Word(p, A[e]) = Word(m, A[e])
        BY <2>3, <4>2 DEF Leads
      <4> QED
        BY <2>9, <2>12, <3>1, <4>3
    <3>2. CASE d # e
      <4>1. d \in 1 .. n /\ B[d] \in Location
        BY <2>6, <2>7, <3>2 DEF IsLoop
      <4>2. B[d] # B[e]
        BY <2>1, <2>7, <2>12, <4>1 DEF Clean
      <4>3. Word(q, B[d]) = Word(p, B[d])
        BY <2>9, <4>1, <4>2 DEF Leads
      <4>4. p.exact
        BY <2>9, <2>12
      <4> QED
        BY <2>3, <2>12, <4>1, <4>3, <4>4
    <3> QED
      BY <3>1, <3>2
  <2>13. ASSUME q.exact, NEW d \in 1 .. e PROVE Buffer!Exact(at[d].buf, A[d])
    <3>1. CASE d = e
      <4>1. at[d] = p
        BY <2>1, <3>1 DEF p, moved, IsTrace
      <4> QED
        BY <2>9, <2>13, <3>1, <4>1
    <3>2. CASE d # e
      BY <2>3, <2>6, <2>9, <2>13, <3>2
    <3> QED
      BY <3>1, <3>2
  <2>14. P(e)
    BY <2>10, <2>11, <2>12, <2>13 DEF q
  <2> HIDE DEF P
  <2> QED
    BY <2>14
<1> HIDE DEF S, P
<1>4. count \in S
  BY <1>2, <1>3, NatSteps
<1>5. P(count)
  BY <1>4 DEF S
<1>6. r = moved(count)
  BY DEF moved
<1>7. Leads(m, r, L, W)
  <2> DEFINE Bs == {B[d] : d \in 1 .. count}
  <2>1. Bs \subseteq L
    BY DEF IsLoop
  <2>2. Leads(m, r, Bs, W)
    BY <1>5, <1>6 DEF P
  <2> HIDE DEF Bs
  <2> QED
    BY <2>1, <2>2 DEF Leads
<1> QED
  BY <1>5, <1>6, <1>7 DEF P, moved, Clean
\* The memory after a loop: what stood at the places A stands at the places B,
\* if the reads were right and no place is read after it was written.
LEMMA MoveKeysAre ==
  ASSUME NEW m, NEW W, Sound(m, W), UNINIT \notin W,
         NEW x, NEW from, NEW y, NEW to, NEW count \in Nat, NEW A, NEW B, NEW L,
         IsLoop(m, W, x, from, y, to, count, A, B, L),
         NEW r, r = MoveKeys(m, x, from, y, to, count)
  PROVE  /\ Leads(m, r, L, W)
         /\ \A d \in 1 .. count : Word(r, B[d]) \in W
         /\ r.exact /\ (\A e \in 1 .. count : \A d \in 1 .. count :
                          d < e => A[e] # B[d] /\ B[e] # B[d])
              => \A d \in 1 .. count : Word(r, B[d]) = Word(m, A[d])
<1> DEFINE at == [d \in 1 .. count |-> MoveKeys(m, x, from, y, to, d - 1)]
<1>1. IsTrace(at, m, x, from, y, to, count)
  BY DEF IsTrace
<1> HIDE DEF at
<1> QED
  BY <1>1, LoopIs

LEMMA MoveKeysRead ==
  ASSUME NEW m, NEW W, Sound(m, W), UNINIT \notin W,
         NEW x, NEW from, NEW y, NEW to, NEW count \in Nat, NEW A, NEW B, NEW L,
         IsLoop(m, W, x, from, y, to, count, A, B, L),
         MoveKeys(m, x, from, y, to, count).exact, NEW d \in 1 .. count
  PROVE  Buffer!Exact(MoveKeys(m, x, from, y, to, d - 1).buf, A[d])
<1> DEFINE at == [c \in 1 .. count |-> MoveKeys(m, x, from, y, to, c - 1)]
<1>1. IsTrace(at, m, x, from, y, to, count) /\ at[d] = MoveKeys(m, x, from, y, to, d - 1)
  BY DEF IsTrace
<1> HIDE DEF at
<1> QED
  BY <1>1, LoopIs

\* The locations of keys of x.
Cells(x, first, last) == {Address(x, j) : j \in first .. last}

\* Keys of x, from place first on and n in all, that were written.
Written(m, W, x, first, n) == \A j \in first .. n - 1 : Word(m, Address(x, j)) \in W

\* The iteration that moves key j up reads it rightly.
ReadUp(m, x, n, j) == Buffer!Exact(MoveUp(m, x, n, j + 1).buf, Address(x, j))

\* The keys of x from place first on, one place up.
LEMMA MoveUpIs ==
  ASSUME NEW m, NEW W, Sound(m, W), UNINIT \notin W,
         NEW x \in 1 .. SIZE + OPS, NEW n \in Nat, n < Nodes!FULL, NEW first \in 0 .. n,
         Written(m, W, x, first, n),
         NEW r, r = MoveUp(m, x, n, first)
  PROVE  /\ Leads(m, r, Cells(x, first + 1, n), W)
         /\ \A j \in first .. n - 1 : Word(r, Address(x, j + 1)) \in W
         /\ r.exact => \A j \in first .. n - 1 : Word(r, Address(x, j + 1)) = Word(m, Address(x, j))
         /\ r.exact => \A j \in first .. n - 1 : ReadUp(m, x, n, j)
<1> DEFINE from == [d \in 1 .. n |-> n - d]
           to == [d \in 1 .. n |-> n - d + 1]
           count == n - first
           A == [d \in 1 .. count |-> Address(x, n - d)]
           B == [d \in 1 .. count |-> Address(x, n - d + 1)]
           L == Cells(x, first + 1, n)
<1>1. count \in Nat /\ count <= n /\ \A d \in 1 .. count : d \in 1 .. n
  OBVIOUS
<1>2. \A d \in 1 .. count : from[d] = n - d /\ to[d] = n - d + 1
  BY <1>1
<1>3. \A d \in 1 .. count : /\ n - d \in first .. n - 1 /\ n - d \in Nodes!Slot
                            /\ n - d + 1 \in first + 1 .. n /\ n - d + 1 \in Nodes!Slot
  BY Degrees DEF Nodes!Slot
<1>4. \A d \in 1 .. count : A[d] = Address(x, n - d) /\ B[d] = Address(x, n - d + 1)
  OBVIOUS
<1>5. \A j \in first .. n - 1 : n - j \in 1 .. count /\ n - (n - j) = j /\ n - (n - j) + 1 = j + 1
                                /\ n - (j + 1) = (n - j) - 1
  OBVIOUS
<1>6. \A e \in 1 .. count : \A d \in 1 .. count :
        d < e => n - e # n - d + 1 /\ n - e + 1 # n - d + 1
  OBVIOUS
<1>7. \A i : MoveUp(m, x, n, i) = MoveKeys(m, x, from, x, to, n - i)
  BY DEF MoveUp
<1> HIDE DEF from, to, count, A, B
<1>8. \A d \in 1 .. count : /\ A[d] = Address(x, from[d]) /\ B[d] = Address(x, to[d])
                            /\ A[d] \in Location /\ B[d] \in Location /\ B[d] \in L
                            /\ Word(m, A[d]) \in W
  <2> SUFFICES ASSUME NEW d \in 1 .. count
               PROVE  /\ A[d] = Address(x, from[d]) /\ B[d] = Address(x, to[d])
                      /\ A[d] \in Location /\ B[d] \in Location /\ B[d] \in L
                      /\ Word(m, A[d]) \in W
    OBVIOUS
  <2>1. A[d] \in Location /\ B[d] \in Location
    BY <1>3, <1>4, AddressIs
  <2>2. B[d] \in L
    BY <1>3, <1>4 DEF Cells
  <2>3. Word(m, A[d]) \in W
    BY <1>3, <1>4 DEF Written, Nodes!Slot
  <2> QED
    BY <1>2, <1>4, <2>1, <2>2, <2>3
<1>9. \A e \in 1 .. count : \A d \in 1 .. count : d < e => A[e] # B[d] /\ B[e] # B[d]
  <2> SUFFICES ASSUME NEW e \in 1 .. count, NEW d \in 1 .. count, d < e
               PROVE  A[e] # B[d] /\ B[e] # B[d]
    OBVIOUS
  <2>1. n - e # n - d + 1 /\ n - e + 1 # n - d + 1
    BY <1>6
  <2> PICK a : a = n - e
    OBVIOUS
  <2> PICK b : b = n - e + 1
    OBVIOUS
  <2> PICK c : c = n - d + 1
    OBVIOUS
  <2>2. a \in Nodes!Slot /\ b \in Nodes!Slot /\ c \in Nodes!Slot /\ a # c /\ b # c
    BY <1>3, <2>1
  <2>3. Address(x, a) # Address(x, c) /\ Address(x, b) # Address(x, c)
    BY <2>2, AddressIs
  <2> QED
    BY <1>4, <2>3
<1> HIDE DEF L
<1>10. r = MoveKeys(m, x, from, x, to, count)
  BY <1>7 DEF count
<1>11. IsLoop(m, W, x, from, x, to, count, A, B, L) /\ count \in Nat
  BY <1>1, <1>8 DEF IsLoop
<1>12. /\ Leads(m, r, L, W)
       /\ \A d \in 1 .. count : Word(r, B[d]) \in W
       /\ r.exact => \A d \in 1 .. count : Word(r, B[d]) = Word(m, A[d])
  BY <1>9, <1>10, <1>11, MoveKeysAre
<1>13. ASSUME NEW j \in first .. n - 1
       PROVE  /\ Word(r, Address(x, j + 1)) \in W
              /\ r.exact => Word(r, Address(x, j + 1)) = Word(m, Address(x, j))
              /\ r.exact => ReadUp(m, x, n, j)
  <2> PICK d : d = n - j
    OBVIOUS
  <2>1. d \in 1 .. count /\ n - d = j /\ n - d + 1 = j + 1 /\ n - (j + 1) = d - 1
    BY <1>5
  <2>2. A[d] = Address(x, j) /\ B[d] = Address(x, j + 1)
    BY <1>4, <2>1
  <2>3. MoveUp(m, x, n, j + 1) = MoveKeys(m, x, from, x, to, d - 1)
    BY <1>7, <2>1
  <2>4. r.exact => Buffer!Exact(MoveKeys(m, x, from, x, to, d - 1).buf, A[d])
    BY <1>10, <1>11, <2>1, MoveKeysRead
  <2> QED
    BY <1>12, <2>1, <2>2, <2>3, <2>4 DEF ReadUp
<1> QED
  BY <1>12, <1>13 DEF L

\* The upper keys of y in z.
LEMMA UpperKeysAre ==
  ASSUME NEW m, NEW W, Sound(m, W), UNINIT \notin W,
         NEW y \in 1 .. SIZE + OPS, NEW z \in 1 .. SIZE + OPS, y # z,
         Written(m, W, y, 0, Nodes!FULL),
         NEW r, r = UpperKeys(m, y, z)
  PROVE  /\ Leads(m, r, Cells(z, 0, T - 2), W)
         /\ \A j \in 0 .. T - 2 : Word(r, Address(z, j)) \in W
         /\ r.exact => \A j \in 0 .. T - 2 : Word(r, Address(z, j)) = Word(m, Address(y, j + T))
<1> DEFINE from == [d \in 1 .. T - 1 |-> d - 1 + T]
           to == [d \in 1 .. T - 1 |-> d - 1]
           count == T - 1
           A == [d \in 1 .. count |-> Address(y, d - 1 + T)]
           B == [d \in 1 .. count |-> Address(z, d - 1)]
           L == Cells(z, 0, T - 2)
<1>1. count \in Nat
  BY Given
<1>2. \A d \in 1 .. count : from[d] = d - 1 + T /\ to[d] = d - 1
  OBVIOUS
<1>3. \A d \in 1 .. count : /\ d - 1 + T \in Nodes!Slot
                            /\ d - 1 \in 0 .. T - 2 /\ d - 1 \in Nodes!Slot
  BY Given, Degrees DEF Nodes!Slot
<1>4. \A d \in 1 .. count : A[d] = Address(y, d - 1 + T) /\ B[d] = Address(z, d - 1)
  OBVIOUS
<1>5. \A j \in 0 .. T - 2 : j + 1 \in 1 .. count /\ j + 1 - 1 = j /\ j + 1 - 1 + T = j + T
  BY Given
<1>6. \A e \in 1 .. count : \A d \in 1 .. count : d < e => e - 1 # d - 1
  BY Given
<1>7. r = MoveKeys(m, y, from, z, to, count)
  BY DEF UpperKeys
<1> HIDE DEF from, to, count, A, B
<1>8. \A d \in 1 .. count : /\ A[d] = Address(y, from[d]) /\ B[d] = Address(z, to[d])
                            /\ A[d] \in Location /\ B[d] \in Location /\ B[d] \in L
                            /\ Word(m, A[d]) \in W
  <2> SUFFICES ASSUME NEW d \in 1 .. count
               PROVE  /\ A[d] = Address(y, from[d]) /\ B[d] = Address(z, to[d])
                      /\ A[d] \in Location /\ B[d] \in Location /\ B[d] \in L
                      /\ Word(m, A[d]) \in W
    OBVIOUS
  <2>1. A[d] \in Location /\ B[d] \in Location
    BY <1>3, <1>4, AddressIs
  <2>2. B[d] \in L
    BY <1>3, <1>4 DEF Cells
  <2>3. Word(m, A[d]) \in W
    BY <1>3, <1>4 DEF Written, Nodes!Slot
  <2> QED
    BY <1>2, <1>4, <2>1, <2>2, <2>3
<1>9. \A e \in 1 .. count : \A d \in 1 .. count : d < e => A[e] # B[d] /\ B[e] # B[d]
  <2> SUFFICES ASSUME NEW e \in 1 .. count, NEW d \in 1 .. count, d < e
               PROVE  A[e] # B[d] /\ B[e] # B[d]
    OBVIOUS
  <2> PICK a : a = e - 1 + T
    OBVIOUS
  <2> PICK b : b = e - 1
    OBVIOUS
  <2> PICK c : c = d - 1
    OBVIOUS
  <2>1. a \in Nodes!Slot /\ b \in Nodes!Slot /\ c \in Nodes!Slot /\ b # c
    BY <1>3, <1>6
  <2>2. Address(y, a) # Address(z, c) /\ Address(z, b) # Address(z, c)
    BY <2>1, AddressIs
  <2> QED
    BY <1>4, <2>2
<1> HIDE DEF L
<1>10. IsLoop(m, W, y, from, z, to, count, A, B, L)
  BY <1>8 DEF IsLoop
<1>11. /\ Leads(m, r, L, W)
       /\ \A d \in 1 .. count : Word(r, B[d]) \in W
       /\ r.exact => \A d \in 1 .. count : Word(r, B[d]) = Word(m, A[d])
  BY <1>1, <1>7, <1>9, <1>10, MoveKeysAre
<1>12. ASSUME NEW j \in 0 .. T - 2
       PROVE  /\ Word(r, Address(z, j)) \in W
              /\ r.exact => Word(r, Address(z, j)) = Word(m, Address(y, j + T))
  <2> PICK d : d = j + 1
    OBVIOUS
  <2>1. d \in 1 .. count /\ d - 1 = j /\ d - 1 + T = j + T
    BY <1>5
  <2>2. A[d] = Address(y, j + T) /\ B[d] = Address(z, j)
    BY <1>4, <2>1
  <2> QED
    BY <1>11, <2>1, <2>2
<1> QED
  BY <1>11, <1>12 DEF L

\* splitChild on the keys.
LEMMA SplitKeysAre ==
  ASSUME NEW m, NEW W, Sound(m, W), UNINIT \notin W,
         NEW heap, NEW x \in 1 .. SIZE + OPS, NEW y \in 1 .. SIZE + OPS, NEW z \in 1 .. SIZE + OPS,
         x # y, y # z, x # z, NEW n \in Nat, n < Nodes!FULL, NEW i \in 0 .. n,
         heap[x].n = n, heap[x].C[i] = y,
         Written(m, W, y, 0, Nodes!FULL),
         Written(m, W, x, 0, n),
         NEW r, r = SplitKeys(m, heap, x, i, z)
  PROVE  /\ Leads(m, r, Cells(z, 0, T - 2) \cup Cells(x, i, n), W)
         /\ \A j \in 0 .. T - 2 : Word(r, Address(z, j)) \in W
         /\ \A j \in i .. n : Word(r, Address(x, j)) \in W
         /\ r.exact =>
              /\ \A j \in 0 .. T - 2 : Word(r, Address(z, j)) = Word(m, Address(y, j + T))
              /\ Word(r, Address(x, i)) = Word(m, Address(y, T - 1))
              /\ \A j \in i .. n - 1 : Word(r, Address(x, j + 1)) = Word(m, Address(x, j))
<1> DEFINE u == UpperKeys(m, y, z)
           v == MoveUp(u, x, n, i)
           Zs == Cells(z, 0, T - 2)
           Ups == Cells(x, i + 1, n)
           Xs == Cells(x, i, n)
<1>1. r = Move(v, y, T - 1, x, i)
  BY DEF SplitKeys
<1>2. /\ \A j \in 0 .. n : j \in Nodes!Slot
      /\ \A j \in 0 .. T - 2 : j \in Nodes!Slot /\ j + T \in Nodes!Slot
      /\ T - 1 \in Nodes!Slot /\ i \in Nodes!Slot
  BY Given, Degrees DEF Nodes!Slot
<1>3. \A a, b \in 1 .. SIZE + OPS : \A j, l \in Nodes!Slot :
        /\ Address(a, j) \in Location
        /\ a # b \/ j # l => Address(a, j) # Address(b, l)
  BY AddressIs
<1> HIDE DEF u, v
<1>4. /\ Leads(m, u, Zs, W)
      /\ \A j \in 0 .. T - 2 : Word(u, Address(z, j)) \in W
      /\ u.exact => \A j \in 0 .. T - 2 : Word(u, Address(z, j)) = Word(m, Address(y, j + T))
  BY UpperKeysAre DEF u
<1>5. Sound(u, W) /\ \A j \in 0 .. n - 1 : /\ Address(x, j) \in Location \ Zs
                                          /\ Word(u, Address(x, j)) = Word(m, Address(x, j))
  <2>1. ASSUME NEW j \in 0 .. n - 1 PROVE Address(x, j) \in Location \ Zs
    <3>1. j \in Nodes!Slot
      BY <1>2
    <3> QED
      BY <1>2, <1>3, <3>1 DEF Cells
  <2> HIDE DEF Zs
  <2> QED
    BY <1>4, <2>1 DEF Leads
<1>6. Written(u, W, x, i, n)
  <2>1. \A j \in i .. n - 1 : j \in 0 .. n - 1
    OBVIOUS
  <2> QED
    BY <1>5, <2>1 DEF Written
<1>7. /\ Leads(u, v, Ups, W)
      /\ \A j \in i .. n - 1 : Word(v, Address(x, j + 1)) \in W
      /\ v.exact => \A j \in i .. n - 1 : Word(v, Address(x, j + 1)) = Word(u, Address(x, j))
  <2> HIDE DEF Ups
  <2>1. v = MoveUp(u, x, n, i)
    BY DEF v
  <2> QED
    BY <1>5, <1>6, <2>1, MoveUpIs DEF Ups
<1>8. Address(y, T - 1) \in Location /\ Address(x, i) \in Location
  BY <1>2, <1>3
<1>9. Word(m, Address(y, T - 1)) \in W
  BY <1>2 DEF Written, Nodes!Slot
<1>10. Word(u, Address(y, T - 1)) = Word(m, Address(y, T - 1))
  <2>1. Address(y, T - 1) \notin Zs
    BY <1>2, <1>3 DEF Cells
  <2> HIDE DEF Zs
  <2> QED
    BY <1>4, <1>8, <2>1 DEF Leads
<1>11. Word(v, Address(y, T - 1)) = Word(u, Address(y, T - 1))
  <2>1. Address(y, T - 1) \notin Ups
    <3>1. \A j \in i + 1 .. n : j \in Nodes!Slot
      BY <1>2
    <3> QED
      BY <1>2, <1>3, <3>1 DEF Cells
  <2> HIDE DEF Ups
  <2> QED
    BY <1>7, <1>8, <2>1 DEF Leads
<1>12. Sound(v, W)
  BY <1>7 DEF Leads
<1>13. /\ Leads(v, r, {Address(x, i)}, W)
       /\ Word(r, Address(x, i)) \in W
       /\ r.exact => v.exact /\ Word(r, Address(x, i)) = Word(v, Address(y, T - 1))
  BY <1>8, <1>9, <1>10, <1>11, <1>12, <1>1, MoveIs
<1>14. Leads(m, r, Zs \cup Xs, W)
  <2>1. Ups \subseteq Xs /\ {Address(x, i)} \subseteq Xs
    <3>1. i \in i .. n /\ \A j \in i + 1 .. n : j \in i .. n
      OBVIOUS
    <3> QED
      BY <3>1 DEF Cells
  <2> HIDE DEF Zs, Ups, Xs
  <2>2. Leads(m, v, Zs \cup Xs, W)
    <3>1. Zs \subseteq Zs \cup Xs /\ Ups \subseteq Zs \cup Xs
      BY <2>1
    <3> QED
      BY <1>4, <1>7, <3>1, LeadsOn
  <2>3. {Address(x, i)} \subseteq Zs \cup Xs /\ Zs \cup Xs \subseteq Zs \cup Xs
    BY <2>1
  <2> QED
    BY <1>13, <2>2, <2>3, LeadsOn
<1>15. ASSUME NEW j \in 0 .. T - 2
       PROVE  /\ Word(r, Address(z, j)) \in W
              /\ r.exact => Word(r, Address(z, j)) = Word(m, Address(y, j + T))
  <2>1. Address(z, j) \in Location /\ Address(z, j) # Address(x, i)
    BY <1>2, <1>3
  <2>2. Address(z, j) \notin Ups
    <3>1. \A l \in i + 1 .. n : l \in Nodes!Slot
      BY <1>2
    <3> QED
      BY <1>2, <1>3, <3>1 DEF Cells
  <2> HIDE DEF Ups, Zs
  <2>3. Word(r, Address(z, j)) = Word(v, Address(z, j)) /\ Word(v, Address(z, j)) = Word(u, Address(z, j))
    BY <1>7, <1>13, <2>1, <2>2 DEF Leads
  <2>4. v.exact => u.exact
    BY <1>7 DEF Leads
  <2> QED
    BY <1>4, <1>13, <2>3, <2>4
<1>16. ASSUME NEW j \in i .. n - 1
       PROVE  /\ Word(r, Address(x, j + 1)) \in W
              /\ r.exact => Word(r, Address(x, j + 1)) = Word(m, Address(x, j))
  <2> PICK l : l = j + 1
    OBVIOUS
  <2>1. l \in Nodes!Slot /\ l # i /\ j \in 0 .. n - 1
    BY Degrees DEF Nodes!Slot
  <2>2. Address(x, l) \in Location /\ Address(x, l) # Address(x, i)
    BY <1>2, <1>3, <2>1
  <2>3. Word(r, Address(x, l)) = Word(v, Address(x, l))
    BY <1>13, <2>2 DEF Leads
  <2> QED
    BY <1>5, <1>7, <1>13, <2>1, <2>3
<1>17. ASSUME NEW j \in i .. n PROVE Word(r, Address(x, j)) \in W
  <2>1. CASE j = i
    BY <1>13, <2>1
  <2>2. CASE j # i
    <3> PICK l : l = j - 1
      OBVIOUS
    <3>1. l \in i .. n - 1 /\ j = l + 1
      BY <2>2
    <3> QED
      BY <1>16, <3>1
  <2> QED
    BY <2>1, <2>2
<1>18. r.exact => Word(r, Address(x, i)) = Word(m, Address(y, T - 1))
  BY <1>10, <1>11, <1>13
<1> QED
  BY <1>1, <1>14, <1>15, <1>16, <1>17, <1>18

\* Where key belongs among the n first keys of x, as they were last written.
IsPlace(m, x, n, key, p) ==
  /\ p \in -1 .. n - 1
  /\ p # -1 => Word(m, Address(x, p)) <= key
  /\ \A j \in p + 1 .. n - 1 : ~(Word(m, Address(x, j)) <= key)

\* What the scan of insertNonFull reads.
LEMMA ScanIs ==
  ASSUME NEW m, NEW W, Sound(m, W), UNINIT \notin W,
         NEW x \in 1 .. SIZE + OPS, NEW n \in Nat, n <= Nodes!FULL, Written(m, W, x, 0, n),
         NEW key, NEW r, r = Scan(m, x, n, key)
  PROVE  /\ Leads(m, r, {}, W) /\ r.buf = m.buf
         /\ r.exact => IsPlace(m, x, n, key, Place(m, x, n, key))
<1> DEFINE p == Place(m, x, n, key)
           first == Max({0, p})
           S == {Address(x, j) : j \in first .. Rightmost(n)}
<1>1. /\ p \in -1 .. n - 1
      /\ p # -1 => Read(m, x, p) <= key
      /\ \A j \in 0 .. n - 1 : Read(m, x, j) <= key => j <= p
  BY PlaceIs
<1>2. Rightmost(n) = n - 1
  BY DEF Rightmost
<1>3. /\ DOMAIN r = DOMAIN m /\ r.buf = m.buf
      /\ r.exact = (m.exact /\ \A j \in first .. Rightmost(n) : Buffer!Exact(m.buf, Address(x, j)))
  BY DEF Scan, Sound
<1> HIDE DEF p
<1>4. first \in Int /\ first >= 0 /\ first >= p /\ (p # -1 => first = p) /\ (p = -1 => first = 0)
  <2> DEFINE B == {0, p}
  <2>1. B \subseteq Int /\ B # {} /\ n \in Int /\ \A s \in B : s <= n
    BY <1>1
  <2>2. 0 \in B /\ p \in B /\ \A s \in B : s = 0 \/ s = p
    OBVIOUS
  <2> HIDE DEF B
  <2>3. Max(B) \in B /\ \A s \in B : s <= Max(B)
    BY <2>1, MaxIsGreatest
  <2> PICK c : c = Max(B)
    OBVIOUS
  <2>4. (c = 0 \/ c = p) /\ 0 <= c /\ p <= c
    BY <2>2, <2>3
  <2>5. c = first
    BY DEF B
  <2> QED
    BY <1>1, <2>4, <2>5
<1> HIDE DEF first
<1>5. \A j \in first .. n - 1 : j \in 0 .. n - 1 /\ j \in Nodes!Slot
  BY <1>4, Degrees DEF Nodes!Slot
<1>6. \A l \in S : l \in Location /\ Word(m, l) \in W
  <2> SUFFICES ASSUME NEW j \in first .. n - 1
               PROVE  Address(x, j) \in Location /\ Word(m, Address(x, j)) \in W
    BY <1>2
  <2> QED
    BY <1>5, AddressIs DEF Written
<1>7. Leads(m, r, {}, W)
  <2>1. r.exact \in BOOLEAN
    BY <1>3
  <2>2. r.exact <=> m.exact /\ \A l \in S : Buffer!Exact(m.buf, l)
    BY <1>3
  <2>3. S \subseteq Location /\ \A l \in S : Word(m, l) \in W
    BY <1>6
  <2> HIDE DEF S
  <2> QED
    BY <1>3, <2>1, <2>2, <2>3, SeenIs
<1>8. ASSUME r.exact PROVE IsPlace(m, x, n, key, p)
  <2>1. \A j \in first .. n - 1 : Read(m, x, j) = Word(m, Address(x, j))
    BY <1>2, <1>3, <1>8 DEF Buffer!Exact, Read, Word
  <2>2. p # -1 => Word(m, Address(x, p)) <= key
    <3>1. p # -1 => p \in first .. n - 1
      BY <1>1, <1>4
    <3> QED
      BY <1>1, <2>1, <3>1
  <2>3. ASSUME NEW j \in p + 1 .. n - 1 PROVE ~(Word(m, Address(x, j)) <= key)
    <3>1. j \in first .. n - 1 /\ j \in 0 .. n - 1 /\ ~(j <= p)
      BY <1>1, <1>4
    <3> QED
      BY <1>1, <2>1, <3>1
  <2> QED
    BY <1>1, <2>2, <2>3 DEF IsPlace
<1> QED
  BY <1>3, <1>7, <1>8 DEF p

\* The loop of insertNonFull on a leaf, and the write after it.
LEMMA InsertKeyIs ==
  ASSUME NEW m, NEW W, Sound(m, W), UNINIT \notin W,
         NEW x \in 1 .. SIZE + OPS, NEW n \in Nat, n < Nodes!FULL, Written(m, W, x, 0, n),
         NEW key \in W, NEW r, r = InsertKey(m, x, n, key)
  PROVE  /\ Leads(m, r, Cells(x, 0, n), W)
         /\ Written(r, W, x, 0, n + 1)
         /\ r.exact =>
              \E p : /\ IsPlace(m, x, n, key, p)
                     /\ \A j \in 0 .. p : Word(r, Address(x, j)) = Word(m, Address(x, j))
                     /\ Word(r, Address(x, p + 1)) = key
                     /\ \A j \in p + 1 .. n - 1 :
                          Word(r, Address(x, j + 1)) = Word(m, Address(x, j))
<1> DEFINE at(i) == MoveUp(m, x, n, i + 1)
           Stops == {-1} \cup {i \in 0 .. n - 1 : Read(at(i), x, i) <= key}
           p == Max(Stops)
           u == at(p)
           seen == IF p >= 0 THEN Seen(u, x, p) ELSE u
           S == IF p >= 0 THEN {Address(x, p)} ELSE {}
           L == Cells(x, 0, n)
<1>1. r = Write(seen, x, p + 1, key)
  <2>1. Rightmost(n) = n - 1 /\ Rightmost(n) + 1 = n
    BY DEF Rightmost
  <2> QED
    BY <2>1 DEF InsertKey
<1>2. /\ p \in -1 .. n - 1
      /\ p # -1 => Read(u, x, p) <= key
      /\ \A j \in 0 .. n - 1 : Read(at(j), x, j) <= key => j <= p
  <2>1. Stops \subseteq Int /\ Stops # {} /\ n \in Int /\ \A s \in Stops : s <= n
    OBVIOUS
  <2>2. \A s \in Stops : s \in -1 .. n - 1 /\ (s # -1 => Read(at(s), x, s) <= key)
    OBVIOUS
  <2>3. \A j \in 0 .. n - 1 : Read(at(j), x, j) <= key => j \in Stops
    OBVIOUS
  <2> HIDE DEF Stops, at
  <2>4. Max(Stops) \in Stops /\ \A s \in Stops : s <= Max(Stops)
    BY <2>1, MaxIsGreatest
  <2> QED
    BY <2>2, <2>3, <2>4
<1> HIDE DEF p, Stops
<1>3. p + 1 \in 0 .. n /\ (p >= 0 <=> p # -1)
  BY <1>2
<1>4. \A j \in 0 .. n : j \in Nodes!Slot /\ Address(x, j) \in Location
  <2>1. \A j \in 0 .. n : j \in Nodes!Slot
    BY Degrees DEF Nodes!Slot
  <2> QED
    BY <2>1, AddressIs
<1>5. \A i \in 0 .. n : \A j \in 0 .. n : i # j => Address(x, i) # Address(x, j)
  BY <1>4, AddressIs
<1>6. ASSUME NEW f \in 0 .. n PROVE Written(m, W, x, f, n)
  <2>1. \A j \in f .. n - 1 : j \in 0 .. n - 1
    OBVIOUS
  <2> QED
    BY <2>1 DEF Written
<1> PICK f : f = p + 1
  OBVIOUS
<1>7. f \in 0 .. n /\ f \in Int
  BY <1>3
<1>8. u = MoveUp(m, x, n, f)
  OBVIOUS
<1> HIDE DEF u
<1>9. /\ Leads(m, u, Cells(x, f + 1, n), W)
      /\ \A j \in f .. n - 1 : Word(u, Address(x, j + 1)) \in W
      /\ u.exact => \A j \in f .. n - 1 : Word(u, Address(x, j + 1)) = Word(m, Address(x, j))
      /\ u.exact => \A j \in f .. n - 1 : ReadUp(m, x, n, j)
  BY <1>6, <1>7, <1>8, MoveUpIs
<1>10. ASSUME NEW i \in 0 .. n, NEW v, Leads(m, v, Cells(x, i + 1, n), W), NEW j \in 0 .. i
       PROVE  Word(v, Address(x, j)) = Word(m, Address(x, j))
  <2>1. j \in 0 .. n /\ Address(x, j) \in Location
    BY <1>4
  <2>2. Address(x, j) \notin Cells(x, i + 1, n)
    <3>1. \A l \in i + 1 .. n : l \in 0 .. n /\ l # j
      OBVIOUS
    <3> QED
      BY <1>5, <2>1, <3>1 DEF Cells
  <2> QED
    BY <1>10, <2>1, <2>2 DEF Leads
<1>11. Sound(u, W)
  BY <1>9 DEF Leads
<1>12. S \subseteq Location /\ \A l \in S : Word(u, l) \in W
  <2> SUFFICES ASSUME p # -1 PROVE Address(x, p) \in Location /\ Word(u, Address(x, p)) \in W
    BY <1>3
  <2>1. p \in 0 .. f /\ p \in 0 .. n /\ p \in 0 .. n - 1
    BY <1>2
  <2>2. Word(u, Address(x, p)) = Word(m, Address(x, p))
    BY <1>7, <1>9, <1>10, <2>1
  <2> QED
    BY <1>4, <2>1, <2>2 DEF Written
<1>13. /\ DOMAIN seen = DOMAIN u /\ seen.buf = u.buf /\ seen.exact \in BOOLEAN
       /\ seen.exact <=> u.exact /\ \A l \in S : Buffer!Exact(u.buf, l)
  <2>1. DOMAIN u = {"buf", "exact"} /\ u.exact \in BOOLEAN
    BY <1>11 DEF Sound
  <2>2. CASE p >= 0
    BY <2>1, <2>2 DEF Seen
  <2>3. CASE ~(p >= 0)
    BY <2>1, <2>3
  <2> QED
    BY <2>2, <2>3
<1> HIDE DEF seen
<1>14. Leads(u, seen, {}, W)
  <2> HIDE DEF S
  <2> QED
    BY <1>11, <1>12, <1>13, SeenIs
<1>15. Sound(seen, W) /\ Address(x, f) \in Location /\ r = [seen EXCEPT !.buf = Buffer!Store(@, Address(x, f), key)]
  BY <1>1, <1>4, <1>7, <1>14 DEF Leads, Write
<1>16. Leads(seen, r, {Address(x, f)}, W) /\ r.exact = seen.exact /\ Word(r, Address(x, f)) = key
  BY <1>15, StoreIs
<1>17. Leads(m, r, L, W)
  <2>1. Cells(x, f + 1, n) \subseteq L /\ {Address(x, f)} \subseteq L /\ {} \subseteq L /\ L \subseteq L
    <3>1. f \in 0 .. n /\ \A j \in f + 1 .. n : j \in 0 .. n
      BY <1>7
    <3> QED
      BY <3>1 DEF Cells
  <2> HIDE DEF L
  <2>2. Leads(m, seen, L, W)
    BY <1>9, <1>14, <2>1, LeadsOn
  <2> QED
    BY <1>16, <2>1, <2>2, LeadsOn
<1>18. ASSUME NEW j \in 0 .. n, j # f PROVE Word(r, Address(x, j)) = Word(u, Address(x, j))
  <2>1. Address(x, j) \in Location \ {Address(x, f)}
    BY <1>4, <1>5, <1>7, <1>18
  <2> QED
    BY <1>14, <1>16, <2>1 DEF Leads
<1>19. ASSUME NEW j \in 0 .. p
       PROVE  Word(r, Address(x, j)) = Word(m, Address(x, j)) /\ Word(r, Address(x, j)) \in W
  <2>1. j \in 0 .. n /\ j # f /\ j \in 0 .. f /\ j \in 0 .. n - 1
    BY <1>2
  <2>2. Word(u, Address(x, j)) = Word(m, Address(x, j))
    BY <1>7, <1>9, <1>10, <2>1
  <2> QED
    BY <1>18, <2>1, <2>2 DEF Written
<1>20. ASSUME NEW j \in f .. n - 1
       PROVE  /\ Word(r, Address(x, j + 1)) \in W
              /\ r.exact => Word(r, Address(x, j + 1)) = Word(m, Address(x, j))
  <2> PICK l : l = j + 1
    OBVIOUS
  <2>1. l \in 0 .. n /\ l # f
    BY <1>7
  <2>2. Word(r, Address(x, l)) = Word(u, Address(x, l))
    BY <1>18, <2>1
  <2>3. r.exact => u.exact
    BY <1>13, <1>16
  <2> QED
    BY <1>9, <2>2, <2>3
<1>21. Written(r, W, x, 0, n + 1)
  <2> SUFFICES ASSUME NEW j \in 0 .. n PROVE Word(r, Address(x, j)) \in W
    BY DEF Written
  <2>1. CASE j = f
    BY <1>16, <2>1
  <2>2. CASE j < f
    <3>1. j \in 0 .. p
      BY <1>2, <2>2
    <3> QED
      BY <1>19, <3>1
  <2>3. CASE j > f
    <3> PICK l : l = j - 1
      OBVIOUS
    <3>1. l \in f .. n - 1 /\ j = l + 1
      BY <1>7, <2>3
    <3> QED
      BY <1>20, <3>1
  <2> QED
    BY <1>7, <2>1, <2>2, <2>3
<1>22. ASSUME r.exact PROVE IsPlace(m, x, n, key, p)
  <2>1. seen.exact /\ u.exact
    BY <1>13, <1>16, <1>22
  <2>2. ASSUME p # -1 PROVE Word(m, Address(x, p)) <= key
    <3>1. p >= 0 /\ p \in 0 .. f
      BY <1>2, <2>2
    <3>2. Buffer!Exact(u.buf, Address(x, p))
      BY <1>13, <2>1, <3>1
    <3>3. Word(u, Address(x, p)) = Word(m, Address(x, p))
      BY <1>7, <1>9, <1>10, <3>1
    <3> QED
      BY <1>2, <2>2, <3>2, <3>3 DEF Buffer!Exact, Read, Word
  <2>3. ASSUME NEW j \in p + 1 .. n - 1 PROVE ~(Word(m, Address(x, j)) <= key)
    <3>1. j \in f .. n - 1 /\ j \in 0 .. n - 1 /\ ~(j <= p) /\ j + 1 \in 0 .. n
      BY <1>2
    <3> PICK i : i = j + 1
      OBVIOUS
    <3>2. i \in 0 .. n /\ j \in 0 .. i
      BY <3>1
    <3>3. Buffer!Exact(at(j).buf, Address(x, j))
      BY <1>9, <2>1, <3>1 DEF ReadUp
    <3> PICK v : v = at(j)
      OBVIOUS
    <3>4. Leads(m, v, Cells(x, i + 1, n), W)
      <4>1. v = MoveUp(m, x, n, i)
        OBVIOUS
      <4> QED
        BY <1>6, <3>2, <4>1, MoveUpIs
    <3>5. Word(v, Address(x, j)) = Word(m, Address(x, j))
      BY <1>10, <3>2, <3>4
    <3>6. ~(Read(v, x, j) <= key)
      BY <1>2, <3>1
    <3> QED
      BY <3>3, <3>5, <3>6 DEF Buffer!Exact, Read, Word
  <2> QED
    BY <1>2, <2>2, <2>3 DEF IsPlace
<1>23. ASSUME r.exact
       PROVE  \E q : /\ IsPlace(m, x, n, key, q)
                     /\ \A j \in 0 .. q : Word(r, Address(x, j)) = Word(m, Address(x, j))
                     /\ Word(r, Address(x, q + 1)) = key
                     /\ \A j \in q + 1 .. n - 1 :
                          Word(r, Address(x, j + 1)) = Word(m, Address(x, j))
  <2> WITNESS p
  <2> QED
    BY <1>16, <1>19, <1>20, <1>22, <1>23
<1> QED
  BY <1>17, <1>21, <1>23

(***************************************************************************)
(* Search reads only words that were written.                              *)
(***************************************************************************)
First(x, key) == Min({node[x].n} \cup {j \in 0 .. node[x].n - 1 : Read(mem, x, j) >= key})
Looked(x, key) == {Address(x, j) : j \in 0 .. Min({First(x, key), node[x].n - 1})}
Hit(x, key) == First(x, key) < node[x].n /\ Read(mem, x, First(x, key)) = key

\* The node search goes on with.
Onward(x, key) == IF Hit(x, key) \/ node[x].leaf THEN {} ELSE {node[x].C[First(x, key)]}
Path(key) == Bare!Reached(DOMAIN node, [x \in DOMAIN node |-> Onward(x, key)])

LEMMA MinIsLeast ==
  ASSUME NEW S, S \subseteq Nat, S # {}
  PROVE  Min(S) \in S /\ \A s \in S : Min(S) <= s
<1>1. Min(S) = Bare!Min(S)
  BY DEF Min, Bare!Min
<1> QED
  BY <1>1, Given, Bare!MinIsLeast

LEMMA FirstIs ==
  ASSUME NEW x, node[x].n \in Nat, NEW key
  PROVE  /\ First(x, key) \in 0 .. node[x].n
         /\ First(x, key) < node[x].n => Read(mem, x, First(x, key)) >= key
         /\ \A j \in 0 .. node[x].n - 1 : Read(mem, x, j) >= key => First(x, key) <= j
<1> DEFINE S == {node[x].n} \cup {j \in 0 .. node[x].n - 1 : Read(mem, x, j) >= key}
<1>1. S \subseteq Nat /\ S # {}
  OBVIOUS
<1>2. First(x, key) \in S /\ \A s \in S : First(x, key) <= s
  <2>1. First(x, key) = Min(S)
    BY DEF First
  <2> HIDE DEF S
  <2> QED
    BY <1>1, <2>1, MinIsLeast
<1> QED
  BY <1>2

LEMMA LastLookedIs ==
  ASSUME NEW x, node[x].n \in Nat, node[x].n >= 1, NEW key
  PROVE  LET last == Min({First(x, key), node[x].n - 1})
         IN  last = IF First(x, key) < node[x].n THEN First(x, key) ELSE node[x].n - 1
<1> PICK f : f = First(x, key)
  OBVIOUS
<1> PICK n : n = node[x].n
  OBVIOUS
<1>1. f \in 0 .. n /\ n \in Nat /\ n >= 1
  BY FirstIs
<1> DEFINE S == {f, n - 1}
<1>2. S \subseteq Nat /\ S # {} /\ f \in S /\ n - 1 \in S /\ \A s \in S : s = f \/ s = n - 1
  BY <1>1
<1> HIDE DEF S
<1>3. Min(S) \in S /\ \A s \in S : Min(S) <= s
  BY <1>2, MinIsLeast
<1> PICK c : c = Min(S)
  OBVIOUS
<1>4. (c = f \/ c = n - 1) /\ c <= f /\ c <= n - 1
  BY <1>2, <1>3
<1>5. c = IF f < n THEN f ELSE n - 1
  BY <1>1, <1>4
<1> QED
  BY <1>5 DEF S

\* What search returns from each node.
IsSearch(search, key) ==
  search = [x \in DOMAIN node |->
              IF Hit(x, key) \/ node[x].leaf
                THEN [found |-> IF Hit(x, key) THEN x ELSE NULL, at |-> Looked(x, key)]
                ELSE [search[node[x].C[First(x, key)]] EXCEPT !.at = @ \cup Looked(x, key)]]

LEMMA OnwardIs ==
  ASSUME Bare!Good(node), NEW key, NEW x \in DOMAIN node
  PROVE  /\ Onward(x, key) \subseteq DOMAIN node
         /\ ~Hit(x, key) /\ ~node[x].leaf =>
              /\ First(x, key) \in 0 .. node[x].n
              /\ node[x].C[First(x, key)] \in DOMAIN node
<1>1. Bare!GoodNode(DOMAIN node, node[x]) /\ node[x].n \in Nat
  BY Given, Bare!GoodNodeIs DEF Bare!Good
<1>2. First(x, key) \in 0 .. node[x].n
  BY <1>1, FirstIs
<1> QED
  BY <1>1, <1>2 DEF Onward, Bare!GoodNode

LEMMA PathIs ==
  ASSUME Bare!Good(node), NEW key, NEW x \in DOMAIN node
  PROVE  /\ Path(key)[x] \subseteq DOMAIN node /\ x \in Path(key)[x]
         /\ Path(key)[x] = {x} \cup UNION {Path(key)[c] : c \in Onward(x, key)}
         /\ \A v \in Path(key)[x] : Onward(v, key) \subseteq Path(key)[x]
<1> DEFINE nodes == DOMAIN node
           next == [v \in nodes |-> Onward(v, key)]
           f == Path(key)
           Closed(S) == \A v \in S : next[v] \subseteq S
<1>1. \A v \in nodes : next[v] = Onward(v, key) /\ next[v] \subseteq nodes
  BY OnwardIs
<1>2. f[x] = {x} \cup UNION {f[c] : c \in Onward(x, key)}
  <2>1. f = Bare!Reached(nodes, next)
    BY DEF Path
  <2> HIDE DEF next, f
  <2> QED
    BY <1>1, <2>1, Given, Bare!ReachedIs
<1>3. \A v \in nodes : f[v] = {y \in nodes : \A S \in SUBSET nodes : v \in S /\ Closed(S) => y \in S}
  BY DEF Path, Bare!Reached
<1> HIDE DEF f, next
<1>4. ASSUME NEW v \in f[x], NEW w \in next[v] PROVE w \in f[x]
  <2>1. v \in nodes /\ w \in nodes
    BY <1>1, <1>3
  <2>2. ASSUME NEW S \in SUBSET nodes, x \in S, Closed(S) PROVE w \in S
    <3>1. v \in S
      BY <1>3, <2>2
    <3> QED
      BY <2>2, <3>1
  <2> HIDE DEF Closed
  <2> QED
    BY <1>3, <2>1, <2>2
<1>5. f[x] \subseteq nodes
  BY <1>3
<1>6. \A v \in f[x] : Onward(v, key) \subseteq f[x]
  BY <1>1, <1>4, <1>5
<1> QED
  BY <1>2, <1>5, <1>6 DEF f

LEMMA SearchIs ==
  ASSUME Bare!Good(node), Bare!Levelled(node), NEW key
  PROVE  \E search : /\ IsSearch(search, key)
                     /\ \A x \in DOMAIN node :
                          search[x].at = UNION {Looked(y, key) : y \in Path(key)[x]}
                     /\ Search(key) = IF root = NULL THEN [found |-> NULL, at |-> {}] ELSE search[root]
<1> DEFINE nodes == DOMAIN node
           Body(g) ==
             [x \in nodes |->
                IF Hit(x, key) \/ node[x].leaf
                  THEN [found |-> IF Hit(x, key) THEN x ELSE NULL, at |-> Looked(x, key)]
                  ELSE [g[node[x].C[First(x, key)]] EXCEPT !.at = @ \cup Looked(x, key)]]
           own  == [x \in nodes |-> IF Hit(x, key) THEN {x} ELSE IF node[x].leaf THEN {NULL} ELSE {}]
           path == Path(key)
           Ends(x) == UNION {own[y] : y \in path[x]}
           At(x) == UNION {Looked(y, key) : y \in path[x]}
           f    == [x \in nodes |-> [found |-> CHOOSE v : v \in Ends(x), at |-> At(x)]]
           P(g) == g = Body(g)
<1>1. \A x \in nodes : path[x] = {x} \cup UNION {path[c] : c \in Onward(x, key)}
  BY PathIs
<1>2. ASSUME NEW g, P(g), NEW x \in nodes
      PROVE  g[x] = Body(g)[x]
  BY <1>2
<1>3. ASSUME NEW x \in nodes PROVE f[x] = Body(f)[x]
  <2> HIDE DEF path
  <2>1. CASE Hit(x, key) \/ node[x].leaf
    <3>1. path[x] = {x}
      BY <1>1, <2>1 DEF Onward
    <3>2. Ends(x) = own[x] /\ At(x) = Looked(x, key)
      BY <3>1
    <3>3. own[x] = {IF Hit(x, key) THEN x ELSE NULL}
      BY <2>1
    <3> HIDE DEF own, Ends, At
    <3>4. f[x] = [found |-> IF Hit(x, key) THEN x ELSE NULL, at |-> Looked(x, key)]
      <4>1. (CHOOSE v : v \in Ends(x)) = IF Hit(x, key) THEN x ELSE NULL
        <5> PICK w : w = IF Hit(x, key) THEN x ELSE NULL
          OBVIOUS
        <5>1. Ends(x) = {w}
          BY <3>2, <3>3
        <5> QED
          BY <5>1
      <4> QED
        BY <3>2, <4>1
    <3> HIDE DEF f
    <3> QED
      BY <2>1, <3>4
  <2>2. CASE ~(Hit(x, key) \/ node[x].leaf)
    <3> DEFINE c == node[x].C[First(x, key)]
    <3>1. Onward(x, key) = {c} /\ c \in nodes
      BY <2>2, OnwardIs DEF Onward
    <3>2. path[x] = {x} \cup path[c]
      BY <1>1, <3>1
    <3>3. own[x] = {}
      BY <2>2
    <3> HIDE DEF own, c
    <3>4. Ends(x) = Ends(c) /\ At(x) = At(c) \cup Looked(x, key)
      BY <3>2, <3>3
    <3> HIDE DEF Ends, At
    <3>5. f[x] = [found |-> CHOOSE v : v \in Ends(c), at |-> At(c) \cup Looked(x, key)]
      BY <3>4
    <3>6. f[c] = [found |-> CHOOSE v : v \in Ends(c), at |-> At(c)]
      BY <3>1
    <3> HIDE DEF f
    <3>7. f[x] = [f[c] EXCEPT !.at = @ \cup Looked(x, key)]
      <4> PICK r : r = f[c]
        OBVIOUS
      <4> PICK u : u = f[x]
        OBVIOUS
      <4> PICK e : e = CHOOSE v : v \in Ends(c)
        OBVIOUS
      <4> PICK S : S = At(c)
        OBVIOUS
      <4> PICK L : L = Looked(x, key)
        OBVIOUS
      <4>1. u = [found |-> e, at |-> S \cup L] /\ r = [found |-> e, at |-> S]
        BY <3>5, <3>6
      <4>2. u = [r EXCEPT !.at = @ \cup L]
        BY ONLY <4>1
      <4> HIDE DEF c
      <4> QED
        BY ONLY <4>2, r = f[c], u = f[x], L = Looked(x, key)
    <3> QED
      BY <2>2, <3>7 DEF c
  <2> QED
    BY <2>1, <2>2
<1>4. P(f)
  <2>1. f = [x \in nodes |-> f[x]]
    OBVIOUS
  <2>2. Body(f) = [x \in nodes |-> Body(f)[x]]
    OBVIOUS
  <2> HIDE DEF f, Body
  <2> QED
    BY <1>3, <2>1, <2>2
<1>5. ASSUME NEW g, P(g) PROVE g = f
  <2>1. PICK height : Bare!IsHeight(node, height)
    BY DEF Bare!Levelled
  <2> DEFINE B == {x \in nodes : g[x] # f[x]}
  <2>2. height \in [nodes -> Nat] /\ B \subseteq nodes
    BY <2>1 DEF Bare!IsHeight
  <2>3. B = {}
    <3> SUFFICES ASSUME B # {} PROVE FALSE
      OBVIOUS
    <3> HIDE DEF B, f
    <3>1. PICK v \in B : \A w \in B : height[v] <= height[w]
      BY <2>2, Given, Bare!LowestNode
    <3>2. v \in nodes /\ g[v] # f[v]
      BY <3>1 DEF B
    <3>3. g[v] = Body(g)[v] /\ f[v] = Body(f)[v]
      <4> HIDE DEF Body
      <4> QED
        BY <1>3, <1>5, <3>2
    <3>4. ~Hit(v, key) /\ ~node[v].leaf
      BY <3>2, <3>3
    <3> DEFINE c == node[v].C[First(v, key)]
    <3>5. c \in nodes /\ height[v] = height[c] + 1
      BY <2>1, <3>2, <3>4, OnwardIs DEF Bare!IsHeight
    <3>6. g[c] = f[c]
      <4> HIDE DEF c
      <4>1. height[c] \in Nat /\ height[v] \in Nat
        BY <2>2, <3>2, <3>5
      <4>2. c \notin B
        BY <3>1, <3>5, <4>1
      <4> QED
        BY <3>5, <4>2 DEF B
    <3> QED
      BY <3>2, <3>3, <3>4, <3>6
  <2>4. \A x \in nodes : g[x] = f[x]
    BY <2>3
  <2>5. g = [x \in nodes |-> g[x]]
    BY <1>5
  <2>6. f = [x \in nodes |-> f[x]]
    OBVIOUS
  <2> HIDE DEF f, P
  <2> QED
    BY <2>4, <2>5, <2>6
<1>6. Search(key) = IF root = NULL THEN [found |-> NULL, at |-> {}] ELSE (CHOOSE g : P(g))[root]
  BY DEF Search, First, Looked, Hit
<1>7. (CHOOSE g : P(g)) = f
  <2> HIDE DEF P, f
  <2> QED
    BY <1>4, <1>5
<1>8. \A x \in nodes : f[x].at = At(x)
  OBVIOUS
<1>9. IsSearch(f, key)
  BY <1>4 DEF IsSearch
<1> HIDE DEF P, f
<1> QED
  BY <1>6, <1>7, <1>8, <1>9

(***************************************************************************)
(* The keys inserted so far are the words in memory; every place of a node *)
(* in use was written, and no location of a node not made yet was.         *)
(***************************************************************************)
Known == {key \in Key : inserted[key] > 0}

AllWritten(m, W, heap) == \A x \in DOMAIN heap : Written(m, W, x, 0, heap[x].n)

Unwritten(m, x) == \A j \in Nodes!Slot : Word(m, Address(x, j)) = UNINIT

TreeFits == DOMAIN node \subseteq 1 .. SIZE + OPS /\ NULL \notin DOMAIN node

MemInv ==
  /\ Sound(mem, Known)
  /\ AllWritten(mem, Known, node)
  /\ \A x \in 1 .. SIZE + OPS : x \notin DOMAIN node => Unwritten(mem, x)
  /\ Untransferred(mem) => mem.exact

LEMMA KnownAre == Known \subseteq Key /\ UNINIT \notin Known
BY Given DEF Known

\* More words may be written later.
LEMMA SoundWithMore ==
  ASSUME NEW m, NEW W, NEW V, W \subseteq V, Sound(m, W)
  PROVE  Sound(m, V)
BY DEF Sound

\* A place of a node, and all in use in one.
LEMMA PlacesAre ==
  ASSUME NEW x \in 1 .. SIZE + OPS, NEW n \in Nat, n <= Nodes!FULL, NEW j \in 0 .. n - 1
  PROVE  j \in Nodes!Slot /\ Address(x, j) \in Location
<1>1. j \in Nodes!Slot
  BY Degrees DEF Nodes!Slot
<1> QED
  BY <1>1, AddressIs

LEMMA StaysWritten ==
  ASSUME NEW m, NEW r, NEW L, NEW W, Leads(m, r, L, W),
         NEW x \in 1 .. SIZE + OPS, NEW n \in Nat, n <= Nodes!FULL, Written(m, W, x, 0, n)
  PROVE  Written(r, W, x, 0, n)
<1> SUFFICES ASSUME NEW j \in 0 .. n - 1 PROVE Word(r, Address(x, j)) \in W
  BY DEF Written
<1>1. Address(x, j) \in Location
  BY PlacesAre
<1>2. Word(m, Address(x, j)) \in W
  BY DEF Written
<1> QED
  BY <1>1, <1>2 DEF Leads

\* Nodes not written to stay unwritten.
LEMMA StaysUnwritten ==
  ASSUME NEW m, NEW r, NEW L, NEW W, Leads(m, r, L, W),
         NEW x \in 1 .. SIZE + OPS, Unwritten(m, x),
         \A j \in Nodes!Slot : Address(x, j) \notin L
  PROVE  Unwritten(r, x)
BY AddressIs DEF Unwritten, Leads

\* The cells of another node.
LEMMA OtherCells ==
  ASSUME NEW x \in 1 .. SIZE + OPS, NEW y \in 1 .. SIZE + OPS, x # y,
         NEW first \in Nat, NEW last \in Int, last < Nodes!FULL, NEW j \in Nodes!Slot
  PROVE  Address(y, j) \notin Cells(x, first, last)
<1> SUFFICES ASSUME NEW i \in first .. last PROVE Address(y, j) # Address(x, i)
  BY DEF Cells
<1>1. i \in Nodes!Slot
  BY Degrees DEF Nodes!Slot
<1> QED
  BY <1>1, AddressIs

\* The memory and the nodes after splitChild, and after the read that follows.
LEMMA SplitWritten ==
  ASSUME NEW m, NEW W, Sound(m, W), UNINIT \notin W,
         NEW heap, NEW x, NEW i, NEW z, Bare!CanSplit(heap, x, i, z),
         DOMAIN heap \cup {z} \subseteq 1 .. SIZE + OPS, AllWritten(m, W, heap),
         NEW r, r = Seen(SplitKeys(m, heap, x, i, z), x, i)
  PROVE  /\ Leads(m, r, Cells(z, 0, T - 2) \cup Cells(x, i, heap[x].n), W)
         /\ AllWritten(r, W, Bare!SplitChild(heap, x, i, z))
         /\ heap[x].n \in Nat /\ heap[x].n < Nodes!FULL
<1> PICK keys : keys = SplitKeys(m, heap, x, i, z)
  OBVIOUS
<1> PICK y : y = heap[x].C[i]
  OBVIOUS
<1> PICK n : n = heap[x].n
  OBVIOUS
<1> PICK new : new = Bare!SplitChild(heap, x, i, z)
  OBVIOUS
<1>1. /\ y \in DOMAIN heap /\ y # x /\ x \in DOMAIN heap /\ z \notin DOMAIN heap
      /\ DOMAIN new = DOMAIN heap \cup {z}
      /\ \A v \in DOMAIN heap \ {x, y} : new[v] = heap[v]
  <2>1. Bare!IsSplit(heap, x, i, y, z, new)
    BY Given, Bare!SplitWords
  <2> QED
    BY <2>1 DEF Bare!IsSplit
<1>2. /\ n \in Nat /\ n < Nodes!FULL /\ i \in 0 .. n /\ heap[y].n = Nodes!FULL
      /\ \A v \in DOMAIN heap : heap[v].n \in Nat /\ heap[v].n <= Nodes!FULL
  <2>1. \A v \in DOMAIN heap : heap[v].n \in 0 .. Nodes!FULL
    BY Given, Degrees, Bare!GoodNodeIs DEF Bare!CanSplit, Bare!Good
  <2> QED
    BY <1>1, <2>1, Degrees DEF Bare!CanSplit, Bare!IsFull
<1>3. new[x].n = n + 1 /\ new[y].n = T - 1 /\ new[z].n = T - 1
  <2>1. Bare!IsSplit(heap, x, i, y, z, new)
    BY Given, Bare!SplitWords
  <2> QED
    BY <2>1 DEF Bare!IsSplit
<1>4. x \in 1 .. SIZE + OPS /\ y \in 1 .. SIZE + OPS /\ z \in 1 .. SIZE + OPS
      /\ x # y /\ y # z /\ x # z
  BY <1>1
<1>5. Written(m, W, y, 0, Nodes!FULL) /\ Written(m, W, x, 0, n)
  BY <1>1, <1>2 DEF AllWritten
<1> DEFINE L == Cells(z, 0, T - 2) \cup Cells(x, i, n)
<1>6. /\ Leads(m, keys, L, W)
      /\ \A j \in 0 .. T - 2 : Word(keys, Address(z, j)) \in W
      /\ \A j \in i .. n : Word(keys, Address(x, j)) \in W
  BY <1>2, <1>4, <1>5, SplitKeysAre
<1>7. Leads(keys, r, {}, W) /\ r.buf = keys.buf
  <2>1. r = [keys EXCEPT !.exact = keys.exact /\ Buffer!Exact(keys.buf, Address(x, i))]
    BY DEF Seen
  <2>2. Sound(keys, W) /\ DOMAIN keys = {"buf", "exact"} /\ keys.exact \in BOOLEAN
    BY <1>6 DEF Leads, Sound
  <2>3. Word(keys, Address(x, i)) \in W /\ Address(x, i) \in Location
    <3>1. i \in i .. n /\ i \in Nodes!Slot
      BY <1>2, Degrees DEF Nodes!Slot
    <3> QED
      BY <1>4, <1>6, <3>1, AddressIs
  <2>4. /\ DOMAIN r = DOMAIN keys /\ r.buf = keys.buf /\ r.exact \in BOOLEAN
        /\ r.exact <=> keys.exact /\ Buffer!Exact(keys.buf, Address(x, i))
    BY <2>1, <2>2
  <2> DEFINE S == {Address(x, i)}
  <2>5. /\ S \subseteq Location /\ \A l \in S : Word(keys, l) \in W
        /\ r.exact <=> keys.exact /\ \A l \in S : Buffer!Exact(keys.buf, l)
    BY <2>3, <2>4
  <2> HIDE DEF S
  <2> QED
    BY <2>2, <2>4, <2>5, SeenIs
<1>8. Leads(m, r, L, W)
  <2>1. L \subseteq L /\ {} \subseteq L
    OBVIOUS
  <2> HIDE DEF L
  <2> QED
    BY <1>6, <1>7, <2>1, LeadsOn
<1>9. \A l : Word(r, l) = Word(keys, l)
  BY <1>7 DEF Word
<1>10. Written(r, W, z, 0, T - 1)
  <2>1. \A j \in 0 .. (T - 1) - 1 : j \in 0 .. T - 2
    BY Given
  <2> QED
    BY <1>6, <1>9, <2>1 DEF Written
<1>11. Written(r, W, x, 0, n + 1)
  <2> SUFFICES ASSUME NEW j \in 0 .. (n + 1) - 1 PROVE Word(r, Address(x, j)) \in W
    BY DEF Written
  <2>1. j \in i .. n \/ j \in 0 .. n - 1
    BY <1>2
  <2>2. Written(r, W, x, 0, n)
    <3>1. n <= Nodes!FULL
      BY <1>2, Degrees
    <3> HIDE DEF L
    <3> QED
      BY <1>2, <1>4, <1>5, <1>8, <3>1, StaysWritten
  <2> QED
    BY <1>6, <1>9, <2>1, <2>2 DEF Written
<1>12. Written(r, W, y, 0, T - 1)
  <2>1. \A j \in 0 .. (T - 1) - 1 : j \in 0 .. Nodes!FULL - 1
    BY Degrees, Given
  <2>2. Written(m, W, y, 0, T - 1)
    BY <1>5, <2>1 DEF Written
  <2>3. T - 1 \in Nat /\ T - 1 <= Nodes!FULL
    BY Degrees, Given
  <2> HIDE DEF L
  <2> QED
    BY <1>4, <1>8, <2>2, <2>3, StaysWritten
<1>13. ASSUME NEW v \in DOMAIN heap \ {x, y} PROVE Written(r, W, v, 0, new[v].n)
  <2>1. new[v] = heap[v] /\ v \in 1 .. SIZE + OPS /\ heap[v].n \in Nat /\ heap[v].n <= Nodes!FULL
    BY <1>1, <1>2
  <2>2. Written(m, W, v, 0, heap[v].n)
    BY DEF AllWritten
  <2> HIDE DEF L
  <2> QED
    BY <1>8, <2>1, <2>2, StaysWritten
<1>14. AllWritten(r, W, new)
  BY <1>1, <1>3, <1>10, <1>11, <1>12, <1>13 DEF AllWritten
<1> QED
  BY <1>2, <1>8, <1>14

-----------------------------------------------------------------------------
\* The step that leads to mem' by writing to cells of nodes there are then.
LEMMA MemAfter ==
  ASSUME TreeInv, TreeFits, TreeFits', MemInv,
         Known \subseteq Known', DOMAIN node \subseteq DOMAIN node',
         NEW L, Leads(mem, mem', L, Known'),
         \A x \in 1 .. SIZE + OPS : x \notin DOMAIN node' =>
           \A j \in Nodes!Slot : Address(x, j) \notin L,
         AllWritten(mem', Known', node')
  PROVE  MemInv'
<1>1. Sound(mem', Known')
  BY DEF Leads
<1>2. ASSUME NEW x \in 1 .. SIZE + OPS, x \notin DOMAIN node' PROVE Unwritten(mem', x)
  <2>1. Unwritten(mem, x)
    BY <1>2 DEF MemInv
  <2> QED
    BY <1>2, <2>1, StaysUnwritten
<1>3. Untransferred(mem') => mem'.exact
  <2>1. Untransferred(mem') => Untransferred(mem) /\ (mem.exact => mem'.exact)
    BY DEF Leads
  <2> QED
    BY <2>1 DEF MemInv
<1> QED
  BY <1>1, <1>2, <1>3 DEF MemInv

\* What stays written of the nodes a step leaves alone.
LEMMA NodesStayWritten ==
  ASSUME NEW m, NEW r, NEW L, NEW W, Leads(m, r, L, W),
         NEW heap, Bare!Good(heap), DOMAIN heap \subseteq 1 .. SIZE + OPS, AllWritten(m, W, heap)
  PROVE  AllWritten(r, W, heap)
<1> SUFFICES ASSUME NEW x \in DOMAIN heap PROVE Written(r, W, x, 0, heap[x].n)
  BY DEF AllWritten
<1>1. heap[x].n \in Nat /\ heap[x].n <= Nodes!FULL
  <2>1. heap[x].n \in 0 .. Nodes!FULL
    BY Given, Degrees, Bare!GoodNodeIs DEF Bare!Good
  <2> QED
    BY <2>1, Degrees
<1>2. Written(m, W, x, 0, heap[x].n)
  BY DEF AllWritten
<1> QED
  BY <1>1, <1>2, StaysWritten

\* Steps that read and leave the nodes alone.
LEMMA ReadKeepsMemory ==
  ASSUME TreeInv, TreeFits, TreeFits', MemInv, Known = Known', node' = node,
         Leads(mem, mem', {}, Known)
  PROVE  MemInv'
<1>1. Bare!Good(node) /\ DOMAIN node \subseteq 1 .. SIZE + OPS /\ AllWritten(mem, Known, node)
  BY DEF TreeInv, TreeFits, MemInv
<1>2. AllWritten(mem', Known, node)
  BY <1>1, NodesStayWritten
<1>3. AllWritten(mem', Known', node') /\ Leads(mem, mem', {}, Known')
  BY <1>2
<1> QED
  BY <1>3, MemAfter

LEMMA DescendKeepsMemory ==
  ASSUME TreeInv, TreeFits, TreeFits', MemInv, Descend
  PROVE  MemInv'
<1>1. /\ this \in DOMAIN node /\ node[this].n \in Nat /\ node[this].n <= Nodes!FULL
      /\ this \in 1 .. SIZE + OPS
  <2>1. this \in DOMAIN node /\ node[this].n \in Nat /\ node[this].n < Nodes!FULL
    BY ChildIs DEF Descend
  <2> QED
    BY <2>1, Degrees DEF TreeFits
<1>2. Sound(mem, Known) /\ UNINIT \notin Known /\ Written(mem, Known, this, 0, node[this].n)
  BY <1>1, KnownAre DEF MemInv, AllWritten
<1>3. Leads(mem, mem', {}, Known)
  <2>1. mem' = Scan(mem, this, node[this].n, k)
    BY DEF Descend
  <2> QED
    BY <1>1, <1>2, <2>1, ScanIs
<1>4. Known = Known' /\ node' = node
  BY DEF Descend, Known
<1> QED
  BY <1>3, <1>4, ReadKeepsMemory

LEMMA LeafKeepsMemory ==
  ASSUME TreeInv, TreeFits, TreeFits', MemInv, InsertNonFullLeaf
  PROVE  MemInv'
<1>1. /\ this \in DOMAIN node /\ node[this].n \in Nat /\ node[this].n < Nodes!FULL
      /\ this \in 1 .. SIZE + OPS /\ k \in Known
      /\ Bare!Good(node) /\ DOMAIN node \subseteq 1 .. SIZE + OPS
      /\ node[this] \in Bare!Record(DOMAIN node)
  <2>1. this \in DOMAIN node /\ node[this].n < Nodes!FULL /\ k \in Known
    BY DEF TreeInv, Pointers, InsertNonFullLeaf, Known
  <2>2. node[this].n \in Nat /\ node[this] \in Bare!Record(DOMAIN node)
    BY <2>1, Given, Bare!GoodNodeIs DEF TreeInv, Bare!Good
  <2> QED
    BY <2>1, <2>2 DEF TreeFits, TreeInv
<1>2. Sound(mem, Known) /\ UNINIT \notin Known /\ Written(mem, Known, this, 0, node[this].n)
      /\ AllWritten(mem, Known, node)
  BY <1>1, KnownAre DEF MemInv, AllWritten
<1> PICK n : n = node[this].n
  OBVIOUS
<1>3. Leads(mem, mem', Cells(this, 0, n), Known) /\ Written(mem', Known, this, 0, n + 1)
  <2>1. mem' = InsertKey(mem, this, n, k)
    BY DEF InsertNonFullLeaf
  <2> QED
    BY <1>1, <1>2, <2>1, InsertKeyIs
<1>4. Known = Known' /\ DOMAIN node' = DOMAIN node /\ node'[this].n = n + 1
      /\ \A x \in DOMAIN node \ {this} : node'[x] = node[x]
  BY <1>1 DEF InsertNonFullLeaf, Known, Bare!Record
<1>5. AllWritten(mem', Known, node')
  <2>1. AllWritten(mem', Known, node)
    BY <1>1, <1>2, <1>3, NodesStayWritten
  <2> QED
    BY <1>3, <1>4, <2>1 DEF AllWritten
<1>6. ASSUME NEW x \in 1 .. SIZE + OPS, x \notin DOMAIN node', NEW j \in Nodes!Slot
      PROVE  Address(x, j) \notin Cells(this, 0, n)
  <2>1. x # this /\ 0 \in Nat /\ n \in Int
    BY <1>1, <1>4, <1>6
  <2> QED
    BY <1>1, <2>1, OtherCells
<1>7. /\ Known \subseteq Known' /\ DOMAIN node \subseteq DOMAIN node'
      /\ Leads(mem, mem', Cells(this, 0, n), Known') /\ AllWritten(mem', Known', node')
  BY <1>3, <1>4, <1>5
<1> QED
  BY <1>6, <1>7, MemAfter

\* splitChild of a heap with the nodes of this state.
LEMMA SplitKeepsMemory ==
  ASSUME TreeInv, TreeFits, TreeFits', MemInv, Known \subseteq Known',
         NEW m, Leads(mem, m, {}, Known'),
         NEW heap, NEW x, NEW i, NEW z, Bare!CanSplit(heap, x, i, z),
         DOMAIN node \subseteq DOMAIN heap, node' = Bare!SplitChild(heap, x, i, z),
         AllWritten(m, Known', heap),
         mem' = Seen(SplitKeys(m, heap, x, i, z), x, i)
  PROVE  MemInv'
<1>1. DOMAIN node' = DOMAIN heap \cup {z} /\ x \in DOMAIN heap
  <2>1. Bare!IsSplit(heap, x, i, heap[x].C[i], z, node')
    BY Given, Bare!SplitWords
  <2> QED
    BY <2>1 DEF Bare!IsSplit
<1>2. DOMAIN heap \cup {z} \subseteq 1 .. SIZE + OPS /\ UNINIT \notin Known'
  BY <1>1, Given DEF TreeFits, Known
<1> PICK n : n = heap[x].n
  OBVIOUS
<1> DEFINE L == Cells(z, 0, T - 2) \cup Cells(x, i, n)
<1>3. /\ Leads(m, mem', L, Known') /\ AllWritten(mem', Known', node') /\ n \in Nat /\ n < Nodes!FULL
  <2>1. Sound(m, Known')
    BY DEF Leads
  <2> QED
    BY <1>2, <2>1, SplitWritten
<1>4. i \in Nat
  <2>1. i \in 0 .. n
    BY DEF Bare!CanSplit
  <2> QED
    BY <1>3, <2>1
<1>5. Leads(mem, mem', L, Known')
  <2>1. {} \subseteq L /\ L \subseteq L
    OBVIOUS
  <2> HIDE DEF L
  <2> QED
    BY <1>3, <2>1, LeadsOn
<1>6. ASSUME NEW v \in 1 .. SIZE + OPS, v \notin DOMAIN node', NEW j \in Nodes!Slot
      PROVE  Address(v, j) \notin L
  <2>1. v # x /\ v # z /\ x \in 1 .. SIZE + OPS /\ z \in 1 .. SIZE + OPS
    BY <1>1, <1>2, <1>6
  <2>2. Address(v, j) \notin Cells(z, 0, T - 2)
    <3>1. 0 \in Nat /\ T - 2 \in Int /\ T - 2 < Nodes!FULL
      BY Degrees, Given
    <3> QED
      BY <2>1, <3>1, OtherCells
  <2>3. Address(v, j) \notin Cells(x, i, n)
    <3>1. n \in Int
      BY <1>3
    <3> QED
      BY <1>3, <1>4, <2>1, <3>1, OtherCells
  <2> QED
    BY <2>2, <2>3
<1> HIDE DEF L
<1>7. DOMAIN node \subseteq DOMAIN node'
  BY <1>1
<1> QED
  BY <1>3, <1>5, <1>6, <1>7, MemAfter

LEMMA DescentKeepsMemory ==
  ASSUME TreeInv, TreeFits, TreeFits', MemInv, SplitAndDescend
  PROVE  MemInv'
<1> PICK m : m = Scan(mem, this, node[this].n, k)
  OBVIOUS
<1> PICK i : i = ChildPlace
  OBVIOUS
<1> PICK z : z = Bare!Fresh
  OBVIOUS
<1>1. /\ Bare!CanSplit(node, this, i, z)
      /\ node' = Bare!SplitChild(node, this, i, z)
      /\ Nodes!Fresh = z
  BY ChildCanSplit
<1>2. /\ mem' = Seen(SplitKeys(m, node, this, i, z), this, i)
      /\ UNCHANGED inserted
  BY <1>1 DEF SplitAndDescend
<1>3. Known' = Known /\ Bare!Good(node) /\ DOMAIN node \subseteq 1 .. SIZE + OPS
      /\ AllWritten(mem, Known, node)
  BY <1>2 DEF Known, TreeInv, TreeFits, MemInv
<1>4. Leads(mem, m, {}, Known)
  <2>1. this \in DOMAIN node /\ node[this].n \in Nat /\ node[this].n <= Nodes!FULL
    <3>1. this \in DOMAIN node /\ node[this].n \in Nat /\ node[this].n < Nodes!FULL
      BY ChildIs DEF SplitAndDescend
    <3> QED
      BY <3>1, Degrees
  <2>2. Sound(mem, Known) /\ UNINIT \notin Known /\ Written(mem, Known, this, 0, node[this].n)
    BY <2>1, KnownAre DEF MemInv, AllWritten
  <2>3. this \in 1 .. SIZE + OPS
    BY <1>3, <2>1
  <2> QED
    BY <2>1, <2>2, <2>3, ScanIs
<1>5. AllWritten(m, Known, node)
  BY <1>3, <1>4, NodesStayWritten
<1>6. Known \subseteq Known' /\ Leads(mem, m, {}, Known') /\ AllWritten(m, Known', node)
      /\ DOMAIN node \subseteq DOMAIN node
  BY <1>3, <1>4, <1>5
<1> QED
  BY <1>1, <1>2, <1>6, SplitKeepsMemory

-----------------------------------------------------------------------------
\* What an insertion starts with: the memory after the search, if any.
LEMMA KnownMore ==
  ASSUME TreeInv, TreeFits, MemInv, NEW key \in Key, NEW m, Insert(key, m), Leads(mem, m, {}, Known)
  PROVE  /\ Known \subseteq Known' /\ key \in Known' /\ UNINIT \notin Known'
         /\ Leads(mem, m, {}, Known') /\ AllWritten(m, Known', node)
         /\ Sound(m, Known')
<1>1. inserted' = [inserted EXCEPT ![key] = @ + 1] /\ inserted \in [Key -> Nat]
  BY DEF Insert, TreeInv, Bare!Counters
<1>2. Known \subseteq Known' /\ key \in Known' /\ UNINIT \notin Known'
  <2>1. \A c \in Key : inserted[c] > 0 => inserted'[c] > 0
    BY <1>1
  <2>2. inserted'[key] > 0
    BY <1>1
  <2> QED
    BY <2>1, <2>2, Given DEF Known
<1>3. Sound(m, Known') /\ AllWritten(m, Known, node)
  <2>1. Sound(m, Known)
    BY DEF Leads
  <2>2. Bare!Good(node) /\ DOMAIN node \subseteq 1 .. SIZE + OPS /\ AllWritten(mem, Known, node)
    BY DEF TreeInv, TreeFits, MemInv
  <2> QED
    BY <1>2, <2>1, <2>2, SoundWithMore, NodesStayWritten
<1>4. AllWritten(m, Known', node)
  BY <1>2, <1>3 DEF AllWritten, Written
<1>5. Leads(mem, m, {}, Known')
  <2>1. \A l \in Location : Word(m, l) = Word(mem, l)
    BY DEF Leads
  <2> QED
    BY <1>3, <2>1 DEF Leads
<1> QED
  BY <1>2, <1>3, <1>4, <1>5

LEMMA EmptyKeepsMemory ==
  ASSUME TreeInv, TreeFits, TreeFits', MemInv, pc = "idle", NEW key \in Key, NEW m,
         Insert(key, m), InsertEmpty(key, m), Leads(mem, m, {}, Known)
  PROVE  MemInv'
<1> PICK s : s = Bare!Fresh
  OBVIOUS
<1> PICK r : r = [Bare!NewNode(TRUE) EXCEPT !.n = 1]
  OBVIOUS
<1>1. /\ root = NULL /\ node' = Bare!Alloc(node, s, r)
      /\ mem' = Write(m, s, 0, key)
  BY SameOperators, SameFresh DEF InsertEmpty
<1>2. DOMAIN node = {} /\ r.n = 1
  BY <1>1 DEF TreeInv, Pointers, Bare!NewNode
<1>3. DOMAIN node' = {s} /\ node'[s] = r /\ s \in 1 .. SIZE + OPS
  <2>1. DOMAIN node' = {s} /\ node'[s] = r
    BY <1>1, <1>2 DEF Bare!Alloc
  <2> QED
    BY <2>1 DEF TreeFits
<1>4. /\ Known \subseteq Known' /\ key \in Known' /\ UNINIT \notin Known'
      /\ Leads(mem, m, {}, Known') /\ Sound(m, Known')
  BY KnownMore
<1>5. 0 \in Nodes!Slot /\ Address(s, 0) \in Location
  <2>1. 0 \in Nodes!Slot
    BY Degrees DEF Nodes!Slot
  <2> QED
    BY <1>3, <2>1, AddressIs
<1> PICK L : L = {Address(s, 0)}
  OBVIOUS
<1>6. Leads(m, mem', L, Known') /\ Word(mem', Address(s, 0)) = key
  <2>1. mem' = [m EXCEPT !.buf = Buffer!Store(@, Address(s, 0), key)]
    BY <1>1 DEF Write
  <2> QED
    BY <1>4, <1>5, <2>1, StoreIs
<1>7. Leads(mem, mem', L, Known')
  <2>1. {} \subseteq L /\ L \subseteq L
    OBVIOUS
  <2> QED
    BY <1>4, <1>6, <2>1, LeadsOn
<1>8. AllWritten(mem', Known', node')
  <2>1. \A j \in 0 .. 1 - 1 : j = 0
    OBVIOUS
  <2>2. Written(mem', Known', s, 0, 1)
    BY <1>4, <1>6, <2>1 DEF Written
  <2> QED
    BY <1>2, <1>3, <2>2 DEF AllWritten
<1>9. ASSUME NEW x \in 1 .. SIZE + OPS, x \notin DOMAIN node', NEW j \in Nodes!Slot
      PROVE  Address(x, j) \notin L
  <2>1. x # s
    BY <1>3, <1>9
  <2>2. Address(x, j) # Address(s, 0)
    BY <1>3, <1>5, <2>1, AddressIs
  <2> QED
    BY <2>2
<1>10. DOMAIN node \subseteq DOMAIN node'
  BY <1>2
<1> QED
  BY <1>4, <1>7, <1>8, <1>9, <1>10, MemAfter

LEMMA RootKeepsMemory ==
  ASSUME TreeInv, TreeFits, TreeFits', MemInv, pc = "idle", NEW key \in Key, NEW m,
         Insert(key, m), InsertRoot(key, m), Leads(mem, m, {}, Known)
  PROVE  MemInv'
<1>1. mem' = m /\ node' = node
  BY DEF InsertRoot
<1>2. /\ Known \subseteq Known' /\ DOMAIN node \subseteq DOMAIN node'
      /\ Leads(mem, mem', {}, Known') /\ AllWritten(mem', Known', node')
  BY <1>1, KnownMore
<1>3. \A x \in 1 .. SIZE + OPS : x \notin DOMAIN node' => \A j \in Nodes!Slot : Address(x, j) \notin {}
  OBVIOUS
<1> QED
  BY <1>2, <1>3, MemAfter

LEMMA FullRootKeepsMemory ==
  ASSUME TreeInv, TreeFits, TreeFits', MemInv, pc = "idle", NEW key \in Key, NEW m,
         Insert(key, m), InsertFullRoot(key, m), Leads(mem, m, {}, Known)
  PROVE  MemInv'
<1> PICK s : s = Bare!Fresh
  OBVIOUS
<1> PICK record : record = [Bare!NewNode(FALSE) EXCEPT !.C[0] = root]
  OBVIOUS
<1> PICK heap : heap = Bare!Alloc(node, s, record)
  OBVIOUS
<1>1. /\ s \notin DOMAIN node
      /\ DOMAIN heap = DOMAIN node \cup {s}
      /\ Bare!CanSplit(heap, s, 0, s + 1)
      /\ node' = Bare!SplitChild(heap, s, 0, s + 1)
      /\ Nodes!Fresh = s
      /\ Nodes!Alloc(node, s, [Nodes!NewNode(FALSE) EXCEPT !.C[0] = root]) = heap
  BY NewRootIs
<1>2. mem' = Seen(SplitKeys(m, heap, s, 0, s + 1), s, 0)
  BY <1>1 DEF InsertFullRoot
<1>3. /\ Known \subseteq Known' /\ Leads(mem, m, {}, Known') /\ AllWritten(m, Known', node)
  BY KnownMore
<1>4. AllWritten(m, Known', heap)
  <2>1. record.n = 0
    BY DEF Bare!NewNode
  <2>2. heap[s] = record /\ \A v \in DOMAIN node : heap[v] = node[v]
    BY <1>1 DEF Bare!Alloc
  <2>3. Written(m, Known', s, 0, 0)
    BY DEF Written
  <2> QED
    BY <1>1, <1>3, <2>1, <2>2, <2>3 DEF AllWritten
<1>5. DOMAIN node \subseteq DOMAIN heap
  BY <1>1
<1> QED
  BY <1>1, <1>2, <1>3, <1>4, <1>5, SplitKeepsMemory

LEMMA InsertKeepsMemory ==
  ASSUME TreeInv, TreeFits, TreeFits', MemInv, pc = "idle", NEW key \in Key, NEW m,
         Insert(key, m), Leads(mem, m, {}, Known)
  PROVE  MemInv'
BY EmptyKeepsMemory, RootKeepsMemory, FullRootKeepsMemory DEF Insert

-----------------------------------------------------------------------------
\* search reads keys of the nodes on its way.
LEMMA SearchReads ==
  ASSUME TreeInv, TreeFits, NEW key, NEW l \in Search(key).at
  PROVE  /\ root # NULL
         /\ \E x \in Path(key)[root] : x \in DOMAIN node /\ \E j \in 0 .. node[x].n - 1 : l = Address(x, j)
<1>1. Bare!Good(node) /\ Bare!Levelled(node)
  BY DEF TreeInv
<1>2. root # NULL /\ root \in DOMAIN node
  <2>1. root = NULL => Search(key).at = {}
    BY <1>1, SearchIs
  <2> QED
    BY <2>1 DEF TreeInv, Pointers
<1>3. Search(key).at = UNION {Looked(y, key) : y \in Path(key)[root]}
  BY <1>1, <1>2, SearchIs
<1>4. PICK x \in Path(key)[root] : l \in Looked(x, key)
  BY <1>3
<1>5. x \in DOMAIN node
  BY <1>1, <1>2, PathIs
<1>6. node[x].n \in Nat /\ node[x].n >= 1
  <2>1. node[x].n \in Nat
    BY <1>1, <1>5, Given, Bare!GoodNodeIs DEF Bare!Good
  <2> QED
    BY <1>5, <2>1, Given DEF TreeInv, Bare!Filled
<1> PICK f : f = First(x, key)
  OBVIOUS
<1> PICK n : n = node[x].n
  OBVIOUS
<1> PICK last : last = Min({First(x, key), node[x].n - 1})
  OBVIOUS
<1>7. PICK j \in 0 .. last : l = Address(x, j)
  BY <1>4 DEF Looked
<1>8. last = IF f < n THEN f ELSE n - 1
  BY <1>6, LastLookedIs
<1>9. f \in 0 .. n
  BY <1>6, FirstIs
<1>10. j \in 0 .. n - 1
  <2>1. n \in Nat /\ n >= 1
    BY <1>6
  <2>2. \A a \in Nat : \A b \in 0 .. a : a >= 1 => (IF b < a THEN b ELSE a - 1) \in 0 .. a - 1
    OBVIOUS
  <2>3. last \in 0 .. n - 1
    BY ONLY <1>8, <1>9, <2>1, <2>2
  <2>4. \A a \in Nat : \A b \in 0 .. a - 1 : \A c \in 0 .. b : c \in 0 .. a - 1
    OBVIOUS
  <2> QED
    BY <1>7, <2>1, <2>3, <2>4
<1> QED
  BY <1>2, <1>5, <1>7, <1>10

\* The memory after a search.
LEMMA SearchLeads ==
  ASSUME TreeInv, TreeFits, MemInv, NEW key,
         NEW m, m = [mem EXCEPT !.exact = @ /\ \A l \in Search(key).at : Buffer!Exact(mem.buf, l)]
  PROVE  Leads(mem, m, {}, Known)
<1> PICK S : S = Search(key).at
  OBVIOUS
<1>1. \A l \in S : l \in Location /\ Word(mem, l) \in Known
  <2> SUFFICES ASSUME NEW l \in S PROVE l \in Location /\ Word(mem, l) \in Known
    OBVIOUS
  <2>1. PICK x \in DOMAIN node : \E j \in 0 .. node[x].n - 1 : l = Address(x, j)
    BY SearchReads
  <2>2. PICK j \in 0 .. node[x].n - 1 : l = Address(x, j)
    BY <2>1
  <2>3. node[x].n \in Nat /\ node[x].n <= Nodes!FULL
    <3>1. node[x].n \in 0 .. Nodes!FULL
      BY Given, Degrees, Bare!GoodNodeIs DEF TreeInv, Bare!Good
    <3> QED
      BY <3>1, Degrees
  <2>4. x \in 1 .. SIZE + OPS
    BY DEF TreeFits
  <2> QED
    BY <2>2, <2>3, <2>4, PlacesAre DEF MemInv, AllWritten, Written
<1>2. Sound(mem, Known) /\ UNINIT \notin Known
  BY KnownAre DEF MemInv
<1>3. /\ DOMAIN m = DOMAIN mem /\ m.buf = mem.buf /\ m.exact \in BOOLEAN
      /\ m.exact <=> mem.exact /\ \A l \in S : Buffer!Exact(mem.buf, l)
  BY <1>2 DEF Sound
<1> QED
  BY <1>1, <1>2, <1>3, SeenIs

-----------------------------------------------------------------------------
\* A transfer moves what was written and changes no word.
LEMMA TransferIs ==
  ASSUME NEW m, NEW W, Sound(m, W), UNINIT \notin W,
         NEW r, r = [m EXCEPT !.buf = Buffer!Transfer(@)]
  PROVE  Leads(m, r, {}, W)
<1>1. /\ r.exact = m.exact /\ DOMAIN r = DOMAIN m
      /\ r.buf.cache = [l \in {} |-> 0] /\ r.buf.nvm = Buffer!View(m.buf)
  BY DEF Sound, Buffer!Transfer, Buffer!InitialBuffer
<1>2. DOMAIN r.buf.cache = {} /\ \A l \in Location : r.buf.nvm[l] = Word(m, l)
  BY <1>1 DEF Word
<1>3. \A l \in Location : Word(r, l) = Word(m, l)
  BY <1>2, WordIs
<1>4. Sound(r, W)
  <2>1. \A l \in Location : Word(m, l) \in W \cup {UNINIT}
    BY WordIs DEF Sound
  <2> QED
    BY <1>1, <1>2, <2>1 DEF Sound
<1>5. Untransferred(r) => Untransferred(m)
  <2> SUFFICES ASSUME Untransferred(r), NEW l \in Location PROVE m.buf.nvm[l] = UNINIT
    BY DEF Untransferred
  <2>1. Word(m, l) = UNINIT
    BY <1>2 DEF Untransferred
  <2>2. l \notin DOMAIN m.buf.cache
    BY <2>1, WordIs DEF Sound
  <2> QED
    BY <2>1, <2>2, WordIs
<1> QED
  BY <1>1, <1>3, <1>4, <1>5 DEF Leads

LEMMA InitIsSound == Init => MemInv
<1> SUFFICES ASSUME Init PROVE MemInv
  OBVIOUS
<1> PICK memory : memory = [l \in Location |-> UNINIT]
  OBVIOUS
<1>1. /\ DOMAIN mem = {"buf", "exact"} /\ mem.exact = TRUE
      /\ mem.buf.cache = [l \in {} |-> 0] /\ mem.buf.nvm = memory
  BY DEF Init, Buffer!InitialBuffer
<1>2. DOMAIN mem.buf.cache = {} /\ \A l \in Location : mem.buf.nvm[l] = UNINIT
  BY <1>1
<1>3. Sound(mem, Known)
  BY <1>1, <1>2 DEF Sound
<1>4. \A l \in Location : Word(mem, l) = UNINIT
  BY <1>2, WordIs
<1>5. DOMAIN node = {}
  BY DEF Init
<1>6. \A x \in 1 .. SIZE + OPS : Unwritten(mem, x)
  BY <1>4, AddressIs DEF Unwritten
<1> QED
  BY <1>1, <1>3, <1>5, <1>6 DEF MemInv, AllWritten

LEMMA StepKeepsMemory ==
  ASSUME TreeInv, TreeFits, TreeFits', MemInv, [Next]_vars
  PROVE  MemInv'
<1>1. Leads(mem, mem, {}, Known)
  BY LeadsToItself DEF MemInv
<1>2. CASE Build
  <2>1. pc = "idle" /\ \E key \in Key : Insert(key, mem)
    BY <1>2 DEF Build
  <2> QED
    BY <1>1, <2>1, InsertKeepsMemory
<1>3. CASE Operate
  <2>1. PICK key \in Key :
          LET p == Search(key)
              m == [mem EXCEPT !.exact = @ /\ \A l \in p.at : Buffer!Exact(mem.buf, l)]
          IN  IF p.found = NULL
                THEN Insert(key, m)
                ELSE mem' = m /\ UNCHANGED <<node, root, pc, this, k, top, inserted>>
    BY <1>3 DEF Operate
  <2> PICK m : m = [mem EXCEPT !.exact = @ /\ \A l \in Search(key).at : Buffer!Exact(mem.buf, l)]
    OBVIOUS
  <2>2. Leads(mem, m, {}, Known) /\ pc = "idle"
    BY <1>3, SearchLeads DEF Operate
  <2>3. CASE Insert(key, m)
    BY <2>2, <2>3, InsertKeepsMemory
  <2>4. CASE mem' = m /\ UNCHANGED <<node, inserted>>
    BY <2>2, <2>4, ReadKeepsMemory DEF Known
  <2> QED
    BY <2>1, <2>3, <2>4
<1>4. CASE InsertNonFull
  BY <1>4, LeafKeepsMemory, DescendKeepsMemory, DescentKeepsMemory DEF InsertNonFull
<1>5. CASE FinalTransfer
  <2>1. Leads(mem, mem', {}, Known)
    <3>1. mem' = [mem EXCEPT !.buf = Buffer!Transfer(@)]
      BY <1>5 DEF FinalTransfer
    <3> QED
      BY <3>1, KnownAre, TransferIs DEF MemInv
  <2> QED
    BY <1>5, <2>1, ReadKeepsMemory DEF FinalTransfer, Known
<1>6. CASE UNCHANGED vars
  <2>1. mem' = mem /\ node' = node /\ inserted' = inserted
    BY <1>6 DEF vars
  <2> QED
    BY <1>1, <2>1, ReadKeepsMemory DEF Known
<1> QED
  BY <1>2, <1>3, <1>4, <1>5, <1>6 DEF Next, Ended

LEMMA NodesFit == TreeInv => TreeFits
BY NodesAreFew DEF TreeFits

\* What is in memory, whatever the reads return.
THEOREM MemoryInvariant == Spec => [](TreeInv /\ TreeFits /\ MemInv)
<1>1. Init => MemInv
  BY InitIsSound
<1>2. TreeInv /\ TreeFits /\ TreeFits' /\ MemInv /\ [Next]_vars => MemInv'
  BY StepKeepsMemory
<1>3. TreeInv => TreeFits
  BY NodesFit
<1> QED
  BY <1>1, <1>2, <1>3, ShapeInvariant, PTL DEF Spec

\* The shape of the tree and the words of its nodes are right whatever the
\* reads of the buffer return.
THEOREM ShapeIsKept == Spec => []ShapeWhateverIsRead
<1>1. TreeInv /\ TreeFits /\ MemInv => ShapeWhateverIsRead
  <2> SUFFICES ASSUME TreeInv, TreeFits, MemInv PROVE ShapeWhateverIsRead
    OBVIOUS
  <2>1. Nodes!WellFormed
    <3>1. Bare!Good(node) /\ Bare!Linked(node, Bare!Top) /\ Bare!Filled(node, Bare!Top)
          /\ Bare!Levelled(node)
      BY DEF TreeInv
    <3>2. root # NULL => Bare!Top \in DOMAIN node
      BY DEF TreeInv, Pointers, Bare!Top
    <3>3. Bare!WellFormed
      BY <3>1, <3>2, Given, Bare!ShapeIsWellFormed
    <3> QED
      BY <3>3, SameShape
  <2>2. ASSUME NEW x \in DOMAIN node, NEW j \in 0 .. node[x].n - 1
        PROVE  Keys(x)[j] \in Key /\ inserted[Keys(x)[j]] > 0
    <3>1. node[x].n \in Nat /\ node[x].n <= Nodes!FULL
      <4>1. node[x].n \in 0 .. Nodes!FULL
        BY Given, Degrees, Bare!GoodNodeIs DEF TreeInv, Bare!Good
      <4> QED
        BY <4>1, Degrees
    <3>2. x \in 1 .. SIZE + OPS
      BY DEF TreeFits
    <3>3. j \in Nodes!Slot
      BY <3>1, <3>2, PlacesAre
    <3>4. Keys(x)[j] = Word(mem, Address(x, j))
      BY <3>3 DEF Keys, Word
    <3>5. Word(mem, Address(x, j)) \in Known
      BY DEF MemInv, AllWritten, Written
    <3> QED
      BY <3>4, <3>5 DEF Known
  <2> QED
    BY <2>1, <2>2 DEF ShapeWhateverIsRead
<1> QED
  BY <1>1, MemoryInvariant, PTL

\* Until the first transfer every read of the program was right.
THEOREM ReadsAreExact == Spec => []ExactUntilTransfer
<1>1. MemInv => ExactUntilTransfer
  BY DEF MemInv, Untransferred, ExactUntilTransfer
<1> QED
  BY <1>1, MemoryInvariant, PTL
=============================================================================
