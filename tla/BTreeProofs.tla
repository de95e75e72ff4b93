---------------------------- MODULE BTreeProofs -----------------------------
(***************************************************************************)
(* What is true of BTree for every set of keys, every minimum degree and   *)
(* every number of operations: every call of insertNonFull is on a node    *)
(* that has room and under which its key belongs, no child pointer and no  *)
(* key below n is ever one that was not written, the nodes stay filled and *)
(* their keys in order, the leaves stay at one depth, no split drops or    *)
(* doubles a key or a subtree, and search finds what was inserted.         *)
(*                                                                         *)
(* The argument is about splitChild, of any heap whose nodes are good: the *)
(* words in use before a split and those in use after it are the same,     *)
(* each at one place that IsSplit names, with one more for the new child.  *)
(* A second invariant, OrderInv, is about the paths of the tree: a height  *)
(* and a set of keys for every node, which a split divides at the middle   *)
(* key.  What the recursive functions of BTree compute follows from it by  *)
(* the lowest node at which they would not.                                *)
(***************************************************************************)
EXTENDS BTree, FiniteSetTheorems, TLAPS

Link == 0 .. FULL
Words == [Slot -> Key \cup {UNINIT}]
Links(nodes) == [Link -> nodes \cup {UNINIT}]
Record(nodes) == [keys : Words, C : Links(nodes), n : 0 .. FULL, leaf : BOOLEAN]

\* What a node of a heap with these nodes is: the children up to n are nodes.
\* Its keys may be anything here, so that what follows from Good is true of a
\* tree whatever its keys are.
GoodNode(nodes, r) ==
  /\ r \in Record(nodes)
  /\ ~r.leaf => \A j \in 0 .. r.n : r.C[j] \in nodes

Good(heap) == \A x \in DOMAIN heap : GoodNode(DOMAIN heap, heap[x])

\* What splitChild is called with: place i of an inner node x with room, and a
\* full child there.
CanSplit(heap, x, i, z) ==
  /\ Good(heap)
  /\ x \in DOMAIN heap /\ z \notin DOMAIN heap
  /\ ~heap[x].leaf /\ ~IsFull(heap, x)
  /\ i \in 0 .. heap[x].n
  /\ IsFull(heap, heap[x].C[i])

-----------------------------------------------------------------------------
LEMMA Degree == T \in Nat /\ T >= 2 /\ FULL = 2 * T - 1 /\ FULL \in Nat /\ FULL >= 3
BY TreeAssumption DEF FULL

\* The greatest element of a set of integers with a bound exists, and Max
\* chooses it.
LEMMA MaxIsGreatest ==
  ASSUME NEW S, S \subseteq Int, S # {}, NEW b \in Int, \A s \in S : s <= b
  PROVE  Max(S) \in S /\ \A s \in S : s <= Max(S)
<1> DEFINE below == {b - s : s \in S}
<1>1. below \subseteq Nat /\ below # {}
  OBVIOUS
<1>2. PICK n \in below : \A m \in below : ~(<<m, n>> \in OpToRel(<, Nat))
  <2> HIDE DEF below
  <2> QED
    BY <1>1, NatLessThanWellFounded, WFMin
<1>3. \A m \in below : n <= m
  <2>1. \A m \in below : ~(m < n)
    BY <1>1, <1>2 DEF OpToRel
  <2> HIDE DEF below
  <2>2. n \in Nat /\ \A m \in below : m \in Nat
    BY <1>1
  <2> QED
    BY <2>1, <2>2
<1>4. \E s \in S : \A t \in S : s >= t
  <2>1. PICK s \in S : n = b - s
    BY <1>2
  <2>2. \A t \in S : n <= b - t
    BY <1>3
  <2>3. ASSUME NEW t \in S PROVE s >= t
    <3>1. t \in Int /\ s \in Int /\ b - s <= b - t
      BY <2>1, <2>2
    <3> QED
      BY <3>1
  <2> QED
    BY <2>3
<1>5. Max(S) \in S /\ \A t \in S : Max(S) >= t
  BY <1>4, Zenon DEF Max
<1> QED
  BY <1>5

\* Where a scan of the keys of a node stops.
LEMMA PlaceIs ==
  ASSUME NEW r, r.n \in 0 .. FULL, NEW key
  PROVE  LastNotGreater(r, key) \in -1 .. r.n - 1
<1> DEFINE S == {-1} \cup {j \in 0 .. r.n - 1 : r.keys[j] <= key}
<1>1. r.n \in Nat
  BY Degree
<1>2. S \subseteq -1 .. r.n - 1 /\ S # {}
  BY <1>1
<1>3. S \subseteq Int /\ r.n - 1 \in Int /\ \A s \in S : s <= r.n - 1
  BY <1>1, <1>2
<1> HIDE DEF S
<1>4. Max(S) \in S
  BY <1>2, <1>3, MaxIsGreatest
<1> QED
  BY <1>2, <1>4 DEF LastNotGreater, S

-----------------------------------------------------------------------------
LEMMA PutIs ==
  ASSUME NEW S, NEW array, DOMAIN array = S, S \subseteq Int, NEW n, NEW i, NEW entry
  PROVE  /\ DOMAIN Put(array, n, i, entry) = S
         /\ \A j \in S : Put(array, n, i, entry)[j] =
              IF j = i THEN entry ELSE IF j > i /\ j <= n THEN array[j - 1] ELSE array[j]
<1>1. DOMAIN Put(array, n, i, entry) = S
  BY DEF Put
<1>2. ASSUME NEW j \in S
      PROVE  Put(array, n, i, entry)[j] =
               IF j = i THEN entry ELSE IF j > i /\ j <= n THEN array[j - 1] ELSE array[j]
  <2>1. Put(array, n, i, entry)[j] =
          CASE j = i -> entry [] j > i /\ j <= n -> array[j - 1] [] OTHER -> array[j]
    BY DEF Put
  <2>2. j > i => j # i
    OBVIOUS
  <2> QED
    BY <2>1, <2>2
<1> QED
  BY <1>1, <1>2

\* The words of a good node.
LEMMA GoodNodeIs ==
  ASSUME NEW nodes, NEW r, GoodNode(nodes, r)
  PROVE  /\ r \in Record(nodes)
         /\ r.keys \in Words /\ DOMAIN r.keys = Slot
         /\ r.C \in Links(nodes) /\ DOMAIN r.C = Link
         /\ r.n \in 0 .. FULL /\ r.n \in Nat /\ r.leaf \in BOOLEAN
         /\ Slot \subseteq Int /\ Link \subseteq Int
<1>1. r \in Record(nodes)
  BY DEF GoodNode
<1>2. /\ r.keys \in Words /\ r.C \in Links(nodes)
      /\ r.n \in 0 .. FULL /\ r.n \in Nat /\ r.leaf \in BOOLEAN
  BY <1>1, Degree DEF Record
<1>3. Slot \subseteq Int /\ Link \subseteq Int
  BY Degree DEF Slot, Link
<1>4. DOMAIN r.keys = Slot /\ DOMAIN r.C = Link
  BY <1>2 DEF Words, Links
<1> QED
  BY <1>1, <1>2, <1>3, <1>4

\* The upper half: a new node with the last T - 1 keys and the last T children.
LEMMA UpperIs ==
  ASSUME NEW nodes, NEW r, GoodNode(nodes, r), r.n = FULL
  PROVE  /\ GoodNode(nodes, Upper(r))
         /\ Upper(r).n = T - 1 /\ Upper(r).leaf = r.leaf
         /\ \A j \in Slot : j >= T - 1 => Upper(r).keys[j] = UNINIT
         /\ \A j \in Link : r.leaf \/ j >= T => Upper(r).C[j] = UNINIT
         /\ \A j \in 0 .. T - 2 : Upper(r).keys[j] = r.keys[j + T]
         /\ ~r.leaf => \A j \in 0 .. T - 1 : Upper(r).C[j] = r.C[j + T]
<1> DEFINE keys == [j \in Slot |-> IF j < T - 1 THEN r.keys[j + T] ELSE UNINIT]
           C    == [j \in Link |-> IF ~r.leaf /\ j < T THEN r.C[j + T] ELSE UNINIT]
<1>2. keys \in Words /\ \A j \in 0 .. T - 2 : keys[j] = r.keys[j + T]
  <2>1. \A j \in 0 .. T - 2 : j \in Slot /\ j < T - 1 /\ j + T \in 0 .. FULL - 1
    BY Degree DEF Slot
  <2>2. \A j \in Slot : j < T - 1 => j \in 0 .. T - 2
    BY Degree DEF Slot
  <2>3. \A j \in 0 .. FULL - 1 : r.keys[j] \in Key \cup {UNINIT}
    BY GoodNodeIs DEF Words, Slot
  <2>4. \A j \in 0 .. T - 2 : keys[j] = r.keys[j + T] /\ keys[j] \in Key \cup {UNINIT}
    BY <2>1, <2>3
  <2> QED
    BY <2>2, <2>4 DEF Words
<1>3. /\ C \in Links(nodes)
      /\ ~r.leaf => \A j \in 0 .. T - 1 : C[j] = r.C[j + T] /\ C[j] \in nodes
  <2>1. \A j \in 0 .. T - 1 : j \in Link /\ j < T /\ j + T \in Link
    BY Degree DEF Link
  <2>2. \A j \in Link : j < T => j \in 0 .. T - 1
    BY Degree DEF Link
  <2>3. ~r.leaf => \A j \in Link : r.C[j] \in nodes
    BY DEF GoodNode, Link
  <2>4. ~r.leaf => \A j \in 0 .. T - 1 : C[j] = r.C[j + T] /\ C[j] \in nodes
    BY <2>1, <2>3 DEF Link
  <2> QED
    BY <2>2, <2>4 DEF Links
<1>4. T - 1 \in 0 .. FULL /\ r.leaf \in BOOLEAN
  BY Degree, GoodNodeIs
<1> DEFINE new == NewNode(r.leaf)
<1> HIDE DEF keys, C
<1>5. /\ new \in Record(nodes)
      /\ new.leaf = r.leaf
  <2>1. 0 \in 0 .. FULL
    BY Degree
  <2> QED
    BY <1>4, <2>1 DEF NewNode, Record, Words, Links, Link
<1>6. Upper(r) = [new EXCEPT !.n = T - 1, !.keys = keys, !.C = C]
  <2>1. \A j \in Slot : new.keys[j] = UNINIT
    BY DEF NewNode
  <2>2. \A j \in Link : new.C[j] = UNINIT
    BY DEF NewNode, Link
  <2>3. keys = [j \in Slot |-> IF j < T - 1 THEN r.keys[j + T] ELSE new.keys[j]]
    BY <2>1 DEF keys
  <2>4. C = [j \in Link |-> IF ~r.leaf /\ j < T THEN r.C[j + T] ELSE new.C[j]]
    BY <2>2 DEF C
  <2> QED
    BY <2>3, <2>4 DEF Upper, UpperKey, UpperChild, Half, Link
<1> HIDE DEF new
<1>7. /\ Upper(r) \in Record(nodes)
      /\ Upper(r).n = T - 1 /\ Upper(r).keys = keys /\ Upper(r).C = C /\ Upper(r).leaf = r.leaf
  BY <1>2, <1>3, <1>4, <1>5, <1>6 DEF Record
<1>8. GoodNode(nodes, Upper(r))
  BY <1>3, <1>7 DEF GoodNode
<1>9. /\ \A j \in Slot : j >= T - 1 => keys[j] = UNINIT
      /\ \A j \in Link : r.leaf \/ j >= T => C[j] = UNINIT
  <2>1. /\ \A j \in Slot : j >= T - 1 => ~(j < T - 1)
        /\ \A j \in Link : j >= T => ~(j < T)
    BY Degree DEF Slot, Link
  <2> QED
    BY <2>1 DEF keys, C
<1> QED
  BY <1>2, <1>3, <1>7, <1>8, <1>9

\* The lower half is the node with a smaller n.
LEMMA LowerIs ==
  ASSUME NEW nodes, NEW r, GoodNode(nodes, r), r.n = FULL
  PROVE  /\ GoodNode(nodes, Lower(r))
         /\ Lower(r).n = T - 1 /\ Lower(r).leaf = r.leaf
         /\ Lower(r).keys = r.keys /\ Lower(r).C = r.C
<1>2. T - 1 \in 0 .. FULL /\ 0 .. T - 1 \subseteq 0 .. FULL
  BY Degree
<1>4. ~r.leaf => \A j \in 0 .. T - 1 : r.C[j] \in nodes
  BY <1>2 DEF GoodNode
<1>5. Lower(r) = [r EXCEPT !.n = T - 1]
  BY DEF Lower, Half
<1>6. /\ Lower(r) \in Record(nodes)
      /\ Lower(r).n = T - 1 /\ Lower(r).leaf = r.leaf
      /\ Lower(r).keys = r.keys /\ Lower(r).C = r.C
  BY <1>2, <1>5 DEF GoodNode, Record
<1>7. GoodNode(nodes, Lower(r))
  BY <1>4, <1>6 DEF GoodNode
<1> QED
  BY <1>6, <1>7

\* A node with one more key and one more child behind it.
LEMMA ExtendedIs ==
  ASSUME NEW nodes, NEW r, GoodNode(nodes, r), r.n < FULL, ~r.leaf,
         NEW i \in 0 .. r.n, NEW key \in Key \cup {UNINIT}, NEW z \in nodes
  PROVE  LET x == Extended(r, i, key, z)
         IN  /\ GoodNode(nodes, x)
             /\ x.n = r.n + 1 /\ x.leaf = r.leaf
             /\ x.keys = Put(r.keys, r.n, i, key) /\ x.C = Put(r.C, r.n + 1, i + 1, z)
             /\ \A j \in Slot : x.keys[j] =
                  IF j = i THEN key ELSE IF j > i /\ j <= r.n THEN r.keys[j - 1] ELSE r.keys[j]
             /\ \A j \in Link : x.C[j] =
                  IF j = i + 1 THEN z ELSE IF j > i + 1 /\ j <= r.n + 1 THEN r.C[j - 1] ELSE r.C[j]
<1> DEFINE keys == Put(r.keys, r.n, i, key)
           C    == Put(r.C, r.n + 1, i + 1, z)
<1>2. /\ DOMAIN keys = Slot
      /\ \A j \in Slot : keys[j] =
           IF j = i THEN key ELSE IF j > i /\ j <= r.n THEN r.keys[j - 1] ELSE r.keys[j]
  BY GoodNodeIs, PutIs
<1>3. /\ DOMAIN C = Link
      /\ \A j \in Link : C[j] =
           IF j = i + 1 THEN z ELSE IF j > i + 1 /\ j <= r.n + 1 THEN r.C[j - 1] ELSE r.C[j]
  BY GoodNodeIs, PutIs
<1> HIDE DEF keys, C
<1>4. r.n \in Nat /\ i \in Nat /\ i <= r.n /\ r.n + 1 \in 0 .. FULL
  BY Degree, GoodNodeIs
<1>5. keys \in Words
  <2>1. \A j \in Slot : j > i => j - 1 \in Slot
    BY Degree, <1>4 DEF Slot
  <2>2. \A j \in Slot : r.keys[j] \in Key \cup {UNINIT}
    BY GoodNodeIs DEF Words
  <2>3. \A j \in Slot : keys[j] \in Key \cup {UNINIT}
    BY <1>2, <2>1, <2>2
  <2>4. keys = [j \in Slot |-> keys[j]]
    BY <1>2 DEF keys, Put
  <2> QED
    BY <2>3, <2>4 DEF Words
<1>6. C \in Links(nodes)
  <2>1. \A j \in Link : j > i + 1 => j - 1 \in Link
    BY Degree, <1>4 DEF Link
  <2>2. \A j \in Link : r.C[j] \in nodes \cup {UNINIT}
    <3>1. r.C \in Links(nodes)
      BY GoodNodeIs
    <3> QED
      BY <3>1 DEF Links
  <2>3. \A j \in Link : C[j] \in nodes \cup {UNINIT}
    BY <1>3, <2>1, <2>2
  <2>4. C = [j \in Link |-> C[j]]
    BY <1>3 DEF C, Put
  <2> QED
    BY <2>3, <2>4 DEF Links
<1>8. ASSUME NEW j \in 0 .. r.n + 1 PROVE C[j] \in nodes
  <2>1. j \in Link /\ j \in Int /\ 0 <= j /\ j <= r.n + 1
    BY <1>4, Degree DEF Link
  <2>2. \A m \in 0 .. r.n : r.C[m] \in nodes
    BY DEF GoodNode
  <2>3. CASE j = i + 1
    BY <1>3, <2>1, <2>3
  <2>4. CASE j > i + 1
    BY <1>3, <1>4, <2>1, <2>2, <2>4
  <2>5. CASE j < i + 1
    <3>1. j # i + 1 /\ ~(j > i + 1) /\ j \in 0 .. r.n
      BY <1>4, <2>1, <2>5
    <3>2. C[j] = r.C[j]
      BY <1>3, <2>1, <3>1
    <3> QED
      BY <2>2, <3>1, <3>2
  <2> QED
    BY <1>4, <2>1, <2>3, <2>4, <2>5
<1>9. Extended(r, i, key, z) = [r EXCEPT !.n = r.n + 1, !.keys = keys, !.C = C]
  BY DEF Extended, keys, C
<1>10. LET x == Extended(r, i, key, z)
       IN  /\ x \in Record(nodes)
           /\ x.n = r.n + 1 /\ x.keys = keys /\ x.C = C /\ x.leaf = r.leaf
  <2>1. r \in Record(nodes)
    BY DEF GoodNode
  <2> QED
    BY <1>4, <1>5, <1>6, <1>9, <2>1 DEF Record
<1>11. GoodNode(nodes, Extended(r, i, key, z))
  BY <1>8, <1>10 DEF GoodNode
<1> QED
  BY <1>2, <1>3, <1>10, <1>11 DEF keys, C

\* A good node stays good when nodes are added.
LEMMA GoodWithMore ==
  ASSUME NEW nodes, NEW more, nodes \subseteq more, NEW r, GoodNode(nodes, r)
  PROVE  GoodNode(more, r)
<1>1. r \in Record(more)
  <2>1. r \in Record(nodes)
    BY DEF GoodNode
  <2>2. Links(nodes) \subseteq Links(more)
    BY DEF Links
  <2> QED
    BY <2>1, <2>2 DEF Record
<1> QED
  BY <1>1 DEF GoodNode

-----------------------------------------------------------------------------
\* What splitChild leaves: the words of the three nodes it writes, with y the
\* child at place i.
IsSplit(heap, x, i, y, z, new) ==
  /\ x \in DOMAIN heap /\ y \in DOMAIN heap /\ y # x /\ z \notin DOMAIN heap
  /\ DOMAIN new = DOMAIN heap \cup {z}
  /\ \A v \in DOMAIN heap \ {x, y} : new[v] = heap[v]
  /\ new[y].n = T - 1 /\ new[y].leaf = heap[y].leaf
  /\ new[y].keys = heap[y].keys /\ new[y].C = heap[y].C
  /\ new[z].n = T - 1 /\ new[z].leaf = heap[y].leaf
  /\ \A j \in 0 .. T - 2 : new[z].keys[j] = heap[y].keys[j + T]
  /\ ~heap[y].leaf => \A j \in 0 .. T - 1 : new[z].C[j] = heap[y].C[j + T]
  /\ new[x].n = heap[x].n + 1 /\ ~new[x].leaf
  /\ \A j \in Slot : new[x].keys[j] =
       IF j = i THEN heap[y].keys[T - 1]
       ELSE IF j > i /\ j <= heap[x].n THEN heap[x].keys[j - 1] ELSE heap[x].keys[j]
  /\ \A j \in Link : new[x].C[j] =
       IF j = i + 1 THEN z
       ELSE IF j > i + 1 /\ j <= heap[x].n + 1 THEN heap[x].C[j - 1] ELSE heap[x].C[j]

\* The places before and after: the upper part of y goes to z, what stands
\* behind place i of x one place up, and a middle key of y to place i of x.
KeyTo(x, i, y, z, p) ==
  IF p[1] = y /\ p[2] = T - 1 THEN <<x, i>>
  ELSE IF p[1] = y /\ p[2] >= T THEN <<z, p[2] - T>>
  ELSE IF p[1] = x /\ p[2] >= i THEN <<x, p[2] + 1>>
  ELSE p

KeyFrom(x, i, y, z, q) ==
  IF q = <<x, i>> THEN <<y, T - 1>>
  ELSE IF q[1] = z THEN <<y, q[2] + T>>
  ELSE IF q[1] = x /\ q[2] > i THEN <<x, q[2] - 1>>
  ELSE q

\* The nodes of the heap after a split.
LEMMA SplitIs ==
  ASSUME NEW heap, NEW x, NEW i, NEW z, CanSplit(heap, x, i, z)
  PROVE  LET y   == heap[x].C[i]
             new == SplitChild(heap, x, i, z)
         IN  /\ y \in DOMAIN heap /\ y # x /\ x \in DOMAIN heap /\ z \notin DOMAIN heap
             /\ DOMAIN new = DOMAIN heap \cup {z}
             /\ \A v \in DOMAIN heap \ {x, y} : new[v] = heap[v]
             /\ new[y] = Lower(heap[y]) /\ new[z] = Upper(heap[y])
             /\ new[x] = Extended(heap[x], i, heap[y].keys[T - 1], z)
<1> DEFINE y == heap[x].C[i]
           new == SplitChild(heap, x, i, z)
           more == Alloc(heap, z, Upper(heap[y]))
<1>1. y \in DOMAIN heap /\ y # x /\ x \in DOMAIN heap /\ z \notin DOMAIN heap
  BY DEF CanSplit, Good, GoodNode
<1>2. /\ DOMAIN more = DOMAIN heap \cup {z}
      /\ more[z] = Upper(heap[y])
      /\ \A v \in DOMAIN heap : more[v] = heap[v]
  BY <1>1 DEF Alloc
<1> HIDE DEF more
<1>3. new = [more EXCEPT ![y] = Lower(more[y]),
                         ![x] = Extended(more[x], i, heap[y].keys[T - 1], z)]
  BY DEF SplitChild, more
<1> QED
  BY <1>1, <1>2, <1>3

LEMMA SplitWords ==
  ASSUME NEW heap, NEW x, NEW i, NEW z, CanSplit(heap, x, i, z)
  PROVE  /\ Good(SplitChild(heap, x, i, z))
         /\ IsSplit(heap, x, i, heap[x].C[i], z, SplitChild(heap, x, i, z))
<1> DEFINE y == heap[x].C[i]
           new == SplitChild(heap, x, i, z)
<1> DEFINE nodes == DOMAIN heap \cup {z}
<1>1. /\ y \in DOMAIN heap /\ y # x /\ x \in DOMAIN heap /\ z \notin DOMAIN heap
      /\ DOMAIN new = nodes
      /\ \A v \in DOMAIN heap \ {x, y} : new[v] = heap[v]
      /\ new[y] = Lower(heap[y]) /\ new[z] = Upper(heap[y])
      /\ new[x] = Extended(heap[x], i, heap[y].keys[T - 1], z)
  BY SplitIs
<1>2. \A v \in DOMAIN heap : GoodNode(nodes, heap[v])
  BY GoodWithMore DEF CanSplit, Good
<1> HIDE DEF nodes, new, y
<1>3. heap[y].n = FULL /\ ~heap[x].leaf /\ heap[x].n < FULL /\ i \in 0 .. heap[x].n
  <2>1. heap[x].n \in 0 .. FULL /\ heap[x].n # FULL
    BY <1>1, <1>2, GoodNodeIs DEF CanSplit, IsFull, y
  <2> QED
    BY <2>1, Degree DEF CanSplit, IsFull, y
<1>4. heap[y].keys[T - 1] \in Key \cup {UNINIT} /\ z \in nodes
  <2>1. T - 1 \in Slot /\ heap[y].keys \in Words
    BY <1>1, <1>2, GoodNodeIs, Degree DEF Slot
  <2> QED
    BY <2>1 DEF Words, nodes
<1>5. /\ GoodNode(nodes, new[y])
      /\ new[y].n = T - 1 /\ new[y].leaf = heap[y].leaf
      /\ new[y].keys = heap[y].keys /\ new[y].C = heap[y].C
  BY <1>1, <1>2, <1>3, LowerIs
<1>6. /\ GoodNode(nodes, new[z])
      /\ new[z].n = T - 1 /\ new[z].leaf = heap[y].leaf
      /\ \A j \in 0 .. T - 2 : new[z].keys[j] = heap[y].keys[j + T]
      /\ ~heap[y].leaf => \A j \in 0 .. T - 1 : new[z].C[j] = heap[y].C[j + T]
  BY <1>1, <1>2, <1>3, UpperIs
<1>7. /\ GoodNode(nodes, new[x])
      /\ new[x].n = heap[x].n + 1 /\ ~new[x].leaf
      /\ \A j \in Slot : new[x].keys[j] =
           IF j = i THEN heap[y].keys[T - 1]
           ELSE IF j > i /\ j <= heap[x].n THEN heap[x].keys[j - 1] ELSE heap[x].keys[j]
      /\ \A j \in Link : new[x].C[j] =
           IF j = i + 1 THEN z
           ELSE IF j > i + 1 /\ j <= heap[x].n + 1 THEN heap[x].C[j - 1] ELSE heap[x].C[j]
  <2> PICK q : q = heap[x]
    OBVIOUS
  <2> PICK r : r = new[x]
    OBVIOUS
  <2> PICK key : key = heap[y].keys[T - 1]
    OBVIOUS
  <2>1. GoodNode(nodes, q) /\ ~q.leaf /\ q.n < FULL /\ i \in 0 .. q.n /\ z \in nodes
    BY <1>1, <1>2, <1>3, <1>4
  <2>2. r = Extended(q, i, key, z) /\ key \in Key \cup {UNINIT}
    BY <1>1, <1>4
  <2>3. /\ GoodNode(nodes, r)
        /\ r.n = q.n + 1 /\ ~r.leaf
        /\ \A j \in Slot : r.keys[j] =
             IF j = i THEN key ELSE IF j > i /\ j <= q.n THEN q.keys[j - 1] ELSE q.keys[j]
        /\ \A j \in Link : r.C[j] =
             IF j = i + 1 THEN z ELSE IF j > i + 1 /\ j <= q.n + 1 THEN q.C[j - 1] ELSE q.C[j]
    BY <2>1, <2>2, ExtendedIs
  <2> QED
    BY <2>3
<1>8. Good(new)
  <2>1. \A v \in nodes : v \in DOMAIN heap \ {x, y} \/ v = x \/ v = y \/ v = z
    BY DEF nodes
  <2>2. \A v \in nodes : GoodNode(nodes, new[v])
    BY <1>1, <1>2, <1>5, <1>6, <1>7, <2>1
  <2> QED
    BY <1>1, <2>2 DEF Good
<1> QED
  BY <1>1, <1>5, <1>6, <1>7, <1>8 DEF nodes, new, y, IsSplit

-----------------------------------------------------------------------------
\* Two sets with functions between them that undo each other are equally large.
LEMMA Inverses ==
  ASSUME NEW S, NEW R, NEW f \in [S -> R], NEW g \in [R -> S],
         \A p \in S : g[f[p]] = p, \A q \in R : f[g[q]] = q,
         IsFiniteSet(S)
  PROVE  IsFiniteSet(R) /\ Cardinality(R) = Cardinality(S)
<1>1. \A a, b \in S : f[a] = f[b] => a = b
  <2>1. \A a, b \in S : f[a] = f[b] => g[f[a]] = g[f[b]]
    OBVIOUS
  <2> QED
    BY <2>1
<1>2. f \in Injection(S, R)
  BY <1>1 DEF Injection, IsInjective
<1>3. f \in Surjection(S, R)
  BY DEF Surjection
<1>4. ExistsBijection(S, R)
  BY <1>2, <1>3 DEF ExistsBijection, Bijection
<1> QED
  BY <1>4, FS_Bijection

\* The places of the keys of one value.
PlacesOf(heap, key) == {p \in KeyPlaces(heap) : heap[p[1]].keys[p[2]] = key}

\* Every key below n of a node was written.
Keyed(heap) == PlacesOf(heap, UNINIT) = {}

LEMMA InPlacesOf ==
  ASSUME NEW heap, NEW key, NEW v, NEW j
  PROVE  <<v, j>> \in PlacesOf(heap, key)
           <=> v \in DOMAIN heap /\ j \in Slot /\ j < heap[v].n /\ heap[v].keys[j] = key
BY DEF PlacesOf, KeyPlaces

LEMMA KeyedIs ==
  ASSUME NEW heap, Good(heap), Keyed(heap), NEW x \in DOMAIN heap, NEW j \in 0 .. heap[x].n - 1
  PROVE  heap[x].keys[j] \in Key
<1>1. heap[x].n \in 0 .. FULL /\ heap[x].keys \in Words
  BY GoodNodeIs DEF Good
<1>2. j \in Slot /\ j < heap[x].n
  BY <1>1, Degree DEF Slot
<1>3. <<x, j>> \notin PlacesOf(heap, UNINIT)
  BY DEF Keyed
<1>4. heap[x].keys[j] # UNINIT
  BY <1>2, <1>3, InPlacesOf
<1>5. heap[x].keys[j] \in Key \cup {UNINIT}
  BY <1>1, <1>2 DEF Words
<1> QED
  BY <1>4, <1>5

LEMMA PairOf ==
  ASSUME NEW heap, NEW key, NEW p \in PlacesOf(heap, key)
  PROVE  p = <<p[1], p[2]>> /\ p[2] \in Slot
BY DEF PlacesOf, KeyPlaces

\* Every key in use before a split is in use after it where KeyTo says.
LEMMA KeyGoes ==
  ASSUME NEW heap, Good(heap), NEW x, NEW i, NEW y, NEW z, NEW new,
         IsSplit(heap, x, i, y, z, new),
         heap[y].n = FULL, heap[x].n < FULL, i \in 0 .. heap[x].n,
         NEW key, NEW p \in PlacesOf(heap, key)
  PROVE  /\ KeyTo(x, i, y, z, p) \in PlacesOf(new, key)
         /\ KeyFrom(x, i, y, z, KeyTo(x, i, y, z, p)) = p
<1> PICK v, j : v = p[1] /\ j = p[2]
  OBVIOUS
<1>1. p = <<v, j>> /\ v \in DOMAIN heap /\ j \in Slot /\ j < heap[v].n /\ heap[v].keys[j] = key
  BY PairOf, InPlacesOf
<1>2. /\ j \in Int /\ 0 <= j /\ j < FULL
      /\ heap[x].n \in Int /\ i \in Int /\ 0 <= i /\ i <= heap[x].n /\ heap[x].n < FULL
      /\ v # z /\ y # z /\ x # z /\ y # x
      /\ T \in Int /\ T >= 2 /\ FULL = 2 * T - 1
  <2>1. GoodNode(DOMAIN heap, heap[x])
    BY DEF Good, IsSplit
  <2>2. heap[x].n \in Nat
    BY <2>1, GoodNodeIs
  <2> QED
    BY <1>1, <2>2, Degree DEF IsSplit, Slot
<1>3. CASE v = y /\ j = T - 1
  <2>1. KeyTo(x, i, y, z, p) = <<x, i>>
    BY <1>1, <1>3 DEF KeyTo
  <2>2. i \in Slot /\ i < new[x].n /\ new[x].keys[i] = key /\ x \in DOMAIN new
    BY <1>1, <1>2, <1>3 DEF IsSplit, Slot
  <2> QED
    BY <1>1, <1>3, <2>1, <2>2, InPlacesOf DEF KeyFrom
<1>4. CASE v = y /\ j >= T
  <2>1. KeyTo(x, i, y, z, p) = <<z, j - T>>
    BY <1>1, <1>2, <1>4 DEF KeyTo
  <2>2. j - T \in Slot /\ j - T \in 0 .. T - 2 /\ j - T < T - 1 /\ (j - T) + T = j
    BY <1>2, <1>4 DEF Slot
  <2>3. j - T < new[z].n /\ new[z].keys[j - T] = key /\ z \in DOMAIN new
    BY <1>1, <1>4, <2>2 DEF IsSplit
  <2>4. KeyFrom(x, i, y, z, <<z, j - T>>) = <<y, j>>
    BY <1>2, <2>2 DEF KeyFrom
  <2> QED
    BY <1>1, <1>4, <2>1, <2>2, <2>3, <2>4, InPlacesOf
<1>5. CASE v = y /\ j < T - 1
  <2>1. KeyTo(x, i, y, z, p) = p
    BY <1>1, <1>2, <1>5 DEF KeyTo
  <2>2. j < new[y].n /\ new[y].keys[j] = key /\ y \in DOMAIN new
    BY <1>1, <1>5 DEF IsSplit
  <2>3. KeyFrom(x, i, y, z, p) = p
    BY <1>1, <1>2, <1>5 DEF KeyFrom
  <2> QED
    BY <1>1, <1>5, <2>1, <2>2, <2>3, InPlacesOf
<1>6. CASE v = x /\ j >= i
  <2>1. KeyTo(x, i, y, z, p) = <<x, j + 1>>
    BY <1>1, <1>2, <1>6 DEF KeyTo
  <2>2. j + 1 \in Slot /\ j + 1 > i /\ j + 1 <= heap[x].n /\ j + 1 # i /\ j + 1 - 1 = j
    BY <1>1, <1>2, <1>6 DEF Slot
  <2>3. new[x].keys[j + 1] = key
    <3>1. \A m \in Slot : new[x].keys[m] =
             IF m = i THEN heap[y].keys[T - 1]
             ELSE IF m > i /\ m <= heap[x].n THEN heap[x].keys[m - 1] ELSE heap[x].keys[m]
      BY DEF IsSplit
    <3>2. PICK m \in Slot : m = j + 1
      BY <2>2
    <3>3. m # i /\ m > i /\ m <= heap[x].n /\ m - 1 = j
      BY <1>2, <2>2, <3>2
    <3>4. new[x].keys[m] = heap[x].keys[j]
      BY <3>1, <3>3
    <3> QED
      BY <1>1, <1>6, <3>2, <3>4
  <2>4. j + 1 < new[x].n /\ x \in DOMAIN new
    BY <1>1, <1>2, <1>6 DEF IsSplit
  <2>5. KeyFrom(x, i, y, z, <<x, j + 1>>) = <<x, j>>
    BY <1>2, <2>2 DEF KeyFrom
  <2> QED
    BY <1>1, <1>6, <2>1, <2>2, <2>3, <2>4, <2>5, InPlacesOf
<1>7. CASE v = x /\ j < i
  <2>1. KeyTo(x, i, y, z, p) = p
    BY <1>1, <1>2, <1>7 DEF KeyTo
  <2>2. j # i /\ ~(j > i)
    BY <1>2, <1>7
  <2>3. new[x].keys[j] = key
    BY <1>1, <1>7, <2>2 DEF IsSplit
  <2>4. j < new[x].n /\ x \in DOMAIN new
    BY <1>1, <1>2, <1>7 DEF IsSplit
  <2>5. KeyFrom(x, i, y, z, p) = p
    BY <1>1, <1>2, <1>7, <2>2 DEF KeyFrom
  <2> QED
    BY <1>1, <1>7, <2>1, <2>3, <2>4, <2>5, InPlacesOf
<1>8. CASE v # y /\ v # x
  <2>1. KeyTo(x, i, y, z, p) = p /\ KeyFrom(x, i, y, z, p) = p
    BY <1>1, <1>2, <1>8 DEF KeyTo, KeyFrom
  <2>2. new[v] = heap[v] /\ v \in DOMAIN new
    BY <1>1, <1>8 DEF IsSplit
  <2> QED
    BY <1>1, <2>1, <2>2, InPlacesOf
<1> QED
  <2>1. j = T - 1 \/ j >= T \/ j < T - 1
    BY <1>2
  <2>2. j >= i \/ j < i
    BY <1>2
  <2> QED
    BY <1>3, <1>4, <1>5, <1>6, <1>7, <1>8, <2>1, <2>2

\* And every key in use after it comes from there.
LEMMA KeyComes ==
  ASSUME NEW heap, Good(heap), NEW x, NEW i, NEW y, NEW z, NEW new,
         IsSplit(heap, x, i, y, z, new),
         heap[y].n = FULL, heap[x].n < FULL, i \in 0 .. heap[x].n,
         NEW key, NEW q \in PlacesOf(new, key)
  PROVE  /\ KeyFrom(x, i, y, z, q) \in PlacesOf(heap, key)
         /\ KeyTo(x, i, y, z, KeyFrom(x, i, y, z, q)) = q
<1> PICK v, j : v = q[1] /\ j = q[2]
  OBVIOUS
<1>1. q = <<v, j>> /\ v \in DOMAIN new /\ j \in Slot /\ j < new[v].n /\ new[v].keys[j] = key
  BY PairOf, InPlacesOf
<1>2. /\ j \in Int /\ 0 <= j /\ j < FULL
      /\ heap[x].n \in Int /\ i \in Int /\ 0 <= i /\ i <= heap[x].n /\ heap[x].n < FULL
      /\ v \in DOMAIN heap \cup {z} /\ y # z /\ x # z /\ y # x
      /\ x \in DOMAIN heap /\ y \in DOMAIN heap /\ z \notin DOMAIN heap
      /\ T \in Int /\ T >= 2 /\ FULL = 2 * T - 1
  <2>1. GoodNode(DOMAIN heap, heap[x])
    BY DEF Good, IsSplit
  <2>2. heap[x].n \in Nat
    BY <2>1, GoodNodeIs
  <2> QED
    BY <1>1, <2>2, Degree DEF IsSplit, Slot
<1>3. CASE v = x /\ j = i
  <2>1. KeyFrom(x, i, y, z, q) = <<y, T - 1>>
    BY <1>1, <1>3 DEF KeyFrom
  <2>2. T - 1 \in Slot /\ T - 1 < heap[y].n
    BY <1>2 DEF Slot
  <2>3. heap[y].keys[T - 1] = key
    BY <1>1, <1>3 DEF IsSplit
  <2>4. KeyTo(x, i, y, z, <<y, T - 1>>) = <<x, i>>
    BY DEF KeyTo
  <2> QED
    BY <1>1, <1>2, <1>3, <2>1, <2>2, <2>3, <2>4, InPlacesOf
<1>4. CASE v = z
  <2>1. KeyFrom(x, i, y, z, q) = <<y, j + T>>
    BY <1>1, <1>2, <1>4 DEF KeyFrom
  <2>2. j < T - 1
    BY <1>1, <1>4 DEF IsSplit
  <2>3. j \in 0 .. T - 2 /\ j + T \in Slot /\ j + T < FULL /\ j + T # T - 1 /\ j + T >= T /\ j + T - T = j
    BY <1>2, <2>2 DEF Slot
  <2>4. heap[y].keys[j + T] = key
    BY <1>1, <1>4, <2>3 DEF IsSplit
  <2>5. KeyTo(x, i, y, z, <<y, j + T>>) = <<z, j>>
    <3>1. \A m : m # T - 1 /\ m >= T => KeyTo(x, i, y, z, <<y, m>>) = <<z, m - T>>
      BY DEF KeyTo
    <3>2. PICK m : m = j + T
      OBVIOUS
    <3>3. m # T - 1 /\ m >= T /\ m - T = j
      BY <1>2, <2>2, <3>2
    <3>4. KeyTo(x, i, y, z, <<y, m>>) = <<z, m - T>>
      BY <3>1, <3>3
    <3> QED
      BY <3>2, <3>3, <3>4
  <2> QED
    BY <1>1, <1>2, <1>4, <2>1, <2>3, <2>4, <2>5, InPlacesOf
<1>5. CASE v = x /\ j > i
  <2>1. KeyFrom(x, i, y, z, q) = <<x, j - 1>>
    BY <1>1, <1>2, <1>5 DEF KeyFrom
  <2>2. j < heap[x].n + 1
    BY <1>1, <1>5 DEF IsSplit
  <2>3. j - 1 \in Slot /\ j - 1 >= i /\ j <= heap[x].n /\ j - 1 < heap[x].n /\ j # i /\ j - 1 + 1 = j
    BY <1>2, <1>5, <2>2 DEF Slot
  <2>4. heap[x].keys[j - 1] = key
    <3>1. \A m \in Slot : new[x].keys[m] =
             IF m = i THEN heap[y].keys[T - 1]
             ELSE IF m > i /\ m <= heap[x].n THEN heap[x].keys[m - 1] ELSE heap[x].keys[m]
      BY DEF IsSplit
    <3> QED
      BY <1>1, <1>5, <2>3, <3>1
  <2>5. KeyTo(x, i, y, z, <<x, j - 1>>) = <<x, j>>
    BY <1>2, <2>3 DEF KeyTo
  <2> QED
    BY <1>1, <1>2, <1>5, <2>1, <2>3, <2>4, <2>5, InPlacesOf
<1>6. CASE v = x /\ j < i
  <2>1. KeyFrom(x, i, y, z, q) = q /\ KeyTo(x, i, y, z, q) = q
    BY <1>1, <1>2, <1>6 DEF KeyFrom, KeyTo
  <2>2. j # i /\ ~(j > i) /\ j < heap[x].n
    BY <1>2, <1>6
  <2>3. heap[x].keys[j] = key
    BY <1>1, <1>6, <2>2 DEF IsSplit
  <2> QED
    BY <1>1, <1>2, <1>6, <2>1, <2>2, <2>3, InPlacesOf
<1>7. CASE v = y
  <2>1. j < T - 1 /\ heap[y].keys[j] = key
    BY <1>1, <1>7 DEF IsSplit
  <2>2. j < FULL /\ j # T - 1 /\ ~(j >= T)
    BY <1>2, <2>1
  <2>3. KeyFrom(x, i, y, z, q) = q /\ KeyTo(x, i, y, z, q) = q
    BY <1>1, <1>2, <1>7, <2>2 DEF KeyFrom, KeyTo
  <2> QED
    BY <1>1, <1>2, <1>7, <2>1, <2>2, <2>3, InPlacesOf
<1>8. CASE v # x /\ v # y /\ v # z
  <2>1. KeyFrom(x, i, y, z, q) = q /\ KeyTo(x, i, y, z, q) = q
    BY <1>1, <1>2, <1>8 DEF KeyFrom, KeyTo
  <2>2. v \in DOMAIN heap /\ new[v] = heap[v]
    BY <1>2, <1>8 DEF IsSplit
  <2> QED
    BY <1>1, <2>1, <2>2, InPlacesOf
<1> QED
  <2>1. j = i \/ j > i \/ j < i
    BY <1>2
  <2> QED
    BY <1>3, <1>4, <1>5, <1>6, <1>7, <1>8, <2>1

\* A split neither drops nor doubles a key.
LEMMA SplitKeepsKeys ==
  ASSUME NEW heap, NEW x, NEW i, NEW z, CanSplit(heap, x, i, z),
         NEW key, IsFiniteSet(PlacesOf(heap, key))
  PROVE  LET new == SplitChild(heap, x, i, z)
         IN  /\ IsFiniteSet(PlacesOf(new, key))
             /\ Cardinality(PlacesOf(new, key)) = Cardinality(PlacesOf(heap, key))
<1> DEFINE y == heap[x].C[i]
           new == SplitChild(heap, x, i, z)
           S == PlacesOf(heap, key)
           R == PlacesOf(new, key)
           f == [p \in S |-> KeyTo(x, i, y, z, p)]
           g == [q \in R |-> KeyFrom(x, i, y, z, q)]
<1>1. IsSplit(heap, x, i, y, z, new) /\ Good(heap)
  BY SplitWords DEF CanSplit
<1>2. heap[y].n = FULL /\ heap[x].n < FULL /\ i \in 0 .. heap[x].n
  <2>1. heap[x].n \in 0 .. FULL /\ heap[x].n # FULL
    BY GoodNodeIs DEF CanSplit, Good, IsFull
  <2> QED
    BY <2>1, Degree DEF CanSplit, IsFull
<1> HIDE DEF y, new
<1>3. \A p \in S : KeyTo(x, i, y, z, p) \in R /\ KeyFrom(x, i, y, z, KeyTo(x, i, y, z, p)) = p
  BY <1>1, <1>2, KeyGoes
<1>4. \A q \in R : KeyFrom(x, i, y, z, q) \in S /\ KeyTo(x, i, y, z, KeyFrom(x, i, y, z, q)) = q
  BY <1>1, <1>2, KeyComes
<1> HIDE DEF S, R
<1>5. /\ f \in [S -> R] /\ g \in [R -> S]
      /\ \A p \in S : g[f[p]] = p
      /\ \A q \in R : f[g[q]] = q
  BY <1>3, <1>4
<1>6. IsFiniteSet(S)
  BY DEF S
<1> HIDE DEF f, g
<1>7. IsFiniteSet(R) /\ Cardinality(R) = Cardinality(S)
  BY <1>5, <1>6, Inverses
<1> QED
  BY <1>7 DEF S, R, new

LEMMA SplitKeepsKeyed ==
  ASSUME NEW heap, NEW x, NEW i, NEW z, CanSplit(heap, x, i, z), Keyed(heap)
  PROVE  Keyed(SplitChild(heap, x, i, z))
<1> DEFINE new == SplitChild(heap, x, i, z)
<1>1. IsFiniteSet(PlacesOf(heap, UNINIT)) /\ Cardinality(PlacesOf(heap, UNINIT)) = 0
  BY FS_EmptySet DEF Keyed
<1>2. IsFiniteSet(PlacesOf(new, UNINIT)) /\ Cardinality(PlacesOf(new, UNINIT)) = 0
  BY <1>1, SplitKeepsKeys
<1> HIDE DEF new
<1>3. PlacesOf(new, UNINIT) = {}
  BY <1>2, FS_EmptySet
<1> QED
  BY <1>3 DEF Keyed, new

-----------------------------------------------------------------------------
\* The same of the pointers to one node: the upper children of y go to z, those
\* behind place i of x one place up.
LinkTo(x, i, y, z, p) ==
  IF p[1] = y /\ p[2] >= T THEN <<z, p[2] - T>>
  ELSE IF p[1] = x /\ p[2] > i THEN <<x, p[2] + 1>>
  ELSE p

LinkFrom(x, i, y, z, q) ==
  IF q[1] = z THEN <<y, q[2] + T>>
  ELSE IF q[1] = x /\ q[2] > i + 1 THEN <<x, q[2] - 1>>
  ELSE q

LinksTo(heap, w) == {p \in LinkPlaces(heap) : heap[p[1]].C[p[2]] = w}

LEMMA InLinksTo ==
  ASSUME NEW heap, NEW w, NEW v, NEW j
  PROVE  <<v, j>> \in LinksTo(heap, w)
           <=> /\ v \in DOMAIN heap /\ j \in Link
               /\ ~heap[v].leaf /\ j <= heap[v].n /\ heap[v].C[j] = w
BY DEF LinksTo, LinkPlaces, Link

LEMMA LinkPair ==
  ASSUME NEW heap, NEW w, NEW p \in LinksTo(heap, w)
  PROVE  p = <<p[1], p[2]>> /\ p[2] \in Link
BY DEF LinksTo, LinkPlaces, Link

LEMMA LinkGoes ==
  ASSUME NEW heap, Good(heap), NEW x, NEW i, NEW y, NEW z, NEW new,
         IsSplit(heap, x, i, y, z, new),
         heap[y].n = FULL, heap[x].n < FULL, i \in 0 .. heap[x].n,
         NEW w, w # z, NEW p \in LinksTo(heap, w)
  PROVE  /\ LinkTo(x, i, y, z, p) \in LinksTo(new, w)
         /\ LinkFrom(x, i, y, z, LinkTo(x, i, y, z, p)) = p
<1> PICK v, j : v = p[1] /\ j = p[2]
  OBVIOUS
<1>1. p = <<v, j>> /\ v \in DOMAIN heap /\ j \in Link /\ ~heap[v].leaf /\ j <= heap[v].n /\ heap[v].C[j] = w
  BY LinkPair, InLinksTo
<1>2. /\ j \in Int /\ 0 <= j /\ j <= FULL
      /\ heap[x].n \in Int /\ i \in Int /\ 0 <= i /\ i <= heap[x].n /\ heap[x].n < FULL
      /\ v # z /\ y # z /\ x # z /\ y # x
      /\ T \in Int /\ T >= 2 /\ FULL = 2 * T - 1
  <2>1. GoodNode(DOMAIN heap, heap[x])
    BY DEF Good, IsSplit
  <2>2. heap[x].n \in Nat
    BY <2>1, GoodNodeIs
  <2> QED
    BY <1>1, <2>2, Degree DEF IsSplit, Link
<1>3. CASE v = y /\ j >= T
  <2>1. LinkTo(x, i, y, z, p) = <<z, j - T>>
    BY <1>1, <1>3 DEF LinkTo
  <2>2. j - T \in Link /\ j - T \in 0 .. T - 1 /\ j - T <= T - 1 /\ (j - T) + T = j
    BY <1>2, <1>3 DEF Link
  <2>3. j - T <= new[z].n /\ ~new[z].leaf /\ new[z].C[j - T] = w /\ z \in DOMAIN new
    BY <1>1, <1>3, <2>2 DEF IsSplit
  <2>4. LinkFrom(x, i, y, z, <<z, j - T>>) = <<y, j>>
    BY <2>2 DEF LinkFrom
  <2> QED
    BY <1>1, <1>3, <2>1, <2>2, <2>3, <2>4, InLinksTo
<1>4. CASE v = y /\ j < T
  <2>1. LinkTo(x, i, y, z, p) = p /\ LinkFrom(x, i, y, z, p) = p
    BY <1>1, <1>2, <1>4 DEF LinkTo, LinkFrom
  <2>2. j <= new[y].n /\ new[y].C[j] = w /\ ~new[y].leaf /\ y \in DOMAIN new
    BY <1>1, <1>2, <1>4 DEF IsSplit
  <2> QED
    BY <1>1, <1>4, <2>1, <2>2, InLinksTo
<1>5. CASE v = x /\ j > i
  <2>1. LinkTo(x, i, y, z, p) = <<x, j + 1>>
    BY <1>1, <1>2, <1>5 DEF LinkTo
  <2>2. PICK m : m = j + 1
    OBVIOUS
  <2>3. m \in Link /\ m > i + 1 /\ m <= heap[x].n + 1 /\ m # i + 1 /\ m - 1 = j
    BY <1>1, <1>2, <1>5, <2>2 DEF Link
  <2>4. new[x].C[m] = w
    <3>1. \A l \in Link : new[x].C[l] =
             IF l = i + 1 THEN z
             ELSE IF l > i + 1 /\ l <= heap[x].n + 1 THEN heap[x].C[l - 1] ELSE heap[x].C[l]
      BY DEF IsSplit
    <3> QED
      BY <1>1, <1>5, <2>3, <3>1
  <2>5. m <= new[x].n /\ ~new[x].leaf /\ x \in DOMAIN new
    BY <2>3 DEF IsSplit
  <2>6. LinkFrom(x, i, y, z, <<x, m>>) = <<x, j>>
    BY <1>2, <2>3 DEF LinkFrom
  <2> QED
    BY <1>1, <1>5, <2>1, <2>2, <2>3, <2>4, <2>5, <2>6, InLinksTo
<1>6. CASE v = x /\ j <= i
  <2>1. LinkTo(x, i, y, z, p) = p /\ LinkFrom(x, i, y, z, p) = p
    BY <1>1, <1>2, <1>6 DEF LinkTo, LinkFrom
  <2>2. j # i + 1 /\ ~(j > i + 1) /\ j <= heap[x].n + 1
    BY <1>2, <1>6
  <2>3. new[x].C[j] = w
    BY <1>1, <1>6, <2>2 DEF IsSplit
  <2>4. j <= new[x].n /\ ~new[x].leaf /\ x \in DOMAIN new
    BY <2>2 DEF IsSplit
  <2> QED
    BY <1>1, <1>6, <2>1, <2>3, <2>4, InLinksTo
<1>7. CASE v # y /\ v # x
  <2>1. LinkTo(x, i, y, z, p) = p /\ LinkFrom(x, i, y, z, p) = p
    BY <1>1, <1>2, <1>7 DEF LinkTo, LinkFrom
  <2>2. new[v] = heap[v] /\ v \in DOMAIN new
    BY <1>1, <1>7 DEF IsSplit
  <2> QED
    BY <1>1, <2>1, <2>2, InLinksTo
<1> QED
  <2>1. (j >= T \/ j < T) /\ (j > i \/ j <= i)
    BY <1>2
  <2> QED
    BY <1>3, <1>4, <1>5, <1>6, <1>7, <2>1

LEMMA LinkComes ==
  ASSUME NEW heap, Good(heap), NEW x, NEW i, NEW y, NEW z, NEW new,
         IsSplit(heap, x, i, y, z, new), ~heap[x].leaf,
         heap[y].n = FULL, heap[x].n < FULL, i \in 0 .. heap[x].n,
         NEW w, NEW q \in LinksTo(new, w), q # <<x, i + 1>>
  PROVE  /\ LinkFrom(x, i, y, z, q) \in LinksTo(heap, w)
         /\ LinkTo(x, i, y, z, LinkFrom(x, i, y, z, q)) = q
<1> PICK v, j : v = q[1] /\ j = q[2]
  OBVIOUS
<1>1. q = <<v, j>> /\ v \in DOMAIN new /\ j \in Link /\ ~new[v].leaf /\ j <= new[v].n /\ new[v].C[j] = w
  BY LinkPair, InLinksTo
<1>2. /\ j \in Int /\ 0 <= j /\ j <= FULL
      /\ heap[x].n \in Int /\ i \in Int /\ 0 <= i /\ i <= heap[x].n /\ heap[x].n < FULL
      /\ v \in DOMAIN heap \cup {z} /\ y # z /\ x # z /\ y # x
      /\ x \in DOMAIN heap /\ y \in DOMAIN heap /\ z \notin DOMAIN heap
      /\ T \in Int /\ T >= 2 /\ FULL = 2 * T - 1
  <2>1. GoodNode(DOMAIN heap, heap[x])
    BY DEF Good, IsSplit
  <2>2. heap[x].n \in Nat
    BY <2>1, GoodNodeIs
  <2> QED
    BY <1>1, <2>2, Degree DEF IsSplit, Link
<1>3. CASE v = z
  <2>1. LinkFrom(x, i, y, z, q) = <<y, j + T>>
    BY <1>1, <1>3 DEF LinkFrom
  <2>2. j <= T - 1 /\ ~heap[y].leaf
    BY <1>1, <1>3 DEF IsSplit
  <2>3. j \in 0 .. T - 1 /\ j + T \in Link /\ j + T <= FULL
    BY <1>2, <2>2 DEF Link
  <2>4. heap[y].C[j + T] = w
    BY <1>1, <1>3, <2>2, <2>3 DEF IsSplit
  <2>5. LinkTo(x, i, y, z, <<y, j + T>>) = <<z, j>>
    <3>1. \A m : m >= T => LinkTo(x, i, y, z, <<y, m>>) = <<z, m - T>>
      BY DEF LinkTo
    <3>2. PICK m : m = j + T
      OBVIOUS
    <3>3. m >= T /\ m - T = j
      BY <1>2, <3>2
    <3>4. LinkTo(x, i, y, z, <<y, m>>) = <<z, m - T>>
      BY <3>1, <3>3
    <3> QED
      BY <3>2, <3>3, <3>4
  <2> QED
    BY <1>1, <1>2, <1>3, <2>1, <2>2, <2>3, <2>4, <2>5, InLinksTo
<1>4. CASE v = x /\ j > i + 1
  <2>1. LinkFrom(x, i, y, z, q) = <<x, j - 1>>
    BY <1>1, <1>2, <1>4 DEF LinkFrom
  <2>2. j <= heap[x].n + 1
    BY <1>1, <1>4 DEF IsSplit
  <2>3. j - 1 \in Link /\ j - 1 > i /\ j - 1 <= heap[x].n /\ j # i + 1 /\ j - 1 + 1 = j
    BY <1>2, <1>4, <2>2 DEF Link
  <2>4. heap[x].C[j - 1] = w
    <3>1. \A l \in Link : new[x].C[l] =
             IF l = i + 1 THEN z
             ELSE IF l > i + 1 /\ l <= heap[x].n + 1 THEN heap[x].C[l - 1] ELSE heap[x].C[l]
      BY DEF IsSplit
    <3> QED
      BY <1>1, <1>4, <2>2, <2>3, <3>1
  <2>5. LinkTo(x, i, y, z, <<x, j - 1>>) = <<x, j>>
    BY <1>2, <2>3 DEF LinkTo
  <2> QED
    BY <1>1, <1>2, <1>4, <2>1, <2>3, <2>4, <2>5, InLinksTo
<1>5. CASE v = x /\ j = i + 1
  BY <1>1, <1>5
<1>6. CASE v = x /\ j <= i
  <2>1. LinkFrom(x, i, y, z, q) = q /\ LinkTo(x, i, y, z, q) = q
    BY <1>1, <1>2, <1>6 DEF LinkFrom, LinkTo
  <2>2. j # i + 1 /\ ~(j > i + 1) /\ j <= heap[x].n
    BY <1>2, <1>6
  <2>3. heap[x].C[j] = w
    BY <1>1, <1>6, <2>2 DEF IsSplit
  <2> QED
    BY <1>1, <1>2, <1>6, <2>1, <2>2, <2>3, InLinksTo
<1>7. CASE v = y
  <2>1. j <= T - 1 /\ heap[y].C[j] = w /\ ~heap[y].leaf
    BY <1>1, <1>7 DEF IsSplit
  <2>2. j <= FULL /\ ~(j >= T)
    BY <1>2, <2>1
  <2>3. LinkFrom(x, i, y, z, q) = q /\ LinkTo(x, i, y, z, q) = q
    BY <1>1, <1>2, <1>7, <2>2 DEF LinkFrom, LinkTo
  <2> QED
    BY <1>1, <1>2, <1>7, <2>1, <2>2, <2>3, InLinksTo
<1>8. CASE v # x /\ v # y /\ v # z
  <2>1. LinkFrom(x, i, y, z, q) = q /\ LinkTo(x, i, y, z, q) = q
    BY <1>1, <1>2, <1>8 DEF LinkFrom, LinkTo
  <2>2. v \in DOMAIN heap /\ new[v] = heap[v]
    BY <1>2, <1>8 DEF IsSplit
  <2> QED
    BY <1>1, <2>1, <2>2, InLinksTo
<1> QED
  <2>1. j = i + 1 \/ j > i + 1 \/ j <= i
    BY <1>2
  <2> QED
    BY <1>3, <1>4, <1>5, <1>6, <1>7, <1>8, <2>1

\* A node that is the child of so many places is so after a split; the new node
\* is the child of one.
LEMMA SplitKeepsLinks ==
  ASSUME NEW heap, NEW x, NEW i, NEW z, CanSplit(heap, x, i, z), NEW w
  PROVE  LET new == SplitChild(heap, x, i, z)
         IN  IF w = z
             THEN LinksTo(new, w) = {<<x, i + 1>>}
             ELSE IsFiniteSet(LinksTo(heap, w)) =>
                    /\ IsFiniteSet(LinksTo(new, w))
                    /\ Cardinality(LinksTo(new, w)) = Cardinality(LinksTo(heap, w))
<1> DEFINE y == heap[x].C[i]
           new == SplitChild(heap, x, i, z)
           S == LinksTo(heap, w)
           R == LinksTo(new, w)
           f == [p \in S |-> LinkTo(x, i, y, z, p)]
           g == [q \in R |-> LinkFrom(x, i, y, z, q)]
<1>1. IsSplit(heap, x, i, y, z, new) /\ Good(heap) /\ ~heap[x].leaf
  BY SplitWords DEF CanSplit
<1>2. heap[y].n = FULL /\ heap[x].n < FULL /\ i \in 0 .. heap[x].n
  <2>1. heap[x].n \in 0 .. FULL /\ heap[x].n # FULL
    BY GoodNodeIs DEF CanSplit, Good, IsFull
  <2> QED
    BY <2>1, Degree DEF CanSplit, IsFull
<1>3. i + 1 \in Link /\ i + 1 <= heap[x].n + 1
  <2>1. heap[x].n \in Nat
    BY GoodNodeIs DEF CanSplit, Good
  <2> QED
    BY <1>2, <2>1, Degree DEF Link
<1> HIDE DEF y, new
<1>4. new[x].C[i + 1] = z /\ new[x].n = heap[x].n + 1 /\ ~new[x].leaf /\ x \in DOMAIN new
  BY <1>1, <1>3 DEF IsSplit
<1>5. \A q \in R : q # <<x, i + 1>> =>
        LinkFrom(x, i, y, z, q) \in S /\ LinkTo(x, i, y, z, LinkFrom(x, i, y, z, q)) = q
  BY <1>1, <1>2, LinkComes
<1>6. CASE w = z
  <2>1. \A v \in DOMAIN heap : \A j \in Link :
          ~heap[v].leaf /\ j <= heap[v].n => heap[v].C[j] # z
    <3> SUFFICES ASSUME NEW v \in DOMAIN heap, NEW j \in Link, ~heap[v].leaf, j <= heap[v].n
                 PROVE  heap[v].C[j] # z
      OBVIOUS
    <3>1. GoodNode(DOMAIN heap, heap[v])
      BY <1>1 DEF Good
    <3>2. j \in 0 .. heap[v].n
      BY <3>1, GoodNodeIs DEF Link
    <3>3. heap[v].C[j] \in DOMAIN heap
      BY <3>1, <3>2 DEF GoodNode
    <3> QED
      BY <1>1, <3>3 DEF IsSplit
  <2>2. S = {}
    BY <1>6, <2>1 DEF LinksTo, LinkPlaces, Link
  <2>3. \A q \in R : q = <<x, i + 1>>
    BY <1>5, <2>2
  <2>4. <<x, i + 1>> \in R
    BY <1>3, <1>4, <1>6, InLinksTo
  <2> HIDE DEF R
  <2>5. R = {<<x, i + 1>>}
    BY <2>3, <2>4
  <2> QED
    BY <1>6, <2>5 DEF R, new
<1>7. CASE w # z
  <2>1. <<x, i + 1>> \notin R
    BY <1>4, <1>7, InLinksTo
  <2>2. \A p \in S : LinkTo(x, i, y, z, p) \in R /\ LinkFrom(x, i, y, z, LinkTo(x, i, y, z, p)) = p
    BY <1>1, <1>2, <1>7, LinkGoes
  <2>3. \A q \in R : LinkFrom(x, i, y, z, q) \in S /\ LinkTo(x, i, y, z, LinkFrom(x, i, y, z, q)) = q
    BY <1>5, <2>1
  <2> HIDE DEF S, R
  <2>4. /\ f \in [S -> R] /\ g \in [R -> S]
        /\ \A p \in S : g[f[p]] = p
        /\ \A q \in R : f[g[q]] = q
    BY <2>2, <2>3
  <2> HIDE DEF f, g
  <2>5. IsFiniteSet(S) => IsFiniteSet(R) /\ Cardinality(R) = Cardinality(S)
    BY <2>4, Inverses
  <2> QED
    BY <1>7, <2>5 DEF S, R, new
<1> QED
  BY <1>6, <1>7

-----------------------------------------------------------------------------
\* A leaf with one more key.
LEMMA WithKeyIs ==
  ASSUME NEW nodes, NEW r, GoodNode(nodes, r), r.n < FULL, r.leaf, NEW key \in Key
  PROVE  LET at == LastNotGreater(r, key) + 1
             x  == WithKey(r, key)
         IN  /\ at \in 0 .. r.n
             /\ GoodNode(nodes, x)
             /\ x.n = r.n + 1 /\ x.leaf
             /\ x.keys = Put(r.keys, r.n, at, key) /\ x.C = r.C
             /\ \A j \in Slot : x.keys[j] =
                  IF j = at THEN key ELSE IF j > at /\ j <= r.n THEN r.keys[j - 1] ELSE r.keys[j]
<1> DEFINE at == LastNotGreater(r, key) + 1
           keys == Put(r.keys, r.n, at, key)
<1>1. r.n \in Nat /\ r.n \in 0 .. FULL /\ r.n + 1 \in 0 .. FULL
  BY GoodNodeIs, Degree
<1>2. at \in 0 .. r.n
  <2>1. LastNotGreater(r, key) \in -1 .. r.n - 1
    BY <1>1, PlaceIs
  <2> QED
    BY <1>1, <2>1
<1>3. WithKey(r, key) = [r EXCEPT !.keys = keys, !.n = r.n + 1]
  BY DEF WithKey
<1> HIDE DEF at
<1>4. /\ DOMAIN keys = Slot
      /\ \A j \in Slot : keys[j] =
           IF j = at THEN key ELSE IF j > at /\ j <= r.n THEN r.keys[j - 1] ELSE r.keys[j]
  BY GoodNodeIs, PutIs
<1>5. at \in Nat /\ at <= r.n
  BY <1>1, <1>2
<1>6. keys \in Words
  <2>1. \A j \in Slot : j > at => j - 1 \in Slot
    BY Degree, <1>5 DEF Slot
  <2>2. \A j \in Slot : r.keys[j] \in Key \cup {UNINIT}
    BY GoodNodeIs DEF Words
  <2>3. \A j \in Slot : keys[j] \in Key \cup {UNINIT}
    BY <1>4, <2>1, <2>2
  <2>4. keys = [j \in Slot |-> keys[j]]
    BY <1>4 DEF Put
  <2> HIDE DEF keys
  <2> QED
    BY <2>3, <2>4 DEF Words
<1> HIDE DEF keys
<1>7. /\ WithKey(r, key) \in Record(nodes)
      /\ WithKey(r, key).n = r.n + 1 /\ WithKey(r, key).leaf
      /\ WithKey(r, key).keys = keys /\ WithKey(r, key).C = r.C
  <2>1. r \in Record(nodes)
    BY DEF GoodNode
  <2> QED
    BY <1>1, <1>3, <1>6, <2>1 DEF Record
<1>9. GoodNode(nodes, WithKey(r, key))
  BY <1>7 DEF GoodNode
<1> QED
  BY <1>2, <1>4, <1>7, <1>9 DEF at, keys

\* A place at of v gets a key, and the keys behind it move up.
IsInsert(heap, v, at, key, new) ==
  /\ v \in DOMAIN heap /\ DOMAIN new = DOMAIN heap
  /\ \A x \in DOMAIN heap \ {v} : new[x] = heap[x]
  /\ at \in 0 .. heap[v].n
  /\ new[v].n = heap[v].n + 1
  /\ \A j \in Slot : new[v].keys[j] =
       IF j = at THEN key ELSE IF j > at /\ j <= heap[v].n THEN heap[v].keys[j - 1] ELSE heap[v].keys[j]

\* That adds one place for the key and keeps one for each other.
LEMMA InsertAddsKey ==
  ASSUME NEW heap, NEW v, NEW at, NEW key, NEW new, IsInsert(heap, v, at, key, new),
         heap[v].n \in Nat, heap[v].n < FULL,
         NEW other, IsFiniteSet(PlacesOf(heap, other))
  PROVE  /\ IsFiniteSet(PlacesOf(new, other))
         /\ Cardinality(PlacesOf(new, other))
              = Cardinality(PlacesOf(heap, other)) + (IF other = key THEN 1 ELSE 0)
<1>1. /\ v \in DOMAIN heap /\ DOMAIN new = DOMAIN heap
      /\ \A x \in DOMAIN heap \ {v} : new[x] = heap[x]
  BY DEF IsInsert
<1>2. /\ at \in 0 .. heap[v].n
      /\ new[v].n = heap[v].n + 1
      /\ \A j \in Slot : new[v].keys[j] =
           IF j = at THEN key
           ELSE IF j > at /\ j <= heap[v].n THEN heap[v].keys[j - 1] ELSE heap[v].keys[j]
  BY DEF IsInsert
<1> DEFINE S == PlacesOf(heap, other)
           R == PlacesOf(new, other) \ {<<v, at>>}
           to(p)   == IF p[1] = v /\ p[2] >= at THEN <<v, p[2] + 1>> ELSE p
           from(q) == IF q[1] = v /\ q[2] > at THEN <<v, q[2] - 1>> ELSE q
           f == [p \in S |-> to(p)]
           g == [q \in R |-> from(q)]
<1>3. /\ heap[v].n \in Int /\ heap[v].n < FULL
      /\ at \in Int /\ 0 <= at /\ at <= heap[v].n /\ at \in Slot /\ at < new[v].n
      /\ FULL \in Int
  BY <1>2, Degree DEF Slot
<1>4. ASSUME NEW p \in S PROVE to(p) \in R /\ from(to(p)) = p
  <2> PICK x, j : x = p[1] /\ j = p[2]
    OBVIOUS
  <2>1. p = <<x, j>> /\ x \in DOMAIN heap /\ j \in Slot /\ j < heap[x].n /\ heap[x].keys[j] = other
    BY <1>4, PairOf, InPlacesOf
  <2>2. j \in Int /\ 0 <= j
    BY <2>1, Degree DEF Slot
  <2>3. CASE x # v
    <3>1. to(p) = p /\ from(p) = p /\ p # <<v, at>>
      BY <2>1, <2>3
    <3>2. p \in PlacesOf(new, other)
      BY <1>1, <2>1, <2>3, InPlacesOf
    <3> QED
      BY <3>1, <3>2
  <2>4. CASE x = v /\ j < at
    <3>1. to(p) = p /\ from(p) = p /\ j # at /\ ~(j > at)
      BY <1>3, <2>1, <2>2, <2>4
    <3>2. new[v].keys[j] = other /\ j < new[v].n
      BY <1>2, <1>3, <2>1, <2>2, <2>4, <3>1
    <3>3. p \in PlacesOf(new, other) /\ p # <<v, at>>
      BY <1>1, <2>1, <2>4, <3>1, <3>2, InPlacesOf
    <3> QED
      BY <3>1, <3>3
  <2>5. CASE x = v /\ j >= at
    <3>1. to(p) = <<v, j + 1>>
      BY <2>1, <2>5
    <3>2. PICK m : m = j + 1
      OBVIOUS
    <3>3. m \in Slot /\ m > at /\ m # at /\ m <= heap[v].n /\ m < new[v].n /\ m - 1 = j
      BY <1>2, <1>3, <2>1, <2>2, <2>5, <3>2 DEF Slot
    <3>4. new[v].keys[m] = other
      BY <1>2, <2>1, <2>5, <3>3
    <3>5. <<v, m>> \in PlacesOf(new, other) /\ <<v, m>> # <<v, at>>
      BY <1>1, <3>3, <3>4, InPlacesOf
    <3>6. from(<<v, m>>) = <<v, j>>
      BY <3>3
    <3> QED
      BY <2>1, <2>5, <3>1, <3>2, <3>5, <3>6
  <2> QED
    BY <1>3, <2>2, <2>3, <2>4, <2>5
<1>5. ASSUME NEW q \in R PROVE from(q) \in S /\ to(from(q)) = q
  <2> PICK x, j : x = q[1] /\ j = q[2]
    OBVIOUS
  <2>1. /\ q = <<x, j>> /\ x \in DOMAIN heap /\ j \in Slot /\ j < new[x].n
        /\ new[x].keys[j] = other /\ q # <<v, at>>
    BY <1>1, <1>5, PairOf, InPlacesOf
  <2>2. j \in Int /\ 0 <= j
    BY <2>1, Degree DEF Slot
  <2>3. CASE x # v
    <3>1. to(q) = q /\ from(q) = q
      BY <2>1, <2>3
    <3>2. q \in S
      BY <1>1, <2>1, <2>3, InPlacesOf
    <3> QED
      BY <3>1, <3>2
  <2>4. CASE x = v /\ j < at
    <3>1. to(q) = q /\ from(q) = q /\ j # at /\ ~(j > at) /\ j < heap[v].n
      BY <1>3, <2>1, <2>2, <2>4
    <3>2. heap[v].keys[j] = other
      BY <1>2, <2>1, <2>4, <3>1
    <3>3. q \in S
      BY <2>1, <2>4, <3>1, <3>2, InPlacesOf
    <3> QED
      BY <3>1, <3>3
  <2>5. CASE x = v /\ j > at
    <3>1. from(q) = <<v, j - 1>>
      BY <2>1, <2>5
    <3>2. j # at /\ j < heap[v].n + 1
      BY <1>2, <1>3, <2>1, <2>2, <2>5
    <3>3. /\ j <= heap[v].n /\ j - 1 \in Slot /\ j - 1 >= at
          /\ j - 1 < heap[v].n /\ j - 1 + 1 = j
      BY <1>3, <2>1, <2>2, <2>5, <3>2 DEF Slot
    <3>4. heap[v].keys[j - 1] = other
      BY <1>2, <2>1, <2>5, <3>2, <3>3
    <3>5. <<v, j - 1>> \in S
      BY <1>1, <3>3, <3>4, InPlacesOf
    <3>6. to(<<v, j - 1>>) = <<v, j>>
      BY <3>3
    <3> QED
      BY <2>1, <2>5, <3>1, <3>5, <3>6
  <2>6. x = v => j # at
    BY <2>1
  <2> QED
    BY <1>3, <2>2, <2>3, <2>4, <2>5, <2>6
<1> HIDE DEF S, R, to, from
<1>6. /\ f \in [S -> R] /\ g \in [R -> S]
      /\ \A p \in S : g[f[p]] = p
      /\ \A q \in R : f[g[q]] = q
  BY <1>4, <1>5
<1>7. IsFiniteSet(S)
  BY DEF S
<1> HIDE DEF f, g
<1>8. IsFiniteSet(R) /\ Cardinality(R) = Cardinality(S) /\ Cardinality(S) \in Nat
  BY <1>6, <1>7, Inverses, FS_CardinalityType
<1>9. CASE other = key
  <2>1. new[v].keys[at] = key
    BY <1>2, <1>3
  <2>2. <<v, at>> \in PlacesOf(new, other)
    BY <1>1, <1>3, <1>9, <2>1, InPlacesOf
  <2>3. PlacesOf(new, other) = R \cup {<<v, at>>} /\ <<v, at>> \notin R
    BY <2>2 DEF R
  <2>4. IsFiniteSet(R \cup {<<v, at>>}) /\ Cardinality(R \cup {<<v, at>>}) = Cardinality(R) + 1
    BY <1>8, <2>3, FS_AddElement
  <2> QED
    BY <1>8, <1>9, <2>3, <2>4 DEF S
<1>10. CASE other # key
  <2>1. new[v].keys[at] = key
    BY <1>2, <1>3
  <2>2. <<v, at>> \notin PlacesOf(new, other)
    BY <1>10, <2>1, InPlacesOf
  <2>3. PlacesOf(new, other) = R
    BY <2>2 DEF R
  <2> QED
    BY <1>8, <1>10, <2>3 DEF S
<1> QED
  BY <1>9, <1>10

\* What insertNonFull does to a leaf v.
LEMMA InsertKeeps ==
  ASSUME NEW heap, Good(heap), NEW v \in DOMAIN heap, heap[v].leaf, heap[v].n < FULL,
         NEW key \in Key
  PROVE  LET new == [heap EXCEPT ![v] = WithKey(heap[v], key)]
         IN  /\ Good(new) /\ DOMAIN new = DOMAIN heap
             /\ Keyed(heap) => Keyed(new)
             /\ \A x \in DOMAIN heap : new[x].n = IF x = v THEN heap[x].n + 1 ELSE heap[x].n
             /\ \A w : LinksTo(new, w) = LinksTo(heap, w)
             /\ \A other : IsFiniteSet(PlacesOf(heap, other)) =>
                  /\ IsFiniteSet(PlacesOf(new, other))
                  /\ Cardinality(PlacesOf(new, other))
                       = Cardinality(PlacesOf(heap, other)) + (IF other = key THEN 1 ELSE 0)
<1> DEFINE new == [heap EXCEPT ![v] = WithKey(heap[v], key)]
           at  == LastNotGreater(heap[v], key) + 1
<1>1. /\ DOMAIN new = DOMAIN heap /\ new[v] = WithKey(heap[v], key)
      /\ \A x \in DOMAIN heap \ {v} : new[x] = heap[x]
  OBVIOUS
<1> HIDE DEF new
<1>2. GoodNode(DOMAIN heap, heap[v]) /\ heap[v].n \in Nat
  BY GoodNodeIs DEF Good
<1>3. /\ at \in 0 .. heap[v].n
      /\ GoodNode(DOMAIN heap, new[v])
      /\ new[v].n = heap[v].n + 1 /\ new[v].leaf
      /\ \A j \in Slot : new[v].keys[j] =
           IF j = at THEN key
           ELSE IF j > at /\ j <= heap[v].n THEN heap[v].keys[j - 1] ELSE heap[v].keys[j]
  BY <1>1, <1>2, WithKeyIs
<1> HIDE DEF at
<1>4. Good(new)
  BY <1>1, <1>3 DEF Good
<1>5. \A x \in DOMAIN heap : new[x].n = IF x = v THEN heap[x].n + 1 ELSE heap[x].n
  BY <1>1, <1>3
<1>6. LinkPlaces(new) = LinkPlaces(heap)
  BY <1>1, <1>3 DEF LinkPlaces
<1>7. ASSUME NEW w PROVE LinksTo(new, w) = LinksTo(heap, w)
  <2>1. \A p \in LinkPlaces(heap) : p[1] \in DOMAIN heap \ {v}
    BY DEF LinkPlaces
  <2> QED
    BY <1>1, <1>6, <2>1 DEF LinksTo
<1>8. IsInsert(heap, v, at, key, new)
  BY <1>1, <1>3 DEF IsInsert
<1>9. ASSUME NEW other, IsFiniteSet(PlacesOf(heap, other))
      PROVE  /\ IsFiniteSet(PlacesOf(new, other))
             /\ Cardinality(PlacesOf(new, other))
                  = Cardinality(PlacesOf(heap, other)) + (IF other = key THEN 1 ELSE 0)
  BY <1>2, <1>8, <1>9, InsertAddsKey
<1>10. ASSUME Keyed(heap) PROVE Keyed(new)
  <2>1. IsFiniteSet(PlacesOf(heap, UNINIT)) /\ Cardinality(PlacesOf(heap, UNINIT)) = 0
    BY <1>10, FS_EmptySet DEF Keyed
  <2>2. UNINIT # key
    BY TreeAssumption
  <2>3. IsFiniteSet(PlacesOf(new, UNINIT)) /\ Cardinality(PlacesOf(new, UNINIT)) = 0
    BY <1>9, <2>1, <2>2
  <2> QED
    BY <2>3, FS_EmptySet DEF Keyed
<1> QED
  BY <1>1, <1>4, <1>5, <1>7, <1>9, <1>10 DEF new

-----------------------------------------------------------------------------
(***************************************************************************)
(* The invariant: nodes are numbered as they are allocated and good, each  *)
(* but the root of the call under way is the child of one place and filled *)
(* at least half, the node of the call has room, and each key is in use as *)
(* often as it was inserted.                                               *)
(***************************************************************************)
Numbered == Fresh \in Nat \ {0} /\ DOMAIN node = 1 .. Fresh - 1

Pointers ==
  /\ root \in DOMAIN node \cup {NULL} /\ (root = NULL => DOMAIN node = {})
  /\ top \in DOMAIN node \cup {NULL}
  /\ pc \in {"idle", "insertNonFull"}
  /\ pc = "idle" => top = NULL
  /\ pc = "insertNonFull" =>
       /\ root # NULL /\ k \in Key
       /\ this \in DOMAIN node /\ node[this].n < FULL

Counters == built \in 0 .. SIZE /\ done \in 0 .. OPS /\ inserted \in [Key -> Nat]

Linked(heap, t) ==
  \A x \in DOMAIN heap : /\ IsFiniteSet(LinksTo(heap, x))
                         /\ Cardinality(LinksTo(heap, x)) = IF x = t THEN 0 ELSE 1

Filled(heap, t) == \A x \in DOMAIN heap : heap[x].n >= (IF x = t THEN 1 ELSE T - 1)

Holds(heap, key, n) == IsFiniteSet(PlacesOf(heap, key)) /\ Cardinality(PlacesOf(heap, key)) = n

Awaited(key) == IF pc = "insertNonFull" /\ key = k THEN 1 ELSE 0
Kept == \A key \in Key : Holds(node, key, inserted[key] - Awaited(key))

IInv ==
  /\ Numbered /\ Good(node) /\ Keyed(node) /\ Pointers /\ Counters
  /\ Linked(node, Top) /\ Filled(node, Top) /\ Kept

-----------------------------------------------------------------------------
LEMMA NodesAreNumbers ==
  ASSUME Numbered
  PROVE  /\ DOMAIN node \subseteq Nat /\ NULL \notin DOMAIN node
         /\ Fresh \notin DOMAIN node /\ Fresh + 1 \notin DOMAIN node
         /\ Fresh # NULL
BY TreeAssumption DEF Numbered

\* One node more, or two.
LEMMA NumberedMore ==
  ASSUME NEW m \in Nat, DOMAIN node' = 1 .. m
  PROVE  Numbered' /\ Fresh' = m + 1
<1>1. Cardinality(1 .. m) = m
  BY FS_Interval
<1>2. Fresh' = m + 1
  BY <1>1 DEF Fresh
<1> QED
  BY <1>2 DEF Numbered

LEMMA FreshAdded ==
  ASSUME Numbered, DOMAIN node' = DOMAIN node \cup {Fresh}
  PROVE  Numbered'
<1>1. DOMAIN node' = 1 .. Fresh
  BY DEF Numbered
<1> QED
  BY <1>1, NumberedMore DEF Numbered

LEMMA TwoAdded ==
  ASSUME Numbered, DOMAIN node' = DOMAIN node \cup {Fresh, Fresh + 1}
  PROVE  Numbered'
<1>1. DOMAIN node' = 1 .. Fresh + 1
  BY DEF Numbered
<1>2. Fresh + 1 \in Nat
  BY DEF Numbered
<1> QED
  BY <1>1, <1>2, NumberedMore

\* splitChild keeps a tree linked and filled; x was the root or filled, or gets
\* its first key.
LEMMA SplitKeepsTree ==
  ASSUME NEW heap, NEW x, NEW i, NEW z, CanSplit(heap, x, i, z),
         NEW t \in DOMAIN heap, Linked(heap, t),
         \A v \in DOMAIN heap \ {x} : heap[v].n >= (IF v = t THEN 1 ELSE T - 1),
         heap[x].n >= (IF x = t THEN 0 ELSE T - 1)
  PROVE  LET new == SplitChild(heap, x, i, z)
         IN  Linked(new, t) /\ Filled(new, t)
<1> DEFINE y == heap[x].C[i]
           new == SplitChild(heap, x, i, z)
<1>1. IsSplit(heap, x, i, y, z, new)
  BY SplitWords
<1>2. \A w : IF w = z THEN LinksTo(new, w) = {<<x, i + 1>>}
             ELSE IsFiniteSet(LinksTo(heap, w)) =>
                    /\ IsFiniteSet(LinksTo(new, w))
                    /\ Cardinality(LinksTo(new, w)) = Cardinality(LinksTo(heap, w))
  BY SplitKeepsLinks
<1>3. heap[x].n \in Nat /\ \A v \in DOMAIN heap : heap[v].n \in Nat
  BY GoodNodeIs DEF CanSplit, Good
<1> HIDE DEF y, new
<1>4. DOMAIN new = DOMAIN heap \cup {z} /\ z # t
  BY <1>1 DEF IsSplit
<1>5. Linked(new, t)
  <2> SUFFICES ASSUME NEW w \in DOMAIN new
               PROVE  /\ IsFiniteSet(LinksTo(new, w))
                      /\ Cardinality(LinksTo(new, w)) = IF w = t THEN 0 ELSE 1
    BY DEF Linked
  <2>1. CASE w = z
    <3>1. LinksTo(new, w) = {<<x, i + 1>>}
      BY <1>2, <2>1
    <3> QED
      BY <1>4, <2>1, <3>1, FS_Singleton
  <2>2. CASE w # z
    BY <1>2, <1>4, <2>2 DEF Linked
  <2> QED
    BY <2>1, <2>2
<1>6. Filled(new, t)
  <2> SUFFICES ASSUME NEW v \in DOMAIN new PROVE new[v].n >= (IF v = t THEN 1 ELSE T - 1)
    BY DEF Filled
  <2>1. CASE v = y \/ v = z
    <3>1. new[v].n = T - 1
      BY <1>1, <2>1 DEF IsSplit
    <3> QED
      BY <3>1, Degree
  <2>2. CASE v = x
    <3>1. new[v].n = heap[x].n + 1
      BY <1>1, <2>2 DEF IsSplit
    <3> QED
      BY <1>3, <2>2, <3>1, Degree
  <2>3. CASE v # x /\ v # y /\ v # z
    <3>1. v \in DOMAIN heap \ {x} /\ new[v] = heap[v]
      BY <1>1, <2>3 DEF IsSplit
    <3> QED
      BY <3>1
  <2> QED
    BY <2>1, <2>2, <2>3
<1> QED
  BY <1>5, <1>6 DEF new

\* Both halves of a split child have room.
LEMMA HalvesHaveRoom ==
  ASSUME NEW heap, NEW x, NEW i, NEW z, CanSplit(heap, x, i, z), NEW j \in {i, i + 1}
  PROVE  LET new == SplitChild(heap, x, i, z)
             half == new[x].C[j]
         IN  half \in DOMAIN new /\ new[half].n < FULL
<1> DEFINE y == heap[x].C[i]
           new == SplitChild(heap, x, i, z)
<1>1. IsSplit(heap, x, i, y, z, new)
  BY SplitWords
<1>2. heap[x].n \in Nat /\ i \in 0 .. heap[x].n /\ heap[x].n < FULL
  <2>1. heap[x].n \in 0 .. FULL /\ heap[x].n # FULL
    BY GoodNodeIs DEF CanSplit, Good, IsFull
  <2> QED
    BY <2>1, Degree DEF CanSplit
<1>3. i \in Link /\ i + 1 \in Link /\ i # i + 1 /\ ~(i > i + 1)
  BY <1>2, Degree DEF Link
<1>4. y = heap[x].C[i]
  OBVIOUS
<1> HIDE DEF y, new
<1>5. new[x].C[i] = y /\ new[x].C[i + 1] = z
  BY <1>1, <1>3, <1>4 DEF IsSplit
<1>6. \A half \in {y, z} : half \in DOMAIN new /\ new[half].n = T - 1
  BY <1>1 DEF IsSplit
<1>7. new[x].C[j] \in {y, z}
  BY <1>5
<1>8. T - 1 < FULL
  BY Degree
<1> QED
  BY <1>6, <1>7, <1>8 DEF new

\* Side leads to one of them.
LEMMA SideIsOne ==
  ASSUME NEW x, NEW i, NEW key
  PROVE  Side(x, i, key) \in {i, i + 1}
BY DEF Side

-----------------------------------------------------------------------------
LEMMA InitIsGood == Init => IInv
<1> SUFFICES ASSUME Init PROVE IInv
  OBVIOUS
<1>1. DOMAIN node = {} /\ Cardinality(DOMAIN node) = 0
  BY FS_EmptySet DEF Init
<1>2. Numbered
  BY <1>1 DEF Numbered, Fresh
<1>3. Pointers
  BY <1>1 DEF Pointers, Init
<1>4. Counters
  BY TreeAssumption DEF Counters, Init
<1>5. Good(node) /\ Keyed(node) /\ Linked(node, Top) /\ Filled(node, Top)
  BY <1>1 DEF Good, Keyed, PlacesOf, KeyPlaces, Linked, Filled
<1>6. Kept
  <2>1. ASSUME NEW key \in Key PROVE Holds(node, key, inserted[key] - Awaited(key))
    <3>1. PlacesOf(node, key) = {}
      BY <1>1 DEF PlacesOf, KeyPlaces
    <3>2. inserted[key] - Awaited(key) = 0
      BY DEF Init, Awaited
    <3> QED
      BY <3>1, <3>2, FS_EmptySet DEF Holds
  <2> QED
    BY <2>1 DEF Kept
<1> QED
  BY <1>2, <1>3, <1>4, <1>5, <1>6 DEF IInv

\* insertNonFull on a leaf: what InsertKeeps says, and the key is no longer
\* awaited.  The root of the call becomes the root.
LEMMA LeafStep ==
  ASSUME IInv, InsertNonFullLeaf
  PROVE  IInv'
<1>1. /\ this \in DOMAIN node /\ node[this].leaf /\ node[this].n < FULL
      /\ k \in Key /\ pc = "insertNonFull" /\ Good(node) /\ root # NULL
      /\ Counters /\ Pointers
  BY DEF IInv, Pointers, InsertNonFullLeaf
<1>2. node' = [node EXCEPT ![this] = WithKey(node[this], k)]
  BY DEF InsertNonFullLeaf
<1>3. /\ Good(node') /\ Keyed(node') /\ DOMAIN node' = DOMAIN node
      /\ \A x \in DOMAIN node : node'[x].n = IF x = this THEN node[x].n + 1 ELSE node[x].n
      /\ \A w : LinksTo(node', w) = LinksTo(node, w)
      /\ \A other : IsFiniteSet(PlacesOf(node, other)) =>
           /\ IsFiniteSet(PlacesOf(node', other))
           /\ Cardinality(PlacesOf(node', other))
                = Cardinality(PlacesOf(node, other)) + (IF other = k THEN 1 ELSE 0)
  <2> DEFINE new == [node EXCEPT ![this] = WithKey(node[this], k)]
  <2>1. /\ Good(new) /\ DOMAIN new = DOMAIN node
        /\ Keyed(node) => Keyed(new)
        /\ \A x \in DOMAIN node : new[x].n = IF x = this THEN node[x].n + 1 ELSE node[x].n
        /\ \A w : LinksTo(new, w) = LinksTo(node, w)
        /\ \A other : IsFiniteSet(PlacesOf(node, other)) =>
             /\ IsFiniteSet(PlacesOf(new, other))
             /\ Cardinality(PlacesOf(new, other))
                  = Cardinality(PlacesOf(node, other)) + (IF other = k THEN 1 ELSE 0)
    BY <1>1, InsertKeeps
  <2>2. node' = new
    BY <1>2
  <2> QED
    BY <2>1, <2>2 DEF IInv
<1>4. /\ root' = Top /\ top' = NULL /\ pc' = "idle" /\ this' = NULL
      /\ UNCHANGED <<built, done, inserted>>
  BY DEF InsertNonFullLeaf, Top
<1>5. Top' = Top
  BY <1>4 DEF Top
<1>6. Numbered'
  BY <1>3 DEF IInv, Numbered, Fresh
<1>7. Pointers' /\ Counters'
  <2>1. Top \in DOMAIN node
    BY <1>1 DEF Pointers, Top
  <2>2. NULL \notin DOMAIN node
    BY NodesAreNumbers DEF IInv
  <2> QED
    BY <1>1, <1>3, <1>4, <2>1, <2>2 DEF Pointers, Counters
<1>8. Linked(node', Top)
  BY <1>3 DEF IInv, Linked
<1>9. Filled(node', Top)
  <2>1. \A x \in DOMAIN node : node[x].n \in Nat
    BY <1>1, GoodNodeIs DEF Good
  <2> QED
    BY <1>3, <2>1, Degree DEF IInv, Filled
<1>10. Kept'
  <2> SUFFICES ASSUME NEW key \in Key
               PROVE  /\ IsFiniteSet(PlacesOf(node', key))
                      /\ Cardinality(PlacesOf(node', key)) = inserted'[key] - Awaited(key)'
    BY DEF Kept, Holds
  <2>1. /\ IsFiniteSet(PlacesOf(node, key))
        /\ Cardinality(PlacesOf(node, key)) = inserted[key] - Awaited(key)
    BY DEF IInv, Kept, Holds
  <2>2. Awaited(key) = (IF key = k THEN 1 ELSE 0) /\ Awaited(key)' = 0
    BY <1>1, <1>4 DEF Awaited
  <2>3. inserted[key] \in Nat /\ inserted' = inserted
    BY <1>1, <1>4 DEF Counters
  <2> QED
    BY <1>3, <2>1, <2>2, <2>3
<1> QED
  BY <1>3, <1>5, <1>6, <1>7, <1>8, <1>9, <1>10 DEF IInv

\* The child on the way to the place of the key of an inner node.
LEMMA ChildIs ==
  ASSUME IInv, pc = "insertNonFull", ~node[this].leaf
  PROVE  /\ ChildPlace \in 0 .. node[this].n
         /\ node[this].C[ChildPlace] \in DOMAIN node
         /\ node[node[this].C[ChildPlace]].n \in 0 .. FULL
<1>1. /\ this \in DOMAIN node /\ Good(node)
      /\ GoodNode(DOMAIN node, node[this]) /\ node[this].n \in Nat /\ node[this].n \in 0 .. FULL
  BY GoodNodeIs DEF IInv, Pointers, Good
<1>2. LastNotGreater(node[this], k) \in -1 .. node[this].n - 1
  BY <1>1, PlaceIs
<1>3. ChildPlace \in 0 .. node[this].n
  BY <1>1, <1>2 DEF ChildPlace
<1>4. node[this].C[ChildPlace] \in DOMAIN node
  BY <1>1, <1>3 DEF GoodNode
<1>5. node[node[this].C[ChildPlace]].n \in 0 .. FULL
  BY <1>1, <1>4, GoodNodeIs DEF Good
<1> QED
  BY <1>3, <1>4, <1>5

LEMMA DescendStep ==
  ASSUME IInv, Descend
  PROVE  IInv'
<1>1. /\ this' = node[this].C[ChildPlace]
      /\ UNCHANGED <<node, root, pc, k, top, built, done, inserted>>
  BY DEF Descend
<1>2. this' \in DOMAIN node /\ node[this'].n < FULL
  <2>1. /\ node[this].C[ChildPlace] \in DOMAIN node
        /\ node[node[this].C[ChildPlace]].n \in 0 .. FULL
        /\ node[node[this].C[ChildPlace]].n # FULL
    BY ChildIs DEF Descend, IsFull
  <2> QED
    BY <1>1, <2>1, Degree
<1>3. Pointers'
  BY <1>1, <1>2 DEF IInv, Pointers
<1>4. Top' = Top /\ Fresh' = Fresh
  BY <1>1 DEF Top, Fresh
<1>5. Numbered' /\ Counters' /\ Kept'
  BY <1>1, <1>4 DEF IInv, Numbered, Counters, Kept, Awaited
<1> QED
  BY <1>1, <1>3, <1>4, <1>5 DEF IInv

\* splitChild of the child, then the call on one of its halves.
LEMMA SplitStep ==
  ASSUME IInv, SplitAndDescend
  PROVE  IInv'
<1> DEFINE i == ChildPlace
<1>1. /\ node' = SplitChild(node, this, i, Fresh)
      /\ this' = node'[this].C[Side(node'[this], i, k)]
      /\ UNCHANGED <<root, pc, k, top, built, done, inserted>>
      /\ pc = "insertNonFull"
  BY DEF SplitAndDescend
<1>2. CanSplit(node, this, i, Fresh)
  <2>1. i \in 0 .. node[this].n /\ IsFull(node, node[this].C[i]) /\ ~node[this].leaf
    BY ChildIs DEF SplitAndDescend
  <2>2. Good(node) /\ this \in DOMAIN node /\ node[this].n < FULL
    BY <1>1 DEF IInv, Pointers
  <2>3. Fresh \notin DOMAIN node
    BY NodesAreNumbers DEF IInv
  <2>4. ~IsFull(node, this)
    BY <2>2, Degree DEF IsFull
  <2> QED
    BY <2>1, <2>2, <2>3, <2>4 DEF CanSplit
<1> HIDE DEF i
<1>3. Good(node') /\ Keyed(node') /\ DOMAIN node' = DOMAIN node \cup {Fresh}
  <2>2. Keyed(SplitChild(node, this, i, Fresh))
    BY <1>2, SplitKeepsKeyed DEF IInv
  <2>1. /\ Good(SplitChild(node, this, i, Fresh))
        /\ IsSplit(node, this, i, node[this].C[i], Fresh, SplitChild(node, this, i, Fresh))
    BY <1>2, SplitWords
  <2> QED
    BY <1>1, <2>1, <2>2 DEF IsSplit
<1>4. Numbered'
  BY <1>3, FreshAdded DEF IInv
<1>5. this' \in DOMAIN node' /\ node'[this'].n < FULL
  <2>1. Side(node'[this], i, k) \in {i, i + 1}
    BY SideIsOne
  <2> QED
    BY <1>1, <1>2, <2>1, HalvesHaveRoom
<1>6. Pointers'
  BY <1>1, <1>3, <1>5 DEF IInv, Pointers
<1>7. Top' = Top /\ Counters'
  BY <1>1 DEF IInv, Top, Counters
<1>8. Linked(node', Top) /\ Filled(node', Top)
  <2>1. Top \in DOMAIN node
    BY <1>1 DEF IInv, Pointers, Top
  <2>2. /\ Linked(node, Top)
        /\ \A v \in DOMAIN node \ {this} : node[v].n >= (IF v = Top THEN 1 ELSE T - 1)
    BY DEF IInv, Filled
  <2>3. node[this].n >= (IF this = Top THEN 0 ELSE T - 1)
    <3>1. this \in DOMAIN node /\ node[this].n \in Nat
      BY <1>1, GoodNodeIs DEF IInv, Pointers, Good
    <3> QED
      BY <3>1, Degree DEF IInv, Filled
  <2> QED
    BY <1>1, <1>2, <2>1, <2>2, <2>3, SplitKeepsTree
<1>9. Kept'
  <2> SUFFICES ASSUME NEW key \in Key
               PROVE  Holds(node', key, inserted'[key] - Awaited(key)')
    BY DEF Kept
  <2>1. /\ IsFiniteSet(PlacesOf(node, key))
        /\ Cardinality(PlacesOf(node, key)) = inserted[key] - Awaited(key)
    BY DEF IInv, Kept, Holds
  <2>2. /\ IsFiniteSet(PlacesOf(node', key))
        /\ Cardinality(PlacesOf(node', key)) = Cardinality(PlacesOf(node, key))
    BY <1>1, <1>2, <2>1, SplitKeepsKeys
  <2>3. inserted'[key] - Awaited(key)' = inserted[key] - Awaited(key)
    BY <1>1 DEF Awaited
  <2> QED
    BY <2>1, <2>2, <2>3 DEF Holds
<1> QED
  BY <1>3, <1>4, <1>6, <1>7, <1>8, <1>9 DEF IInv

-----------------------------------------------------------------------------
\* Between insertions every key is in use as often as it was inserted.
LEMMA IdleTree ==
  ASSUME IInv, pc = "idle"
  PROVE  /\ top = NULL /\ Top = root
         /\ \A key \in Key : /\ inserted[key] \in Nat
                             /\ IsFiniteSet(PlacesOf(node, key))
                             /\ Cardinality(PlacesOf(node, key)) = inserted[key]
<1>1. top = NULL /\ Top = root
  BY DEF IInv, Pointers, Top
<1>2. \A key \in Key : Awaited(key) = 0 /\ inserted[key] \in Nat
  BY DEF IInv, Counters, Awaited
<1>3. ASSUME NEW key \in Key
      PROVE  IsFiniteSet(PlacesOf(node, key)) /\ Cardinality(PlacesOf(node, key)) = inserted[key]
  BY <1>2 DEF IInv, Kept, Holds
<1> QED
  BY <1>1, <1>2, <1>3

\* The counters of buildTree and main, and the history.
LEMMA InsertCounts ==
  ASSUME Counters, NEW key \in Key, Insert(key), built' \in 0 .. SIZE, done' \in 0 .. OPS
  PROVE  /\ Counters'
         /\ \A other \in Key :
              inserted'[other] = inserted[other] + (IF other = key THEN 1 ELSE 0)
<1>1. inserted \in [Key -> Nat] /\ inserted' = [inserted EXCEPT ![key] = inserted[key] + 1]
  BY DEF Counters, Insert
<1>2. inserted' \in [Key -> Nat]
  BY <1>1
<1>3. \A other \in Key : inserted'[other] = inserted[other] + (IF other = key THEN 1 ELSE 0)
  BY <1>1
<1> QED
  BY <1>2, <1>3 DEF Counters

\* A heap with one more node.
LEMMA AllocIs ==
  ASSUME NEW heap, NEW id, id \notin DOMAIN heap, NEW record
  PROVE  LET more == Alloc(heap, id, record)
         IN  /\ DOMAIN more = DOMAIN heap \cup {id}
             /\ more[id] = record
             /\ \A v \in DOMAIN heap : more[v] = heap[v]
BY DEF Alloc

\* What new BTreeNode gives, of any set of nodes.
LEMMA NewNodeIs ==
  ASSUME NEW nodes, NEW isleaf \in BOOLEAN
  PROVE  LET r == NewNode(isleaf)
         IN  /\ r \in Record(nodes) /\ r.n = 0 /\ r.leaf = isleaf
             /\ r.keys \in Words /\ r.C \in Links(nodes)
<1>1. 0 \in 0 .. FULL
  BY Degree
<1> QED
  BY <1>1 DEF NewNode, Record, Words, Links, Link

\* insert in an empty tree.
LEMMA InsertEmptyStep ==
  ASSUME IInv, pc = "idle", NEW key \in Key, Insert(key), InsertEmpty(key),
         built' \in 0 .. SIZE, done' \in 0 .. OPS
  PROVE  IInv'
<1> DEFINE r == [NewNode(TRUE) EXCEPT !.keys[0] = key, !.n = 1]
<1>1. /\ root = NULL /\ node' = Alloc(node, Fresh, r) /\ root' = Fresh
      /\ UNCHANGED <<pc, this, k, top>>
  BY DEF InsertEmpty
<1>2. DOMAIN node = {} /\ Fresh \notin DOMAIN node
  BY <1>1, NodesAreNumbers DEF IInv, Pointers
<1>3. /\ GoodNode({Fresh}, r) /\ r.n = 1 /\ r.leaf /\ r.keys[0] = key
  <2> DEFINE new == NewNode(TRUE)
  <2>1. /\ new \in Record({Fresh}) /\ new.n = 0 /\ new.leaf = TRUE
        /\ new.keys \in Words /\ new.C \in Links({Fresh})
    BY NewNodeIs
  <2> DEFINE keys == [new.keys EXCEPT ![0] = key]
  <2>2. r = [new EXCEPT !.keys = keys, !.n = 1]
    OBVIOUS
  <2> HIDE DEF new, r
  <2>3. 0 \in Slot /\ 1 \in 0 .. FULL
    BY Degree DEF Slot
  <2>4. keys \in Words /\ keys[0] = key
    BY <2>1, <2>3 DEF Words
  <2> HIDE DEF keys
  <2>5. /\ r \in Record({Fresh}) /\ r.n = 1 /\ r.leaf /\ r.keys = keys
    BY <2>1, <2>2, <2>3, <2>4 DEF Record
  <2> QED
    BY <2>4, <2>5 DEF GoodNode
<1> HIDE DEF r
<1>4. DOMAIN node' = {Fresh} /\ node'[Fresh] = r
  <2>1. /\ DOMAIN node' = DOMAIN node \cup {Fresh}
        /\ node'[Fresh] = r
    BY <1>1, <1>2 DEF Alloc
  <2> QED
    BY <1>2, <2>1
<1>5. Top' = Fresh
  BY <1>1, IdleTree DEF Top
<1>6. Numbered'
  BY <1>2, <1>4, FreshAdded DEF IInv
<1>7. Good(node')
  BY <1>3, <1>4 DEF Good
<1>8. Pointers'
  <2>1. Fresh # NULL
    BY NodesAreNumbers DEF IInv
  <2> QED
    BY <1>1, <1>4, <2>1, IdleTree DEF Pointers
<1>9. Filled(node', Fresh) /\ Linked(node', Fresh)
  <2>1. LinksTo(node', Fresh) = {}
    BY <1>3, <1>4 DEF LinksTo, LinkPlaces
  <2> QED
    BY <1>3, <1>4, <2>1, FS_EmptySet DEF Filled, Linked
<1>10. /\ Counters'
       /\ \A other \in Key :
            inserted'[other] = inserted[other] + (IF other = key THEN 1 ELSE 0)
  BY InsertCounts DEF IInv
<1>11. Kept'
  <2> SUFFICES ASSUME NEW other \in Key
               PROVE  Holds(node', other, inserted'[other] - Awaited(other)')
    BY DEF Kept
  <2>1. Awaited(other)' = 0
    BY <1>1 DEF Awaited
  <2>2. inserted[other] = 0
    <3>1. PlacesOf(node, other) = {}
      BY <1>2 DEF PlacesOf, KeyPlaces
    <3> QED
      BY <3>1, IdleTree, FS_EmptySet
  <2>3. 0 \in Slot
    BY Degree DEF Slot
  <2>4. PlacesOf(node', other) = IF other = key THEN {<<Fresh, 0>>} ELSE {}
    <3>1. \A p \in PlacesOf(node', other) : p = <<Fresh, 0>> /\ other = key
      <4> SUFFICES ASSUME NEW p \in PlacesOf(node', other)
                   PROVE  p = <<Fresh, 0>> /\ other = key
        OBVIOUS
      <4> PICK v, j : v = p[1] /\ j = p[2]
        OBVIOUS
      <4>1. /\ p = <<v, j>> /\ v \in DOMAIN node' /\ j \in Slot
            /\ j < node'[v].n /\ node'[v].keys[j] = other
        BY PairOf, InPlacesOf
      <4>2. v = Fresh /\ j = 0
        BY <1>3, <1>4, <4>1, Degree DEF Slot
      <4> QED
        BY <1>3, <1>4, <4>1, <4>2
    <3>2. other = key => <<Fresh, 0>> \in PlacesOf(node', other)
      BY <1>3, <1>4, <2>3, InPlacesOf
    <3> QED
      BY <3>1, <3>2
  <2>5. /\ IsFiniteSet(PlacesOf(node', other))
        /\ Cardinality(PlacesOf(node', other)) = IF other = key THEN 1 ELSE 0
    <3>1. CASE other = key
      <4>1. PlacesOf(node', other) = {<<Fresh, 0>>}
        BY <2>4, <3>1
      <4> QED
        BY <3>1, <4>1, FS_Singleton
    <3>2. CASE other # key
      <4>1. PlacesOf(node', other) = {}
        BY <2>4, <3>2
      <4> QED
        BY <3>2, <4>1, FS_EmptySet
    <3> QED
      BY <3>1, <3>2
  <2>6. inserted'[other] - Awaited(other)' = IF other = key THEN 1 ELSE 0
    BY <1>10, <2>1, <2>2
  <2> QED
    BY <2>5, <2>6 DEF Holds
<1>12. Keyed(node')
  <2> SUFFICES ASSUME NEW p \in PlacesOf(node', UNINIT) PROVE FALSE
    BY DEF Keyed
  <2> PICK v, j : v = p[1] /\ j = p[2]
    OBVIOUS
  <2>1. /\ p = <<v, j>> /\ v \in DOMAIN node' /\ j \in Slot
        /\ j < node'[v].n /\ node'[v].keys[j] = UNINIT
    BY PairOf, InPlacesOf
  <2>2. v = Fresh /\ j = 0
    BY <1>3, <1>4, <2>1, Degree DEF Slot
  <2> QED
    BY <1>3, <1>4, <2>1, <2>2, TreeAssumption
<1> QED
  BY <1>5, <1>6, <1>7, <1>8, <1>9, <1>10, <1>11, <1>12 DEF IInv

\* insert in a tree whose root has room: only the call begins.
LEMMA InsertRootStep ==
  ASSUME IInv, pc = "idle", NEW key \in Key, Insert(key), InsertRoot(key),
         built' \in 0 .. SIZE, done' \in 0 .. OPS
  PROVE  IInv'
<1>1. /\ root # NULL /\ node[root].n # FULL
      /\ this' = root /\ k' = key /\ top' = NULL /\ pc' = "insertNonFull"
      /\ UNCHANGED <<node, root>>
  BY DEF InsertRoot, IsFull
<1>2. root \in DOMAIN node /\ node[root].n < FULL
  <2>1. root \in DOMAIN node
    BY <1>1 DEF IInv, Pointers
  <2>2. node[root].n \in 0 .. FULL
    BY <2>1, GoodNodeIs DEF IInv, Good
  <2> QED
    BY <1>1, <2>1, <2>2, Degree
<1>3. Pointers'
  BY <1>1, <1>2 DEF IInv, Pointers
<1>4. Top' = Top /\ Fresh' = Fresh
  BY <1>1, IdleTree DEF Top, Fresh
<1>5. /\ Counters'
      /\ \A other \in Key :
           inserted'[other] = inserted[other] + (IF other = key THEN 1 ELSE 0)
  BY InsertCounts DEF IInv
<1>6. Kept'
  <2> SUFFICES ASSUME NEW other \in Key
               PROVE  Holds(node', other, inserted'[other] - Awaited(other)')
    BY DEF Kept
  <2>1. Awaited(other)' = IF other = key THEN 1 ELSE 0
    BY <1>1 DEF Awaited
  <2>2. inserted'[other] - Awaited(other)' = inserted[other]
    BY <1>5, <2>1, IdleTree
  <2> QED
    BY <1>1, <2>2, IdleTree DEF Holds
<1>7. Numbered'
  BY <1>1, <1>4 DEF IInv, Numbered
<1> QED
  BY <1>1, <1>3, <1>4, <1>5, <1>6, <1>7 DEF IInv

\* The heap insert makes of a full root: a new root s with the old one as its
\* only child, which can be split.
LEMMA NewRoot ==
  ASSUME NEW heap, Good(heap), NEW r \in DOMAIN heap, IsFull(heap, r),
         NEW s, s \notin DOMAIN heap, NEW z, z \notin DOMAIN heap, z # s,
         Linked(heap, r), Filled(heap, r)
  PROVE  LET more == Alloc(heap, s, [NewNode(FALSE) EXCEPT !.C[0] = r])
         IN  /\ DOMAIN more = DOMAIN heap \cup {s}
             /\ CanSplit(more, s, 0, z)
             /\ \A key : PlacesOf(more, key) = PlacesOf(heap, key)
             /\ Linked(more, s)
             /\ \A v \in DOMAIN more \ {s} : more[v].n >= (IF v = s THEN 1 ELSE T - 1)
             /\ more[s].n >= 0
<1> DEFINE record == [NewNode(FALSE) EXCEPT !.C[0] = r]
           more   == Alloc(heap, s, record)
           nodes  == DOMAIN heap \cup {s}
<1>1. /\ GoodNode(nodes, record)
      /\ record.n = 0 /\ ~record.leaf /\ record.C[0] = r
  <2> DEFINE new == NewNode(FALSE)
  <2>1. /\ new \in Record(nodes) /\ new.n = 0 /\ new.leaf = FALSE
        /\ new.keys \in Words /\ new.C \in Links(nodes)
    BY NewNodeIs
  <2> DEFINE C == [new.C EXCEPT ![0] = r]
  <2>2. record = [new EXCEPT !.C = C]
    OBVIOUS
  <2> HIDE DEF new, record
  <2>3. 0 \in Link
    BY Degree DEF Link
  <2>4. C \in Links(nodes) /\ C[0] = r
    BY <2>1, <2>3 DEF Links
  <2> HIDE DEF C
  <2>5. /\ record \in Record(nodes)
        /\ record.n = 0 /\ ~record.leaf /\ record.C = C
    BY <2>1, <2>2, <2>4 DEF Record
  <2>6. \A j \in 0 .. 0 : record.C[j] \in nodes
    BY <2>4, <2>5
  <2> QED
    BY <2>4, <2>5, <2>6 DEF GoodNode
<1>2. /\ DOMAIN more = nodes
      /\ more[s] = record
      /\ \A v \in DOMAIN heap : more[v] = heap[v]
  BY DEF Alloc
<1> HIDE DEF record, more
<1>3. Good(more)
  <2>1. \A v \in DOMAIN heap : GoodNode(nodes, heap[v])
    BY GoodWithMore DEF Good
  <2> QED
    BY <1>1, <1>2, <2>1 DEF Good
<1>4. CanSplit(more, s, 0, z)
  <2>1. s \in DOMAIN more /\ z \notin DOMAIN more /\ ~more[s].leaf /\ 0 \in 0 .. more[s].n
    BY <1>1, <1>2
  <2>2. ~IsFull(more, s)
    BY <1>1, <1>2, Degree DEF IsFull
  <2>3. IsFull(more, more[s].C[0])
    BY <1>1, <1>2 DEF IsFull
  <2> QED
    BY <1>3, <2>1, <2>2, <2>3 DEF CanSplit
<1>5. ASSUME NEW key PROVE PlacesOf(more, key) = PlacesOf(heap, key)
  <2>1. KeyPlaces(more) = KeyPlaces(heap)
    <3>1. \A j \in Slot : ~(j < 0)
      BY Degree DEF Slot
    <3> QED
      BY <1>1, <1>2, <3>1 DEF KeyPlaces
  <2>2. \A p \in KeyPlaces(heap) : p[1] \in DOMAIN heap
    BY DEF KeyPlaces
  <2> QED
    BY <1>2, <2>1, <2>2 DEF PlacesOf
<1>6. ASSUME NEW w \in DOMAIN more
      PROVE  LinksTo(more, w) = LinksTo(heap, w) \cup (IF w = r THEN {<<s, 0>>} ELSE {})
  <2>1. ASSUME NEW p \in LinksTo(more, w)
        PROVE  p \in LinksTo(heap, w) \/ (w = r /\ p = <<s, 0>>)
    <3> PICK v, j : v = p[1] /\ j = p[2]
      OBVIOUS
    <3>1. /\ p = <<v, j>> /\ v \in DOMAIN more /\ j \in Link
          /\ ~more[v].leaf /\ j <= more[v].n /\ more[v].C[j] = w
      BY LinkPair, InLinksTo
    <3>2. CASE v = s
      <4>1. j = 0
        BY <1>1, <1>2, <3>1, <3>2, Degree DEF Link
      <4> QED
        BY <1>1, <1>2, <3>1, <3>2, <4>1
    <3>3. CASE v # s
      BY <1>2, <3>1, <3>3, InLinksTo
    <3> QED
      BY <3>2, <3>3
  <2>2. ASSUME NEW p \in LinksTo(heap, w)
        PROVE  p \in LinksTo(more, w)
    <3> PICK v, j : v = p[1] /\ j = p[2]
      OBVIOUS
    <3>1. /\ p = <<v, j>> /\ v \in DOMAIN heap /\ j \in Link
          /\ ~heap[v].leaf /\ j <= heap[v].n /\ heap[v].C[j] = w
      BY LinkPair, InLinksTo
    <3> QED
      BY <1>2, <3>1, InLinksTo
  <2>3. <<s, 0>> \in LinksTo(more, r)
    <3>1. 0 \in Link /\ 0 <= 0
      BY Degree DEF Link
    <3> QED
      BY <1>1, <1>2, <3>1, InLinksTo
  <2> QED
    BY <2>1, <2>2, <2>3
<1>7. Linked(more, s)
  <2> SUFFICES ASSUME NEW w \in DOMAIN more
               PROVE  /\ IsFiniteSet(LinksTo(more, w))
                      /\ Cardinality(LinksTo(more, w)) = IF w = s THEN 0 ELSE 1
    BY DEF Linked
  <2>1. CASE w = s
    <3>1. LinksTo(heap, s) = {}
      <4>1. \A v \in DOMAIN heap : \A j \in Link :
              ~heap[v].leaf /\ j <= heap[v].n => heap[v].C[j] \in DOMAIN heap
        <5> SUFFICES ASSUME NEW v \in DOMAIN heap, NEW j \in Link,
                            ~heap[v].leaf, j <= heap[v].n
                     PROVE  heap[v].C[j] \in DOMAIN heap
          OBVIOUS
        <5>1. GoodNode(DOMAIN heap, heap[v]) /\ heap[v].n \in Nat
          BY GoodNodeIs DEF Good
        <5>2. j \in 0 .. heap[v].n
          BY <5>1, Degree DEF Link
        <5> QED
          BY <5>1, <5>2 DEF GoodNode
      <4> QED
        BY <4>1 DEF LinksTo, LinkPlaces, Link
    <3>2. LinksTo(more, s) = {}
      BY <1>6, <2>1, <3>1
    <3> QED
      BY <2>1, <3>2, FS_EmptySet
  <2>2. CASE w = r
    <3>1. IsFiniteSet(LinksTo(heap, r)) /\ Cardinality(LinksTo(heap, r)) = 0
      BY DEF Linked
    <3>2. LinksTo(heap, r) = {}
      BY <3>1, FS_EmptySet
    <3>3. LinksTo(more, w) = {<<s, 0>>}
      BY <1>6, <2>2, <3>2
    <3> QED
      BY <2>2, <3>3, FS_Singleton
  <2>3. CASE w # r /\ w # s
    <3>1. LinksTo(more, w) = LinksTo(heap, w) /\ w \in DOMAIN heap
      BY <1>2, <1>6, <2>3
    <3> QED
      BY <2>3, <3>1 DEF Linked
  <2> QED
    BY <2>1, <2>2, <2>3
<1>8. \A v \in DOMAIN more \ {s} : more[v].n >= (IF v = s THEN 1 ELSE T - 1)
  <2>1. heap[r].n = FULL
    BY DEF IsFull
  <2> QED
    BY <1>2, <2>1, Degree DEF Filled
<1>9. more[s].n >= 0
  BY <1>1, <1>2
<1> QED
  BY <1>2, <1>4, <1>5, <1>7, <1>8, <1>9 DEF more, record

\* insert in a tree whose root is full: a new root, and the call on one half
\* of the old one.
LEMMA InsertFullRootStep ==
  ASSUME IInv, pc = "idle", NEW key \in Key, Insert(key), InsertFullRoot(key),
         built' \in 0 .. SIZE, done' \in 0 .. OPS
  PROVE  IInv'
<1> DEFINE s == Fresh
           heap == Alloc(node, s, [NewNode(FALSE) EXCEPT !.C[0] = root])
           split == SplitChild(heap, s, 0, s + 1)
<1>1. /\ root # NULL /\ IsFull(node, root)
      /\ node' = split /\ top' = s
      /\ this' = split[s].C[Side(split[s], 0, key)]
      /\ k' = key /\ pc' = "insertNonFull" /\ root' = root
  BY DEF InsertFullRoot
<1>2. /\ Good(node) /\ root \in DOMAIN node
      /\ Linked(node, root) /\ Filled(node, root)
  BY <1>1, IdleTree DEF IInv, Pointers
<1>3. s \notin DOMAIN node /\ s + 1 \notin DOMAIN node /\ s + 1 # s /\ s # NULL
  <2>1. s \in Nat
    BY DEF IInv, Numbered
  <2> QED
    BY <2>1, NodesAreNumbers DEF IInv
<1>4. /\ DOMAIN heap = DOMAIN node \cup {s}
      /\ CanSplit(heap, s, 0, s + 1)
      /\ \A other : PlacesOf(heap, other) = PlacesOf(node, other)
      /\ Linked(heap, s)
      /\ \A v \in DOMAIN heap \ {s} : heap[v].n >= (IF v = s THEN 1 ELSE T - 1)
      /\ heap[s].n >= 0
  <2> HIDE DEF s
  <2> QED
    BY <1>1, <1>2, <1>3, NewRoot
<1> HIDE DEF heap
<1>5. Linked(split, s) /\ Filled(split, s)
  <2>1. heap[s].n >= (IF s = s THEN 0 ELSE T - 1) /\ s \in DOMAIN heap
    BY <1>4
  <2> HIDE DEF s
  <2> QED
    BY <1>4, <2>1, SplitKeepsTree
<1>6. LET half == split[s].C[Side(split[s], 0, key)]
      IN  half \in DOMAIN split /\ split[half].n < FULL
  <2>1. Side(split[s], 0, key) \in {0, 0 + 1}
    BY SideIsOne
  <2> HIDE DEF s
  <2> QED
    BY <1>4, <2>1, HalvesHaveRoom
<1>7. Good(split) /\ Keyed(split) /\ DOMAIN split = DOMAIN node \cup {s, s + 1}
  <2>1. Good(split) /\ IsSplit(heap, s, 0, heap[s].C[0], s + 1, split)
    <3> HIDE DEF s
    <3> QED
      BY <1>4, SplitWords
  <2>2. DOMAIN split = DOMAIN heap \cup {s + 1}
    BY <2>1 DEF IsSplit
  <2>3. Keyed(split)
    <3>1. Keyed(heap)
      BY <1>4 DEF IInv, Keyed
    <3> HIDE DEF s
    <3> QED
      BY <1>4, <3>1, SplitKeepsKeyed
  <2> HIDE DEF split
  <2> QED
    BY <1>4, <2>1, <2>2, <2>3
<1>8. ASSUME NEW other \in Key
      PROVE  /\ IsFiniteSet(PlacesOf(split, other))
             /\ Cardinality(PlacesOf(split, other)) = inserted[other]
  <2>1. IsFiniteSet(PlacesOf(heap, other)) /\ Cardinality(PlacesOf(heap, other)) = inserted[other]
    BY <1>4, IdleTree
  <2> HIDE DEF s
  <2> QED
    BY <1>4, <2>1, SplitKeepsKeys
<1> HIDE DEF split
<1>9. Numbered'
  BY <1>1, <1>7, TwoAdded DEF IInv
<1>10. Pointers'
  <2>1. this' \in DOMAIN node' /\ node'[this'].n < FULL
    BY <1>1, <1>6
  <2>2. root' \in DOMAIN node' /\ top' \in DOMAIN node' /\ root' # NULL
    BY <1>1, <1>2, <1>7
  <2> QED
    BY <1>1, <2>1, <2>2 DEF Pointers
<1>11. Top' = s
  BY <1>1, <1>3 DEF Top
<1>12. /\ Counters'
       /\ \A other \in Key :
            inserted'[other] = inserted[other] + (IF other = key THEN 1 ELSE 0)
  BY InsertCounts DEF IInv
<1>13. Kept'
  <2> SUFFICES ASSUME NEW other \in Key
               PROVE  Holds(node', other, inserted'[other] - Awaited(other)')
    BY DEF Kept
  <2>1. Awaited(other)' = IF other = key THEN 1 ELSE 0
    BY <1>1 DEF Awaited
  <2>2. inserted'[other] - Awaited(other)' = inserted[other]
    BY <1>12, <2>1, IdleTree
  <2> QED
    BY <1>1, <1>8, <2>2 DEF Holds
<1> HIDE DEF s
<1>14. Good(node') /\ Keyed(node') /\ Linked(node', Top') /\ Filled(node', Top')
  BY <1>1, <1>5, <1>7, <1>11
<1> QED
  BY <1>9, <1>10, <1>12, <1>13, <1>14 DEF IInv

-----------------------------------------------------------------------------
\* An insert up to its call of insertNonFull, and an iteration of main without.
LEMMA InsertStep ==
  ASSUME IInv, pc = "idle", NEW key \in Key, Insert(key),
         built' \in 0 .. SIZE, done' \in 0 .. OPS
  PROVE  IInv'
<1>1. CASE InsertEmpty(key)
  BY <1>1, InsertEmptyStep
<1>2. CASE InsertFullRoot(key)
  BY <1>2, InsertFullRootStep
<1>3. CASE InsertRoot(key)
  BY <1>3, InsertRootStep
<1> QED
  BY <1>1, <1>2, <1>3 DEF Insert

LEMMA StillStep ==
  ASSUME IInv, UNCHANGED <<node, root, pc, this, k, top, inserted>>,
         built' \in 0 .. SIZE, done' \in 0 .. OPS
  PROVE  IInv'
<1>1. Pointers' /\ Counters'
  BY DEF IInv, Pointers, Counters
<1>2. Top' = Top /\ Fresh' = Fresh
  BY DEF Top, Fresh
<1>3. Numbered' /\ Kept'
  BY <1>2 DEF IInv, Numbered, Kept, Awaited
<1> QED
  BY <1>1, <1>2, <1>3 DEF IInv

LEMMA StepKeepsIInv == IInv /\ [Next]_vars => IInv'
<1> SUFFICES ASSUME IInv, [Next]_vars PROVE IInv'
  OBVIOUS
<1>1. built \in 0 .. SIZE /\ done \in 0 .. OPS /\ SIZE \in Nat /\ OPS \in Nat
  BY TreeAssumption DEF IInv, Counters
<1>2. CASE Build
  <2>1. built' \in 0 .. SIZE /\ done' \in 0 .. OPS /\ pc = "idle"
    BY <1>1, <1>2 DEF Build
  <2>2. PICK key \in Key : Insert(key)
    BY <1>2 DEF Build
  <2> QED
    BY <2>1, <2>2, InsertStep
<1>3. CASE Operate
  <2>1. built' \in 0 .. SIZE /\ done' \in 0 .. OPS /\ pc = "idle"
    BY <1>1, <1>3 DEF Operate
  <2>2. \/ \E key \in Key : Insert(key)
        \/ UNCHANGED <<node, root, pc, this, k, top, inserted>>
    BY <1>3 DEF Operate
  <2> QED
    BY <2>1, <2>2, InsertStep, StillStep
<1>4. CASE InsertNonFull
  BY <1>4, LeafStep, DescendStep, SplitStep DEF InsertNonFull
<1>5. CASE UNCHANGED vars
  BY <1>1, <1>5, StillStep DEF vars
<1> QED
  BY <1>2, <1>3, <1>4, <1>5 DEF Next

\* The tree is what the invariant says in every state: nodes as allocated,
\* every pointer and key in use written, each node the child of one place but
\* the root of the call, enough keys in each, and none dropped or doubled.
THEOREM TreeInvariant == Spec => []IInv
<1>1. Init => IInv
  BY InitIsGood
<1>2. IInv /\ [Next]_vars => IInv'
  BY StepKeepsIInv
<1> QED
  BY <1>1, <1>2, PTL DEF Spec

\* The type invariant, for every degree and every number of insertions: no
\* node read is NULL or was not written, and no n passes 2t - 1.
THEOREM TreeTypes == Spec => []TypeOK
<1>1. IInv => TypeOK
  <2> SUFFICES ASSUME IInv PROVE TypeOK
    OBVIOUS
  <2>1. DOMAIN node = 1 .. Cardinality(DOMAIN node)
    <3> PICK m : m = Fresh - 1
      OBVIOUS
    <3>1. DOMAIN node = 1 .. m /\ m \in Nat
      BY DEF IInv, Numbered
    <3>2. Cardinality(1 .. m) = m - 1 + 1
      BY <3>1, FS_Interval
    <3> QED
      BY <3>1, <3>2
  <2>2. ASSUME NEW x \in DOMAIN node
        PROVE  /\ node[x].n \in 0 .. FULL
               /\ node[x].leaf \in BOOLEAN
               /\ \A i \in 0 .. node[x].n - 1 : node[x].keys[i] \in Key
    <3>1. GoodNode(DOMAIN node, node[x])
      BY DEF IInv, Good
    <3>2. \A i \in 0 .. node[x].n - 1 : node[x].keys[i] \in Key
      BY KeyedIs DEF IInv
    <3> QED
      BY <3>1, <3>2, GoodNodeIs
  <2> QED
    BY <2>1, <2>2 DEF IInv, Pointers, Counters, TypeOK
<1> QED
  BY <1>1, TreeInvariant, PTL

\* What the invariants say in one state.
LEMMA KeptHere == IInv => ContentsKept
BY DEF IInv, Kept, Holds, Awaited, PlacesOf, ContentsKept

\* The tree holds every key as often as insert got it, but for the one whose
\* insertion is under way: no split of a node or of the root drops or doubles
\* a key, whatever the degree and the keys.
THEOREM NoKeyLost == Spec => []ContentsKept
BY KeptHere, TreeInvariant, PTL

-----------------------------------------------------------------------------
(***************************************************************************)
(* The height of every node: a leaf has 0, the children of an inner node   *)
(* one less than the node.                                                 *)
(***************************************************************************)
IsHeight(heap, height) ==
  /\ height \in [DOMAIN heap -> Nat]
  /\ \A x \in DOMAIN heap : heap[x].leaf => height[x] = 0
  /\ \A x \in DOMAIN heap : ~heap[x].leaf =>
       \A j \in 0 .. heap[x].n : height[x] = height[heap[x].C[j]] + 1

Levelled(heap) == \E height : IsHeight(heap, height)

\* The new node of a split has the height of the node it is split from.
LEMMA SplitKeepsHeights ==
  ASSUME NEW heap, NEW x, NEW i, NEW z, CanSplit(heap, x, i, z),
         NEW height, IsHeight(heap, height)
  PROVE  \E more : /\ IsHeight(SplitChild(heap, x, i, z), more)
                   /\ \A v \in DOMAIN heap : more[v] = height[v]
<1> DEFINE y == heap[x].C[i]
           new == SplitChild(heap, x, i, z)
           more == [v \in DOMAIN heap \cup {z} |-> IF v = z THEN height[y] ELSE height[v]]
<1>1. IsSplit(heap, x, i, y, z, new) /\ Good(heap)
  BY SplitWords DEF CanSplit
<1>2. heap[x].n \in Nat /\ i \in 0 .. heap[x].n /\ heap[x].n < FULL /\ ~heap[x].leaf
  <2>1. heap[x].n \in 0 .. FULL /\ heap[x].n # FULL
    BY GoodNodeIs DEF CanSplit, Good, IsFull
  <2> QED
    BY <2>1, Degree DEF CanSplit
<1>3. heap[y].n = FULL /\ y = heap[x].C[i]
  BY DEF CanSplit, IsFull
<1> HIDE DEF y, new
<1>4. /\ x \in DOMAIN heap /\ y \in DOMAIN heap /\ y # x /\ z \notin DOMAIN heap
      /\ DOMAIN new = DOMAIN heap \cup {z}
      /\ \A v \in DOMAIN heap \ {x, y} : new[v] = heap[v]
      /\ new[y].n = T - 1 /\ new[y].leaf = heap[y].leaf /\ new[y].C = heap[y].C
      /\ new[z].n = T - 1 /\ new[z].leaf = heap[y].leaf
      /\ ~heap[y].leaf => \A j \in 0 .. T - 1 : new[z].C[j] = heap[y].C[j + T]
      /\ new[x].n = heap[x].n + 1 /\ ~new[x].leaf
  BY <1>1 DEF IsSplit
<1>5. \A j \in Link : new[x].C[j] =
        IF j = i + 1 THEN z
        ELSE IF j > i + 1 /\ j <= heap[x].n + 1 THEN heap[x].C[j - 1] ELSE heap[x].C[j]
  BY <1>1 DEF IsSplit
<1>6. /\ more \in [DOMAIN new -> Nat]
      /\ \A v \in DOMAIN heap : more[v] = height[v]
      /\ more[z] = height[y]
  BY <1>4 DEF IsHeight
<1> HIDE DEF more
<1>7. \A v \in DOMAIN heap : ~heap[v].leaf =>
        \A j \in 0 .. heap[v].n : heap[v].C[j] \in DOMAIN heap
  BY <1>1 DEF Good, GoodNode
<1>8. \A v \in DOMAIN new : new[v].leaf => more[v] = 0
  BY <1>2, <1>4, <1>6 DEF IsHeight
<1>9. ASSUME NEW v \in DOMAIN new, ~new[v].leaf, NEW j \in 0 .. new[v].n
      PROVE  more[v] = more[new[v].C[j]] + 1
  <2>1. CASE v = z
    <3>1. j \in 0 .. T - 1 /\ j + T \in 0 .. FULL /\ ~heap[y].leaf
      BY <1>4, <1>9, <2>1, Degree
    <3>2. new[v].C[j] = heap[y].C[j + T] /\ heap[y].C[j + T] \in DOMAIN heap
      BY <1>3, <1>4, <1>7, <2>1, <3>1
    <3>3. height[y] = height[heap[y].C[j + T]] + 1
      BY <1>3, <1>4, <3>1 DEF IsHeight
    <3> QED
      BY <1>6, <2>1, <3>2, <3>3
  <2>2. CASE v = y
    <3>1. j \in 0 .. FULL /\ ~heap[y].leaf
      BY <1>4, <1>9, <2>2, Degree
    <3>2. new[v].C[j] = heap[y].C[j] /\ heap[y].C[j] \in DOMAIN heap
      BY <1>3, <1>4, <1>7, <2>2, <3>1
    <3>3. height[y] = height[heap[y].C[j]] + 1
      BY <1>3, <1>4, <3>1 DEF IsHeight
    <3> QED
      BY <1>4, <1>6, <2>2, <3>2, <3>3
  <2>3. CASE v = x
    <3>1. j \in Link /\ j \in Int /\ 0 <= j /\ j <= heap[x].n + 1
      BY <1>2, <1>4, <2>3, Degree DEF Link
    <3>2. \A m \in 0 .. heap[x].n :
            heap[x].C[m] \in DOMAIN heap /\ height[x] = height[heap[x].C[m]] + 1
      BY <1>2, <1>4, <1>7 DEF IsHeight
    <3>3. CASE j = i + 1
      <4>1. height[x] = height[y] + 1
        BY <1>2, <1>3, <3>2
      <4> QED
        BY <1>4, <1>5, <1>6, <2>3, <3>1, <3>3, <4>1
    <3>4. CASE j > i + 1
      <4>1. new[x].C[j] = heap[x].C[j - 1] /\ j - 1 \in 0 .. heap[x].n
        BY <1>2, <1>5, <3>1, <3>4
      <4> QED
        BY <1>4, <1>6, <2>3, <3>2, <4>1
    <3>5. CASE j < i + 1
      <4>1. j # i + 1 /\ ~(j > i + 1) /\ j \in 0 .. heap[x].n
        BY <1>2, <3>1, <3>5
      <4>2. new[x].C[j] = heap[x].C[j]
        BY <1>5, <3>1, <4>1
      <4> QED
        BY <1>4, <1>6, <2>3, <3>2, <4>1, <4>2
    <3> QED
      BY <1>2, <3>1, <3>3, <3>4, <3>5
  <2>4. CASE v # x /\ v # y /\ v # z
    <3>1. v \in DOMAIN heap /\ new[v] = heap[v]
      BY <1>4, <2>4
    <3> QED
      BY <1>6, <1>7, <1>9, <3>1 DEF IsHeight
  <2> QED
    BY <2>1, <2>2, <2>3, <2>4
<1>10. IsHeight(new, more)
  BY <1>6, <1>8, <1>9 DEF IsHeight
<1> QED
  BY <1>6, <1>10 DEF new

-----------------------------------------------------------------------------
\* Of the nodes with some flaw there is a lowest.
LEMMA LowestNode ==
  ASSUME NEW nodes, NEW height \in [nodes -> Nat], NEW B, B \subseteq nodes, B # {}
  PROVE  \E x \in B : \A y \in B : height[x] <= height[y]
<1> DEFINE S == {height[x] : x \in B}
<1>1. S \subseteq Nat /\ S # {}
  OBVIOUS
<1> HIDE DEF S
<1>2. PICK n \in S : \A m \in S : ~(<<m, n>> \in OpToRel(<, Nat))
  BY <1>1, NatLessThanWellFounded, WFMin
<1>3. \A m \in S : ~(m < n)
  BY <1>1, <1>2 DEF OpToRel
<1>4. PICK x \in B : n = height[x]
  BY <1>2 DEF S
<1>5. ASSUME NEW y \in B PROVE height[x] <= height[y]
  <2>1. height[y] \in S /\ height[x] \in Nat /\ height[y] \in Nat
    BY DEF S
  <2> QED
    BY <1>3, <1>4, <2>1
<1> QED
  BY <1>5

\* What NodesUnder and LeafDepths are: both functions exist.
LEMMA ChildrenAre ==
  ASSUME Good(node), NEW x \in DOMAIN node
  PROVE  Children(x) \subseteq DOMAIN node
BY DEF Good, GoodNode, Children

\* The nodes reached from each, the least sets closed under the children, are
\* what a recursive definition over the children computes.
Reached(nodes, next) ==
  [x \in nodes |->
     {y \in nodes : \A S \in SUBSET nodes : x \in S /\ (\A v \in S : next[v] \subseteq S) => y \in S}]

LEMMA ReachedIs ==
  ASSUME NEW nodes, NEW next, \A x \in nodes : next[x] \subseteq nodes, NEW x \in nodes
  PROVE  Reached(nodes, next)[x] = {x} \cup UNION {Reached(nodes, next)[c] : c \in next[x]}
<1> DEFINE Closed(S) == \A v \in S : next[v] \subseteq S
           f  == Reached(nodes, next)
           S0 == {x} \cup UNION {f[c] : c \in next[x]}
<1>1. \A v \in nodes : f[v] = {y \in nodes : \A S \in SUBSET nodes : v \in S /\ Closed(S) => y \in S}
  BY DEF Reached
<1> HIDE DEF f
<1>2. S0 \subseteq f[x]
  <2>1. x \in f[x]
    BY <1>1
  <2>2. ASSUME NEW c \in next[x], NEW y \in f[c] PROVE y \in f[x]
    <3>1. c \in nodes /\ y \in nodes /\ \A S \in SUBSET nodes : c \in S /\ Closed(S) => y \in S
      BY <1>1, <2>2
    <3>2. ASSUME NEW S \in SUBSET nodes, x \in S, Closed(S) PROVE y \in S
      BY <3>1, <3>2
    <3> HIDE DEF Closed
    <3> QED
      BY <1>1, <3>1, <3>2
  <2> QED
    BY <2>1, <2>2
<1>3. S0 \subseteq nodes
  BY <1>1
<1>4. \A c \in next[x] : c \in f[c]
  BY <1>1
<1>5. ASSUME NEW c \in next[x], NEW v \in f[c], NEW w \in next[v] PROVE w \in f[c]
  <2>1. v \in nodes /\ c \in nodes /\ w \in nodes
    BY <1>1, <1>5
  <2>2. ASSUME NEW S \in SUBSET nodes, c \in S, Closed(S) PROVE w \in S
    <3>1. v \in S
      BY <1>1, <1>5, <2>1, <2>2
    <3> QED
      BY <2>2, <3>1
  <2> HIDE DEF Closed
  <2> QED
    BY <1>1, <2>1, <2>2
<1>6. Closed(S0)
  <2> SUFFICES ASSUME NEW v \in S0, NEW w \in next[v] PROVE w \in S0
    OBVIOUS
  <2> QED
    BY <1>4, <1>5
<1>7. f[x] \subseteq S0
  <2> SUFFICES ASSUME NEW y \in f[x] PROVE y \in S0
    OBVIOUS
  <2>1. \A S \in SUBSET nodes : x \in S /\ Closed(S) => y \in S
    BY <1>1
  <2>2. x \in S0
    OBVIOUS
  <2> HIDE DEF S0, Closed
  <2> QED
    BY <1>3, <1>6, <2>1, <2>2
<1>8. f[x] = S0
  BY <1>2, <1>7
<1> QED
  BY <1>8 DEF f

LEMMA NodesUnderIs ==
  ASSUME Good(node)
  PROVE  NodesUnder = [x \in DOMAIN node |-> {x} \cup UNION {NodesUnder[c] : c \in Children(x)}]
<1> DEFINE nodes == DOMAIN node
           next  == [x \in nodes |-> Children(x)]
           f     == Reached(nodes, next)
           P(g)  == g = [x \in nodes |-> {x} \cup UNION {g[c] : c \in Children(x)}]
<1>1. P(f)
  <2>1. \A x \in nodes : next[x] = Children(x) /\ next[x] \subseteq nodes
    BY ChildrenAre
  <2> HIDE DEF next
  <2>2. \A x \in nodes : f[x] = {x} \cup UNION {f[c] : c \in Children(x)}
    BY <2>1, ReachedIs
  <2>3. f = [x \in nodes |-> f[x]]
    BY DEF Reached
  <2> HIDE DEF f
  <2> QED
    BY <2>2, <2>3
<1>2. NodesUnder = CHOOSE g : P(g)
  BY DEF NodesUnder
<1> HIDE DEF P
<1>3. P(NodesUnder)
  BY <1>1, <1>2
<1> QED
  BY <1>3 DEF P

\* In a tree with heights the leaves are at one depth under every node.
LEMMA LeafDepthsAre ==
  ASSUME Good(node), NEW height, IsHeight(node, height), NEW x \in DOMAIN node
  PROVE  LeafDepths[x] = {height[x]}
<1> DEFINE nodes == DOMAIN node
           Of(g, v) == IF node[v].leaf THEN {0}
                       ELSE {depth + 1 : depth \in UNION {g[c] : c \in Children(v)}}
           f == [v \in nodes |-> {height[v]}]
           P(g) == g = [v \in nodes |-> Of(g, v)]
<1>1. \A v \in nodes : Children(v) \subseteq nodes
  BY ChildrenAre
<1>2. ASSUME NEW g, NEW v \in nodes, \A c \in Children(v) : g[c] = {height[c]}
      PROVE  Of(g, v) = {height[v]}
  <2>1. CASE node[v].leaf
    BY <2>1 DEF IsHeight
  <2>2. CASE ~node[v].leaf
    <3>1. \A c \in Children(v) : height[v] = height[c] + 1
      BY <2>2 DEF IsHeight, Children
    <3>2. Children(v) # {}
      <4>1. node[v].n \in Nat
        BY GoodNodeIs DEF Good
      <4>2. 0 \in 0 .. node[v].n
        BY <4>1
      <4> QED
        BY <2>2, <4>2 DEF Children
    <3>3. \A d \in UNION {g[c] : c \in Children(v)} : d + 1 = height[v]
      BY <1>2, <3>1
    <3>4. \E d : d \in UNION {g[c] : c \in Children(v)}
      BY <1>2, <3>2
    <3> QED
      BY <2>2, <3>3, <3>4
  <2> QED
    BY <2>1, <2>2
<1>3. P(f)
  <2>1. \A v \in nodes : f[v] = {height[v]}
    OBVIOUS
  <2>2. \A v \in nodes : Of(f, v) = {height[v]}
    <3> HIDE DEF f, Of
    <3> QED
      BY <1>1, <1>2, <2>1
  <2> HIDE DEF Of
  <2> QED
    BY <2>2
<1>4. LeafDepths = CHOOSE g : P(g)
  BY DEF LeafDepths
<1> HIDE DEF P
<1>5. P(LeafDepths)
  BY <1>3, <1>4
<1>6. \A v \in nodes : LeafDepths[v] = Of(LeafDepths, v)
  <2> HIDE DEF Of
  <2> QED
    BY <1>5 DEF P
<1> HIDE DEF Of, f
<1> DEFINE B == {v \in nodes : LeafDepths[v] # {height[v]}}
<1>7. B = {}
  <2> SUFFICES ASSUME B # {} PROVE FALSE
    OBVIOUS
  <2>1. height \in [nodes -> Nat] /\ B \subseteq nodes
    BY DEF IsHeight
  <2> HIDE DEF B
  <2>2. PICK v \in B : \A w \in B : height[v] <= height[w]
    BY <2>1, LowestNode
  <2>3. v \in nodes /\ LeafDepths[v] # {height[v]}
    BY <2>2 DEF B
  <2>4. ASSUME NEW c \in Children(v) PROVE LeafDepths[c] = {height[c]}
    <3>1. height[v] = height[c] + 1
      BY <2>3 DEF IsHeight, Children
    <3>2. c \in nodes /\ height[c] \in Nat
      BY <1>1, <2>1, <2>3
    <3>3. c \notin B
      BY <2>2, <3>1, <3>2
    <3> QED
      BY <3>2, <3>3 DEF B
  <2>5. LeafDepths[v] = {height[v]}
    BY <1>2, <1>6, <2>3, <2>4
  <2> QED
    BY <2>3, <2>5
<1> QED
  BY <1>7

-----------------------------------------------------------------------------
(***************************************************************************)
(* The keys there is room for under every node: under the root all, under  *)
(* the child at a place those between the keys beside it.                  *)
(***************************************************************************)
Between(r, span, j) ==
  {key \in span : (j > 0 => r.keys[j - 1] <= key) /\ (j < r.n => key <= r.keys[j])}

\* The keys of a node are sorted and the node's own.
Sorted(r, span) ==
  /\ \A j \in 0 .. r.n - 1 : r.keys[j] \in span
  /\ \A j \in 0 .. r.n - 1 : \A m \in 0 .. j : r.keys[m] <= r.keys[j]

IsSpan(heap, span, t) ==
  /\ span \in [DOMAIN heap -> SUBSET Key]
  /\ t \in DOMAIN heap => span[t] = Key
  /\ \A x \in DOMAIN heap : Sorted(heap[x], span[x])
  /\ \A x \in DOMAIN heap : ~heap[x].leaf =>
       \A j \in 0 .. heap[x].n : span[heap[x].C[j]] = Between(heap[x], span[x], j)

\* In a tree a node is the child of one place, the root of none.
LEMMA OnlyLink ==
  ASSUME NEW heap, NEW t, Linked(heap, t), Good(heap),
         NEW x \in DOMAIN heap, ~heap[x].leaf, NEW i \in 0 .. heap[x].n
  PROVE  /\ heap[x].C[i] # t
         /\ \A v \in DOMAIN heap : ~heap[v].leaf =>
              \A j \in 0 .. heap[v].n : heap[v].C[j] = heap[x].C[i] => v = x /\ j = i
<1> DEFINE y == heap[x].C[i]
<1>1. y \in DOMAIN heap
  BY DEF Good, GoodNode
<1>2. \A v \in DOMAIN heap : 0 .. heap[v].n \subseteq Link
  <2> SUFFICES ASSUME NEW v \in DOMAIN heap PROVE 0 .. heap[v].n \subseteq Link
    OBVIOUS
  <2>1. heap[v].n \in 0 .. FULL
    BY GoodNodeIs DEF Good
  <2> QED
    BY <2>1, Degree DEF Link
<1>3. <<x, i>> \in LinksTo(heap, y)
  BY <1>2, InLinksTo
<1>4. y # t /\ Cardinality(LinksTo(heap, y)) = 1 /\ IsFiniteSet(LinksTo(heap, y))
  <2>1. IsFiniteSet(LinksTo(heap, y)) /\ Cardinality(LinksTo(heap, y)) = IF y = t THEN 0 ELSE 1
    BY <1>1 DEF Linked
  <2>2. LinksTo(heap, y) # {}
    BY <1>3
  <2>3. Cardinality(LinksTo(heap, y)) # 0
    BY <2>1, <2>2, FS_EmptySet
  <2> QED
    BY <2>1, <2>3
<1>5. PICK p : LinksTo(heap, y) = {p}
  BY <1>4, FS_Singleton
<1>6. ASSUME NEW v \in DOMAIN heap, ~heap[v].leaf, NEW j \in 0 .. heap[v].n, heap[v].C[j] = y
      PROVE  v = x /\ j = i
  <2>1. <<v, j>> \in LinksTo(heap, y)
    BY <1>2, <1>6, InLinksTo
  <2> QED
    BY <1>3, <1>5, <2>1
<1> QED
  BY <1>4, <1>6

\* The order of keys.
LEMMA KeysAreNumbers ==
  ASSUME NEW a \in Key, NEW b \in Key
  PROVE  a \in Int /\ (a <= b \/ b <= a) /\ (~(a <= b) => b <= a) /\ (a < b => a <= b)
BY TreeAssumption

LEMMA Transitive ==
  ASSUME NEW a \in Key, NEW b \in Key, NEW c \in Key, a <= b, b <= c
  PROVE  a <= c
<1>1. a \in Int /\ b \in Int /\ c \in Int
  BY TreeAssumption
<1> QED
  BY <1>1

\* The middle key of y divides what y had room for between the halves.
HalfSpans(heap, span, y, z) ==
  [v \in DOMAIN heap \cup {z} |->
     IF v = y THEN {key \in span[y] : key <= heap[y].keys[T - 1]}
     ELSE IF v = z THEN {key \in span[y] : heap[y].keys[T - 1] <= key}
     ELSE span[v]]

LEMMA SplitKeepsSpans ==
  ASSUME NEW heap, NEW x, NEW i, NEW z, CanSplit(heap, x, i, z),
         NEW t \in DOMAIN heap, Linked(heap, t),
         NEW span, IsSpan(heap, span, t)
  PROVE  IsSpan(SplitChild(heap, x, i, z), HalfSpans(heap, span, heap[x].C[i], z), t)
<1> DEFINE y == heap[x].C[i]
           new == SplitChild(heap, x, i, z)
           more == HalfSpans(heap, span, y, z)
           mid == heap[y].keys[T - 1]
<1>1. IsSplit(heap, x, i, y, z, new) /\ Good(heap)
  BY SplitWords DEF CanSplit
<1>2. /\ heap[x].n \in Nat /\ i \in 0 .. heap[x].n /\ heap[x].n < FULL /\ ~heap[x].leaf
      /\ x \in DOMAIN heap
  <2>1. heap[x].n \in 0 .. FULL /\ heap[x].n # FULL
    BY GoodNodeIs DEF CanSplit, Good, IsFull
  <2> QED
    BY <2>1, Degree DEF CanSplit
<1>3. heap[y].n = FULL /\ y = heap[x].C[i]
  BY DEF CanSplit, IsFull
<1>4. /\ y # t
      /\ \A v \in DOMAIN heap : ~heap[v].leaf =>
           \A j \in 0 .. heap[v].n : heap[v].C[j] = y => v = x /\ j = i
  BY <1>1, <1>2, OnlyLink
<1> HIDE DEF y, new
<1>5. /\ y \in DOMAIN heap /\ y # x /\ z \notin DOMAIN heap
      /\ DOMAIN new = DOMAIN heap \cup {z}
      /\ \A v \in DOMAIN heap \ {x, y} : new[v] = heap[v]
      /\ new[y].n = T - 1 /\ new[y].leaf = heap[y].leaf
      /\ new[y].C = heap[y].C /\ new[y].keys = heap[y].keys
      /\ new[z].n = T - 1 /\ new[z].leaf = heap[y].leaf
      /\ new[x].n = heap[x].n + 1 /\ ~new[x].leaf
  BY <1>1 DEF IsSplit
<1>6. /\ \A j \in 0 .. T - 2 : new[z].keys[j] = heap[y].keys[j + T]
      /\ ~heap[y].leaf => \A j \in 0 .. T - 1 : new[z].C[j] = heap[y].C[j + T]
  BY <1>1 DEF IsSplit
<1>7. \A j \in Slot : new[x].keys[j] =
        IF j = i THEN mid
        ELSE IF j > i /\ j <= heap[x].n THEN heap[x].keys[j - 1] ELSE heap[x].keys[j]
  BY <1>1 DEF IsSplit
<1>8. \A j \in Link : new[x].C[j] =
        IF j = i + 1 THEN z
        ELSE IF j > i + 1 /\ j <= heap[x].n + 1 THEN heap[x].C[j - 1] ELSE heap[x].C[j]
  BY <1>1 DEF IsSplit
<1>9. \A v \in DOMAIN heap : ~heap[v].leaf =>
        \A j \in 0 .. heap[v].n : heap[v].C[j] \in DOMAIN heap
  BY <1>1 DEF Good, GoodNode
<1>10. /\ span \in [DOMAIN heap -> SUBSET Key] /\ span[t] = Key
       /\ \A v \in DOMAIN heap : Sorted(heap[v], span[v])
       /\ \A v \in DOMAIN heap : ~heap[v].leaf =>
            \A j \in 0 .. heap[v].n : span[heap[v].C[j]] = Between(heap[v], span[v], j)
  BY DEF IsSpan
<1>11. /\ \A j \in 0 .. FULL - 1 : heap[y].keys[j] \in span[y] /\ heap[y].keys[j] \in Key
       /\ \A j \in 0 .. FULL - 1 : \A m \in 0 .. j : heap[y].keys[m] <= heap[y].keys[j]
  <2>1. Sorted(heap[y], span[y]) /\ span[y] \in SUBSET Key
    BY <1>5, <1>10
  <2> QED
    BY <1>3, <2>1 DEF Sorted
<1>12. mid \in Key /\ mid \in span[y]
  BY <1>11, Degree
<1>13. span[y] = Between(heap[x], span[x], i)
  BY <1>2, <1>3, <1>10
<1>14. /\ DOMAIN more = DOMAIN new
       /\ more[y] = {key \in span[y] : key <= mid}
       /\ more[z] = {key \in span[y] : mid <= key}
       /\ \A v \in DOMAIN heap \ {y} : more[v] = span[v]
  BY <1>5 DEF HalfSpans
<1>15. more \in [DOMAIN new -> SUBSET Key]
  <2>1. \A v \in DOMAIN new : more[v] \subseteq Key
    BY <1>5, <1>10, <1>14
  <2>2. more = [v \in DOMAIN new |-> more[v]]
    BY <1>5 DEF HalfSpans
  <2> QED
    BY <2>1, <2>2
<1> HIDE DEF more, mid
<1>16. more[t] = Key
  BY <1>4, <1>10, <1>14
<1>17. /\ \A j \in 0 .. i - 1 : new[x].keys[j] = heap[x].keys[j]
       /\ new[x].keys[i] = mid
       /\ \A j \in i + 1 .. heap[x].n : new[x].keys[j] = heap[x].keys[j - 1]
  <2>1. i \in Nat /\ i \in Slot /\ 0 .. i - 1 \subseteq Slot /\ i + 1 .. heap[x].n \subseteq Slot
    BY <1>2, Degree DEF Slot
  <2>2. ASSUME NEW j \in 0 .. i - 1 PROVE new[x].keys[j] = heap[x].keys[j]
    <3>1. j # i /\ ~(j > i) /\ j \in Slot
      BY <2>1, <2>2
    <3> QED
      BY <1>7, <3>1
  <2>3. ASSUME NEW j \in i + 1 .. heap[x].n PROVE new[x].keys[j] = heap[x].keys[j - 1]
    <3>1. j # i /\ j > i /\ j <= heap[x].n /\ j \in Slot
      BY <1>2, <2>1, <2>3
    <3> QED
      BY <1>7, <3>1
  <2> QED
    BY <1>7, <2>1, <2>2, <2>3
<1>18. /\ \A j \in 0 .. heap[x].n - 1 : heap[x].keys[j] \in span[x] /\ heap[x].keys[j] \in Key
       /\ \A j \in 0 .. heap[x].n - 1 : \A m \in 0 .. j : heap[x].keys[m] <= heap[x].keys[j]
  <2>1. Sorted(heap[x], span[x]) /\ span[x] \in SUBSET Key
    BY <1>2, <1>10
  <2> QED
    BY <2>1 DEF Sorted
<1>19. /\ mid \in span[x]
       /\ \A j \in 0 .. i - 1 : heap[x].keys[j] <= mid
       /\ \A j \in i .. heap[x].n - 1 : mid <= heap[x].keys[j]
  <2>1. /\ mid \in span[x] /\ (i > 0 => heap[x].keys[i - 1] <= mid)
        /\ i < heap[x].n => mid <= heap[x].keys[i]
    BY <1>12, <1>13 DEF Between
  <2>2. ASSUME NEW j \in 0 .. i - 1 PROVE heap[x].keys[j] <= mid
    <3>1. /\ i > 0 /\ i - 1 \in 0 .. heap[x].n - 1 /\ j \in 0 .. i - 1
          /\ j \in 0 .. heap[x].n - 1
      BY <1>2, <2>2
    <3>2. heap[x].keys[j] <= heap[x].keys[i - 1] /\ heap[x].keys[i - 1] <= mid
      BY <1>18, <2>1, <3>1
    <3> QED
      BY <1>12, <1>18, <3>1, <3>2, Transitive
  <2>3. ASSUME NEW j \in i .. heap[x].n - 1 PROVE mid <= heap[x].keys[j]
    <3>1. i < heap[x].n /\ i \in 0 .. j /\ j \in 0 .. heap[x].n - 1 /\ i \in 0 .. heap[x].n - 1
      BY <1>2, <2>3
    <3>2. mid <= heap[x].keys[i] /\ heap[x].keys[i] <= heap[x].keys[j]
      BY <1>18, <2>1, <3>1
    <3> QED
      BY <1>12, <1>18, <3>1, <3>2, Transitive
  <2> QED
    BY <2>1, <2>2, <2>3
<1>20. Sorted(new[x], span[x])
  <2> DEFINE n == heap[x].n
  <2>1. n \in Nat /\ i \in Nat /\ i <= n /\ new[x].n = n + 1
    BY <1>2, <1>5
  <2> HIDE DEF n
  <2>2. ASSUME NEW j \in 0 .. n PROVE new[x].keys[j] \in span[x] /\ new[x].keys[j] \in Key
    <3>1. CASE j \in 0 .. i - 1
      <4>1. j \in 0 .. n - 1
        BY <2>1, <3>1
      <4> QED
        BY <1>17, <1>18, <3>1, <4>1 DEF n
    <3>2. CASE j = i
      BY <1>12, <1>17, <1>19, <3>2
    <3>3. CASE j \in i + 1 .. n
      <4>1. j - 1 \in 0 .. n - 1
        BY <2>1, <3>3
      <4>2. new[x].keys[j] = heap[x].keys[j - 1]
        BY <1>17, <3>3 DEF n
      <4> QED
        BY <1>18, <4>1, <4>2 DEF n
    <3> QED
      BY <2>1, <3>1, <3>2, <3>3
  <2>3. ASSUME NEW j \in 0 .. n, NEW m \in 0 .. j PROVE new[x].keys[m] <= new[x].keys[j]
    <3>1. CASE j \in 0 .. i - 1
      <4>1. m \in 0 .. i - 1 /\ j \in 0 .. n - 1 /\ m \in 0 .. j
        BY <2>1, <3>1
      <4> QED
        BY <1>17, <1>18, <3>1, <4>1 DEF n
    <3>2. CASE j = i
      <4>1. m = i \/ m \in 0 .. i - 1
        BY <2>1, <3>2
      <4> QED
        BY <1>12, <1>17, <1>19, <3>2, <4>1, KeysAreNumbers
    <3>3. CASE j \in i + 1 .. n
      <4>1. new[x].keys[j] = heap[x].keys[j - 1] /\ j - 1 \in i .. n - 1 /\ j - 1 \in 0 .. n - 1
        <5>1. j - 1 \in i .. n - 1 /\ j - 1 \in 0 .. n - 1
          BY <2>1, <3>3
        <5> QED
          BY <1>17, <3>3, <5>1 DEF n
      <4>2. CASE m \in 0 .. i - 1
        <5>1. m \in 0 .. j - 1
          BY <2>1, <3>3, <4>2
        <5> QED
          BY <1>17, <1>18, <4>1, <4>2, <5>1 DEF n
      <4>3. CASE m = i
        BY <1>17, <1>19, <4>1, <4>3 DEF n
      <4>4. CASE m \in i + 1 .. n
        <5>1. m - 1 \in 0 .. j - 1
          BY <2>1, <3>3, <4>4
        <5>2. new[x].keys[m] = heap[x].keys[m - 1]
          BY <1>17, <4>4 DEF n
        <5> QED
          BY <1>18, <4>1, <5>1, <5>2 DEF n
      <4> QED
        BY <2>1, <3>3, <4>2, <4>3, <4>4
    <3> QED
      BY <2>1, <3>1, <3>2, <3>3
  <2>4. n + 1 - 1 = n
    BY <2>1
  <2> QED
    BY <2>1, <2>2, <2>3, <2>4 DEF Sorted
<1>21. ASSUME NEW v \in DOMAIN new PROVE Sorted(new[v], more[v])
  <2>1. CASE v = x
    BY <1>2, <1>5, <1>14, <1>20, <2>1
  <2>2. CASE v = y
    <3>1. /\ T - 1 \in 0 .. FULL - 1
          /\ \A j \in 0 .. T - 1 - 1 : j \in 0 .. FULL - 1 /\ j \in 0 .. T - 1
      BY Degree
    <3>2. \A j \in 0 .. T - 1 - 1 : heap[y].keys[j] \in more[y]
      BY <1>11, <1>14, <3>1 DEF mid
    <3> QED
      BY <1>5, <1>11, <2>2, <3>1, <3>2 DEF Sorted
  <2>3. CASE v = z
    <3>1. \A j \in 0 .. T - 1 - 1 :
            /\ j \in 0 .. T - 2 /\ j + T \in 0 .. FULL - 1 /\ T - 1 \in 0 .. j + T
            /\ \A m \in 0 .. j : m \in 0 .. T - 2 /\ m + T \in 0 .. j + T
      BY Degree
    <3>2. \A j \in 0 .. T - 1 - 1 : new[z].keys[j] \in more[z]
      BY <1>6, <1>11, <1>14, <3>1 DEF mid
    <3>3. \A j \in 0 .. T - 1 - 1 : \A m \in 0 .. j : new[z].keys[m] <= new[z].keys[j]
      BY <1>6, <1>11, <3>1
    <3> QED
      BY <1>5, <2>3, <3>2, <3>3 DEF Sorted
  <2>4. CASE v # x /\ v # y /\ v # z
    <3>1. v \in DOMAIN heap /\ new[v] = heap[v] /\ more[v] = span[v]
      BY <1>5, <1>14, <2>4
    <3> QED
      BY <1>10, <3>1
  <2> QED
    BY <2>1, <2>2, <2>3, <2>4
<1>22. \A v \in DOMAIN heap : ~heap[v].leaf => \A j \in 0 .. heap[v].n :
         v # x \/ j # i => more[heap[v].C[j]] = Between(heap[v], span[v], j)
  BY <1>4, <1>9, <1>10, <1>14
<1>23. ASSUME NEW v \in DOMAIN new, ~new[v].leaf, NEW j \in 0 .. new[v].n
       PROVE  more[new[v].C[j]] = Between(new[v], more[v], j)
  <2>1. CASE v = x
    <3>1. j \in Link /\ j \in Int /\ 0 <= j /\ j <= heap[x].n + 1
      BY <1>2, <1>5, <1>23, <2>1, Degree DEF Link
    <3>2. \A key \in span[x] : key \in Key
      BY <1>2, <1>10
    <3>3. CASE j = i + 1
      <4>1. new[x].C[j] = z
        BY <1>8, <3>1, <3>3
      <4>2. new[x].keys[i] = mid /\ j > 0 /\ j - 1 = i
        BY <1>2, <1>17, <3>3
      <4>3. j < new[x].n => i < heap[x].n /\ new[x].keys[j] = heap[x].keys[i]
        <5>1. SUFFICES ASSUME j < new[x].n
                       PROVE  i < heap[x].n /\ new[x].keys[j] = heap[x].keys[i]
          OBVIOUS
        <5>2. i < heap[x].n /\ j \in i + 1 .. heap[x].n
          BY <1>2, <1>5, <3>3, <5>1
        <5> QED
          BY <1>17, <4>2, <5>2
      <4>4. i < heap[x].n => j < new[x].n
        BY <1>2, <1>5, <3>3
      <4>5. ASSUME NEW key \in span[x], mid <= key
            PROVE  i > 0 => heap[x].keys[i - 1] <= key
        <5>1. SUFFICES ASSUME i > 0 PROVE heap[x].keys[i - 1] <= key
          OBVIOUS
        <5>2. i - 1 \in 0 .. i - 1 /\ i - 1 \in 0 .. heap[x].n - 1
          BY <1>2, <5>1
        <5>3. heap[x].keys[i - 1] <= mid /\ heap[x].keys[i - 1] \in Key
          BY <1>18, <1>19, <5>2
        <5> QED
          BY <1>12, <3>2, <4>5, <5>3, Transitive
      <4>6. \A key \in span[x] : mid <= key =>
              (key \in Between(heap[x], span[x], i) <=> key \in Between(new[x], span[x], j))
        BY <4>2, <4>3, <4>4, <4>5 DEF Between
      <4>7. \A key : key \in Between(new[x], span[x], j) => key \in span[x] /\ mid <= key
        BY <4>2 DEF Between
      <4>8. \A key : key \in more[z] <=> key \in Between(heap[x], span[x], i) /\ mid <= key
        BY <1>13, <1>14
      <4>9. \A key : key \in more[z] <=> key \in Between(new[x], span[x], j)
        <5>1. \A key : key \in Between(heap[x], span[x], i) => key \in span[x]
          BY DEF Between
        <5> QED
          BY <4>6, <4>7, <4>8, <5>1
      <4>10. more[z] = Between(new[x], span[x], j)
        <5>1. more[z] \subseteq Between(new[x], span[x], j)
          BY <4>9
        <5>2. Between(new[x], span[x], j) \subseteq more[z]
          BY <4>9
        <5> QED
          BY <5>1, <5>2
      <4> QED
        BY <1>2, <1>5, <1>14, <2>1, <4>1, <4>10
    <3>4. CASE j = i
      <4>1. new[x].C[j] = y
        <5>1. j # i + 1 /\ ~(j > i + 1)
          BY <1>2, <3>4
        <5> QED
          BY <1>3, <1>8, <3>1, <3>4, <5>1
      <4>2. new[x].keys[j] = mid /\ j < new[x].n
        BY <1>2, <1>5, <1>17, <3>4
      <4>3. i > 0 => new[x].keys[j - 1] = heap[x].keys[i - 1]
        <5>1. i > 0 => i - 1 \in 0 .. i - 1
          BY <1>2
        <5> QED
          BY <1>17, <3>4, <5>1
      <4>5. ASSUME NEW key \in span[x], key <= mid
            PROVE  i < heap[x].n => key <= heap[x].keys[i]
        <5>1. SUFFICES ASSUME i < heap[x].n PROVE key <= heap[x].keys[i]
          OBVIOUS
        <5>2. i \in i .. heap[x].n - 1 /\ i \in 0 .. heap[x].n - 1
          BY <1>2, <5>1
        <5>3. mid <= heap[x].keys[i] /\ heap[x].keys[i] \in Key
          BY <1>18, <1>19, <5>2
        <5> QED
          BY <1>12, <3>2, <4>5, <5>3, Transitive
      <4>6. \A key \in span[x] : key <= mid =>
              (key \in Between(heap[x], span[x], i) <=> key \in Between(new[x], span[x], j))
        BY <3>4, <4>2, <4>3, <4>5 DEF Between
      <4>7. \A key : key \in Between(new[x], span[x], j) => key \in span[x] /\ key <= mid
        BY <4>2 DEF Between
      <4>8. \A key : key \in more[y] <=> key \in Between(heap[x], span[x], i) /\ key <= mid
        BY <1>13, <1>14
      <4>9. \A key : key \in more[y] <=> key \in Between(new[x], span[x], j)
        <5>1. \A key : key \in Between(heap[x], span[x], i) => key \in span[x]
          BY DEF Between
        <5> QED
          BY <4>6, <4>7, <4>8, <5>1
      <4>10. more[y] = Between(new[x], span[x], j)
        <5>1. more[y] \subseteq Between(new[x], span[x], j)
          BY <4>9
        <5>2. Between(new[x], span[x], j) \subseteq more[y]
          BY <4>9
        <5> QED
          BY <5>1, <5>2
      <4> QED
        BY <1>2, <1>5, <1>14, <2>1, <4>1, <4>10
    <3>5. CASE j < i
      <4>1. j # i + 1 /\ ~(j > i + 1) /\ j \in 0 .. heap[x].n /\ j \in 0 .. i - 1 /\ j # i
        BY <1>2, <3>1, <3>5
      <4>2. new[x].C[j] = heap[x].C[j]
        BY <1>8, <3>1, <4>1
      <4>3. new[x].keys[j] = heap[x].keys[j] /\ j < new[x].n /\ j < heap[x].n
        BY <1>2, <1>5, <1>17, <3>5, <4>1
      <4>4. j > 0 => new[x].keys[j - 1] = heap[x].keys[j - 1]
        <5>1. j > 0 => j - 1 \in 0 .. i - 1
          BY <1>2, <4>1
        <5> QED
          BY <1>17, <5>1
      <4>5. Between(new[x], span[x], j) = Between(heap[x], span[x], j)
        BY <4>3, <4>4 DEF Between
      <4> QED
        BY <1>2, <1>5, <1>14, <1>22, <2>1, <4>1, <4>2, <4>5
    <3>6. CASE j > i + 1
      <4>1. PICK m : m = j - 1
        OBVIOUS
      <4>2. m \in 0 .. heap[x].n /\ m # i /\ m \in i + 1 .. heap[x].n /\ m > 0 /\ j > 0
        BY <1>2, <3>1, <3>6, <4>1
      <4>3. new[x].C[j] = heap[x].C[m]
        <5>1. j # i + 1 /\ j > i + 1 /\ j <= heap[x].n + 1
          BY <1>2, <3>1, <3>6
        <5> QED
          BY <1>8, <3>1, <4>1, <5>1
      <4>4. new[x].keys[m] = heap[x].keys[m - 1]
        BY <1>17, <4>2
      <4>5. j < new[x].n <=> m < heap[x].n
        BY <1>2, <1>5, <3>1, <4>1
      <4>6. j < new[x].n => new[x].keys[j] = heap[x].keys[m]
        <5>1. j < new[x].n => j \in i + 1 .. heap[x].n
          BY <1>2, <1>5, <3>1, <3>6
        <5> QED
          BY <1>17, <4>1, <5>1
      <4>7. Between(new[x], span[x], j) = Between(heap[x], span[x], m)
        BY <4>1, <4>2, <4>4, <4>5, <4>6 DEF Between
      <4> QED
        BY <1>2, <1>5, <1>14, <1>22, <2>1, <4>2, <4>3, <4>7
    <3> QED
      BY <1>2, <3>1, <3>3, <3>4, <3>5, <3>6
  <2>2. CASE v = y
    <3>1. j \in 0 .. T - 1 /\ j \in 0 .. FULL /\ ~heap[y].leaf /\ j < FULL
      BY <1>5, <1>23, <2>2, Degree
    <3>2. more[new[y].C[j]] = Between(heap[y], span[y], j)
      BY <1>3, <1>5, <1>22, <3>1
    <3>3. \A key \in span[y] : key \in Key
      BY <1>5, <1>10
    <3>4. CASE j = T - 1
      <4>1. Between(heap[y], span[y], j) = Between(new[y], more[y], j)
        <5>1. heap[y].keys[j] = mid /\ new[y].keys = heap[y].keys /\ ~(j < new[y].n)
          BY <1>5, <3>4, Degree DEF mid
        <5>2. j < heap[y].n
          BY <1>3, <3>1
        <5> QED
          BY <1>14, <5>1, <5>2 DEF Between
      <4> QED
        BY <2>2, <3>2, <4>1
    <3>5. CASE j < T - 1
      <4>1. new[y].keys = heap[y].keys /\ j < new[y].n /\ j < heap[y].n
        BY <1>3, <1>5, <3>1, <3>5
      <4>2. heap[y].keys[j] <= mid /\ heap[y].keys[j] \in Key
        <5>1. T - 1 \in 0 .. FULL - 1 /\ j \in 0 .. T - 1 /\ j \in 0 .. FULL - 1
          BY <3>1, <3>5, Degree
        <5> QED
          BY <1>11, <5>1 DEF mid
      <4>3. \A key \in span[y] : key <= heap[y].keys[j] => key <= mid
        BY <1>12, <3>3, <4>2, Transitive
      <4>4. Between(heap[y], span[y], j) = Between(new[y], more[y], j)
        BY <1>14, <4>1, <4>3 DEF Between
      <4> QED
        BY <2>2, <3>2, <4>4
    <3> QED
      BY <3>1, <3>4, <3>5, Degree
  <2>3. CASE v = z
    <3> PICK m : m = j + T
      OBVIOUS
    <3>1. /\ j \in 0 .. T - 1 /\ j \in Int /\ ~heap[y].leaf
          /\ m \in 0 .. FULL /\ m > 0 /\ m = j + T
      BY <1>5, <1>23, <2>3, Degree
    <3>2. new[z].C[j] = heap[y].C[m]
      BY <1>6, <3>1
    <3>3. more[new[z].C[j]] = Between(heap[y], span[y], m)
      BY <1>3, <1>5, <1>22, <3>1, <3>2
    <3>4. \A key \in span[y] : key \in Key
      BY <1>5, <1>10
    <3>5. m < heap[y].n <=> j < new[z].n
      BY <1>3, <1>5, <3>1, Degree
    <3>6. j < new[z].n => new[z].keys[j] = heap[y].keys[m]
      <4>1. j < new[z].n => j \in 0 .. T - 2
        BY <1>5, <3>1, Degree
      <4> QED
        BY <1>6, <3>1, <4>1
    <3>7. CASE j = 0
      <4>1. heap[y].keys[m - 1] = mid /\ ~(j > 0)
        <5>1. m - 1 = T - 1
          BY <3>1, <3>7, Degree
        <5> QED
          BY <3>7, <5>1 DEF mid
      <4>2. Between(heap[y], span[y], m) = Between(new[z], more[z], j)
        BY <1>14, <3>1, <3>5, <3>6, <4>1 DEF Between
      <4> QED
        BY <2>3, <3>3, <4>2
    <3>8. CASE j > 0
      <4>1. new[z].keys[j - 1] = heap[y].keys[m - 1]
        <5>1. j - 1 \in 0 .. T - 2 /\ (j - 1) + T = m - 1
          BY <3>1, <3>8, Degree
        <5> QED
          BY <1>6, <5>1
      <4>2. mid <= heap[y].keys[m - 1] /\ heap[y].keys[m - 1] \in Key
        <5>1. m - 1 \in 0 .. FULL - 1 /\ T - 1 \in 0 .. m - 1
          BY <3>1, <3>8, Degree
        <5> QED
          BY <1>11, <5>1 DEF mid
      <4>3. \A key \in span[y] : heap[y].keys[m - 1] <= key => mid <= key
        BY <1>12, <3>4, <4>2, Transitive
      <4>4. Between(heap[y], span[y], m) = Between(new[z], more[z], j)
        BY <1>14, <3>1, <3>5, <3>6, <3>8, <4>1, <4>3 DEF Between
      <4> QED
        BY <2>3, <3>3, <4>4
    <3> QED
      BY <3>1, <3>7, <3>8
  <2>4. CASE v # x /\ v # y /\ v # z
    <3>1. v \in DOMAIN heap /\ new[v] = heap[v] /\ more[v] = span[v]
      BY <1>5, <1>14, <2>4
    <3> QED
      BY <1>22, <1>23, <2>4, <3>1
  <2> QED
    BY <2>1, <2>2, <2>3, <2>4
<1> QED
  BY <1>15, <1>16, <1>21, <1>23 DEF IsSpan, new, more, y

-----------------------------------------------------------------------------
\* Where a scan of sorted keys stops: the keys before are not greater than the
\* one looked for, those from there on are greater.
LEMMA ScanDivides ==
  ASSUME NEW r, r.n \in 0 .. FULL, \A j \in 0 .. r.n - 1 : r.keys[j] \in Key,
         \A j \in 0 .. r.n - 1 : \A m \in 0 .. j : r.keys[m] <= r.keys[j],
         NEW key \in Key
  PROVE  LET at == LastNotGreater(r, key) + 1
         IN  /\ at \in 0 .. r.n
             /\ \A j \in 0 .. at - 1 : r.keys[j] <= key
             /\ \A j \in at .. r.n - 1 : key <= r.keys[j]
<1> DEFINE last == LastNotGreater(r, key)
           S == {-1} \cup {j \in 0 .. r.n - 1 : r.keys[j] <= key}
<1>1. r.n \in Nat
  BY Degree
<1>2. last \in -1 .. r.n - 1
  BY PlaceIs
<1>3. S \subseteq Int /\ S # {} /\ r.n - 1 \in Int /\ \A s \in S : s <= r.n - 1
  BY <1>1
<1>4. last \in S /\ \A s \in S : s <= last
  <2>1. last = Max(S)
    BY DEF LastNotGreater
  <2> HIDE DEF S, last
  <2> QED
    BY <1>3, <2>1, MaxIsGreatest
<1> HIDE DEF last
<1>5. ASSUME NEW j \in 0 .. (last + 1) - 1 PROVE r.keys[j] <= key
  <2>1. last \in 0 .. r.n - 1 /\ j \in 0 .. last /\ j \in 0 .. r.n - 1
    BY <1>1, <1>2, <1>5
  <2>2. r.keys[last] <= key
    BY <1>4, <2>1
  <2>3. r.keys[j] <= r.keys[last] /\ r.keys[j] \in Key /\ r.keys[last] \in Key
    BY <2>1
  <2> QED
    BY <2>2, <2>3, Transitive
<1>6. ASSUME NEW j \in last + 1 .. r.n - 1 PROVE key <= r.keys[j]
  <2>1. j \in 0 .. r.n - 1 /\ ~(j <= last)
    BY <1>1, <1>2, <1>6
  <2>2. ~(r.keys[j] <= key)
    BY <1>4, <2>1
  <2> QED
    BY <2>1, <2>2, KeysAreNumbers
<1>7. last + 1 \in 0 .. r.n
  BY <1>1, <1>2
<1> QED
  BY <1>5, <1>6, <1>7 DEF last

\* A key fits under the child the scan leads to.
LEMMA PlaceFits ==
  ASSUME NEW nodes, NEW r, GoodNode(nodes, r), NEW span, span \subseteq Key, Sorted(r, span),
         NEW key \in span
  PROVE  key \in Between(r, span, LastNotGreater(r, key) + 1)
<1> DEFINE at == LastNotGreater(r, key) + 1
<1>1. r.n \in 0 .. FULL /\ r.n \in Nat
  BY GoodNodeIs
<1>2. /\ \A j \in 0 .. r.n - 1 : r.keys[j] \in Key
      /\ \A j \in 0 .. r.n - 1 : \A m \in 0 .. j : r.keys[m] <= r.keys[j]
  BY DEF Sorted
<1>3. /\ at \in 0 .. r.n
      /\ \A j \in 0 .. at - 1 : r.keys[j] <= key
      /\ \A j \in at .. r.n - 1 : key <= r.keys[j]
  BY <1>1, <1>2, ScanDivides
<1> HIDE DEF at
<1>4. /\ at > 0 => at - 1 \in 0 .. at - 1
      /\ at < r.n => at \in at .. r.n - 1
  BY <1>1, <1>3
<1> QED
  BY <1>3, <1>4 DEF Between, at

\* A leaf stays sorted.
LEMMA WithKeySorted ==
  ASSUME NEW nodes, NEW r, GoodNode(nodes, r), r.n < FULL, r.leaf,
         NEW span, span \subseteq Key, Sorted(r, span), NEW key \in span
  PROVE  Sorted(WithKey(r, key), span)
<1> DEFINE at == LastNotGreater(r, key) + 1
           new == WithKey(r, key)
           n == r.n
<1>1. r.n \in 0 .. FULL /\ n \in Nat /\ n < FULL
  BY GoodNodeIs
<1>2. /\ \A j \in 0 .. r.n - 1 : r.keys[j] \in Key
      /\ \A j \in 0 .. r.n - 1 : r.keys[j] \in span
      /\ \A j \in 0 .. r.n - 1 : \A m \in 0 .. j : r.keys[m] <= r.keys[j]
  BY DEF Sorted
<1>3. /\ at \in 0 .. r.n
      /\ \A j \in 0 .. at - 1 : r.keys[j] <= key
      /\ \A j \in at .. r.n - 1 : key <= r.keys[j]
  BY <1>1, <1>2, ScanDivides
<1>4. /\ new.n = r.n + 1
      /\ \A j \in Slot : new.keys[j] =
           IF j = at THEN key ELSE IF j > at /\ j <= r.n THEN r.keys[j - 1] ELSE r.keys[j]
  BY WithKeyIs
<1>5. at \in Nat /\ at <= n /\ 0 .. n \subseteq Slot
  BY <1>1, <1>3, Degree DEF Slot
<1> HIDE DEF at, new
<1>6. \A j \in 0 .. at - 1 : new.keys[j] = r.keys[j] /\ j \in 0 .. n - 1
  <2> SUFFICES ASSUME NEW j \in 0 .. at - 1 PROVE new.keys[j] = r.keys[j] /\ j \in 0 .. n - 1
    OBVIOUS
  <2>1. j \in Slot /\ j # at /\ ~(j > at) /\ j \in 0 .. n - 1
    BY <1>1, <1>5
  <2> QED
    BY <1>4, <2>1
<1>7. new.keys[at] = key
  <2>1. at \in Slot
    BY <1>5
  <2> QED
    BY <1>4, <2>1
<1>8. \A j \in at + 1 .. n : new.keys[j] = r.keys[j - 1] /\ j - 1 \in at .. n - 1 /\ j - 1 \in 0 .. n - 1
  <2> SUFFICES ASSUME NEW j \in at + 1 .. n
               PROVE  new.keys[j] = r.keys[j - 1] /\ j - 1 \in at .. n - 1 /\ j - 1 \in 0 .. n - 1
    OBVIOUS
  <2>1. j \in Slot /\ j # at /\ j > at /\ j <= n /\ j - 1 \in at .. n - 1 /\ j - 1 \in 0 .. n - 1
    BY <1>1, <1>5
  <2> QED
    BY <1>4, <2>1
<1> HIDE DEF n
<1>9. key \in Key
  OBVIOUS
<1>10. ASSUME NEW j \in 0 .. n PROVE new.keys[j] \in span
  <2>1. j \in 0 .. at - 1 \/ j = at \/ j \in at + 1 .. n
    BY <1>1, <1>5
  <2> QED
    BY <1>2, <1>6, <1>7, <1>8, <2>1 DEF n
<1>11. ASSUME NEW j \in 0 .. n, NEW m \in 0 .. j PROVE new.keys[m] <= new.keys[j]
  <2>1. CASE j \in 0 .. at - 1
    <3>1. m \in 0 .. at - 1
      BY <1>5, <2>1
    <3> QED
      BY <1>2, <1>6, <2>1, <3>1 DEF n
  <2>2. CASE j = at
    <3>1. m \in 0 .. at - 1 \/ m = at
      BY <1>5, <2>2
    <3> QED
      BY <1>3, <1>6, <1>7, <1>9, <2>2, <3>1, KeysAreNumbers
  <2>3. CASE j \in at + 1 .. n
    <3>1. CASE m \in 0 .. at - 1
      <4>1. m \in 0 .. j - 1
        BY <1>5, <2>3, <3>1
      <4> QED
        BY <1>2, <1>6, <1>8, <2>3, <3>1, <4>1 DEF n
    <3>2. CASE m = at
      BY <1>3, <1>7, <1>8, <2>3, <3>2 DEF n
    <3>3. CASE m \in at + 1 .. n
      <4>1. m - 1 \in 0 .. j - 1
        BY <1>5, <2>3, <3>3
      <4> QED
        BY <1>2, <1>8, <2>3, <3>3, <4>1 DEF n
    <3>4. m \in 0 .. at - 1 \/ m = at \/ m \in at + 1 .. n
      BY <1>1, <1>5, <2>3
    <3> QED
      BY <3>1, <3>2, <3>3, <3>4
  <2> QED
    BY <1>1, <1>5, <2>1, <2>2, <2>3
<1>12. new.n - 1 = n
  BY <1>1, <1>4 DEF n
<1> QED
  BY <1>10, <1>11, <1>12 DEF Sorted, new

\* After a split Side leads to the half that has room for the key.
LEMMA SideFits ==
  ASSUME NEW heap, NEW x, NEW i, NEW z, CanSplit(heap, x, i, z),
         NEW t, NEW span, IsSpan(heap, span, t), NEW key \in span[heap[x].C[i]]
  PROVE  LET new == SplitChild(heap, x, i, z)
         IN  key \in HalfSpans(heap, span, heap[x].C[i], z)[new[x].C[Side(new[x], i, key)]]
<1> DEFINE y == heap[x].C[i]
           new == SplitChild(heap, x, i, z)
           more == HalfSpans(heap, span, y, z)
           mid == heap[y].keys[T - 1]
<1>1. IsSplit(heap, x, i, y, z, new) /\ Good(heap)
  BY SplitWords DEF CanSplit
<1>2. heap[x].n \in Nat /\ i \in 0 .. heap[x].n /\ heap[x].n < FULL /\ heap[y].n = FULL
  <2>1. heap[x].n \in 0 .. FULL /\ heap[x].n # FULL
    BY GoodNodeIs DEF CanSplit, Good, IsFull
  <2> QED
    BY <2>1, Degree DEF CanSplit, IsFull
<1>3. i \in Link /\ i + 1 \in Link /\ i # i + 1 /\ ~(i > i + 1) /\ i \in Slot
  BY <1>2, Degree DEF Link, Slot
<1>4. y = heap[x].C[i] /\ key \in span[y]
  OBVIOUS
<1> HIDE DEF y, new
<1>5. new[x].C[i] = y /\ new[x].C[i + 1] = z /\ new[x].keys[i] = mid
  BY <1>1, <1>3, <1>4 DEF IsSplit
<1>6. y \in DOMAIN heap /\ z \notin DOMAIN heap
  BY <1>1 DEF IsSplit
<1>7. mid \in Key /\ key \in Key
  <2>1. T - 1 \in 0 .. heap[y].n - 1
    BY <1>2, Degree
  <2>2. heap[y].keys[T - 1] \in span[y] /\ span[y] \subseteq Key
    BY <1>6, <2>1 DEF IsSpan, Sorted
  <2> QED
    BY <1>4, <2>2
<1>8. CASE mid < key
  <2>1. Side(new[x], i, key) = i + 1 /\ mid <= key
    BY <1>5, <1>7, <1>8, KeysAreNumbers DEF Side
  <2> QED
    BY <1>4, <1>5, <1>6, <2>1 DEF HalfSpans, y, new
<1>9. CASE ~(mid < key)
  <2>1. Side(new[x], i, key) = i
    BY <1>5, <1>9 DEF Side
  <2>2. key <= mid
    <3>1. \A a \in Key : \A b \in Key : ~(a < b) => b <= a
      BY TreeAssumption
    <3> HIDE DEF mid
    <3> QED
      BY <1>7, <1>9, <3>1
  <2> HIDE DEF mid
  <2>3. more[y] = {one \in span[y] : one <= mid}
    BY <1>6 DEF HalfSpans, mid
  <2> QED
    BY <1>4, <1>5, <2>1, <2>2, <2>3 DEF y, new
<1> QED
  BY <1>8, <1>9

-----------------------------------------------------------------------------
\* A new root over the old one: a level more, and room for every key.
\* A new root is one level above the old one.
LEMMA NewRootLevelled ==
  ASSUME NEW heap, Good(heap), NEW r \in DOMAIN heap, NEW s, s \notin DOMAIN heap,
         Levelled(heap)
  PROVE  Levelled(Alloc(heap, s, [NewNode(FALSE) EXCEPT !.C[0] = r]))
<1> DEFINE record == [NewNode(FALSE) EXCEPT !.C[0] = r]
           more   == Alloc(heap, s, record)
<1>1. record.n = 0 /\ ~record.leaf /\ record.C[0] = r
  <2>1. 0 \in 0 .. FULL
    BY Degree
  <2> QED
    BY <2>1 DEF NewNode
<1>2. /\ DOMAIN more = DOMAIN heap \cup {s}
      /\ more[s] = record
      /\ \A v \in DOMAIN heap : more[v] = heap[v]
  BY DEF Alloc
<1> HIDE DEF record, more
<1>3. \A v \in DOMAIN heap : ~heap[v].leaf =>
        \A j \in 0 .. heap[v].n : heap[v].C[j] \in DOMAIN heap
  BY DEF Good, GoodNode
<1>4. \A j \in 0 .. record.n : j = 0
  BY <1>1
<1>5. PICK height : IsHeight(heap, height)
  BY DEF Levelled
<1> DEFINE high == [v \in DOMAIN heap \cup {s} |-> IF v = s THEN height[r] + 1 ELSE height[v]]
<1>6. /\ high \in [DOMAIN more -> Nat]
      /\ high[s] = height[r] + 1
      /\ \A v \in DOMAIN heap : high[v] = height[v]
  BY <1>2, <1>5 DEF IsHeight
<1> HIDE DEF high
<1>7. \A v \in DOMAIN more : more[v].leaf => high[v] = 0
  BY <1>1, <1>2, <1>5, <1>6 DEF IsHeight
<1>8. ASSUME NEW v \in DOMAIN more, ~more[v].leaf, NEW j \in 0 .. more[v].n
      PROVE  high[v] = high[more[v].C[j]] + 1
  <2>1. CASE v = s
    BY <1>1, <1>2, <1>4, <1>6, <1>8, <2>1
  <2>2. CASE v # s
    BY <1>2, <1>3, <1>5, <1>6, <1>8, <2>2 DEF IsHeight
  <2> QED
    BY <2>1, <2>2
<1>9. IsHeight(more, high)
  BY <1>6, <1>7, <1>8 DEF IsHeight
<1> QED
  BY <1>9 DEF Levelled, more, record

LEMMA NewRootOrders ==
  ASSUME NEW heap, Good(heap), NEW r \in DOMAIN heap, NEW s, s \notin DOMAIN heap,
         Levelled(heap), NEW span, IsSpan(heap, span, r)
  PROVE  LET more == Alloc(heap, s, [NewNode(FALSE) EXCEPT !.C[0] = r])
             wide == [v \in DOMAIN heap \cup {s} |-> IF v = s THEN Key ELSE span[v]]
         IN  Levelled(more) /\ IsSpan(more, wide, s)
<1> DEFINE record == [NewNode(FALSE) EXCEPT !.C[0] = r]
           more   == Alloc(heap, s, record)
           wide   == [v \in DOMAIN heap \cup {s} |-> IF v = s THEN Key ELSE span[v]]
<1>1. record.n = 0 /\ ~record.leaf /\ record.C[0] = r
  <2>1. 0 \in 0 .. FULL
    BY Degree
  <2> QED
    BY <2>1 DEF NewNode
<1>2. /\ DOMAIN more = DOMAIN heap \cup {s}
      /\ more[s] = record
      /\ \A v \in DOMAIN heap : more[v] = heap[v]
  BY DEF Alloc
<1>3. Levelled(more)
  BY NewRootLevelled
<1> HIDE DEF record, more
<1>5. \A v \in DOMAIN heap : ~heap[v].leaf =>
        \A j \in 0 .. heap[v].n : heap[v].C[j] \in DOMAIN heap
  BY DEF Good, GoodNode
<1>4. \A j \in 0 .. record.n : j = 0
  BY <1>1
<1>6. /\ wide \in [DOMAIN more -> SUBSET Key]
      /\ wide[s] = Key
      /\ \A v \in DOMAIN heap : wide[v] = span[v]
  BY <1>2 DEF IsSpan
<1>7. span[r] = Key
  BY DEF IsSpan
<1> HIDE DEF wide
<1>8. ASSUME NEW v \in DOMAIN more PROVE Sorted(more[v], wide[v])
  <2>1. CASE v = s
    <3>1. \A j \in 0 .. record.n - 1 : FALSE
      BY <1>1
    <3> QED
      BY <1>2, <2>1, <3>1 DEF Sorted
  <2>2. CASE v # s
    BY <1>2, <1>6, <2>2 DEF IsSpan
  <2> QED
    BY <2>1, <2>2
<1>9. ASSUME NEW v \in DOMAIN more, ~more[v].leaf, NEW j \in 0 .. more[v].n
      PROVE  wide[more[v].C[j]] = Between(more[v], wide[v], j)
  <2>1. CASE v = s
    <3>1. j = 0 /\ more[v] = record
      BY <1>2, <1>4, <1>9, <2>1
    <3>2. wide[record.C[0]] = Key
      BY <1>1, <1>6, <1>7
    <3>3. Between(record, Key, 0) = Key
      BY <1>1 DEF Between
    <3> QED
      BY <1>6, <2>1, <3>1, <3>2, <3>3
  <2>2. CASE v # s
    BY <1>2, <1>5, <1>6, <1>9, <2>2 DEF IsSpan
  <2> QED
    BY <2>1, <2>2
<1>10. IsSpan(more, wide, s)
  BY <1>6, <1>8, <1>9 DEF IsSpan
<1> QED
  BY <1>3, <1>10 DEF more, wide, record

-----------------------------------------------------------------------------
\* The levels are even, and every node has room for the keys in it and under
\* it; the key of a call has its place under the node the call is on.
InSpan(span) == IsSpan(node, span, Top) /\ (pc = "insertNonFull" => k \in span[this])

OrderInv == Levelled(node) /\ \E span : InSpan(span)

LEMMA InitIsOrdered == Init => OrderInv
<1> SUFFICES ASSUME Init PROVE OrderInv
  OBVIOUS
<1> DEFINE none == [x \in {} |-> 0]
<1>1. DOMAIN node = {} /\ pc # "insertNonFull"
  BY DEF Init
<1>2. IsHeight(node, none)
  BY <1>1 DEF IsHeight
<1>3. none \in [{} -> SUBSET Key]
  OBVIOUS
<1>4. IsSpan(node, none, Top)
  BY <1>1, <1>3 DEF IsSpan
<1> QED
  BY <1>1, <1>2, <1>4 DEF OrderInv, InSpan, Levelled

LEMMA LeafStepOrders ==
  ASSUME IInv, OrderInv, InsertNonFullLeaf
  PROVE  OrderInv'
<1>1. /\ this \in DOMAIN node /\ node[this].leaf /\ node[this].n < FULL
      /\ k \in Key /\ pc = "insertNonFull" /\ Good(node)
  BY DEF IInv, Pointers, InsertNonFullLeaf
<1>2. PICK span : InSpan(span)
  BY DEF OrderInv
<1>3. PICK height : IsHeight(node, height)
  BY DEF OrderInv, Levelled
<1>4. GoodNode(DOMAIN node, node[this])
  BY <1>1 DEF Good
<1>5. WithKey(node[this], k).leaf
  BY <1>1, <1>4, WithKeyIs
<1>6. Sorted(WithKey(node[this], k), span[this])
  <2>1. span[this] \subseteq Key /\ Sorted(node[this], span[this]) /\ k \in span[this]
    BY <1>1, <1>2 DEF InSpan, IsSpan
  <2> QED
    BY <1>1, <1>4, <2>1, WithKeySorted
<1>7. /\ DOMAIN node' = DOMAIN node
      /\ node'[this] = WithKey(node[this], k)
      /\ \A x \in DOMAIN node : x # this => node'[x] = node[x]
  BY <1>1 DEF InsertNonFullLeaf
<1>8. Top' = Top /\ pc' # "insertNonFull"
  BY DEF InsertNonFullLeaf, Top
<1>9. IsHeight(node', height)
  BY <1>1, <1>3, <1>5, <1>7 DEF IsHeight
<1>10. IsSpan(node', span, Top)
  <2>1. IsSpan(node, span, Top)
    BY <1>2 DEF InSpan
  <2>2. \A x \in DOMAIN node' : Sorted(node'[x], span[x])
    BY <1>6, <1>7, <2>1 DEF IsSpan
  <2>3. \A x \in DOMAIN node' : ~node'[x].leaf => node'[x] = node[x]
    BY <1>5, <1>7
  <2> QED
    BY <1>7, <2>1, <2>2, <2>3 DEF IsSpan
<1> QED
  BY <1>8, <1>9, <1>10 DEF OrderInv, InSpan, Levelled

\* The key fits under the child the call goes on with.
LEMMA ChildFits ==
  ASSUME IInv, pc = "insertNonFull", ~node[this].leaf, NEW span, InSpan(span)
  PROVE  k \in span[node[this].C[ChildPlace]]
<1>1. this \in DOMAIN node /\ GoodNode(DOMAIN node, node[this])
  BY DEF IInv, Pointers, Good
<1>2. span[this] \subseteq Key /\ Sorted(node[this], span[this]) /\ k \in span[this]
  BY <1>1 DEF InSpan, IsSpan
<1>3. k \in Between(node[this], span[this], ChildPlace)
  BY <1>1, <1>2, PlaceFits DEF ChildPlace
<1>4. ChildPlace \in 0 .. node[this].n
  BY ChildIs
<1> QED
  BY <1>1, <1>3, <1>4 DEF InSpan, IsSpan

LEMMA DescendStepOrders ==
  ASSUME IInv, OrderInv, Descend
  PROVE  OrderInv'
<1>1. PICK span : InSpan(span)
  BY DEF OrderInv
<1>2. k \in span[node[this].C[ChildPlace]]
  BY <1>1, ChildFits DEF Descend
<1>3. /\ this' = node[this].C[ChildPlace]
      /\ UNCHANGED <<node, root, pc, k, top>>
  BY DEF Descend
<1>4. Top' = Top
  BY <1>3 DEF Top
<1> QED
  BY <1>1, <1>2, <1>3, <1>4 DEF OrderInv, InSpan

LEMMA SplitStepOrders ==
  ASSUME IInv, OrderInv, SplitAndDescend
  PROVE  OrderInv'
<1> DEFINE i == ChildPlace
           y == node[this].C[i]
<1>1. /\ node' = SplitChild(node, this, i, Fresh)
      /\ this' = node'[this].C[Side(node'[this], i, k)]
      /\ UNCHANGED <<root, pc, k, top>>
      /\ pc = "insertNonFull" /\ ~node[this].leaf
  BY DEF SplitAndDescend
<1>2. PICK span : InSpan(span)
  BY DEF OrderInv
<1>3. k \in span[y]
  BY <1>1, <1>2, ChildFits
<1>4. CanSplit(node, this, i, Fresh)
  <2>1. i \in 0 .. node[this].n /\ IsFull(node, node[this].C[i])
    BY ChildIs DEF SplitAndDescend
  <2>2. Good(node) /\ this \in DOMAIN node /\ node[this].n < FULL
    BY <1>1 DEF IInv, Pointers
  <2>3. Fresh \notin DOMAIN node
    BY NodesAreNumbers DEF IInv
  <2>4. ~IsFull(node, this)
    BY <2>2, Degree DEF IsFull
  <2> QED
    BY <1>1, <2>1, <2>2, <2>3, <2>4 DEF CanSplit
<1>5. Top \in DOMAIN node /\ Linked(node, Top)
  BY <1>1 DEF IInv, Pointers, Top
<1>6. Top' = Top
  BY <1>1 DEF Top
<1> DEFINE more == HalfSpans(node, span, y, Fresh)
<1> HIDE DEF i
<1>7. Levelled(node')
  <2>1. PICK height : IsHeight(node, height)
    BY DEF OrderInv, Levelled
  <2> QED
    BY <1>1, <1>4, <2>1, SplitKeepsHeights DEF Levelled
<1>8. IsSpan(node', more, Top)
  <2>1. IsSpan(node, span, Top)
    BY <1>2 DEF InSpan
  <2>2. IsSpan(SplitChild(node, this, i, Fresh), more, Top)
    BY <1>4, <1>5, <2>1, SplitKeepsSpans
  <2> QED
    BY <1>1, <2>2
<1>9. k \in more[this']
  <2>1. IsSpan(node, span, Top)
    BY <1>2 DEF InSpan
  <2> QED
    BY <1>1, <1>3, <1>4, <2>1, SideFits
<1> HIDE DEF more
<1>10. IsSpan(node', more, Top') /\ k' \in more[this']
  BY <1>1, <1>6, <1>8, <1>9
<1> QED
  BY <1>7, <1>10 DEF OrderInv, InSpan

LEMMA InsertEmptyOrders ==
  ASSUME IInv, pc = "idle", NEW key \in Key, InsertEmpty(key)
  PROVE  OrderInv'
<1> DEFINE r == [NewNode(TRUE) EXCEPT !.keys[0] = key, !.n = 1]
           span == [v \in {Fresh} |-> Key]
           height == [v \in {Fresh} |-> 0]
<1>1. /\ root = NULL /\ node' = Alloc(node, Fresh, r)
      /\ UNCHANGED <<pc, this, k, top>>
  BY DEF InsertEmpty
<1>2. DOMAIN node = {}
  BY <1>1 DEF IInv, Pointers
<1>3. r.n = 1 /\ r.leaf /\ r.keys[0] = key
  <2>1. 0 \in Slot
    BY Degree DEF Slot
  <2> QED
    BY <2>1 DEF NewNode
<1> HIDE DEF r
<1>4. DOMAIN node' = {Fresh} /\ node'[Fresh] = r
  BY <1>1, <1>2 DEF Alloc
<1>5. IsHeight(node', height)
  BY <1>3, <1>4 DEF IsHeight
<1>6. Sorted(r, Key)
  <2>1. \A j \in 0 .. r.n - 1 : j = 0 /\ \A m \in 0 .. j : m = 0
    BY <1>3
  <2> QED
    BY <1>3, <2>1, KeysAreNumbers DEF Sorted
<1>7. IsSpan(node', span, Top')
  <2>1. \A t : t \in {Fresh} => span[t] = Key
    OBVIOUS
  <2>2. span \in [{Fresh} -> SUBSET Key]
    OBVIOUS
  <2> HIDE DEF span
  <2> QED
    BY <1>3, <1>4, <1>6, <2>1, <2>2 DEF IsSpan
<1> QED
  BY <1>1, <1>5, <1>7 DEF OrderInv, InSpan, Levelled

LEMMA InsertRootOrders ==
  ASSUME IInv, OrderInv, pc = "idle", NEW key \in Key, InsertRoot(key)
  PROVE  OrderInv'
<1>1. /\ root # NULL
      /\ this' = root /\ k' = key /\ top' = NULL
      /\ UNCHANGED <<node, root>>
  BY DEF InsertRoot
<1>2. root \in DOMAIN node /\ Top = root /\ Top' = root
  BY <1>1, IdleTree DEF IInv, Pointers, Top
<1>3. PICK span : InSpan(span)
  BY DEF OrderInv
<1>4. span[root] = Key
  BY <1>2, <1>3 DEF InSpan, IsSpan
<1> QED
  BY <1>1, <1>2, <1>3, <1>4 DEF OrderInv, InSpan

LEMMA InsertFullRootOrders ==
  ASSUME IInv, OrderInv, pc = "idle", NEW key \in Key, InsertFullRoot(key)
  PROVE  OrderInv'
<1> DEFINE s == Fresh
           heap == Alloc(node, s, [NewNode(FALSE) EXCEPT !.C[0] = root])
           split == SplitChild(heap, s, 0, s + 1)
<1>1. /\ root # NULL /\ IsFull(node, root)
      /\ node' = split /\ top' = s
      /\ this' = split[s].C[Side(split[s], 0, key)]
      /\ k' = key /\ pc' = "insertNonFull" /\ root' = root
  BY DEF InsertFullRoot
<1>2. /\ Good(node) /\ root \in DOMAIN node /\ Top = root
      /\ Linked(node, root) /\ Filled(node, root)
  BY <1>1, IdleTree DEF IInv, Pointers
<1>3. s \notin DOMAIN node /\ s + 1 \notin DOMAIN node /\ s + 1 # s /\ s # NULL
  <2>1. s \in Nat
    BY DEF IInv, Numbered
  <2> QED
    BY <2>1, NodesAreNumbers DEF IInv
<1>4. Top' = s
  BY <1>1, <1>3 DEF Top
<1>5. /\ s \in DOMAIN heap
      /\ CanSplit(heap, s, 0, s + 1)
      /\ Linked(heap, s)
  <2>1. /\ DOMAIN heap = DOMAIN node \cup {s}
        /\ CanSplit(heap, s, 0, s + 1)
        /\ Linked(heap, s)
    <3> HIDE DEF s
    <3> QED
      BY <1>1, <1>2, <1>3, NewRoot
  <2> HIDE DEF s, heap
  <2> QED
    BY <2>1
<1>6. PICK span : IsSpan(node, span, root)
  BY <1>2 DEF OrderInv, InSpan
<1> HIDE DEF s, split
<1> DEFINE wide == [v \in DOMAIN node \cup {s} |-> IF v = s THEN Key ELSE span[v]]
<1>7. Levelled(heap) /\ IsSpan(heap, wide, s) /\ wide[root] = Key /\ heap[s].C[0] = root
  <2>1. Levelled(node)
    BY DEF OrderInv
  <2>2. Levelled(heap) /\ IsSpan(heap, wide, s)
    BY <1>2, <1>3, <1>6, <2>1, NewRootOrders
  <2>3. wide[root] = Key
    BY <1>2, <1>6 DEF IsSpan
  <2>4. heap[s].C[0] = root
    <3>1. 0 \in 0 .. FULL
      BY Degree
    <3> QED
      BY <3>1 DEF Alloc, NewNode
  <2> QED
    BY <2>2, <2>3, <2>4
<1> HIDE DEF heap, wide
<1> DEFINE more == HalfSpans(heap, wide, heap[s].C[0], s + 1)
<1>8. Levelled(split)
  BY <1>5, <1>7, SplitKeepsHeights DEF Levelled, split
<1>9. IsSpan(split, more, s)
  BY <1>5, <1>7, SplitKeepsSpans DEF split
<1>10. key \in more[split[s].C[Side(split[s], 0, key)]]
  <2>1. key \in wide[heap[s].C[0]]
    BY <1>7
  <2> QED
    BY <1>5, <1>7, <2>1, SideFits DEF split
<1> HIDE DEF more
<1>11. IsSpan(node', more, Top') /\ k' \in more[this']
  BY <1>1, <1>4, <1>9, <1>10
<1> QED
  BY <1>1, <1>8, <1>11 DEF OrderInv, InSpan

LEMMA InsertOrders ==
  ASSUME IInv, OrderInv, pc = "idle", NEW key \in Key, Insert(key)
  PROVE  OrderInv'
BY InsertEmptyOrders, InsertFullRootOrders, InsertRootOrders DEF Insert

LEMMA StillOrders ==
  ASSUME OrderInv, UNCHANGED <<node, root, pc, this, k, top>>
  PROVE  OrderInv'
<1>1. Top' = Top
  BY DEF Top
<1> QED
  BY <1>1 DEF OrderInv, InSpan

LEMMA StepKeepsOrder == IInv /\ OrderInv /\ [Next]_vars => OrderInv'
<1> SUFFICES ASSUME IInv, OrderInv, [Next]_vars PROVE OrderInv'
  OBVIOUS
<1>1. CASE Build
  BY <1>1, InsertOrders DEF Build
<1>2. CASE Operate
  <2>1. /\ pc = "idle"
        /\ \/ \E key \in Key : Insert(key)
           \/ UNCHANGED <<node, root, pc, this, k, top, inserted>>
    BY <1>2 DEF Operate
  <2> QED
    BY <2>1, InsertOrders, StillOrders
<1>3. CASE InsertNonFull
  BY <1>3, LeafStepOrders, DescendStepOrders, SplitStepOrders DEF InsertNonFull
<1>4. CASE UNCHANGED vars
  BY <1>4, StillOrders DEF vars
<1> QED
  BY <1>1, <1>2, <1>3, <1>4 DEF Next

-----------------------------------------------------------------------------
\* Every node under x is a node, and has room for no key x has none for.
LEMMA SpansNest ==
  ASSUME Good(node), Levelled(node), NEW t, NEW span, IsSpan(node, span, t),
         NEW x \in DOMAIN node, NEW y \in NodesUnder[x]
  PROVE  y \in DOMAIN node /\ span[y] \subseteq span[x]
<1> DEFINE nodes == DOMAIN node
           Flaw(v) == \E w \in NodesUnder[v] : ~(w \in nodes /\ span[w] \subseteq span[v])
           B == {v \in nodes : Flaw(v)}
<1>1. PICK height : IsHeight(node, height)
  BY DEF Levelled
<1>2. \A v \in nodes : NodesUnder[v] = {v} \cup UNION {NodesUnder[c] : c \in Children(v)}
  BY NodesUnderIs
<1>3. B = {}
  <2> SUFFICES ASSUME B # {} PROVE FALSE
    OBVIOUS
  <2>1. height \in [nodes -> Nat] /\ B \subseteq nodes
    BY <1>1 DEF IsHeight
  <2> HIDE DEF B
  <2>2. PICK v \in B : \A w \in B : height[v] <= height[w]
    BY <2>1, LowestNode
  <2>3. v \in nodes /\ Flaw(v)
    BY <2>2 DEF B
  <2>4. PICK w \in NodesUnder[v] : ~(w \in nodes /\ span[w] \subseteq span[v])
    BY <2>3
  <2> HIDE DEF Flaw
  <2>5. w # v
    BY <2>3, <2>4
  <2>6. PICK c \in Children(v) : w \in NodesUnder[c]
    BY <1>2, <2>3, <2>4, <2>5
  <2>7. ~node[v].leaf /\ \E j \in 0 .. node[v].n : c = node[v].C[j]
    BY <2>6 DEF Children
  <2>8. height[v] = height[c] + 1 /\ c \in nodes /\ height[c] \in Nat
    BY <1>1, <2>1, <2>3, <2>6, <2>7, ChildrenAre DEF IsHeight
  <2>9. c \notin B
    BY <2>2, <2>8
  <2>10. w \in nodes /\ span[w] \subseteq span[c]
    BY <2>6, <2>8, <2>9 DEF B, Flaw
  <2>11. span[c] \subseteq span[v]
    BY <2>3, <2>7 DEF IsSpan, Between
  <2> QED
    BY <2>4, <2>10, <2>11
<1> QED
  BY <1>3

\* Neither a key of x nor one under it is outside what x has room for.
LEMMA KeysFit ==
  ASSUME Good(node), Levelled(node), NEW t, NEW span, IsSpan(node, span, t),
         NEW x \in DOMAIN node, NEW key \in KeysUnder(x)
  PROVE  key \in span[x]
<1>1. PICK y \in NodesUnder[x] : key \in KeysOf(y)
  BY DEF KeysUnder
<1>2. y \in DOMAIN node /\ span[y] \subseteq span[x]
  BY SpansNest
<1>3. key \in span[y]
  BY <1>1, <1>2 DEF KeysOf, IsSpan, Sorted
<1> QED
  BY <1>2, <1>3

\* In every state all leaves have one depth and the keys under every child are
\* between those beside it; a call under way is on a node its key fits under.
THEOREM OrderInvariant == Spec => [](IInv /\ OrderInv)
<1>1. Init => IInv /\ OrderInv
  BY InitIsGood, InitIsOrdered
<1>2. (IInv /\ OrderInv) /\ [Next]_vars => (IInv /\ OrderInv)'
  BY StepKeepsIInv, StepKeepsOrder
<1> QED
  BY <1>1, <1>2, PTL DEF Spec

LEMMA ShapeIsWellFormed ==
  ASSUME Good(node), Linked(node, Top), Filled(node, Top), Levelled(node),
         root # NULL => Top \in DOMAIN node
  PROVE  WellFormed
<1>1. LevelLeaves
  <2> SUFFICES ASSUME root # NULL PROVE Cardinality(LeafDepths[Top]) = 1
    BY DEF LevelLeaves
  <2>1. PICK height : IsHeight(node, height)
    BY DEF Levelled
  <2>2. LeafDepths[Top] = {height[Top]}
    BY <2>1, LeafDepthsAre
  <2> QED
    BY <2>2, FS_Singleton
<1>2. OneParent /\ Occupancy
  BY DEF Linked, LinksTo, OneParent, Filled, Occupancy
<1> QED
  BY <1>1, <1>2 DEF WellFormed

\* What the two invariants say in one state: shape, order, and place of a call.
LEMMA WellFormedHere == IInv /\ OrderInv => WellFormed
BY ShapeIsWellFormed DEF IInv, OrderInv, Pointers, Top

\* The leaves are at one depth in every state, also between a split and the
\* insertion it makes room for: with one parent and enough keys for each node,
\* the shape that keeps the height logarithmic.
THEOREM TreeWellFormed == Spec => []WellFormed
BY WellFormedHere, OrderInvariant, PTL

LEMMA OrderedHere == IInv /\ OrderInv => Ordered
<1> SUFFICES ASSUME IInv, OrderInv, NEW x \in DOMAIN node, NEW i \in 0 .. node[x].n - 1
             PROVE  /\ i > 0 => node[x].keys[i - 1] <= node[x].keys[i]
                    /\ ~node[x].leaf =>
                         /\ \A key \in KeysUnder(node[x].C[i]) : key <= node[x].keys[i]
                         /\ \A key \in KeysUnder(node[x].C[i + 1]) : key >= node[x].keys[i]
  BY DEF Ordered
<1>1. Good(node) /\ Levelled(node)
  BY DEF IInv, OrderInv
<1>2. PICK span : IsSpan(node, span, Top)
  BY DEF OrderInv, InSpan
<1>3. node[x].n \in Nat /\ i \in Nat /\ i < node[x].n
  BY <1>1, GoodNodeIs DEF Good
<1>4. i > 0 => node[x].keys[i - 1] <= node[x].keys[i]
  <2>1. i > 0 => i - 1 \in 0 .. i
    BY <1>3
  <2> QED
    BY <1>2, <2>1 DEF IsSpan, Sorted
<1>5. ASSUME ~node[x].leaf
      PROVE  /\ \A key \in KeysUnder(node[x].C[i]) : key <= node[x].keys[i]
             /\ \A key \in KeysUnder(node[x].C[i + 1]) : key >= node[x].keys[i]
  <2>1. ASSUME NEW c \in DOMAIN node, NEW key \in KeysUnder(c)
        PROVE  key \in span[c]
    BY <1>1, <1>2, <2>1, KeysFit
  <2>2. /\ node[x].C[i] \in DOMAIN node
        /\ \A key \in span[node[x].C[i]] : key <= node[x].keys[i]
    BY <1>1, <1>2, <1>3, <1>5 DEF Good, GoodNode, IsSpan, Between
  <2>3. /\ node[x].C[i + 1] \in DOMAIN node
        /\ \A key \in span[node[x].C[i + 1]] : node[x].keys[i] <= key
    <3>1. PICK m : m = i + 1
      OBVIOUS
    <3>2. m \in 0 .. node[x].n /\ m > 0 /\ m - 1 = i
      BY <1>3, <3>1
    <3>3. /\ node[x].C[m] \in DOMAIN node
          /\ \A key \in span[node[x].C[m]] : node[x].keys[m - 1] <= key
      BY <1>1, <1>2, <1>5, <3>2 DEF Good, GoodNode, IsSpan, Between
    <3> QED
      BY <3>1, <3>2, <3>3
  <2>4. node[x].keys[i] \in Key /\ \A c \in DOMAIN node : span[c] \subseteq Key
    <3>1. node[x].keys[i] \in Key
      BY <1>1, KeyedIs DEF IInv
    <3> QED
      BY <1>2, <3>1 DEF IsSpan
  <2>5. \A a \in Key : \A b \in Key : a <= b => b >= a
    BY TreeAssumption
  <2>6. \A key \in KeysUnder(node[x].C[i]) : key <= node[x].keys[i]
    BY <2>1, <2>2
  <2>7. \A key \in KeysUnder(node[x].C[i + 1]) : key >= node[x].keys[i]
    BY <2>1, <2>3, <2>4, <2>5
  <2> QED
    BY <2>6, <2>7
<1> QED
  BY <1>4, <1>5

\* The keys of a node are sorted and separate the keys under its children,
\* whatever nodes insertions have split.
THEOREM KeysInOrder == Spec => []Ordered
BY OrderedHere, OrderInvariant, PTL

LEMMA InPlaceHere == IInv /\ OrderInv => RoomAndPlace
<1> SUFFICES ASSUME IInv, OrderInv, pc = "insertNonFull"
             PROVE  /\ ~IsFull(node, this)
                    /\ \A x \in DOMAIN node : \A i \in 0 .. node[x].n - 1 :
                         ~node[x].leaf =>
                           /\ this \in NodesUnder[node[x].C[i]]     => k <= node[x].keys[i]
                           /\ this \in NodesUnder[node[x].C[i + 1]] => k >= node[x].keys[i]
  BY DEF RoomAndPlace
<1>1. ~IsFull(node, this)
  BY Degree DEF IInv, Pointers, IsFull
<1>2. Good(node) /\ Levelled(node)
  BY DEF IInv, OrderInv
<1>3. PICK span : IsSpan(node, span, Top) /\ k \in span[this]
  BY DEF OrderInv, InSpan
<1>4. ASSUME NEW x \in DOMAIN node, NEW i \in 0 .. node[x].n - 1, ~node[x].leaf
      PROVE  /\ this \in NodesUnder[node[x].C[i]]     => k <= node[x].keys[i]
             /\ this \in NodesUnder[node[x].C[i + 1]] => k >= node[x].keys[i]
  <2>1. node[x].n \in Nat /\ i \in Nat /\ i < node[x].n
    BY <1>2, GoodNodeIs DEF Good
  <2>2. ASSUME this \in NodesUnder[node[x].C[i]] PROVE k <= node[x].keys[i]
    <3>1. /\ node[x].C[i] \in DOMAIN node
          /\ \A key \in span[node[x].C[i]] : key <= node[x].keys[i]
      BY <1>2, <1>3, <1>4, <2>1 DEF Good, GoodNode, IsSpan, Between
    <3> QED
      BY <1>2, <1>3, <2>2, <3>1, SpansNest
  <2>3. ASSUME this \in NodesUnder[node[x].C[i + 1]] PROVE k >= node[x].keys[i]
    <3>1. PICK m : m = i + 1
      OBVIOUS
    <3>2. m \in 0 .. node[x].n /\ m > 0 /\ m - 1 = i
      BY <2>1, <3>1
    <3>3. /\ node[x].C[m] \in DOMAIN node
          /\ \A key \in span[node[x].C[m]] : node[x].keys[m - 1] <= key
      BY <1>2, <1>3, <1>4, <3>2 DEF Good, GoodNode, IsSpan, Between
    <3>4. node[x].keys[i] <= k
      BY <1>2, <1>3, <2>3, <3>1, <3>2, <3>3, SpansNest
    <3>5. node[x].keys[i] \in Key /\ k \in Key
      BY <1>4, KeyedIs DEF IInv, Pointers
    <3>6. \A a \in Key : \A b \in Key : a <= b => b >= a
      BY TreeAssumption
    <3> QED
      BY <3>4, <3>5, <3>6
  <2> QED
    BY <2>2, <2>3
<1> QED
  BY <1>1, <1>4

\* Every call of insertNonFull is on a node with room, as btree.cc:31 and 187
\* assume, and on one under which the key belongs: no split above has moved its
\* place elsewhere.
THEOREM CallsAreInPlace == Spec => []RoomAndPlace
BY InPlaceHere, OrderInvariant, PTL

-----------------------------------------------------------------------------
\* Numbers given to 1 .. m have a bound, and so of some nodes one is highest.
LEMMA HeightsHaveBound ==
  ASSUME NEW m \in Nat, NEW height \in [1 .. m -> Nat]
  PROVE  \E b \in Nat : \A x \in 1 .. m : height[x] <= b
<1> DEFINE Bounded(p) == \E b \in Nat : \A x \in 1 .. m : x <= p => height[x] <= b
           B == {p \in Nat : ~Bounded(p)}
           id == [p \in Nat |-> p]
<1>1. B = {}
  <2> SUFFICES ASSUME B # {} PROVE FALSE
    OBVIOUS
  <2>1. id \in [Nat -> Nat] /\ B \subseteq Nat
    OBVIOUS
  <2>2. \A p \in Nat : id[p] = p
    OBVIOUS
  <2> HIDE DEF B, id
  <2>3. PICK p \in B : \A q \in B : id[p] <= id[q]
    BY <2>1, LowestNode
  <2>4. p \in Nat /\ \A q \in B : p <= q
    BY <2>1, <2>2, <2>3
  <2>5. ~Bounded(p)
    BY <2>3 DEF B
  <2>6. p # 0
    <3>1. ASSUME p = 0 PROVE Bounded(p)
      <4>1. \A x \in 1 .. m : ~(x <= 0)
        OBVIOUS
      <4> QED
        BY <3>1, <4>1
    <3> QED
      BY <2>5, <3>1
  <2>7. p - 1 \in Nat /\ ~(p <= p - 1)
    BY <2>4, <2>6
  <2>8. Bounded(p - 1)
    BY <2>4, <2>7 DEF B
  <2>9. PICK b \in Nat : \A x \in 1 .. m : x <= p - 1 => height[x] <= b
    BY <2>8
  <2>10. CASE p \in 1 .. m
    <3>1. height[p] \in Nat
      BY <2>10
    <3> DEFINE c == b + height[p]
    <3>2. c \in Nat /\ b <= c /\ height[p] <= c
      BY <3>1
    <3>3. ASSUME NEW x \in 1 .. m, x <= p PROVE height[x] <= c
      <4>1. CASE x = p
        BY <3>2, <4>1
      <4>2. CASE x # p
        <5>1. x <= p - 1 /\ height[x] \in Nat
          BY <2>4, <3>3, <4>2
        <5>2. height[x] <= b
          BY <2>9, <5>1
        <5> HIDE DEF c
        <5> QED
          BY <3>2, <5>1, <5>2
      <4> QED
        BY <4>1, <4>2
    <3> QED
      BY <2>5, <3>2, <3>3
  <2>11. CASE p \notin 1 .. m
    <3>1. \A x \in 1 .. m : x <= p => x <= p - 1
      BY <2>4, <2>11
    <3> QED
      BY <2>5, <2>9, <3>1
  <2> QED
    BY <2>10, <2>11
<1>2. Bounded(m)
  BY <1>1
<1>3. \A x \in 1 .. m : x <= m
  OBVIOUS
<1> QED
  BY <1>2, <1>3

LEMMA HighestNode ==
  ASSUME Numbered, NEW height \in [DOMAIN node -> Nat], NEW B, B \subseteq DOMAIN node, B # {}
  PROVE  \E x \in B : \A y \in B : height[y] <= height[x]
<1>1. PICK m \in Nat : DOMAIN node = 1 .. m
  BY DEF Numbered
<1>2. PICK b \in Nat : \A x \in DOMAIN node : height[x] <= b
  BY <1>1, HeightsHaveBound
<1> DEFINE depth == [x \in DOMAIN node |-> b - height[x]]
<1>3. depth \in [DOMAIN node -> Nat]
  BY <1>2
<1>4. \A x \in DOMAIN node : depth[x] = b - height[x]
  OBVIOUS
<1> HIDE DEF depth
<1>5. PICK x \in B : \A y \in B : depth[x] <= depth[y]
  BY <1>3, LowestNode
<1>6. ASSUME NEW y \in B PROVE height[y] <= height[x]
  <2>1. b - height[x] <= b - height[y] /\ height[x] \in Nat /\ height[y] \in Nat
    BY <1>4, <1>5
  <2> QED
    BY <2>1
<1> QED
  BY <1>6

\* A child of a node under x is under x.
LEMMA UnderIsClosed ==
  ASSUME Good(node), Levelled(node), NEW x \in DOMAIN node
  PROVE  \A y \in NodesUnder[x] : y \in DOMAIN node => Children(y) \subseteq NodesUnder[x]
<1> DEFINE nodes == DOMAIN node
           Flaw(v) == \E y \in NodesUnder[v] : y \in nodes /\ ~(Children(y) \subseteq NodesUnder[v])
           B == {v \in nodes : Flaw(v)}
<1>1. PICK height : IsHeight(node, height)
  BY DEF Levelled
<1>2. \A v \in nodes : NodesUnder[v] = {v} \cup UNION {NodesUnder[c] : c \in Children(v)}
  BY NodesUnderIs
<1>3. B = {}
  <2> SUFFICES ASSUME B # {} PROVE FALSE
    OBVIOUS
  <2>1. height \in [nodes -> Nat] /\ B \subseteq nodes
    BY <1>1 DEF IsHeight
  <2> HIDE DEF B
  <2>2. PICK v \in B : \A w \in B : height[v] <= height[w]
    BY <2>1, LowestNode
  <2>3. v \in nodes /\ Flaw(v)
    BY <2>2 DEF B
  <2>4. PICK y \in NodesUnder[v] : y \in nodes /\ ~(Children(y) \subseteq NodesUnder[v])
    BY <2>3
  <2> HIDE DEF Flaw
  <2>5. ASSUME y = v PROVE FALSE
    <3>1. \A c \in Children(v) : c \in NodesUnder[c]
      BY <1>2, <2>3, ChildrenAre
    <3> QED
      BY <1>2, <2>3, <2>4, <2>5, <3>1
  <2>6. PICK c \in Children(v) : y \in NodesUnder[c]
    BY <1>2, <2>3, <2>4, <2>5
  <2>7. ~node[v].leaf /\ \E j \in 0 .. node[v].n : c = node[v].C[j]
    BY <2>6 DEF Children
  <2>8. height[v] = height[c] + 1 /\ c \in nodes /\ height[c] \in Nat
    BY <1>1, <2>1, <2>3, <2>6, <2>7, ChildrenAre DEF IsHeight
  <2>9. c \notin B
    BY <2>2, <2>8
  <2>10. Children(y) \subseteq NodesUnder[c]
    BY <2>4, <2>6, <2>8, <2>9 DEF B, Flaw
  <2>11. NodesUnder[c] \subseteq NodesUnder[v]
    BY <1>2, <2>3, <2>6
  <2> QED
    BY <2>4, <2>10, <2>11
<1> QED
  BY <1>3

\* Every node is under the root.
LEMMA AllAreUnderTop ==
  ASSUME IInv, Levelled(node), Top \in DOMAIN node, NEW x \in DOMAIN node
  PROVE  x \in NodesUnder[Top]
<1> DEFINE B == {v \in DOMAIN node : v \notin NodesUnder[Top]}
<1>1. Good(node) /\ Numbered /\ Linked(node, Top)
  BY DEF IInv
<1>2. PICK height : IsHeight(node, height)
  BY DEF Levelled
<1>3. B = {}
  <2> SUFFICES ASSUME B # {} PROVE FALSE
    OBVIOUS
  <2>1. height \in [DOMAIN node -> Nat] /\ B \subseteq DOMAIN node
    BY <1>2 DEF IsHeight
  <2> HIDE DEF B
  <2>2. PICK v \in B : \A w \in B : height[w] <= height[v]
    BY <1>1, <2>1, HighestNode
  <2>3. v \in DOMAIN node /\ v \notin NodesUnder[Top]
    BY <2>2 DEF B
  <2>4. v # Top
    BY <1>1, <2>3, NodesUnderIs
  <2>5. LinksTo(node, v) # {}
    <3>1. Cardinality(LinksTo(node, v)) = 1
      BY <1>1, <2>3, <2>4 DEF Linked
    <3> QED
      BY <3>1, FS_EmptySet
  <2>6. PICK p : p \in LinksTo(node, v)
    BY <2>5
  <2> PICK w, j : w = p[1] /\ j = p[2]
    OBVIOUS
  <2>7. w \in DOMAIN node /\ j \in Link /\ ~node[w].leaf /\ j <= node[w].n /\ node[w].C[j] = v
    BY <2>6, LinkPair, InLinksTo
  <2>8. j \in 0 .. node[w].n
    <3>1. node[w].n \in Nat
      BY <1>1, <2>7, GoodNodeIs DEF Good
    <3> QED
      BY <2>7, <3>1, Degree DEF Link
  <2>9. v \in Children(w)
    BY <2>7, <2>8 DEF Children
  <2>10. height[w] = height[v] + 1
    BY <1>2, <2>7, <2>8 DEF IsHeight
  <2>11. w \notin B
    <3>1. height[w] \in Nat /\ height[v] \in Nat
      BY <2>1, <2>3, <2>7
    <3>2. ~(height[w] <= height[v])
      BY <2>10, <3>1
    <3> QED
      BY <2>2, <3>2
  <2>12. w \in NodesUnder[Top]
    BY <2>7, <2>11 DEF B
  <2> QED
    BY <1>1, <2>3, <2>7, <2>9, <2>12, UnderIsClosed
<1> QED
  BY <1>3

-----------------------------------------------------------------------------
\* Min chooses the least element.
LEMMA MinIsLeast ==
  ASSUME NEW S, S \subseteq Nat, S # {}
  PROVE  Min(S) \in S /\ \A s \in S : Min(S) <= s
<1>1. PICK n \in S : \A m \in S : ~(<<m, n>> \in OpToRel(<, Nat))
  BY NatLessThanWellFounded, WFMin
<1>2. \A m \in S : n <= m
  <2>1. \A m \in S : ~(m < n)
    BY <1>1 DEF OpToRel
  <2>2. n \in Nat /\ \A m \in S : m \in Nat
    OBVIOUS
  <2> QED
    BY <2>1, <2>2
<1> QED
  BY <1>2, Zenon DEF Min

\* The place where search stops in a node, and the word it reads there.
First(x, key) == Min({x.n} \cup {j \in 0 .. x.n - 1 : x.keys[j] >= key})
ReadAt(x, key) == IF First(x, key) \in Slot THEN x.keys[First(x, key)] ELSE UNINIT

LEMMA FirstIs ==
  ASSUME NEW x, x.n \in Nat, NEW key
  PROVE  /\ First(x, key) \in 0 .. x.n
         /\ First(x, key) < x.n => x.keys[First(x, key)] >= key
         /\ \A j \in 0 .. x.n - 1 : x.keys[j] >= key => First(x, key) <= j
<1> DEFINE S == {x.n} \cup {j \in 0 .. x.n - 1 : x.keys[j] >= key}
<1>1. S \subseteq Nat /\ S # {}
  OBVIOUS
<1>2. First(x, key) \in S /\ \A s \in S : First(x, key) <= s
  <2>1. First(x, key) = Min(S)
    BY DEF First
  <2> HIDE DEF S
  <2> QED
    BY <1>1, <2>1, MinIsLeast
<1> QED
  BY <1>2

\* What search returns: the recursion over the children it goes on with.
IsSearch(search, key) ==
  \A x \in DOMAIN node :
    search[x] =
      (IF ReadAt(node[x], key) \in {key, UNINIT} THEN {x} ELSE {})
        \cup
      (IF ReadAt(node[x], key) = key THEN {}
       ELSE IF node[x].leaf THEN {NULL} ELSE search[node[x].C[First(node[x], key)]])

LEMMA SearchIs ==
  ASSUME Good(node), NEW key
  PROVE  \E search : IsSearch(search, key)
                     /\ Search(key) = IF root = NULL THEN {NULL} ELSE search[root]
<1> DEFINE nodes == DOMAIN node
           Body(g) ==
             [x \in nodes |->
                (IF ReadAt(node[x], key) \in {key, UNINIT} THEN {x} ELSE {})
                  \cup
                (IF ReadAt(node[x], key) = key THEN {}
                 ELSE IF node[x].leaf THEN {NULL} ELSE g[node[x].C[First(node[x], key)]])]
           next == [x \in nodes |-> IF ReadAt(node[x], key) = key \/ node[x].leaf THEN {}
                                    ELSE {node[x].C[First(node[x], key)]}]
           own  == [x \in nodes |-> (IF ReadAt(node[x], key) \in {key, UNINIT} THEN {x} ELSE {})
                                      \cup
                                    (IF ReadAt(node[x], key) # key /\ node[x].leaf THEN {NULL} ELSE {})]
           path == Reached(nodes, next)
           f    == [x \in nodes |-> UNION {own[y] : y \in path[x]}]
           P(g) == g = Body(g)
<1>1. \A x \in nodes : next[x] \subseteq nodes
  <2> SUFFICES ASSUME NEW x \in nodes, ~node[x].leaf
               PROVE  node[x].C[First(node[x], key)] \in nodes
    OBVIOUS
  <2>1. GoodNode(nodes, node[x]) /\ node[x].n \in Nat
    BY GoodNodeIs DEF Good
  <2>2. First(node[x], key) \in 0 .. node[x].n
    BY <2>1, FirstIs
  <2> QED
    BY <2>1, <2>2 DEF GoodNode
<1>2. \A x \in nodes : path[x] = {x} \cup UNION {path[c] : c \in next[x]}
  <2> HIDE DEF next
  <2> QED
    BY <1>1, ReachedIs
<1>3. P(f)
  <2>1. ASSUME NEW x \in nodes PROVE f[x] = Body(f)[x]
    <3> HIDE DEF path
    <3>1. f[x] = UNION {own[y] : y \in path[x]}
      OBVIOUS
    <3>2. CASE ReadAt(node[x], key) = key \/ node[x].leaf
      <4>1. path[x] = {x}
        BY <1>2, <3>2
      <4>2. f[x] = own[x]
        <5> HIDE DEF own, f
        <5> QED
          BY <3>1, <4>1
      <4> HIDE DEF f
      <4> QED
        BY <3>2, <4>2
    <3>3. CASE ~(ReadAt(node[x], key) = key \/ node[x].leaf)
      <4> DEFINE c == node[x].C[First(node[x], key)]
      <4>1. next[x] = {c} /\ c \in nodes
        BY <1>1, <3>3
      <4>2. path[x] = {x} \cup path[c]
        BY <1>2, <4>1
      <4>3. f[x] = own[x] \cup f[c]
        <5> HIDE DEF own, c, next
        <5> QED
          BY <3>1, <4>1, <4>2
      <4> HIDE DEF f
      <4> QED
        BY <3>3, <4>3
    <3> QED
      BY <3>2, <3>3
  <2>2. f = [x \in nodes |-> f[x]]
    OBVIOUS
  <2>3. Body(f) = [x \in nodes |-> Body(f)[x]]
    OBVIOUS
  <2> HIDE DEF f, Body
  <2> QED
    BY <2>1, <2>2, <2>3
<1>4. Search(key) = IF root = NULL THEN {NULL} ELSE (CHOOSE g : P(g))[root]
  BY DEF Search, First, ReadAt
<1> HIDE DEF P
<1>5. P(CHOOSE g : P(g))
  BY <1>3
<1> DEFINE search == CHOOSE g : P(g)
<1> HIDE DEF search
<1>6. IsSearch(search, key)
  <2>1. search = Body(search)
    BY <1>5 DEF P, search
  <2> QED
    BY <2>1 DEF IsSearch
<1> QED
  BY <1>4, <1>6 DEF search

\* A scan that goes from node to node to the child at the first key that is not
\* less, and finds the key in none, is not above one that has it.
LEMMA ScanDoesNotMiss ==
  ASSUME Good(node), Keyed(node), Levelled(node),
         NEW t, NEW span, IsSpan(node, span, t), NEW key \in Key,
         NEW M, M \subseteq DOMAIN node,
         \A v \in M :
           LET at == First(node[v], key)
           IN  /\ at < node[v].n => node[v].keys[at] # key
               /\ ~node[v].leaf => node[v].C[at] \in M
  PROVE  \A v \in M : key \notin KeysUnder(v)
<1> DEFINE nodes == DOMAIN node
           B == {v \in M : key \in KeysUnder(v)}
<1>1. PICK height : IsHeight(node, height)
  BY DEF Levelled
<1>3. B = {}
  <2> SUFFICES ASSUME B # {} PROVE FALSE
    OBVIOUS
  <2>1. height \in [nodes -> Nat] /\ B \subseteq nodes
    BY <1>1 DEF IsHeight
  <2> HIDE DEF B
  <2>2. PICK v \in B : \A w \in B : height[v] <= height[w]
    BY <2>1, LowestNode
  <2>3. v \in nodes /\ v \in M /\ key \in KeysUnder(v)
    BY <2>2 DEF B
  <2> DEFINE at == First(node[v], key)
  <2>4. /\ at < node[v].n => node[v].keys[at] # key
        /\ ~node[v].leaf => node[v].C[at] \in M
    BY <2>3
  <2>5. /\ GoodNode(nodes, node[v]) /\ node[v].n \in Nat /\ node[v].n <= FULL
        /\ Sorted(node[v], span[v]) /\ span[v] \subseteq Key
    <3>1. node[v].n \in 0 .. FULL
      BY <2>3, GoodNodeIs DEF Good
    <3> QED
      BY <2>3, <3>1, Degree DEF Good, IsSpan
  <2>6. /\ at \in 0 .. node[v].n
        /\ at < node[v].n => node[v].keys[at] >= key
        /\ \A j \in 0 .. node[v].n - 1 : node[v].keys[j] >= key => at <= j
    BY <2>5, FirstIs
  <2> HIDE DEF at
  <2>7. key \notin KeysOf(v)
    <3> SUFFICES ASSUME NEW j \in 0 .. node[v].n - 1, node[v].keys[j] = key PROVE FALSE
      BY DEF KeysOf
    <3>1. at <= j /\ at < node[v].n /\ at \in 0 .. j /\ at \in 0 .. node[v].n - 1
      BY <2>5, <2>6, TreeAssumption
    <3>2. node[v].keys[at] <= key /\ node[v].keys[at] >= key /\ node[v].keys[at] \in Key
      BY <2>5, <2>6, <3>1 DEF Sorted
    <3>3. node[v].keys[at] = key
      <4>1. \A a \in Key : \A b \in Key : a <= b /\ a >= b => a = b
        BY TreeAssumption
      <4> QED
        BY <3>2, <4>1
    <3> QED
      BY <2>4, <3>1, <3>3
  <2>8. PICK y \in NodesUnder[v] : key \in KeysOf(y)
    BY <2>3 DEF KeysUnder
  <2>9. PICK c \in Children(v) : y \in NodesUnder[c]
    BY <2>3, <2>7, <2>8, NodesUnderIs
  <2>10. ~node[v].leaf
    BY <2>9 DEF Children
  <2>11. PICK j \in 0 .. node[v].n : c = node[v].C[j]
    BY <2>9, <2>10 DEF Children
  <2>12. c \in nodes /\ height[v] = height[c] + 1 /\ height[c] \in Nat
    BY <1>1, <2>1, <2>3, <2>9, <2>10, <2>11, ChildrenAre DEF IsHeight
  <2>13. key \in KeysUnder(c)
    BY <2>8, <2>9 DEF KeysUnder
  <2>14. c \notin M
    <3>1. c \notin B
      BY <2>2, <2>12
    <3> QED
      BY <2>13, <3>1 DEF B
  <2>15. key \in Between(node[v], span[v], j)
    <3>1. key \in span[c]
      BY <2>12, <2>13, KeysFit
    <3> QED
      BY <2>3, <2>10, <2>11, <3>1 DEF IsSpan
  <2>16. \A m \in 0 .. node[v].n - 1 : node[v].keys[m] \in Key /\ node[v].keys[m] # key
    BY <2>3, <2>7, KeyedIs DEF KeysOf
  <2>17. at <= j
    <3>1. CASE j < node[v].n
      <4>1. j \in 0 .. node[v].n - 1 /\ key <= node[v].keys[j]
        BY <2>5, <2>15, <3>1 DEF Between
      <4>2. node[v].keys[j] >= key
        BY <2>16, <4>1, TreeAssumption
      <4> QED
        BY <2>6, <4>1, <4>2
    <3>2. CASE ~(j < node[v].n)
      BY <2>5, <2>6, <3>2
    <3> QED
      BY <3>1, <3>2
  <2>18. ~(at < j)
    <3> SUFFICES ASSUME at < j PROVE FALSE
      OBVIOUS
    <3>1. /\ j > 0 /\ j - 1 \in 0 .. node[v].n - 1 /\ at \in 0 .. j - 1
          /\ at \in 0 .. node[v].n - 1 /\ at < node[v].n
      BY <2>5, <2>6
    <3>2. /\ node[v].keys[j - 1] <= key
          /\ node[v].keys[at] <= node[v].keys[j - 1]
          /\ node[v].keys[at] >= key
      BY <2>5, <2>6, <2>15, <3>1 DEF Between, Sorted
    <3>3. \A a \in Key : \A b \in Key : b <= key /\ a <= b /\ a >= key => a = key
      BY TreeAssumption
    <3> QED
      BY <2>16, <3>1, <3>2, <3>3
  <2>19. at = j
    BY <2>5, <2>6, <2>17, <2>18
  <2> QED
    BY <2>4, <2>10, <2>11, <2>14, <2>19
<1> QED
  BY <1>3 DEF B

\* From a node with the key in it or under it search does not come to NULL.
LEMMA SearchDoesNotMiss ==
  ASSUME Good(node), Keyed(node), NULL \notin DOMAIN node, Levelled(node),
         NEW t, NEW span, IsSpan(node, span, t),
         NEW key \in Key, NEW search, IsSearch(search, key),
         NEW x \in DOMAIN node, key \in KeysUnder(x)
  PROVE  NULL \notin search[x]
<1> DEFINE M == {v \in DOMAIN node : NULL \in search[v]}
<1>1. ASSUME NEW v \in M
      PROVE  LET at == First(node[v], key)
             IN  /\ at < node[v].n => node[v].keys[at] # key
                 /\ ~node[v].leaf => node[v].C[at] \in M
  <2> DEFINE at == First(node[v], key)
  <2>1. v \in DOMAIN node /\ NULL \in search[v]
    OBVIOUS
  <2>2. ReadAt(node[v], key) # key /\ (~node[v].leaf => NULL \in search[node[v].C[at]])
    BY <2>1 DEF IsSearch
  <2>3. GoodNode(DOMAIN node, node[v]) /\ node[v].n \in 0 .. FULL
    BY <2>1, GoodNodeIs DEF Good
  <2>4. at \in 0 .. node[v].n
    BY <2>3, FirstIs
  <2> HIDE DEF at
  <2>5. ~node[v].leaf => node[v].C[at] \in DOMAIN node
    BY <2>3, <2>4 DEF GoodNode
  <2>6. at < node[v].n => at \in Slot
    BY <2>3, <2>4, Degree DEF Slot
  <2> QED
    BY <2>2, <2>5, <2>6 DEF ReadAt, at
<1>2. M \subseteq DOMAIN node
  OBVIOUS
<1> HIDE DEF M
<1>3. \A v \in M : key \notin KeysUnder(v)
  BY <1>1, <1>2, ScanDoesNotMiss
<1> QED
  BY <1>3 DEF M

\* A key that was inserted is found by search, whatever the words behind the
\* keys of the nodes on its way are.
THEOREM PresentKeysAreFound == Spec => []PresentIsFound
<1>1. IInv /\ OrderInv => PresentIsFound
  <2> SUFFICES ASSUME IInv, OrderInv, pc = "idle", NEW key \in Key, inserted[key] > 0
               PROVE  NULL \notin Search(key)
    BY DEF PresentIsFound
  <2>1. Good(node) /\ Levelled(node)
    BY DEF IInv, OrderInv
  <2>2. PICK span : IsSpan(node, span, Top)
    BY DEF OrderInv, InSpan
  <2>3. PlacesOf(node, key) # {}
    <3>1. Cardinality(PlacesOf(node, key)) # 0
      BY IdleTree
    <3> QED
      BY <3>1, FS_EmptySet
  <2>4. PICK p : p \in PlacesOf(node, key)
    BY <2>3
  <2> PICK v, j : v = p[1] /\ j = p[2]
    OBVIOUS
  <2>5. v \in DOMAIN node /\ j \in Slot /\ j < node[v].n /\ node[v].keys[j] = key
    BY <2>4, PairOf, InPlacesOf
  <2>6. key \in KeysOf(v)
    <3>1. node[v].n \in Nat
      BY <2>1, <2>5, GoodNodeIs DEF Good
    <3>2. j \in 0 .. node[v].n - 1
      BY <2>5, <3>1, Degree DEF Slot
    <3> QED
      BY <2>5, <3>2 DEF KeysOf
  <2>7. root # NULL /\ Top = root /\ Top \in DOMAIN node
    BY <2>5, IdleTree DEF IInv, Pointers
  <2>8. key \in KeysUnder(root)
    <3>1. v \in NodesUnder[root]
      BY <2>1, <2>5, <2>7, AllAreUnderTop
    <3> QED
      BY <2>6, <3>1 DEF KeysUnder
  <2>9. PICK search : /\ IsSearch(search, key)
                      /\ Search(key) = IF root = NULL THEN {NULL} ELSE search[root]
    BY <2>1, SearchIs
  <2>10. NULL \notin DOMAIN node
    BY NodesAreNumbers DEF IInv
  <2>11. NULL \notin search[root]
    BY <2>1, <2>2, <2>7, <2>8, <2>9, <2>10, SearchDoesNotMiss DEF IInv
  <2> QED
    BY <2>7, <2>9, <2>11
<1> QED
  BY <1>1, OrderInvariant, PTL
=============================================================================
