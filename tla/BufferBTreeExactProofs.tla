----------------------- MODULE BufferBTreeExactProofs ------------------------
(***************************************************************************)
(* What is true of BufferBTree while the reads of the buffer are right:    *)
(* the program does to the keys last written, step by step, what btree.cc  *)
(* does in memory, they form a B-tree, and search finds in it what was     *)
(* inserted.                                                               *)
(*                                                                         *)
(* The argument: the nodes with the keys last written (WholeNode) are a    *)
(* state of BTree.  What the loops of the code do to the words             *)
(* (BufferBTreeProofs) is what one assignment of BTree does to the arrays, *)
(* so every step at the end of which the reads were right is a step of     *)
(* BTree on WholeNode, and its invariants carry over (WholeInv).           *)
(***************************************************************************)
EXTENDS BufferBTreeProofs

\* The nodes with the keys last written to them.
WholeNode == [x \in DOMAIN node |-> [node[x] EXCEPT !.keys = Keys(x)]]

Whole == INSTANCE BTreeProofs WITH node <- WholeNode

-----------------------------------------------------------------------------
\* The assumption and the numbers, as the lemmas about either B-tree want them.
LEMMA GivenBoth ==
  /\ Bare!TreeAssumption /\ Whole!TreeAssumption
  /\ Key \subseteq Nat /\ Key # {}
  /\ T \in Nat /\ T >= 2
  /\ SIZE \in Nat /\ OPS \in Nat
  /\ NULL \notin Nat /\ UNINIT \notin Nat /\ NULL # UNINIT
  /\ SLOTS \in Nat \ {0}
BY Given DEF Whole!TreeAssumption

LEMMA DegreesBoth ==
  /\ Nodes!FULL \in Nat /\ Nodes!FULL >= 3 /\ Nodes!FULL = 2 * T - 1
  /\ Bare!FULL = Nodes!FULL /\ Whole!FULL = Nodes!FULL
  /\ Bare!Slot = Nodes!Slot /\ Whole!Slot = Nodes!Slot
BY Degrees, GivenBoth DEF Nodes!FULL, Nodes!Slot, Whole!FULL, Whole!Slot

-----------------------------------------------------------------------------
(***************************************************************************)
(* The tree with the keys last written.  A step whose reads are right does *)
(* to it what btree.cc does.                                               *)
(***************************************************************************)
KeysIn(m, x) == [j \in Nodes!Slot |-> Word(m, Address(x, j))]

WholeOf(heap, m) == [x \in DOMAIN heap |-> [heap[x] EXCEPT !.keys = KeysIn(m, x)]]

LEMMA WholeNodeIs == WholeNode = WholeOf(node, mem) /\ WholeNode' = WholeOf(node', mem')
BY DEF WholeNode, WholeOf, Keys, KeysIn, Word

\* Its nodes are those of a B-tree.
LEMMA WholeOfIs ==
  ASSUME NEW heap, Bare!Good(heap), DOMAIN heap \subseteq 1 .. SIZE + OPS,
         NEW m, NEW W, W \subseteq Key, Sound(m, W)
  PROVE  /\ DOMAIN WholeOf(heap, m) = DOMAIN heap
         /\ Whole!Good(WholeOf(heap, m))
         /\ \A x \in DOMAIN heap :
              /\ WholeOf(heap, m)[x].n = heap[x].n
              /\ WholeOf(heap, m)[x].leaf = heap[x].leaf
              /\ WholeOf(heap, m)[x].C = heap[x].C
              /\ \A j \in Nodes!Slot : WholeOf(heap, m)[x].keys[j] = Word(m, Address(x, j))
<1>1. ASSUME NEW x \in DOMAIN heap
      PROVE  LET r == WholeOf(heap, m)[x]
             IN  /\ Whole!GoodNode(DOMAIN heap, r)
                 /\ r.n = heap[x].n /\ r.leaf = heap[x].leaf /\ r.C = heap[x].C
                 /\ \A j \in Nodes!Slot : r.keys[j] = Word(m, Address(x, j))
  <2> PICK q : q = heap[x]
    OBVIOUS
  <2> PICK keys : keys = KeysIn(m, x)
    OBVIOUS
  <2> PICK r : r = WholeOf(heap, m)[x]
    OBVIOUS
  <2>1. r = [q EXCEPT !.keys = keys]
    BY DEF WholeOf
  <2>2. Bare!GoodNode(DOMAIN heap, q)
    BY DEF Bare!Good
  <2>3. keys \in Whole!Words /\ \A j \in Nodes!Slot : keys[j] = Word(m, Address(x, j))
    <3>1. ASSUME NEW j \in Nodes!Slot PROVE Word(m, Address(x, j)) \in Key \cup {UNINIT}
      <4>1. Address(x, j) \in Location
        BY AddressIs
      <4> QED
        BY <4>1, WordIs DEF Sound
    <3>2. Nodes!Slot = Whole!Slot
      BY DegreesBoth
    <3> QED
      BY <3>1, <3>2 DEF KeysIn, Whole!Words
  <2>4. q \in Bare!Record(DOMAIN heap) /\ (~q.leaf => \A j \in 0 .. q.n : q.C[j] \in DOMAIN heap)
    BY <2>2 DEF Bare!GoodNode
  <2>5. /\ r \in Whole!Record(DOMAIN heap)
        /\ r.n = q.n /\ r.leaf = q.leaf /\ r.C = q.C /\ r.keys = keys
    <3>1. q \in [keys : Bare!Words, C : Bare!Links(DOMAIN heap), n : 0 .. Bare!FULL, leaf : BOOLEAN]
      BY <2>4 DEF Bare!Record
    <3>2. Bare!Links(DOMAIN heap) = Whole!Links(DOMAIN heap) /\ Bare!FULL = Whole!FULL
      BY DegreesBoth DEF Bare!Links, Whole!Links, Bare!Link, Whole!Link
    <3> QED
      BY <2>1, <2>3, <3>1, <3>2 DEF Whole!Record
  <2>6. Whole!GoodNode(DOMAIN heap, r)
    BY <2>4, <2>5 DEF Whole!GoodNode
  <2> QED
    BY <2>3, <2>5, <2>6
<1>2. DOMAIN WholeOf(heap, m) = DOMAIN heap
  BY DEF WholeOf
<1>3. Whole!Good(WholeOf(heap, m))
  BY <1>1, <1>2 DEF Whole!Good
<1> QED
  BY <1>1, <1>2, <1>3

\* Nodes with the same words are the same.
LEMMA SameNode ==
  ASSUME NEW nodes, NEW r \in Whole!Record(nodes), NEW q \in Whole!Record(nodes),
         r.n = q.n, r.leaf = q.leaf,
         \A j \in Whole!Slot : r.keys[j] = q.keys[j],
         \A j \in Whole!Link : r.C[j] = q.C[j]
  PROVE  r = q
<1>1. r.keys = q.keys
  <2>1. r.keys \in Whole!Words /\ q.keys \in Whole!Words
    BY DEF Whole!Record
  <2> QED
    BY <2>1 DEF Whole!Words
<1>2. r.C = q.C
  <2>1. r.C \in Whole!Links(nodes) /\ q.C \in Whole!Links(nodes)
    BY DEF Whole!Record
  <2> QED
    BY <2>1 DEF Whole!Links
<1> QED
  BY <1>1, <1>2 DEF Whole!Record

\* Heaps of good nodes with the same words are the same.
SameWords(r, q) ==
  /\ r.n = q.n /\ r.leaf = q.leaf
  /\ \A j \in Whole!Slot : r.keys[j] = q.keys[j]
  /\ \A j \in Whole!Link : r.C[j] = q.C[j]

LEMMA SameHeap ==
  ASSUME NEW heap, NEW more, Whole!Good(heap), Whole!Good(more), DOMAIN heap = DOMAIN more,
         heap = [v \in DOMAIN heap |-> heap[v]], more = [v \in DOMAIN more |-> more[v]],
         \A v \in DOMAIN heap : SameWords(heap[v], more[v])
  PROVE  heap = more
<1>1. ASSUME NEW v \in DOMAIN heap PROVE heap[v] = more[v]
  <2>1. heap[v] \in Whole!Record(DOMAIN heap) /\ more[v] \in Whole!Record(DOMAIN heap)
    BY DEF Whole!Good, Whole!GoodNode
  <2>2. SameWords(heap[v], more[v])
    OBVIOUS
  <2> QED
    BY <2>1, <2>2, SameNode DEF SameWords
<1> QED
  BY <1>1

\* splitChild on the two is the same.
LEMMA CanSplitWhole ==
  ASSUME NEW heap, NEW x, NEW i, NEW z, Bare!CanSplit(heap, x, i, z),
         DOMAIN heap \subseteq 1 .. SIZE + OPS, NEW m, NEW W, W \subseteq Key, Sound(m, W)
  PROVE  Whole!CanSplit(WholeOf(heap, m), x, i, z)
<1> PICK whole : whole = WholeOf(heap, m)
  OBVIOUS
<1>1. Bare!Good(heap) /\ x \in DOMAIN heap /\ z \notin DOMAIN heap /\ ~heap[x].leaf
      /\ heap[x].n # Nodes!FULL /\ i \in 0 .. heap[x].n
      /\ heap[x].C[i] \in DOMAIN heap /\ heap[heap[x].C[i]].n = Nodes!FULL
  BY DegreesBoth DEF Bare!CanSplit, Bare!IsFull, Bare!Good, Bare!GoodNode
<1>2. /\ DOMAIN whole = DOMAIN heap /\ Whole!Good(whole)
      /\ \A v \in DOMAIN heap : whole[v].n = heap[v].n /\ whole[v].leaf = heap[v].leaf
                                /\ whole[v].C = heap[v].C
  BY <1>1, WholeOfIs
<1> QED
  BY <1>1, <1>2, DegreesBoth DEF Whole!CanSplit, Whole!IsFull

\* The upper half w of a node with the keys, and u of it without.
SameUpper(keys, w, u) ==
  /\ w.n = u.n /\ w.leaf = u.leaf
  /\ \A j \in Whole!Link : w.C[j] = u.C[j]
  /\ \A j \in 0 .. T - 2 : w.keys[j] = keys[j + T]
  /\ \A j \in Nodes!Slot : j >= T - 1 => w.keys[j] = UNINIT

LEMMA UpperAndLower ==
  ASSUME NEW nodes, NEW r, NEW q, Bare!GoodNode(nodes, r), Whole!GoodNode(nodes, q),
         r.n = Nodes!FULL, q.n = r.n, q.leaf = r.leaf, q.C = r.C
  PROVE  SameUpper(q.keys, Whole!Upper(q), Bare!Upper(r))
<1> PICK u : u = Bare!Upper(r)
  OBVIOUS
<1> PICK w : w = Whole!Upper(q)
  OBVIOUS
<1>0. /\ Bare!TreeAssumption /\ r.n = Bare!FULL
      /\ Whole!TreeAssumption /\ q.n = Whole!FULL
  BY GivenBoth, DegreesBoth
<1>1. /\ u.n = T - 1 /\ u.leaf = r.leaf
      /\ \A j \in Bare!Link : r.leaf \/ j >= T => u.C[j] = UNINIT
      /\ ~r.leaf => \A j \in 0 .. T - 1 : u.C[j] = r.C[j + T]
  BY <1>0, Bare!UpperIs
<1>2. /\ w.n = T - 1 /\ w.leaf = q.leaf
      /\ \A j \in Whole!Slot : j >= T - 1 => w.keys[j] = UNINIT
      /\ \A j \in Whole!Link : q.leaf \/ j >= T => w.C[j] = UNINIT
      /\ \A j \in 0 .. T - 2 : w.keys[j] = q.keys[j + T]
      /\ ~q.leaf => \A j \in 0 .. T - 1 : w.C[j] = q.C[j + T]
  BY <1>0, Whole!UpperIs
<1>3. \A j \in Whole!Link : w.C[j] = u.C[j]
  <2> SUFFICES ASSUME NEW j \in Whole!Link PROVE w.C[j] = u.C[j]
    OBVIOUS
  <2>1. j \in Bare!Link /\ j \in Nat
    BY DegreesBoth DEF Whole!Link, Bare!Link
  <2>2. j >= T \/ j \in 0 .. T - 1
    BY <2>1, GivenBoth
  <2> QED
    BY <1>1, <1>2, <2>1, <2>2
<1>4. \A j \in Nodes!Slot : j >= T - 1 => w.keys[j] = UNINIT
  BY <1>2, DegreesBoth
<1> QED
  BY <1>1, <1>2, <1>3, <1>4 DEF SameUpper

LEMMA SplitHasUpper ==
  ASSUME NEW heap, NEW whole, NEW x, NEW i, NEW z,
         Bare!CanSplit(heap, x, i, z), Whole!CanSplit(whole, x, i, z)
  PROVE  /\ Bare!SplitChild(heap, x, i, z)[z] = Bare!Upper(heap[heap[x].C[i]])
         /\ Whole!SplitChild(whole, x, i, z)[z] = Whole!Upper(whole[whole[x].C[i]])
<1>1. Bare!SplitChild(heap, x, i, z)[z] = Bare!Upper(heap[heap[x].C[i]])
  <2> DEFINE y == heap[x].C[i]
             new == Bare!SplitChild(heap, x, i, z)
  <2>1. /\ y \in DOMAIN heap /\ y # x /\ x \in DOMAIN heap /\ z \notin DOMAIN heap
        /\ DOMAIN new = DOMAIN heap \cup {z}
        /\ \A v \in DOMAIN heap \ {x, y} : new[v] = heap[v]
        /\ new[y] = Bare!Lower(heap[y]) /\ new[z] = Bare!Upper(heap[y])
        /\ new[x] = Bare!Extended(heap[x], i, heap[y].keys[T - 1], z)
    BY GivenBoth, Bare!SplitIs
  <2> QED
    BY <2>1
<1>2. Whole!SplitChild(whole, x, i, z)[z] = Whole!Upper(whole[whole[x].C[i]])
  <2> DEFINE y == whole[x].C[i]
             new == Whole!SplitChild(whole, x, i, z)
  <2>1. /\ y \in DOMAIN whole /\ y # x /\ x \in DOMAIN whole /\ z \notin DOMAIN whole
        /\ DOMAIN new = DOMAIN whole \cup {z}
        /\ \A v \in DOMAIN whole \ {x, y} : new[v] = whole[v]
        /\ new[y] = Whole!Lower(whole[y]) /\ new[z] = Whole!Upper(whole[y])
        /\ new[x] = Whole!Extended(whole[x], i, whole[y].keys[T - 1], z)
    BY GivenBoth, Whole!SplitIs
  <2> QED
    BY <2>1
<1> QED
  BY <1>1, <1>2

LEMMA SplitIsSplit ==
  ASSUME NEW m, NEW W, Sound(m, W), W \subseteq Key,
         NEW heap, NEW x, NEW i, NEW z, Bare!CanSplit(heap, x, i, z),
         DOMAIN heap \cup {z} \subseteq 1 .. SIZE + OPS, AllWritten(m, W, heap), Unwritten(m, z),
         NEW r, r = Seen(SplitKeys(m, heap, x, i, z), x, i), r.exact
  PROVE  /\ WholeOf(Bare!SplitChild(heap, x, i, z), r) = Whole!SplitChild(WholeOf(heap, m), x, i, z)
         /\ Read(SplitKeys(m, heap, x, i, z), x, i)
              = WholeOf(Bare!SplitChild(heap, x, i, z), r)[x].keys[i]
         /\ m.exact
<1> PICK keys : keys = SplitKeys(m, heap, x, i, z)
  OBVIOUS
<1> PICK y : y = heap[x].C[i]
  OBVIOUS
<1> PICK n : n = heap[x].n
  OBVIOUS
<1> PICK new : new = Bare!SplitChild(heap, x, i, z)
  OBVIOUS
<1> PICK whole : whole = WholeOf(heap, m)
  OBVIOUS
<1> PICK after : after = WholeOf(new, r)
  OBVIOUS
<1> PICK split : split = Whole!SplitChild(whole, x, i, z)
  OBVIOUS
<1>1. Bare!Good(new) /\ Bare!IsSplit(heap, x, i, y, z, new)
  BY GivenBoth, Bare!SplitWords
<1>2. /\ x \in DOMAIN heap /\ y \in DOMAIN heap /\ y # x /\ z \notin DOMAIN heap
      /\ DOMAIN new = DOMAIN heap \cup {z}
      /\ \A v \in DOMAIN heap \ {x, y} : new[v] = heap[v]
      /\ new[y].n = T - 1 /\ new[y].leaf = heap[y].leaf /\ new[y].C = heap[y].C
      /\ new[z].n = T - 1 /\ new[z].leaf = heap[y].leaf
      /\ new[x].n = n + 1 /\ ~new[x].leaf
  BY <1>1 DEF Bare!IsSplit
<1>3. \A j \in Bare!Link : new[x].C[j] =
        IF j = i + 1 THEN z ELSE IF j > i + 1 /\ j <= n + 1 THEN heap[x].C[j - 1] ELSE heap[x].C[j]
  BY <1>1 DEF Bare!IsSplit
<1>4. /\ Bare!Good(heap) /\ ~heap[x].leaf /\ i \in 0 .. n /\ heap[y].n = Nodes!FULL
      /\ n \in Nat /\ n < Nodes!FULL
  <2>1. n \in 0 .. Nodes!FULL /\ n # Nodes!FULL
    BY <1>2, GivenBoth, DegreesBoth, Bare!GoodNodeIs DEF Bare!CanSplit, Bare!Good, Bare!IsFull
  <2> QED
    BY <2>1, DegreesBoth DEF Bare!CanSplit, Bare!IsFull
<1>5. /\ DOMAIN whole = DOMAIN heap /\ Whole!Good(whole)
      /\ \A v \in DOMAIN heap : whole[v].n = heap[v].n /\ whole[v].leaf = heap[v].leaf
                                /\ whole[v].C = heap[v].C
      /\ \A v \in DOMAIN heap : \A j \in Nodes!Slot : whole[v].keys[j] = Word(m, Address(v, j))
  BY <1>4, WholeOfIs
<1>6. Whole!CanSplit(whole, x, i, z)
  BY CanSplitWhole
<1>7. Whole!Good(split) /\ Whole!IsSplit(whole, x, i, y, z, split)
  <2>1. whole[x].C[i] = y
    BY <1>2, <1>5
  <2>2. Whole!TreeAssumption
    BY GivenBoth
  <2>3. /\ Whole!Good(Whole!SplitChild(whole, x, i, z))
        /\ Whole!IsSplit(whole, x, i, whole[x].C[i], z, Whole!SplitChild(whole, x, i, z))
    BY <1>6, <2>2, Whole!SplitWords
  <2> QED
    BY <2>1, <2>3
<1>8. /\ DOMAIN split = DOMAIN heap \cup {z}
      /\ \A v \in DOMAIN heap \ {x, y} : split[v] = whole[v]
      /\ split[y].n = T - 1 /\ split[y].leaf = heap[y].leaf /\ split[y].C = heap[y].C
      /\ split[y].keys = whole[y].keys
      /\ split[z].n = T - 1 /\ split[z].leaf = heap[y].leaf
      /\ split[x].n = n + 1 /\ ~split[x].leaf
  BY <1>2, <1>5, <1>7 DEF Whole!IsSplit
<1>9. /\ \A j \in Whole!Slot : split[x].keys[j] =
           IF j = i THEN whole[y].keys[T - 1]
           ELSE IF j > i /\ j <= n THEN whole[x].keys[j - 1] ELSE whole[x].keys[j]
      /\ \A j \in Whole!Link : split[x].C[j] =
           IF j = i + 1 THEN z
           ELSE IF j > i + 1 /\ j <= n + 1 THEN heap[x].C[j - 1] ELSE heap[x].C[j]
  BY <1>2, <1>5, <1>7 DEF Whole!IsSplit
<1>10. split[z] = Whole!Upper(whole[y]) /\ new[z] = Bare!Upper(heap[y])
  <2>1. y = whole[x].C[i]
    BY <1>2, <1>5
  <2>2. Bare!SplitChild(heap, x, i, z)[z] = Bare!Upper(heap[heap[x].C[i]])
    BY <1>6, SplitHasUpper
  <2>3. Whole!SplitChild(whole, x, i, z)[z] = Whole!Upper(whole[whole[x].C[i]])
    BY <1>6, SplitHasUpper
  <2> QED
    BY <2>1, <2>2, <2>3
<1>11. /\ x \in 1 .. SIZE + OPS /\ y \in 1 .. SIZE + OPS /\ z \in 1 .. SIZE + OPS
       /\ x # y /\ y # z /\ x # z /\ UNINIT \notin W
       /\ Written(m, W, y, 0, Nodes!FULL) /\ Written(m, W, x, 0, n)
  <2>1. Written(m, W, y, 0, heap[y].n) /\ Written(m, W, x, 0, heap[x].n)
    BY <1>2 DEF AllWritten
  <2> QED
    BY <1>2, <1>4, <2>1, GivenBoth
<1> DEFINE L == Cells(z, 0, T - 2) \cup Cells(x, i, n)
<1>12. Leads(m, r, L, W) /\ AllWritten(r, W, new)
  BY <1>11, SplitWritten
<1>13. keys.exact /\ r.buf = keys.buf /\ Buffer!Exact(keys.buf, Address(x, i))
  <2>1. r = [keys EXCEPT !.exact = keys.exact /\ Buffer!Exact(keys.buf, Address(x, i))]
    BY DEF Seen
  <2>2. Leads(m, keys, L, W)
    BY <1>4, <1>11, SplitKeysAre
  <2>3. DOMAIN keys = {"buf", "exact"}
    BY <2>2 DEF Leads, Sound
  <2> QED
    BY <2>1, <2>3
<1>14. \A l : Word(r, l) = Word(keys, l)
  BY <1>13 DEF Word
<1>15. /\ \A j \in 0 .. T - 2 : Word(r, Address(z, j)) = Word(m, Address(y, j + T))
       /\ Word(r, Address(x, i)) = Word(m, Address(y, T - 1))
       /\ \A j \in i .. n - 1 : Word(r, Address(x, j + 1)) = Word(m, Address(x, j))
  <2>0. Leads(m, keys, Cells(z, 0, T - 2) \cup Cells(x, i, n), W)
    BY <1>4, <1>11, SplitKeysAre
  <2> HIDE DEF L
  <2>1. \A j \in 0 .. T - 2 : Word(keys, Address(z, j)) = Word(m, Address(y, j + T))
    BY <1>4, <1>11, <1>13, <2>0, SplitKeysAre
  <2>2. Word(keys, Address(x, i)) = Word(m, Address(y, T - 1))
    BY <1>4, <1>11, <1>13, <2>0, SplitKeysAre
  <2>3. \A j \in i .. n - 1 : Word(keys, Address(x, j + 1)) = Word(m, Address(x, j))
    BY <1>4, <1>11, <1>13, <2>0, SplitKeysAre
  <2> QED
    BY <1>14, <2>1, <2>2, <2>3
<1>16. \A l \in Location \ L : Word(r, l) = Word(m, l)
  BY <1>12 DEF Leads
<1>17. /\ DOMAIN after = DOMAIN new /\ Whole!Good(after)
       /\ \A v \in DOMAIN new : after[v].n = new[v].n /\ after[v].leaf = new[v].leaf
                                /\ after[v].C = new[v].C
       /\ \A v \in DOMAIN new : \A j \in Nodes!Slot : after[v].keys[j] = Word(r, Address(v, j))
  <2>1. Sound(r, W) /\ DOMAIN new \subseteq 1 .. SIZE + OPS
    BY <1>2, <1>12 DEF Leads
  <2> HIDE DEF L
  <2> QED
    BY <1>1, <2>1, WholeOfIs
<1>18. Nodes!Slot = Whole!Slot /\ Whole!Link = Bare!Link
  BY DegreesBoth DEF Whole!Link, Bare!Link
<1>19. ASSUME NEW v \in 1 .. SIZE + OPS, v # x, v # z, NEW j \in Nodes!Slot
       PROVE  Word(r, Address(v, j)) = Word(m, Address(v, j))
  <2>1. Address(v, j) \notin Cells(z, 0, T - 2)
    <3>1. 0 \in Nat /\ T - 2 \in Int /\ T - 2 < Nodes!FULL
      BY DegreesBoth, GivenBoth
    <3> QED
      BY <1>11, <1>19, <3>1, OtherCells
  <2>2. Address(v, j) \notin Cells(x, i, n)
    <3>1. n \in Int /\ i \in Nat
      BY <1>4
    <3> QED
      BY <1>4, <1>11, <1>19, <3>1, OtherCells
  <2>3. Address(v, j) \in Location
    BY AddressIs
  <2> QED
    BY <1>16, <2>1, <2>2, <2>3
<1>20. ASSUME NEW j \in Nodes!Slot, j >= T - 1 PROVE Word(r, Address(z, j)) = UNINIT
  <2>1. Word(m, Address(z, j)) = UNINIT /\ Address(z, j) \in Location
    BY <1>11, AddressIs DEF Unwritten
  <2>2. Address(z, j) \notin Cells(z, 0, T - 2)
    <3> SUFFICES ASSUME NEW c \in 0 .. T - 2 PROVE Address(z, j) # Address(z, c)
      BY DEF Cells
    <3>1. c \in Nodes!Slot /\ c # j
      BY <1>20, DegreesBoth, GivenBoth DEF Nodes!Slot
    <3> QED
      BY <1>11, <3>1, AddressIs
  <2>3. Address(z, j) \notin Cells(x, i, n)
    <3>1. n \in Int /\ i \in Nat
      BY <1>4
    <3> QED
      BY <1>4, <1>11, <3>1, OtherCells
  <2> QED
    BY <1>16, <2>1, <2>2, <2>3
<1>21. ASSUME NEW j \in Nodes!Slot, ~(j \in i .. n)
       PROVE  Word(r, Address(x, j)) = Word(m, Address(x, j))
  <2>1. Address(x, j) \in Location
    BY <1>11, AddressIs
  <2>2. Address(x, j) \notin Cells(x, i, n)
    <3> SUFFICES ASSUME NEW c \in i .. n PROVE Address(x, j) # Address(x, c)
      BY DEF Cells
    <3>1. c \in Nodes!Slot /\ c # j
      BY <1>4, <1>21, DegreesBoth DEF Nodes!Slot
    <3> QED
      BY <1>11, <3>1, AddressIs
  <2>3. Address(x, j) \notin Cells(z, 0, T - 2)
    <3>1. 0 \in Nat /\ T - 2 \in Int /\ T - 2 < Nodes!FULL
      BY DegreesBoth, GivenBoth
    <3> QED
      BY <1>11, <3>1, OtherCells
  <2> QED
    BY <1>16, <2>1, <2>2, <2>3
<1> HIDE DEF L
<1>22. ASSUME NEW v \in DOMAIN heap \ {x, y} PROVE SameWords(after[v], split[v])
  <2>1. after[v].n = split[v].n /\ after[v].leaf = split[v].leaf /\ after[v].C = split[v].C
    BY <1>2, <1>5, <1>8, <1>17
  <2>2. ASSUME NEW j \in Nodes!Slot PROVE after[v].keys[j] = split[v].keys[j]
    <3>1. v \in DOMAIN new /\ v # x /\ v # z /\ v \in 1 .. SIZE + OPS /\ v \in DOMAIN heap
      BY <1>2
    <3>2. after[v].keys[j] = Word(r, Address(v, j)) /\ Word(r, Address(v, j)) = Word(m, Address(v, j))
      BY <1>17, <1>19, <3>1
    <3> QED
      BY <1>5, <1>8, <3>1, <3>2
  <2> QED
    BY <1>18, <2>1, <2>2 DEF SameWords
<1>23. SameWords(after[y], split[y])
  <2>1. after[y].n = split[y].n /\ after[y].leaf = split[y].leaf /\ after[y].C = split[y].C
    <3>1. y \in DOMAIN new
      BY <1>2
    <3>2. after[y].n = new[y].n /\ after[y].leaf = new[y].leaf /\ after[y].C = new[y].C
      BY <1>17, <3>1
    <3> QED
      BY <1>2, <1>8, <3>2
  <2>2. ASSUME NEW j \in Nodes!Slot PROVE after[y].keys[j] = split[y].keys[j]
    <3>1. after[y].keys[j] = Word(r, Address(y, j)) /\ Word(r, Address(y, j)) = Word(m, Address(y, j))
      BY <1>2, <1>11, <1>17, <1>19
    <3> QED
      BY <1>2, <1>5, <1>8, <3>1
  <2> QED
    BY <1>18, <2>1, <2>2 DEF SameWords
<1>24. SameWords(after[z], split[z])
  <2>1. Bare!GoodNode(DOMAIN heap, heap[y]) /\ Whole!GoodNode(DOMAIN heap, whole[y])
    BY <1>2, <1>4, <1>5 DEF Bare!Good, Whole!Good
  <2>2. /\ split[z].n = new[z].n /\ split[z].leaf = new[z].leaf
        /\ \A j \in Whole!Link : split[z].C[j] = new[z].C[j]
        /\ \A j \in 0 .. T - 2 : split[z].keys[j] = whole[y].keys[j + T]
        /\ \A j \in Nodes!Slot : j >= T - 1 => split[z].keys[j] = UNINIT
    <3> PICK u : u = heap[y]
      OBVIOUS
    <3> PICK w : w = whole[y]
      OBVIOUS
    <3>1. /\ Bare!GoodNode(DOMAIN heap, u) /\ Whole!GoodNode(DOMAIN heap, w)
          /\ u.n = Nodes!FULL /\ w.n = u.n /\ w.leaf = u.leaf /\ w.C = u.C
      BY <1>2, <1>4, <1>5, <2>1
    <3>2. split[z] = Whole!Upper(w) /\ new[z] = Bare!Upper(u)
      BY <1>10
    <3>3. SameUpper(w.keys, Whole!Upper(w), Bare!Upper(u))
      BY <3>1, UpperAndLower
    <3>4. SameUpper(whole[y].keys, split[z], new[z])
      BY <3>2, <3>3
    <3> QED
      BY <3>4 DEF SameUpper
  <2>3. z \in DOMAIN new
    BY <1>2
  <2>4. ASSUME NEW j \in Nodes!Slot PROVE after[z].keys[j] = split[z].keys[j]
    <3>1. after[z].keys[j] = Word(r, Address(z, j))
      BY <1>17, <2>3
    <3>2. CASE j >= T - 1
      BY <1>20, <2>2, <3>1, <3>2
    <3>3. CASE ~(j >= T - 1)
      <4>1. j \in 0 .. T - 2 /\ j + T \in Nodes!Slot
        BY <3>3, DegreesBoth, GivenBoth DEF Nodes!Slot
      <4>2. split[z].keys[j] = whole[y].keys[j + T]
        BY <2>2, <4>1
      <4>3. whole[y].keys[j + T] = Word(m, Address(y, j + T))
        BY <1>2, <1>5, <4>1
      <4>4. Word(r, Address(z, j)) = Word(m, Address(y, j + T))
        BY <1>15, <4>1
      <4> QED
        BY <3>1, <4>2, <4>3, <4>4
    <3> QED
      BY <3>2, <3>3
  <2> QED
    BY <1>17, <1>18, <2>2, <2>3, <2>4 DEF SameWords
<1>25. SameWords(after[x], split[x])
  <2>0. x \in DOMAIN new
    BY <1>2
  <2>1. after[x].n = split[x].n /\ after[x].leaf = split[x].leaf
    <3>1. after[x].n = new[x].n /\ after[x].leaf = new[x].leaf
      BY <1>17, <2>0
    <3>2. new[x].leaf \in BOOLEAN /\ split[x].leaf \in BOOLEAN
      <4>1. Bare!GoodNode(DOMAIN new, new[x]) /\ Whole!GoodNode(DOMAIN split, split[x])
        BY <1>1, <1>2, <1>7, <1>8 DEF Bare!Good, Whole!Good
      <4> QED
        BY <4>1, GivenBoth, Bare!GoodNodeIs, Whole!GoodNodeIs
    <3> QED
      BY <1>2, <1>8, <3>1, <3>2
  <2>2. \A j \in Whole!Link : after[x].C[j] = split[x].C[j]
    BY <1>3, <1>9, <1>17, <1>18, <2>0
  <2>3. ASSUME NEW j \in Nodes!Slot PROVE after[x].keys[j] = split[x].keys[j]
    <3>0. j \in Nat /\ T - 1 \in Nodes!Slot
      BY DegreesBoth, GivenBoth DEF Nodes!Slot
    <3>1. after[x].keys[j] = Word(r, Address(x, j))
      BY <1>17, <2>0
    <3>2. CASE j = i
      <4>1. split[x].keys[j] = whole[y].keys[T - 1]
        BY <1>9, <1>18, <3>2
      <4>2. whole[y].keys[T - 1] = Word(m, Address(y, T - 1))
        BY <1>2, <1>5, <3>0
      <4> QED
        BY <1>15, <3>1, <3>2, <4>1, <4>2
    <3>3. CASE j > i /\ j <= n
      <4> PICK c : c = j - 1
        OBVIOUS
      <4>1. c \in i .. n - 1 /\ j = c + 1 /\ c \in Nodes!Slot
        <5>1. i \in Nat /\ n \in Nat /\ n < Nodes!FULL /\ Nodes!FULL \in Nat
          BY <1>4, DegreesBoth
        <5>2. c \in i .. n - 1 /\ j = c + 1 /\ c \in 0 .. Nodes!FULL - 1
          BY <3>0, <3>3, <5>1
        <5> QED
          BY <5>2 DEF Nodes!Slot
      <4>2. Word(r, Address(x, j)) = Word(m, Address(x, c))
        BY <1>15, <4>1
      <4>3. j # i
        BY <1>4, <3>0, <3>3
      <4>4. split[x].keys[j] = whole[x].keys[c]
        BY <1>9, <1>18, <3>3, <4>3
      <4>5. whole[x].keys[c] = Word(m, Address(x, c))
        BY <1>2, <1>5, <4>1
      <4> QED
        BY <3>1, <4>2, <4>4, <4>5
    <3>4. CASE ~(j = i) /\ ~(j > i /\ j <= n)
      <4>1. ~(j \in i .. n)
        BY <1>4, <3>0, <3>4
      <4>2. split[x].keys[j] = whole[x].keys[j]
        BY <1>9, <1>18, <3>4
      <4> QED
        BY <1>2, <1>5, <1>21, <3>1, <4>1, <4>2
    <3> QED
      BY <3>2, <3>3, <3>4
  <2> QED
    BY <1>18, <2>1, <2>2, <2>3 DEF SameWords
<1>26. after = split
  <2>1. after = [v \in DOMAIN after |-> after[v]]
    BY DEF WholeOf
  <2>2. split = [v \in DOMAIN split |-> split[v]]
    BY DEF Whole!SplitChild, Whole!Alloc
  <2>3. DOMAIN after = DOMAIN split /\ \A v \in DOMAIN after : SameWords(after[v], split[v])
    BY <1>2, <1>8, <1>17, <1>22, <1>23, <1>24, <1>25
  <2> QED
    BY <1>7, <1>17, <2>1, <2>2, <2>3, SameHeap
<1>27. Read(keys, x, i) = after[x].keys[i]
  <2>1. i \in Nodes!Slot /\ x \in DOMAIN new
    BY <1>2, <1>4, DegreesBoth DEF Nodes!Slot
  <2>2. after[x].keys[i] = Word(keys, Address(x, i))
    BY <1>14, <1>17, <2>1
  <2> QED
    BY <1>13, <2>2 DEF Read, Word, Buffer!Exact
<1>28. m.exact
  BY <1>12 DEF Leads
<1> QED
  BY <1>26, <1>27, <1>28

\* The place a scan finds is that of btree.cc.
LEMMA PlaceIsLast ==
  ASSUME NEW m, NEW x, NEW n \in Nat, NEW key, NEW p, IsPlace(m, x, n, key, p),
         NEW q, q.n = n, \A j \in 0 .. n - 1 : q.keys[j] = Word(m, Address(x, j))
  PROVE  Whole!LastNotGreater(q, key) = p
<1> DEFINE S == {-1} \cup {j \in 0 .. n - 1 : q.keys[j] <= key}
<1>1. p \in -1 .. n - 1 /\ p \in S
  BY DEF IsPlace
<1>2. \A s \in S : s <= p
  <2> SUFFICES ASSUME NEW s \in S, ~(s <= p) PROVE FALSE
    OBVIOUS
  <2>1. s # -1
    BY <1>1
  <2>2. s \in 0 .. n - 1 /\ q.keys[s] <= key
    BY <2>1
  <2>3. s \in p + 1 .. n - 1
    BY <1>1, <2>2
  <2>4. Word(m, Address(x, s)) <= key
    BY <2>2
  <2> QED
    BY <2>3, <2>4 DEF IsPlace
<1>3. S \subseteq Int /\ S # {} /\ p \in Int
  BY <1>1
<1>4. Whole!LastNotGreater(q, key) = Whole!Max(S)
  BY DEF Whole!LastNotGreater
<1> HIDE DEF S
<1>5. Whole!Max(S) \in S /\ \A s \in S : s <= Whole!Max(S)
  BY <1>2, <1>3, GivenBoth, Whole!MaxIsGreatest
<1> PICK c : c = Whole!Max(S)
  OBVIOUS
<1>6. c \in Int /\ c <= p /\ p <= c
  BY <1>1, <1>2, <1>3, <1>5
<1> QED
  BY <1>3, <1>4, <1>6

\* A heap in which node x has one key more, its words aside.
OneMore(heap, new, x) ==
  /\ DOMAIN new = DOMAIN heap
  /\ \A v \in DOMAIN heap : v # x => new[v] = heap[v]
  /\ new[x].n = heap[x].n + 1 /\ new[x].leaf /\ new[x].C = heap[x].C

\* The insertion into a leaf.
LEMMA LeafIsLeaf ==
  ASSUME NEW m, NEW W, Sound(m, W), W \subseteq Key,
         NEW heap, Bare!Good(heap), DOMAIN heap \subseteq 1 .. SIZE + OPS, AllWritten(m, W, heap),
         NEW x \in DOMAIN heap, heap[x].leaf, heap[x].n < Nodes!FULL, NEW key \in W,
         NEW r, r = InsertKey(m, x, heap[x].n, key), r.exact,
         NEW new, Bare!Good(new), OneMore(heap, new, x)
  PROVE  WholeOf(new, r) = [WholeOf(heap, m) EXCEPT ![x] = Whole!WithKey(@, key)] /\ m.exact
<1> PICK n : n = heap[x].n
  OBVIOUS
<1> PICK whole : whole = WholeOf(heap, m)
  OBVIOUS
<1> PICK after : after = WholeOf(new, r)
  OBVIOUS
<1> PICK q : q = whole[x]
  OBVIOUS
<1> PICK u : u = Whole!WithKey(q, key)
  OBVIOUS
<1> PICK goal : goal = [whole EXCEPT ![x] = u]
  OBVIOUS
<1>1. n \in Nat /\ n < Nodes!FULL /\ heap[x] \in Bare!Record(DOMAIN heap) /\ x \in 1 .. SIZE + OPS
      /\ UNINIT \notin W /\ key \in Key
  BY GivenBoth, Bare!GoodNodeIs DEF Bare!Good
<1>2. /\ DOMAIN new = DOMAIN heap
      /\ \A v \in DOMAIN heap \ {x} : new[v] = heap[v]
      /\ new[x].n = n + 1 /\ new[x].leaf /\ new[x].C = heap[x].C
  BY DEF OneMore
<1>3. Written(m, W, x, 0, n)
  BY DEF AllWritten
<1>4. Leads(m, r, Cells(x, 0, n), W)
  BY <1>1, <1>3, InsertKeyIs
<1>5. PICK p : /\ IsPlace(m, x, n, key, p)
               /\ \A j \in 0 .. p : Word(r, Address(x, j)) = Word(m, Address(x, j))
               /\ Word(r, Address(x, p + 1)) = key
               /\ \A j \in p + 1 .. n - 1 : Word(r, Address(x, j + 1)) = Word(m, Address(x, j))
  BY <1>1, <1>3, <1>4, InsertKeyIs
<1>6. /\ DOMAIN whole = DOMAIN heap /\ Whole!Good(whole)
      /\ \A v \in DOMAIN heap : whole[v].n = heap[v].n /\ whole[v].leaf = heap[v].leaf
                                /\ whole[v].C = heap[v].C
      /\ \A v \in DOMAIN heap : \A j \in Nodes!Slot : whole[v].keys[j] = Word(m, Address(v, j))
  BY WholeOfIs
<1>7. /\ DOMAIN after = DOMAIN new /\ Whole!Good(after)
      /\ \A v \in DOMAIN new : after[v].n = new[v].n /\ after[v].leaf = new[v].leaf
                               /\ after[v].C = new[v].C
      /\ \A v \in DOMAIN new : \A j \in Nodes!Slot : after[v].keys[j] = Word(r, Address(v, j))
  <2>1. Sound(r, W) /\ DOMAIN new \subseteq 1 .. SIZE + OPS
    BY <1>2, <1>4 DEF Leads
  <2> QED
    BY <2>1, WholeOfIs
<1>8. Nodes!Slot = Whole!Slot /\ Nodes!FULL = Whole!FULL
  BY DegreesBoth
<1>9. q.n = n /\ q.leaf /\ q.C = heap[x].C
      /\ \A j \in Nodes!Slot : q.keys[j] = Word(m, Address(x, j))
  BY <1>6
<1>10. Whole!LastNotGreater(q, key) = p
  <2>1. \A j \in 0 .. n - 1 : j \in Nodes!Slot
    BY <1>1, DegreesBoth DEF Nodes!Slot
  <2>2. \A j \in 0 .. n - 1 : q.keys[j] = Word(m, Address(x, j))
    BY <1>9, <2>1
  <2> QED
    BY <1>1, <1>5, <1>9, <2>2, PlaceIsLast
<1>11. Whole!GoodNode(DOMAIN heap, q)
  BY <1>6 DEF Whole!Good
<1>12. /\ Whole!GoodNode(DOMAIN heap, u)
       /\ u.n = n + 1 /\ u.leaf /\ u.C = q.C
       /\ \A j \in Nodes!Slot : u.keys[j] =
            IF j = p + 1 THEN key ELSE IF j > p + 1 /\ j <= n THEN q.keys[j - 1] ELSE q.keys[j]
  <2>1. q.n < Whole!FULL
    BY <1>1, <1>8, <1>9
  <2>2. LET at == Whole!LastNotGreater(q, key) + 1
            w  == Whole!WithKey(q, key)
        IN  /\ at \in 0 .. q.n
            /\ Whole!GoodNode(DOMAIN heap, w)
            /\ w.n = q.n + 1 /\ w.leaf
            /\ w.keys = Whole!Put(q.keys, q.n, at, key) /\ w.C = q.C
            /\ \A j \in Whole!Slot : w.keys[j] =
                 IF j = at THEN key ELSE IF j > at /\ j <= q.n THEN q.keys[j - 1] ELSE q.keys[j]
    BY <1>1, <1>9, <1>11, <2>1, GivenBoth, Whole!WithKeyIs
  <2> QED
    BY <1>8, <1>9, <1>10, <2>2
<1>13. DOMAIN goal = DOMAIN heap /\ goal[x] = u /\ \A v \in DOMAIN heap \ {x} : goal[v] = whole[v]
  BY <1>6
<1>14. Whole!Good(goal)
  BY <1>6, <1>12, <1>13 DEF Whole!Good
<1>15. ASSUME NEW v \in DOMAIN heap \ {x} PROVE SameWords(after[v], goal[v])
  <2>1. after[v].n = goal[v].n /\ after[v].leaf = goal[v].leaf /\ after[v].C = goal[v].C
    BY <1>2, <1>6, <1>7, <1>13
  <2>2. ASSUME NEW j \in Nodes!Slot PROVE after[v].keys[j] = goal[v].keys[j]
    <3>1. v \in 1 .. SIZE + OPS /\ v # x /\ 0 \in Nat /\ n \in Int
      BY <1>1
    <3>2. Address(v, j) \notin Cells(x, 0, n) /\ Address(v, j) \in Location
      BY <1>1, <3>1, OtherCells, AddressIs
    <3>3. Word(r, Address(v, j)) = Word(m, Address(v, j))
      BY <1>4, <3>2 DEF Leads
    <3> QED
      BY <1>2, <1>6, <1>7, <1>13, <3>3
  <2> QED
    BY <1>8, <2>1, <2>2 DEF SameWords
<1>16. SameWords(after[x], u)
  <2>1. after[x].n = u.n /\ after[x].C = u.C /\ after[x].leaf = u.leaf
    <3>1. after[x].leaf = new[x].leaf /\ after[x].n = new[x].n /\ after[x].C = new[x].C
      BY <1>2, <1>7
    <3>2. new[x].leaf \in BOOLEAN /\ u.leaf \in BOOLEAN
      <4>1. Bare!GoodNode(DOMAIN new, new[x])
        BY <1>2 DEF Bare!Good
      <4> QED
        BY <1>12, <4>1, GivenBoth, Bare!GoodNodeIs, Whole!GoodNodeIs
    <3> QED
      BY <1>2, <1>9, <1>12, <3>1, <3>2
  <2>2. ASSUME NEW j \in Nodes!Slot PROVE after[x].keys[j] = u.keys[j]
    <3>1. after[x].keys[j] = Word(r, Address(x, j)) /\ q.keys[j] = Word(m, Address(x, j))
      BY <1>2, <1>7, <1>9
    <3>2. j \in Nat /\ p \in -1 .. n - 1
      BY <1>5, DegreesBoth DEF Nodes!Slot, IsPlace
    <3>3. CASE j = p + 1
      BY <1>5, <1>12, <3>1, <3>3
    <3>4. CASE j > p + 1 /\ j <= n
      <4> PICK c : c = j - 1
        OBVIOUS
      <4>1. c \in p + 1 .. n - 1 /\ j = c + 1 /\ c \in Nodes!Slot /\ j # p + 1
        <5>1. c \in p + 1 .. n - 1 /\ j = c + 1 /\ j # p + 1 /\ c \in Nat
          BY <1>1, <3>2, <3>4
        <5>2. c \in Nodes!Slot
          BY <1>1, <5>1, DegreesBoth DEF Nodes!Slot
        <5> QED
          BY <5>1, <5>2
      <4>2. Word(r, Address(x, j)) = Word(m, Address(x, c))
        BY <1>5, <4>1
      <4>3. u.keys[j] = q.keys[c]
        BY <1>12, <3>4, <4>1
      <4> QED
        BY <1>9, <3>1, <4>1, <4>2, <4>3
    <3>5. CASE j < p + 1
      <4>1. j \in 0 .. p /\ j # p + 1 /\ ~(j > p + 1)
        BY <1>1, <3>2, <3>5
      <4>2. u.keys[j] = q.keys[j]
        BY <1>12, <4>1
      <4> QED
        BY <1>5, <3>1, <4>1, <4>2
    <3>6. CASE j > n
      <4>1. Address(x, j) \notin Cells(x, 0, n)
        <5> SUFFICES ASSUME NEW c \in 0 .. n PROVE Address(x, j) # Address(x, c)
          BY DEF Cells
        <5>1. c \in Nodes!Slot /\ c # j
          BY <1>1, <3>2, <3>6, DegreesBoth DEF Nodes!Slot
        <5> QED
          BY <1>1, <5>1, AddressIs
      <4>2. Word(r, Address(x, j)) = Word(m, Address(x, j))
        BY <1>1, <1>4, <4>1, AddressIs DEF Leads
      <4>3. j # p + 1 /\ ~(j <= n)
        BY <1>1, <3>2, <3>6
      <4> QED
        BY <1>12, <3>1, <4>2, <4>3
    <3> QED
      <4>1. j = p + 1 \/ (j > p + 1 /\ j <= n) \/ j < p + 1 \/ j > n
        BY <1>1, <3>2
      <4> QED
        BY <3>3, <3>4, <3>5, <3>6, <4>1
  <2> QED
    BY <1>8, <2>1, <2>2 DEF SameWords
<1>17. after = goal
  <2>1. after = [v \in DOMAIN after |-> after[v]]
    BY DEF WholeOf
  <2>2. goal = [v \in DOMAIN goal |-> goal[v]]
    <3>1. whole = [v \in DOMAIN whole |-> whole[v]]
      BY DEF WholeOf
    <3> QED
      BY <3>1
  <2>3. DOMAIN after = DOMAIN goal /\ \A v \in DOMAIN after : SameWords(after[v], goal[v])
    BY <1>2, <1>7, <1>13, <1>15, <1>16
  <2> QED
    BY <1>7, <1>14, <2>1, <2>2, <2>3, SameHeap
<1>18. m.exact
  BY <1>4 DEF Leads
<1> QED
  BY <1>17, <1>18

\* The two trees before and after a step.
LEMMA WholeIs ==
  ASSUME TreeInv, TreeFits, MemInv
  PROVE  /\ WholeNode = WholeOf(node, mem) /\ DOMAIN WholeNode = DOMAIN node /\ Whole!Good(WholeNode)
         /\ \A x \in DOMAIN node :
              /\ WholeNode[x].n = node[x].n
              /\ WholeNode[x].leaf = node[x].leaf
              /\ WholeNode[x].C = node[x].C
              /\ \A j \in Nodes!Slot : WholeNode[x].keys[j] = Word(mem, Address(x, j))
<1>1. Bare!Good(node) /\ DOMAIN node \subseteq 1 .. SIZE + OPS /\ Known \subseteq Key /\ Sound(mem, Known)
  BY KnownAre DEF TreeInv, TreeFits, MemInv
<1> QED
  BY <1>1, WholeNodeIs, WholeOfIs

LEMMA LeafIsWhole ==
  ASSUME TreeInv, TreeFits, MemInv, TreeInv', InsertNonFullLeaf, mem'.exact
  PROVE  Whole!InsertNonFullLeaf /\ mem.exact
<1>1. /\ this \in DOMAIN node /\ node[this].leaf /\ node[this].n < Nodes!FULL /\ k \in Known
      /\ mem' = InsertKey(mem, this, node[this].n, k)
      /\ node' = [node EXCEPT ![this].n = @ + 1]
  BY DEF InsertNonFullLeaf, TreeInv, Pointers, Known
<1>2. /\ Bare!Good(node) /\ Bare!Good(node') /\ DOMAIN node \subseteq 1 .. SIZE + OPS
      /\ Known \subseteq Key /\ Sound(mem, Known) /\ AllWritten(mem, Known, node)
  BY KnownAre DEF TreeInv, TreeFits, MemInv
<1>3. /\ DOMAIN node' = DOMAIN node
      /\ \A v \in DOMAIN node : v # this => node'[v] = node[v]
      /\ node'[this].n = node[this].n + 1 /\ node'[this].leaf /\ node'[this].C = node[this].C
  <2>1. node[this] \in Bare!Record(DOMAIN node)
    BY <1>1, <1>2 DEF Bare!Good, Bare!GoodNode
  <2>2. node'[this] = [node[this] EXCEPT !.n = @ + 1]
    BY <1>1
  <2>3. node'[this].n = node[this].n + 1 /\ node'[this].leaf /\ node'[this].C = node[this].C
    BY <1>1, <2>1, <2>2 DEF Bare!Record
  <2> QED
    BY <1>1, <2>3
<1>4. WholeOf(node', mem') = [WholeOf(node, mem) EXCEPT ![this] = Whole!WithKey(@, k)] /\ mem.exact
  <2> PICK new : new = node'
    OBVIOUS
  <2> PICK r : r = mem'
    OBVIOUS
  <2>1. /\ Bare!Good(new) /\ OneMore(node, new, this)
        /\ r = InsertKey(mem, this, node[this].n, k) /\ r.exact
    BY <1>1, <1>2, <1>3 DEF OneMore
  <2>2. WholeOf(new, r) = [WholeOf(node, mem) EXCEPT ![this] = Whole!WithKey(@, k)] /\ mem.exact
    BY <1>1, <1>2, <2>1, LeafIsLeaf
  <2> QED
    BY <2>2
<1>5. WholeNode' = [WholeNode EXCEPT ![this] = Whole!WithKey(@, k)]
  BY <1>4, WholeNodeIs
<1>6. WholeNode[this].leaf
  BY <1>1, WholeIs
<1>7. /\ pc = "insertNonFull"
      /\ root' = IF top = NULL THEN root ELSE top
      /\ pc' = "idle"
      /\ this' = NULL /\ k' = 0 /\ top' = NULL
      /\ UNCHANGED <<built, done, inserted>>
  BY DEF InsertNonFullLeaf
<1> QED
  BY <1>4, <1>5, <1>6, <1>7 DEF Whole!InsertNonFullLeaf

\* What the scan of an inner node finds.
LEMMA ScanIsWhole ==
  ASSUME TreeInv, TreeFits, MemInv, pc = "insertNonFull", ~node[this].leaf,
         NEW r, r = Scan(mem, this, node[this].n, k)
  PROVE  Leads(mem, r, {}, Known) /\ r.buf = mem.buf
         /\ (r.exact => ChildPlace = Whole!ChildPlace /\ mem.exact)
<1> PICK n : n = node[this].n
  OBVIOUS
<1>1. this \in DOMAIN node /\ n \in Nat /\ n < Nodes!FULL
  BY ChildIs
<1>2. /\ this \in 1 .. SIZE + OPS /\ n <= Nodes!FULL
      /\ Sound(mem, Known) /\ UNINIT \notin Known /\ Written(mem, Known, this, 0, n)
  BY <1>1, KnownAre, DegreesBoth DEF TreeFits, MemInv, AllWritten
<1>3. Leads(mem, r, {}, Known) /\ r.buf = mem.buf
  BY <1>1, <1>2, ScanIs
<1>4. r.exact => IsPlace(mem, this, n, k, Place(mem, this, n, k))
  BY <1>1, <1>2, <1>3, ScanIs
<1>5. ASSUME r.exact PROVE ChildPlace = Whole!ChildPlace
  <2> PICK q : q = WholeNode[this]
    OBVIOUS
  <2> PICK p : p = Place(mem, this, n, k)
    OBVIOUS
  <2>1. q.n = n /\ \A j \in Nodes!Slot : q.keys[j] = Word(mem, Address(this, j))
    BY <1>1, WholeIs
  <2>2. \A j \in 0 .. n - 1 : q.keys[j] = Word(mem, Address(this, j))
    BY <1>1, <2>1, DegreesBoth DEF Nodes!Slot
  <2>3. Whole!LastNotGreater(q, k) = p
    BY <1>1, <1>4, <1>5, <2>1, <2>2, PlaceIsLast
  <2> QED
    BY <2>3 DEF ChildPlace, Whole!ChildPlace
<1>6. r.exact => mem.exact
  BY <1>3 DEF Leads
<1> QED
  BY <1>3, <1>5, <1>6

LEMMA DescendIsWhole ==
  ASSUME TreeInv, TreeFits, MemInv, Descend, mem'.exact
  PROVE  Whole!Descend /\ mem.exact
<1>1. /\ pc = "insertNonFull" /\ ~node[this].leaf
      /\ ~Nodes!IsFull(node, node[this].C[ChildPlace])
      /\ this' = node[this].C[ChildPlace]
      /\ mem' = Scan(mem, this, node[this].n, k)
      /\ UNCHANGED <<node, root, pc, k, top, built, done, inserted>>
  BY DEF Descend
<1>2. Leads(mem, mem', {}, Known) /\ mem'.buf = mem.buf /\ ChildPlace = Whole!ChildPlace /\ mem.exact
  BY <1>1, ScanIsWhole
<1>3. WholeNode' = WholeNode
  <2>1. \A l : Word(mem', l) = Word(mem, l)
    BY <1>2 DEF Word
  <2>2. \A x : KeysIn(mem', x) = KeysIn(mem, x)
    BY <2>1 DEF KeysIn
  <2> QED
    BY <1>1, <2>2, WholeNodeIs DEF WholeOf
<1>4. /\ this \in DOMAIN node /\ node[this].C[ChildPlace] \in DOMAIN node
  BY <1>1, ChildIs
<1>5. /\ ~WholeNode[this].leaf /\ WholeNode[this].C = node[this].C
      /\ ~Whole!IsFull(WholeNode, node[this].C[ChildPlace])
  <2>1. ~WholeNode[this].leaf /\ WholeNode[this].C = node[this].C
    BY <1>1, <1>4, WholeIs
  <2>2. WholeNode[node[this].C[ChildPlace]].n = node[node[this].C[ChildPlace]].n
    BY <1>4, WholeIs
  <2> QED
    BY <1>1, <2>1, <2>2, DegreesBoth DEF Nodes!IsFull, Whole!IsFull
<1> QED
  BY <1>1, <1>2, <1>3, <1>5 DEF Whole!Descend

LEMMA SplitIsWhole ==
  ASSUME TreeInv, TreeFits, MemInv, TreeFits', SplitAndDescend, mem'.exact
  PROVE  Whole!SplitAndDescend /\ mem.exact
<1> PICK m : m = Scan(mem, this, node[this].n, k)
  OBVIOUS
<1> PICK i : i = ChildPlace
  OBVIOUS
<1> PICK z : z = Bare!Fresh
  OBVIOUS
<1> PICK keys : keys = SplitKeys(m, node, this, i, z)
  OBVIOUS
<1>1. /\ Bare!CanSplit(node, this, i, z)
      /\ node' = Bare!SplitChild(node, this, i, z)
      /\ Nodes!Fresh = z
  BY ChildCanSplit
<1>2. /\ pc = "insertNonFull" /\ ~node[this].leaf
      /\ Nodes!IsFull(node, node[this].C[i])
      /\ mem' = Seen(keys, this, i)
      /\ this' = node'[this].C[Side(keys, this, i, k)]
      /\ UNCHANGED <<root, pc, k, top, built, done, inserted>>
  BY <1>1 DEF SplitAndDescend
<1>3. /\ Bare!Good(node) /\ DOMAIN node \subseteq 1 .. SIZE + OPS /\ AllWritten(mem, Known, node)
      /\ Known \subseteq Key /\ \A x \in 1 .. SIZE + OPS : x \notin DOMAIN node => Unwritten(mem, x)
  BY KnownAre DEF TreeInv, TreeFits, MemInv
<1>4. Leads(mem, m, {}, Known) /\ m.buf = mem.buf
      /\ (m.exact => i = Whole!ChildPlace /\ mem.exact)
  BY <1>2, ScanIsWhole
<1>5. AllWritten(m, Known, node) /\ Sound(m, Known) /\ \A l : Word(m, l) = Word(mem, l)
  BY <1>3, <1>4, NodesStayWritten DEF Leads, Word
<1>6. /\ DOMAIN node \cup {z} \subseteq 1 .. SIZE + OPS /\ Unwritten(m, z)
      /\ DOMAIN node' = DOMAIN node \cup {z} /\ this \in DOMAIN node
      /\ node[this].C[i] \in DOMAIN node /\ z \notin DOMAIN node
  <2>1. Bare!IsSplit(node, this, i, node[this].C[i], z, node')
    BY <1>1, GivenBoth, Bare!SplitWords
  <2>2. /\ DOMAIN node' = DOMAIN node \cup {z} /\ this \in DOMAIN node
        /\ node[this].C[i] \in DOMAIN node /\ z \notin DOMAIN node
    BY <2>1 DEF Bare!IsSplit
  <2> QED
    BY <1>3, <1>5, <2>2 DEF TreeFits, Unwritten
<1>7. /\ WholeOf(node', mem') = Whole!SplitChild(WholeOf(node, m), this, i, z)
      /\ Read(keys, this, i) = WholeOf(node', mem')[this].keys[i]
      /\ m.exact
  BY <1>1, <1>2, <1>3, <1>5, <1>6, SplitIsSplit
<1>8. WholeOf(node, m) = WholeOf(node, mem)
  <2>1. \A x : KeysIn(m, x) = KeysIn(mem, x)
    BY <1>5 DEF KeysIn
  <2> QED
    BY <2>1 DEF WholeOf
<1>9. /\ WholeNode' = Whole!SplitChild(WholeNode, this, Whole!ChildPlace, Whole!Fresh)
      /\ Whole!ChildPlace = i /\ Whole!Fresh = z /\ mem.exact
  <2>1. Whole!Fresh = z
    <3>1. DOMAIN WholeNode = DOMAIN node
      BY WholeIs
    <3> QED
      BY <3>1 DEF Bare!Fresh, Whole!Fresh, Bare!Cardinality, Whole!Cardinality
  <2> QED
    BY <1>4, <1>7, <1>8, <2>1, WholeNodeIs
<1>10. Side(keys, this, i, k) = Whole!Side(WholeNode'[this], i, k)
  BY <1>7, WholeNodeIs DEF Side, Whole!Side
<1>11. WholeNode'[this].C = node'[this].C
  <2>1. node'[this] \in Bare!Record(DOMAIN node')
    <3>1. Bare!Good(Bare!SplitChild(node, this, i, z))
      BY <1>1, GivenBoth, Bare!SplitWords
    <3> QED
      BY <1>1, <1>6, <3>1 DEF Bare!Good, Bare!GoodNode
  <2>2. WholeNode'[this] = [node'[this] EXCEPT !.keys = KeysIn(mem', this)]
    BY <1>6, WholeNodeIs DEF WholeOf
  <2> QED
    BY <2>1, <2>2 DEF Bare!Record
<1>12. /\ ~WholeNode[this].leaf
       /\ Whole!IsFull(WholeNode, WholeNode[this].C[i])
  <2>1. ~WholeNode[this].leaf /\ WholeNode[this].C = node[this].C
    BY <1>2, <1>6, WholeIs
  <2>2. WholeNode[node[this].C[i]].n = node[node[this].C[i]].n
    BY <1>6, WholeIs
  <2> QED
    BY <1>2, <2>1, <2>2, DegreesBoth DEF Nodes!IsFull, Whole!IsFull
<1> QED
  BY <1>2, <1>9, <1>10, <1>11, <1>12 DEF Whole!SplitAndDescend

\* A new node with keys that were never written.
LEMMA NewWhole ==
  ASSUME NEW m, NEW s, Unwritten(m, s), NEW isleaf
  PROVE  KeysIn(m, s) = Whole!NewNode(isleaf).keys
<1>1. Whole!NewNode(isleaf).keys = [j \in Nodes!Slot |-> UNINIT]
  BY DegreesBoth DEF Whole!NewNode
<1> QED
  BY <1>1 DEF KeysIn, Unwritten

LEMMA NewNodesSame ==
  ASSUME NEW isleaf
  PROVE  Bare!NewNode(isleaf) = Whole!NewNode(isleaf)
BY DegreesBoth DEF Bare!NewNode, Whole!NewNode

LEMMA EmptyIsWhole ==
  ASSUME TreeInv, TreeFits, TreeFits', MemInv, pc = "idle", NEW key \in Key, NEW m,
         Insert(key, m), InsertEmpty(key, m), Leads(mem, m, {}, Known), m.buf = mem.buf
  PROVE  Whole!InsertEmpty(key) /\ m.exact = mem'.exact
<1> PICK s : s = Bare!Fresh
  OBVIOUS
<1> PICK r : r = [Bare!NewNode(TRUE) EXCEPT !.n = 1]
  OBVIOUS
<1>1. /\ root = NULL /\ node' = Bare!Alloc(node, s, r) /\ root' = s
      /\ mem' = Write(m, s, 0, key)
      /\ UNCHANGED <<pc, this, k, top>>
  BY SameOperators, SameFresh DEF InsertEmpty
<1>2. DOMAIN node = {} /\ r.n = 1
  BY <1>1 DEF TreeInv, Pointers, Bare!NewNode
<1>3. DOMAIN node' = {s} /\ node'[s] = r /\ s \in 1 .. SIZE + OPS
  <2>1. DOMAIN node' = {s} /\ node'[s] = r
    BY <1>1, <1>2 DEF Bare!Alloc
  <2> QED
    BY <2>1 DEF TreeFits
<1>4. key \in Known' /\ UNINIT \notin Known' /\ Sound(m, Known')
  BY KnownMore
<1>5. 0 \in Nodes!Slot /\ Address(s, 0) \in Location
  <2>1. 0 \in Nodes!Slot
    BY DegreesBoth DEF Nodes!Slot
  <2> QED
    BY <1>3, <2>1, AddressIs
<1> PICK L : L = {Address(s, 0)}
  OBVIOUS
<1>6. Leads(m, mem', L, Known') /\ Word(mem', Address(s, 0)) = key /\ m.exact = mem'.exact
  <2>1. mem' = [m EXCEPT !.buf = Buffer!Store(@, Address(s, 0), key)]
    BY <1>1 DEF Write
  <2> QED
    BY <1>4, <1>5, <2>1, StoreIs
<1> PICK fresh : fresh = Whole!NewNode(TRUE).keys
  OBVIOUS
<1>7. KeysIn(mem', s) = [fresh EXCEPT ![0] = key]
  <2>1. fresh = [j \in Nodes!Slot |-> UNINIT]
    BY DegreesBoth DEF Whole!NewNode
  <2>2. ASSUME NEW j \in Nodes!Slot, j # 0 PROVE Word(mem', Address(s, j)) = UNINIT
    <3>1. Address(s, j) # Address(s, 0) /\ Address(s, j) \in Location
      BY <1>3, <1>5, <2>2, AddressIs
    <3>2. Word(mem', Address(s, j)) = Word(m, Address(s, j))
      BY <1>6, <3>1 DEF Leads
    <3>3. Word(m, Address(s, j)) = Word(mem, Address(s, j))
      BY DEF Word
    <3>4. Word(mem, Address(s, j)) = UNINIT
      BY <1>2, <1>3 DEF MemInv, Unwritten
    <3> QED
      BY <3>2, <3>3, <3>4
  <2> QED
    BY <1>5, <1>6, <2>1, <2>2 DEF KeysIn
<1>8. WholeNode' = Whole!Alloc(WholeNode, s, [Whole!NewNode(TRUE) EXCEPT !.keys[0] = key, !.n = 1])
  <2> PICK q : q = [Whole!NewNode(TRUE) EXCEPT !.keys[0] = key, !.n = 1]
    OBVIOUS
  <2> PICK u : u = [r EXCEPT !.keys = KeysIn(mem', s)]
    OBVIOUS
  <2>1. u = q
    <3> PICK old : old = fresh
      OBVIOUS
    <3> PICK C : C = Whole!NewNode(TRUE).C
      OBVIOUS
    <3> PICK new : new = Whole!NewNode(TRUE)
      OBVIOUS
    <3> PICK keys : keys = KeysIn(mem', s)
      OBVIOUS
    <3> PICK first : first = [old EXCEPT ![0] = key]
      OBVIOUS
    <3> PICK a : a = [new EXCEPT !.keys[0] = key]
      OBVIOUS
    <3>1. new = [keys |-> old, C |-> C, n |-> 0, leaf |-> TRUE]
      BY DEF Whole!NewNode
    <3>2. a = [keys |-> first, C |-> C, n |-> 0, leaf |-> TRUE]
      <4>1. a = [new EXCEPT !.keys[0] = key]
        OBVIOUS
      <4>2. first = [old EXCEPT ![0] = key]
        OBVIOUS
      <4> QED
        BY ONLY <3>1, <4>1, <4>2
    <3>3. q = [a EXCEPT !.n = 1]
      OBVIOUS
    <3>4. q = [keys |-> first, C |-> C, n |-> 1, leaf |-> TRUE]
      BY ONLY <3>2, <3>3
    <3>5. r = [new EXCEPT !.n = 1]
      BY NewNodesSame
    <3>6. r = [keys |-> old, C |-> C, n |-> 1, leaf |-> TRUE]
      BY ONLY <3>1, <3>5
    <3>7. u = [r EXCEPT !.keys = keys]
      OBVIOUS
    <3>8. u = [keys |-> keys, C |-> C, n |-> 1, leaf |-> TRUE]
      BY ONLY <3>6, <3>7
    <3> QED
      BY <1>7, <3>4, <3>8
  <2>2. WholeNode' = [v \in {s} |-> u]
    BY <1>3, WholeNodeIs DEF WholeOf
  <2>3. DOMAIN WholeNode = {}
    BY <1>2, WholeIs
  <2> QED
    BY <2>1, <2>2, <2>3 DEF Whole!Alloc
<1>9. Whole!Fresh = s
  <2>1. DOMAIN WholeNode = DOMAIN node
    BY WholeIs
  <2> QED
    BY <2>1 DEF Bare!Fresh, Whole!Fresh, Bare!Cardinality, Whole!Cardinality
<1> QED
  BY <1>1, <1>6, <1>8, <1>9 DEF Whole!InsertEmpty

LEMMA RootIsWhole ==
  ASSUME TreeInv, TreeFits, MemInv, pc = "idle", NEW key \in Key, NEW m,
         InsertRoot(key, m), m.buf = mem.buf
  PROVE  Whole!InsertRoot(key) /\ m.exact = mem'.exact
<1>1. /\ root # NULL /\ ~Nodes!IsFull(node, root)
      /\ this' = root /\ k' = key /\ top' = NULL /\ pc' = "insertNonFull"
      /\ mem' = m /\ UNCHANGED <<node, root>>
  BY DEF InsertRoot
<1>2. root \in DOMAIN node
  BY <1>1 DEF TreeInv, Pointers
<1>3. ~Whole!IsFull(WholeNode, root)
  <2>1. WholeNode[root].n = node[root].n
    BY <1>2, WholeIs
  <2> QED
    BY <1>1, <2>1, DegreesBoth DEF Whole!IsFull, Nodes!IsFull
<1>4. WholeNode' = WholeNode
  <2>1. \A x : KeysIn(mem', x) = KeysIn(mem, x)
    BY <1>1 DEF KeysIn, Word
  <2> QED
    BY <1>1, <2>1, WholeNodeIs DEF WholeOf
<1> QED
  BY <1>1, <1>3, <1>4 DEF Whole!InsertRoot

LEMMA FullRootIsWhole ==
  ASSUME TreeInv, TreeFits, TreeFits', MemInv, pc = "idle", NEW key \in Key, NEW m,
         Insert(key, m), InsertFullRoot(key, m), Leads(mem, m, {}, Known), m.buf = mem.buf,
         mem'.exact
  PROVE  Whole!InsertFullRoot(key) /\ m.exact
<1> PICK s : s = Bare!Fresh
  OBVIOUS
<1> PICK record : record = [Bare!NewNode(FALSE) EXCEPT !.C[0] = root]
  OBVIOUS
<1> PICK heap : heap = Bare!Alloc(node, s, record)
  OBVIOUS
<1> PICK keys : keys = SplitKeys(m, heap, s, 0, s + 1)
  OBVIOUS
<1>1. /\ root \in DOMAIN node /\ root # NULL /\ node[root].n = Nodes!FULL
      /\ s \notin DOMAIN node /\ s + 1 \notin DOMAIN node /\ s + 1 # s
      /\ DOMAIN heap = DOMAIN node \cup {s}
      /\ Bare!CanSplit(heap, s, 0, s + 1)
      /\ node' = Bare!SplitChild(heap, s, 0, s + 1)
      /\ top' = s /\ k' = key /\ pc' = "insertNonFull" /\ root' = root
      /\ Nodes!Fresh = s
      /\ Nodes!Alloc(node, s, [Nodes!NewNode(FALSE) EXCEPT !.C[0] = root]) = heap
  BY NewRootIs
<1>2. mem' = Seen(keys, s, 0) /\ this' = node'[s].C[Side(keys, s, 0, key)]
  BY <1>1 DEF InsertFullRoot
<1> PICK W : W = Known'
  OBVIOUS
<1>3. W \subseteq Key /\ AllWritten(m, W, node) /\ Sound(m, W)
  BY KnownMore DEF Known
<1>4. heap[s] = record /\ \A v \in DOMAIN node : heap[v] = node[v]
  BY <1>1 DEF Bare!Alloc
<1>5. AllWritten(m, W, heap)
  <2>1. record.n = 0
    BY DEF Bare!NewNode
  <2>2. Written(m, W, s, 0, 0)
    BY DEF Written
  <2> QED
    BY <1>1, <1>3, <1>4, <2>1, <2>2 DEF AllWritten
<1>6. /\ Bare!Good(node') /\ DOMAIN node' = DOMAIN heap \cup {s + 1} /\ s \in DOMAIN node'
      /\ DOMAIN heap \cup {s + 1} \subseteq 1 .. SIZE + OPS
  <2>1. Bare!Good(node') /\ Bare!IsSplit(heap, s, 0, heap[s].C[0], s + 1, node')
    BY <1>1, GivenBoth, Bare!SplitWords
  <2> QED
    BY <1>1, <2>1 DEF Bare!IsSplit, TreeFits
<1>7. \A l : Word(m, l) = Word(mem, l)
  BY DEF Word
<1>8. Unwritten(m, s) /\ Unwritten(m, s + 1)
  BY <1>1, <1>6, <1>7 DEF MemInv, Unwritten
<1>9. /\ WholeOf(node', mem') = Whole!SplitChild(WholeOf(heap, m), s, 0, s + 1)
      /\ Read(keys, s, 0) = WholeOf(node', mem')[s].keys[0]
      /\ m.exact
  <2> PICK r : r = mem'
    OBVIOUS
  <2> PICK z : z = s + 1
    OBVIOUS
  <2>1. r = Seen(SplitKeys(m, heap, s, 0, z), s, 0) /\ r.exact
    BY <1>2
  <2>2. DOMAIN heap \cup {z} \subseteq 1 .. SIZE + OPS /\ Unwritten(m, z) /\ Bare!CanSplit(heap, s, 0, z)
    BY <1>1, <1>6, <1>8
  <2>3. Sound(m, W) /\ W \subseteq Key /\ AllWritten(m, W, heap)
    BY <1>3, <1>5
  <2>4. /\ WholeOf(Bare!SplitChild(heap, s, 0, z), r) = Whole!SplitChild(WholeOf(heap, m), s, 0, z)
        /\ Read(SplitKeys(m, heap, s, 0, z), s, 0)
             = WholeOf(Bare!SplitChild(heap, s, 0, z), r)[s].keys[0]
        /\ m.exact
    BY ONLY <2>1, <2>2, <2>3, SplitIsSplit
  <2> QED
    BY <1>1, <2>4
<1>10. WholeOf(heap, m) = Whole!Alloc(WholeNode, s, [Whole!NewNode(FALSE) EXCEPT !.C[0] = root])
  <2> PICK new : new = Whole!NewNode(FALSE)
    OBVIOUS
  <2> PICK q : q = [Whole!NewNode(FALSE) EXCEPT !.C[0] = root]
    OBVIOUS
  <2>1. KeysIn(m, s) = new.keys
    BY <1>8, NewWhole
  <2>2. [record EXCEPT !.keys = KeysIn(m, s)] = q
    <3> PICK old : old = new.keys
      OBVIOUS
    <3> PICK C : C = new.C
      OBVIOUS
    <3>1. new = [keys |-> old, C |-> C, n |-> 0, leaf |-> FALSE]
      BY DEF Whole!NewNode
    <3>2. record = [new EXCEPT !.C[0] = root] /\ q = record
      BY NewNodesSame
    <3> PICK first : first = [C EXCEPT ![0] = root]
      OBVIOUS
    <3>3. first = [C EXCEPT ![0] = root]
      OBVIOUS
    <3>4. record = [keys |-> old, C |-> first, n |-> 0, leaf |-> FALSE]
      BY ONLY <3>1, <3>2, <3>3
    <3> PICK u : u = [record EXCEPT !.keys = old]
      OBVIOUS
    <3>5. u = [record EXCEPT !.keys = old]
      OBVIOUS
    <3>6. u = [keys |-> old, C |-> first, n |-> 0, leaf |-> FALSE]
      BY ONLY <3>4, <3>5
    <3> QED
      BY <2>1, <3>2, <3>4, <3>6
  <2>3. \A x : KeysIn(m, x) = KeysIn(mem, x)
    BY <1>7 DEF KeysIn
  <2>4. ASSUME NEW v \in DOMAIN node
        PROVE  WholeOf(heap, m)[v] = WholeNode[v] /\ v # s
    BY <1>1, <1>4, <2>3, WholeNodeIs DEF WholeOf
  <2>5. WholeOf(heap, m)[s] = q
    BY <1>1, <1>4, <2>2 DEF WholeOf
  <2>6. DOMAIN WholeNode = DOMAIN node
    BY WholeIs
  <2> PICK wide : wide = WholeOf(heap, m)
    OBVIOUS
  <2>7. wide = [v \in DOMAIN node \cup {s} |-> wide[v]]
    BY <1>1 DEF WholeOf
  <2>8. Whole!Alloc(WholeNode, s, q) = [v \in DOMAIN node \cup {s} |-> IF v = s THEN q ELSE WholeNode[v]]
    BY <2>6 DEF Whole!Alloc
  <2>9. \A v \in DOMAIN node \cup {s} : wide[v] = IF v = s THEN q ELSE WholeNode[v]
    BY <2>4, <2>5
  <2> QED
    BY <2>7, <2>8, <2>9
<1>11. Whole!Fresh = s
  <2>1. DOMAIN WholeNode = DOMAIN node
    BY WholeIs
  <2> QED
    BY <2>1 DEF Bare!Fresh, Whole!Fresh, Bare!Cardinality, Whole!Cardinality
<1> PICK split : split = WholeNode'
  OBVIOUS
<1>12. /\ split = Whole!SplitChild(Whole!Alloc(WholeNode, s, [Whole!NewNode(FALSE) EXCEPT !.C[0] = root]),
                                   s, 0, s + 1)
       /\ Read(keys, s, 0) = split[s].keys[0]
  BY <1>9, <1>10, WholeNodeIs
<1>13. Side(keys, s, 0, key) = Whole!Side(split[s], 0, key)
  BY <1>12 DEF Side, Whole!Side
<1>14. split[s].C = node'[s].C
  <2>1. node'[s] \in Bare!Record(DOMAIN node')
    BY <1>6 DEF Bare!Good, Bare!GoodNode
  <2>2. split[s] = [node'[s] EXCEPT !.keys = KeysIn(mem', s)]
    BY <1>6, WholeNodeIs DEF WholeOf
  <2> QED
    BY <2>1, <2>2 DEF Bare!Record
<1>15. Whole!IsFull(WholeNode, root)
  <2>1. WholeNode[root].n = node[root].n
    BY <1>1, WholeIs
  <2> QED
    BY <1>1, <2>1, DegreesBoth DEF Whole!IsFull
<1>16. this' = split[s].C[Whole!Side(split[s], 0, key)]
  BY <1>2, <1>13, <1>14
<1> QED
  BY <1>1, <1>9, <1>11, <1>12, <1>15, <1>16 DEF Whole!InsertFullRoot

LEMMA InsertIsWhole ==
  ASSUME TreeInv, TreeFits, TreeFits', MemInv, pc = "idle", NEW key \in Key, NEW m,
         Insert(key, m), Leads(mem, m, {}, Known), m.buf = mem.buf, mem'.exact
  PROVE  Whole!Insert(key) /\ m.exact
<1>1. inserted' = [inserted EXCEPT ![key] = @ + 1]
  BY DEF Insert
<1>2. CASE InsertEmpty(key, m)
  BY <1>1, <1>2, EmptyIsWhole DEF Whole!Insert
<1>3. CASE InsertFullRoot(key, m)
  BY <1>1, <1>3, FullRootIsWhole DEF Whole!Insert
<1>4. CASE InsertRoot(key, m)
  BY <1>1, <1>4, RootIsWhole DEF Whole!Insert
<1> QED
  BY <1>2, <1>3, <1>4 DEF Insert

-----------------------------------------------------------------------------
\* BTree with the same nodes, without the lemmas about it: what it does is the
\* same.
LEMMA SameSplitWhole ==
  ASSUME NEW heap, NEW x, NEW i, NEW z
  PROVE  Direct!SplitChild(heap, x, i, z) = Whole!SplitChild(heap, x, i, z)
BY DEF Direct!SplitChild, Whole!SplitChild, Direct!Alloc, Whole!Alloc, Direct!Upper, Whole!Upper,
       Direct!NewNode, Whole!NewNode, Direct!Half, Whole!Half, Direct!UpperKey, Whole!UpperKey,
       Direct!UpperChild, Whole!UpperChild, Direct!Lower, Whole!Lower, Direct!Extended,
       Whole!Extended, Direct!Put, Whole!Put, Direct!FULL, Whole!FULL, Direct!Slot, Whole!Slot

LEMMA SameFreshWhole == Direct!Fresh = Whole!Fresh
BY DEF Direct!Fresh, Whole!Fresh, Direct!Cardinality, Whole!Cardinality, WholeNode

LEMMA SameFullWhole ==
  ASSUME NEW heap, NEW x
  PROVE  Direct!IsFull(heap, x) <=> Whole!IsFull(heap, x)
BY DEF Direct!FULL, Whole!FULL, Direct!IsFull, Whole!IsFull

LEMMA SamePlaceWhole == Direct!ChildPlace = Whole!ChildPlace
BY DEF Direct!ChildPlace, Whole!ChildPlace, Direct!LastNotGreater, Whole!LastNotGreater,
       Direct!Max, Whole!Max, WholeNode

LEMMA SameKeyWhole ==
  ASSUME NEW r, NEW key
  PROVE  Direct!WithKey(r, key) = Whole!WithKey(r, key)
BY DEF Direct!WithKey, Whole!WithKey, Direct!LastNotGreater, Whole!LastNotGreater,
       Direct!Max, Whole!Max, Direct!Put, Whole!Put

LEMMA SameNewWhole ==
  /\ \A heap, x, record : Direct!Alloc(heap, x, record) = Whole!Alloc(heap, x, record)
  /\ \A isleaf : Direct!NewNode(isleaf) = Whole!NewNode(isleaf)
BY DEF Direct!Alloc, Whole!Alloc, Direct!NewNode, Whole!NewNode, Direct!FULL, Whole!FULL,
       Direct!Slot, Whole!Slot

LEMMA SameDescent ==
  /\ Whole!Descend => Direct!Descend
  /\ Whole!InsertNonFullLeaf => Direct!InsertNonFullLeaf
  /\ Whole!SplitAndDescend => Direct!SplitAndDescend
<1>1. Whole!Descend => Direct!Descend
  BY SamePlaceWhole, SameFullWhole DEF Whole!Descend, Direct!Descend, WholeNode
<1>2. Whole!InsertNonFullLeaf => Direct!InsertNonFullLeaf
  BY SameKeyWhole DEF Whole!InsertNonFullLeaf, Direct!InsertNonFullLeaf, WholeNode
<1>3. Whole!SplitAndDescend => Direct!SplitAndDescend
  BY SamePlaceWhole, SameFullWhole, SameSplitWhole, SameFreshWhole
     DEF Whole!SplitAndDescend, Direct!SplitAndDescend, WholeNode, Whole!Side, Direct!Side
<1> QED
  BY <1>1, <1>2, <1>3

LEMMA SameInsert ==
  ASSUME NEW key, Whole!Insert(key)
  PROVE  Direct!Insert(key)
<1>1. Whole!InsertEmpty(key) => Direct!InsertEmpty(key)
  BY SameNewWhole, SameFreshWhole DEF Whole!InsertEmpty, Direct!InsertEmpty, WholeNode
<1>2. Whole!InsertRoot(key) => Direct!InsertRoot(key)
  BY SameFullWhole DEF Whole!InsertRoot, Direct!InsertRoot, WholeNode
<1>3. Whole!InsertFullRoot(key) => Direct!InsertFullRoot(key)
  BY SameNewWhole, SameFreshWhole, SameFullWhole, SameSplitWhole
     DEF Whole!InsertFullRoot, Direct!InsertFullRoot, WholeNode, Whole!Side, Direct!Side
<1> QED
  BY <1>1, <1>2, <1>3 DEF Whole!Insert, Direct!Insert

\* A step of the program whose reads are right is one of btree.cc.
LEMMA StepIsDirect ==
  ASSUME TreeInv, TreeFits, MemInv, TreeInv', TreeFits', Next,
         mem'.exact, done' = done, pc' # "end"
  PROVE  Direct!Next \/ UNCHANGED vars
<1>1. CASE Build
  <2>1. Leads(mem, mem, {}, Known)
    BY LeadsToItself DEF MemInv
  <2>2. /\ pc = "idle" /\ built < SIZE /\ built' = built + 1 /\ done' = done
        /\ \E key \in Key : Whole!Insert(key)
    BY <1>1, <2>1, InsertIsWhole DEF Build
  <2> QED
    BY <2>2, SameInsert DEF Direct!Next, Direct!Build
<1>2. CASE InsertNonFull
  BY <1>2, SameDescent, LeafIsWhole, DescendIsWhole, SplitIsWhole
     DEF InsertNonFull, Direct!Next, Direct!InsertNonFull
<1>3. CASE Operate
  BY <1>3 DEF Operate, TreeInv, Bare!Counters
<1>4. CASE FinalTransfer
  BY <1>4 DEF FinalTransfer
<1> QED
  BY <1>1, <1>2, <1>3, <1>4 DEF Next, Ended

\* As long as the reads were right the program does, step by step, what btree.cc
\* does, also over a transfer in the middle of a split or of a shift of keys.
THEOREM MovesLikeBTree == Spec => BuildsLikeBTree
<1> DEFINE Inv == TreeInv /\ TreeFits /\ MemInv
<1>1. Inv /\ Inv' /\ [Next]_vars
      => [mem'.exact /\ done' = done /\ pc' # "end" => Direct!Next]_vars
  BY StepIsDirect
<1> QED
  BY <1>1, MemoryInvariant, PTL DEF Spec, BuildsLikeBTree

-----------------------------------------------------------------------------
(***************************************************************************)
(* While the reads were right, the nodes with the keys last written to     *)
(* them are a B-tree with its keys in order and each of them as often as   *)
(* it was inserted: the invariants of BTree hold of them, because every    *)
(* step that could break them is one of BTree.                             *)
(***************************************************************************)
AsInMemory == Whole!IInv /\ Whole!OrderInv
WholeInv == mem.exact /\ pc # "end" => AsInMemory

LEMMA InitIsWhole == Init => WholeInv
<1> SUFFICES ASSUME Init PROVE AsInMemory
  BY DEF WholeInv
<1>1. Whole!Init
  <2>1. node = [x \in {} |-> 0]
    BY DEF Init
  <2>2. WholeNode = [x \in {} |-> 0]
    BY <2>1 DEF WholeNode
  <2>3. WholeNode = [x \in {} |-> Whole!NewNode(TRUE)]
    BY <2>2
  <2> QED
    BY <2>3 DEF Init, Whole!Init
<1> QED
  BY <1>1, GivenBoth, Whole!InitIsGood, Whole!InitIsOrdered DEF AsInMemory

\* A step of an insertion in memory, and one that changes no key.
LEMMA InsertionKeepsWhole ==
  ASSUME AsInMemory, pc = "idle", NEW key \in Key, Whole!Insert(key),
         built' \in 0 .. SIZE, done' \in 0 .. OPS
  PROVE  AsInMemory'
BY GivenBoth, Whole!InsertStep, Whole!InsertOrders DEF AsInMemory

LEMMA CallKeepsWhole ==
  ASSUME AsInMemory, Whole!InsertNonFullLeaf \/ Whole!Descend \/ Whole!SplitAndDescend
  PROVE  AsInMemory'
BY GivenBoth, Whole!LeafStep, Whole!DescendStep, Whole!SplitStep,
   Whole!LeafStepOrders, Whole!DescendStepOrders, Whole!SplitStepOrders DEF AsInMemory

LEMMA StillKeepsWhole ==
  ASSUME AsInMemory, UNCHANGED <<node, root, pc, this, k, top, inserted>>, mem'.buf = mem.buf,
         built' \in 0 .. SIZE, done' \in 0 .. OPS
  PROVE  AsInMemory'
<1>1. WholeNode' = WholeNode
  <2>1. \A x : KeysIn(mem', x) = KeysIn(mem, x)
    BY DEF KeysIn, Word
  <2> QED
    BY <2>1, WholeNodeIs DEF WholeOf
<1> QED
  BY <1>1, GivenBoth, Whole!StillStep, Whole!StillOrders DEF AsInMemory

LEMMA StepKeepsWhole ==
  ASSUME TreeInv, TreeFits, MemInv, TreeInv', TreeFits', WholeInv, [Next]_vars
  PROVE  WholeInv'
<1> SUFFICES ASSUME mem'.exact, pc' # "end" PROVE AsInMemory'
  BY DEF WholeInv
<1>1. built' \in 0 .. SIZE /\ done' \in 0 .. OPS
  BY DEF TreeInv, Bare!Counters
<1>2. mem.exact /\ pc # "end" => AsInMemory
  BY DEF WholeInv
<1>3. CASE Build
  <2>1. Leads(mem, mem, {}, Known)
    BY LeadsToItself DEF MemInv
  <2>2. pc = "idle" /\ mem.exact /\ \E key \in Key : Whole!Insert(key)
    BY <1>3, <2>1, InsertIsWhole DEF Build
  <2> QED
    BY <1>1, <1>2, <2>2, InsertionKeepsWhole
<1>4. CASE Operate
  <2>1. PICK key \in Key :
          LET p == Search(key)
              m == [mem EXCEPT !.exact = @ /\ \A l \in p.at : Buffer!Exact(mem.buf, l)]
          IN  IF p.found = NULL
                THEN Insert(key, m)
                ELSE mem' = m /\ UNCHANGED <<node, root, pc, this, k, top, inserted>>
    BY <1>4 DEF Operate
  <2> PICK m : m = [mem EXCEPT !.exact = @ /\ \A l \in Search(key).at : Buffer!Exact(mem.buf, l)]
    OBVIOUS
  <2>2. Leads(mem, m, {}, Known) /\ pc = "idle"
    BY <1>4, SearchLeads DEF Operate
  <2>3. m.buf = mem.buf /\ (m.exact => mem.exact)
    BY DEF MemInv, Sound
  <2>4. CASE Insert(key, m)
    <3>1. Whole!Insert(key) /\ m.exact
      BY <2>2, <2>3, <2>4, InsertIsWhole
    <3> QED
      BY <1>1, <1>2, <2>2, <2>3, <3>1, InsertionKeepsWhole
  <2>5. CASE mem' = m /\ UNCHANGED <<node, root, pc, this, k, top, inserted>>
    BY <1>1, <1>2, <2>2, <2>3, <2>5, StillKeepsWhole
  <2> QED
    BY <2>1, <2>4, <2>5
<1>5. CASE InsertNonFull
  <2>1. pc = "insertNonFull"
    BY <1>5 DEF InsertNonFull, InsertNonFullLeaf, Descend, SplitAndDescend
  <2>2. /\ mem.exact
        /\ Whole!InsertNonFullLeaf \/ Whole!Descend \/ Whole!SplitAndDescend
    BY <1>5, LeafIsWhole, DescendIsWhole, SplitIsWhole DEF InsertNonFull
  <2> QED
    BY <1>2, <2>1, <2>2, CallKeepsWhole
<1>6. CASE FinalTransfer
  BY <1>6 DEF FinalTransfer
<1>7. CASE UNCHANGED vars
  BY <1>1, <1>2, <1>7, StillKeepsWhole DEF vars
<1> QED
  BY <1>3, <1>4, <1>5, <1>6, <1>7 DEF Next, Ended

\* As long as the reads were right, the keys in the buffer form a B-tree.
THEOREM WholeInvariant == Spec => []WholeInv
<1> DEFINE Inv == TreeInv /\ TreeFits /\ MemInv
<1>1. Init => WholeInv
  BY InitIsWhole
<1>2. Inv /\ Inv' /\ WholeInv /\ [Next]_vars => WholeInv'
  BY StepKeepsWhole
<1> HIDE DEF Inv
<1>3. Spec => []Inv
  BY MemoryInvariant DEF Inv
<1> QED
  BY <1>1, <1>2, <1>3, PTL DEF Spec

\* Whatever transfers fall between and inside its steps, as long as no read has
\* shown another key the keys last written are in order in nodes of one shape,
\* each as often as it was inserted, and a call under way is on a node with room
\* under which its key belongs: the promises of btree.cc, kept by a program
\* that moves every key through the buffer.
THEOREM TreeStaysOrdered ==
  Spec => [](mem.exact /\ pc # "end" =>
               Whole!WellFormed /\ Whole!Ordered /\ Whole!ContentsKept /\ Whole!RoomAndPlace)
<1>1. AsInMemory => Whole!WellFormed /\ Whole!Ordered /\ Whole!ContentsKept /\ Whole!RoomAndPlace
  BY GivenBoth, Whole!WellFormedHere, Whole!OrderedHere, Whole!KeptHere, Whole!InPlaceHere
     DEF AsInMemory
<1>2. WholeInv =>
        (mem.exact /\ pc # "end" =>
           Whole!WellFormed /\ Whole!Ordered /\ Whole!ContentsKept /\ Whole!RoomAndPlace)
  BY <1>1 DEF WholeInv
<1> QED
  BY <1>2, WholeInvariant, PTL

-----------------------------------------------------------------------------
(***************************************************************************)
(* A search whose own reads are right, on the keys last written.           *)
(***************************************************************************)
LEMMA LooksRight ==
  ASSUME TreeInv, TreeFits, MemInv, NEW key, NEW x \in DOMAIN node,
         \A l \in Looked(x, key) : Buffer!Exact(mem.buf, l)
  PROVE  /\ First(x, key) \in 0 .. node[x].n
         /\ Whole!First(WholeNode[x], key) = First(x, key)
         /\ First(x, key) < node[x].n =>
              Read(mem, x, First(x, key)) = WholeNode[x].keys[First(x, key)]
<1>1. node[x].n \in Nat /\ node[x].n >= 1 /\ node[x].n <= Nodes!FULL
  <2>1. node[x].n \in 0 .. Nodes!FULL
    BY GivenBoth, DegreesBoth, Bare!GoodNodeIs DEF TreeInv, Bare!Good
  <2> QED
    BY <2>1, GivenBoth, DegreesBoth DEF TreeInv, Bare!Filled
<1> PICK f : f = First(x, key)
  OBVIOUS
<1> PICK n : n = node[x].n
  OBVIOUS
<1> PICK last : last = Min({First(x, key), node[x].n - 1})
  OBVIOUS
<1> PICK keys : keys = WholeNode[x].keys
  OBVIOUS
<1> PICK g : g = Whole!First(WholeNode[x], key)
  OBVIOUS
<1>2. /\ f \in 0 .. n
      /\ f < n => Read(mem, x, f) >= key
      /\ \A j \in 0 .. n - 1 : Read(mem, x, j) >= key => f <= j
  BY <1>1, FirstIs
<1>3. last = IF f < n THEN f ELSE n - 1
  BY <1>1, LastLookedIs
<1>4. ASSUME NEW j \in 0 .. n - 1, j <= f
      PROVE  Read(mem, x, j) = keys[j]
  <2>1. x \in 1 .. SIZE + OPS
    BY DEF TreeFits
  <2>2. j \in Nodes!Slot
    BY <1>1, <2>1, PlacesAre
  <2>3. j \in 0 .. last
    <3>1. n \in Nat /\ j <= f
      BY <1>1, <1>4
    <3>2. \A a \in Nat : \A b \in 0 .. a : \A c \in 0 .. a - 1 :
            c <= b => c \in 0 .. (IF b < a THEN b ELSE a - 1)
      OBVIOUS
    <3> QED
      BY ONLY <1>2, <1>3, <3>1, <3>2, j \in 0 .. n - 1
  <2>4. Buffer!Exact(mem.buf, Address(x, j))
    BY <2>3 DEF Looked
  <2>5. keys[j] = Word(mem, Address(x, j))
    BY <2>2, WholeIs
  <2> QED
    BY <2>4, <2>5 DEF Read, Buffer!Exact, Word
<1>5. /\ g \in 0 .. n
      /\ g < n => keys[g] >= key
      /\ \A j \in 0 .. n - 1 : keys[j] >= key => g <= j
  <2>1. WholeNode[x].n = n
    BY WholeIs
  <2> QED
    BY <1>1, <2>1, GivenBoth, Whole!FirstIs
<1>6. g <= f
  <2>1. CASE f < n
    <3>1. f \in 0 .. n - 1 /\ f <= f
      BY <1>1, <1>2, <2>1
    <3> QED
      BY <1>2, <1>4, <1>5, <2>1, <3>1
  <2>2. CASE ~(f < n)
    BY <1>1, <1>2, <1>5, <2>2
  <2> QED
    BY <2>1, <2>2
<1>7. f <= g
  <2> SUFFICES ASSUME g < f PROVE FALSE
    BY <1>1, <1>2, <1>5
  <2>1. g \in 0 .. n - 1 /\ g <= f /\ g < n
    BY <1>1, <1>2, <1>5
  <2>2. Read(mem, x, g) >= key
    BY <1>4, <1>5, <2>1
  <2> QED
    BY <1>1, <1>2, <1>5, <2>1, <2>2
<1>8. f = g
  BY <1>1, <1>2, <1>5, <1>6, <1>7
<1>9. f < n => Read(mem, x, f) = keys[f]
  BY <1>1, <1>2, <1>4
<1> QED
  BY <1>2, <1>8, <1>9

\* The reads on the way of a search from the root are the ones it made.
LEMMA LooksAreReads ==
  ASSUME TreeInv, TreeFits, MemInv, root \in DOMAIN node, NEW key, NEW search,
         \A x \in DOMAIN node : search[x].at = UNION {Looked(y, key) : y \in Path(key)[x]},
         Search(key) = search[root],
         \A l \in Search(key).at : Buffer!Exact(mem.buf, l),
         NEW x \in Path(key)[root]
  PROVE  \A l \in Looked(x, key) : Buffer!Exact(mem.buf, l)
<1>1. Search(key).at = UNION {Looked(y, key) : y \in Path(key)[root]}
  OBVIOUS
<1>2. \A l \in Looked(x, key) : l \in Search(key).at
  BY <1>1
<1> QED
  BY <1>2

\* What search finds from a node, by what it finds from the next.
LEMMA FoundIs ==
  ASSUME NEW key, NEW search, IsSearch(search, key), NEW x \in DOMAIN node
  PROVE  /\ Hit(x, key) => search[x].found = x
         /\ ~Hit(x, key) /\ node[x].leaf => search[x].found = NULL
         /\ ~Hit(x, key) /\ ~node[x].leaf =>
              search[x].found = search[node[x].C[First(x, key)]].found
<1>1. search[x] =
        IF Hit(x, key) \/ node[x].leaf
          THEN [found |-> IF Hit(x, key) THEN x ELSE NULL, at |-> Looked(x, key)]
          ELSE [search[node[x].C[First(x, key)]] EXCEPT !.at = @ \cup Looked(x, key)]
  BY DEF IsSearch
<1> QED
  BY <1>1

\* A node in the whole tree that has a key.
LEMMA HasKey ==
  ASSUME AsInMemory, pc = "idle", NEW key \in Key
  PROVE  inserted[key] > 0 <=>
           \E x \in DOMAIN WholeNode : \E j \in 0 .. WholeNode[x].n - 1 : WholeNode[x].keys[j] = key
<1>1. /\ inserted[key] \in Nat
      /\ Whole!IsFiniteSet(Whole!PlacesOf(WholeNode, key))
      /\ Whole!Cardinality(Whole!PlacesOf(WholeNode, key)) = inserted[key]
  BY GivenBoth, Whole!IdleTree DEF AsInMemory
<1>2. inserted[key] > 0 <=> Whole!PlacesOf(WholeNode, key) # {}
  BY <1>1, GivenBoth, Whole!FS_EmptySet
<1>3. Whole!Good(WholeNode)
  BY DEF AsInMemory, Whole!IInv
<1>4. ASSUME NEW p \in Whole!PlacesOf(WholeNode, key)
      PROVE  \E x \in DOMAIN WholeNode : \E j \in 0 .. WholeNode[x].n - 1 : WholeNode[x].keys[j] = key
  <2> PICK v, j : v = p[1] /\ j = p[2]
    OBVIOUS
  <2>1. v \in DOMAIN WholeNode /\ j \in Whole!Slot /\ j < WholeNode[v].n /\ WholeNode[v].keys[j] = key
    BY GivenBoth, Whole!PairOf, Whole!InPlacesOf
  <2>2. WholeNode[v].n \in Nat
    BY <1>3, <2>1, GivenBoth, Whole!GoodNodeIs DEF Whole!Good
  <2>3. j \in 0 .. WholeNode[v].n - 1
    BY <2>1, <2>2, DegreesBoth DEF Whole!Slot
  <2> QED
    BY <2>1, <2>3
<1>5. ASSUME NEW x \in DOMAIN WholeNode, NEW j \in 0 .. WholeNode[x].n - 1, WholeNode[x].keys[j] = key
      PROVE  <<x, j>> \in Whole!PlacesOf(WholeNode, key)
  <2>1. WholeNode[x].n \in 0 .. Whole!FULL
    BY <1>3, GivenBoth, Whole!GoodNodeIs DEF Whole!Good
  <2>2. j \in Whole!Slot /\ j < WholeNode[x].n
    BY <2>1, DegreesBoth DEF Whole!Slot
  <2> QED
    BY <1>5, <2>2, GivenBoth, Whole!InPlacesOf
<1> QED
  BY <1>2, <1>4, <1>5

\* What a search returns says nothing wrong of a key that is not in the tree,
LEMMA AbsentIsNull ==
  ASSUME TreeInv, TreeFits, MemInv, AsInMemory, pc = "idle", root \in DOMAIN node,
         NEW key \in Key, ~(inserted[key] > 0), NEW search, IsSearch(search, key),
         \A x \in DOMAIN node : search[x].at = UNION {Looked(y, key) : y \in Path(key)[x]},
         Search(key) = search[root],
         \A l \in Search(key).at : Buffer!Exact(mem.buf, l)
  PROVE  search[root].found = NULL
<1> PICK P : P = Path(key)[root]
  OBVIOUS
<1> DEFINE B == {x \in P : search[x].found # NULL}
<1>1. Bare!Good(node) /\ P \subseteq DOMAIN node /\ root \in P
  BY PathIs DEF TreeInv
<1>2. PICK height : Bare!IsHeight(node, height)
  BY DEF TreeInv, Bare!Levelled
<1>3. height \in [DOMAIN node -> Nat]
  BY <1>2 DEF Bare!IsHeight
<1>4. ASSUME NEW x \in P PROVE ~Hit(x, key)
  <2> SUFFICES ASSUME Hit(x, key) PROVE FALSE
    OBVIOUS
  <2>1. x \in DOMAIN node /\ x \in Path(key)[root]
    BY <1>1
  <2>2. \A l \in Looked(x, key) : Buffer!Exact(mem.buf, l)
    BY <2>1, LooksAreReads
  <2>3. /\ First(x, key) \in 0 .. node[x].n
        /\ First(x, key) < node[x].n /\ Read(mem, x, First(x, key)) = key
        /\ First(x, key) < node[x].n =>
             Read(mem, x, First(x, key)) = WholeNode[x].keys[First(x, key)]
    BY <2>1, <2>2, LooksRight DEF Hit
  <2> PICK j : j = First(x, key)
    OBVIOUS
  <2>4. node[x].n \in Nat /\ WholeNode[x].n = node[x].n /\ DOMAIN WholeNode = DOMAIN node
    BY <1>1, <2>1, GivenBoth, Bare!GoodNodeIs, WholeIs DEF Bare!Good
  <2>5. j \in 0 .. WholeNode[x].n - 1 /\ WholeNode[x].keys[j] = key
    BY <2>3, <2>4
  <2> QED
    BY <2>1, <2>4, <2>5, HasKey
<1>5. B = {}
  <2> SUFFICES ASSUME B # {} PROVE FALSE
    OBVIOUS
  <2>1. B \subseteq DOMAIN node
    BY <1>1
  <2> HIDE DEF B
  <2>2. PICK x \in B : \A y \in B : height[x] <= height[y]
    BY <1>3, <2>1, GivenBoth, Bare!LowestNode
  <2>3. x \in P /\ x \in DOMAIN node /\ search[x].found # NULL /\ ~Hit(x, key)
    BY <1>1, <1>4, <2>2 DEF B
  <2> PICK c : c = node[x].C[First(x, key)]
    OBVIOUS
  <2>4. ~node[x].leaf /\ search[x].found = search[c].found
    BY <2>3, FoundIs
  <2>5. First(x, key) \in 0 .. node[x].n /\ c \in DOMAIN node
    BY <1>1, <2>3, <2>4, OnwardIs
  <2>6. c \in P
    <3>1. c \in Onward(x, key)
      BY <2>3, <2>4 DEF Onward
    <3>2. Onward(x, key) \subseteq P
      BY <1>1, <2>3, PathIs
    <3> QED
      BY <3>1, <3>2
  <2>7. c \in B
    BY <2>3, <2>4, <2>6 DEF B
  <2>8. height[x] = height[c] + 1
    BY <1>2, <2>3, <2>4, <2>5 DEF Bare!IsHeight
  <2>9. height[x] \in Nat /\ height[c] \in Nat /\ height[x] <= height[c]
    BY <1>3, <2>2, <2>3, <2>5, <2>7
  <2> QED
    BY <2>8, <2>9
<1> QED
  BY <1>1, <1>5

\* and finds one that is.
LEMMA PresentIsFoundHere ==
  ASSUME TreeInv, TreeFits, MemInv, AsInMemory, pc = "idle", root \in DOMAIN node,
         NEW key \in Key, inserted[key] > 0, NEW search, IsSearch(search, key),
         \A x \in DOMAIN node : search[x].at = UNION {Looked(y, key) : y \in Path(key)[x]},
         Search(key) = search[root],
         \A l \in Search(key).at : Buffer!Exact(mem.buf, l)
  PROVE  search[root].found # NULL
<1> SUFFICES ASSUME search[root].found = NULL PROVE FALSE
  OBVIOUS
<1> PICK P : P = Path(key)[root]
  OBVIOUS
<1> DEFINE M == {x \in P : search[x].found = NULL}
<1>1. Bare!Good(node) /\ P \subseteq DOMAIN node /\ root \in P
  BY PathIs DEF TreeInv
<1>2. /\ DOMAIN WholeNode = DOMAIN node /\ Whole!Good(WholeNode) /\ Whole!Keyed(WholeNode)
      /\ Whole!Levelled(WholeNode) /\ Whole!IInv
  BY WholeIs DEF AsInMemory, Whole!IInv, Whole!OrderInv
<1>3. PICK span : Whole!IsSpan(WholeNode, span, Whole!Top)
  BY DEF AsInMemory, Whole!OrderInv, Whole!InSpan
<1>4. ASSUME NEW x \in M
      PROVE  LET at == Whole!First(WholeNode[x], key)
             IN  /\ at < WholeNode[x].n => WholeNode[x].keys[at] # key
                 /\ ~WholeNode[x].leaf => WholeNode[x].C[at] \in M
  <2>1. x \in DOMAIN node /\ x \in Path(key)[root] /\ search[x].found = NULL
    BY <1>1
  <2>2. \A l \in Looked(x, key) : Buffer!Exact(mem.buf, l)
    BY <2>1, LooksAreReads
  <2> PICK at : at = First(x, key)
    OBVIOUS
  <2>3. /\ Whole!First(WholeNode[x], key) = at
        /\ at < node[x].n => Read(mem, x, at) = WholeNode[x].keys[at]
    BY <2>1, <2>2, LooksRight
  <2>4. ~Hit(x, key)
    BY <2>1, FoundIs DEF TreeFits
  <2>5. at < node[x].n => WholeNode[x].keys[at] # key
    BY <2>3, <2>4 DEF Hit
  <2>6. WholeNode[x].n = node[x].n /\ WholeNode[x].leaf = node[x].leaf /\ WholeNode[x].C = node[x].C
    BY <2>1, WholeIs
  <2>7. ASSUME ~node[x].leaf PROVE node[x].C[at] \in M
    <3>1. search[node[x].C[at]].found = NULL
      BY <2>1, <2>4, <2>7, FoundIs
    <3>2. node[x].C[at] \in Onward(x, key)
      BY <2>4, <2>7 DEF Onward
    <3>3. Onward(x, key) \subseteq P
      BY <1>1, <2>1, PathIs
    <3> QED
      BY <3>1, <3>2, <3>3
  <2> QED
    BY <2>3, <2>5, <2>6, <2>7
<1>5. M \subseteq DOMAIN WholeNode /\ root \in M
  BY <1>1, <1>2
<1> HIDE DEF M
<1>6. \A x \in M : key \notin Whole!KeysUnder(x)
  BY <1>2, <1>3, <1>4, <1>5, GivenBoth, Whole!ScanDoesNotMiss
<1>7. PICK v \in DOMAIN WholeNode : \E j \in 0 .. WholeNode[v].n - 1 : WholeNode[v].keys[j] = key
  BY HasKey
<1>8. Whole!Top = root
  BY GivenBoth, Whole!IdleTree DEF AsInMemory
<1>9. v \in Whole!NodesUnder[root]
  BY <1>2, <1>7, <1>8, GivenBoth, Whole!AllAreUnderTop
<1>10. key \in Whole!KeysUnder(root)
  BY <1>7, <1>9 DEF Whole!KeysUnder, Whole!KeysOf
<1> QED
  BY <1>5, <1>6, <1>10

\* After right reads, a search whose own reads are right finds a key exactly
\* when it was inserted.
THEOREM SearchesAreRight == Spec => []SearchIsRight
<1> DEFINE Inv == TreeInv /\ TreeFits /\ MemInv
<1>1. Inv /\ WholeInv => SearchIsRight
  <2> SUFFICES ASSUME Inv, WholeInv, pc = "idle", mem.exact, NEW key \in Key,
                      \A l \in Search(key).at : Buffer!Exact(mem.buf, l)
               PROVE  Search(key).found # NULL <=> inserted[key] > 0
    BY DEF SearchIsRight
  <2>1. AsInMemory
    BY DEF WholeInv
  <2>2. Bare!Good(node) /\ Bare!Levelled(node)
    BY DEF TreeInv
  <2>3. PICK search :
          /\ IsSearch(search, key)
          /\ \A x \in DOMAIN node : search[x].at = UNION {Looked(y, key) : y \in Path(key)[x]}
          /\ Search(key) = IF root = NULL THEN [found |-> NULL, at |-> {}] ELSE search[root]
    BY <2>2, SearchIs
  <2>4. CASE root = NULL
    <3>1. DOMAIN WholeNode = {}
      BY <2>4, WholeIs DEF TreeInv, Pointers
    <3>2. ~(inserted[key] > 0)
      BY <2>1, <3>1, HasKey
    <3>3. Search(key).found = NULL
      BY <2>3, <2>4
    <3> QED
      BY <3>2, <3>3
  <2>5. CASE root # NULL
    <3>1. root \in DOMAIN node /\ Search(key) = search[root]
      BY <2>3, <2>5 DEF TreeInv, Pointers
    <3>2. inserted[key] > 0 => search[root].found # NULL
      BY <2>1, <2>3, <3>1, PresentIsFoundHere
    <3>3. ~(inserted[key] > 0) => search[root].found = NULL
      BY <2>1, <2>3, <3>1, AbsentIsNull
    <3> QED
      BY <3>1, <3>2, <3>3
  <2> QED
    BY <2>4, <2>5
<1> HIDE DEF Inv
<1>2. Spec => []Inv
  BY MemoryInvariant DEF Inv
<1> QED
  BY <1>1, <1>2, WholeInvariant, PTL
=============================================================================
