----------------------------- MODULE BufferBTree -----------------------------
(***************************************************************************)
(* src/Btree/buffer_btree.cc: the B-tree of BTree with the keys of its     *)
(* nodes read and written through the write buffer.  The fields n, C and   *)
(* leaf of a node are ordinary memory.                                     *)
(*                                                                         *)
(* A step is what it is in BTree: a call of insertNonFull on one node, or  *)
(* insert or search up to the next one.  Inside a step the keys move one   *)
(* by one, each by a read and a write of the buffer, and any write may     *)
(* transfer.  Nodes are never freed, so new hands out ascending addresses. *)
(***************************************************************************)
EXTENDS Integers, FiniteSetsExt

CONSTANTS
  Key, T, SIZE, OPS, NULL, UNINIT,   \* as in BTree
  SLOTS                              \* writes between two transfers

VARIABLES
  node, root, pc, this, k, top, built, done, inserted,   \* as in BTree
  mem         \* [buf, exact]: the buffer with the keys; history: every read of
              \* the program showed what was last written there

vars == <<node, root, pc, this, k, top, built, done, inserted, mem>>

\* The nodes and what insert and splitChild do to n, C and leaf are those of
\* BTree; the keys they have there stay UNINIT.
Nodes == INSTANCE BTree

ASSUME BufferTreeAssumption == Nodes!TreeAssumption /\ SLOTS \in Nat \ {0}

\* &x->keys[j], for as many nodes as there may be.
Address(x, j) == (x - 1) * Nodes!FULL + j
Location == 0 .. (SIZE + OPS) * Nodes!FULL - 1

Buffer == INSTANCE LiteralBuffer WITH Val <- Key \cup {UNINIT}, buf <- mem.buf

-----------------------------------------------------------------------------
\* *(int *)rt_mem->read(&x->keys[j]), and what it does to exact.
Read(m, x, j) == Buffer!Load(m.buf, Address(x, j))
Seen(m, x, j) == [m EXCEPT !.exact = @ /\ Buffer!Exact(m.buf, Address(x, j))]

\* rt_mem->write_literal(&key, sizeof(int), &x->keys[j])
Write(m, x, j, key) == [m EXCEPT !.buf = Buffer!Store(@, Address(x, j), key)]

\* now = *(int *)rt_mem->read(&x->keys[i]); write_literal(&now, ..., &y->keys[j])
Move(m, x, i, y, j) == Write(Seen(m, x, i), y, j, Read(m, x, i))

\* A loop of count iterations, the d-th of which moves a key from place from[d]
\* of x to place to[d] of y.
MoveKeys(m, x, from, y, to, count) ==
  LET moved[d \in 0 .. count] ==
        IF d = 0 THEN m ELSE Move(moved[d - 1], x, from[d], y, to[d])
  IN  moved[count]

\* The keys of x from place first on, one place up, from the last to the first.
MoveUp(m, x, n, first) ==
  MoveKeys(m, x, [d \in 1 .. n |-> n - d], x, [d \in 1 .. n |-> n - d + 1], n - first)

\* For mutation: the loops start one place too far.
RightmostOff(n) == n

\* int i = n-1;
Rightmost(n) == n - 1

\* The rightmost place of x whose key is not greater than key, or -1; and the
\* reads of the loop that looks for it.
Place(m, x, n, key) == Max({-1} \cup {j \in 0 .. Rightmost(n) : Read(m, x, j) <= key})
Scan(m, x, n, key) ==
  [m EXCEPT !.exact = @ /\ \A j \in Max({0, Place(m, x, n, key)}) .. Rightmost(n) :
                             Buffer!Exact(m.buf, Address(x, j))]

\* The loop of insertNonFull on a leaf: the same, but a key that is greater is
\* written one place up before the next is read.
InsertKey(m, x, n, key) ==
  LET at(i) == MoveUp(m, x, Rightmost(n) + 1, i + 1)   \* m when the loop is at i
      stop  == Max({-1} \cup {i \in 0 .. Rightmost(n) : Read(at(i), x, i) <= key})
      seen  == IF stop >= 0 THEN Seen(at(stop), x, stop) ELSE at(stop)
  IN  Write(seen, x, stop + 1, key)

\* The last T - 1 keys of y to z.
UpperKeys(m, y, z) ==
  MoveKeys(m, y, [d \in 1 .. T - 1 |-> d - 1 + T], z, [d \in 1 .. T - 1 |-> d - 1], T - 1)

-----------------------------------------------------------------------------
\* For mutation: the middle key is written before the keys make room for it.
SplitKeysMiddleFirst(m, heap, x, i, z) ==
  LET y     == heap[x].C[i]
      upper == UpperKeys(m, y, z)
  IN  MoveUp(Move(upper, y, T - 1, x, i), x, heap[x].n, i)

\* splitChild(i, y) of node x, with z the new node, on the keys: the upper T - 1
\* of y to z, those of x one place up, and the middle one of y to x.
SplitKeys(m, heap, x, i, z) ==
  LET y     == heap[x].C[i]
      upper == UpperKeys(m, y, z)
  IN  Move(MoveUp(upper, x, heap[x].n, i), y, T - 1, x, i)

-----------------------------------------------------------------------------
Init ==
  /\ node = [x \in {} |-> Nodes!NewNode(TRUE)]
  /\ root = NULL
  /\ pc = "idle"
  /\ this = NULL /\ k = 0 /\ top = NULL
  /\ built = 0 /\ done = 0
  /\ inserted = [key \in Key |-> 0]
  /\ mem = [buf |-> Buffer!InitialBuffer([l \in Location |-> UNINIT]), exact |-> TRUE]

\* BTree::insert(key) with m the memory, up to its call of insertNonFull.
InsertEmpty(key, m) ==
  /\ root = NULL
  /\ node' = Nodes!Alloc(node, Nodes!Fresh, [Nodes!NewNode(TRUE) EXCEPT !.n = 1])
  /\ root' = Nodes!Fresh
  /\ mem' = Write(m, Nodes!Fresh, 0, key)
  /\ UNCHANGED <<pc, this, k, top>>

\* The child of x the key goes to after child i was split.
Side(m, x, i, key) == IF Read(m, x, i) < key THEN i + 1 ELSE i

InsertFullRoot(key, m) ==
  /\ root # NULL
  /\ Nodes!IsFull(node, root)
  /\ LET s    == Nodes!Fresh
         heap == Nodes!Alloc(node, s, [Nodes!NewNode(FALSE) EXCEPT !.C[0] = root])
         keys == SplitKeys(m, heap, s, 0, s + 1)
     IN  /\ node' = Nodes!SplitChild(heap, s, 0, s + 1)
         /\ mem' = Seen(keys, s, 0)
         /\ top' = s
         /\ this' = node'[s].C[Side(keys, s, 0, key)]
  /\ k' = key
  /\ pc' = "insertNonFull"
  /\ root' = root

InsertRoot(key, m) ==
  /\ root # NULL
  /\ ~Nodes!IsFull(node, root)
  /\ this' = root /\ k' = key /\ top' = NULL
  /\ pc' = "insertNonFull"
  /\ mem' = m
  /\ UNCHANGED <<node, root>>

Insert(key, m) ==
  /\ InsertEmpty(key, m) \/ InsertFullRoot(key, m) \/ InsertRoot(key, m)
  /\ inserted' = [inserted EXCEPT ![key] = @ + 1]

\* insertNonFull on a leaf; when the calls return, insert makes s the root.
InsertNonFullLeaf ==
  /\ pc = "insertNonFull"
  /\ node[this].leaf
  /\ mem' = InsertKey(mem, this, node[this].n, k)
  /\ node' = [node EXCEPT ![this].n = @ + 1]
  /\ root' = IF top = NULL THEN root ELSE top
  /\ pc' = "idle"
  /\ this' = NULL /\ k' = 0 /\ top' = NULL
  /\ UNCHANGED <<built, done, inserted>>

\* insertNonFull on an inner node: the child on the way to the key, split first
\* when it is full.
ChildPlace == Place(mem, this, node[this].n, k) + 1

Descend ==
  /\ pc = "insertNonFull"
  /\ ~node[this].leaf
  /\ ~Nodes!IsFull(node, node[this].C[ChildPlace])
  /\ this' = node[this].C[ChildPlace]
  /\ mem' = Scan(mem, this, node[this].n, k)
  /\ UNCHANGED <<node, root, pc, k, top, built, done, inserted>>

\* For mutation: after the split the call is repeated on the same node.
SplitAndStay ==
  /\ pc = "insertNonFull"
  /\ ~node[this].leaf
  /\ Nodes!IsFull(node, node[this].C[ChildPlace])
  /\ node' = Nodes!SplitChild(node, this, ChildPlace, Nodes!Fresh)
  /\ mem' = SplitKeys(mem, node, this, ChildPlace, Nodes!Fresh)
  /\ UNCHANGED <<root, pc, this, k, top, built, done, inserted>>

SplitAndDescend ==
  /\ pc = "insertNonFull"
  /\ ~node[this].leaf
  /\ Nodes!IsFull(node, node[this].C[ChildPlace])
  /\ node' = Nodes!SplitChild(node, this, ChildPlace, Nodes!Fresh)
  /\ LET scanned == Scan(mem, this, node[this].n, k)
         keys    == SplitKeys(scanned, node, this, ChildPlace, Nodes!Fresh)
     IN  /\ mem' = Seen(keys, this, ChildPlace)
         /\ this' = node'[this].C[Side(keys, this, ChildPlace, k)]
  /\ UNCHANGED <<root, pc, k, top, built, done, inserted>>

\* For mutation: the search does not look below the root.
SearchRoot(key) ==
  [found |-> IF root # NULL /\ \E j \in 0 .. node[root].n - 1 : Read(mem, root, j) = key
               THEN root ELSE NULL,
   at    |-> {}]

\* BTreeNode::search(key) from the root: the node it returns, and its reads.
\* Behind the last key, now is -1.
Search(key) ==
  LET First(x) == Min({node[x].n} \cup {j \in 0 .. node[x].n - 1 : Read(mem, x, j) >= key})
      Looked(x) == {Address(x, j) : j \in 0 .. Min({First(x), node[x].n - 1})}
      Hit(x) == First(x) < node[x].n /\ Read(mem, x, First(x)) = key
      search[x \in DOMAIN node] ==
        IF Hit(x) \/ node[x].leaf
          THEN [found |-> IF Hit(x) THEN x ELSE NULL, at |-> Looked(x)]
          ELSE [search[node[x].C[First(x)]] EXCEPT !.at = @ \cup Looked(x)]
  IN  IF root = NULL THEN [found |-> NULL, at |-> {}] ELSE search[root]

Build ==
  /\ pc = "idle"
  /\ built < SIZE
  /\ built' = built + 1
  /\ \E key \in Key : Insert(key, mem)
  /\ done' = done

\* main: p=t.search(nowkey); if (p==NULL) t.insert(nowkey);
Operate ==
  /\ pc = "idle"
  /\ built = SIZE
  /\ done < OPS
  /\ done' = done + 1
  /\ \E key \in Key :
       LET p == Search(key)
           m == [mem EXCEPT !.exact = @ /\ \A l \in p.at : Buffer!Exact(mem.buf, l)]
       IN  IF p.found = NULL
             THEN Insert(key, m)
             ELSE mem' = m /\ UNCHANGED <<node, root, pc, this, k, top, inserted>>
  /\ built' = built

\* rt_mem->do_transfer(), at the end of main.
FinalTransfer ==
  /\ pc = "idle"
  /\ built = SIZE /\ done = OPS
  /\ pc' = "end"
  /\ mem' = [mem EXCEPT !.buf = Buffer!Transfer(@)]
  /\ UNCHANGED <<node, root, this, k, top, built, done, inserted>>

Ended == pc = "end" /\ UNCHANGED vars

InsertNonFull == InsertNonFullLeaf \/ Descend \/ SplitAndDescend

Next == Build \/ Operate \/ InsertNonFull \/ FinalTransfer \/ Ended

Spec == Init /\ [][Next]_vars

-----------------------------------------------------------------------------
\* The tree with the keys last written: what btree.cc would see in memory.
Keys(x) == [j \in Nodes!Slot |-> Buffer!View(mem.buf)[Address(x, j)]]
Direct == INSTANCE BTree WITH
  node <- [x \in DOMAIN node |-> [node[x] EXCEPT !.keys = Keys(x)]]

\* The nodes form a tree with its leaves at one depth, have as many keys as they
\* should and no key that was never inserted, whatever the reads of the buffer
\* return: a key that is read wrongly leads an insertion astray but never to a
\* child that is not there, to a node that is full or to a word that new left
\* unwritten (insertNonFull, splitChild).
ShapeWhateverIsRead ==
  /\ Nodes!WellFormed
  /\ \A x \in DOMAIN node : \A j \in 0 .. node[x].n - 1 :
       Keys(x)[j] \in Key /\ inserted[Keys(x)[j]] > 0

\* Until the queue is full for the first time every read is right: the program
\* reads no key that it has not written (insertNonFull, splitChild, search).
ExactUntilTransfer ==
  (\A l \in Location : mem.buf.nvm[l] = UNINIT) => mem.exact

\* As long as the reads were right the tree does, step by step, what btree.cc
\* does, also over a transfer in the middle of a split or of a shift of keys:
\* moving keys one by one through the buffer is moving them in memory.
BuildsLikeBTree ==
  [][mem'.exact /\ done' = done /\ pc' # "end" => Direct!Next]_vars

\* After right reads, a search whose own reads are right finds a key exactly
\* when it was inserted: this search does not look behind the last key, as that
\* of btree.cc does (buffer_btree.cc:121-122).
SearchIsRight ==
  pc = "idle" /\ mem.exact =>
    \A key \in Key :
      (\A l \in Search(key).at : Buffer!Exact(mem.buf, l))
        => (Search(key).found # NULL <=> inserted[key] > 0)

\* Every insertion comes to an end, whatever the reads return: each call of
\* insertNonFull is on a node nearer to the leaves than the one before, and none
\* is stuck.
InsertGoesDown ==
  [][pc = "insertNonFull" /\ pc' = "insertNonFull"
       => Max(Nodes!LeafDepths[this])' < Max(Nodes!LeafDepths[this])]_vars
=============================================================================
