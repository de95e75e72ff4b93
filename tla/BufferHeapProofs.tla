-------------------------- MODULE BufferHeapProofs --------------------------
(***************************************************************************)
(* What is true of BufferHeap for any keys, sizes and number of slots:     *)
(* the loops stay inside the array whatever the reads return, every access *)
(* is right until the queue is full for the first time, and as long as the *)
(* accesses are right the array goes through the states of heap.cc.        *)
(***************************************************************************)
EXTENDS BufferHeap, TLAPS

(***************************************************************************)
(* The buffer is never given an address outside the array, and the NVM     *)
(* keeps the sentinel: h[0] is never written through the buffer, so it is  *)
(* always read from there.                                                 *)
(***************************************************************************)
BufferInside ==
  /\ buf = [cache |-> buf.cache, nvm |-> buf.nvm, pending |-> buf.pending]
  /\ DOMAIN buf.cache \subseteq 1 .. SIZE
  /\ DOMAIN buf.nvm = Location
  /\ buf.nvm[0] = Sentinel

\* Where the program is: as in heap.cc, a Delete starts on a full array, so its
\* loop is entered and gives j a value.
Places ==
  /\ built \in 0 .. SIZE /\ done \in 0 .. OPS
  /\ heapsize = built - (done % 2)
  /\ done > 0 => built = SIZE
  /\ pc \in {"main", "insert", "Delete"}
  /\ pc = "insert" => i \in 1 .. heapsize /\ ele \in Nat
  /\ pc = "Delete" => /\ i \in 1 .. SIZE /\ heapsize >= 2 /\ done > 0
                      /\ i = 1 \/ j = i

\* The places written through the buffer while the heap is built.
Written == 1 .. (IF pc = "insert" /\ i = heapsize THEN heapsize - 1 ELSE heapsize)

BeforeTransfer ==
  done = 0 /\ ~transferred => exact /\ DOMAIN buf.cache = Written

IInv == BufferInside /\ Places /\ BeforeTransfer

-----------------------------------------------------------------------------
\* The operators of the buffer.
LEMMA ViewIs ==
  ASSUME NEW b
  PROVE  /\ DOMAIN Buffer!View(b) = Location
         /\ \A l \in Location :
              Buffer!View(b)[l] = IF l \in DOMAIN b.cache THEN b.cache[l] ELSE b.nvm[l]
BY DEF Buffer!View

\* A transfer changes no view; a write changes the view where it writes.
LEMMA ViewOfRoom ==
  ASSUME NEW b
  PROVE  Buffer!View(Buffer!WithRoom(b)) = Buffer!View(b)
<1>1. Buffer!View(Buffer!Transfer(b)) = Buffer!View(b)
  BY DEF Buffer!View, Buffer!Transfer, Buffer!InitialBuffer
<1> QED
  BY <1>1 DEF Buffer!WithRoom

LEMMA ViewOfStore ==
  ASSUME NEW b, NEW p, NEW element
  PROVE  Buffer!View(Buffer!Store(b, p, element)) = [Buffer!View(b) EXCEPT ![p] = element]
<1> DEFINE room == Buffer!WithRoom(b)
           new  == Buffer!Store(b, p, element)
<1>1. /\ new.nvm = room.nvm
      /\ new.cache = [l \in DOMAIN room.cache \cup {p} |->
                        IF l = p THEN element ELSE room.cache[l]]
  BY DEF Buffer!Store
<1>2. Buffer!View(room) = Buffer!View(b)
  BY ViewOfRoom
<1> HIDE DEF room, new
<1>3. Buffer!View(new) = [Buffer!View(room) EXCEPT ![p] = element]
  BY <1>1 DEF Buffer!View
<1> QED
  BY <1>2, <1>3 DEF new

\* A read of a buffered address, or of one below all of them, is right.
LEMMA LoadIsExact ==
  ASSUME NEW b, DOMAIN b.cache \subseteq Int, NEW p \in Location, p \in Int,
         p \in DOMAIN b.cache \/ \A l \in DOMAIN b.cache : p < l
  PROVE  Buffer!Exact(b, p)
<1> DEFINE below == {l \in DOMAIN b.cache : l <= p}
<1>1. CASE p \in DOMAIN b.cache
  <2>1. p \in below /\ \A l \in below : l <= p /\ l \in Int
    BY <1>1
  <2> HIDE DEF below
  <2>2. Buffer!Max(below) = p
    <3>1. \A l \in below : p >= l
      BY <2>1
    <3>2. Buffer!Max(below) \in below /\ \A l \in below : Buffer!Max(below) >= l
      BY <2>1, <3>1, Zenon DEF Buffer!Max
    <3>3. Buffer!Max(below) \in Int /\ Buffer!Max(below) <= p /\ Buffer!Max(below) >= p
      BY <2>1, <3>2
    <3> QED
      BY <3>3
  <2>3. below # {}
    BY <2>1
  <2>4. Buffer!Load(b, p) = b.cache[p]
    BY <2>2, <2>3 DEF Buffer!Load, below
  <2> QED
    BY <1>1, <2>4, ViewIs DEF Buffer!Exact
<1>2. CASE \A l \in DOMAIN b.cache : p < l
  <2>1. below = {} /\ p \notin DOMAIN b.cache
    BY <1>2
  <2>2. Buffer!Load(b, p) = b.nvm[p]
    BY <2>1 DEF Buffer!Load
  <2> QED
    BY <2>1, <2>2, ViewIs DEF Buffer!Exact
<1> QED
  BY <1>1, <1>2

\* What write_literal does to the buffer.
LEMMA WriteIs ==
  ASSUME BufferInside, NEW p \in 1 .. SIZE, NEW element, Write(p, element)
  PROVE  /\ BufferInside'
         /\ ~transferred' => ~transferred /\ DOMAIN buf.cache' = DOMAIN buf.cache \cup {p}
<1> DEFINE room == Buffer!WithRoom(buf)
<1>1. /\ DOMAIN room.cache \subseteq 1 .. SIZE
      /\ DOMAIN room.nvm = Location
      /\ room.nvm[0] = Sentinel
      /\ buf.pending # SLOTS => room = buf
  <2>1. CASE buf.pending = SLOTS
    <3>1. room = Buffer!InitialBuffer(View)
      BY <2>1 DEF Buffer!WithRoom, Buffer!Transfer, View
    <3>2. room.nvm = View /\ DOMAIN room.cache = {}
      BY <3>1 DEF Buffer!InitialBuffer
    <3>3. 0 \in Location /\ 0 \notin DOMAIN buf.cache
      BY BufferHeapAssumption DEF Location, BufferInside
    <3>4. View[0] = Sentinel /\ DOMAIN View = Location
      BY <3>3, ViewIs DEF View, BufferInside
    <3> QED
      BY <2>1, <3>2, <3>4
  <2>2. CASE buf.pending # SLOTS
    BY <2>2 DEF Buffer!WithRoom, BufferInside
  <2> QED
    BY <2>1, <2>2
<1> HIDE DEF room
<1>2. buf' = [cache   |-> [l \in DOMAIN room.cache \cup {p} |->
                             IF l = p THEN element ELSE room.cache[l]],
              nvm     |-> room.nvm,
              pending |-> room.pending + 1]
  BY DEF Write, Buffer!Store, room
<1>3. buf'.nvm = room.nvm /\ DOMAIN buf'.cache = DOMAIN room.cache \cup {p}
  BY <1>2
<1>4. BufferInside'
  BY <1>1, <1>2, <1>3 DEF BufferInside
<1>5. ~transferred' => ~transferred /\ buf.pending # SLOTS
  BY DEF Write
<1> QED
  BY <1>1, <1>3, <1>4, <1>5

\* The direct store of insert.
LEMMA DirectStoreIs ==
  ASSUME BufferInside, NEW p \in 1 .. SIZE, NEW key, buf' = [buf EXCEPT !.nvm[p] = key]
  PROVE  /\ BufferInside'
         /\ buf'.cache = buf.cache
         /\ buf'.nvm = [buf.nvm EXCEPT ![p] = key]
         /\ Buffer!View(buf')[p] = key =>
              Buffer!View(buf') = [Buffer!View(buf) EXCEPT ![p] = key]
<1>1. /\ buf'.cache = buf.cache /\ buf'.nvm = [buf.nvm EXCEPT ![p] = key]
      /\ buf' = [cache |-> buf'.cache, nvm |-> buf'.nvm, pending |-> buf'.pending]
  BY DEF BufferInside
<1>2. p \in Location /\ p # 0
  BY BufferHeapAssumption DEF Location
<1>3. BufferInside'
  BY <1>1, <1>2, BufferHeapAssumption DEF BufferInside, Location
<1>4. ASSUME Buffer!View(buf')[p] = key
      PROVE  Buffer!View(buf') = [Buffer!View(buf) EXCEPT ![p] = key]
  <2>1. ASSUME NEW l \in Location, l # p
        PROVE  Buffer!View(buf')[l] = Buffer!View(buf)[l]
    <3>1. buf'.nvm[l] = buf.nvm[l]
      BY <1>1, <2>1 DEF BufferInside
    <3>2. Buffer!View(buf)[l] = IF l \in DOMAIN buf.cache THEN buf.cache[l] ELSE buf.nvm[l]
      BY <2>1, ViewIs
    <3>3. Buffer!View(buf')[l] = IF l \in DOMAIN buf'.cache THEN buf'.cache[l] ELSE buf'.nvm[l]
      BY <2>1, ViewIs
    <3> QED
      BY <1>1, <3>1, <3>2, <3>3
  <2>2. /\ Buffer!View(buf') = [l \in Location |-> Buffer!View(buf')[l]]
        /\ Buffer!View(buf)  = [l \in Location |-> Buffer!View(buf)[l]]
    BY DEF Buffer!View
  <2> QED
    BY <1>2, <1>4, <2>1, <2>2
<1> QED
  BY <1>1, <1>3, <1>4

-----------------------------------------------------------------------------
\* The numbers of the places, and where insert puts its element first.
LEMMA Numbers ==
  ASSUME Places
  PROVE  /\ built \in Nat /\ done \in Nat /\ heapsize \in Int /\ SIZE \in Nat /\ SIZE >= 3
         /\ built <= SIZE /\ done % 2 \in {0, 1}
BY BufferHeapAssumption DEF Places

LEMMA RoomForOne ==
  ASSUME Places, NEW key \in Key, Insert(key),
         \/ built < SIZE /\ built' = built + 1 /\ done' = done
         \/ built = SIZE /\ built' = built /\ done < OPS /\ done' = done + 1 /\ done' % 2 # 1
  PROVE  /\ heapsize' \in 1 .. SIZE /\ heapsize' = heapsize + 1
         /\ built' \in 0 .. SIZE /\ done' \in 0 .. OPS
         /\ heapsize' = built' - (done' % 2)
         /\ done' > 0 => built' = SIZE
<1>1. heapsize' = heapsize + 1
  BY DEF Insert
<1>2. CASE built < SIZE /\ built' = built + 1 /\ done' = done
  BY <1>1, <1>2, Numbers DEF Places
<1>3. CASE built = SIZE /\ built' = built /\ done < OPS /\ done' = done + 1 /\ done' % 2 # 1
  <2>1. done % 2 = 1 /\ done' % 2 = 0
    BY <1>3, Numbers
  <2> QED
    BY <1>1, <1>3, <2>1, Numbers, BufferHeapAssumption DEF Places
<1> QED
  BY <1>2, <1>3

\* An insertion of main, in either of its loops.
LEMMA Inserting ==
  ASSUME Places, Fill \/ (Turn /\ done' % 2 # 1)
  PROVE  \E key \in Key :
           /\ Insert(key)
           /\ \/ built < SIZE /\ built' = built + 1 /\ done' = done
              \/ built = SIZE /\ built' = built /\ done < OPS /\ done' = done + 1 /\ done' % 2 # 1
<1>1. CASE Fill
  BY <1>1 DEF Fill
<1>2. CASE Turn /\ done' % 2 # 1
  BY <1>2 DEF Turn
<1> QED
  BY <1>1, <1>2

-----------------------------------------------------------------------------
(***************************************************************************)
(* A step whose accesses are right is the step of heap.cc on the array as  *)
(* last written.                                                           *)
(***************************************************************************)
LEMMA InsertLikeHeap ==
  ASSUME BufferInside, NEW key \in Key, Insert(key), heapsize' \in 1 .. SIZE, exact'
  PROVE  Heap!Insert(key)
<1>1. /\ buf' = [buf EXCEPT !.nvm[heapsize'] = key]
      /\ Buffer!View(buf')[heapsize'] = key
  BY DEF Insert
<1>2. View' = [View EXCEPT ![heapsize'] = key]
  BY <1>1, DirectStoreIs DEF View
<1> QED
  BY <1>2 DEF Insert, Heap!Insert

LEMMA DeleteLikeHeap ==
  ASSUME Delete, exact'
  PROVE  Heap!Delete
<1>1. buf.nvm[1] = View[1] /\ buf.nvm[heapsize] = View[heapsize]
  BY DEF Delete
<1>2. View' = View
  BY DEF Delete, View
<1> QED
  BY <1>1, <1>2 DEF Delete, Heap!Delete

LEMMA WriteLikeHeap ==
  ASSUME NEW p, NEW element, Write(p, element)
  PROVE  View' = [View EXCEPT ![p] = element]
BY ViewOfStore DEF Write, View

\* What an exact read returns.
LEMMA ExactReads ==
  ASSUME NEW places, ExactAt(places), NEW p \in places
  PROVE  Read(p) = View[p]
BY DEF ExactAt, Read, View, Buffer!Exact

LEMMA SiftUpLikeHeap ==
  ASSUME SiftUp, exact'
  PROVE  Heap!SiftUp
<1>1. ExactAt({i \div 2})
  BY DEF SiftUp
<1>2. Read(i \div 2) = View[i \div 2]
  BY <1>1, ExactReads
<1>3. View' = [View EXCEPT ![i] = View[i \div 2]]
  BY <1>2, WriteLikeHeap DEF SiftUp
<1> QED
  BY <1>2, <1>3 DEF SiftUp, ParentGoesDown, Heap!SiftUp, Heap!ParentGoesDown

LEMMA PutUpLikeHeap ==
  ASSUME PutUp, exact'
  PROVE  Heap!PutUp
<1>1. ExactAt({i \div 2})
  BY DEF PutUp
<1>2. Read(i \div 2) = View[i \div 2]
  BY <1>1, ExactReads
<1>3. View' = [View EXCEPT ![i] = ele]
  BY WriteLikeHeap DEF PutUp
<1> QED
  BY <1>2, <1>3 DEF PutUp, ParentGoesDown, Heap!PutUp, Heap!ParentGoesDown

\* The greater child is found by right reads.
LEMMA ChildLikeHeap ==
  ASSUME ExactAt(Looked)
  PROVE  Child = Heap!Child /\ Read(Child) = View[Child]
<1>1. Child \in Looked
  BY DEF Child, Looked
<1>2. Read(Child) = View[Child]
  BY <1>1, ExactReads
<1>3. Child = Heap!Child
  <2>1. CASE i * 2 # heapsize
    <3>1. i * 2 \in Looked /\ i * 2 + 1 \in Looked
      BY <2>1 DEF Looked
    <3>2. Read(i * 2) = View[i * 2] /\ Read(i * 2 + 1) = View[i * 2 + 1]
      BY <3>1, ExactReads
    <3> QED
      BY <3>2 DEF Child, Heap!Child
  <2>2. CASE i * 2 = heapsize
    BY <2>2 DEF Child, Heap!Child
  <2> QED
    BY <2>1, <2>2
<1> QED
  BY <1>2, <1>3

LEMMA SiftDownLikeHeap ==
  ASSUME SiftDown, exact'
  PROVE  Heap!SiftDown
<1> DEFINE behind == Buffer!WithRoom(buf).nvm[Child]
<1>1. ExactAt(Looked) /\ behind = View[Child] /\ Write(i, behind)
  BY DEF SiftDown
<1> HIDE DEF behind
<1>2. Child = Heap!Child /\ Read(Child) = View[Child]
  BY <1>1, ChildLikeHeap
<1>3. View' = [View EXCEPT ![i] = View[Child]]
  BY <1>1, WriteLikeHeap
<1> QED
  BY <1>2, <1>3 DEF SiftDown, Heap!SiftDown

LEMMA PutDownLikeHeap ==
  ASSUME PutDown, exact'
  PROVE  Heap!PutDown
<1>1. View' = [View EXCEPT ![j'] = ele]
  BY WriteLikeHeap DEF PutDown
<1>2. CASE i * 2 > heapsize /\ j' = j
  BY <1>1, <1>2 DEF PutDown, Heap!PutDown
<1>3. CASE i * 2 <= heapsize /\ ele <= Read(Child) /\ j' = Child /\ exact' = (exact /\ ExactAt(Looked))
  <2>1. Child = Heap!Child /\ Read(Child) = View[Child]
    BY <1>3, ChildLikeHeap
  <2> QED
    BY <1>1, <1>3, <2>1 DEF PutDown, Heap!PutDown
<1> QED
  BY <1>2, <1>3 DEF PutDown

LEMMA StepLikeHeap ==
  ASSUME BufferInside, Places, Next, exact'
  PROVE  Heap!Next
<1>1. ASSUME Fill \/ (Turn /\ done' % 2 # 1) PROVE Heap!Next
  <2>1. PICK key \in Key : Insert(key) /\ heapsize' \in 1 .. SIZE
    BY <1>1, Inserting, RoomForOne
  <2>2. Heap!Insert(key)
    BY <2>1, InsertLikeHeap
  <2> QED
    BY <1>1, <2>2 DEF Fill, Turn, Heap!Fill, Heap!Turn, Heap!Next
<1>2. ASSUME Turn, done' % 2 = 1 PROVE Heap!Next
  BY <1>2, DeleteLikeHeap DEF Turn, Heap!Turn, Heap!Next
<1>3. ASSUME Loop PROVE Heap!Loop
  BY <1>3, SiftUpLikeHeap, PutUpLikeHeap, SiftDownLikeHeap, PutDownLikeHeap DEF Loop, Heap!Loop
<1> QED
  BY <1>1, <1>2, <1>3 DEF Next, Heap!Next

-----------------------------------------------------------------------------
LEMMA InitIsGood == Init => IInv
<1> SUFFICES ASSUME Init PROVE IInv
  OBVIOUS
<1>1. /\ buf = [cache |-> [l \in {} |-> 0],
                nvm   |-> [p \in Location |-> IF p = 0 THEN Sentinel ELSE 0],
                pending |-> 0]
      /\ 0 \in Location
  BY BufferHeapAssumption DEF Init, Buffer!InitialBuffer, Location
<1>2. BufferInside
  BY <1>1 DEF BufferInside
<1>3. Places
  BY BufferHeapAssumption DEF Init, Places
<1>4. BeforeTransfer
  BY <1>1 DEF Init, BeforeTransfer, Written
<1> QED
  BY <1>2, <1>3, <1>4 DEF IInv

\* insert starts: its place has not been written through the buffer, so the
\* direct store is seen.
LEMMA InsertStep ==
  ASSUME IInv, NEW key \in Key, Insert(key),
         \/ built < SIZE /\ built' = built + 1 /\ done' = done
         \/ built = SIZE /\ built' = built /\ done < OPS /\ done' = done + 1 /\ done' % 2 # 1
  PROVE  IInv'
<1>1. /\ heapsize' \in 1 .. SIZE /\ heapsize' = heapsize + 1
      /\ built' \in 0 .. SIZE /\ done' \in 0 .. OPS
      /\ heapsize' = built' - (done' % 2)
      /\ done' > 0 => built' = SIZE
  BY RoomForOne DEF IInv
<1>2. /\ pc = "main" /\ pc' = "insert" /\ i' = heapsize' /\ ele' = key /\ j' = j
      /\ buf' = [buf EXCEPT !.nvm[heapsize'] = key]
      /\ exact' = (exact /\ Buffer!View(buf')[heapsize'] = key)
      /\ transferred' = transferred
  BY DEF Insert
<1>3. BufferInside' /\ buf'.cache = buf.cache /\ buf'.nvm = [buf.nvm EXCEPT ![heapsize'] = key]
  BY <1>1, <1>2, DirectStoreIs DEF IInv
<1>4. heapsize' \in 1 .. heapsize' /\ ele' \in Nat
  BY <1>1, <1>2, BufferHeapAssumption
<1>5. Places'
  BY <1>1, <1>2, <1>4 DEF Places
<1>6. BeforeTransfer'
  <2> SUFFICES ASSUME done' = 0, ~transferred'
               PROVE  exact' /\ DOMAIN buf.cache = Written'
    BY <1>3 DEF BeforeTransfer
  <2>1. done = 0 /\ ~transferred
    BY <1>2, Numbers DEF IInv
  <2>2. exact /\ DOMAIN buf.cache = 1 .. heapsize
    BY <1>2, <2>1 DEF IInv, BeforeTransfer, Written
  <2>3. heapsize' \notin DOMAIN buf.cache /\ heapsize' - 1 = heapsize
    BY <1>1, <2>2, Numbers DEF IInv
  <2>4. Written' = 1 .. heapsize
    BY <1>2, <2>3 DEF Written
  <2>5. Buffer!View(buf')[heapsize'] = key
    <3>1. heapsize' \in Location
      BY <1>1 DEF Location
    <3> QED
      BY <1>3, <2>3, <3>1, ViewIs DEF IInv, BufferInside
  <2> QED
    BY <1>2, <2>2, <2>4, <2>5
<1> QED
  BY <1>3, <1>5, <1>6 DEF IInv

\* Delete starts, on a full array of at least three elements.
LEMMA DeleteStep ==
  ASSUME IInv, Delete, built = SIZE, built' = built, done < OPS, done' = done + 1, done' % 2 = 1
  PROVE  IInv'
<1>1. /\ pc' = "Delete" /\ i' = 1 /\ heapsize' = heapsize - 1 /\ buf' = buf
  BY DEF Delete
<1>2. done \in Nat /\ done % 2 = 0 /\ heapsize = SIZE /\ SIZE \in Nat /\ SIZE >= 3 /\ OPS \in Nat
  BY Numbers, BufferHeapAssumption DEF IInv, Places
<1>3. Places'
  BY <1>1, <1>2 DEF IInv, Places
<1>4. done' # 0
  BY <1>2
<1> QED
  BY <1>1, <1>3, <1>4 DEF IInv, BufferInside, BeforeTransfer

\* The loop of insert: the sentinel is read from the NVM, so the loop ends at
\* place 1 at the latest; and the place above the hole was written before.
LEMMA ReadAbove ==
  ASSUME IInv, pc = "insert"
  PROVE  /\ i \in 1 .. SIZE /\ i \in 1 .. heapsize
         /\ ParentGoesDown => i \div 2 \in 1 .. heapsize /\ i \div 2 < i
         /\ done = 0 /\ ~transferred => ExactAt({i \div 2})
<1>1. /\ i \in Nat /\ 1 <= i /\ i <= heapsize /\ heapsize <= SIZE /\ heapsize \in Nat /\ ele \in Nat
      /\ SIZE \in Nat
  BY Numbers DEF IInv, Places
<1>2. /\ i \div 2 \in Nat /\ i \div 2 < i /\ i \div 2 <= heapsize - 1
      /\ i \div 2 >= 1 \/ i \div 2 = 0
  BY <1>1
<1>3. DOMAIN buf.cache \subseteq Int /\ 0 \in Location /\ \A l \in DOMAIN buf.cache : 0 < l
  BY <1>1 DEF IInv, BufferInside, Location
<1>4. Read(0) = -1
  <2>1. Buffer!Exact(buf, 0)
    BY <1>3, LoadIsExact
  <2>2. View[0] = Sentinel
    <3>1. Buffer!View(buf)[0] = IF 0 \in DOMAIN buf.cache THEN buf.cache[0] ELSE buf.nvm[0]
      BY <1>3, ViewIs
    <3>2. 0 \notin DOMAIN buf.cache
      BY <1>3
    <3> QED
      BY <3>1, <3>2 DEF View, IInv, BufferInside
  <2> QED
    BY <2>1, <2>2 DEF Buffer!Exact, Read, View, Sentinel
<1>5. ParentGoesDown => i \div 2 # 0
  BY <1>1, <1>4 DEF ParentGoesDown
<1>6. ASSUME done = 0, ~transferred PROVE ExactAt({i \div 2})
  <2>1. DOMAIN buf.cache = Written
    BY <1>6 DEF IInv, BeforeTransfer
  <2>2. i \div 2 \in DOMAIN buf.cache \/ i \div 2 = 0
    BY <1>1, <1>2, <2>1 DEF Written
  <2>3. i \div 2 \in Location
    BY <1>1, <1>2 DEF Location
  <2>4. Buffer!Exact(buf, i \div 2)
    BY <1>2, <1>3, <2>2, <2>3, LoadIsExact
  <2> QED
    BY <2>4 DEF ExactAt
<1> QED
  BY <1>1, <1>2, <1>5, <1>6

\* A write of insert, with or without the transfer in it.
LEMMA InsertWrites ==
  ASSUME IInv, pc = "insert", NEW element, Write(i, element),
         exact' = (exact /\ ExactAt({i \div 2})), done' = done
  PROVE  /\ BufferInside'
         /\ done' = 0 /\ ~transferred' => exact' /\ DOMAIN buf.cache' = 1 .. heapsize
<1>1. /\ BufferInside'
      /\ ~transferred' => ~transferred /\ DOMAIN buf.cache' = DOMAIN buf.cache \cup {i}
  BY ReadAbove, WriteIs DEF IInv
<1>2. ASSUME done' = 0, ~transferred'
      PROVE  exact' /\ DOMAIN buf.cache' = 1 .. heapsize
  <2>1. exact /\ DOMAIN buf.cache = Written /\ ExactAt({i \div 2})
    BY <1>1, <1>2, ReadAbove DEF IInv, BeforeTransfer
  <2>2. Written \cup {i} = 1 .. heapsize
    <3>1. i \in 1 .. heapsize /\ heapsize \in Int
      BY ReadAbove, Numbers DEF IInv
    <3> QED
      BY <3>1 DEF Written
  <2> QED
    BY <1>1, <1>2, <2>1, <2>2
<1> QED
  BY <1>1, <1>2

LEMMA SiftUpStep ==
  ASSUME IInv, SiftUp
  PROVE  IInv'
<1>1. /\ pc = "insert" /\ ParentGoesDown /\ Write(i, Read(i \div 2))
      /\ exact' = (exact /\ ExactAt({i \div 2})) /\ i' = i \div 2
      /\ UNCHANGED <<heapsize, pc, j, ele, temp, built, done, live>>
  BY DEF SiftUp
<1>2. /\ BufferInside'
      /\ done' = 0 /\ ~transferred' => exact' /\ DOMAIN buf.cache' = 1 .. heapsize
  BY <1>1, InsertWrites
<1>3. i' \in 1 .. heapsize /\ i' # heapsize /\ heapsize \in Int
  <2>1. i \in 1 .. heapsize /\ i \div 2 \in 1 .. heapsize /\ i \div 2 < i /\ heapsize \in Int
    BY <1>1, ReadAbove, Numbers DEF IInv
  <2> QED
    BY <1>1, <2>1
<1>4. Places'
  BY <1>1, <1>3 DEF IInv, Places
<1>5. Written' = 1 .. heapsize
  BY <1>1, <1>3 DEF Written
<1> QED
  BY <1>1, <1>2, <1>4, <1>5 DEF IInv, BeforeTransfer

LEMMA PutUpStep ==
  ASSUME IInv, PutUp
  PROVE  IInv'
<1>1. /\ pc = "insert" /\ Write(i, ele)
      /\ exact' = (exact /\ ExactAt({i \div 2})) /\ pc' = "main"
      /\ UNCHANGED <<heapsize, i, j, ele, temp, built, done, live>>
  BY DEF PutUp
<1>2. /\ BufferInside'
      /\ done' = 0 /\ ~transferred' => exact' /\ DOMAIN buf.cache' = 1 .. heapsize
  BY <1>1, InsertWrites
<1>3. Places'
  BY <1>1 DEF IInv, Places
<1>4. Written' = 1 .. heapsize
  BY <1>1 DEF Written
<1> QED
  BY <1>1, <1>2, <1>3, <1>4 DEF IInv, BeforeTransfer

\* The loop of Delete looks at places of the array only, whichever child the
\* reads make it take, and writes to one.
LEMMA ChildInside ==
  ASSUME IInv, pc = "Delete"
  PROVE  /\ i \in 1 .. SIZE /\ done > 0 /\ done \in Nat
         /\ i * 2 <= heapsize => Child \in 1 .. SIZE
         /\ i * 2 > heapsize => j \in 1 .. SIZE
<1>1. /\ i \in Nat /\ i >= 1 /\ i <= SIZE /\ heapsize \in Int /\ heapsize <= SIZE /\ heapsize >= 2
      /\ SIZE \in Nat /\ done > 0 /\ done \in Nat /\ (i = 1 \/ j = i)
  BY Numbers DEF IInv, Places
<1>2. i * 2 <= heapsize => Child \in 1 .. SIZE
  <2>1. (Child = i * 2 + 1 /\ i * 2 # heapsize) \/ Child = i * 2
    BY DEF Child
  <2> QED
    BY <1>1, <2>1
<1>3. i * 2 > heapsize => j \in 1 .. SIZE
  BY <1>1
<1> QED
  BY <1>1, <1>2, <1>3

LEMMA SiftDownStep ==
  ASSUME IInv, SiftDown
  PROVE  IInv'
<1>1. /\ pc = "Delete" /\ i * 2 <= heapsize
      /\ Write(i, Buffer!WithRoom(buf).nvm[Child])
      /\ i' = Child /\ j' = Child
      /\ UNCHANGED <<heapsize, pc, ele, temp, built, done, live>>
  BY DEF SiftDown
<1>2. i \in 1 .. SIZE /\ Child \in 1 .. SIZE /\ done' > 0 /\ done \in Nat
  BY <1>1, ChildInside
<1>3. BufferInside'
  BY <1>1, <1>2, WriteIs DEF IInv
<1>4. Places'
  BY <1>1, <1>2 DEF IInv, Places
<1>5. done' # 0
  BY <1>1, <1>2
<1> QED
  BY <1>3, <1>4, <1>5 DEF IInv, BeforeTransfer

LEMMA PutDownStep ==
  ASSUME IInv, PutDown
  PROVE  IInv'
<1>1. /\ pc = "Delete" /\ Write(j', ele) /\ pc' = "main"
      /\ \/ i * 2 > heapsize /\ j' = j
         \/ i * 2 <= heapsize /\ j' = Child
      /\ UNCHANGED <<heapsize, i, ele, temp, built, done, live>>
  BY DEF PutDown
<1>2. j' \in 1 .. SIZE /\ done' > 0 /\ done \in Nat
  BY <1>1, ChildInside
<1>3. BufferInside'
  BY <1>1, <1>2, WriteIs DEF IInv
<1>4. Places'
  BY <1>1 DEF IInv, Places
<1>5. done' # 0
  BY <1>1, <1>2
<1> QED
  BY <1>3, <1>4, <1>5 DEF IInv, BeforeTransfer

LEMMA StepKeepsIInv == IInv /\ [Next]_vars => IInv'
<1> SUFFICES ASSUME IInv, [Next]_vars PROVE IInv'
  OBVIOUS
<1>1. CASE Fill \/ (Turn /\ done' % 2 # 1)
  BY <1>1, Inserting, InsertStep DEF IInv
<1>2. CASE Turn /\ done' % 2 = 1
  BY <1>2, DeleteStep DEF Turn
<1>3. CASE Loop
  BY <1>3, SiftUpStep, PutUpStep, SiftDownStep, PutDownStep DEF Loop
<1>4. CASE UNCHANGED vars
  <2>1. BufferInside' /\ Places'
    BY <1>4 DEF vars, IInv, BufferInside, Places
  <2>2. BeforeTransfer'
    BY <1>4 DEF vars, IInv, BeforeTransfer, Written
  <2> QED
    BY <2>1, <2>2 DEF IInv
<1> QED
  BY <1>1, <1>2, <1>3, <1>4 DEF Next

\* Whatever the reads return, the loops of insert and Delete stay inside the
\* array, and the sentinel stays in the NVM with no buffered address below it.
THEOREM AccessesStayInside == Spec => []IInv
<1>1. Init => IInv
  BY InitIsGood
<1>2. IInv /\ [Next]_vars => IInv'
  BY StepKeepsIInv
<1> QED
  BY <1>1, <1>2, PTL DEF Spec

\* While the heap is built every access is right until the queue has been full
\* once: insert reads only places it has written through the buffer, and the
\* sentinel below them.
THEOREM RightUntilTransfer == Spec => []ExactUntilTransfer
<1>1. IInv => ExactUntilTransfer
  BY DEF IInv, BeforeTransfer, ExactUntilTransfer
<1> QED
  BY <1>1, AccessesStayInside, PTL

\* As long as the accesses were right, every step is that of heap.cc on the
\* array as last written, with any number of slots: transfers inside a write,
\* the direct store of insert, the direct reads of Delete and the pointer it
\* passes change nothing.
THEOREM RightIsHeap == Spec => LikeHeap
<1>1. IInv /\ [Next]_vars => [exact' => Heap!Next]_vars
  BY StepLikeHeap DEF IInv
<1> QED
  BY <1>1, AccessesStayInside, PTL DEF Spec, LikeHeap
=============================================================================
