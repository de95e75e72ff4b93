----------------------------- MODULE HeapProofs -----------------------------
(***************************************************************************)
(* For any set of keys, any number of elements and of turns: no step of    *)
(* insert or Delete leaves the array, and as long as there are only        *)
(* insertions the array is one store away from a heap of what was          *)
(* inserted.                                                               *)
(*                                                                         *)
(* The array bounds rest on main: Delete runs on a full array, so its loop *)
(* is entered and j is given a value (Places).  The loop of insert moves a *)
(* hole up: it exchanges the place it fills with the place above it, which *)
(* is what keeps the elements (Kept) and the order (HeapWhileBuilding).    *)
(***************************************************************************)
EXTENDS Heap, FiniteSetTheorems, TLAPS

Element == Key \cup {0}

Places ==
  /\ h[0] = Sentinel
  /\ \A p \in 1 .. SIZE : h[p] \in Element
  /\ heapsize = built - (done % 2)
  /\ done > 0 => built = SIZE
  /\ pc = "insert" => i \in 1 .. heapsize
  /\ pc = "Delete" => i >= 1 /\ heapsize >= 2 /\ (i = 1 \/ j = i) /\ done > 0

IInv == TypeOK /\ Places /\ HeapWhileBuilding /\ KeptWhileBuilding

-----------------------------------------------------------------------------
\* The place above one in the heap.
LEMMA Above ==
  ASSUME NEW p \in Nat, p >= 1
  PROVE  /\ p \div 2 \in Nat /\ p \div 2 < p
         /\ 2 * (p \div 2) <= p /\ p <= 2 * (p \div 2) + 1
         /\ p >= 2 => p \div 2 >= 1
         /\ p = 1 => p \div 2 = 0
  OBVIOUS

LEMMA ElementsAreNumbers == Element \subseteq Nat /\ Key \subseteq Element /\ Sentinel \notin Element
  BY HeapAssumption DEF Element, Sentinel

\* What the types and places give in every state.
LEMMA Bounds ==
  ASSUME TypeOK, Places
  PROVE  /\ heapsize \in Nat /\ heapsize <= SIZE
         /\ built \in Nat /\ done \in Nat /\ SIZE \in Nat /\ SIZE >= 3
         /\ i \in Nat /\ j \in Nat
         /\ done % 2 \in {0, 1}
         /\ ele \in Element /\ temp \in Element
         /\ h \in [Place -> Key \cup {Sentinel, 0}]
         /\ pc = "insert" => i >= 1 /\ i <= heapsize
  BY HeapAssumption DEF TypeOK, Places, Place, Element

LEMMA Numbers ==
  ASSUME TypeOK, Places
  PROVE  /\ \A p \in 1 .. SIZE : h[p] \in Nat
         /\ \A p \in 0 .. SIZE : h[p] \in Int
         /\ h[0] = -1
         /\ ele \in Nat
<1>1. \A p \in 1 .. SIZE : h[p] \in Nat
  BY ElementsAreNumbers, Zenon DEF Places
<1>2. h[0] = -1
  BY DEF Places, Sentinel
<1>3. ele \in Nat
  <2>1. ele \in Element
    BY Bounds
  <2> QED
    BY <2>1, ElementsAreNumbers, Zenon
<1>4. \A p \in 0 .. SIZE : h[p] \in Int
  BY <1>1, <1>2, HeapAssumption
<1> QED
  BY <1>1, <1>2, <1>3, <1>4

-----------------------------------------------------------------------------
LEMMA InitPlaces == Init => TypeOK /\ Places
<1> SUFFICES ASSUME Init PROVE TypeOK /\ Places
  OBVIOUS
<1>1. TypeOK
  BY HeapAssumption DEF Init, TypeOK, Place
<1>2. \A p \in 1 .. SIZE : h[p] \in Element
  BY HeapAssumption DEF Init, Place, Element
<1>3. h[0] = Sentinel
  BY HeapAssumption DEF Init, Place
<1> QED
  BY <1>1, <1>2, <1>3 DEF Init, Places

\* insert puts its element at the end; the place exists.
LEMMA InsertPlaces ==
  ASSUME TypeOK, Places, NEW key \in Key, Insert(key),
         \/ built < SIZE /\ built' = built + 1 /\ done' = done
         \/ built = SIZE /\ built' = built /\ done < OPS /\ done' = done + 1 /\ done' % 2 # 1
  PROVE  TypeOK' /\ Places'
<1>1. /\ built' \in 0 .. SIZE /\ done' \in 0 .. OPS
      /\ heapsize' = built' - (done' % 2) /\ heapsize' \in 1 .. SIZE
      /\ done' > 0 => built' = SIZE
  <2>1. CASE built < SIZE /\ built' = built + 1 /\ done' = done
    BY <2>1, Bounds DEF Insert, TypeOK, Places
  <2>2. CASE built = SIZE /\ built' = built /\ done < OPS /\ done' = done + 1 /\ done' % 2 # 1
    <3>1. done % 2 = 1 /\ done' % 2 = 0
      BY <2>2, Bounds
    <3> QED
      BY <2>2, <3>1, Bounds, HeapAssumption DEF Insert, TypeOK, Places
  <2> QED
    BY <2>1, <2>2
<1>2. /\ h' = [h EXCEPT ![heapsize'] = key] /\ i' = heapsize' /\ ele' = key /\ pc' = "insert"
      /\ live' = [live EXCEPT ![key] = @ + 1] /\ j' = j /\ temp' = temp
  BY DEF Insert
<1>3. heapsize' \in Nat /\ heapsize' >= 1 /\ heapsize' <= SIZE /\ SIZE \in Nat
  <2>1. heapsize' \in 1 .. SIZE
    BY <1>1
  <2> QED
    BY <2>1, HeapAssumption
<1>4. TypeOK'
  <2>1. h' \in [Place -> Key \cup {Sentinel, 0}]
    BY <1>2 DEF TypeOK
  <2>2. i' \in Place /\ j' \in Place /\ heapsize' \in 0 .. SIZE
    BY <1>2, <1>3 DEF TypeOK, Place
  <2>3. live' \in [Key -> Nat]
    BY <1>2 DEF TypeOK
  <2> QED
    BY <1>1, <1>2, <2>1, <2>2, <2>3 DEF TypeOK
<1>5. h'[0] = Sentinel /\ \A p \in 1 .. SIZE : h'[p] \in Element
  <2>1. DOMAIN h = 0 .. SIZE
    BY DEF TypeOK, Place
  <2>2. \A p \in 0 .. SIZE : h'[p] = IF p = heapsize' THEN key ELSE h[p]
    BY <1>2, <2>1
  <2>3. 0 \in 0 .. SIZE /\ \A p \in 1 .. SIZE : p \in 0 .. SIZE
    BY <1>3
  <2> QED
    BY <1>3, <2>2, <2>3 DEF Places, Element
<1>6. i' \in 1 .. heapsize'
  BY <1>2, <1>3
<1> QED
  BY <1>1, <1>2, <1>4, <1>5, <1>6 DEF Places

\* The loop of insert stops at the sentinel at the latest, so its hole stays
\* in the array and above it there is always a place.
LEMMA HoleBelowTop ==
  ASSUME TypeOK, Places, pc = "insert", ParentGoesDown
  PROVE  i >= 2 /\ i \div 2 \in 1 .. heapsize /\ i \div 2 # i /\ i \in Nat
<1>1. i \in Nat /\ i >= 1 /\ i <= heapsize /\ heapsize \in Nat /\ ele \in Nat /\ h[0] = -1
  BY Bounds, Numbers
<1>2. i # 1
  <2>1. i = 1 => h[i \div 2] = -1
    BY <1>1, Above
  <2> QED
    BY <1>1, <2>1 DEF ParentGoesDown
<1> QED
  BY <1>1, <1>2, Above

LEMMA InsertLoopPlaces ==
  ASSUME TypeOK, Places, SiftUp \/ PutUp
  PROVE  TypeOK' /\ Places'
<1>1. CASE SiftUp
  <2>1. i \div 2 \in 1 .. heapsize /\ i \in 1 .. heapsize /\ heapsize <= SIZE /\ heapsize \in Nat
    BY <1>1, HoleBelowTop, Bounds DEF SiftUp, Places
  <2>2. h[i \div 2] \in Element
    BY <2>1, HeapAssumption DEF Places
  <2>3. /\ h' = [h EXCEPT ![i] = h[i \div 2]] /\ i' = i \div 2 /\ pc = "insert"
        /\ UNCHANGED <<heapsize, pc, j, ele, temp, built, done, live>>
    BY <1>1 DEF SiftUp
  <2>4. TypeOK'
    BY <2>1, <2>2, <2>3, HeapAssumption DEF TypeOK, Place, Element
  <2>5. h'[0] = Sentinel /\ \A p \in 1 .. SIZE : h'[p] \in Element
    BY <2>1, <2>2, <2>3, HeapAssumption DEF TypeOK, Places, Place
  <2> QED
    BY <2>1, <2>3, <2>4, <2>5 DEF Places
<1>2. CASE PutUp
  <2>1. i \in 1 .. heapsize /\ heapsize <= SIZE /\ heapsize \in Nat /\ ele \in Element
    BY <1>2, Bounds DEF PutUp, Places
  <2>2. /\ h' = [h EXCEPT ![i] = ele] /\ pc' = "main"
        /\ UNCHANGED <<heapsize, i, j, ele, temp, built, done, live>>
    BY <1>2 DEF PutUp
  <2>3. TypeOK'
    BY <2>1, <2>2, HeapAssumption DEF TypeOK, Place, Element
  <2>4. h'[0] = Sentinel /\ \A p \in 1 .. SIZE : h'[p] \in Element
    BY <2>1, <2>2, HeapAssumption DEF TypeOK, Places, Place
  <2> QED
    BY <2>2, <2>3, <2>4 DEF Places
<1> QED
  BY <1>1, <1>2

\* Delete finds the array full, so at least two elements are left.
LEMMA DeletePlaces ==
  ASSUME TypeOK, Places, Delete, built = SIZE, built' = built,
         done < OPS, done' = done + 1, done' % 2 = 1
  PROVE  TypeOK' /\ Places'
<1>1. done % 2 = 0 /\ heapsize = SIZE /\ SIZE \in Nat /\ SIZE >= 3 /\ done \in Nat
  BY Bounds DEF Places
<1>2. /\ temp' = h[1] /\ ele' = h[heapsize] /\ heapsize' = heapsize - 1 /\ i' = 1
      /\ pc' = "Delete" /\ h' = h /\ j' = j
      /\ live' = [live EXCEPT ![h[1]] = IF @ > 0 THEN @ - 1 ELSE 0]
  BY DEF Delete
<1>3. h[1] \in Element /\ h[heapsize] \in Element
  BY <1>1 DEF Places
<1>4. live' \in [Key -> Nat]
  <2>1. live \in [Key -> Nat] /\ \A n \in Nat : (IF n > 0 THEN n - 1 ELSE 0) \in Nat
    BY DEF TypeOK
  <2> QED
    BY <1>2, <2>1
<1>5. TypeOK'
  BY <1>1, <1>2, <1>3, <1>4, HeapAssumption DEF TypeOK, Place, Element
<1> QED
  BY <1>1, <1>2, <1>5 DEF Places

\* The child Delete looks at is in the array.
LEMMA ChildIsPlace ==
  ASSUME TypeOK, Places, pc = "Delete", i * 2 <= heapsize
  PROVE  Child \in 1 .. heapsize
<1>1. i \in Nat /\ i >= 1 /\ heapsize \in Nat
  BY Bounds DEF Places
<1> QED
  BY <1>1 DEF Child

LEMMA DeleteLoopPlaces ==
  ASSUME TypeOK, Places, SiftDown \/ PutDown
  PROVE  TypeOK' /\ Places'
<1>1. CASE SiftDown
  <2>1. Child \in 1 .. heapsize /\ heapsize <= SIZE /\ heapsize \in Nat /\ i \in Nat /\ i >= 1
    BY <1>1, ChildIsPlace, Bounds DEF SiftDown, Places
  <2>2. h[Child] \in Element
    BY <2>1, HeapAssumption DEF Places
  <2>3. /\ h' = [h EXCEPT ![i] = h[Child]] /\ i' = Child /\ j' = Child /\ pc = "Delete"
        /\ UNCHANGED <<heapsize, pc, ele, temp, built, done, live>>
    BY <1>1 DEF SiftDown
  <2> HIDE DEF Child
  <2>4. TypeOK'
    BY <2>1, <2>2, <2>3, HeapAssumption DEF TypeOK, Place, Element
  <2>5. h'[0] = Sentinel /\ \A p \in 1 .. SIZE : h'[p] \in Element
    BY <2>1, <2>2, <2>3, HeapAssumption DEF TypeOK, Places, Place
  <2> QED
    BY <2>1, <2>3, <2>4, <2>5 DEF Places
<1>2. CASE PutDown
  <2>1. /\ h' = [h EXCEPT ![j'] = ele] /\ pc' = "main"
        /\ UNCHANGED <<heapsize, i, ele, temp, built, done, live>>
    BY <1>2 DEF PutDown
  <2>2. j' \in 1 .. SIZE
    <3>1. CASE i * 2 > heapsize /\ j' = j
      BY <1>2, <3>1, Bounds DEF PutDown, Places, TypeOK, Place
    <3>2. CASE i * 2 <= heapsize /\ j' = Child
      BY <1>2, <3>2, ChildIsPlace, Bounds DEF PutDown
    <3> QED
      BY <1>2, <3>1, <3>2 DEF PutDown
  <2>3. ele \in Element
    BY Bounds
  <2>4. TypeOK'
    BY <2>1, <2>2, <2>3, HeapAssumption DEF TypeOK, Place, Element
  <2>5. h'[0] = Sentinel /\ \A p \in 1 .. SIZE : h'[p] \in Element
    BY <2>1, <2>2, <2>3, HeapAssumption DEF TypeOK, Places, Place
  <2> QED
    BY <2>1, <2>4, <2>5 DEF Places
<1> QED
  BY <1>1, <1>2

LEMMA NextPlaces == TypeOK /\ Places /\ [Next]_vars => (TypeOK /\ Places)'
<1> SUFFICES ASSUME TypeOK, Places, [Next]_vars PROVE (TypeOK /\ Places)'
  OBVIOUS
<1>1. CASE Fill
  BY <1>1, InsertPlaces DEF Fill
<1>2. CASE Turn
  <2>1. CASE done' % 2 = 1
    BY <1>2, <2>1, DeletePlaces DEF Turn
  <2>2. CASE done' % 2 # 1
    BY <1>2, <2>2, InsertPlaces DEF Turn
  <2> QED
    BY <2>1, <2>2
<1>3. CASE Loop
  BY <1>3, InsertLoopPlaces, DeleteLoopPlaces DEF Loop
<1>4. CASE UNCHANGED vars
  BY <1>4 DEF vars, TypeOK, Places
<1> QED
  BY <1>1, <1>2, <1>3, <1>4 DEF Next

-----------------------------------------------------------------------------
\* While there are only insertions the program is in insert or between two.
LEMMA BuildingInserts ==
  ASSUME TypeOK, Places, done = 0
  PROVE  pc \in {"main", "insert"}
  BY DEF TypeOK, Places

\* insert begins: the new place is the hole, and nothing is below it.
LEMMA InsertOrder ==
  ASSUME TypeOK, Places, HeapWhileBuilding, done = 0, built < SIZE, NEW key \in Key, Insert(key)
  PROVE  HeapWhileBuilding'
<1>1. /\ heapsize' = heapsize + 1 /\ h' = [h EXCEPT ![heapsize'] = key]
      /\ i' = heapsize' /\ ele' = key /\ pc' = "insert" /\ pc = "main"
  BY DEF Insert
<1>2. heapsize \in Nat /\ heapsize < SIZE /\ SIZE \in Nat
  BY Bounds DEF Places
<1>3. \A p \in 2 .. heapsize : h[p \div 2] <= h[p]
  BY <1>1 DEF HeapWhileBuilding, Filled
<1>4. Filled' = [h' EXCEPT ![i'] = ele']
  BY <1>1 DEF Filled
<1>5. ASSUME NEW p \in 2 .. heapsize', p # i'
      PROVE  Filled'[p \div 2] <= Filled'[p]
  <2>1. p \in 2 .. heapsize /\ p \in Nat
    BY <1>1, <1>2, <1>5
  <2>2. p \div 2 \in Nat /\ p \div 2 < p
    BY <2>1, Above
  <2>3. p # heapsize' /\ p \div 2 # heapsize'
    BY <1>1, <1>2, <2>1, <2>2
  <2>4. Filled'[p] = h[p] /\ Filled'[p \div 2] = h[p \div 2]
    BY <1>1, <1>2, <1>4, <2>1, <2>2, <2>3 DEF TypeOK, Place
  <2> QED
    BY <1>3, <2>1, <2>4
<1>6. ASSUME NEW p \in 2 .. heapsize' PROVE p \div 2 # i'
  BY <1>1, <1>2, Above
<1> QED
  BY <1>1, <1>5, <1>6 DEF HeapWhileBuilding

\* The hole moves up: the order of all other places stays, and what is now
\* below the hole is greater than the element that waits.
LEMMA SiftUpOrder ==
  ASSUME TypeOK, Places, HeapWhileBuilding, done = 0, SiftUp
  PROVE  HeapWhileBuilding'
<1> DEFINE up == i \div 2
<1>1. /\ h' = [h EXCEPT ![i] = h[up]] /\ i' = up /\ pc = "insert" /\ pc' = "insert"
      /\ heapsize' = heapsize /\ ele' = ele /\ h[up] > ele
  BY DEF SiftUp, ParentGoesDown
<1>2. /\ heapsize \in Nat /\ heapsize <= SIZE /\ SIZE \in Nat
      /\ i \in Nat /\ i >= 2 /\ i <= heapsize
      /\ up \in 1 .. heapsize /\ up # i /\ up < i
  BY <1>1, HoleBelowTop, Bounds, Above DEF SiftUp
<1>3. \A p \in 0 .. SIZE : h[p] \in Int
  BY Numbers
<1>4. ele \in Int
  BY Numbers
<1>5. \A p \in 0 .. SIZE : /\ Filled[p]  = IF p = i THEN ele ELSE h[p]
                           /\ h'[p]      = IF p = i THEN h[up] ELSE h[p]
                           /\ Filled'[p] = IF p = up THEN ele ELSE IF p = i THEN h[up] ELSE h[p]
  BY <1>1, <1>2 DEF Filled, TypeOK, Place
<1>6. /\ \A p \in 2 .. heapsize : p = i \/ Filled[p \div 2] <= Filled[p]
      /\ \A p \in 2 .. heapsize : p \div 2 = i => h[up] <= h[p]
  BY <1>1 DEF HeapWhileBuilding
<1> HIDE DEF up
<1>7. ASSUME NEW p \in 2 .. heapsize, p # up
      PROVE  Filled'[p \div 2] <= Filled'[p]
  <2>1. p \in Nat /\ p \in 0 .. SIZE /\ p \div 2 \in 0 .. SIZE /\ p \div 2 # p
    BY <1>2, Above
  <2>2. CASE p = i
    <3>1. p \div 2 = up
      BY <2>2 DEF up
    <3> QED
      BY <1>1, <1>2, <1>3, <1>4, <1>5, <1>7, <2>1, <2>2, <3>1
  <2>3. CASE p # i /\ p \div 2 = up
    <3>1. h[up] <= h[p]
      BY <1>2, <1>5, <1>6, <1>7, <2>1, <2>3
    <3> QED
      BY <1>1, <1>3, <1>4, <1>5, <1>7, <2>1, <2>3, <3>1
  <2>4. CASE p # i /\ p \div 2 = i
    BY <1>2, <1>5, <1>6, <1>7, <2>1, <2>4
  <2>5. CASE p # i /\ p \div 2 # i /\ p \div 2 # up
    BY <1>5, <1>6, <1>7, <2>1, <2>5
  <2> QED
    BY <2>2, <2>3, <2>4, <2>5
<1>8. ASSUME NEW p \in 2 .. heapsize, p \div 2 = up
      PROVE  h'[up \div 2] <= h'[p]
  <2>1. up \div 2 \in 0 .. SIZE /\ up \div 2 # i /\ p \in 0 .. SIZE /\ up \div 2 < up
    BY <1>2, Above
  <2>2. h'[up \div 2] = h[up \div 2]
    BY <1>5, <2>1
  <2>3. h[up \div 2] <= h[up]
    <3>1. CASE up = 1
      <4>1. up \div 2 = 0
        BY <3>1
      <4>2. h[0] = -1 /\ h[up] \in Nat
        BY <1>2, Numbers
      <4> QED
        BY <4>1, <4>2
    <3>2. CASE up # 1
      BY <1>2, <1>5, <1>6, <2>1, <3>2
    <3> QED
      BY <3>1, <3>2
  <2>4. h[up] <= h'[p]
    <3>1. CASE p = i
      BY <1>2, <1>3, <1>5, <2>1, <3>1
    <3>2. CASE p # i
      <4>1. Filled[p \div 2] <= Filled[p]
        BY <1>6, <3>2
      <4> QED
        BY <1>2, <1>5, <1>8, <2>1, <3>2, <4>1
    <3> QED
      BY <3>1, <3>2
  <2>5. h[up \div 2] \in Int /\ h[up] \in Int /\ h'[p] \in Int
    BY <1>2, <1>3, <1>5, <2>1
  <2> QED
    BY <2>2, <2>3, <2>4, <2>5
<1> QED
  BY <1>1, <1>7, <1>8 DEF HeapWhileBuilding

\* The element goes into the hole once the place above is not greater.
LEMMA PutUpOrder ==
  ASSUME TypeOK, Places, HeapWhileBuilding, done = 0, PutUp
  PROVE  HeapWhileBuilding'
<1>1. h' = [h EXCEPT ![i] = ele] /\ pc = "insert" /\ pc' = "main" /\ heapsize' = heapsize
  BY DEF PutUp
<1>2. Filled' = Filled
  BY <1>1 DEF Filled
<1>3. i \in Nat /\ i >= 1 /\ i <= heapsize /\ heapsize \in Nat /\ heapsize <= SIZE /\ SIZE \in Nat
  BY <1>1, Bounds
<1>4. i >= 2 => Filled[i \div 2] <= Filled[i]
  <2>1. \A p \in 0 .. SIZE : h[p] \in Int
    BY Numbers
  <2>2. i \div 2 \in 0 .. SIZE /\ i \div 2 # i /\ i \in 0 .. SIZE
    BY <1>3, Above
  <2>3. Filled[i] = ele /\ Filled[i \div 2] = h[i \div 2]
    BY <1>1, <2>2 DEF Filled, TypeOK, Place
  <2>4. ele \in Int /\ ~(h[i \div 2] > ele)
    BY Numbers DEF PutUp, ParentGoesDown
  <2> QED
    BY <2>1, <2>2, <2>3, <2>4
<1>5. \A p \in 2 .. heapsize : p = i \/ Filled[p \div 2] <= Filled[p]
  BY <1>1 DEF HeapWhileBuilding
<1> QED
  BY <1>1, <1>2, <1>3, <1>4, <1>5 DEF HeapWhileBuilding

-----------------------------------------------------------------------------
\* The places that hold a key, with the element insert holds put at its hole.
Holding(key) == {p \in 1 .. heapsize : Filled[p] = key}

LEMMA HoldingIsFinite ==
  ASSUME heapsize \in Nat, NEW key
  PROVE  IsFiniteSet(Holding(key))
<1>1. IsFiniteSet(1 .. heapsize)
  BY FS_Interval
<1>2. Holding(key) \in SUBSET (1 .. heapsize)
  BY DEF Holding
<1> QED
  BY <1>1, <1>2, FS_Subset

\* One member for another leaves the number of members.
LEMMA MoveElement ==
  ASSUME NEW S, IsFiniteSet(S), NEW x \in S, NEW y, y \notin S
  PROVE  Cardinality((S \ {x}) \cup {y}) = Cardinality(S)
<1>1. IsFiniteSet(S \ {x}) /\ Cardinality(S \ {x}) = Cardinality(S) - 1
  BY FS_RemoveElement
<1>2. y \notin S \ {x}
  OBVIOUS
<1>3. Cardinality((S \ {x}) \cup {y}) = Cardinality(S \ {x}) + 1
  BY <1>1, <1>2, FS_AddElement
<1>4. Cardinality(S) \in Nat
  BY FS_CardinalityType
<1> QED
  BY <1>1, <1>3, <1>4

\* insert begins: one more place holds its key.
LEMMA InsertKept ==
  ASSUME TypeOK, Places, KeptWhileBuilding, done = 0, built < SIZE, NEW key \in Key, Insert(key)
  PROVE  KeptWhileBuilding'
<1>1. /\ heapsize' = heapsize + 1 /\ h' = [h EXCEPT ![heapsize'] = key]
      /\ i' = heapsize' /\ ele' = key /\ pc' = "insert" /\ pc = "main"
      /\ live' = [live EXCEPT ![key] = @ + 1]
  BY DEF Insert
<1>2. heapsize \in Nat /\ heapsize < SIZE /\ SIZE \in Nat
  BY Bounds DEF Places
<1>3. DOMAIN h = 0 .. SIZE /\ live \in [Key -> Nat]
  BY DEF TypeOK, Place
<1>4. Filled = h /\ Filled' = [h EXCEPT ![heapsize + 1] = key]
  BY <1>1, <1>3 DEF Filled
<1>5. \A p \in 1 .. heapsize + 1 : Filled'[p] = IF p = heapsize + 1 THEN key ELSE Filled[p]
  BY <1>2, <1>3, <1>4
<1>6. SUFFICES ASSUME NEW k \in Key PROVE Cardinality(Holding(k)') = live'[k]
  BY DEF KeptWhileBuilding, Holding
<1>7. Cardinality(Holding(k)) = live[k]
  BY DEF KeptWhileBuilding, Holding
<1>8. Holding(k)' = {p \in 1 .. heapsize + 1 : Filled'[p] = k}
  BY <1>1 DEF Holding
<1>9. CASE k = key
  <2>1. Holding(k)' = Holding(k) \cup {heapsize + 1}
    BY <1>2, <1>5, <1>8, <1>9 DEF Holding
  <2>2. heapsize + 1 \notin Holding(k)
    BY <1>2 DEF Holding
  <2>3. Cardinality(Holding(k)') = Cardinality(Holding(k)) + 1
    BY <1>2, <2>1, <2>2, HoldingIsFinite, FS_AddElement
  <2> QED
    BY <1>1, <1>3, <1>7, <1>9, <2>3
<1>10. CASE k # key
  <2>1. Holding(k)' = Holding(k)
    BY <1>2, <1>5, <1>8, <1>10 DEF Holding
  <2> QED
    BY <1>1, <1>3, <1>7, <1>10, <2>1
<1> QED
  BY <1>9, <1>10

\* The hole and the place above it exchange what they hold.
LEMMA SiftUpKept ==
  ASSUME TypeOK, Places, KeptWhileBuilding, done = 0, SiftUp
  PROVE  KeptWhileBuilding'
<1> DEFINE up == i \div 2
<1>1. /\ h' = [h EXCEPT ![i] = h[up]] /\ i' = up /\ pc = "insert" /\ pc' = "insert"
      /\ heapsize' = heapsize /\ ele' = ele /\ live' = live /\ h[up] > ele
  BY DEF SiftUp, ParentGoesDown
<1>2. /\ heapsize \in Nat /\ heapsize <= SIZE /\ SIZE \in Nat
      /\ i \in 1 .. heapsize /\ up \in 1 .. heapsize /\ up # i
  BY <1>1, HoleBelowTop, Bounds DEF SiftUp, Places
<1>3. h[up] # ele
  BY <1>1, <1>2, Numbers
<1> HIDE DEF up
<1>4. \A p \in 1 .. heapsize : /\ Filled[p]  = IF p = i THEN ele ELSE h[p]
                               /\ Filled'[p] = IF p = up THEN ele ELSE IF p = i THEN h[up] ELSE h[p]
  BY <1>1, <1>2 DEF Filled, TypeOK, Place
<1>5. SUFFICES ASSUME NEW k \in Key PROVE Cardinality(Holding(k)') = Cardinality(Holding(k))
  BY <1>1 DEF KeptWhileBuilding, Holding
<1>6. Holding(k)' = {p \in 1 .. heapsize : Filled'[p] = k} /\ IsFiniteSet(Holding(k))
  BY <1>1, <1>2, HoldingIsFinite DEF Holding
<1>7. CASE k = ele
  <2>1. i \in Holding(k) /\ up \notin Holding(k)
    BY <1>2, <1>3, <1>4, <1>7 DEF Holding
  <2>2. Holding(k)' = (Holding(k) \ {i}) \cup {up}
    BY <1>2, <1>3, <1>4, <1>6, <1>7 DEF Holding
  <2> QED
    BY <1>6, <2>1, <2>2, MoveElement
<1>8. CASE k = h[up]
  <2>1. up \in Holding(k) /\ i \notin Holding(k)
    BY <1>2, <1>3, <1>4, <1>8 DEF Holding
  <2>2. Holding(k)' = (Holding(k) \ {up}) \cup {i}
    BY <1>2, <1>3, <1>4, <1>6, <1>8 DEF Holding
  <2> QED
    BY <1>6, <2>1, <2>2, MoveElement
<1>9. CASE k # ele /\ k # h[up]
  <2>1. Holding(k)' = Holding(k)
    BY <1>2, <1>4, <1>6, <1>9 DEF Holding
  <2> QED
    BY <2>1
<1> QED
  BY <1>7, <1>8, <1>9

\* A step after which the array with the element insert holds is the same.
LEMMA SameFilledKept ==
  ASSUME KeptWhileBuilding, Filled' = Filled, UNCHANGED <<heapsize, live, done>>
  PROVE  KeptWhileBuilding'
  BY DEF KeptWhileBuilding

-----------------------------------------------------------------------------
\* What a step does while only insertions were made, and after it.
LEMMA BuildingStep ==
  ASSUME TypeOK, Places, done' = 0, Next
  PROVE  /\ done = 0
         /\ \/ built < SIZE /\ \E key \in Key : Insert(key)
            \/ SiftUp
            \/ PutUp
<1>1. CASE Fill
  BY <1>1 DEF Fill
<1>2. CASE Turn
  BY <1>2, Bounds DEF Turn
<1>3. CASE Loop
  <2>1. done = 0
    BY <1>3 DEF Loop, SiftUp, PutUp, SiftDown, PutDown
  <2>2. pc # "Delete"
    BY <2>1, BuildingInserts
  <2> QED
    BY <1>3, <2>1, <2>2 DEF Loop, SiftDown, PutDown
<1> QED
  BY <1>1, <1>2, <1>3 DEF Next

LEMMA NextIInv == IInv /\ [Next]_vars => IInv'
<1> SUFFICES ASSUME IInv, [Next]_vars PROVE IInv'
  OBVIOUS
<1> USE DEF IInv
<1>1. (TypeOK /\ Places)'
  BY NextPlaces
<1>2. CASE UNCHANGED vars
  BY <1>1, <1>2 DEF vars, HeapWhileBuilding, KeptWhileBuilding, Filled
<1>3. CASE done' # 0
  BY <1>1, <1>3 DEF HeapWhileBuilding, KeptWhileBuilding
<1>4. CASE done' = 0 /\ Next
  <2>1. done = 0
    BY <1>4, BuildingStep
  <2>2. ASSUME NEW key \in Key, built < SIZE, Insert(key)
        PROVE  HeapWhileBuilding' /\ KeptWhileBuilding'
    BY <2>1, <2>2, InsertOrder, InsertKept
  <2>3. CASE SiftUp
    BY <1>1, <2>1, <2>3, SiftUpOrder, SiftUpKept
  <2>4. CASE PutUp
    <3>1. Filled' = Filled /\ UNCHANGED <<heapsize, live, done>>
      BY <2>4 DEF PutUp, Filled
    <3> QED
      BY <1>1, <2>1, <2>4, <3>1, PutUpOrder, SameFilledKept
  <2> QED
    BY <1>1, <1>4, <2>2, <2>3, <2>4, BuildingStep
<1> QED
  BY <1>2, <1>3, <1>4

LEMMA InitIInv == Init => IInv
<1> SUFFICES ASSUME Init PROVE IInv
  OBVIOUS
<1>1. heapsize = 0 /\ 2 .. heapsize = {} /\ 1 .. heapsize = {} /\ pc = "main"
  BY DEF Init
<1>2. KeptWhileBuilding
  <2>1. \A key \in Key : {p \in 1 .. heapsize : Filled[p] = key} = {} /\ live[key] = 0
    BY <1>1 DEF Init
  <2> QED
    BY <2>1, FS_EmptySet DEF KeptWhileBuilding
<1>3. HeapWhileBuilding
  BY <1>1 DEF HeapWhileBuilding
<1> QED
  BY <1>2, <1>3, InitPlaces DEF IInv

-----------------------------------------------------------------------------
\* The inductive invariant of the heap.
THEOREM HeapInvariant == Spec => []IInv
<1> QED
  BY InitIInv, NextIInv, PTL DEF Spec

\* No step of insert or Delete leaves the array, and what main counts stays in
\* its bounds.
THEOREM HeapTypes == Spec => []TypeOK
<1>1. IInv => TypeOK
  BY DEF IInv
<1> QED
  BY <1>1, HeapInvariant, PTL

\* As long as there are only insertions the array is one store away from a heap,
\* at every step of the loop of insert.
THEOREM HeapStaysOrdered == Spec => []HeapWhileBuilding
<1>1. IInv => HeapWhileBuilding
  BY DEF IInv
<1> QED
  BY <1>1, HeapInvariant, PTL

\* As long as there are only insertions the array, with the element insert
\* holds, is what was inserted.
THEOREM HeapKeepsElements == Spec => []KeptWhileBuilding
<1>1. IInv => KeptWhileBuilding
  BY DEF IInv
<1> QED
  BY <1>1, HeapInvariant, PTL
=============================================================================
