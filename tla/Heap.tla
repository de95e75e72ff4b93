-------------------------------- MODULE Heap --------------------------------
(***************************************************************************)
(* src/Heap/heap.cc: a binary heap in an array, and the benchmark that     *)
(* fills it and then deletes and inserts by turns.                         *)
(*                                                                         *)
(* One iteration of a loop is a step: each writes one element, flushes it  *)
(* and fences.  An element is its key.  The redo records appended to log   *)
(* are written and never read: left out, as is their flush.                *)
(***************************************************************************)
EXTENDS Integers, FiniteSets

CONSTANTS
  Key,       \* the keys of elements, a set of numbers
  SIZE,      \* size: elements main inserts first
  OPS        \* ops: its turns after that

\* With fewer than three elements Delete uses j without giving it a value.
ASSUME HeapAssumption == /\ Key \subseteq Nat /\ Key # {}
                         /\ SIZE \in Nat /\ SIZE >= 3
                         /\ OPS \in Nat

VARIABLES
  h,            \* the array; h[0] is a sentinel
  heapsize,
  pc,           \* "main", or the loop of "insert" or "Delete"
  i, j,         \* the places the loops are at
  ele,          \* ele of insert, nowEle of Delete
  temp,         \* what the last Delete returned
  built, done,  \* iterations of the two loops of main
  live          \* history: what a priority queue would hold, key -> number

vars == <<h, heapsize, pc, i, j, ele, temp, built, done, live>>

Sentinel == -1
Place == 0 .. SIZE

Init ==
  /\ h = [p \in Place |-> IF p = 0 THEN Sentinel ELSE 0]
  /\ heapsize = 0
  /\ pc = "main"
  /\ i = 0 /\ j = 0
  /\ ele = 0 /\ temp = 0
  /\ built = 0 /\ done = 0
  /\ live = [key \in Key |-> 0]

\* insert, up to its loop.
Insert(key) ==
  /\ pc = "main"
  /\ heapsize' = heapsize + 1
  /\ h' = [h EXCEPT ![heapsize'] = key]
  /\ i' = heapsize'
  /\ ele' = key
  /\ pc' = "insert"
  /\ live' = [live EXCEPT ![key] = @ + 1]
  /\ UNCHANGED <<j, temp>>

\* For mutation: the wrong elements move; the index does not move up.
ParentGoesDownWrongly == h[i \div 2] < ele /\ i > 1

SiftUpStays ==
  /\ pc = "insert"
  /\ h[i \div 2] > ele
  /\ h' = [h EXCEPT ![i] = h[i \div 2]]
  /\ UNCHANGED <<heapsize, pc, i, j, ele, temp, built, done, live>>

\* while (h[i/2].key>ele.key)
ParentGoesDown == h[i \div 2] > ele

SiftUp ==
  /\ pc = "insert"
  /\ ParentGoesDown
  /\ h' = [h EXCEPT ![i] = h[i \div 2]]
  /\ i' = i \div 2
  /\ UNCHANGED <<heapsize, pc, j, ele, temp, built, done, live>>

\* For mutation: the element stays where it was put first.
PutUpNowhere ==
  /\ pc = "insert"
  /\ ~ParentGoesDown
  /\ pc' = "main"
  /\ UNCHANGED <<h, heapsize, i, j, ele, temp, built, done, live>>

PutUp ==
  /\ pc = "insert"
  /\ ~ParentGoesDown
  /\ h' = [h EXCEPT ![i] = ele]
  /\ pc' = "main"
  /\ UNCHANGED <<heapsize, i, j, ele, temp, built, done, live>>

\* For mutation: heapsize is not counted down.
DeleteKeepsSize ==
  /\ pc = "main"
  /\ temp' = h[1]
  /\ ele' = h[heapsize]
  /\ i' = 1
  /\ pc' = "Delete"
  /\ live' = [live EXCEPT ![h[1]] = IF @ > 0 THEN @ - 1 ELSE 0]
  /\ UNCHANGED <<h, heapsize, j>>

\* Delete, up to its loop: minEle=h[1], nowEle=h[heapsize].
Delete ==
  /\ pc = "main"
  /\ temp' = h[1]
  /\ ele' = h[heapsize]
  /\ heapsize' = heapsize - 1
  /\ i' = 1
  /\ pc' = "Delete"
  /\ live' = [live EXCEPT ![h[1]] = IF @ > 0 THEN @ - 1 ELSE 0]
  /\ UNCHANGED <<h, j>>

\* j=i*2, or the place to the right of it when its key is greater.
Child ==
  IF i * 2 # heapsize /\ h[i * 2 + 1] > h[i * 2] THEN i * 2 + 1 ELSE i * 2

SiftDown ==
  /\ pc = "Delete"
  /\ i * 2 <= heapsize
  /\ ele > h[Child]
  /\ h' = [h EXCEPT ![i] = h[Child]]
  /\ i' = Child /\ j' = Child
  /\ UNCHANGED <<heapsize, pc, ele, temp, built, done, live>>

\* The break, or the end of the loop, and then h[j]=nowEle.
PutDown ==
  /\ pc = "Delete"
  /\ \/ i * 2 > heapsize /\ j' = j
     \/ i * 2 <= heapsize /\ ele <= h[Child] /\ j' = Child
  /\ h' = [h EXCEPT ![j'] = ele]
  /\ pc' = "main"
  /\ UNCHANGED <<heapsize, i, ele, temp, built, done, live>>

-----------------------------------------------------------------------------
Fill ==
  /\ built < SIZE
  /\ built' = built + 1
  /\ \E key \in Key : Insert(key)
  /\ done' = done

\* if (i%2) Delete(); else insert(temp);
Turn ==
  /\ built = SIZE
  /\ done < OPS
  /\ done' = done + 1
  /\ IF done' % 2 = 1 THEN Delete ELSE \E key \in Key : Insert(key)
  /\ built' = built

Loop == SiftUp \/ PutUp \/ SiftDown \/ PutDown

Next == Fill \/ Turn \/ Loop

Spec == Init /\ [][Next]_vars

\* The program goes on with a loop it is in.
FairSpec == Spec /\ WF_vars(Loop)

-----------------------------------------------------------------------------
TypeOK ==
  /\ h \in [Place -> Key \cup {Sentinel, 0}]
  /\ heapsize \in 0 .. SIZE
  /\ pc \in {"main", "insert", "Delete"}
  /\ i \in Place /\ j \in Place
  /\ ele \in Key \cup {0} /\ temp \in Key \cup {0}
  /\ built \in 0 .. SIZE /\ done \in 0 .. OPS
  /\ live \in [Key -> Nat]

\* The array as it is once the element insert holds is put at i.
Filled == IF pc = "insert" THEN [h EXCEPT ![i] = ele] ELSE h

\* As long as there are only insertions, no place except the one insert is
\* filling holds less than the place above it, and the places below that
\* one hold no less than the place above it: whatever step of its loop
\* insert is at, it is one store away from a heap.
HeapWhileBuilding ==
  done = 0 =>
    /\ \A p \in 2 .. heapsize :
         (pc = "insert" /\ p = i) \/ Filled[p \div 2] <= Filled[p]
    /\ pc = "insert" =>
         \A p \in 2 .. heapsize : p \div 2 = i => h[i \div 2] <= h[p]

\* As long as there are only insertions, the array with the element insert
\* holds is what was inserted: the loop of insert loses and doubles nothing.
KeptWhileBuilding ==
  done = 0 => \A key \in Key :
                Cardinality({p \in 1 .. heapsize : Filled[p] = key}) = live[key]

\* insert and Delete return, on a heap and on what Delete leaves behind:
\* the loop of insert ends at the sentinel at the latest, that of Delete at
\* the last place.
CallsReturn == pc # "main" ~> pc = "main"

\* What Delete returns as minEle (heap.cc:55) is the least element of the
\* queue.  It is not: the hole is filled with the greater of two children
\* (heap.cc:60).
MinAtTop ==
  pc = "main" /\ heapsize > 0 =>
    live[h[1]] > 0 /\ \A key \in Key : live[key] > 0 => h[1] <= key
=============================================================================
