----------------------------- MODULE BufferHeap ------------------------------
(***************************************************************************)
(* src/Heap/buffer_heap.cc: the heap of Heap with its array written        *)
(* through the write buffer.  insert also stores directly (line 38), and   *)
(* Delete also reads directly (55) and hands write_literal a pointer into  *)
(* the array (70): what those reach is the NVM, not the buffer.            *)
(*                                                                         *)
(* As in Heap an iteration of a loop is a step and an element is its key.  *)
(* What main does at its end, joining a thread that was never created, is  *)
(* left out.                                                               *)
(***************************************************************************)
EXTENDS Integers

CONSTANTS
  Key, SIZE, OPS,   \* as in Heap
  SLOTS             \* writes between two transfers

\* As in Heap; with fewer than three elements Delete uses j without a value.
ASSUME BufferHeapAssumption == /\ Key \subseteq Nat /\ Key # {}
                               /\ SIZE \in Nat /\ SIZE >= 3
                               /\ OPS \in Nat
                               /\ SLOTS \in Nat \ {0}

VARIABLES
  buf,              \* the buffer in front of the array h
  heapsize, pc, i, j, ele, temp, built, done, live,   \* as in Heap
  exact,            \* history: every access of the program to the array saw
                    \* what was last written there
  transferred       \* history: the buffer was full once

vars == <<buf, heapsize, pc, i, j, ele, temp, built, done, live, exact, transferred>>

Location == 0 .. SIZE    \* &h[0], &h[1], ...
Sentinel == -1

Buffer == INSTANCE LiteralBuffer WITH Val <- Key \cup {Sentinel, 0}

\* The array as it was last written: what heap.cc would have in memory.
View == Buffer!View(buf)
Heap == INSTANCE Heap WITH h <- View

Init ==
  /\ buf = Buffer!InitialBuffer([p \in Location |-> IF p = 0 THEN Sentinel ELSE 0])
  /\ heapsize = 0
  /\ pc = "main"
  /\ i = 0 /\ j = 0
  /\ ele = 0 /\ temp = 0
  /\ built = 0 /\ done = 0
  /\ live = [key \in Key |-> 0]
  /\ exact = TRUE /\ transferred = FALSE

-----------------------------------------------------------------------------
Read(p) == Buffer!Load(buf, p)
ExactAt(places) == \A p \in places : Buffer!Exact(buf, p)

\* rt_mem->write_literal(&element, sizeof(DataItem), &h[p])
Write(p, element) ==
  /\ buf' = Buffer!Store(buf, p, element)
  /\ transferred' = (transferred \/ buf.pending = SLOTS)

\* insert, up to its loop: h[++heapsize]=ele.
Insert(key) ==
  /\ pc = "main"
  /\ heapsize' = heapsize + 1
  /\ buf' = [buf EXCEPT !.nvm[heapsize'] = key]
  /\ exact' = (exact /\ Buffer!View(buf')[heapsize'] = key)
  /\ i' = heapsize'
  /\ ele' = key
  /\ pc' = "insert"
  /\ live' = [live EXCEPT ![key] = @ + 1]
  /\ UNCHANGED <<j, temp, transferred>>

\* For mutation: the index does not move up; the element is compared with the
\* one beside it.
SiftUpStays ==
  /\ pc = "insert"
  /\ Read(i \div 2) > ele
  /\ Write(i, Read(i \div 2))
  /\ UNCHANGED <<heapsize, pc, i, j, ele, temp, built, done, live, exact>>

\* a=*read(&h[i/2]); while (a.key>ele.key)
ParentGoesDown == Read(i \div 2) > ele

SiftUp ==
  /\ pc = "insert"
  /\ ParentGoesDown
  /\ Write(i, Read(i \div 2))
  /\ exact' = (exact /\ ExactAt({i \div 2}))
  /\ i' = i \div 2
  /\ UNCHANGED <<heapsize, pc, j, ele, temp, built, done, live>>

\* For mutation: the element is stored directly, as heap.cc does.
PutUpDirectly ==
  /\ pc = "insert"
  /\ ~ParentGoesDown
  /\ buf' = [buf EXCEPT !.nvm[i] = ele]
  /\ exact' = (exact /\ ExactAt({i \div 2}))
  /\ pc' = "main"
  /\ UNCHANGED <<heapsize, i, j, ele, temp, built, done, live, transferred>>

PutUp ==
  /\ pc = "insert"
  /\ ~ParentGoesDown
  /\ Write(i, ele)
  /\ exact' = (exact /\ ExactAt({i \div 2}))
  /\ pc' = "main"
  /\ UNCHANGED <<heapsize, i, j, ele, temp, built, done, live>>

\* Delete, up to its loop: minEle=h[1], nowEle=h[heapsize], past the buffer.
Delete ==
  /\ pc = "main"
  /\ temp' = buf.nvm[1]
  /\ ele' = buf.nvm[heapsize]
  /\ exact' = (exact /\ \A p \in {1, heapsize} : buf.nvm[p] = View[p])
  /\ heapsize' = heapsize - 1
  /\ i' = 1
  /\ pc' = "Delete"
  /\ live' = [live EXCEPT ![temp'] = IF @ > 0 THEN @ - 1 ELSE 0]
  /\ UNCHANGED <<buf, j, transferred>>

\* j=i*2, or the place to the right of it when the key read there is greater.
Child ==
  IF i * 2 # heapsize /\ Read(i * 2 + 1) > Read(i * 2) THEN i * 2 + 1 ELSE i * 2

Looked == IF i * 2 # heapsize THEN {i * 2, i * 2 + 1} ELSE {i * 2}

\* write_literal(&h[j], sizeof(long), &h[i]): the buffer copies what h[j] holds
\* after the transfer it may make, not the element that was read.
SiftDown ==
  /\ pc = "Delete"
  /\ i * 2 <= heapsize
  /\ ele > Read(Child)
  /\ LET behind == Buffer!WithRoom(buf).nvm[Child]
     IN  /\ Write(i, behind)
         /\ exact' = (exact /\ ExactAt(Looked) /\ behind = View[Child])
  /\ i' = Child /\ j' = Child
  /\ UNCHANGED <<heapsize, pc, ele, temp, built, done, live>>

\* The break, or the end of the loop, and then write_literal(&nowEle, ..., &h[j]).
PutDown ==
  /\ pc = "Delete"
  /\ \/ i * 2 > heapsize /\ j' = j /\ exact' = exact
     \/ i * 2 <= heapsize /\ ele <= Read(Child) /\ j' = Child /\ exact' = (exact /\ ExactAt(Looked))
  /\ Write(j', ele)
  /\ pc' = "main"
  /\ UNCHANGED <<heapsize, i, ele, temp, built, done, live>>

-----------------------------------------------------------------------------
Fill ==
  /\ built < SIZE
  /\ built' = built + 1
  /\ \E key \in Key : Insert(key)
  /\ done' = done

\* if (i%2) Delete(); else insert(temp);
Turn ==
  /\ built = SIZE
  /\ done < OPS
  /\ done' = done + 1
  /\ IF done' % 2 = 1 THEN Delete ELSE \E key \in Key : Insert(key)
  /\ built' = built

Loop == SiftUp \/ PutUp \/ SiftDown \/ PutDown

Next == Fill \/ Turn \/ Loop

\* The program goes on with a loop it is in.
Spec == Init /\ [][Next]_vars /\ WF_vars(Loop)

-----------------------------------------------------------------------------
\* While the heap is built and the queue has not been full yet every access is
\* right: insert reads only places it has written through the buffer, and the
\* sentinel below them all (insert).
ExactUntilTransfer == done = 0 /\ ~transferred => exact

\* As long as the accesses were right the array goes, step by step, through what
\* heap.cc makes of it, deletions and transfers included: the direct store of
\* insert, the direct reads of Delete and the pointer it passes do no harm then.
LikeHeap == [][exact' => Heap!Next]_vars

\* insert and Delete return, whatever the reads return: the loop of insert ends
\* at the sentinel, which lies below every buffered address and is always read
\* right.
CallsReturn == pc # "main" ~> pc = "main"
=============================================================================
