--------------------------- MODULE LiteralBuffer ----------------------------
(***************************************************************************)
(* The write buffer of mmp_user.cc as a client sees it that only uses      *)
(* write_literal, read, do_transfer and txend: a cache of objects in front *)
(* of the NVM, with no queue, no slots and no index.                       *)
(*                                                                         *)
(* The operators take the state of the buffer and return a value or the    *)
(* next state, so that a client can use several in one step.  The buffer   *)
(* implements Spec (BufferImplementsCache of MmpProofs); BufferBTree,      *)
(* BufferHeap and Vecs build on the operators.                             *)
(***************************************************************************)
EXTENDS Integers, FiniteSetsExt

CONSTANTS
  Location,   \* addresses, numbers
  Val,        \* objects
  SLOTS       \* SIZE of mmp_user.cc: writes between two transfers

VARIABLE buf  \* [cache, nvm, pending]: objects not transferred yet, a function
              \* from their addresses; the NVM; the writes since the transfer

InitialBuffer(memory) == [cache |-> [l \in {} |-> 0], nvm |-> memory, pending |-> 0]

\* What was last written to each location.
View(b) == [l \in Location |-> IF l \in DOMAIN b.cache THEN b.cache[l] ELSE b.nvm[l]]

\* The object my_read leads to: that of the nearest cached address at or below.
Load(b, location) ==
  LET below == {l \in DOMAIN b.cache : l <= location}
  IN  IF below = {} THEN b.nvm[location] ELSE b.cache[Max(below)]

\* A read is right.
Exact(b, location) == Load(b, location) = View(b)[location]

\* my_xfer.
Transfer(b) == InitialBuffer(View(b))

\* The buffer my_write_literal finds or makes room in.
WithRoom(b) == IF b.pending = SLOTS THEN Transfer(b) ELSE b

\* my_write_literal of an object to a location.
Store(b, location, object) ==
  LET room == WithRoom(b)
  IN  [cache   |-> [l \in DOMAIN room.cache \cup {location} |->
                      IF l = location THEN object ELSE room.cache[l]],
       nvm     |-> room.nvm,
       pending |-> room.pending + 1]

Init == \E memory \in [Location -> Val] : buf = InitialBuffer(memory)

Next ==
  \/ \E l \in Location, v \in Val : buf' = Store(buf, l, v)
  \/ buf' = Transfer(buf)

Spec == Init /\ [][Next]_buf
=============================================================================
