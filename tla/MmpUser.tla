------------------------------ MODULE MmpUser -------------------------------
(***************************************************************************)
(* The write buffer of src/mmp_user.cc, called by one thread.              *)
(*                                                                         *)
(* my_write_literal puts an object in the next slot of the queue cmtq and  *)
(* lets the Judy array map the object's NVM address to that slot; my_read  *)
(* looks an address up in the array; my_xfer copies what the array points  *)
(* to into the NVM, empties the array and rewinds the iterator giter.      *)
(*                                                                         *)
(* One thread calls, so a call is one action.  A value stands for a whole  *)
(* object: every client writes a location with one size, and the objects   *)
(* of two locations do not overlap, so len and the bytes are left out.     *)
(***************************************************************************)
EXTENDS Integers, Judy

CONSTANTS
  Location,   \* NVM addresses of the client's objects
  Val,        \* the objects
  NULL,       \* what a slot holds before its first use
  SIZE,       \* slots of cmtq and entries of dirties (100000 in the code)
  HashAddr,   \* hash_addr: the entry of dirties each location selects
  BYTE,       \* values of one byte of dirties (256 in the code)
  QMAX,       \* bound of the model on the length of cmtq
  TXMAX       \* bound of the model on curtxid

ASSUME LocationAssumption == Location \subseteq Nat
ASSUME NullAssumption == NULL \notin Location /\ NULL \notin Val
ASSUME SizeAssumption == SIZE \in Nat \ {0}
\* SIZE & addr keeps some of the bits of SIZE, possibly all of them.
ASSUME HashAssumption == HashAddr \in [Location -> 0 .. SIZE]
ASSUME ByteAssumption == BYTE \in Nat /\ BYTE > 2
ASSUME BoundAssumption == QMAX \in Nat /\ QMAX >= SIZE /\ TXMAX \in Nat

VARIABLES
  cmtq,       \* the slots, a function from 0 .. qlen - 1
  qlen,       \* cmtq.size()
  giter,      \* the slot the iterator is at; qlen is cmtq.end()
  stale,      \* giter walks a node map that push_back has freed
  PJLArray,   \* the Judy array: location -> slot
  dirties,    \* the byte counters behind bool dirties[SIZE]
  curtxid,    \* glob_rt_mem.curtxid
  nvm,        \* the memory the locations are in
  ub,         \* an operation with undefined behaviour was reached
  latest      \* history: the value last given to my_write_literal

vars == <<cmtq, qlen, giter, stale, PJLArray, dirties, curtxid, nvm, ub, latest>>

SlotRecord == [data : Val \cup {NULL}, write_to : Location \cup {NULL}, txid : Nat]

\* Pointers the client hands in or gets back.
Local(v)   == [to |-> "local", at |-> v]
InSlot(s)  == [to |-> "slot",  at |-> s]
InNvm(l)   == [to |-> "nvm",   at |-> l]

Deref(p, queue, memory) ==
  CASE p.to = "local" -> p.at
    [] p.to = "slot"  -> queue[p.at].data
    [] p.to = "nvm"   -> memory[p.at]

-----------------------------------------------------------------------------
(***************************************************************************)
(* The state internal_init leaves behind: SIZE zeroed slots, no index.     *)
(***************************************************************************)
Init ==
  /\ cmtq = [s \in 0 .. SIZE - 1 |-> [data |-> NULL, write_to |-> NULL, txid |-> 0]]
  /\ qlen = SIZE
  /\ giter = 0
  /\ stale = FALSE
  /\ PJLArray = EmptyJudy
  /\ dirties = [h \in 0 .. SIZE - 1 |-> 0]
  /\ curtxid = 0
  /\ nvm \in [Location -> Val]
  /\ ub = FALSE
  /\ latest = nvm

\* For mutation: the loop starts with JLN and passes over the first index.
TransferredButFirst ==
  [l \in Location |-> IF l \in DOMAIN PJLArray /\ \E k \in DOMAIN PJLArray : k < l
                        THEN cmtq[PJLArray[l]].data ELSE nvm[l]]

\* The NVM after the JLF/JLN loop of my_xfer: the entries are copied in
\* ascending order of their index, each to the address its slot names.
Transferred ==
  [l \in Location |->
     LET into == {i \in DOMAIN PJLArray : cmtq[PJLArray[i]].write_to = l}
     IN  IF into = {} THEN nvm[l] ELSE cmtq[PJLArray[Max(into)]].data]

\* For mutation: the array is not emptied.
MyXferKeepsIndex ==
  /\ ~ub
  /\ nvm' = Transferred
  /\ giter' = 0
  /\ stale' = FALSE
  /\ UNCHANGED <<cmtq, qlen, PJLArray, dirties, curtxid, ub, latest>>

\* my_xfer (do_transfer), called by the client.
MyXfer ==
  /\ ~ub
  /\ nvm' = Transferred
  /\ giter' = 0
  /\ stale' = FALSE
  /\ PJLArray' = EmptyJudy
  /\ UNCHANGED <<cmtq, qlen, dirties, curtxid, ub, latest>>

\* For mutation: the test is off by one; the full queue is only rewound.
AtEndLate == giter > qlen
StartNvmUntransferred == nvm

\* if (giter==cmtq.end()) my_xfer();
AtEnd     == giter = qlen
StartSlot == IF AtEnd THEN 0 ELSE giter
StartNvm  == IF AtEnd THEN Transferred ELSE nvm
StartJudy == IF AtEnd THEN EmptyJudy ELSE PJLArray

\* The slot exists, and stepping giter over it reads a live node map.
SlotUsable == StartSlot < qlen /\ (stale => AtEnd)

\* my_write_literal(data, len, location).  data is dereferenced after the
\* transfer; the client means the value it points to at the call.
MyWriteLiteral(data, location) ==
  /\ ~ub
  /\ SlotUsable
  /\ nvm' = StartNvm
  /\ cmtq' = [cmtq EXCEPT ![StartSlot] =
                [data     |-> Deref(data, cmtq, StartNvm),
                 write_to |-> location,
                 txid     |-> curtxid]]
  /\ PJLArray' = JLI(StartJudy, location, StartSlot)
  /\ giter' = StartSlot + 1
  /\ stale' = FALSE
  /\ latest' = [latest EXCEPT ![location] = Deref(data, cmtq, nvm)]
  /\ UNCHANGED <<qlen, dirties, curtxid, ub>>

\* my_write_literal through an iterator past the end or over a freed map.
MyWriteLiteralUndefined ==
  /\ ~ub
  /\ ~SlotUsable
  /\ ub' = TRUE
  /\ UNCHANGED <<cmtq, qlen, giter, stale, PJLArray, dirties, curtxid, nvm, latest>>

\* The fetch-and-add on the byte of a bool, repeated until it returns non-zero.
Bump(byte) == IF byte = 0 THEN 2 ELSE (byte + 1) % BYTE

\* my_write(data, len, location): a slot at the back of the queue that names
\* the location; the data is not copied and the array gets no entry.  The
\* push_back may move the node map of the deque away from under giter.
MyWrite(location) ==
  /\ ~ub
  /\ qlen < QMAX
  /\ cmtq' = [s \in 0 .. qlen |->
                IF s = qlen THEN [data |-> NULL, write_to |-> location, txid |-> 0]
                            ELSE cmtq[s]]
  /\ qlen' = qlen + 1
  /\ stale' \in {stale, TRUE}
  /\ IF HashAddr[location] < SIZE
       THEN /\ dirties' = [dirties EXCEPT ![HashAddr[location]] = Bump(@)]
            /\ ub' = FALSE
       ELSE /\ dirties' = dirties      \* one past the end of the array
            /\ ub' = TRUE
  /\ UNCHANGED <<giter, PJLArray, curtxid, nvm, latest>>

\* my_txend.
MyTxend ==
  /\ ~ub
  /\ curtxid < TXMAX
  /\ curtxid' = curtxid + 1
  /\ UNCHANGED <<cmtq, qlen, giter, stale, PJLArray, dirties, nvm, ub, latest>>

\* For mutation: the queue is cleared without the transfer.
MyFinishOnlyClears ==
  /\ ~ub
  /\ cmtq' = [s \in {} |-> 0]
  /\ qlen' = 0
  /\ UNCHANGED <<giter, stale, PJLArray, dirties, curtxid, nvm, ub, latest>>

\* my_finish: my_xfer, then cmtq.clear().
MyFinish ==
  /\ ~ub
  /\ nvm' = Transferred
  /\ giter' = 0
  /\ stale' = FALSE
  /\ PJLArray' = EmptyJudy
  /\ cmtq' = [s \in {} |-> 0]
  /\ qlen' = 0
  /\ UNCHANGED <<dirties, curtxid, ub, latest>>

\* For mutation: the read leads to the slot giter is at.
MyReadAtIter(location) == InSlot(StartSlot)

\* my_read(location): no state of the buffer changes; the client gets a
\* pointer.
MyRead(location) ==
  LET i == JLL(PJLArray, location)
  IN  IF i # NoIndex THEN InSlot(PJLArray[i]) ELSE InNvm(location)

-----------------------------------------------------------------------------
(***************************************************************************)
(* Two clients.  Both pass my_write_literal the address of a variable of   *)
(* their own, as vecs.cc, buffer_btree.cc and buffer_hash.cc do; the       *)
(* client that passes pointers my_read returned is in BufferSps.           *)
(***************************************************************************)
LiteralNext ==
  \/ \E v \in Val, l \in Location : MyWriteLiteral(Local(v), l)
  \/ MyWriteLiteralUndefined
  \/ MyXfer
  \/ MyTxend

\* Any sequence of calls of the rt_mem_t interface.
Next ==
  \/ LiteralNext
  \/ \E l \in Location : MyWrite(l)
  \/ MyFinish

Spec == Init /\ [][Next]_vars
LiteralSpec == Init /\ [][LiteralNext]_vars

-----------------------------------------------------------------------------
\* The value of a location as the buffer records it.
View ==
  [l \in Location |-> IF l \in DOMAIN PJLArray THEN cmtq[PJLArray[l]].data ELSE nvm[l]]

\* The slots written since the last transfer.
Used == 0 .. giter - 1

TypeOK ==
  /\ qlen \in 0 .. QMAX
  /\ cmtq \in [0 .. qlen - 1 -> SlotRecord]
  /\ giter \in 0 .. qlen
  /\ stale \in BOOLEAN
  /\ DOMAIN PJLArray \subseteq Location
  /\ \A l \in DOMAIN PJLArray : PJLArray[l] \in 0 .. qlen - 1
  /\ dirties \in [0 .. SIZE - 1 -> 0 .. BYTE - 1]
  /\ curtxid \in 0 .. TXMAX
  /\ nvm \in [Location -> Val]
  /\ ub \in BOOLEAN
  /\ latest \in [Location -> Val]

\* The array and the queue agree: a location is indexed exactly when a slot
\* of this batch names it, and the index leads to the newest such slot.  So a
\* transfer skips no write and never copies an older write over a newer one
\* (my_write_literal, my_xfer).
IndexIsNewest ==
  /\ DOMAIN PJLArray = {cmtq[s].write_to : s \in Used}
  /\ \A l \in DOMAIN PJLArray :
       /\ PJLArray[l] \in Used
       /\ cmtq[PJLArray[l]].write_to = l
       /\ \A s \in Used : cmtq[s].write_to = l => s <= PJLArray[l]

\* No my_write_literal is lost or overtaken, whatever transfers, wraps of the
\* queue and my_write calls come between: what the buffer and the NVM record
\* together is what the client last wrote.
NoLostWrite == View = latest

\* my_read is right for an address that is buffered, and for one below every
\* buffered address: there the client reads its last write.
ReadExactOrBelow ==
  \A l \in Location :
    (l \in DOMAIN PJLArray \/ \A k \in DOMAIN PJLArray : l < k)
      => Deref(MyRead(l), cmtq, nvm) = latest[l]

\* The NVM changes only to become the image of every write issued before the
\* call that changed it: never a mixture, never an older image (my_xfer, also
\* when my_write_literal calls it).
NvmStepsToSnapshot == [][nvm' # nvm => nvm' = latest]_vars

\* A client that only uses my_write_literal, my_xfer and my_txend always finds
\* a slot that exists, through any number of wraps, and reaches no operation
\* with undefined behaviour.
NoUndefined == ~ub /\ SlotUsable

\* The buffer implements the memory that is written at once and copied to the
\* NVM in batches, at most QMAX writes late.
PM == INSTANCE PersistentMemory WITH mem <- View, pending <- giter, Cap <- QMAX
ImplementsPersistentMemory == PM!Spec

\* The buffer without its queue and slots.
AsCache == [cache   |-> [l \in DOMAIN PJLArray |-> cmtq[PJLArray[l]].data],
            nvm     |-> nvm,
            pending |-> giter]
Literal == INSTANCE LiteralBuffer WITH SLOTS <- SIZE, buf <- AsCache

\* A client of my_write_literal, my_xfer and my_txend cannot tell the buffer
\* from a cache with SIZE writes between two transfers: transfers fall exactly
\* where the queue ends, whatever the client does.
ImplementsLiteralBuffer == Literal!Spec
=============================================================================
