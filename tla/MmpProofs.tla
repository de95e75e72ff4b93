----------------------------- MODULE MmpProofs ------------------------------
(***************************************************************************)
(* The write buffer (MmpUser), and after it the two modules that extend    *)
(* it: the transfer that is seen entry by entry (MmpXfer), and the swaps   *)
(* of an array through pointers of my_read (BufferSps).  All three rest on *)
(* one invariant, that of the buffer.                                      *)
(***************************************************************************)
EXTENDS MmpXfer, BufferSps, WellFoundedInduction, TLAPS

-----------------------------------------------------------------------------
(***************************************************************************)
(* What is true of MmpUser for every set of locations, every value set and *)
(* every size of the queue.                                                *)
(*                                                                         *)
(* The argument has one idea: while the array leads from a location to the *)
(* newest slot that names it (IndexIsNewest), a transfer writes to the NVM *)
(* exactly what the buffer recorded (TransferredIsView), so neither a      *)
(* transfer nor a write can change what a location is recorded to hold     *)
(* except as the client asked.  And while giter counts the writes of a     *)
(* batch, a client of my_write_literal sees a cache and no queue           *)
(* (BufferImplementsCache).                                                *)
(***************************************************************************)

\* The invariant that is inductive: the type of nvm after a transfer rests on
\* NoLostWrite, and NoLostWrite rests on IndexIsNewest.
IInv == TypeOK /\ IndexIsNewest /\ NoLostWrite

-----------------------------------------------------------------------------
\* The greatest element of a set of numbers is the one Max chooses.
LEMMA MaxIs ==
  ASSUME NEW S, S \subseteq Int, NEW m \in S, \A i \in S : i <= m
  PROVE  Max(S) = m
<1>1. m \in S /\ \A i \in S : m >= i
  OBVIOUS
<1>2. \A n \in S : (\A i \in S : n >= i) => n = m
  OBVIOUS
<1>3. Max(S) \in S /\ \A i \in S : Max(S) >= i
  BY <1>1, Zenon DEF Max
<1> QED
  BY <1>2, <1>3

\* A set of naturals with a bound has a greatest element.
LEMMA MaxExists ==
  ASSUME NEW S, S \subseteq Nat, S # {}, NEW b \in Nat, \A i \in S : i <= b
  PROVE  Max(S) \in S /\ \A i \in S : i <= Max(S)
<1> DEFINE below == {b - i : i \in S}
<1>1. below \subseteq Nat /\ below # {}
  <2>1. \A i \in S : i \in Nat /\ b - i \in Nat
    OBVIOUS
  <2> QED
    BY <2>1, Zenon
<1>2. PICK n \in below : \A m \in below : n <= m
  <2>1. PICK n \in below : \A m \in below : ~(<<m, n>> \in OpToRel(<, Nat))
    BY <1>1, NatLessThanWellFounded, WFMin
  <2> QED
    <3>1. \A m \in below : ~(m < n)
      BY <1>1, <2>1 DEF OpToRel
    <3>2. \A m \in below : m \in Nat
      BY <1>1
    <3> HIDE DEF below
    <3>3. \A m \in below : n <= m
      BY <3>1, <3>2
    <3> QED
      BY <3>3, Zenon
<1>3. b - n \in S /\ \A i \in S : i <= b - n
  BY <1>2
<1>4. Max(S) = b - n
  <2>1. S \subseteq Int
    OBVIOUS
  <2> QED
    BY <1>3, <2>1, MaxIs
<1> QED
  BY <1>3, <1>4

\* What the copy loop of my_xfer leaves in the NVM is what the array and the
\* queue recorded: each address is written once, from its newest slot.
LEMMA TransferredIsRecorded ==
  ASSUME DOMAIN PJLArray \subseteq Location, IndexIsNewest
  PROVE  Transferred = View
<1>1. SUFFICES ASSUME NEW l \in Location
               PROVE  Transferred[l] = View[l]
  BY DEF Transferred, View
<1>2. DOMAIN PJLArray \subseteq Int
  <2>1. Location \subseteq Int
    BY LocationAssumption
  <2> QED
    BY <2>1
<1> DEFINE into == {i \in DOMAIN PJLArray : cmtq[PJLArray[i]].write_to = l}
<1>3. CASE l \in DOMAIN PJLArray
  <2>1. into = {l}
    BY <1>3 DEF IndexIsNewest
  <2>2. Max(into) = l
    BY <1>2, <1>3, <2>1, MaxIs
  <2> QED
    BY <1>3, <2>1, <2>2 DEF Transferred, View
<1>4. CASE l \notin DOMAIN PJLArray
  <2>1. into = {}
    BY <1>4 DEF IndexIsNewest
  <2> QED
    BY <1>4, <2>1 DEF Transferred, View
<1> QED
  BY <1>3, <1>4

LEMMA TransferredIsView ==
  ASSUME TypeOK, IndexIsNewest
  PROVE  Transferred = View
  BY TransferredIsRecorded DEF TypeOK

\* So a transfer brings the NVM to the last value of every location.
LEMMA TransferredIsLatest ==
  ASSUME IInv
  PROVE  Transferred = latest
  BY TransferredIsView DEF IInv, NoLostWrite

-----------------------------------------------------------------------------
\* The state internal_init leaves satisfies the invariant.
LEMMA InitIInv == Init => IInv
<1> SUFFICES ASSUME Init PROVE IInv
  OBVIOUS
<1> USE SizeAssumption, ByteAssumption, BoundAssumption DEF Init, EmptyJudy
<1>1. Used = {}
  BY DEF Used
<1>2. TypeOK
  BY DEF TypeOK, SlotRecord
<1>3. IndexIsNewest
  BY <1>1 DEF IndexIsNewest
<1>4. NoLostWrite
  BY DEF NoLostWrite, View
<1> QED
  BY <1>2, <1>3, <1>4 DEF IInv

-----------------------------------------------------------------------------
\* A transfer keeps the invariant and rewinds.
LEMMA MyXferIInv == IInv /\ MyXfer => IInv'
<1> SUFFICES ASSUME IInv, MyXfer PROVE IInv'
  OBVIOUS
<1>1. nvm' = latest' /\ latest' \in [Location -> Val]
  BY TransferredIsLatest DEF MyXfer, IInv, TypeOK
<1>2. giter' = 0 /\ Used' = {} /\ PJLArray' = EmptyJudy
  BY DEF MyXfer, Used
<1>3. TypeOK'
  <2>1. /\ DOMAIN PJLArray' \subseteq Location
        /\ \A l \in DOMAIN PJLArray' : PJLArray'[l] \in 0 .. qlen' - 1
    BY <1>2 DEF EmptyJudy
  <2>2. UNCHANGED <<cmtq, qlen, dirties, curtxid, ub>> /\ stale' \in BOOLEAN
    BY DEF MyXfer
  <2> QED
    BY <1>1, <1>2, <2>1, <2>2 DEF IInv, TypeOK
<1>4. IndexIsNewest'
  BY <1>2 DEF IndexIsNewest, EmptyJudy
<1>5. NoLostWrite'
  BY <1>1, <1>2 DEF NoLostWrite, View, EmptyJudy
<1> QED
  BY <1>3, <1>4, <1>5 DEF IInv

\* my_finish is a transfer that also empties the queue.
LEMMA MyFinishIInv == IInv /\ MyFinish => IInv'
<1> SUFFICES ASSUME IInv, MyFinish PROVE IInv'
  OBVIOUS
<1>1. nvm' = latest' /\ latest' \in [Location -> Val]
  BY TransferredIsLatest DEF MyFinish, IInv, TypeOK
<1>2. giter' = 0 /\ Used' = {} /\ PJLArray' = EmptyJudy
  BY DEF MyFinish, Used
<1>3. TypeOK'
  <2>1. /\ DOMAIN PJLArray' \subseteq Location
        /\ \A l \in DOMAIN PJLArray' : PJLArray'[l] \in 0 .. qlen' - 1
    BY <1>2 DEF EmptyJudy
  <2>2. qlen' = 0 /\ cmtq' \in [0 .. qlen' - 1 -> SlotRecord]
    BY DEF MyFinish, SlotRecord
  <2>3. UNCHANGED <<dirties, curtxid, ub>> /\ stale' \in BOOLEAN
    BY DEF MyFinish
  <2> QED
    BY <1>1, <1>2, <2>1, <2>2, <2>3, BoundAssumption DEF IInv, TypeOK
<1>4. IndexIsNewest'
  BY <1>2 DEF IndexIsNewest, EmptyJudy
<1>5. NoLostWrite'
  BY <1>1, <1>2 DEF NoLostWrite, View, EmptyJudy
<1> QED
  BY <1>3, <1>4, <1>5 DEF IInv

\* my_write touches neither the slots of the batch nor the array.
LEMMA MyWriteIInv ==
  ASSUME NEW l \in Location, IInv, MyWrite(l)
  PROVE  IInv'
<1>1. UNCHANGED <<giter, PJLArray, curtxid, nvm, latest>>
  BY DEF MyWrite
<1>2. Used' = Used /\ Used \subseteq 0 .. qlen - 1
  BY <1>1 DEF Used, IInv, TypeOK
<1>3. \A s \in 0 .. qlen - 1 : cmtq'[s] = cmtq[s]
  BY DEF MyWrite, IInv, TypeOK
<1>4. TypeOK'
  <2>1. qlen' \in 0 .. QMAX /\ giter' \in 0 .. qlen'
    BY BoundAssumption DEF MyWrite, IInv, TypeOK
  <2>2. cmtq' \in [0 .. qlen' - 1 -> SlotRecord]
    BY DEF MyWrite, IInv, TypeOK, SlotRecord
  <2>3. dirties' \in [0 .. SIZE - 1 -> 0 .. BYTE - 1]
    <3>1. \A b \in 0 .. BYTE - 1 : Bump(b) \in 0 .. BYTE - 1
      BY ByteAssumption DEF Bump
    <3> QED
      BY <3>1 DEF MyWrite, IInv, TypeOK
  <2>4. \A i \in DOMAIN PJLArray' : PJLArray'[i] \in 0 .. qlen' - 1
    BY DEF MyWrite, IInv, TypeOK
  <2>5. stale' \in BOOLEAN /\ ub' \in BOOLEAN
    BY DEF MyWrite, IInv, TypeOK
  <2> QED
    BY <1>1, <2>1, <2>2, <2>3, <2>4, <2>5 DEF IInv, TypeOK
<1>5. \A s \in Used : cmtq'[s] = cmtq[s]
  BY <1>2, <1>3
<1>6. IndexIsNewest'
  <2>1. {cmtq'[s].write_to : s \in Used} = {cmtq[s].write_to : s \in Used}
    BY <1>5
  <2>2. \A i \in DOMAIN PJLArray : PJLArray[i] \in Used
    BY DEF IInv, IndexIsNewest
  <2> QED
    BY <1>1, <1>2, <1>5, <2>1, <2>2 DEF IInv, IndexIsNewest
<1>7. NoLostWrite'
  <2>1. \A i \in DOMAIN PJLArray : cmtq'[PJLArray[i]] = cmtq[PJLArray[i]]
    BY <1>5 DEF IInv, IndexIsNewest
  <2>2. View' = View
    BY <1>1, <2>1 DEF View
  <2> QED
    BY <1>1, <2>2 DEF IInv, NoLostWrite
<1> QED
  BY <1>4, <1>6, <1>7 DEF IInv

\* my_txend only moves the current transaction forward.
LEMMA MyTxendIInv == IInv /\ MyTxend => IInv'
<1> SUFFICES ASSUME IInv, MyTxend PROVE IInv'
  OBVIOUS
<1> USE DEF MyTxend
<1>1. TypeOK'
  BY BoundAssumption DEF IInv, TypeOK
<1>2. Used' = Used /\ Used \subseteq 0 .. qlen - 1
  BY DEF Used, IInv, TypeOK
<1>3. IndexIsNewest' /\ NoLostWrite'
  BY <1>2 DEF IInv, IndexIsNewest, NoLostWrite, View
<1> QED
  BY <1>1, <1>3 DEF IInv

-----------------------------------------------------------------------------
\* What the buffer records, whoever writes to it: the array leads to the newest
\* slots, and every location has a recorded object.
RecordInv == TypeOK /\ IndexIsNewest /\ View \in [Location -> Val]

LEMMA RecordsOfIInv == IInv => RecordInv
  BY DEF IInv, RecordInv, NoLostWrite, TypeOK

\* The transfer my_write_literal may begin with changes nothing that is
\* recorded, and leaves the array right for the slots before the one about to
\* be written.
LEMMA StartIsConsistent ==
  ASSUME RecordInv, SlotUsable
  PROVE  /\ StartSlot \in 0 .. qlen - 1
         /\ DOMAIN StartJudy \subseteq Location
         /\ DOMAIN StartJudy = {cmtq[s].write_to : s \in 0 .. StartSlot - 1}
         /\ \A i \in DOMAIN StartJudy :
              /\ StartJudy[i] \in 0 .. StartSlot - 1
              /\ cmtq[StartJudy[i]].write_to = i
              /\ cmtq[StartJudy[i]].data = View[i]
              /\ \A s \in 0 .. StartSlot - 1 : cmtq[s].write_to = i => s <= StartJudy[i]
         /\ \A i \in Location \ DOMAIN StartJudy : StartNvm[i] = View[i]
         /\ StartNvm \in [Location -> Val]
<1>1. CASE AtEnd
  <2>1. StartSlot = 0 /\ StartNvm = View /\ StartJudy = EmptyJudy
    BY <1>1, TransferredIsView DEF StartSlot, StartNvm, StartJudy, RecordInv
  <2>2. DOMAIN StartJudy = {} /\ 0 .. StartSlot - 1 = {}
    BY <2>1 DEF EmptyJudy
  <2> QED
    BY <2>1, <2>2 DEF SlotUsable, RecordInv, TypeOK
<1>2. CASE ~AtEnd
  <2>1. StartSlot = giter /\ StartNvm = nvm /\ StartJudy = PJLArray
    BY <1>2 DEF StartSlot, StartNvm, StartJudy
  <2>2. /\ \A i \in DOMAIN PJLArray : cmtq[PJLArray[i]].data = View[i]
        /\ \A i \in Location \ DOMAIN PJLArray : nvm[i] = View[i]
    BY DEF View, RecordInv, TypeOK
  <2>3. StartSlot \in 0 .. qlen - 1 /\ Used = 0 .. StartSlot - 1
    BY <2>1 DEF SlotUsable, RecordInv, TypeOK, Used
  <2>4. DOMAIN StartJudy \subseteq Location /\ StartNvm \in [Location -> Val]
    BY <2>1 DEF RecordInv, TypeOK
  <2>5. IndexIsNewest
    BY DEF RecordInv
  <2> QED
    BY <2>1, <2>2, <2>3, <2>4, <2>5 DEF IndexIsNewest
<1> QED
  BY <1>1, <1>2

\* my_write_literal records what its pointer shows after the transfer it may
\* begin with, and changes no other record.
LEMMA WriteRecords ==
  ASSUME NEW d, NEW l \in Location, RecordInv, MyWriteLiteral(d, l),
         Deref(d, cmtq, nvm) \in Val,
         Deref(d, cmtq, StartNvm) \in Val
  PROVE  /\ RecordInv'
         /\ View' = [View EXCEPT ![l] = Deref(d, cmtq, StartNvm)]
<1> DEFINE v    == Deref(d, cmtq, StartNvm)
           slot == [data |-> v, write_to |-> l, txid |-> curtxid]
<1>1. /\ nvm' = StartNvm
      /\ cmtq' = [cmtq EXCEPT ![StartSlot] = slot]
      /\ PJLArray' = JLI(StartJudy, l, StartSlot)
      /\ giter' = StartSlot + 1
      /\ UNCHANGED <<qlen, dirties, curtxid, ub>>
  BY DEF MyWriteLiteral
<1>2. stale' \in BOOLEAN /\ latest' \in [Location -> Val]
  BY DEF MyWriteLiteral, RecordInv, TypeOK
<1>3. v \in Val
  OBVIOUS
<1> HIDE DEF v
<1>4. SlotUsable
  BY DEF MyWriteLiteral
<1>5. /\ cmtq'[StartSlot] = slot
      /\ \A s \in 0 .. StartSlot - 1 : cmtq'[s] = cmtq[s]
      /\ Used' = 0 .. StartSlot
  BY <1>1, <1>4, StartIsConsistent DEF RecordInv, TypeOK, Used
<1>6. /\ DOMAIN PJLArray' = DOMAIN StartJudy \cup {l}
      /\ PJLArray'[l] = StartSlot
      /\ \A i \in DOMAIN StartJudy \ {l} : PJLArray'[i] = StartJudy[i]
  BY <1>1 DEF JLI
<1>7. TypeOK'
  <2>1. qlen' \in 0 .. QMAX /\ giter' \in 0 .. qlen'
    BY <1>1, <1>4, StartIsConsistent DEF RecordInv, TypeOK
  <2>2. cmtq' \in [0 .. qlen' - 1 -> SlotRecord]
    <3>1. slot \in SlotRecord
      BY <1>3 DEF SlotRecord, RecordInv, TypeOK
    <3> QED
      BY <1>1, <3>1 DEF RecordInv, TypeOK
  <2>3. DOMAIN PJLArray' \subseteq Location
    BY <1>4, <1>6, StartIsConsistent
  <2>4. \A i \in DOMAIN PJLArray' : PJLArray'[i] \in 0 .. qlen' - 1
    BY <1>1, <1>4, <1>6, StartIsConsistent DEF RecordInv, TypeOK
  <2>5. nvm' \in [Location -> Val]
    BY <1>1, <1>4, StartIsConsistent
  <2>6. UNCHANGED <<dirties, curtxid, ub>>
    BY <1>1
  <2> QED
    BY <1>2, <2>1, <2>2, <2>3, <2>4, <2>5, <2>6 DEF RecordInv, TypeOK
<1>8. IndexIsNewest'
  <2>1. DOMAIN PJLArray' = {cmtq'[s].write_to : s \in Used'}
    <3>1. {cmtq'[s].write_to : s \in 0 .. StartSlot}
             = {cmtq[s].write_to : s \in 0 .. StartSlot - 1} \cup {l}
      BY <1>4, <1>5, StartIsConsistent
    <3> QED
      BY <1>4, <1>5, <1>6, <3>1, StartIsConsistent
  <2>2. ASSUME NEW i \in DOMAIN PJLArray'
        PROVE  /\ PJLArray'[i] \in Used'
               /\ cmtq'[PJLArray'[i]].write_to = i
               /\ \A s \in Used' : cmtq'[s].write_to = i => s <= PJLArray'[i]
    <3>1. CASE i = l
      BY <1>4, <1>5, <1>6, <3>1, StartIsConsistent
    <3>2. CASE i \in DOMAIN StartJudy \ {l}
      BY <1>4, <1>5, <1>6, <3>2, StartIsConsistent
    <3> QED
      BY <1>6, <3>1, <3>2
  <2> QED
    BY <2>1, <2>2 DEF IndexIsNewest
<1>9. ASSUME NEW i \in Location
      PROVE  View'[i] = IF i = l THEN v ELSE View[i]
  <2>1. CASE i = l
    BY <1>1, <1>5, <1>6, <2>1 DEF View
  <2>2. CASE i \in DOMAIN StartJudy \ {l}
    <3>1. StartJudy[i] \in 0 .. StartSlot - 1 /\ cmtq[StartJudy[i]].data = View[i]
      BY <1>4, <2>2, StartIsConsistent
    <3>2. PJLArray'[i] = StartJudy[i] /\ i \in DOMAIN PJLArray'
      BY <1>6, <2>2
    <3>3. View'[i] = cmtq'[StartJudy[i]].data
      BY <3>2 DEF View
    <3> QED
      BY <1>5, <2>2, <3>1, <3>3
  <2>3. CASE i \notin DOMAIN StartJudy /\ i # l
    BY <1>1, <1>4, <1>6, <2>3, StartIsConsistent DEF View
  <2> QED
    BY <2>1, <2>2, <2>3
<1>10. View' = [View EXCEPT ![l] = v]
  <2>1. View' = [i \in Location |-> View'[i]] /\ View \in [Location -> Val]
    BY DEF View, RecordInv
  <2> QED
    BY <1>9, <2>1
<1>11. View' \in [Location -> Val]
  BY <1>3, <1>10 DEF RecordInv
<1> QED
  BY <1>7, <1>8, <1>10, <1>11 DEF RecordInv, v

\* So it keeps the invariant, whatever pointer it is given, as long as the
\* transfer it may begin with does not change what that pointer shows.
LEMMA MyWriteLiteralIInv ==
  ASSUME NEW d, NEW l \in Location, IInv, MyWriteLiteral(d, l),
         Deref(d, cmtq, nvm) \in Val,
         Deref(d, cmtq, StartNvm) = Deref(d, cmtq, nvm)
  PROVE  IInv'
<1>1. RecordInv' /\ View' = [View EXCEPT ![l] = Deref(d, cmtq, nvm)]
  BY RecordsOfIInv, WriteRecords
<1>2. latest' = [latest EXCEPT ![l] = Deref(d, cmtq, nvm)]
  BY DEF MyWriteLiteral
<1>3. NoLostWrite'
  BY <1>1, <1>2 DEF IInv, NoLostWrite
<1> QED
  BY <1>1, <1>3 DEF IInv, RecordInv

\* The pointer to a variable of the client's own shows the same object before
\* and after a transfer.
LEMMA MyWriteLocalIInv ==
  ASSUME NEW v \in Val, NEW l \in Location, IInv, MyWriteLiteral(Local(v), l)
  PROVE  IInv'
<1>1. \A memory : Deref(Local(v), cmtq, memory) = v
  BY DEF Deref, Local
<1> QED
  BY <1>1, MyWriteLiteralIInv

\* Calls that change nothing but the undefined-behaviour mark, and no call.
LEMMA OtherIInv ==
  IInv /\ (MyWriteLiteralUndefined \/ UNCHANGED vars) => IInv'
<1> SUFFICES ASSUME IInv, MyWriteLiteralUndefined \/ UNCHANGED vars PROVE IInv'
  OBVIOUS
<1>1. UNCHANGED <<cmtq, qlen, giter, stale, PJLArray, dirties, curtxid, nvm, latest>>
  BY DEF MyWriteLiteralUndefined, vars
<1>2. ub' \in BOOLEAN
  BY DEF MyWriteLiteralUndefined, vars, IInv, TypeOK
<1>3. TypeOK'
  BY <1>1, <1>2 DEF IInv, TypeOK
<1>4. IndexIsNewest' /\ NoLostWrite'
  BY <1>1 DEF IInv, IndexIsNewest, NoLostWrite, View, Used
<1> QED
  BY <1>3, <1>4 DEF IInv

LEMMA NextIInv == IInv /\ [Next]_vars => IInv'
<1> SUFFICES ASSUME IInv, [Next]_vars PROVE IInv'
  OBVIOUS
<1>1. ASSUME NEW v \in Val, NEW l \in Location, MyWriteLiteral(Local(v), l)
      PROVE  IInv'
  BY <1>1, MyWriteLocalIInv
<1>2. CASE MyWriteLiteralUndefined
  BY <1>2, OtherIInv
<1>3. CASE MyXfer
  BY <1>3, MyXferIInv
<1>4. CASE MyTxend
  BY <1>4, MyTxendIInv
<1>5. ASSUME NEW l \in Location, MyWrite(l) PROVE IInv'
  BY <1>5, MyWriteIInv
<1>6. CASE MyFinish
  BY <1>6, MyFinishIInv
<1>7. CASE UNCHANGED vars
  BY <1>7, OtherIInv
<1> QED
  BY <1>1, <1>2, <1>3, <1>4, <1>5, <1>6, <1>7 DEF Next, LiteralNext

-----------------------------------------------------------------------------
\* Every behaviour of the buffer under any sequence of its calls keeps the
\* inductive invariant.
THEOREM BufferInvariant == Spec => []IInv
<1> QED
  BY InitIInv, NextIInv, PTL DEF Spec

\* The queue, the array, the counters and the NVM keep their types.
THEOREM BufferTypes == Spec => []TypeOK
<1>1. IInv => TypeOK
  BY DEF IInv
<1> QED
  BY <1>1, BufferInvariant, PTL

\* A location is indexed exactly when a slot of the batch names it, and the
\* array leads to the newest such slot.
THEOREM BufferIndex == Spec => []IndexIsNewest
<1>1. IInv => IndexIsNewest
  BY DEF IInv
<1> QED
  BY <1>1, BufferInvariant, PTL

\* The buffer and the NVM together always hold the client's last write to
\* every location: a transfer, the wrap of the queue or a my_write in between
\* loses nothing.
THEOREM NothingIsLost == Spec => []NoLostWrite
<1>1. IInv => NoLostWrite
  BY DEF IInv
<1> QED
  BY <1>1, BufferInvariant, PTL

\* The NVM only ever steps to the image of everything written so far.
THEOREM NvmIsASnapshot == Spec => NvmStepsToSnapshot
<1>1. IInv /\ [Next]_vars => [nvm' # nvm => nvm' = latest]_vars
  <2> SUFFICES ASSUME IInv, Next, nvm' # nvm PROVE nvm' = latest
    OBVIOUS
  <2>1. nvm' = Transferred \/ nvm' = nvm
    BY DEF Next, LiteralNext, MyWriteLiteral, MyWriteLiteralUndefined, MyXfer,
           MyTxend, MyWrite, MyFinish, StartNvm
  <2> QED
    BY <2>1, TransferredIsLatest
<1> QED
  BY <1>1, BufferInvariant, PTL DEF Spec, NvmStepsToSnapshot

-----------------------------------------------------------------------------
\* my_read of a buffered address returns its newest slot, and of an address
\* below every buffered one the NVM itself: both show the last write.
LEMMA ReadFromInvariant == IInv => ReadExactOrBelow
<1> SUFFICES ASSUME IInv,
                    NEW l \in Location,
                    l \in DOMAIN PJLArray \/ \A k \in DOMAIN PJLArray : l < k
             PROVE  Deref(MyRead(l), cmtq, nvm) = latest[l]
  BY DEF ReadExactOrBelow
<1> DEFINE found == {i \in DOMAIN PJLArray : i <= l}
<1>1. \A i \in DOMAIN PJLArray : i \in Int
  <2>1. \A i \in DOMAIN PJLArray : i \in Location
    BY DEF IInv, TypeOK
  <2>2. \A i \in Location : i \in Int
    BY LocationAssumption
  <2> QED
    BY <2>1, <2>2, Zenon
<1>2. l \in Nat
  BY LocationAssumption
<1>3. View[l] = latest[l]
  BY DEF IInv, NoLostWrite
<1>4. CASE l \in DOMAIN PJLArray
  <2>1. found \subseteq Int /\ l \in found /\ \A i \in found : i <= l
    BY <1>1, <1>2, <1>4
  <2>2. Max(found) = l
    BY <2>1, MaxIs
  <2>3. JLL(PJLArray, l) = l
    BY <2>1, <2>2 DEF JLL
  <2>4. MyRead(l) = InSlot(PJLArray[l])
    BY <1>2, <2>3 DEF MyRead, NoIndex
  <2> QED
    BY <1>3, <1>4, <2>4 DEF Deref, InSlot, View
<1>5. CASE \A k \in DOMAIN PJLArray : l < k
  <2>1. found = {} /\ l \notin DOMAIN PJLArray
    BY <1>1, <1>2, <1>5
  <2>2. JLL(PJLArray, l) = NoIndex
    BY <2>1 DEF JLL
  <2>3. MyRead(l) = InNvm(l)
    BY <2>2 DEF MyRead
  <2> QED
    BY <1>3, <2>1, <2>3 DEF Deref, InNvm, View
<1> QED
  BY <1>4, <1>5

\* What my_read can be relied on for, in every reachable state.
THEOREM ReadsExactOrBelow == Spec => []ReadExactOrBelow
  BY ReadFromInvariant, BufferInvariant, PTL

\* What my_read leads to is what the cache of BufferImplementsCache loads, for
\* any address: so a client may be composed with LiteralBuffer.
LEMMA ReadIsLoad ==
  IInv => \A l \in Location : Deref(MyRead(l), cmtq, nvm) = Literal!Load(AsCache, l)
<1> SUFFICES ASSUME IInv, NEW l \in Location
             PROVE  Deref(MyRead(l), cmtq, nvm) = Literal!Load(AsCache, l)
  OBVIOUS
<1> DEFINE found == {i \in DOMAIN PJLArray : i <= l}
<1>1. DOMAIN AsCache.cache = DOMAIN PJLArray /\ AsCache.nvm = nvm
  BY DEF AsCache
<1>2. found \subseteq Nat /\ l \in Nat
  BY LocationAssumption DEF IInv, TypeOK
<1>3. CASE found = {}
  <2>1. MyRead(l) = InNvm(l)
    BY <1>3 DEF MyRead, JLL
  <2>2. Literal!Load(AsCache, l) = nvm[l]
    BY <1>1, <1>3 DEF Literal!Load
  <2> QED
    BY <2>1, <2>2 DEF Deref, InNvm
<1>4. CASE found # {}
  <2>1. Max(found) \in found /\ Max(found) # NoIndex
    BY <1>2, <1>4, MaxExists DEF NoIndex
  <2>2. MyRead(l) = InSlot(PJLArray[Max(found)])
    BY <1>4, <2>1 DEF MyRead, JLL
  <2>3. Literal!Load(AsCache, l) = AsCache.cache[Max(found)]
    BY <1>1, <1>4, Zenon DEF Literal!Load, Literal!Max, Max
  <2>4. AsCache.cache[Max(found)] = cmtq[PJLArray[Max(found)]].data
    BY <2>1 DEF AsCache
  <2> QED
    BY <2>2, <2>3, <2>4 DEF Deref, InSlot
<1> QED
  BY <1>3, <1>4

-----------------------------------------------------------------------------
\* The queue keeps its length and giter stays on a live map while the client
\* only writes with my_write_literal.
LiteralInv ==
  /\ ub = FALSE
  /\ stale = FALSE
  /\ qlen = SIZE
  /\ giter \in 0 .. SIZE

\* It does so whatever pointer my_write_literal is given.
LEMMA WriteStaysInQueue ==
  ASSUME LiteralInv, NEW d, NEW l, MyWriteLiteral(d, l)
  PROVE  LiteralInv'
<1>1. StartSlot \in 0 .. SIZE - 1
  BY SizeAssumption DEF LiteralInv, StartSlot, AtEnd
<1>2. giter' \in 0 .. SIZE
  BY <1>1, SizeAssumption DEF MyWriteLiteral
<1>3. UNCHANGED <<qlen, ub>> /\ stale' = FALSE
  BY DEF MyWriteLiteral
<1> QED
  BY <1>2, <1>3, Zenon DEF LiteralInv

LEMMA LiteralStep == LiteralInv /\ [LiteralNext]_vars => LiteralInv'
<1> SUFFICES ASSUME LiteralInv, [LiteralNext]_vars PROVE LiteralInv'
  OBVIOUS
<1>1. SlotUsable
  BY SizeAssumption DEF LiteralInv, SlotUsable, StartSlot, AtEnd
<1>2. ASSUME NEW v \in Val, NEW l \in Location, MyWriteLiteral(Local(v), l)
      PROVE  LiteralInv'
  BY <1>2, WriteStaysInQueue
<1>3. ~MyWriteLiteralUndefined
  BY <1>1 DEF MyWriteLiteralUndefined
<1>4. CASE MyXfer
  BY <1>4, SizeAssumption DEF LiteralInv, MyXfer
<1>5. CASE MyTxend
  BY <1>5 DEF LiteralInv, MyTxend
<1>6. CASE UNCHANGED vars
  BY <1>6 DEF LiteralInv, vars
<1> QED
  BY <1>2, <1>3, <1>4, <1>5, <1>6 DEF LiteralNext

LEMMA LiteralInvariant == LiteralSpec => []LiteralInv
<1>1. Init => LiteralInv
  BY SizeAssumption DEF Init, LiteralInv
<1> QED
  BY <1>1, LiteralStep, PTL DEF LiteralSpec

\* A client of my_write_literal, my_xfer and my_txend alone always finds a slot
\* that exists to write to, however often the queue wraps.
THEOREM LiteralNeverUndefined == LiteralSpec => []NoUndefined
<1>1. LiteralInv => NoUndefined
  BY SizeAssumption DEF LiteralInv, NoUndefined, SlotUsable, StartSlot, AtEnd
<1> QED
  BY <1>1, LiteralInvariant, PTL

-----------------------------------------------------------------------------
\* A transfer of the buffer is one of the cache.
LEMMA TransferIsTransfer ==
  ASSUME IInv
  PROVE  Literal!Transfer(AsCache) = [cache |-> [l \in {} |-> 0], nvm |-> Transferred, pending |-> 0]
<1>1. Literal!View(AsCache) = View
  BY DEF Literal!View, View, AsCache
<1>2. Transferred = View
  BY TransferredIsView DEF IInv
<1> QED
  BY <1>1, <1>2 DEF Literal!Transfer, Literal!InitialBuffer

\* my_write_literal stores in the cache, after a transfer exactly when SIZE
\* writes are pending.
LEMMA WriteIsStore ==
  ASSUME IInv, LiteralInv, NEW v \in Val, NEW l \in Location, MyWriteLiteral(Local(v), l)
  PROVE  AsCache' = Literal!Store(AsCache, l, v)
<1> DEFINE ready == Literal!WithRoom(AsCache)
<1>1. /\ DOMAIN ready.cache = DOMAIN StartJudy
      /\ \A k \in DOMAIN StartJudy : ready.cache[k] = cmtq[StartJudy[k]].data
      /\ \A k \in DOMAIN StartJudy : StartJudy[k] \in 0 .. StartSlot - 1
      /\ ready.nvm = StartNvm
      /\ ready.pending = StartSlot
  <2>1. CASE AtEnd
    <3>1. ready = Literal!Transfer(AsCache)
      BY <2>1 DEF AtEnd, LiteralInv, Literal!WithRoom, AsCache
    <3> QED
      BY <2>1, <3>1, TransferIsTransfer DEF StartJudy, StartNvm, StartSlot, EmptyJudy
  <2>2. CASE ~AtEnd
    <3>1. ready = AsCache
      BY <2>2 DEF AtEnd, LiteralInv, Literal!WithRoom, AsCache
    <3>2. \A k \in DOMAIN PJLArray : PJLArray[k] \in 0 .. giter - 1
      BY DEF IInv, IndexIsNewest, Used
    <3> QED
      BY <2>2, <3>1, <3>2 DEF StartJudy, StartNvm, StartSlot, AsCache
  <2> QED
    BY <2>1, <2>2
<1>2. /\ PJLArray' = [k \in DOMAIN StartJudy \cup {l} |-> IF k = l THEN StartSlot ELSE StartJudy[k]]
      /\ nvm' = StartNvm
      /\ giter' = StartSlot + 1
  BY DEF MyWriteLiteral, JLI
<1>3. StartSlot \in DOMAIN cmtq /\ StartSlot \in Int
  BY SizeAssumption DEF IInv, TypeOK, LiteralInv, StartSlot, AtEnd
<1>4. /\ cmtq'[StartSlot].data = v
      /\ \A s \in 0 .. StartSlot - 1 : cmtq'[s] = cmtq[s]
  <2>1. cmtq' = [cmtq EXCEPT ![StartSlot] = [data |-> v, write_to |-> l, txid |-> curtxid]]
    BY DEF MyWriteLiteral, Deref, Local
  <2>2. \A s \in 0 .. StartSlot - 1 : s # StartSlot /\ s \in DOMAIN cmtq
    BY <1>3, SizeAssumption DEF IInv, TypeOK, LiteralInv
  <2> QED
    BY <1>3, <2>1, <2>2
<1>5. \A k \in DOMAIN PJLArray' :
        cmtq'[PJLArray'[k]].data = IF k = l THEN v ELSE ready.cache[k]
  BY <1>1, <1>2, <1>4
<1>6. AsCache'.cache = [k \in DOMAIN ready.cache \cup {l} |-> IF k = l THEN v ELSE ready.cache[k]]
  BY <1>1, <1>2, <1>5 DEF AsCache
<1>7. AsCache'.nvm = ready.nvm /\ AsCache'.pending = ready.pending + 1
  BY <1>1, <1>2 DEF AsCache
<1>8. AsCache' = [cache   |-> [k \in DOMAIN ready.cache \cup {l} |->
                                IF k = l THEN v ELSE ready.cache[k]],
                 nvm     |-> ready.nvm,
                 pending |-> ready.pending + 1]
  BY <1>6, <1>7 DEF AsCache
<1> QED
  BY <1>8, Zenon DEF Literal!Store

\* To a client of my_write_literal, my_xfer, my_txend and my_read the buffer is
\* a cache with SIZE writes between two transfers.
THEOREM BufferImplementsCache == LiteralSpec => ImplementsLiteralBuffer
<1>1. Init => Literal!Init
  <2> SUFFICES ASSUME Init PROVE Literal!Init
    OBVIOUS
  <2>1. AsCache = Literal!InitialBuffer(nvm)
    BY DEF Init, EmptyJudy, AsCache, Literal!InitialBuffer
  <2> QED
    BY <2>1 DEF Init, Literal!Init
<1>2. IInv /\ LiteralInv /\ [LiteralNext]_vars => [Literal!Next]_AsCache
  <2> SUFFICES ASSUME IInv, LiteralInv, [LiteralNext]_vars
               PROVE  Literal!Next \/ AsCache' = AsCache
    OBVIOUS
  <2>1. ASSUME NEW v \in Val, NEW l \in Location, MyWriteLiteral(Local(v), l)
        PROVE  Literal!Next
    BY <2>1, WriteIsStore DEF Literal!Next
  <2>2. CASE MyXfer
    <3>1. AsCache' = [cache |-> [l \in {} |-> 0], nvm |-> Transferred, pending |-> 0]
      BY <2>2 DEF MyXfer, AsCache, EmptyJudy
    <3> QED
      BY <3>1, TransferIsTransfer DEF Literal!Next
  <2>3. CASE MyWriteLiteralUndefined \/ MyTxend \/ UNCHANGED vars
    BY <2>3 DEF MyWriteLiteralUndefined, MyTxend, vars, AsCache
  <2> QED
    BY <2>1, <2>2, <2>3 DEF LiteralNext
<1>3. [LiteralNext]_vars => [Next]_vars
  BY DEF Next
<1> QED
  BY <1>1, <1>2, <1>3, BufferInvariant, LiteralInvariant, PTL
     DEF Spec, LiteralSpec, ImplementsLiteralBuffer, Literal!Spec

-----------------------------------------------------------------------------
\* A write that only goes into the buffer is a remembered write of the
\* abstract memory; one that had to transfer first copies all earlier writes
\* to the NVM.
LEMMA MyWriteLiteralImplements ==
  ASSUME NEW v \in Val, NEW l \in Location, IInv, MyWriteLiteral(Local(v), l)
  PROVE  PM!Write(l, v)
<1>1. IInv' /\ View = latest /\ View' = latest'
  BY MyWriteLocalIInv DEF IInv, NoLostWrite
<1>2. latest' = [latest EXCEPT ![l] = v]
  BY DEF MyWriteLiteral, Deref, Local
<1>3. View' = [View EXCEPT ![l] = v]
  BY <1>1, <1>2
<1>4. CASE AtEnd
  <2>1. nvm' = View /\ giter' = 1
    BY <1>1, <1>4, TransferredIsLatest DEF MyWriteLiteral, StartNvm, StartSlot
  <2> QED
    BY <1>3, <2>1 DEF PM!Write
<1>5. CASE ~AtEnd
  <2>1. nvm' = nvm /\ giter' = giter + 1
    BY <1>5 DEF MyWriteLiteral, StartNvm, StartSlot
  <2>2. giter < QMAX
    BY <1>5, BoundAssumption DEF AtEnd, IInv, TypeOK
  <2> QED
    BY <1>3, <2>1, <2>2 DEF PM!Write
<1> QED
  BY <1>4, <1>5

\* my_xfer and my_finish are the Flush of the abstract memory.
LEMMA TransferImplements ==
  ASSUME IInv, MyXfer \/ MyFinish
  PROVE  PM!Flush
<1>1. View' = latest'
  BY MyXferIInv, MyFinishIInv DEF IInv, NoLostWrite
<1>2. View = latest
  BY DEF IInv, NoLostWrite
<1>3. nvm' = Transferred /\ giter' = 0 /\ latest' = latest
  BY DEF MyXfer, MyFinish
<1> QED
  BY <1>1, <1>2, <1>3, TransferredIsLatest DEF PM!Flush

\* The buffer is an implementation of the memory its clients believe in:
\* written at once, copied to the NVM in batches, never more than QMAX writes late.
THEOREM BufferImplementsMemory == Spec => ImplementsPersistentMemory
<1>1. Init => PM!Init
  BY DEF Init, EmptyJudy, View, PM!Init
<1>2. IInv /\ [Next]_vars => [PM!Next]_PM!memvars
  <2> SUFFICES ASSUME IInv, [Next]_vars PROVE PM!Next \/ UNCHANGED PM!memvars
    OBVIOUS
  <2>1. ASSUME NEW v \in Val, NEW l \in Location, MyWriteLiteral(Local(v), l)
        PROVE  PM!Next
    BY <2>1, MyWriteLiteralImplements DEF PM!Next
  <2>2. CASE MyXfer \/ MyFinish
    BY <2>2, TransferImplements DEF PM!Next
  <2>3. ASSUME UNCHANGED <<nvm, giter, latest>>
        PROVE  UNCHANGED PM!memvars
    <3>1. View' = View
      BY <2>3, NextIInv DEF IInv, NoLostWrite
    <3> QED
      BY <2>3, <3>1 DEF PM!memvars
  <2>4. CASE MyWriteLiteralUndefined \/ MyTxend \/ UNCHANGED vars
    BY <2>3, <2>4 DEF MyWriteLiteralUndefined, MyTxend, vars
  <2>5. ASSUME NEW l \in Location, MyWrite(l)
        PROVE  UNCHANGED PM!memvars
    BY <2>3, <2>5 DEF MyWrite
  <2> QED
    BY <2>1, <2>2, <2>4, <2>5 DEF Next, LiteralNext
<1> QED
  BY <1>1, <1>2, BufferInvariant, PTL DEF Spec, ImplementsPersistentMemory, PM!Spec

-----------------------------------------------------------------------------
(***************************************************************************)
(* The transfer of MmpXfer, entry by entry, for every set of locations,    *)
(* every value set and every size of the queue: that its steps together    *)
(* are the one step MmpUser has for it, that it can be run again, and what *)
(* a crash finds.                                                          *)
(*                                                                         *)
(* The argument: with the memory as it was before the loop, the invariant  *)
(* of MmpUser holds inside the loop as well (BufferInv), because the loop  *)
(* touches neither the queue nor the array; and the loop has written every *)
(* address of the array it has passed and no other (LoopWrote).  When no   *)
(* entry is left it has therefore written what the buffer recorded, which  *)
(* is the client's last write of every location.  What the memory holds at *)
(* any time, and so what a line written back takes along, is therefore an  *)
(* object of the end of some batch, or the last write of an address the    *)
(* loop has passed (CrashInv).                                             *)
(***************************************************************************)

\* The invariant of the buffer, with the NVM as the caller will find it.
BufferInv == Buffer!TypeOK /\ Buffer!IndexIsNewest /\ Buffer!NoLostWrite

CallerInv ==
  /\ at \in {"client", "copy", "wait", "write"}
  /\ call \in {NoCall} \cup [data : Val, location : Location]
  /\ at = "write" => call # NoCall /\ giter = 0

\* The loop has written the addresses it has passed.
LoopWrote == \A l \in Location : nvm[l] = IF l \in Copied THEN latest[l] ELSE before[l]

LoopInv ==
  InLoop => /\ nvm \in [Location -> Val]
            /\ EntryLeft => Index1 \in DOMAIN PJLArray
            /\ at = "wait" => EntryLeft
            /\ LoopWrote

\* The memory the caller finds is that of the end of a batch.
Settled == IF InLoop THEN before ELSE nvm

CrashInv ==
  /\ durable \in [Location -> [Word -> Val]]
  /\ ends \in [Location -> SUBSET Val]
  /\ \A l \in Location : Settled[l] \in ends[l]
  /\ CrashFindsBatchEnds

XferInv == LiteralInv /\ BufferInv /\ CallerInv /\ LoopInv

-----------------------------------------------------------------------------
\* The index a search of the array finds: the least of those it looks for.
LEMMA MinExists ==
  ASSUME NEW S, S \subseteq Nat, S # {}
  PROVE  Min(S) \in S /\ \A i \in S : Min(S) <= i
<1>1. PICK n \in S : \A m \in S : ~(<<m, n>> \in OpToRel(<, Nat))
  BY NatLessThanWellFounded, WFMin
<1>2. \A m \in S : ~(m < n)
  BY <1>1 DEF OpToRel
<1>3. \A m \in S : m \in Nat
  OBVIOUS
<1>4. \A m \in S : n <= m
  BY <1>2, <1>3
<1> QED
  BY <1>4, Zenon DEF Min

\* JLF from 0 finds the first index of all.
LEMMA FirstIndex ==
  ASSUME DOMAIN PJLArray \subseteq Location
  PROVE  LET first == JLF(PJLArray, 0)
         IN  /\ first = NoIndex => DOMAIN PJLArray = {}
             /\ first # NoIndex => first \in DOMAIN PJLArray /\ \A l \in DOMAIN PJLArray : first <= l
<1> DEFINE found == {i \in DOMAIN PJLArray : i >= 0}
<1>1. found = DOMAIN PJLArray /\ found \subseteq Nat
  <2>1. DOMAIN PJLArray \subseteq Nat
    BY LocationAssumption
  <2> QED
    BY <2>1
<1>2. CASE found = {}
  BY <1>1, <1>2 DEF JLF
<1>3. CASE found # {}
  <2>1. Min(found) \in found /\ \A i \in found : Min(found) <= i
    BY <1>1, <1>3, MinExists
  <2>2. JLF(PJLArray, 0) = Min(found)
    BY <1>3 DEF JLF
  <2> HIDE DEF found
  <2>3. Min(found) # NoIndex
    BY <1>1, <2>1 DEF NoIndex
  <2> QED
    BY <1>1, <2>1, <2>2, <2>3
<1> QED
  BY <1>2, <1>3

\* JLN finds the index after the one the loop is at.
LEMMA NextIndex ==
  ASSUME DOMAIN PJLArray \subseteq Location, Index1 \in DOMAIN PJLArray
  PROVE  LET next == JLN(PJLArray, Index1)
         IN  /\ next = NoIndex => \A l \in DOMAIN PJLArray : l <= Index1
             /\ next # NoIndex => /\ next \in DOMAIN PJLArray
                                  /\ \A l \in DOMAIN PJLArray : l < next <=> l <= Index1
<1> DEFINE found == {i \in DOMAIN PJLArray : i > Index1}
<1>1. found \subseteq Nat /\ \A l \in DOMAIN PJLArray : l \in Nat
  BY LocationAssumption
<1>2. CASE found = {}
  <2>1. \A l \in DOMAIN PJLArray : l <= Index1
    BY <1>1, <1>2
  <2> QED
    BY <1>2, <2>1 DEF JLN
<1>3. CASE found # {}
  <2>1. Min(found) \in found /\ \A i \in found : Min(found) <= i
    BY <1>1, <1>3, MinExists
  <2>2. JLN(PJLArray, Index1) = Min(found)
    BY <1>3 DEF JLN
  <2>3. \A l \in DOMAIN PJLArray : l \in found <=> l > Index1
    OBVIOUS
  <2> HIDE DEF found
  <2>4. Min(found) # NoIndex /\ Min(found) \in DOMAIN PJLArray
    BY <1>1, <2>1, <2>3 DEF NoIndex, found
  <2>5. Min(found) > Index1
    BY <2>1 DEF found
  <2>6. \A l \in DOMAIN PJLArray : l < Min(found) <=> l <= Index1
    BY <1>1, <2>1, <2>3, <2>4, <2>5
  <2> QED
    BY <2>2, <2>4, <2>6
<1> QED
  BY <1>2, <1>3

-----------------------------------------------------------------------------
\* Outside the loop the buffer the caller will find is the one there is.
LEMMA OutsideLoop ==
  /\ ~InLoop  => (BufferInv  <=> IInv)
  /\ ~InLoop' => (BufferInv' <=> IInv')
<1> USE DEF BufferInv, IInv, Buffer!TypeOK, TypeOK, Buffer!IndexIsNewest, IndexIsNewest,
            Buffer!NoLostWrite, NoLostWrite, Buffer!View, View, Buffer!Used, Used,
            Buffer!SlotRecord, SlotRecord
<1>1. ~InLoop  => (BufferInv  <=> IInv)
  OBVIOUS
<1>2. ~InLoop' => (BufferInv' <=> IInv')
  OBVIOUS
<1> QED
  BY <1>1, <1>2

\* The invariant of the buffer speaks of the queue, the array and the NVM the
\* caller will find.
LEMMA BufferStays ==
  ASSUME BufferInv,
         UNCHANGED <<cmtq, qlen, giter, stale, PJLArray, dirties, curtxid, ub, latest>>,
         (IF InLoop' THEN before' ELSE nvm') = IF InLoop THEN before ELSE nvm
  PROVE  BufferInv'
<1>1. Buffer!TypeOK'
  BY DEF BufferInv, Buffer!TypeOK, Buffer!SlotRecord
<1>2. Buffer!IndexIsNewest'
  BY DEF BufferInv, Buffer!IndexIsNewest, Buffer!Used
<1>3. Buffer!NoLostWrite'
  BY DEF BufferInv, Buffer!NoLostWrite, Buffer!View
<1> QED
  BY <1>1, <1>2, <1>3 DEF BufferInv

\* What that invariant says inside the loop.
LEMMA InsideLoop ==
  ASSUME BufferInv, InLoop
  PROVE  /\ DOMAIN PJLArray \subseteq Location
         /\ IndexIsNewest
         /\ \A l \in DOMAIN PJLArray : cmtq[PJLArray[l]].data = latest[l]
         /\ \A l \in Location \ DOMAIN PJLArray : before[l] = latest[l]
         /\ latest \in [Location -> Val]
<1>1. DOMAIN PJLArray \subseteq Location /\ latest \in [Location -> Val]
  BY DEF BufferInv, Buffer!TypeOK
<1>2. IndexIsNewest
  BY DEF BufferInv, Buffer!IndexIsNewest, IndexIsNewest, Buffer!Used, Used
<1>3. \A l \in Location : Buffer!View[l] = latest[l]
  BY DEF BufferInv, Buffer!NoLostWrite
<1> QED
  BY <1>1, <1>2, <1>3 DEF Buffer!View

-----------------------------------------------------------------------------
LEMMA InitXferInv == XferInit => XferInv
<1> SUFFICES ASSUME XferInit PROVE XferInv
  OBVIOUS
<1>1. LiteralInv
  BY SizeAssumption DEF XferInit, Init, LiteralInv
<1>2. ~InLoop
  BY DEF XferInit, InLoop
<1>3. BufferInv
  BY <1>2, InitIInv, OutsideLoop DEF XferInit
<1> QED
  BY <1>1, <1>2, <1>3 DEF XferInit, XferInv, CallerInv, LoopInv

\* When a transfer begins nothing is copied yet, and the loop is at the first
\* index.
LEMMA NothingCopied ==
  ASSUME XferInv, NEW caller, Begin(caller)
  PROVE  /\ Copied = {} /\ Copied' = {}
         /\ Index1' # NoIndex => Index1' \in DOMAIN PJLArray
<1> USE DEF Begin, vars
<1>1. ~InLoop /\ IInv
  BY OutsideLoop DEF InLoop, XferInv
<1>2. DOMAIN PJLArray \subseteq Location /\ DOMAIN PJLArray \subseteq Nat
  BY <1>1, LocationAssumption DEF IInv, TypeOK
<1>3. /\ Index1' = NoIndex => DOMAIN PJLArray = {}
      /\ Index1' # NoIndex => /\ Index1' \in DOMAIN PJLArray
                              /\ \A l \in DOMAIN PJLArray : Index1' <= l
  BY <1>2, FirstIndex
<1>4. Copied = {}
  BY <1>1 DEF Copied
<1>5. Copied' = {}
  <2>1. \A l \in DOMAIN PJLArray : ~(l < Index1' \/ Index1' = NoIndex)
    BY <1>2, <1>3
  <2> QED
    BY <2>1 DEF Copied, EntryLeft
<1> QED
  BY <1>3, <1>4, <1>5

LEMMA BeginStep ==
  ASSUME XferInv, NEW caller \in {NoCall} \cup [data : Val, location : Location], Begin(caller)
  PROVE  XferInv'
<1> USE DEF Begin, vars
<1>1. ~InLoop /\ InLoop' /\ IInv
  BY OutsideLoop DEF InLoop, XferInv
<1>2. BufferInv'
  BY <1>1, BufferStays DEF XferInv
<1>3. LoopInv'
  <2>1. nvm' \in [Location -> Val] /\ nvm' = before'
    BY <1>1 DEF IInv, TypeOK
  <2>2. Copied' = {} /\ (Index1' # NoIndex => Index1' \in DOMAIN PJLArray')
    BY NothingCopied
  <2>3. LoopWrote'
    BY <2>1, <2>2 DEF LoopWrote
  <2> QED
    BY <2>1, <2>2, <2>3 DEF LoopInv, EntryLeft
<1> QED
  BY <1>2, <1>3 DEF XferInv, CallerInv, LiteralInv

\* The calls that run no loop are those of MmpUser.
LEMMA OtherCallStep ==
  ASSUME XferInv, at = "client", UNCHANGED <<at, Index1, call, before>>,
         NEW v \in Val, NEW l \in Location, MyWriteLiteral(Local(v), l) \/ MyTxend
  PROVE  XferInv'
<1>1. ~InLoop /\ ~InLoop' /\ IInv
  BY OutsideLoop DEF InLoop, XferInv
<1>2. IInv'
  BY <1>1, MyWriteLocalIInv, MyTxendIInv
<1>3. LiteralInv'
  BY LiteralStep DEF XferInv, LiteralNext
<1> QED
  BY <1>1, <1>2, <1>3, OutsideLoop DEF XferInv, CallerInv, LoopInv

\* The slot the loop is at names the address it is at, and has its last write.
LEMMA NowIsLatest ==
  ASSUME XferInv, InLoop, EntryLeft
  PROVE  /\ Index1 \in Location /\ Index1 \in DOMAIN PJLArray
         /\ Now.write_to = Index1
         /\ Now.data = latest[Index1]
<1>1. Index1 \in DOMAIN PJLArray
  BY DEF XferInv, LoopInv
<1> QED
  BY <1>1, InsideLoop DEF XferInv, IndexIsNewest, Now

\* The memcpy copies one address more.
LEMMA CopyCopies ==
  ASSUME XferInv, Copy
  PROVE  /\ nvm' = [nvm EXCEPT ![Index1] = latest[Index1]]
         /\ Index1 \in Location
         /\ Copied' = Copied \cup {Index1}
<1> USE DEF Copy
<1>1. InLoop /\ InLoop' /\ EntryLeft /\ EntryLeft'
  BY DEF InLoop, EntryLeft
<1>2. /\ nvm' = [nvm EXCEPT ![Index1] = latest[Index1]]
      /\ Index1 \in Location /\ Index1 \in DOMAIN PJLArray
  BY <1>1, NowIsLatest
<1>3. Copied = {l \in DOMAIN PJLArray : l < Index1}
  BY <1>1 DEF Copied
<1>4. Copied' = {l \in DOMAIN PJLArray : l < Index1 \/ l = Index1}
  BY <1>1 DEF Copied
<1> QED
  BY <1>2, <1>3, <1>4

LEMMA CopyStep ==
  ASSUME XferInv, Copy
  PROVE  XferInv'
<1> USE DEF Copy
<1>1. InLoop /\ InLoop'
  BY DEF InLoop
<1>2. BufferInv'
  BY <1>1, BufferStays DEF XferInv
<1>3. /\ nvm \in [Location -> Val] /\ LoopWrote
      /\ latest \in [Location -> Val]
      /\ EntryLeft => Index1 \in DOMAIN PJLArray
  BY <1>1, InsideLoop DEF XferInv, LoopInv
<1>4. nvm' \in [Location -> Val]
  BY <1>3, CopyCopies
<1>5. LoopWrote'
  BY <1>3, CopyCopies DEF LoopWrote
<1>6. LoopInv'
  BY <1>3, <1>4, <1>5 DEF LoopInv, EntryLeft
<1> QED
  BY <1>2, <1>6 DEF XferInv, CallerInv, LiteralInv

\* JLN passes over no address and over none twice.
LEMMA WaitCopies ==
  ASSUME XferInv, Wait
  PROVE  /\ Copied' = Copied
         /\ Index1' # NoIndex => Index1' \in DOMAIN PJLArray
<1> USE DEF Wait, vars
<1>1. InLoop /\ InLoop' /\ EntryLeft
  BY DEF InLoop, XferInv, LoopInv
<1>2. DOMAIN PJLArray \subseteq Location /\ Index1 \in DOMAIN PJLArray
  BY <1>1, InsideLoop DEF XferInv, LoopInv
<1>3. /\ Index1' = NoIndex => \A l \in DOMAIN PJLArray : l <= Index1
      /\ Index1' # NoIndex => /\ Index1' \in DOMAIN PJLArray
                              /\ \A l \in DOMAIN PJLArray : l < Index1' <=> l <= Index1
  BY <1>2, NextIndex
<1>4. Copied = {l \in DOMAIN PJLArray : l < Index1 \/ l = Index1}
  BY <1>1 DEF Copied
<1>5. Copied' = {l \in DOMAIN PJLArray : l < Index1' \/ Index1' = NoIndex}
  BY <1>1 DEF Copied, EntryLeft
<1>6. \A l \in DOMAIN PJLArray : (l < Index1' \/ Index1' = NoIndex) <=> (l < Index1 \/ l = Index1)
  <2> SUFFICES ASSUME NEW l \in DOMAIN PJLArray
               PROVE  (l < Index1' \/ Index1' = NoIndex) <=> (l < Index1 \/ l = Index1)
    OBVIOUS
  <2>1. l \in Nat /\ Index1 \in Nat
    BY <1>2, LocationAssumption
  <2>2. (l < Index1' \/ Index1' = NoIndex) <=> l <= Index1
    BY <1>3
  <2> QED
    BY <2>1, <2>2
<1> QED
  BY <1>3, <1>4, <1>5, <1>6

LEMMA WaitStep ==
  ASSUME XferInv, Wait
  PROVE  XferInv'
<1> USE DEF Wait, vars
<1>1. InLoop /\ InLoop'
  BY DEF InLoop
<1>2. BufferInv'
  BY <1>1, BufferStays DEF XferInv
<1>3. nvm \in [Location -> Val] /\ LoopWrote
  BY <1>1 DEF XferInv, LoopInv
<1>4. LoopWrote'
  BY <1>3, WaitCopies DEF LoopWrote
<1>5. LoopInv'
  BY <1>3, <1>4, WaitCopies DEF LoopInv, EntryLeft
<1> QED
  BY <1>2, <1>5 DEF XferInv, CallerInv, LiteralInv

\* After the loop the memory is what the client last wrote.
LEMMA LoopWroteLatest ==
  ASSUME XferInv, at = "copy", ~EntryLeft
  PROVE  nvm = latest
<1>1. InLoop /\ nvm \in [Location -> Val] /\ LoopWrote
  BY DEF InLoop, XferInv, LoopInv
<1>2. Copied = DOMAIN PJLArray
  BY <1>1 DEF Copied
<1>3. \A l \in Location : nvm[l] = latest[l]
  BY <1>1, <1>2, InsideLoop DEF LoopWrote, XferInv
<1>4. latest \in [Location -> Val]
  BY <1>1, InsideLoop DEF XferInv
<1> QED
  BY <1>1, <1>3, <1>4

LEMMA DoneStep ==
  ASSUME XferInv, Done
  PROVE  XferInv'
<1> USE DEF Done
<1>1. InLoop /\ ~InLoop' /\ nvm' = latest' /\ latest' \in [Location -> Val]
  BY LoopWroteLatest, InsideLoop DEF InLoop, XferInv
<1>2. Used' = {} /\ PJLArray' = EmptyJudy /\ DOMAIN PJLArray' = {}
  BY DEF Used, EmptyJudy
<1>3. TypeOK'
  <2>1. /\ qlen' \in 0 .. QMAX /\ cmtq' \in [0 .. qlen' - 1 -> SlotRecord]
        /\ dirties' \in [0 .. SIZE - 1 -> 0 .. BYTE - 1]
        /\ curtxid' \in 0 .. TXMAX /\ ub' \in BOOLEAN
    BY DEF XferInv, BufferInv, Buffer!TypeOK, Buffer!SlotRecord, SlotRecord
  <2>2. giter' \in 0 .. qlen'
    <3>1. giter' = 0 /\ qlen' \in Nat
      BY <2>1, BoundAssumption
    <3> QED
      BY <3>1
  <2>3. stale' \in BOOLEAN
    OBVIOUS
  <2> QED
    BY <1>1, <1>2, <2>1, <2>2, <2>3 DEF TypeOK
<1>4. IndexIsNewest'
  BY <1>2 DEF IndexIsNewest
<1>5. NoLostWrite'
  BY <1>1, <1>2 DEF NoLostWrite, View
<1>6. BufferInv'
  BY <1>1, <1>3, <1>4, <1>5, OutsideLoop DEF IInv
<1>7. LiteralInv'
  BY SizeAssumption DEF XferInv, LiteralInv
<1> QED
  BY <1>1, <1>6, <1>7 DEF XferInv, CallerInv, LoopInv

LEMMA WriteResumesStep ==
  ASSUME XferInv, WriteResumes
  PROVE  XferInv'
<1>1. ~InLoop /\ ~InLoop' /\ IInv
  BY OutsideLoop DEF WriteResumes, InLoop, XferInv
<1>2. call.data \in Val /\ call.location \in Location
  BY DEF WriteResumes, XferInv, CallerInv
<1>3. MyWriteLiteral(Local(call.data), call.location)
  BY DEF WriteResumes
<1>4. IInv'
  BY <1>1, <1>2, <1>3, MyWriteLocalIInv
<1>5. LiteralInv'
  BY <1>2, <1>3, LiteralStep DEF XferInv, LiteralNext
<1> QED
  BY <1>1, <1>4, <1>5, OutsideLoop DEF WriteResumes, XferInv, CallerInv, LoopInv

\* A line written back changes nothing the program sees.
LEMMA HiddenStep ==
  ASSUME XferInv, UNCHANGED <<vars, at, Index1, call, before>>
  PROVE  XferInv'
<1> USE DEF vars
<1>1. InLoop' = InLoop
  BY DEF InLoop
<1>2. BufferInv'
  BY <1>1, BufferStays DEF XferInv
<1>3. LoopInv'
  BY DEF XferInv, LoopInv, LoopWrote, Copied, InLoop, EntryLeft
<1> QED
  BY <1>2, <1>3 DEF XferInv, CallerInv, LiteralInv

LEMMA XferStep == XferInv /\ [XferNext]_xfervars => XferInv'
<1> SUFFICES ASSUME XferInv, [XferNext]_xfervars PROVE XferInv'
  OBVIOUS
<1>1. CASE CallXfer
  BY <1>1, BeginStep DEF CallXfer
<1>2. ASSUME NEW v \in Val, NEW l \in Location, WriteFindsEnd(v, l) PROVE XferInv'
  <2>1. [data |-> v, location |-> l] \in [data : Val, location : Location]
    OBVIOUS
  <2> QED
    BY <1>2, <2>1, BeginStep DEF WriteFindsEnd
<1>3. ASSUME NEW v \in Val, NEW l \in Location, WriteFindsRoom(v, l) PROVE XferInv'
  BY <1>3, OtherCallStep DEF WriteFindsRoom
<1>4. CASE CallTxend
  <2>1. ~InLoop /\ ~InLoop' /\ IInv
    BY <1>4, OutsideLoop DEF CallTxend, InLoop, XferInv
  <2>2. IInv' /\ LiteralInv'
    BY <1>4, <2>1, MyTxendIInv, LiteralStep DEF CallTxend, XferInv, LiteralNext
  <2> QED
    BY <1>4, <2>1, <2>2, OutsideLoop DEF CallTxend, XferInv, CallerInv, LoopInv
<1>5. CASE Running
  BY <1>5, CopyStep, WaitStep, DoneStep, WriteResumesStep DEF Running
<1>6. CASE (\E l \in Location, w \in Word : Evict(l, w)) \/ UNCHANGED xfervars
  BY <1>6, HiddenStep DEF Evict, xfervars
<1> QED
  BY <1>1, <1>2, <1>3, <1>4, <1>5, <1>6 DEF XferNext

-----------------------------------------------------------------------------
\* The inductive invariant of the transfer taken step by step.
THEOREM XferInvariant == XferSpec => []XferInv
<1> QED
  BY InitXferInv, XferStep, PTL DEF XferSpec

\* Neither the loop nor the return from it reaches an operation with undefined
\* behaviour, and the write that waited for it finds a slot.
THEOREM XferNeverUndefined == XferSpec => []NoUndefined
<1>1. XferInv => NoUndefined
  BY SizeAssumption DEF XferInv, LiteralInv, NoUndefined, SlotUsable, StartSlot, AtEnd
<1> QED
  BY <1>1, XferInvariant, PTL

\* No step of the program writes anything back, and what it adds to the
\* addresses copied has been stored.
LEMMA CrashStays ==
  ASSUME CrashInv, UNCHANGED <<durable, ends>>, Settled' = Settled,
         \A l \in Copied : l \in Copied' /\ latest'[l] = latest[l]
  PROVE  CrashInv'
<1>1. CrashFindsBatchEnds'
  BY DEF CrashInv, CrashFindsBatchEnds
<1> QED
  BY <1>1 DEF CrashInv

\* A word written back is one of the memory of the batch before, or of an
\* address the loop has copied.
LEMMA EvictStep ==
  ASSUME XferInv, CrashInv, NEW k \in Location, NEW x \in Word, Evict(k, x)
  PROVE  CrashInv'
<1> USE DEF Evict, vars
<1>1. nvm[k] \in Val /\ (nvm[k] \in ends[k] \/ (k \in Copied /\ nvm[k] = latest[k]))
  <2>1. CASE InLoop
    <3>1. nvm \in [Location -> Val] /\ LoopWrote
      BY <2>1 DEF XferInv, LoopInv
    <3>2. before[k] \in ends[k]
      BY <2>1 DEF CrashInv, Settled
    <3> QED
      BY <3>1, <3>2 DEF LoopWrote
  <2>2. CASE ~InLoop
    <3>1. nvm \in [Location -> Val]
      BY <2>2, OutsideLoop DEF XferInv, IInv, TypeOK
    <3> QED
      BY <2>2, <3>1 DEF CrashInv, Settled
  <2> QED
    BY <2>1, <2>2
<1>2. durable \in [Location -> [Word -> Val]]
  BY DEF CrashInv
<1>3. durable' \in [Location -> [Word -> Val]]
  BY <1>1, <1>2
<1>4. Copied' = Copied /\ Settled' = Settled
  BY DEF Copied, Settled, InLoop, EntryLeft
<1>5. CrashFindsBatchEnds'
  <2> SUFFICES ASSUME NEW l \in Location, NEW w \in Word
               PROVE  durable'[l][w] \in ends[l] \/ (l \in Copied /\ durable'[l][w] = latest[l])
    BY <1>4 DEF CrashFindsBatchEnds
  <2>1. CASE l = k /\ w = x
    <3>1. durable'[l][w] = nvm[k]
      BY <1>2, <2>1
    <3> QED
      BY <1>1, <2>1, <3>1
  <2>2. CASE ~(l = k /\ w = x)
    <3>1. durable'[l][w] = durable[l][w]
      BY <1>2, <2>2
    <3> QED
      BY <3>1 DEF CrashInv, CrashFindsBatchEnds
  <2> QED
    BY <2>1, <2>2
<1> QED
  BY <1>3, <1>4, <1>5 DEF CrashInv

\* The memory a transfer leaves is that of the end of a batch.
LEMMA DoneEndsBatch ==
  ASSUME XferInv, CrashInv, Done
  PROVE  CrashInv'
<1> USE DEF Done
<1>1. nvm' = latest /\ Settled' = latest /\ latest \in [Location -> Val]
  BY LoopWroteLatest, InsideLoop DEF XferInv, InLoop, Settled
<1>2. ends' = [l \in Location |-> ends[l] \cup {latest[l]}]
  OBVIOUS
<1>3. ends' \in [Location -> SUBSET Val] /\ \A l \in Location : Settled'[l] \in ends'[l]
  BY <1>1, <1>2 DEF CrashInv
<1>4. CrashFindsBatchEnds'
  BY <1>2 DEF CrashInv, CrashFindsBatchEnds
<1> QED
  BY <1>3, <1>4 DEF CrashInv

\* Outside the loop no call changes the memory: a write that was interrupted
\* finds the queue rewound.
LEMMA OutsideCrashStep ==
  ASSUME XferInv, CrashInv, ~InLoop, ~InLoop', UNCHANGED <<nvm, durable, ends>>
  PROVE  CrashInv'
<1>1. Copied = {} /\ Settled' = Settled
  BY DEF Copied, Settled
<1> QED
  BY <1>1, CrashStays

LEMMA CrashStep == XferInv /\ CrashInv /\ [XferNext]_xfervars => CrashInv'
<1> SUFFICES ASSUME XferInv, CrashInv, [XferNext]_xfervars PROVE CrashInv'
  OBVIOUS
<1>1. ASSUME NEW caller, Begin(caller) PROVE CrashInv'
  <2>1. UNCHANGED <<durable, ends>> /\ Settled' = Settled
    BY <1>1 DEF Begin, vars, Settled, InLoop
  <2> QED
    BY <1>1, <2>1, NothingCopied, CrashStays
<1>2. ASSUME NEW v \in Val, NEW l \in Location, WriteFindsRoom(v, l) PROVE CrashInv'
  BY <1>2, OutsideCrashStep DEF WriteFindsRoom, MyWriteLiteral, StartNvm, InLoop
<1>3. CASE CallTxend
  BY <1>3, OutsideCrashStep DEF CallTxend, MyTxend, InLoop
<1>4. CASE Copy
  <2>1. UNCHANGED <<durable, ends, latest>> /\ Settled' = Settled
    BY <1>4 DEF Copy, Settled, InLoop
  <2> QED
    BY <1>4, <2>1, CopyCopies, CrashStays
<1>5. CASE Wait
  <2>1. UNCHANGED <<durable, ends, latest>> /\ Settled' = Settled
    BY <1>5 DEF Wait, vars, Settled, InLoop
  <2> QED
    BY <1>5, <2>1, WaitCopies, CrashStays
<1>6. CASE Done
  BY <1>6, DoneEndsBatch
<1>7. CASE WriteResumes
  <2>1. ~AtEnd
    BY <1>7, SizeAssumption DEF WriteResumes, XferInv, CallerInv, LiteralInv, AtEnd
  <2>2. nvm' = nvm
    BY <1>7, <2>1 DEF WriteResumes, MyWriteLiteral, StartNvm
  <2> QED
    BY <1>7, <2>2, OutsideCrashStep DEF WriteResumes, InLoop
<1>8. ASSUME NEW l \in Location, NEW w \in Word, Evict(l, w) PROVE CrashInv'
  BY <1>8, EvictStep
<1>9. CASE UNCHANGED xfervars
  <2>1. UNCHANGED <<durable, ends, latest>> /\ Settled' = Settled /\ Copied' = Copied
    BY <1>9 DEF xfervars, vars, Settled, InLoop, Copied, EntryLeft
  <2> QED
    BY <2>1, CrashStays
<1> QED
  BY <1>1, <1>2, <1>3, <1>4, <1>5, <1>6, <1>7, <1>8, <1>9
     DEF XferNext, Running, CallXfer, WriteFindsEnd

\* Whatever lines were written back, and when, a crash finds no object that was
\* overwritten within its batch and none that is still only queued.
THEOREM CrashFindsNoQueued == XferSpec => []CrashFindsBatchEnds
<1>1. XferInit => CrashInv
  <2> SUFFICES ASSUME XferInit PROVE CrashInv
    OBVIOUS
  <2>1. nvm \in [Location -> Val] /\ Settled = nvm
    BY DEF XferInit, Init, Settled, InLoop
  <2>2. durable \in [Location -> [Word -> Val]] /\ ends \in [Location -> SUBSET Val]
    BY <2>1 DEF XferInit
  <2>3. \A l \in Location : nvm[l] \in ends[l] /\ \A w \in Word : durable[l][w] \in ends[l]
    BY DEF XferInit
  <2> QED
    BY <2>1, <2>2, <2>3 DEF CrashInv, CrashFindsBatchEnds
<1>2. CrashInv => CrashFindsBatchEnds
  BY DEF CrashInv
<1> QED
  BY <1>1, <1>2, CrashStep, XferInvariant, PTL DEF XferSpec

\* Copying the array again from its start, after any part of a transfer, writes
\* the client's last writes.
THEOREM TransferRestarts == XferSpec => []TransferCanRestart
<1>1. XferInv => TransferCanRestart
  <2> SUFFICES ASSUME XferInv, InLoop PROVE Transferred = latest
    BY DEF TransferCanRestart
  <2>1. Transferred = View
    BY TransferredIsRecorded, InsideLoop DEF XferInv
  <2>2. ASSUME NEW l \in Location PROVE View[l] = latest[l]
    <3>1. CASE l \in DOMAIN PJLArray
      BY <3>1, InsideLoop DEF XferInv, View
    <3>2. CASE l \notin DOMAIN PJLArray
      <4>1. nvm[l] = before[l]
        BY <3>2 DEF XferInv, LoopInv, LoopWrote, Copied
      <4> QED
        BY <3>2, <4>1, InsideLoop DEF XferInv, View
    <3> QED
      BY <3>1, <3>2
  <2>3. View = [l \in Location |-> View[l]]
    BY DEF View
  <2>4. latest \in [Location -> Val]
    BY InsideLoop DEF XferInv
  <2> QED
    BY <2>1, <2>2, <2>3, <2>4
<1> QED
  BY <1>1, XferInvariant, PTL

-----------------------------------------------------------------------------
\* The step of MmpUser's transfer, with the NVM the loop began with, writes the
\* client's last writes.
LEMMA BufferTransfers ==
  ASSUME XferInv, InLoop
  PROVE  Buffer!Transferred = latest
<1>1. ASSUME NEW l \in Location PROVE Buffer!Transferred[l] = latest[l]
  <2> DEFINE into == {i \in DOMAIN PJLArray : cmtq[PJLArray[i]].write_to = l}
  <2>1. CASE l \in DOMAIN PJLArray
    <3>1. into = {l}
      BY <2>1, InsideLoop DEF XferInv, IndexIsNewest
    <3>2. Buffer!Max(into) = l
      <4>1. Buffer!Max(into) = Max(into)
        BY Zenon DEF Buffer!Max, Max
      <4>2. into \subseteq Int /\ l \in into /\ \A i \in into : i <= l
        BY <3>1, LocationAssumption
      <4>3. Max(into) = l
        BY <4>2, MaxIs
      <4> QED
        BY <4>1, <4>3
    <3>3. Buffer!Transferred[l] = cmtq[PJLArray[l]].data
      BY <3>1, <3>2 DEF Buffer!Transferred
    <3> QED
      BY <2>1, <3>3, InsideLoop DEF XferInv
  <2>2. CASE l \notin DOMAIN PJLArray
    <3>1. into = {}
      BY <2>2, InsideLoop DEF XferInv, IndexIsNewest
    <3>2. Buffer!Transferred[l] = before[l]
      BY <3>1 DEF Buffer!Transferred
    <3> QED
      BY <2>2, <3>2, InsideLoop DEF XferInv
  <2> QED
    BY <2>1, <2>2
<1>2. Buffer!Transferred = [l \in Location |-> Buffer!Transferred[l]]
  BY DEF Buffer!Transferred
<1>3. latest \in [Location -> Val]
  BY InsideLoop DEF XferInv
<1> QED
  BY <1>1, <1>2, <1>3

\* Outside the loop a call of the client is the same step in both.
LEMMA OutsideSteps ==
  ASSUME ~InLoop, ~InLoop'
  PROVE  /\ \A v \in Val, l \in Location :
              MyWriteLiteral(Local(v), l) => Buffer!MyWriteLiteral(Buffer!Local(v), l)
         /\ MyTxend => Buffer!MyTxend
<1>1. ASSUME NEW v \in Val, NEW l \in Location, MyWriteLiteral(Local(v), l)
      PROVE  Buffer!MyWriteLiteral(Buffer!Local(v), l)
  <2>1. Buffer!Transferred = Transferred
    <3>1. \A S : Buffer!Max(S) = Max(S)
      BY Zenon DEF Buffer!Max, Max
    <3> QED
      BY <3>1 DEF Buffer!Transferred, Transferred
  <2>2. /\ Buffer!StartSlot = StartSlot /\ Buffer!StartJudy = StartJudy
        /\ Buffer!SlotUsable = SlotUsable /\ Buffer!StartNvm = StartNvm
    BY <2>1 DEF Buffer!StartSlot, StartSlot, Buffer!StartJudy, StartJudy, Buffer!StartNvm, StartNvm,
                Buffer!SlotUsable, SlotUsable, Buffer!AtEnd, AtEnd, Buffer!EmptyJudy, EmptyJudy
  <2>3. \A queue, memory :
          /\ Deref(Local(v), queue, memory) = v
          /\ Buffer!Deref(Buffer!Local(v), queue, memory) = v
    BY DEF Deref, Local, Buffer!Deref, Buffer!Local
  <2>4. Buffer!JLI(StartJudy, l, StartSlot) = JLI(StartJudy, l, StartSlot)
    BY DEF Buffer!JLI, JLI
  <2> QED
    BY <1>1, <2>2, <2>3, <2>4 DEF MyWriteLiteral, Buffer!MyWriteLiteral
<1>2. MyTxend => Buffer!MyTxend
  BY DEF MyTxend, Buffer!MyTxend
<1> QED
  BY <1>1, <1>2

\* The steps that change nothing the caller can see.
LEMMA HiddenSteps ==
  ASSUME \/ Copy \/ Wait \/ UNCHANGED xfervars
         \/ \E caller : Begin(caller)
         \/ \E l \in Location, w \in Word : Evict(l, w)
  PROVE  UNCHANGED Buffer!vars
<1>1. CASE Copy \/ Wait
  BY <1>1 DEF Copy, Wait, vars, InLoop, Buffer!vars
<1>2. ASSUME NEW caller, Begin(caller) PROVE UNCHANGED Buffer!vars
  BY <1>2 DEF Begin, vars, InLoop, Buffer!vars
<1>3. ASSUME UNCHANGED <<vars, at, before>> PROVE UNCHANGED Buffer!vars
  BY <1>3 DEF vars, InLoop, Buffer!vars
<1> QED
  BY <1>1, <1>2, <1>3 DEF Evict, xfervars

\* The end of the loop is where the caller finds the transfer done.
LEMMA DoneIsTransfer ==
  ASSUME XferInv, Done
  PROVE  Buffer!MyXfer
<1>1. InLoop /\ ~InLoop'
  BY DEF Done, InLoop
<1>2. nvm' = Buffer!Transferred /\ ub = FALSE
  BY <1>1, LoopWroteLatest, BufferTransfers DEF Done, XferInv, LiteralInv
<1> QED
  BY <1>1, <1>2 DEF Done, Buffer!MyXfer, Buffer!EmptyJudy, EmptyJudy

\* The loop of my_xfer with its waits, entered from the client or from
\* my_write_literal, does what MmpUser says in one step.
THEOREM XferImplementsBuffer == XferSpec => ImplementsBuffer
<1>1. XferInit => Buffer!Init
  BY DEF XferInit, Init, InLoop, Buffer!Init, Buffer!EmptyJudy, EmptyJudy
<1>2. XferInv /\ [XferNext]_xfervars => [Buffer!LiteralNext]_Buffer!vars
  <2> SUFFICES ASSUME XferInv, [XferNext]_xfervars
               PROVE  Buffer!LiteralNext \/ UNCHANGED Buffer!vars
    OBVIOUS
  <2>1. CASE \/ CallXfer \/ Copy \/ Wait \/ UNCHANGED xfervars
             \/ \E l \in Location, w \in Word : Evict(l, w)
    BY <2>1, HiddenSteps DEF CallXfer
  <2>2. ASSUME NEW v \in Val, NEW l \in Location, WriteFindsEnd(v, l)
        PROVE  UNCHANGED Buffer!vars
    BY <2>2, HiddenSteps DEF WriteFindsEnd
  <2>3. ASSUME NEW v \in Val, NEW l \in Location, WriteFindsRoom(v, l)
        PROVE  Buffer!LiteralNext
    BY <2>3, OutsideSteps DEF WriteFindsRoom, InLoop, Buffer!LiteralNext
  <2>4. CASE CallTxend
    BY <2>4, OutsideSteps DEF CallTxend, InLoop, Buffer!LiteralNext
  <2>5. CASE Done
    BY <2>5, DoneIsTransfer DEF Buffer!LiteralNext
  <2>6. CASE WriteResumes
    <3>1. call.data \in Val /\ call.location \in Location
      BY <2>6 DEF WriteResumes, XferInv, CallerInv
    <3>2. Buffer!MyWriteLiteral(Buffer!Local(call.data), call.location)
      BY <2>6, <3>1, OutsideSteps DEF WriteResumes, InLoop
    <3> QED
      BY <3>1, <3>2 DEF Buffer!LiteralNext
  <2> QED
    BY <2>1, <2>2, <2>3, <2>4, <2>5, <2>6 DEF XferNext, Running
<1> QED
  BY <1>1, <1>2, XferInvariant, PTL DEF XferSpec, ImplementsBuffer, Buffer!LiteralSpec

-----------------------------------------------------------------------------
(***************************************************************************)
(* The swaps of BufferSps for every array, every value set and every size  *)
(* of the queue: whatever the transfers do to the pointers a swap holds,   *)
(* it invents no object, and a swap that read the right objects and found  *)
(* two free slots is exact.                                                *)
(*                                                                         *)
(* Here NoLostWrite of MmpUser does not hold: a transfer may change what a *)
(* pointer shows before it is used.  What does hold is that the buffer     *)
(* records something for every entry (RecordInv), that a pointer my_read   *)
(* returned leads to an object some entry held (PointersByStep), also when *)
(* the first write of the swap has reused the slot it leads to, and that   *)
(* without a transfer it leads to the same object (ExactByStep).           *)
(***************************************************************************)

\* The objects there were when the swap began.
Wanted == {want[m] : m \in Location}

ClientTypes ==
  /\ pc \in {"idle", "first", "second", "done"}
  /\ k1 \in Location /\ k2 \in Location
  /\ want \in [Location -> Val]

\* What the pointers lead to until their use.
PointersByStep ==
  /\ pc = "first" => a1 = MyRead(k1) /\ a2 = MyRead(k2)
  /\ pc = "second" =>
       \/ a1 = InNvm(k1) /\ nvm[k1] \in Wanted
       \/ \E s \in 0 .. qlen - 1 : a1 = InSlot(s) /\ cmtq[s].data \in Wanted

\* How far a swap is that reads right and has room.
ExactByStep ==
  exact /\ room =>
    /\ pc = "first" => /\ giter + 2 <= qlen
                       /\ Deref(a1, cmtq, nvm) = View[k1]
                       /\ Deref(a2, cmtq, nvm) = View[k2]
                       /\ want = Swapped(View, k1, k2)
    /\ pc = "second" => /\ giter + 1 <= qlen
                        /\ Deref(a1, cmtq, nvm) = want[k2]
                        /\ \A l \in Location \ {k2} : View[l] = want[l]
    /\ pc \in {"idle", "done"} => View = want

SpsInv ==
  /\ RecordInv /\ LiteralInv /\ ClientTypes
  /\ NothingInvented /\ PointersByStep /\ ExactByStep

-----------------------------------------------------------------------------
\* What a pointer shows.
LEMMA Shows ==
  /\ \A s, queue, memory : Deref(InSlot(s), queue, memory) = queue[s].data
  /\ \A l, queue, memory : Deref(InNvm(l), queue, memory) = memory[l]
  BY DEF Deref, InSlot, InNvm

\* my_read leads into the batch, or to the NVM of an address that is in none.
LEMMA ReadLeadsTo ==
  ASSUME RecordInv, NEW l \in Location
  PROVE  \/ \E k \in DOMAIN PJLArray : MyRead(l) = InSlot(PJLArray[k])
         \/ l \notin DOMAIN PJLArray /\ MyRead(l) = InNvm(l)
<1> DEFINE found == {i \in DOMAIN PJLArray : i <= l}
<1>1. found \subseteq Nat /\ l \in Nat
  BY LocationAssumption DEF RecordInv, TypeOK
<1>2. CASE found = {}
  <2>1. l \notin DOMAIN PJLArray
    BY <1>1, <1>2
  <2>2. MyRead(l) = InNvm(l)
    BY <1>2 DEF MyRead, JLL
  <2> QED
    BY <2>1, <2>2
<1>3. CASE found # {}
  <2>1. Max(found) \in found /\ Max(found) # NoIndex
    BY <1>1, <1>3, MaxExists DEF NoIndex
  <2>2. MyRead(l) = InSlot(PJLArray[Max(found)])
    BY <1>3, <2>1 DEF MyRead, JLL
  <2> QED
    BY <2>1, <2>2
<1> QED
  BY <1>2, <1>3

\* The buffer's record of a location, and where it is.
LEMMA RecordOf ==
  ASSUME RecordInv
  PROVE  /\ \A k \in DOMAIN PJLArray : k \in Location /\ PJLArray[k] \in 0 .. giter - 1
                                       /\ cmtq[PJLArray[k]].data = View[k]
         /\ \A l \in Location \ DOMAIN PJLArray : nvm[l] = View[l]
         /\ \A l \in Location : View[l] \in Val
  BY DEF RecordInv, TypeOK, IndexIsNewest, Used, View

\* Before any write the pointer leads to a record, also after a transfer.
LEMMA ReadShowsRecord ==
  ASSUME RecordInv, NEW l \in Location
  PROVE  \E m, n \in Location : /\ Deref(MyRead(l), cmtq, nvm) = View[m]
                                /\ Deref(MyRead(l), cmtq, StartNvm) = View[n]
<1>1. CASE \E k \in DOMAIN PJLArray : MyRead(l) = InSlot(PJLArray[k])
  BY <1>1, Shows, RecordOf
<1>2. CASE l \notin DOMAIN PJLArray /\ MyRead(l) = InNvm(l)
  <2>1. Transferred = View
    BY TransferredIsView DEF RecordInv
  <2>2. StartNvm[l] = View[l] /\ nvm[l] = View[l]
    BY <1>2, <2>1, RecordOf DEF StartNvm
  <2> QED
    BY <1>2, <2>2, Shows
<1> QED
  BY <1>1, <1>2, ReadLeadsTo

\* Every object there is was there when the swap began.
LEMMA WantedObjects ==
  ASSUME NothingInvented, ClientTypes
  PROVE  /\ \A l \in Location : View[l] \in Wanted
         /\ Wanted \subseteq Val
  BY DEF NothingInvented, ClientTypes, Wanted

-----------------------------------------------------------------------------
LEMMA InitSpsInv == InitSps => SpsInv
<1> SUFFICES ASSUME InitSps PROVE SpsInv
  OBVIOUS
<1>1. RecordInv /\ LiteralInv
  BY InitIInv, RecordsOfIInv, SizeAssumption DEF InitSps, Init, LiteralInv
<1>2. View = nvm /\ nvm \in [Location -> Val]
  BY DEF InitSps, Init, EmptyJudy, View
<1>3. ClientTypes /\ NothingInvented /\ PointersByStep /\ ExactByStep
  BY <1>2 DEF InitSps, ClientTypes, NothingInvented, PointersByStep, ExactByStep
<1> QED
  BY <1>1, <1>3 DEF SpsInv

\* The reads of a swap set its goal: the array with the two entries exchanged.
LEMMA ReadBothStep ==
  ASSUME SpsInv, NEW l1 \in Location, NEW l2 \in Location, ReadBoth(l1, l2)
  PROVE  SpsInv'
<1> USE DEF ReadBoth
<1>1. UNCHANGED <<cmtq, qlen, giter, stale, PJLArray, dirties, curtxid, nvm, ub, latest>>
  BY DEF vars
<1>2. View' = View /\ RecordInv'
  <2>1. View' = View
    BY <1>1 DEF View
  <2>2. TypeOK' = TypeOK
    BY <1>1 DEF TypeOK
  <2>3. IndexIsNewest' = IndexIsNewest
    BY <1>1 DEF IndexIsNewest, Used
  <2> QED
    BY <2>1, <2>2, <2>3 DEF SpsInv, RecordInv
<1>3. MyRead(l1)' = MyRead(l1) /\ MyRead(l2)' = MyRead(l2)
  BY <1>1 DEF MyRead, JLL, InSlot, InNvm
<1>4. View \in [Location -> Val]
  BY DEF SpsInv, RecordInv
<1>5. /\ want' \in [Location -> Val]
      /\ \A l \in Location : \E m \in Location : View[l] = want'[m]
  <2>1. want' = [View EXCEPT ![l1] = View[l2], ![l2] = View[l1]]
    BY DEF Swapped
  <2>2. want' \in [Location -> Val]
    BY <1>4, <2>1
  <2>3. want'[l2] = View[l1]
    BY <1>4, <2>1
  <2>4. want'[l1] = View[l2]
    BY <1>4, <2>1
  <2>5. \A l \in Location \ {l1, l2} : want'[l] = View[l]
    BY <1>4, <2>1
  <2> QED
    BY <2>2, <2>3, <2>4, <2>5
<1>6. ClientTypes' /\ NothingInvented'
  BY <1>2, <1>5 DEF SpsInv, ClientTypes, NothingInvented
<1>7. PointersByStep'
  BY <1>3 DEF PointersByStep
<1>8. ExactByStep'
  <2>1. pc' = "first" /\ a1' = MyRead(l1) /\ a2' = MyRead(l2) /\ k1' = l1 /\ k2' = l2
    OBVIOUS
  <2>2. want' = Swapped(View, l1, l2) /\ Swapped(View, l1, l2)' = Swapped(View, l1, l2)
    BY <1>2 DEF Swapped
  <2>3. exact' => /\ Deref(MyRead(l1), cmtq, nvm) = View[l1]
                  /\ Deref(MyRead(l2), cmtq, nvm) = View[l2]
    OBVIOUS
  <2>4. room' => giter + 2 <= qlen
    OBVIOUS
  <2> QED
    BY <1>1, <1>2, <2>1, <2>2, <2>3, <2>4 DEF ExactByStep
<1>9. LiteralInv'
  BY <1>1 DEF SpsInv, LiteralInv
<1> QED
  BY <1>2, <1>6, <1>7, <1>8, <1>9 DEF SpsInv

\* A write through a pointer that shows an object of the array.
LEMMA WriteInventsNothing ==
  ASSUME SpsInv, NEW p, NEW l \in Location, MyWriteLiteral(p, l),
         UNCHANGED <<k1, k2, want>>, pc' \in {"idle", "second"},
         Deref(p, cmtq, nvm) \in Wanted, Deref(p, cmtq, StartNvm) \in Wanted
  PROVE  /\ RecordInv' /\ LiteralInv' /\ ClientTypes' /\ NothingInvented'
         /\ View' = [View EXCEPT ![l] = Deref(p, cmtq, StartNvm)]
<1>1. Deref(p, cmtq, nvm) \in Val /\ Deref(p, cmtq, StartNvm) \in Val
  BY WantedObjects DEF SpsInv
<1>2. RecordInv' /\ View' = [View EXCEPT ![l] = Deref(p, cmtq, StartNvm)]
  BY <1>1, WriteRecords DEF SpsInv
<1>3. LiteralInv'
  BY WriteStaysInQueue DEF SpsInv
<1>4. ClientTypes'
  BY DEF SpsInv, ClientTypes
<1>5. NothingInvented'
  <2>1. \A i \in Location : View'[i] \in Wanted
    BY <1>2, WantedObjects DEF SpsInv, RecordInv
  <2> QED
    BY <2>1 DEF NothingInvented, Wanted
<1> QED
  BY <1>2, <1>3, <1>4, <1>5

\* The first write may reuse the slot the other pointer leads to, after a
\* transfer; then that pointer leads to the object just written.
LEMMA WriteFirstStep ==
  ASSUME SpsInv, WriteFirst
  PROVE  SpsInv'
<1> USE DEF WriteFirst
<1>1. /\ RecordInv /\ k1 \in Location /\ k2 \in Location
      /\ a1 = MyRead(k1) /\ a2 = MyRead(k2) /\ MyWriteLiteral(a2, k1)
  BY DEF SpsInv, ClientTypes, PointersByStep
<1> DEFINE shown == Deref(a2, cmtq, StartNvm)
<1>2. Deref(a2, cmtq, nvm) \in Wanted /\ shown \in Wanted
  BY <1>1, ReadShowsRecord, WantedObjects DEF SpsInv
<1>3. /\ RecordInv' /\ LiteralInv' /\ ClientTypes' /\ NothingInvented'
      /\ View' = [View EXCEPT ![k1] = shown]
  BY <1>1, <1>2, WriteInventsNothing
<1>4. /\ nvm' = StartNvm /\ qlen' = qlen /\ giter' = StartSlot + 1
      /\ cmtq' = [cmtq EXCEPT ![StartSlot] = [data |-> shown, write_to |-> k1, txid |-> curtxid]]
  BY <1>1 DEF MyWriteLiteral
<1>5. StartSlot \in 0 .. qlen - 1 /\ DOMAIN cmtq = 0 .. qlen - 1 /\ giter \in 0 .. qlen /\ qlen \in Nat
  BY <1>1, StartIsConsistent, BoundAssumption DEF MyWriteLiteral, RecordInv, TypeOK
<1> HIDE DEF shown
<1>6. PointersByStep'
  <2>1. CASE a1 = InNvm(k1) /\ k1 \notin DOMAIN PJLArray
    <3>1. Transferred = View
      BY <1>1, TransferredIsView DEF RecordInv
    <3>2. nvm'[k1] = View[k1]
      BY <1>1, <1>4, <2>1, <3>1, RecordOf DEF StartNvm
    <3>3. nvm'[k1] \in Wanted
      BY <1>1, <3>2, WantedObjects DEF SpsInv
    <3> QED
      BY <2>1, <3>3 DEF PointersByStep, Wanted, InNvm
  <2>2. ASSUME NEW k \in DOMAIN PJLArray, a1 = InSlot(PJLArray[k])
        PROVE  PointersByStep'
    <3>1. k \in Location /\ PJLArray[k] \in 0 .. qlen - 1 /\ cmtq[PJLArray[k]].data = View[k]
      BY <1>1, <1>5, RecordOf
    <3>2. cmtq'[PJLArray[k]].data \in {shown, View[k]}
      BY <1>4, <1>5, <3>1
    <3>3. cmtq'[PJLArray[k]].data \in Wanted
      BY <1>2, <3>1, <3>2, WantedObjects DEF SpsInv
    <3> QED
      BY <1>4, <2>2, <3>1, <3>3 DEF PointersByStep, Wanted, InSlot
  <2> QED
    BY <1>1, <2>1, <2>2, ReadLeadsTo
<1>7. ExactByStep'
  <2> SUFFICES ASSUME exact, room PROVE ExactByStep'
    BY DEF ExactByStep
  <2>1. /\ giter + 2 <= qlen
        /\ Deref(a1, cmtq, nvm) = View[k1]
        /\ Deref(a2, cmtq, nvm) = View[k2]
        /\ want = Swapped(View, k1, k2)
    BY DEF SpsInv, ExactByStep
  <2>2. StartSlot = giter /\ StartNvm = nvm
    BY <1>5, <2>1 DEF StartSlot, StartNvm, AtEnd
  <2>3. giter' + 1 <= qlen'
    BY <1>4, <1>5, <2>1, <2>2
  <2>4. View \in [Location -> Val] /\ want[k2] = View[k1]
    BY <1>1, <2>1 DEF RecordInv, Swapped
  <2>5. shown = View[k2]
    BY <2>1, <2>2 DEF shown
  <2>6. \A l \in Location \ {k2} : View'[l] = want[l]
    BY <1>1, <1>3, <2>1, <2>4, <2>5 DEF Swapped
  <2>7. Deref(a1, cmtq', nvm') = Deref(a1, cmtq, nvm)
    <3>1. CASE a1 = InNvm(k1)
      BY <1>4, <2>2, <3>1, Shows
    <3>2. ASSUME NEW k \in DOMAIN PJLArray, a1 = InSlot(PJLArray[k])
          PROVE  Deref(a1, cmtq', nvm') = Deref(a1, cmtq, nvm)
      <4>1. PJLArray[k] \in 0 .. qlen - 1 /\ PJLArray[k] # giter
        BY <1>1, <1>5, RecordOf
      <4>2. cmtq'[PJLArray[k]] = cmtq[PJLArray[k]]
        BY <1>4, <1>5, <2>2, <4>1
      <4> QED
        BY <3>2, <4>2, Shows
    <3> QED
      BY <1>1, <3>1, <3>2, ReadLeadsTo
  <2> QED
    BY <2>1, <2>3, <2>4, <2>6, <2>7 DEF ExactByStep
<1> QED
  BY <1>3, <1>6, <1>7 DEF SpsInv

LEMMA WriteSecondStep ==
  ASSUME SpsInv, WriteSecond
  PROVE  SpsInv'
<1> USE DEF WriteSecond
<1>1. /\ RecordInv /\ k1 \in Location /\ k2 \in Location
      /\ MyWriteLiteral(a1, k2)
  BY DEF SpsInv, ClientTypes
<1>2. Deref(a1, cmtq, nvm) \in Wanted /\ Deref(a1, cmtq, StartNvm) \in Wanted
  <2>1. CASE a1 = InNvm(k1) /\ nvm[k1] \in Wanted
    <3>1. StartNvm[k1] \in {nvm[k1], View[k1]}
      BY <1>1, TransferredIsView DEF StartNvm, RecordInv
    <3>2. StartNvm[k1] \in Wanted
      BY <1>1, <2>1, <3>1, WantedObjects DEF SpsInv
    <3> QED
      BY <2>1, <3>2, Shows
  <2>2. ASSUME NEW s \in 0 .. qlen - 1, a1 = InSlot(s), cmtq[s].data \in Wanted
        PROVE  Deref(a1, cmtq, nvm) \in Wanted /\ Deref(a1, cmtq, StartNvm) \in Wanted
    BY <2>2, Shows
  <2> QED
    BY <2>1, <2>2 DEF SpsInv, PointersByStep
<1>3. /\ RecordInv' /\ LiteralInv' /\ ClientTypes' /\ NothingInvented'
      /\ View' = [View EXCEPT ![k2] = Deref(a1, cmtq, StartNvm)]
  BY <1>1, <1>2, WriteInventsNothing
<1>4. PointersByStep'
  BY DEF PointersByStep
<1>5. ExactByStep'
  <2> SUFFICES ASSUME exact, room PROVE View' = want
    BY DEF ExactByStep
  <2>1. /\ giter + 1 <= qlen
        /\ Deref(a1, cmtq, nvm) = want[k2]
        /\ \A l \in Location \ {k2} : View[l] = want[l]
    BY DEF SpsInv, ExactByStep
  <2>2. StartNvm = nvm
    BY <1>1, <2>1 DEF StartNvm, AtEnd, RecordInv, TypeOK
  <2>3. View \in [Location -> Val] /\ want \in [Location -> Val]
    BY DEF SpsInv, RecordInv, ClientTypes
  <2> QED
    BY <1>1, <1>3, <2>1, <2>2, <2>3
<1> QED
  BY <1>3, <1>4, <1>5 DEF SpsInv

LEMMA StillStep ==
  ASSUME SpsInv, Finish \/ UNCHANGED allvars
  PROVE  SpsInv'
<1>1. /\ UNCHANGED <<cmtq, qlen, giter, stale, PJLArray, dirties, curtxid, nvm, ub, latest>>
      /\ UNCHANGED <<k1, k2, a1, a2, want, exact, room>>
      /\ pc' = pc \/ (pc = "idle" /\ pc' = "done")
  BY DEF Finish, allvars, clientvars, vars
<1>2. View' = View /\ RecordInv' /\ LiteralInv'
  <2>1. View' = View /\ RecordInv'
    BY <1>1 DEF SpsInv, RecordInv, View, TypeOK, IndexIsNewest, Used
  <2>2. LiteralInv'
    BY <1>1 DEF SpsInv, LiteralInv
  <2> QED
    BY <2>1, <2>2
<1>3. ClientTypes' /\ NothingInvented'
  BY <1>1, <1>2 DEF SpsInv, ClientTypes, NothingInvented
<1>4. PointersByStep'
  <2>1. MyRead(k1)' = MyRead(k1) /\ MyRead(k2)' = MyRead(k2)
    BY <1>1 DEF MyRead, JLL, InSlot, InNvm
  <2> QED
    BY <1>1, <2>1 DEF SpsInv, PointersByStep, Wanted, InSlot, InNvm
<1>5. ExactByStep'
  <2>1. Swapped(View, k1, k2)' = Swapped(View, k1, k2)
    BY <1>1, <1>2 DEF Swapped
  <2> QED
    BY <1>1, <1>2, <2>1 DEF SpsInv, ExactByStep
<1> QED
  BY <1>2, <1>3, <1>4, <1>5 DEF SpsInv

-----------------------------------------------------------------------------
\* The inductive invariant of the swaps through the buffer.
THEOREM SpsInvariant == SpsSpec => []SpsInv
<1>1. SpsInv /\ [NextSps]_allvars => SpsInv'
  BY ReadBothStep, WriteFirstStep, WriteSecondStep, StillStep DEF NextSps
<1> QED
  BY <1>1, InitSpsInv, PTL DEF SpsSpec

\* Every entry always holds an object some entry held when the swap began,
\* whatever the transfers change under the two pointers.
THEOREM SwapsInventNothing == SpsSpec => []NothingInvented
<1>1. SpsInv => NothingInvented
  BY DEF SpsInv
<1> QED
  BY <1>1, SpsInvariant, PTL

\* A swap that read the right objects and had room for its two writes exchanges
\* its two entries and leaves the others.
THEOREM SwapsWithRoom == SpsSpec => []SwapWithRoomIsExact
<1>1. SpsInv => SwapWithRoomIsExact
  BY DEF SpsInv, ExactByStep, SwapWithRoomIsExact
<1> QED
  BY <1>1, SpsInvariant, PTL
=============================================================================
