----------------------------- MODULE SpsProofs ------------------------------
(***************************************************************************)
(* For any array, any number of lines of a text, any log of at least two   *)
(* records and any stride of the flush: what a crash finds in the lines    *)
(* that flush reaches can be undone from the log, and a swap that has      *)
(* returned is durable there.                                              *)
(*                                                                         *)
(* The argument follows the program counter of array_swap.  The record of  *)
(* an entry is copied, then logged (copied and durable), and it stays      *)
(* logged while the other entry gets the record after it, which is another *)
(* one because the log has at least two.  Entries are only overwritten     *)
(* when both are logged.  An entry whose flush is still to come is the     *)
(* only one of which the NVM may be behind the cache.                      *)
(***************************************************************************)
EXTENDS Sps, FiniteSetTheorems, TLAPS

Prev == (numa - 1) % LOGSIZE
Flushed == FlushedLines(LINES)

Copied(r, k) == log[r].first = k /\ log[r].second = old[k]

Logged(r, k) == /\ Copied(r, k)
                /\ logNvm[r].first = k
                /\ \A j \in Flushed : logNvm[r].second[j] = old[k]

\* The entry stored last, whose flush is the next step.
Pending(k) == (pc = "flush 1" /\ k = k1) \/ (pc = "flush 2" /\ k = k2)

\* How far the two records of the swap are.
LogByStep ==
  /\ pc = "flush log 1" => Copied(numa, k1)
  /\ pc = "log 2" => Logged(numa, k1)
  /\ pc = "flush log 2" => Logged(Prev, k1) /\ Copied(numa, k2)
  /\ pc \in {"store 1", "flush 1", "store 2", "flush 2"} => Logged(Prev, k1) /\ Logged(numa, k2)

\* The array is the old one, but for entries of which the log has the old text.
ArrayByStep ==
  /\ pc \in {"flush log 1", "log 2", "flush log 2", "store 1"} => a = old
  /\ pc \in {"flush 1", "store 2", "flush 2"} =>
       \A k \in Entry \ {k1, k2} : a[k] = old[k]
  /\ pc = "idle" =>
       \/ a = old
       \/ /\ Logged(Prev, k1) /\ Logged(numa, k2)
          /\ \A k \in Entry \ {k1, k2} : a[k] = old[k]

OnlyPendingBehind ==
  \A k \in Entry, j \in Flushed : ~Pending(k) => aNvm[k][j] = a[k]

IInv ==
  /\ TypeOK
  /\ pc \in {"idle", "flush log 1", "log 2", "flush log 2",
             "store 1", "flush 1", "store 2", "flush 2"}
  /\ LogByStep
  /\ ArrayByStep
  /\ OnlyPendingBehind

-----------------------------------------------------------------------------
\* The record before the current one, and the next one, are other records.
LEMMA Records ==
  ASSUME numa \in Record
  PROVE  /\ Prev \in Record /\ Prev # numa
         /\ (numa + 1) % LOGSIZE \in Record
         /\ (numa + 1) % LOGSIZE # numa
         /\ (((numa + 1) % LOGSIZE) - 1) % LOGSIZE = numa
<1>1. numa \in Nat /\ numa < LOGSIZE /\ LOGSIZE \in Nat /\ LOGSIZE >= 2
  BY SpsAssumption DEF Record
<1>2. numa # 0 => Prev = numa - 1
  BY <1>1 DEF Prev
<1>3. numa = 0 => Prev = LOGSIZE - 1
  BY <1>1 DEF Prev
<1>4. numa # LOGSIZE - 1 => (numa + 1) % LOGSIZE = numa + 1
  BY <1>1
<1>5. numa = LOGSIZE - 1 => (numa + 1) % LOGSIZE = 0
  BY <1>1
<1>6. numa % LOGSIZE = numa /\ (-1) % LOGSIZE = LOGSIZE - 1
  BY <1>1
<1>7. (((numa + 1) % LOGSIZE) - 1) % LOGSIZE = numa
  <2>1. CASE numa = LOGSIZE - 1
    BY <2>1, <1>1, <1>5, <1>6
  <2>2. CASE numa # LOGSIZE - 1
    <3>1. ((numa + 1) % LOGSIZE) - 1 = numa
      BY <2>2, <1>1, <1>4
    <3> QED
      BY <3>1, <1>6
  <2> QED
    BY <2>1, <2>2
<1>8. Prev \in Record /\ Prev # numa
  BY <1>1, <1>2, <1>3 DEF Record
<1>9. (numa + 1) % LOGSIZE \in Record /\ (numa + 1) % LOGSIZE # numa
  BY <1>1, <1>4, <1>5 DEF Record
<1> QED
  BY <1>7, <1>8, <1>9

\* What a flush of a whole object does to its lines.
LEMMA FlushWritesFlushed ==
  ASSUME NEW durable, NEW cached, DOMAIN durable = Line
  PROVE  WrittenBack(durable, cached) =
           [j \in Line |-> IF j \in Flushed THEN cached ELSE durable[j]]
<1>1. Cardinality(Line) = LINES
  <2>1. 0 \in Int /\ LINES - 1 \in Int /\ ~(0 > LINES - 1) /\ LINES - 1 - 0 + 1 = LINES
    BY SpsAssumption
  <2>2. Cardinality(0 .. LINES - 1) = LINES
    BY <2>1, FS_Interval
  <2> QED
    BY <2>2 DEF Line
<1> QED
  BY <1>1 DEF WrittenBack, Flushed

LEMMA FlushedAreLines == Flushed \subseteq Line
  BY DEF Flushed, FlushedLines, Line

-----------------------------------------------------------------------------
LEMMA InitIInv == Init => IInv
<1> SUFFICES ASSUME Init PROVE IInv
  OBVIOUS
<1>1. TypeOK
  BY SpsAssumption DEF Init, TypeOK, AllLines, Record, Line
<1>2. OnlyPendingBehind
  BY DEF Init, OnlyPendingBehind, AllLines, Flushed, FlushedLines, Line
<1> QED
  BY <1>1, <1>2 DEF Init, IInv, LogByStep, ArrayByStep

\* The flush of the record numa leaves it durable and the others alone.
LEMMA FlushRecordLogs ==
  ASSUME TypeOK, FlushRecord
  PROVE  /\ logNvm' \in [Record -> [first  : Entry \cup {NULL},
                                     second : [Line -> Val \cup {NULL}]]]
         /\ logNvm'[numa].first = log[numa].first
         /\ \A j \in Flushed : logNvm'[numa].second[j] = log[numa].second
         /\ \A r \in Record \ {numa} : logNvm'[r] = logNvm[r]
<1> DEFINE text == [j \in Line |-> IF j \in Flushed THEN log[numa].second
                                                    ELSE logNvm[numa].second[j]]
<1>1. numa \in Record /\ logNvm[numa].second \in [Line -> Val \cup {NULL}]
  BY DEF TypeOK
<1>2. text \in [Line -> Val \cup {NULL}] /\ \A j \in Flushed : text[j] = log[numa].second
  BY <1>1, FlushedAreLines DEF TypeOK
<1>3. WrittenBack(logNvm[numa].second, log[numa].second) = text
  <2>1. DOMAIN logNvm[numa].second = Line
    BY <1>1
  <2> QED
    BY <2>1, FlushWritesFlushed
<1>4. logNvm' = [logNvm EXCEPT ![numa] = [first |-> log[numa].first, second |-> text]]
  BY <1>3 DEF FlushRecord
<1> HIDE DEF text
<1> QED
  BY <1>1, <1>2, <1>4 DEF TypeOK

\* The copy of an entry into the next record leaves the others alone.
LEMMA AppendCopies ==
  ASSUME TypeOK, NEW k \in Entry, Append(k)
  PROVE  /\ log' \in [Record -> [first : Entry \cup {NULL}, second : Val \cup {NULL}]]
         /\ numa' \in Record /\ numa' # numa /\ Prev' = numa
         /\ log'[numa'].first = k /\ log'[numa'].second = a[k]
         /\ \A r \in Record \ {numa'} : log'[r] = log[r]
<1>1. /\ numa' = (numa + 1) % LOGSIZE
      /\ log' = [log EXCEPT ![numa'] = [first |-> k, second |-> a[k]]]
  BY DEF Append
<1>2. numa' \in Record /\ numa' # numa /\ Prev' = numa
  BY <1>1, Records DEF TypeOK, Prev
<1>3. a[k] \in Val
  BY DEF TypeOK
<1> QED
  BY <1>1, <1>2, <1>3 DEF TypeOK

\* The flush of an entry brings its lines in the NVM up to the cache.
LEMMA FlushEntryWrites ==
  ASSUME TypeOK, NEW k \in Entry, FlushEntry(k)
  PROVE  /\ aNvm' \in [Entry -> [Line -> Val]]
         /\ \A j \in Flushed : aNvm'[k][j] = a[k]
         /\ \A i \in Entry \ {k} : aNvm'[i] = aNvm[i]
<1> DEFINE text == [j \in Line |-> IF j \in Flushed THEN a[k] ELSE aNvm[k][j]]
<1>1. DOMAIN aNvm[k] = Line
  BY DEF TypeOK
<1>2. WrittenBack(aNvm[k], a[k]) = text
  BY <1>1, FlushWritesFlushed
<1>3. text \in [Line -> Val] /\ \A j \in Flushed : text[j] = a[k]
  BY FlushedAreLines DEF TypeOK
<1>4. aNvm' = [aNvm EXCEPT ![k] = text]
  BY <1>2 DEF FlushEntry
<1> HIDE DEF text
<1> QED
  BY <1>3, <1>4 DEF TypeOK

-----------------------------------------------------------------------------
LEMMA LogFirstStep ==
  ASSUME IInv, NEW i \in Entry, NEW j \in Entry, LogFirst(i, j)
  PROVE  IInv'
<1> USE DEF LogFirst
<1>1. TypeOK'
  BY AppendCopies DEF IInv, TypeOK
<1>2. LogByStep'
  BY AppendCopies DEF IInv, LogByStep, Copied
<1>3. ArrayByStep'
  BY DEF ArrayByStep
<1>4. OnlyPendingBehind'
  BY DEF IInv, OnlyPendingBehind, Pending, Flushed
<1> QED
  BY <1>1, <1>2, <1>3, <1>4 DEF IInv

LEMMA FlushLogFirstStep ==
  ASSUME IInv, FlushLogFirst
  PROVE  IInv'
<1> USE DEF FlushLogFirst
<1>1. TypeOK'
  BY FlushRecordLogs DEF IInv, TypeOK
<1>2. LogByStep'
  BY FlushRecordLogs DEF IInv, LogByStep, Copied, Logged, Flushed
<1>3. ArrayByStep'
  BY DEF IInv, ArrayByStep
<1>4. OnlyPendingBehind'
  BY DEF IInv, OnlyPendingBehind, Pending, Flushed
<1> QED
  BY <1>1, <1>2, <1>3, <1>4 DEF IInv

LEMMA LogSecondStep ==
  ASSUME IInv, LogSecond
  PROVE  IInv'
<1> USE DEF LogSecond
<1>0. TypeOK /\ k2 \in Entry /\ Append(k2) /\ a = old
  BY DEF IInv, TypeOK, ArrayByStep
<1>1. TypeOK'
  BY <1>0, AppendCopies DEF TypeOK
<1>2. LogByStep'
  <2>1. numa \in Record /\ numa # numa' /\ Prev' = numa
    BY <1>0, AppendCopies DEF TypeOK
  <2>2. Logged(numa, k1)
    BY DEF IInv, LogByStep
  <2>3. Logged(Prev, k1)'
    BY <1>0, <2>1, <2>2, AppendCopies DEF Logged, Copied, Flushed
  <2>4. Copied(numa, k2)'
    BY <1>0, AppendCopies DEF Copied
  <2> QED
    BY <2>3, <2>4 DEF LogByStep
<1>3. ArrayByStep'
  BY DEF IInv, ArrayByStep
<1>4. OnlyPendingBehind'
  BY DEF IInv, OnlyPendingBehind, Pending, Flushed
<1> QED
  BY <1>1, <1>2, <1>3, <1>4 DEF IInv

LEMMA FlushLogSecondStep ==
  ASSUME IInv, FlushLogSecond
  PROVE  IInv'
<1> USE DEF FlushLogSecond
<1>1. TypeOK'
  BY FlushRecordLogs DEF IInv, TypeOK
<1>2. LogByStep'
  <2>1. Prev' = Prev /\ Prev \in Record \ {numa}
    BY Records DEF IInv, TypeOK, Prev
  <2>2. Logged(Prev, k1)'
    BY <2>1, FlushRecordLogs DEF IInv, LogByStep, Copied, Logged, Flushed
  <2>3. Logged(numa, k2)'
    BY FlushRecordLogs DEF IInv, LogByStep, Copied, Logged, Flushed
  <2> QED
    BY <2>2, <2>3 DEF LogByStep
<1>3. ArrayByStep'
  BY DEF IInv, ArrayByStep
<1>4. OnlyPendingBehind'
  BY DEF IInv, OnlyPendingBehind, Pending, Flushed
<1> QED
  BY <1>1, <1>2, <1>3, <1>4 DEF IInv

LEMMA StoreFirstStep ==
  ASSUME IInv, StoreFirst
  PROVE  IInv'
<1> USE DEF StoreFirst, Store
<1>1. TypeOK'
  BY DEF IInv, TypeOK
<1>2. LogByStep'
  BY DEF IInv, LogByStep, Logged, Copied, Flushed, Prev
<1>3. ArrayByStep'
  BY DEF IInv, TypeOK, ArrayByStep
<1>4. OnlyPendingBehind'
  BY DEF IInv, TypeOK, OnlyPendingBehind, Pending, Flushed
<1> QED
  BY <1>1, <1>2, <1>3, <1>4 DEF IInv

LEMMA FlushFirstStep ==
  ASSUME IInv, FlushFirst
  PROVE  IInv'
<1> USE DEF FlushFirst
<1>1. TypeOK'
  BY FlushEntryWrites DEF IInv, TypeOK
<1>2. LogByStep'
  BY DEF IInv, LogByStep, Logged, Copied, Flushed, Prev
<1>3. ArrayByStep'
  BY DEF IInv, ArrayByStep
<1>4. OnlyPendingBehind'
  <2>1. k1 \in Entry
    BY DEF IInv, TypeOK
  <2> QED
    BY <2>1, FlushEntryWrites DEF IInv, OnlyPendingBehind, Pending, Flushed
<1> QED
  BY <1>1, <1>2, <1>3, <1>4 DEF IInv

LEMMA StoreSecondStep ==
  ASSUME IInv, StoreSecond
  PROVE  IInv'
<1> USE DEF StoreSecond, Store
<1>1. TypeOK'
  BY DEF IInv, TypeOK
<1>2. LogByStep'
  BY DEF IInv, LogByStep, Logged, Copied, Flushed, Prev
<1>3. ArrayByStep'
  BY DEF IInv, TypeOK, ArrayByStep
<1>4. OnlyPendingBehind'
  BY DEF IInv, TypeOK, OnlyPendingBehind, Pending, Flushed
<1> QED
  BY <1>1, <1>2, <1>3, <1>4 DEF IInv

LEMMA FlushSecondStep ==
  ASSUME IInv, FlushSecond
  PROVE  IInv'
<1> USE DEF FlushSecond
<1>1. TypeOK'
  BY FlushEntryWrites DEF IInv, TypeOK
<1>2. LogByStep'
  BY DEF IInv, LogByStep
<1>3. ArrayByStep'
  BY DEF IInv, LogByStep, ArrayByStep, Logged, Copied, Flushed, Prev
<1>4. OnlyPendingBehind'
  <2>1. k2 \in Entry
    BY DEF IInv, TypeOK
  <2> QED
    BY <2>1, FlushEntryWrites DEF IInv, OnlyPendingBehind, Pending, Flushed
<1> QED
  BY <1>1, <1>2, <1>3, <1>4 DEF IInv

LEMMA EvictEntryStep ==
  ASSUME IInv, NEW k \in Entry, NEW j \in Line, EvictEntry(k, j)
  PROVE  IInv'
<1> USE DEF EvictEntry
<1>1. TypeOK'
  BY DEF IInv, TypeOK
<1>2. LogByStep'
  BY DEF IInv, LogByStep, Logged, Copied, Flushed, Prev
<1>3. ArrayByStep'
  BY DEF IInv, ArrayByStep, Logged, Copied, Flushed, Prev
<1>4. OnlyPendingBehind'
  BY DEF IInv, TypeOK, OnlyPendingBehind, Pending, Flushed, FlushedLines, Line
<1> QED
  BY <1>1, <1>2, <1>3, <1>4 DEF IInv

\* A record that is logged is the same in the cache, so writing back any of it
\* changes nothing.
LEMMA EvictKeepsLogged ==
  ASSUME TypeOK, NEW r \in Record, EvictRecord(r), NEW s \in Record, NEW k, Logged(s, k)
  PROVE  Logged(s, k)'
<1>1. Flushed \subseteq Line
  BY FlushedAreLines
<1>2. CASE logNvm' = [logNvm EXCEPT ![r].first = log[r].first]
  BY <1>2 DEF TypeOK, EvictRecord, Logged, Copied, Flushed
<1>3. ASSUME NEW j \in Line, logNvm' = [logNvm EXCEPT ![r].second[j] = log[r].second]
      PROVE  Logged(s, k)'
  BY <1>1, <1>3 DEF TypeOK, EvictRecord, Logged, Copied, Flushed
<1> QED
  BY <1>2, <1>3 DEF EvictRecord

LEMMA EvictRecordStep ==
  ASSUME IInv, NEW r \in Record, EvictRecord(r)
  PROVE  IInv'
<1>1. TypeOK'
  <2>1. logNvm' \in [Record -> [first  : Entry \cup {NULL}, second : [Line -> Val \cup {NULL}]]]
    <3>1. CASE logNvm' = [logNvm EXCEPT ![r].first = log[r].first]
      BY <3>1 DEF IInv, TypeOK
    <3>2. ASSUME NEW j \in Line, logNvm' = [logNvm EXCEPT ![r].second[j] = log[r].second]
          PROVE  logNvm' \in [Record -> [first  : Entry \cup {NULL},
                                         second : [Line -> Val \cup {NULL}]]]
      BY <3>2 DEF IInv, TypeOK
    <3> QED
      BY <3>1, <3>2 DEF EvictRecord
  <2> QED
    BY <2>1 DEF IInv, TypeOK, EvictRecord
<1>2. Prev' = Prev /\ Prev \in Record /\ numa' = numa /\ numa \in Record
  BY Records DEF IInv, TypeOK, EvictRecord, Prev
<1>3. \A s \in Record, k \in Entry : Logged(s, k) => Logged(s, k)'
  BY EvictKeepsLogged DEF IInv
<1>4. UNCHANGED <<a, aNvm, log, numa, pc, k1, k2, old>> /\ k1 \in Entry /\ k2 \in Entry
  BY DEF EvictRecord, IInv, TypeOK
<1>5. LogByStep'
  <2>1. \A s \in Record, k \in Entry : Copied(s, k)' <=> Copied(s, k)
    BY <1>4 DEF Copied
  <2> QED
    BY <1>2, <1>3, <1>4, <2>1 DEF IInv, LogByStep
<1>6. ArrayByStep'
  BY <1>2, <1>3, <1>4 DEF IInv, ArrayByStep
<1>7. OnlyPendingBehind'
  BY <1>4 DEF IInv, OnlyPendingBehind, Pending, Flushed
<1> QED
  BY <1>1, <1>4, <1>5, <1>6, <1>7 DEF IInv

\* The inductive invariant of the logged swap.
THEOREM SwapInvariant == Spec => []IInv
<1>1. IInv /\ [Next]_vars => IInv'
  <2> SUFFICES ASSUME IInv, [Next]_vars PROVE IInv'
    OBVIOUS
  <2>1. CASE UNCHANGED vars
    BY <2>1 DEF vars, IInv, TypeOK, LogByStep, ArrayByStep, OnlyPendingBehind, Pending,
                Logged, Copied, Flushed, Prev
  <2>2. CASE ArraySwap
    BY <2>2, LogFirstStep, FlushLogFirstStep, LogSecondStep, FlushLogSecondStep,
       StoreFirstStep, FlushFirstStep, StoreSecondStep, FlushSecondStep DEF ArraySwap
  <2> QED
    BY <2>1, <2>2, EvictEntryStep, EvictRecordStep DEF Next
<1> QED
  BY <1>1, InitIInv, PTL DEF Spec

THEOREM SwapTypes == Spec => []TypeOK
<1>1. IInv => TypeOK
  BY DEF IInv
<1> QED
  BY <1>1, SwapInvariant, PTL

\* A crash at any step of array_swap, after any early write-backs, leaves for
\* every flushed line its old text or a durable record of it.
THEOREM CrashIsUndoable == Spec => []FlushedLinesUndoable
<1>1. IInv => FlushedLinesUndoable
  <2> SUFFICES ASSUME IInv, NEW k \in Entry, NEW j \in Flushed
               PROVE  \/ aNvm[k][j] = old[k]
                      \/ \E r \in {numa, Prev} :
                           logNvm[r].first = k /\ logNvm[r].second[j] = old[k]
    BY DEF FlushedLinesUndoable, Flushed, Prev
  <2>1. ASSUME Logged(Prev, k1), Logged(numa, k2), k \in {k1, k2}
        PROVE  \E r \in {numa, Prev} : logNvm[r].first = k /\ logNvm[r].second[j] = old[k]
    BY <2>1 DEF Logged
  <2>2. CASE a = old /\ ~Pending(k)
    BY <2>2 DEF IInv, OnlyPendingBehind
  <2>3. CASE k \notin {k1, k2} /\ \A i \in Entry \ {k1, k2} : a[i] = old[i]
    BY <2>3 DEF IInv, OnlyPendingBehind, Pending
  <2> QED
    BY <2>1, <2>2, <2>3 DEF IInv, LogByStep, ArrayByStep, Pending
<1> QED
  BY <1>1, SwapInvariant, PTL

\* When array_swap has returned, its entries and all others are in the NVM as
\* far as its flushes reach.
THEOREM ReturnedIsDurable == Spec => []FlushedLinesDurable
<1>1. IInv => FlushedLinesDurable
  BY DEF IInv, OnlyPendingBehind, Pending, FlushedLinesDurable, Flushed
<1> QED
  BY <1>1, SwapInvariant, PTL
=============================================================================
