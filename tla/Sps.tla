-------------------------------- MODULE Sps ---------------------------------
(***************************************************************************)
(* src/Sps/sps.cc: random swaps of the entries of an array in NVM, made    *)
(* recoverable by hand: array_swap copies both entries to a log, flushes   *)
(* and fences, then writes and flushes the entries.                        *)
(*                                                                         *)
(* An entry and the text of a log record are objects of LINES cache lines. *)
(* The program sees whole objects (a, log); the NVM keeps a value per line *)
(* (aNvm, logNvm).  A flush writes the lines flush.h reaches, and the      *)
(* hardware may write any line back at any time.  A crash can happen in    *)
(* every state and leaves aNvm and logNvm, so what a crash needs is an     *)
(* invariant of them.  clflush takes effect in program order and mfence    *)
(* waits for it, so each flush is one step at its place in the program.    *)
(***************************************************************************)
EXTENDS Flush

CONSTANTS
  Entry,      \* the entries of the array
  Val,        \* the texts they hold
  NULL,       \* what a log record holds before its first use
  LINES,      \* cache lines of a text (256 bytes: 4, or 5 when it straddles)
  LOGSIZE     \* records of the log (1000000 in the code)

ASSUME SpsAssumption == /\ LINES \in Nat \ {0}
                        /\ LOGSIZE \in Nat /\ LOGSIZE >= 2
                        /\ NULL \notin Val /\ NULL \notin Entry

VARIABLES
  a, aNvm,        \* the array: in the cache, and line by line in the NVM
  log, logNvm,    \* the log: records [first, second]
  numa,           \* the record written last
  pc, k1, k2,     \* the step array_swap is at, and the entries it swaps
  temp,           \* its copy of a[k1]
  old             \* history: the array when the swap began

vars == <<a, aNvm, log, logNvm, numa, pc, k1, k2, temp, old>>

Line == 0 .. LINES - 1
Record == 0 .. LOGSIZE - 1
AllLines(v) == [j \in Line |-> v]

\* build_array: distinct objects, and a log of empty texts.
Init ==
  /\ a \in [Entry -> Val]
  /\ aNvm = [k \in Entry |-> AllLines(a[k])]
  /\ log = [r \in Record |-> [first |-> NULL, second |-> NULL]]
  /\ logNvm = [r \in Record |-> [first |-> NULL, second |-> AllLines(NULL)]]
  /\ numa = 0
  /\ pc = "idle"
  /\ k1 \in Entry /\ k2 = k1
  /\ temp = a[k1]
  /\ old = a

-----------------------------------------------------------------------------
\* For mutation: the counter does not wrap.
AppendNoWrap(k) ==
  /\ numa' = numa + 1
  /\ log' = [log EXCEPT ![numa'] = [first |-> k, second |-> a[k]]]

\* ++numa%=LOGSIZE; log[numa].first=k; strcpy(log[numa].second,a[k]);
Append(k) ==
  /\ numa' = (numa + 1) % LOGSIZE
  /\ log' = [log EXCEPT ![numa'] = [first |-> k, second |-> a[k]]]

\* For mutation: only the pair of the record is flushed, not its text.
FlushRecordHead == logNvm' = [logNvm EXCEPT ![numa].first = log[numa].first]

\* flush(&log[numa].first,64); flush(log[numa].second,256);
FlushRecord ==
  logNvm' = [logNvm EXCEPT ![numa] =
               [first  |-> log[numa].first,
                second |-> WrittenBack(@.second, log[numa].second)]]

\* strcpy(a[k],text) and, a step later, flush(a[k],256).
Store(k, text) == a' = [a EXCEPT ![k] = text]
FlushNothing(k) == UNCHANGED aNvm    \* for mutation
FlushEntry(k)  == aNvm' = [aNvm EXCEPT ![k] = WrittenBack(@, a[k])]

LogFirst(i, j) ==
  /\ pc = "idle" /\ pc' = "flush log 1"
  /\ k1' = i /\ k2' = j
  /\ old' = a
  /\ Append(i)
  /\ UNCHANGED <<a, aNvm, logNvm, temp>>

FlushLogFirst ==
  /\ pc = "flush log 1" /\ pc' = "log 2"
  /\ FlushRecord
  /\ UNCHANGED <<a, aNvm, log, numa, k1, k2, temp, old>>

LogSecond ==
  /\ pc = "log 2" /\ pc' = "flush log 2"
  /\ Append(k2)
  /\ UNCHANGED <<a, aNvm, logNvm, k1, k2, temp, old>>

\* The flush of the second record and the mfence after it.
FlushLogSecond ==
  /\ pc = "flush log 2" /\ pc' = "store 1"
  /\ FlushRecord
  /\ UNCHANGED <<a, aNvm, log, numa, k1, k2, temp, old>>

StoreFirst ==
  /\ pc = "store 1" /\ pc' = "flush 1"
  /\ temp' = a[k1]
  /\ Store(k1, a[k2])
  /\ UNCHANGED <<aNvm, log, logNvm, numa, k1, k2, old>>

FlushFirst ==
  /\ pc = "flush 1" /\ pc' = "store 2"
  /\ FlushEntry(k1)
  /\ UNCHANGED <<a, log, logNvm, numa, k1, k2, temp, old>>

StoreSecond ==
  /\ pc = "store 2" /\ pc' = "flush 2"
  /\ Store(k2, temp)
  /\ UNCHANGED <<aNvm, log, logNvm, numa, k1, k2, temp, old>>

\* The flush of the second entry and the mfence array_swap ends with.
FlushSecond ==
  /\ pc = "flush 2" /\ pc' = "idle"
  /\ FlushEntry(k2)
  /\ UNCHANGED <<a, log, logNvm, numa, k1, k2, temp, old>>

-----------------------------------------------------------------------------
\* The cache writes a line back on its own account.
EvictEntry(k, j) ==
  /\ aNvm' = [aNvm EXCEPT ![k][j] = a[k]]
  /\ UNCHANGED <<a, log, logNvm, numa, pc, k1, k2, temp, old>>

EvictRecord(r) ==
  /\ \/ logNvm' = [logNvm EXCEPT ![r].first = log[r].first]
     \/ \E j \in Line : logNvm' = [logNvm EXCEPT ![r].second[j] = log[r].second]
  /\ UNCHANGED <<a, aNvm, log, numa, pc, k1, k2, temp, old>>

ArraySwap ==
  \/ \E i, j \in Entry : LogFirst(i, j)
  \/ FlushLogFirst \/ LogSecond \/ FlushLogSecond
  \/ StoreFirst \/ FlushFirst \/ StoreSecond \/ FlushSecond

Next ==
  \/ ArraySwap
  \/ \E k \in Entry, j \in Line : EvictEntry(k, j)
  \/ \E r \in Record : EvictRecord(r)

Spec == Init /\ [][Next]_vars

-----------------------------------------------------------------------------
TypeOK ==
  /\ a \in [Entry -> Val]
  /\ aNvm \in [Entry -> [Line -> Val]]
  /\ log \in [Record -> [first : Entry \cup {NULL}, second : Val \cup {NULL}]]
  /\ logNvm \in [Record -> [first  : Entry \cup {NULL},
                            second : [Line -> Val \cup {NULL}]]]
  /\ numa \in Record
  /\ k1 \in Entry /\ k2 \in Entry
  /\ temp \in Val
  /\ old \in [Entry -> Val]

\* What a crash leaves of a line that flush reaches is what the line held when
\* the swap began, or a record of this swap in the NVM still tells it: the
\* fences of array_swap put the log before the data, whatever lines the cache
\* writes back early, also when the log wraps inside the swap.
FlushedLinesUndoable ==
  \A k \in Entry, j \in FlushedLines(LINES) :
    \/ aNvm[k][j] = old[k]
    \/ \E r \in {numa, (numa - 1) % LOGSIZE} :
         logNvm[r].first = k /\ logNvm[r].second[j] = old[k]

\* A swap that has returned is in the NVM as far as flush reaches, so the next
\* one may reuse its log records (array_swap).  The other lines of the 256 bytes
\* may stay in the cache.
FlushedLinesDurable ==
  pc = "idle" => \A k \in Entry, j \in FlushedLines(LINES) : aNvm[k][j] = a[k]
=============================================================================
