----------------------------- MODULE HashProofs -----------------------------
(***************************************************************************)
(* What is true of HashTable and HashLog for every table, every log and    *)
(* every stride of the flush.                                              *)
(*                                                                         *)
(* Of the table: each key is kept in the cell it hashes to, so each turn   *)
(* takes exactly one key out or puts it in.  From its hash, the first cell *)
(* that holds a key, or is free for it, is the hash itself, because no     *)
(* other key may stand there.                                              *)
(*                                                                         *)
(* Of the log: HashLog goes through the states of HashTable, the first     *)
(* line of an item stays in the NVM from its flush on, and the newest      *)
(* record of a cell in the NVM has the text the cell has there.  The last  *)
(* rests on an invariant about the log in the cache: no slot but the one   *)
(* being written is behind there, and the newest record of a cell follows  *)
(* its text.                                                               *)
(***************************************************************************)
EXTENDS HashLog, TLAPS, WellFoundedInduction

\* A key hashes to itself, and probing is back at the hash after no steps only.
LEMMA HashIsKey ==
  ASSUME NEW key \in Key
  PROVE  /\ hashCode(key) = key
         /\ Probe(key, 0) = key
  BY TableAssumption DEF Key, Cell, hashCode, Probe

LEMMA ProbeAway ==
  ASSUME NEW key \in Key, NEW j \in Cell, j # 0
  PROVE  Probe(key, j) \in Cell \ {key}
<1>1. key \in Int /\ j \in Int /\ 0 <= key /\ key < hashtable_size /\ 0 < j /\ j < hashtable_size
  BY TableAssumption DEF Key, Cell
<1>2. Probe(key, j) = (key + j) % hashtable_size
  BY HashIsKey DEF Probe
<1>3. CASE key + j < hashtable_size
  BY <1>1, <1>2, <1>3, TableAssumption DEF Cell
<1>4. CASE key + j >= hashtable_size
  <2>1. (key + j) % hashtable_size = key + j - hashtable_size
    BY <1>1, <1>4, TableAssumption
  <2> QED
    BY <1>1, <1>2, <2>1, TableAssumption DEF Cell
<1> QED
  BY <1>1, <1>3, <1>4, TableAssumption

\* The least element of a set of numbers that starts at 0.
LEMMA MinIsZero ==
  ASSUME NEW S, S \subseteq Nat, 0 \in S
  PROVE  Min(S) = 0
<1>1. \A i \in S : 0 <= i
  OBVIOUS
<1>2. Min(S) \in S /\ \A i \in S : Min(S) <= i
  BY <1>1, Zenon DEF Min
<1>3. Min(S) \in Nat
  BY <1>2, Zenon
<1> QED
  BY <1>2, <1>3

\* The probe stops at once at a home cell that holds what it looks for.
LEMMA FirstCellHome ==
  ASSUME NEW key \in Key, NEW what, hashArray[key] = what
  PROVE  FirstCell(key, what) = key
<1> DEFINE steps == {j \in Cell : hashArray[Probe(key, j)] = what}
<1>1. steps \subseteq Nat /\ 0 \in steps
  BY HashIsKey, TableAssumption DEF Cell
<1>2. Min(steps) = 0
  BY <1>1, MinIsZero
<1> QED
  BY <1>1, <1>2, HashIsKey DEF FirstCell

\* A key that is not at home is nowhere.
LEMMA SearchMisses ==
  ASSUME NEW key \in Key, HomeOnly, hashArray[key] # key
  PROVE  Search(key) = NULL
<1>1. ASSUME NEW j \in Cell PROVE hashArray[Probe(key, j)] # key
  <2>1. CASE j = 0
    BY <2>1, HashIsKey
  <2>2. CASE j # 0
    <3>1. Probe(key, j) \in Cell \ {key}
      BY <2>2, ProbeAway
    <3>2. hashArray[Probe(key, j)] \in {Probe(key, j), -1} /\ key # -1
      BY <3>1 DEF HomeOnly, Empty, Key
    <3> QED
      BY <3>1, <3>2
  <2> QED
    BY <2>1, <2>2
<1> QED
  BY <1>1 DEF Search, FirstCell

-----------------------------------------------------------------------------
\* One turn: the home cell of the key changes from full to empty or back.
LEMMA TurnFlipsHome ==
  ASSUME TypeOK, HomeOnly, NEW key \in Key, Operate(key)
  PROVE  hashArray' = [hashArray EXCEPT ![key] = IF hashArray[key] = key THEN Empty ELSE key]
<1>1. key \in Cell /\ key # NULL
  BY DEF Key, Cell, NULL
<1>2. CASE hashArray[key] = key
  <2>1. Search(key) = key
    BY <1>2, FirstCellHome DEF Search
  <2> QED
    BY <1>1, <1>2, <2>1 DEF Operate, DeleteH
<1>3. CASE hashArray[key] # key
  <2>1. Search(key) = NULL /\ hashArray[key] = Empty
    BY <1>1, <1>3, SearchMisses DEF HomeOnly
  <2>2. FirstCell(key, Empty) = key
    BY <2>1, FirstCellHome
  <2> QED
    BY <1>1, <1>3, <2>1, <2>2 DEF Operate, InsertH
<1> QED
  BY <1>2, <1>3

\* The type of the table and the place of every key, together inductive.
THEOREM KeysStayHome == Spec => [](TypeOK /\ HomeOnly)
<1>1. Init => TypeOK /\ HomeOnly
  BY DEF Init, TypeOK, HomeOnly, Cell, Key
<1>2. TypeOK /\ HomeOnly /\ [Next]_vars => (TypeOK /\ HomeOnly)'
  <2> SUFFICES ASSUME TypeOK, HomeOnly, [Next]_vars PROVE (TypeOK /\ HomeOnly)'
    OBVIOUS
  <2>1. ASSUME NEW key \in Key, Operate(key) PROVE (TypeOK /\ HomeOnly)'
    <3>1. hashArray' = [hashArray EXCEPT ![key] = IF hashArray[key] = key THEN Empty ELSE key]
      BY <2>1, TurnFlipsHome
    <3>2. temp' = key
      BY <2>1 DEF Operate
    <3> QED
      BY <3>1, <3>2 DEF TypeOK, HomeOnly, Key, Cell
  <2>2. CASE UNCHANGED vars
    BY <2>2 DEF vars, TypeOK, HomeOnly
  <2> QED
    BY <2>1, <2>2 DEF Next
<1> QED
  BY <1>1, <1>2, PTL DEF Spec

\* Every turn of main takes its key out of the table or puts it in, and
\* leaves all the others: no search misses a key, no insertion is dropped.
THEOREM TurnsToggle == Spec => EachTurnToggles
<1> DEFINE Toggle ==
      Present' = IF temp' \in Present THEN Present \ {temp'} ELSE Present \cup {temp'}
<1>1. TypeOK /\ HomeOnly /\ [Next]_vars => [Toggle]_vars
  <2> SUFFICES ASSUME TypeOK, HomeOnly, NEW key \in Key, Operate(key) PROVE Toggle
    BY DEF Next
  <2>1. temp' = key /\ key \in Cell /\ key # Empty
    BY DEF Operate, Key, Cell, Empty
  <2>2. hashArray' = [hashArray EXCEPT ![key] = IF hashArray[key] = key THEN Empty ELSE key]
    BY TurnFlipsHome
  <2>3. \A i \in Cell : i \in Present <=> hashArray[i] = i
    BY DEF Present, HomeOnly, Empty, Cell
  <2>4. Present \subseteq Cell
    BY DEF Present, HomeOnly
  <2>5. (TypeOK /\ HomeOnly)'
    BY <2>1, <2>2 DEF TypeOK, HomeOnly, Key, Cell
  <2>6. \A i \in Cell : i \in Present' <=> hashArray'[i] = i
    BY <2>5 DEF Present, HomeOnly, Empty, Cell
  <2>7. Present' \subseteq Cell
    BY <2>5 DEF Present, HomeOnly
  <2> QED
    BY <2>1, <2>2, <2>3, <2>4, <2>6, <2>7 DEF TypeOK
<1> QED
  BY <1>1, KeysStayHome, PTL DEF Spec, EachTurnToggles

-----------------------------------------------------------------------------
\* A turn that reaches its stores is a turn of HashTable; nothing else touches
\* the table.
THEOREM LogImplementsTable == LogSpec => Spec
<1>1. LogInit => Init
  BY DEF LogInit
<1>2. [LogNext]_logVars => [Next]_vars
  <2> SUFFICES ASSUME [LogNext]_logVars PROVE Next \/ UNCHANGED vars
    OBVIOUS
  <2>1. ASSUME NEW key \in Key, NEW string \in Text, Change(key, string) PROVE Next
    BY <2>1 DEF Change, Next
  <2>2. CASE FlushItem \/ Append \/ FlushLog
    BY <2>2 DEF FlushItem, Append, FlushLog, vars
  <2>3. ASSUME NEW i, NEW line, EvictItem(i, line) \/ EvictRecord(i, line)
        PROVE  UNCHANGED vars
    BY <2>3 DEF EvictItem, EvictRecord, vars
  <2>4. CASE UNCHANGED logVars
    BY <2>4 DEF logVars, vars
  <2> QED
    BY <2>1, <2>2, <2>3, <2>4 DEF LogNext
<1> QED
  BY <1>1, <1>2, PTL DEF LogSpec, Spec

-----------------------------------------------------------------------------
\* flush reaches the line its pointer starts in.
LEMMA FirstLineFlushed == 0 \in FlushedLines(LINES) /\ 0 \in Line
<1>1. STRIDE * 0 = 0
  BY StrideAssumption
<1>2. 0 \in 0 .. LINES - 1
  BY DEF LINES
<1>3. 0 \in {STRIDE * i : i \in 0 .. LINES - 1}
  BY <1>1, <1>2
<1> QED
  BY <1>2, <1>3 DEF FlushedLines, Line

\* A turn stores to the home cell of its key.
LEMMA TargetIsHome ==
  ASSUME TypeOK, HomeOnly, NEW key \in Key
  PROVE  Target(key) = key
<1>1. key \in Cell /\ key # NULL
  BY DEF Key, Cell, NULL
<1>2. CASE hashArray[key] = key
  BY <1>1, <1>2, FirstCellHome DEF Target, Search
<1>3. CASE hashArray[key] # key
  <2>1. Search(key) = NULL /\ hashArray[key] = Empty
    BY <1>1, <1>3, SearchMisses DEF HomeOnly
  <2> QED
    BY <2>1, FirstCellHome DEF Target
<1> QED
  BY <1>2, <1>3

\* What FlushedTextDurable rests on: the cells a turn has changed are cells,
\* and both lines of each are there.
Lined ==
  /\ DOMAIN nvmArray = Cell /\ \A i \in Cell : DOMAIN nvmArray[i] = Line
  /\ DOMAIN text = Cell
  /\ changed \subseteq Cell

DurableInv == Lined /\ FlushedTextDurable

\* The stores of a turn: the item changes and is the one still to be flushed.
LEMMA ChangeKeepsDurable ==
  ASSUME DurableInv, TypeOK, HomeOnly,
         NEW key \in Key, NEW string \in Text, Change(key, string)
  PROVE  DurableInv'
<1>1. Target(key) = key /\ key # NULL /\ key \in Cell
  BY TargetIsHome DEF Key, Cell, NULL
<1>2. /\ \E new : text' = [text EXCEPT ![key] = new]
      /\ pc = "main" /\ pc' = "flush item" /\ item' = key
      /\ changed' = changed \cup {key}
      /\ nvmArray' = nvmArray
  BY <1>1 DEF Change
<1>3. Lined'
  BY <1>1, <1>2 DEF DurableInv, Lined
<1>4. \A i \in changed : nvmArray[i][0] = text[i]
  BY <1>2 DEF DurableInv, FlushedTextDurable
<1>5. \A i \in changed' : i = item' \/ (i \in changed /\ text'[i] = text[i])
  BY <1>2 DEF DurableInv, Lined
<1>6. FlushedTextDurable'
  BY <1>2, <1>4, <1>5 DEF FlushedTextDurable
<1> QED
  BY <1>3, <1>6 DEF DurableInv

\* The flush brings the first line of the item to the NVM.
LEMMA FlushKeepsDurable ==
  ASSUME DurableInv, FlushItem
  PROVE  DurableInv'
<1>1. /\ nvmArray' = [nvmArray EXCEPT ![item] = Flushed(nvmArray[item], Item(item))]
      /\ pc = "flush item" /\ pc' = "log"
      /\ UNCHANGED <<text, item, changed>>
  BY DEF FlushItem
<1>2. \A d, c : DOMAIN Flushed(d, c) = Line /\ Flushed(d, c)[0] = c[0]
  BY FirstLineFlushed DEF Flushed
<1>3. Item(item)[0] = text[item]
  BY FirstLineFlushed DEF Item, Lines
<1>4. \A i \in Cell : nvmArray'[i] = IF i = item THEN Flushed(nvmArray[item], Item(item)) ELSE nvmArray[i]
  BY <1>1 DEF DurableInv, Lined
<1>5. Lined'
  BY <1>1, <1>2, <1>4 DEF DurableInv, Lined
<1>6. \A i \in changed' : nvmArray'[i][0] = text'[i]
  <2>1. SUFFICES ASSUME NEW i \in changed PROVE nvmArray'[i][0] = text[i]
    BY <1>1
  <2>2. i \in Cell
    BY DEF DurableInv, Lined
  <2>3. CASE i = item
    BY <1>2, <1>3, <1>4, <2>2, <2>3
  <2>4. CASE i # item
    BY <1>4, <2>2, <2>4 DEF DurableInv, FlushedTextDurable
  <2> QED
    BY <2>3, <2>4
<1> QED
  BY <1>5, <1>6 DEF DurableInv, FlushedTextDurable

\* A line the hardware writes back only brings the NVM up to the cache.
LEMMA EvictKeepsDurable ==
  ASSUME DurableInv, NEW k \in Cell, NEW line \in Line, EvictItem(k, line)
  PROVE  DurableInv'
<1>1. /\ nvmArray' = [nvmArray EXCEPT ![k] = [nvmArray[k] EXCEPT ![line] = Item(k)[line]]]
      /\ UNCHANGED <<text, item, changed, pc>>
  BY DEF EvictItem
<1>2. Item(k)[0] = text[k]
  BY FirstLineFlushed DEF Item, Lines
<1>3. \A i \in Cell : /\ DOMAIN nvmArray'[i] = Line
                      /\ nvmArray'[i][0] \in {nvmArray[i][0], text[i]}
  <2>1. \A i \in Cell : i # k => nvmArray'[i] = nvmArray[i]
    BY <1>1 DEF DurableInv, Lined
  <2>2. nvmArray'[k] = [nvmArray[k] EXCEPT ![line] = Item(k)[line]]
    BY <1>1 DEF DurableInv, Lined
  <2>3. DOMAIN nvmArray'[k] = Line /\ nvmArray'[k][0] \in {nvmArray[k][0], Item(k)[0]}
    BY <2>2, FirstLineFlushed DEF DurableInv, Lined
  <2> QED
    BY <1>2, <2>1, <2>3 DEF DurableInv, Lined
<1>4. Lined'
  BY <1>1, <1>3 DEF DurableInv, Lined
<1>5. FlushedTextDurable'
  BY <1>1, <1>3 DEF DurableInv, Lined, FlushedTextDurable
<1> QED
  BY <1>4, <1>5 DEF DurableInv

LEMMA DurableInitially == LogInit => DurableInv
BY DEF LogInit, DurableInv, Lined, FlushedTextDurable, Lines

LEMMA DurableStep == DurableInv /\ TypeOK /\ HomeOnly /\ [LogNext]_logVars => DurableInv'
<1> SUFFICES ASSUME DurableInv, TypeOK, HomeOnly, [LogNext]_logVars PROVE DurableInv'
  OBVIOUS
<1>1. ASSUME NEW key \in Key, NEW string \in Text, Change(key, string) PROVE DurableInv'
  BY <1>1, ChangeKeepsDurable
<1>2. CASE FlushItem
  BY <1>2, FlushKeepsDurable
<1>3. ASSUME NEW i \in Cell, NEW line \in Line, EvictItem(i, line) PROVE DurableInv'
  BY <1>3, EvictKeepsDurable
<1>4. ASSUME UNCHANGED <<nvmArray, text, item, changed>>,
             pc' = pc \/ (pc = "log" /\ pc' = "flush log") \/ (pc = "flush log" /\ pc' = "main")
      PROVE  DurableInv'
  BY <1>4 DEF DurableInv, Lined, FlushedTextDurable
<1>5. CASE Append \/ FlushLog \/ UNCHANGED logVars
  BY <1>4, <1>5 DEF Append, FlushLog, logVars
<1>6. ASSUME NEW s \in Slot, NEW line \in Line, EvictRecord(s, line) PROVE DurableInv'
  BY <1>4, <1>6 DEF EvictRecord
<1> QED
  BY <1>1, <1>2, <1>3, <1>5, <1>6 DEF LogNext

\* Whatever other turns store and whatever lines the cache writes back, an item
\* that was flushed keeps its first line in the NVM until it changes again.
THEOREM FlushedStaysDurable == LogSpec => []FlushedTextDurable
<1>1. DurableInv => FlushedTextDurable
  BY DEF DurableInv
<1> QED
  BY <1>1, DurableInitially, DurableStep, LogImplementsTable, KeysStayHome, PTL DEF LogSpec

-----------------------------------------------------------------------------
\* What LogExplainsTexts rests on.
IsRecord(record) ==
  /\ DOMAIN record = Line
  /\ record[0] \in (Cell \cup {NULL}) \X (Text \cup {Blank})
  /\ record[LINES - 1] \in Key \cup {Empty}

Typed ==
  /\ text \in [Cell -> Text \cup {Blank}]
  /\ numa \in Slot
  /\ pc \in {"main", "flush item", "log", "flush log"}
  /\ item \in Cell
  /\ changed \subseteq Cell
  /\ DOMAIN log = Slot /\ DOMAIN nvmLog = Slot
  /\ \A s \in Slot : IsRecord(log[s]) /\ IsRecord(nvmLog[s])

\* The cell a record of the cache leads to, and the records that no other of
\* the same cell came after.
CellOf(s) == log[s][0][1]
IsNewest(s) == \A other \in Slot : CellOf(other) = CellOf(s) => Age(s) <= Age(other)

\* Only the record that is being written may be behind in the NVM.
NvmFollows ==
  \A s \in Slot : nvmLog[s][0] = log[s][0] \/ (pc = "flush log" /\ s = numa)

OnlyChanged ==
  /\ \A s \in Slot : CellOf(s) # NULL => CellOf(s) \in changed
  /\ pc # "main" => item \in changed

\* The newest record of a cell has its text, but for a turn that has stored the
\* one and not yet the other.
NewestHasText ==
  \A s \in Slot :
    CellOf(s) # NULL /\ IsNewest(s) =>
      \/ log[s][0][2] = text[CellOf(s)]
      \/ pc \in {"flush item", "log"} /\ CellOf(s) = item

LastIsItem == pc = "flush log" => log[numa][0] = <<item, text[item]>>

LogInv == Typed /\ NvmFollows /\ OnlyChanged /\ NewestHasText /\ LastIsItem

\* Age counts backwards from the last record, once around the log.
LEMMA AgeIs ==
  ASSUME numa \in Slot, NEW s \in Slot
  PROVE  /\ Age(s) = IF s <= numa THEN numa - s ELSE numa - s + LOGSIZE
         /\ Age(s) \in 0 .. LOGSIZE - 1
<1>1. LOGSIZE \in Nat \ {0} /\ numa \in Int /\ s \in Int
  BY LogAssumption DEF Slot
<1>2. 0 <= numa /\ numa < LOGSIZE /\ 0 <= s /\ s < LOGSIZE
  BY <1>1 DEF Slot
<1>3. CASE s <= numa
  BY <1>1, <1>2, <1>3 DEF Age
<1>4. CASE s > numa
  <2>1. (numa - s) % LOGSIZE = numa - s + LOGSIZE
    BY <1>1, <1>2, <1>4
  <2> QED
    BY <1>1, <1>2, <1>4, <2>1 DEF Age
<1> QED
  BY <1>1, <1>3, <1>4

\* When numa moves on, the record it comes to, the oldest, is the youngest, and
\* every other is older by one.
LEMMA AgeMovesOn ==
  ASSUME numa \in Slot, numa' = (numa + 1) % LOGSIZE
  PROVE  /\ numa' \in Slot
         /\ \A s \in Slot : IF s = numa' THEN Age(s) = LOGSIZE - 1 /\ Age(s)' = 0
                                        ELSE Age(s)' = Age(s) + 1
<1>1. LOGSIZE \in Nat \ {0} /\ numa \in Int
  BY LogAssumption DEF Slot
<1>2. 0 <= numa /\ numa < LOGSIZE
  BY <1>1 DEF Slot
<1>3. numa' = IF numa = LOGSIZE - 1 THEN 0 ELSE numa + 1
  <2>1. CASE numa = LOGSIZE - 1
    BY <1>1, <2>1
  <2>2. CASE numa < LOGSIZE - 1
    BY <1>1, <1>2, <2>2
  <2> QED
    BY <1>1, <1>2, <2>1, <2>2
<1>4. numa' \in Slot
  BY <1>1, <1>2, <1>3 DEF Slot
<1>5. \A s \in Slot : s = numa' => Age(s) = LOGSIZE - 1
  BY <1>1, <1>2, <1>3, <1>4, AgeIs
<1>6. \A s \in Slot : Age(s)' = (numa' - s) % LOGSIZE
  BY DEF Age
<1>7. \A s \in Slot : Age(s)' = IF s <= numa' THEN numa' - s ELSE numa' - s + LOGSIZE
  <2> SUFFICES ASSUME NEW s \in Slot
               PROVE  Age(s)' = IF s <= numa' THEN numa' - s ELSE numa' - s + LOGSIZE
    OBVIOUS
  <2>1. s \in Int /\ 0 <= s /\ s < LOGSIZE /\ numa' \in Int /\ 0 <= numa' /\ numa' < LOGSIZE
    BY <1>1, <1>4 DEF Slot
  <2>2. CASE s <= numa'
    BY <1>1, <1>6, <2>1, <2>2
  <2>3. CASE s > numa'
    <3>1. (numa' - s) % LOGSIZE = numa' - s + LOGSIZE
      BY <1>1, <2>1, <2>3
    <3> QED
      BY <1>1, <1>6, <2>1, <2>3, <3>1
  <2> QED
    BY <2>1, <2>2, <2>3
<1>8. ASSUME NEW s \in Slot, s = numa' PROVE Age(s)' = 0
  <2>1. s \in Int /\ s <= numa'
    BY <1>1, <1>8 DEF Slot
  <2>2. Age(s)' = numa' - s
    BY <1>7, <2>1
  <2> QED
    BY <1>8, <2>1, <2>2
<1>9. ASSUME NEW s \in Slot, s # numa' PROVE Age(s)' = Age(s) + 1
  <2>1. s \in Int /\ 0 <= s /\ s < LOGSIZE
    BY <1>1 DEF Slot
  <2>2. Age(s) = IF s <= numa THEN numa - s ELSE numa - s + LOGSIZE
    BY AgeIs
  <2>3. Age(s)' = IF s <= numa' THEN numa' - s ELSE numa' - s + LOGSIZE
    BY <1>7
  <2> QED
    BY <1>1, <1>2, <1>3, <1>9, <2>1, <2>2, <2>3
<1> QED
  BY <1>4, <1>5, <1>8, <1>9

\* Of records there always is a newest one.
LEMMA NewestIs ==
  ASSUME numa \in Slot, NEW S, S \subseteq Slot, S # {}
  PROVE  Newest(S) \in S /\ \A other \in S : Age(Newest(S)) <= Age(other)
<1> DEFINE ages == {Age(s) : s \in S}
<1>1. \A s \in S : Age(s) \in Nat
  BY AgeIs
<1>2. ages \subseteq Nat /\ ages # {}
  BY <1>1
<1>3. PICK n \in ages : \A m \in ages : ~(<<m, n>> \in OpToRel(<, Nat))
  <2> HIDE DEF ages
  <2> QED
    BY <1>2, NatLessThanWellFounded, WFMin
<1>4. \A m \in ages : n <= m
  <2>1. \A m \in ages : ~(m < n)
    BY <1>2, <1>3 DEF OpToRel
  <2> HIDE DEF ages
  <2>2. n \in Nat /\ \A m \in ages : m \in Nat
    BY <1>2
  <2> QED
    BY <2>1, <2>2
<1>5. \E s \in S : \A other \in S : Age(s) <= Age(other)
  <2>1. PICK s \in S : n = Age(s)
    BY <1>3
  <2>2. \A other \in S : n <= Age(other)
    BY <1>4
  <2> QED
    BY <2>1, <2>2
<1> QED
  BY <1>5, Zenon DEF Newest

-----------------------------------------------------------------------------
LEMMA FlushedLine ==
  ASSUME NEW durable, NEW cached
  PROVE  /\ DOMAIN Flushed(durable, cached) = Line
         /\ Flushed(durable, cached)[0] = cached[0]
         /\ \A line \in Line : Flushed(durable, cached)[line] \in {durable[line], cached[line]}
BY FirstLineFlushed DEF Flushed

LEMMA LinesAre ==
  ASSUME NEW first, NEW last
  PROVE  /\ DOMAIN Lines(first, last) = Line
         /\ Lines(first, last)[0] = first
         /\ Lines(first, last)[LINES - 1] = last
<1>1. Line = {0, 4} /\ LINES - 1 = 4
  BY DEF Line, LINES
<1> QED
  BY <1>1 DEF Lines

LEMMA LogInitially == LogInit => LogInv
<1> SUFFICES ASSUME LogInit PROVE LogInv
  OBVIOUS
<1>1. LOGSIZE \in Nat \ {0} /\ hashtable_size \in Nat \ {0}
  BY LogAssumption, TableAssumption
<1>2. 0 \in Slot /\ 0 \in Cell /\ 0 \in Key
  BY <1>1 DEF Slot, Cell, Key
<1>3. IsRecord(NoRecord) /\ NoRecord[0][1] = NULL
  BY <1>2, LinesAre DEF IsRecord, NoRecord
<1>4. \A s \in Slot : log[s] = NoRecord /\ nvmLog[s] = NoRecord
  BY DEF LogInit
<1>5. Typed
  BY <1>2, <1>3, <1>4 DEF LogInit, Typed
<1>6. \A s \in Slot : CellOf(s) = NULL
  BY <1>3, <1>4 DEF CellOf
<1> QED
  BY <1>4, <1>5, <1>6
  DEF LogInv, NvmFollows, OnlyChanged, NewestHasText, LastIsItem, LogInit

-----------------------------------------------------------------------------
\* The stores of a turn: the text that runs ahead of the log is that of item.
LEMMA ChangeKeepsLog ==
  ASSUME LogInv, TypeOK, HomeOnly,
         NEW key \in Key, NEW string \in Text, Change(key, string)
  PROVE  LogInv'
<1>1. Target(key) = key /\ key # NULL /\ key \in Cell
  BY TargetIsHome DEF Key, Cell, NULL
<1>2. /\ text' = [text EXCEPT ![key] = IF Search(key) = NULL THEN string ELSE Blank]
      /\ pc = "main" /\ pc' = "flush item" /\ item' = key
      /\ changed' = changed \cup {key}
      /\ UNCHANGED <<log, numa, nvmLog>>
  BY <1>1 DEF Change
<1>3. Typed'
  BY <1>1, <1>2 DEF LogInv, Typed, IsRecord
<1>4. NvmFollows' /\ OnlyChanged' /\ LastIsItem'
  BY <1>2 DEF LogInv, NvmFollows, OnlyChanged, LastIsItem, CellOf
<1>5. NewestHasText'
  <2> SUFFICES ASSUME NEW s \in Slot, CellOf(s) # NULL, IsNewest(s), CellOf(s) # key
               PROVE  log[s][0][2] = text'[CellOf(s)]
    BY <1>2 DEF NewestHasText, IsNewest, CellOf, Age
  <2>1. log[s][0][2] = text[CellOf(s)]
    BY <1>2 DEF LogInv, NewestHasText
  <2>2. DOMAIN text = Cell /\ log[s][0] \in (Cell \cup {NULL}) \X (Text \cup {Blank})
    BY DEF LogInv, Typed, IsRecord
  <2>3. CellOf(s) \in Cell
    BY <2>2 DEF CellOf
  <2>4. text'[CellOf(s)] = text[CellOf(s)]
    BY <1>2, <2>2, <2>3
  <2> QED
    BY <2>1, <2>4
<1> QED
  BY <1>3, <1>4, <1>5 DEF LogInv

\* Append: the record of item takes the place of the oldest one.
LEMMA AppendKeepsLog ==
  ASSUME LogInv, TypeOK, Append
  PROVE  LogInv'
<1>1. /\ pc = "log" /\ pc' = "flush log"
      /\ numa' = (numa + 1) % LOGSIZE
      /\ log' = [log EXCEPT ![numa'] = Lines(<<item, text[item]>>, hashArray[item])]
      /\ UNCHANGED <<text, nvmLog, item, changed>>
  BY DEF Append
<1>2. /\ numa \in Slot /\ item \in Cell /\ DOMAIN log = Slot
      /\ text[item] \in Text \cup {Blank} /\ hashArray[item] \in Key \cup {Empty}
  BY DEF LogInv, Typed, TypeOK
<1>3. /\ numa' \in Slot
      /\ \A s \in Slot : IF s = numa' THEN Age(s) = LOGSIZE - 1 /\ Age(s)' = 0
                                     ELSE Age(s)' = Age(s) + 1
  BY <1>1, <1>2, AgeMovesOn
<1>4. log'[numa'] = Lines(<<item, text[item]>>, hashArray[item])
  BY <1>1, <1>2, <1>3
<1>5. \A s \in Slot : s # numa' => log'[s] = log[s]
  BY <1>1, <1>2
<1>6. DOMAIN log' = Slot
  BY <1>1, <1>2
<1>7. item # NULL
  BY <1>2 DEF Cell, NULL
<1>8. Typed'
  <2>1. IsRecord(log'[numa'])
    BY <1>2, <1>4, LinesAre DEF IsRecord
  <2>2. \A s \in Slot : IsRecord(log'[s])
    BY <1>5, <2>1 DEF LogInv, Typed
  <2>3. \A s \in Slot : IsRecord(log[s])' /\ IsRecord(nvmLog[s])'
    BY <1>1, <2>2 DEF LogInv, Typed, IsRecord
  <2> QED
    BY <1>1, <1>3, <1>6, <2>3 DEF LogInv, Typed
<1>9. NvmFollows'
  BY <1>1, <1>5 DEF LogInv, NvmFollows
<1>10. \A s \in Slot : CellOf(s)' = IF s = numa' THEN item ELSE CellOf(s)
  BY <1>4, <1>5, LinesAre DEF CellOf
<1>11. OnlyChanged'
  BY <1>1, <1>10 DEF LogInv, OnlyChanged
<1>12. LastIsItem'
  <2>1. log'[numa'][0] = <<item, text[item]>>
    BY <1>4, LinesAre
  <2> QED
    BY <1>1, <2>1 DEF LastIsItem
<1>13. NewestHasText'
  <2> SUFFICES ASSUME NEW s \in Slot, CellOf(s)' # NULL, IsNewest(s)'
               PROVE  log'[s][0][2] = text[CellOf(s)']
    BY <1>1 DEF NewestHasText
  <2>1. CASE s = numa'
    BY <1>4, <1>10, <2>1, LinesAre
  <2>2. CASE s # numa'
    <3>1. CellOf(s)' = CellOf(s)
      BY <1>10, <2>2
    <3>2. Age(s) \in 0 .. LOGSIZE - 1 /\ LOGSIZE \in Nat
      BY <1>2, AgeIs, LogAssumption
    <3>3. \A other \in Slot : CellOf(other)' = CellOf(s)' => Age(s)' <= Age(other)'
      BY DEF IsNewest
    <3>4. CellOf(s) # item
      <4>1. Age(s)' = Age(s) + 1
        BY <1>3, <2>2
      <4>2. ~(Age(s)' <= 0)
        BY <3>2, <4>1
      <4>3. \A other \in Slot : other = numa' => CellOf(other)' = item /\ Age(other)' = 0
        BY <1>3, <1>10
      <4> QED
        BY <1>3, <3>1, <3>3, <4>2, <4>3
    <3>5. IsNewest(s)
      <4> SUFFICES ASSUME NEW other \in Slot, CellOf(other) = CellOf(s)
                   PROVE  Age(s) <= Age(other)
        BY DEF IsNewest
      <4>1. CASE other = numa'
        BY <1>3, <3>2, <4>1
      <4>2. CASE other # numa'
        <5>1. CellOf(other)' = CellOf(other)
          BY <1>10, <4>2
        <5>2. Age(s)' <= Age(other)'
          BY <3>1, <3>3, <5>1
        <5>3. Age(other) \in 0 .. LOGSIZE - 1
          BY <1>2, AgeIs
        <5> QED
          BY <1>3, <2>2, <3>2, <4>2, <5>2, <5>3
      <4> QED
        BY <4>1, <4>2
    <3>6. log[s][0][2] = text[CellOf(s)]
      BY <1>1, <3>1, <3>4, <3>5 DEF LogInv, NewestHasText
    <3> QED
      BY <1>5, <2>2, <3>1, <3>6
  <2> QED
    BY <2>1, <2>2
<1> QED
  BY <1>8, <1>9, <1>11, <1>12, <1>13 DEF LogInv

\* Of the record only lines that reach the NVM change there.
LEMMA RecordReachesNvm ==
  ASSUME LogInv, NEW s \in Slot, nvmLog' = [nvmLog EXCEPT ![s] = nvmLog'[s]],
         DOMAIN nvmLog'[s] = Line,
         \A line \in Line : nvmLog'[s][line] \in {nvmLog[s][line], log[s][line]},
         UNCHANGED <<text, log, numa, item, changed>>,
         pc' = pc \/ (pc = "flush log" /\ pc' = "main" /\ s = numa /\ nvmLog'[s][0] = log[s][0])
  PROVE  LogInv'
<1>1. \A other \in Slot : other # s => nvmLog'[other] = nvmLog[other]
  BY DEF LogInv, Typed
<1>2. Line = {0, LINES - 1}
  BY DEF Line
<1>3. IsRecord(nvmLog'[s])
  BY <1>2 DEF LogInv, Typed, IsRecord
<1>4. Typed'
  <2>1. \A other \in Slot : IsRecord(nvmLog'[other])
    BY <1>1, <1>3 DEF LogInv, Typed
  <2>2. \A other \in Slot : IsRecord(nvmLog[other])' /\ IsRecord(log[other])'
    BY <2>1 DEF LogInv, Typed, IsRecord
  <2>3. DOMAIN nvmLog' = Slot
    BY DEF LogInv, Typed
  <2> QED
    BY <2>2, <2>3 DEF LogInv, Typed
<1>5. NvmFollows'
  <2>1. nvmLog'[s][0] \in {nvmLog[s][0], log[s][0]}
    BY <1>2
  <2> QED
    BY <1>1, <2>1 DEF LogInv, NvmFollows
<1>6. OnlyChanged' /\ NewestHasText' /\ LastIsItem'
  BY DEF LogInv, OnlyChanged, NewestHasText, LastIsItem, IsNewest, CellOf, Age
<1> QED
  BY <1>4, <1>5, <1>6 DEF LogInv

LEMMA FlushLogKeepsLog ==
  ASSUME LogInv, FlushLog
  PROVE  LogInv'
<1>1. /\ pc = "flush log" /\ pc' = "main"
      /\ nvmLog' = [nvmLog EXCEPT ![numa] = Flushed(nvmLog[numa], log[numa])]
      /\ UNCHANGED <<text, log, numa, item, changed>>
  BY DEF FlushLog
<1>2. numa \in Slot /\ DOMAIN nvmLog = Slot
  BY DEF LogInv, Typed
<1>3. nvmLog'[numa] = Flushed(nvmLog[numa], log[numa])
  BY <1>1, <1>2
<1>4. /\ DOMAIN nvmLog'[numa] = Line
      /\ nvmLog'[numa][0] = log[numa][0]
      /\ \A line \in Line : nvmLog'[numa][line] \in {nvmLog[numa][line], log[numa][line]}
  BY <1>3, FlushedLine
<1>5. nvmLog' = [nvmLog EXCEPT ![numa] = nvmLog'[numa]]
  BY <1>1, <1>3
<1> QED
  BY <1>1, <1>2, <1>4, <1>5, RecordReachesNvm

LEMMA EvictRecordKeepsLog ==
  ASSUME LogInv, NEW s \in Slot, NEW line \in Line, EvictRecord(s, line)
  PROVE  LogInv'
<1>1. /\ nvmLog' = [nvmLog EXCEPT ![s] = [nvmLog[s] EXCEPT ![line] = log[s][line]]]
      /\ UNCHANGED <<text, log, numa, item, changed, pc>>
  BY DEF EvictRecord
<1>2. DOMAIN nvmLog = Slot /\ DOMAIN nvmLog[s] = Line
  BY DEF LogInv, Typed, IsRecord
<1>3. nvmLog'[s] = [nvmLog[s] EXCEPT ![line] = log[s][line]]
  BY <1>1, <1>2
<1> QED
  BY <1>1, <1>2, <1>3, RecordReachesNvm

\* The flush of the item, and what does not concern the log.
LEMMA OthersKeepLog ==
  ASSUME LogInv, UNCHANGED <<text, log, numa, nvmLog, item, changed>>,
         pc' = pc \/ (pc = "flush item" /\ pc' = "log")
  PROVE  LogInv'
<1>1. Typed'
  BY DEF LogInv, Typed, IsRecord
<1>2. NvmFollows' /\ OnlyChanged' /\ LastIsItem'
  BY DEF LogInv, NvmFollows, OnlyChanged, LastIsItem, CellOf
<1>3. NewestHasText'
  BY DEF LogInv, NewestHasText, IsNewest, CellOf, Age
<1> QED
  BY <1>1, <1>2, <1>3 DEF LogInv

\* What the log in the cache and in the NVM is, inductive together with
\* DurableInv and the invariant of the table.
THEOREM LogInvariant == LogSpec => [](LogInv /\ DurableInv)
<1>1. LogInit => DurableInv
  BY DurableInitially
<1>2. DurableInv /\ TypeOK /\ HomeOnly /\ [LogNext]_logVars => DurableInv'
  BY DurableStep
<1>3. LogInv /\ TypeOK /\ HomeOnly /\ [LogNext]_logVars => LogInv'
  <2> SUFFICES ASSUME LogInv, TypeOK, HomeOnly, [LogNext]_logVars PROVE LogInv'
    OBVIOUS
  <2>1. ASSUME NEW key \in Key, NEW string \in Text, Change(key, string) PROVE LogInv'
    BY <2>1, ChangeKeepsLog
  <2>2. CASE FlushItem
    BY <2>2, OthersKeepLog DEF FlushItem
  <2>3. CASE Append
    BY <2>3, AppendKeepsLog
  <2>4. CASE FlushLog
    BY <2>4, FlushLogKeepsLog
  <2>5. ASSUME NEW i \in Cell, NEW line \in Line, EvictItem(i, line) PROVE LogInv'
    BY <2>5, OthersKeepLog DEF EvictItem
  <2>6. ASSUME NEW s \in Slot, NEW line \in Line, EvictRecord(s, line) PROVE LogInv'
    BY <2>6, EvictRecordKeepsLog
  <2>7. CASE UNCHANGED logVars
    BY <2>7, OthersKeepLog DEF logVars
  <2> QED
    BY <2>1, <2>2, <2>3, <2>4, <2>5, <2>6, <2>7 DEF LogNext
<1> QED
  BY <1>1, <1>2, <1>3, LogInitially, LogImplementsTable, KeysStayHome, PTL DEF LogSpec

\* Every item, record and line in cache and NVM is one the program writes.
THEOREM LogTypes == LogSpec => []LogTypeOK
<1>1. LogInv /\ TypeOK => LogTypeOK
  BY DEF LogInv, Typed, IsRecord, LogTypeOK
<1> QED
  BY <1>1, LogInvariant, LogImplementsTable, KeysStayHome, PTL

\* Whenever a crash comes, whatever lines the cache has written back and however
\* often the log has wrapped, the newest record of a cell in the NVM has the text
\* the cell has there, but for the cell of an unfinished turn.
THEOREM LogExplains == LogSpec => []LogExplainsTexts
<1>1. LogInv /\ DurableInv => LogExplainsTexts
  <2> SUFFICES ASSUME LogInv, DurableInv, NEW i \in Cell,
                      pc = "main" \/ i # item, RecordsOf(i) # {}
               PROVE  nvmArray[i][0] = nvmLog[Newest(RecordsOf(i))][0][2]
    BY DEF LogExplainsTexts
  <2> DEFINE s == Newest(RecordsOf(i))
  <2>1. i # NULL /\ numa \in Slot
    <3>1. i # NULL
      BY DEF Cell, NULL
    <3> QED
      BY <3>1 DEF LogInv, Typed
  <2>2. \A other \in Slot : other \in RecordsOf(i) <=> CellOf(other) = i
    <3> SUFFICES ASSUME NEW other \in Slot PROVE other \in RecordsOf(i) <=> CellOf(other) = i
      OBVIOUS
    <3>1. CASE pc = "flush log" /\ other = numa
      <4>1. log[other][0] = <<item, text[item]>>
        BY <3>1 DEF LogInv, LastIsItem
      <4>2. <<item, text[item]>>[1] = item
        OBVIOUS
      <4>3. CellOf(other) = item
        BY <4>1, <4>2, Zenon DEF CellOf
      <4>4. i # item
        BY <3>1
      <4> QED
        BY <3>1, <4>3, <4>4 DEF RecordsOf
    <3>2. CASE ~(pc = "flush log" /\ other = numa)
      <4>1. nvmLog[other][0] = log[other][0]
        BY <3>2 DEF LogInv, NvmFollows
      <4> QED
        BY <3>2, <4>1 DEF RecordsOf, CellOf
    <3> QED
      BY <3>1, <3>2
  <2>3. RecordsOf(i) \subseteq Slot
    BY DEF RecordsOf
  <2>4. s \in RecordsOf(i) /\ \A other \in RecordsOf(i) : Age(s) <= Age(other)
    BY <2>1, <2>3, NewestIs
  <2> HIDE DEF s
  <2>5. s \in Slot /\ CellOf(s) = i /\ IsNewest(s)
    BY <2>2, <2>3, <2>4 DEF IsNewest
  <2>6. log[s][0][2] = text[i]
    BY <2>1, <2>5 DEF LogInv, NewestHasText
  <2>7. nvmLog[s][0] = log[s][0]
    BY <2>4, <2>5 DEF RecordsOf, LogInv, NvmFollows
  <2>8. nvmArray[i][0] = text[i]
    BY <2>1, <2>5 DEF LogInv, OnlyChanged, DurableInv, FlushedTextDurable
  <2> QED
    BY <2>6, <2>7, <2>8 DEF s
<1> QED
  BY <1>1, LogInvariant, PTL
=============================================================================
