------------------------------ MODULE HashLog -------------------------------
(***************************************************************************)
(* src/HashTable/hash.cc with the text of an item, the log and the         *)
(* flushes: what the NVM holds at each step of insertH and deleteH.        *)
(*                                                                         *)
(* An item is 260 bytes: its text begins in its first cache line, its key  *)
(* lies in its last.  A record of the log is a pointer to an item and a    *)
(* copy of it: its first line has the pointer and the beginning of the     *)
(* text.  Of both the first line is modelled and the one with the key.     *)
(* The hardware may write a line back at any time, and a crash leaves      *)
(* nvmArray and nvmLog in whatever state it happens.                       *)
(***************************************************************************)
EXTENDS HashTable, Flush

CONSTANTS
  Text,      \* the texts main makes, as the first line of an item has them
  LOGSIZE    \* records of the log

Blank == "blank"    \* of calloc and of dummyItem

ASSUME LogAssumption == LOGSIZE \in Nat \ {0} /\ Blank \notin Text

VARIABLES
  text,       \* the text in each cell; its key is in hashArray
  log, numa,  \* the records, and the place of the last one
  nvmArray,   \* the lines of each item in the NVM
  nvmLog,     \* the lines of each record in the NVM
  pc,         \* what insertH or deleteH does next, or "main"
  item,       \* the cell it works on
  changed     \* history: the cells a turn has changed

logVars == <<hashArray, temp, text, log, numa, nvmArray, nvmLog, pc, item, changed>>

Slot == 0 .. LOGSIZE - 1
LINES == 5               \* of 260 bytes, and of the 272 of a record
Line == {0, LINES - 1}
Lines(first, last) == [line \in Line |-> IF line = 0 THEN first ELSE last]

\* flush: the lines it reaches as in the cache, the others as they were.
Flushed(durable, cached) ==
  [line \in Line |-> IF line \in FlushedLines(LINES) THEN cached[line] ELSE durable[line]]

Item(i) == Lines(text[i], hashArray[i])
NoRecord == Lines(<<NULL, Blank>>, 0)

\* buildH fills the table in the cache; the NVM has the zeros of calloc.
LogInit ==
  /\ Init
  /\ text \in [Cell -> Text]
  /\ log = [s \in Slot |-> NoRecord] /\ numa = 0
  /\ nvmArray = [i \in Cell |-> Lines(Blank, 0)]
  /\ nvmLog = log
  /\ pc = "main" /\ item = 0
  /\ changed = {}

-----------------------------------------------------------------------------
\* The cell a turn writes: that of the key, or the first empty one.
Target(key) == IF Search(key) = NULL THEN FirstCell(key, Empty) ELSE Search(key)

\* search, and the stores of insertH or deleteH to the item.
Change(key, string) ==
  /\ pc = "main"
  /\ Operate(key)
  /\ IF Target(key) = NULL
     THEN UNCHANGED <<text, pc, item, changed>>
     ELSE /\ text' = [text EXCEPT ![Target(key)] = IF Search(key) = NULL THEN string ELSE Blank]
          /\ pc' = "flush item"
          /\ item' = Target(key)
          /\ changed' = changed \cup {Target(key)}
  /\ UNCHANGED <<log, numa, nvmArray, nvmLog>>

\* For mutation: the item is not flushed.
FlushNoItem ==
  /\ pc = "flush item" /\ pc' = "log"
  /\ UNCHANGED <<hashArray, temp, text, log, numa, nvmArray, nvmLog, item, changed>>

\* flush((intptr_t *)item,sizeof(DataItem)); asm_mfence();
FlushItem ==
  /\ pc = "flush item" /\ pc' = "log"
  /\ nvmArray' = [nvmArray EXCEPT ![item] = Flushed(@, Item(item))]
  /\ UNCHANGED <<hashArray, temp, text, log, numa, nvmLog, item, changed>>

\* For mutation: log[numa++]=...
AppendFirst ==
  /\ pc = "log" /\ pc' = "flush log"
  /\ numa' = (numa + 1) % LOGSIZE
  /\ log' = [log EXCEPT ![numa] = Lines(<<item, text[item]>>, hashArray[item])]
  /\ UNCHANGED <<hashArray, temp, text, nvmArray, nvmLog, item, changed>>

\* ++numa%=LOGSIZE; log[numa]=std::make_pair(item,...);
Append ==
  /\ pc = "log" /\ pc' = "flush log"
  /\ numa' = (numa + 1) % LOGSIZE
  /\ log' = [log EXCEPT ![numa'] = Lines(<<item, text[item]>>, hashArray[item])]
  /\ UNCHANGED <<hashArray, temp, text, nvmArray, nvmLog, item, changed>>

\* flush((intptr_t *)&log[numa],sizeof(dual)); asm_mfence();
FlushLog ==
  /\ pc = "flush log" /\ pc' = "main"
  /\ nvmLog' = [nvmLog EXCEPT ![numa] = Flushed(@, log[numa])]
  /\ UNCHANGED <<hashArray, temp, text, log, numa, nvmArray, item, changed>>

EvictItem(i, line) ==
  /\ nvmArray' = [nvmArray EXCEPT ![i][line] = Item(i)[line]]
  /\ UNCHANGED <<hashArray, temp, text, log, numa, nvmLog, pc, item, changed>>

EvictRecord(s, line) ==
  /\ nvmLog' = [nvmLog EXCEPT ![s][line] = log[s][line]]
  /\ UNCHANGED <<hashArray, temp, text, log, numa, nvmArray, pc, item, changed>>

LogNext ==
  \/ \E key \in Key, string \in Text : Change(key, string)
  \/ FlushItem \/ Append \/ FlushLog
  \/ \E i \in Cell, line \in Line : EvictItem(i, line)
  \/ \E s \in Slot, line \in Line : EvictRecord(s, line)

LogSpec == LogInit /\ [][LogNext]_logVars

-----------------------------------------------------------------------------
LogTypeOK ==
  /\ TypeOK
  /\ text \in [Cell -> Text \cup {Blank}]
  /\ numa \in Slot
  /\ pc \in {"main", "flush item", "log", "flush log"}
  /\ item \in Cell
  /\ changed \subseteq Cell
  /\ \A record \in {log, nvmLog} : \A s \in Slot :
       /\ record[s][0] \in (Cell \cup {NULL}) \X (Text \cup {Blank})
       /\ record[s][LINES - 1] \in Key \cup {Empty}

\* The first line of every item a turn has changed is in the NVM once the turn
\* has flushed it, and stays so whatever other turns do.
FlushedTextDurable ==
  \A i \in changed : (pc = "flush item" /\ i = item) \/ nvmArray[i][0] = text[i]

\* The records of the log in the NVM that lead to cell i, without one insertH or
\* deleteH is just writing; and how many records came after the one in s.
RecordsOf(i) == {s \in Slot : nvmLog[s][0][1] = i /\ ~(pc = "flush log" /\ s = numa)}
Age(s) == (numa - s) % LOGSIZE
Newest(slots) == CHOOSE s \in slots : \A other \in slots : Age(s) <= Age(other)

\* The log follows the items: in every state a crash can leave, the newest record
\* of a cell in the NVM has the text the cell has there.  Only the cell of an
\* unfinished turn may be ahead of the log, for insertH and deleteH write and
\* flush the item before the record (hash.cc:64, 98).
LogExplainsTexts ==
  \A i \in Cell :
    \/ pc # "main" /\ i = item
    \/ RecordsOf(i) = {}
    \/ nvmArray[i][0] = nvmLog[Newest(RecordsOf(i))][0][2]
=============================================================================
