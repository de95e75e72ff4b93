----------------------------- MODULE HashTable ------------------------------
(***************************************************************************)
(* src/HashTable/hash.cc: a table with linear probing, and the benchmark   *)
(* that deletes a key it finds and inserts a key it does not find.         *)
(*                                                                         *)
(* An operation of main is one action.  The text of an item, the log and   *)
(* the flushes are left out: they never decide where a key goes.           *)
(***************************************************************************)
EXTENDS Integers, FiniteSetsExt

CONSTANT hashtable_size    \* cells of the table; the keys are as many

ASSUME TableAssumption == hashtable_size \in Nat \ {0}

VARIABLES
  hashArray,    \* the key in each cell, -1 when it is empty
  temp          \* the key main drew last

vars == <<hashArray, temp>>

Cell == 0 .. hashtable_size - 1
Key  == 0 .. hashtable_size - 1
Empty == -1             \* dummyItem.key
NULL == -1              \* no cell

hashCode(key) == key % hashtable_size

\* The cell that steps moves of ++i; i%=hashtable_size lead to from the hash.
Probe(key, steps) == (hashCode(key) + steps) % hashtable_size

\* The first cell from the hash of key on that holds what, once around.
FirstCell(key, what) ==
  LET steps == {j \in Cell : hashArray[Probe(key, j)] = what}
  IN  IF steps = {} THEN NULL ELSE Probe(key, Min(steps))

\* For mutation: an insertion that is dropped, a dummyItem with a wrong key.
InsertHDrops(key) == UNCHANGED hashArray
DeleteHZero(item) == hashArray' = [hashArray EXCEPT ![item] = 0]
DeleteHSize(item) == hashArray' = [hashArray EXCEPT ![item] = hashtable_size]

\* search does not stop at an empty cell.
Search(key) == FirstCell(key, key)

\* insertH gives up when it is back at the hash.
InsertH(key) ==
  LET i == FirstCell(key, Empty)
  IN  hashArray' = IF i = NULL THEN hashArray ELSE [hashArray EXCEPT ![i] = key]

DeleteH(item) == hashArray' = [hashArray EXCEPT ![item] = Empty]

-----------------------------------------------------------------------------
\* buildH fills the table.
Init ==
  /\ hashArray = [i \in Cell |-> i]
  /\ temp \in Key

Operate(key) ==
  /\ temp' = key
  /\ IF Search(key) = NULL THEN InsertH(key) ELSE DeleteH(Search(key))

Next == \E key \in Key : Operate(key)

Spec == Init /\ [][Next]_vars

-----------------------------------------------------------------------------
Present == {hashArray[i] : i \in Cell} \ {Empty}

TypeOK ==
  /\ hashArray \in [Cell -> Key \cup {Empty}]
  /\ temp \in Key

\* Keys only ever stand in the cell they hash to: the table starts full, the
\* keys are as many as the cells, and no turn of main moves one elsewhere.  So
\* no two keys ever compete for a cell, and a search that fails has looked at
\* every cell (main, buildH, insertH).
HomeOnly == \A i \in Cell : hashArray[i] \in {i, Empty}

\* Every iteration of main takes its key out or puts it in and disturbs no
\* other: emptied cells never hide a key from search, and an insertion never
\* finds the table full and gives up silently (hash.cc:59).
EachTurnToggles ==
  [][Present' = IF temp' \in Present THEN Present \ {temp'} ELSE Present \cup {temp'}]_vars
=============================================================================
