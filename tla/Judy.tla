-------------------------------- MODULE Judy --------------------------------
(***************************************************************************)
(* The JudyL array of libJudy as mmp_user.cc uses it: a sorted map from    *)
(* words (addresses) to words (slots of the queue).  The library is not    *)
(* part of the repository; these operators say what its macros do.         *)
(* A search that finds nothing sets PValue to NULL, here the key NoIndex.  *)
(***************************************************************************)
EXTENDS Integers, FiniteSetsExt

\* A word that is never the address of a location: "PValue == NULL".
NoIndex == -1

\* An array without an index, (Pvoid_t) NULL.
EmptyJudy == [i \in {} |-> 0]

\* For mutation: an index that is present keeps its value.
JLIKeepsOld(array, index, value) ==
  [i \in DOMAIN array \cup {index} |-> IF i \in DOMAIN array THEN array[i] ELSE value]

\* JLI followed by the assignment to *PValue: index is now mapped to value.
JLI(array, index, value) ==
  [i \in DOMAIN array \cup {index} |-> IF i = index THEN value ELSE array[i]]

\* JLF: the first index present that is equal to or greater than index.
JLF(array, index) ==
  LET found == {i \in DOMAIN array : i >= index}
  IN  IF found = {} THEN NoIndex ELSE Min(found)

\* For mutation: the search for the next index stays at an index present.
JLNStays(array, index) == JLF(array, index)

\* JLN: the first index present that is greater than index.
JLN(array, index) ==
  LET found == {i \in DOMAIN array : i > index}
  IN  IF found = {} THEN NoIndex ELSE Min(found)

\* JLL: the last index present that is equal to or LESS than index.
JLL(array, index) ==
  LET found == {i \in DOMAIN array : i <= index}
  IN  IF found = {} THEN NoIndex ELSE Max(found)
=============================================================================
