-------------------------------- MODULE Vecs --------------------------------
(***************************************************************************)
(* src/vecs.cc: two vectors are filled and added into a third, round after *)
(* round, with every element written and read through the write buffer.    *)
(*                                                                         *)
(* A call of write_literal is a step, with the reads before it.  Elements  *)
(* are numbers: temp is an int and the buffer copies the long at its       *)
(* address, but only the lower half of what a read gives reaches temp      *)
(* again.                                                                  *)
(***************************************************************************)
EXTENDS Integers, FiniteSets

CONSTANTS
  VEC_SZ,   \* elements of a vector
  ROUNDS,   \* iterations of the outer loop
  SLOTS     \* writes between two transfers

VARIABLES
  base,     \* the addresses of a[0], b[0] and c[0]
  buf,      \* the write buffer
  j, i,     \* the counters of the loops
  pc        \* the vector whose element is written next, or "end"

vars == <<base, buf, j, i, pc>>

Vector == {"a", "b", "c"}
Location == 0 .. 3 * VEC_SZ - 1

Buffer == INSTANCE LiteralBuffer WITH Val <- Nat

\* mmap puts the three areas in any order.
Init ==
  /\ base \in [Vector -> {0, VEC_SZ, 2 * VEC_SZ}]
  /\ Cardinality({base[v] : v \in Vector}) = 3
  /\ buf = Buffer!InitialBuffer([l \in Location |-> 0])
  /\ j = 0 /\ i = 0
  /\ pc = "a"

Read(v) == Buffer!Load(buf, base[v] + i)
Write(v, object) == buf' = Buffer!Store(buf, base[v] + i, object)

\* The end of an iteration of an inner loop; otherwise the loop is over.
Again(first, otherwise) ==
  IF i + 1 < VEC_SZ THEN i' = i + 1 /\ pc' = first ELSE i' = 0 /\ pc' = otherwise

InitializeA ==
  /\ pc = "a"
  /\ Write("a", i)
  /\ pc' = "b"
  /\ UNCHANGED <<base, j, i>>

InitializeB ==
  /\ pc = "b"
  /\ Write("b", i + VEC_SZ)
  /\ Again("a", "c")
  /\ UNCHANGED <<base, j>>

Add ==
  /\ pc = "c"
  /\ Write("c", Read("a") + Read("b"))
  /\ Again("c", IF j + 1 < ROUNDS THEN "a" ELSE "end")
  /\ j' = IF i + 1 < VEC_SZ THEN j ELSE j + 1
  /\ UNCHANGED base

Next == InitializeA \/ InitializeB \/ Add

Spec == Init /\ [][Next]_vars

-----------------------------------------------------------------------------
\* c = a + b (vecs.cc:50): every element of c that was computed is the sum.  It
\* is not: once a transfer has emptied the buffer, a read of a or b gives the
\* nearest element of c written since, if c lies below them.
SumIsRight ==
  \A k \in 0 .. VEC_SZ - 1 :
    j > 0 \/ (pc = "c" /\ k < i) => Buffer!View(buf)[base["c"] + k] = k + (k + VEC_SZ)
=============================================================================
