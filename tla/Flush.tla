------------------------------- MODULE Flush --------------------------------
(***************************************************************************)
(* src/flush.h: which cache lines of an object its flush writes back.      *)
(*                                                                         *)
(* The pointer of the loop is an intptr_t *, so p+=64 moves it by 64 words *)
(* of STRIDE bytes: by STRIDE lines.  Lines are numbered from the start of *)
(* the object, which the callers pass.                                     *)
(***************************************************************************)
EXTENDS Integers, FiniteSets

CONSTANT STRIDE    \* sizeof(intptr_t), 8

ASSUME StrideAssumption == STRIDE \in Nat \ {0}

\* for (int i=length;i>0;i-=64,p+=64) asm_clflush(p), for an object of lines
\* lines: the lines of that object the loop reaches.
FlushedLines(lines) == {STRIDE * i : i \in 0 .. lines - 1} \cap 0 .. lines - 1

\* asm_clflush on each of them: the object with those lines as in the cache.
WrittenBack(durable, cached) ==
  [j \in DOMAIN durable |->
     IF j \in FlushedLines(Cardinality(DOMAIN durable)) THEN cached ELSE durable[j]]
=============================================================================
