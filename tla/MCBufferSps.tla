----------------------------- MODULE MCBufferSps ----------------------------
(***************************************************************************)
(* BufferSps with an array of three entries.  The queue of five slots has  *)
(* room for two swaps and a half: transfers fall between the reads of a    *)
(* swap and its first write, and between its two writes.                   *)
(***************************************************************************)
EXTENDS BufferSps

ThreeLocations == 0 .. 2

HashInside == [l \in Location |-> 0]
=============================================================================
