----------------------------- MODULE MCMmpXfer ------------------------------
(***************************************************************************)
(* MmpXfer with two addresses, two objects of two words and a queue of two *)
(* slots: a batch has one entry or two, the later slot may hold the lower  *)
(* address or the same one, a transaction may end between them, and any    *)
(* word may be written back at any time.                                   *)
(***************************************************************************)
EXTENDS MmpXfer

HashInside == [l \in Location |-> 0]
=============================================================================
