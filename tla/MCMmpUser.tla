----------------------------- MODULE MCMmpUser ------------------------------
(***************************************************************************)
(* A small instance of MmpUser: two addresses, a queue of two slots that   *)
(* may grow by one, two values.                                            *)
(***************************************************************************)
EXTENDS MmpUser

TwoLocations == 0 .. 1

\* One location has all the bits of SIZE set: hash_addr returns SIZE.
HashBeyond == [l \in Location |-> IF l = 1 THEN SIZE ELSE 0]
=============================================================================
