------------------------------- MODULE MCBTree ------------------------------
(***************************************************************************)
(* BTree over three or four keys.  With the smallest degree, 2, nine       *)
(* insertions build trees of three levels.                                 *)
(***************************************************************************)
EXTENDS BTree

ThreeKeys == 0 .. 2
FourKeys == 0 .. 3
=============================================================================
