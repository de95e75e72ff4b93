-------------------------- MODULE PersistentMemory --------------------------
(***************************************************************************)
(* What the write buffer of mmp_user.cc promises to its client, with no    *)
(* queue, no index and no slots: a memory whose writes are visible at once *)
(* and reach the NVM in whole batches, never more than Cap writes late.    *)
(* nvm is the memory at the locations as loads see it, cache included;     *)
(* what of it a crash would leave is the subject of MmpXfer.               *)
(***************************************************************************)
EXTENDS Naturals

CONSTANTS
  Location,   \* the addresses the client writes
  Val,        \* the objects it stores there
  Cap         \* how many writes the NVM may lag behind

VARIABLES
  mem,        \* the value the client last wrote to each location
  nvm,        \* the value each location has in the NVM
  pending     \* the number of writes the NVM has not received

memvars == <<mem, nvm, pending>>

Init ==
  /\ nvm \in [Location -> Val]
  /\ mem = nvm
  /\ pending = 0

\* A write that is only remembered, or one that copies all the earlier ones to
\* the NVM first.
Write(l, v) ==
  /\ mem' = [mem EXCEPT ![l] = v]
  /\ \/ /\ pending < Cap
        /\ pending' = pending + 1
        /\ nvm' = nvm
     \/ /\ pending' = 1
        /\ nvm' = mem

\* Every write so far is copied to the NVM.
Flush ==
  /\ nvm' = mem
  /\ pending' = 0
  /\ mem' = mem

Next == (\E l \in Location, v \in Val : Write(l, v)) \/ Flush

Spec == Init /\ [][Next]_memvars
=============================================================================
