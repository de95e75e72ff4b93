------------------------------ MODULE MmpXfer -------------------------------
(***************************************************************************)
(* my_xfer of src/mmp_user.cc entry by entry, for the clients of           *)
(* my_write_literal, my_xfer and my_txend: the JLF/JLN loop with its       *)
(* memcpy and its wait, then the rewind of giter and the loss of the array.*)
(*                                                                         *)
(* nvm is the memory at the locations as the program sees it; durable is   *)
(* what of it has left the cache.  my_xfer flushes no line: its wait is an *)
(* sfence and a loop, and neither writes a line back.  So durable changes  *)
(* when the hardware writes a line back on its own account, and only then. *)
(* That may be in the middle of a memcpy, so it is done word by word; the  *)
(* memcpy is one step, since only durable can tell its words apart.  A     *)
(* crash may come in every state and leaves durable as it is, so what it   *)
(* leaves is an invariant.                                                 *)
(***************************************************************************)
EXTENDS MmpUser

CONSTANT WORDS    \* words of an object: what a store of memcpy writes at once

ASSUME WordsAssumption == WORDS \in Nat \ {0}

VARIABLES
  at,         \* where the caller is: "client", the steps "copy" and "wait" of
              \* the loop, or "write", back in my_write_literal
  Index1,     \* the index the loop is at
  call,       \* the my_write_literal that found the queue full, or NoCall
  before,     \* history: the memory when the transfer began
  durable,    \* the words in the NVM, which a crash leaves
  ends        \* history: the objects each location had when a transfer ended

xfervars == <<vars, at, Index1, call, before, durable, ends>>

Word == 0 .. WORDS - 1

NoCall == [data |-> NULL, location |-> NULL]

\* What the client stored before its first call has left the cache.
XferInit ==
  /\ Init
  /\ at = "client"
  /\ Index1 = 0
  /\ call = NoCall
  /\ before = nvm
  /\ durable = [l \in Location |-> [w \in Word |-> nvm[l]]]
  /\ ends = [l \in Location |-> {nvm[l]}]

-----------------------------------------------------------------------------
\* Index1=0; JLF(PValue,PJLArray,Index1);
Begin(caller) ==
  /\ at = "client"
  /\ at' = "copy"
  /\ Index1' = JLF(PJLArray, 0)
  /\ call' = caller
  /\ before' = nvm
  /\ UNCHANGED <<vars, durable, ends>>

\* The client calls my_xfer; it calls my_write_literal, which finds the end of
\* the queue, or has room.
CallXfer == Begin(NoCall)

WriteFindsEnd(v, l) == AtEnd /\ Begin([data |-> v, location |-> l])

WriteFindsRoom(v, l) ==
  /\ at = "client"
  /\ ~AtEnd
  /\ MyWriteLiteral(Local(v), l)
  /\ UNCHANGED <<at, Index1, call, before, durable, ends>>

CallTxend ==
  /\ at = "client"
  /\ MyTxend
  /\ UNCHANGED <<at, Index1, call, before, durable, ends>>

\* The slot the entry at Index1 leads to.
Now == cmtq[PJLArray[Index1]]

\* while (PValue!=NULL)
EntryLeft == Index1 # NoIndex

\* memcpy(now->ele.write_to,now->ele.data,now->ele.len);
Copy ==
  /\ at = "copy"
  /\ EntryLeft
  /\ at' = "wait"
  /\ nvm' = [nvm EXCEPT ![Now.write_to] = Now.data]
  /\ UNCHANGED <<cmtq, qlen, giter, stale, PJLArray, dirties, curtxid, ub, latest,
                 Index1, call, before, durable, ends>>

\* emulate_latency_ns_fence(1000); JLN(PValue,PJLArray,Index1);  The wait is
\* an sfence, which orders stores and writes no line back, and a loop of
\* ns * global_cpu_speed_mhz / 1000 ticks; as nobody calls init_pflush the
\* speed is 0 and the loop ends at its first test.
Wait ==
  /\ at = "wait"
  /\ at' = "copy"
  /\ Index1' = JLN(PJLArray, Index1)
  /\ UNCHANGED <<vars, call, before, durable, ends>>

\* For mutation: the array is kept.
DoneKeepsIndex ==
  /\ at = "copy"
  /\ ~EntryLeft
  /\ at' = IF call = NoCall THEN "client" ELSE "write"
  /\ giter' = 0
  /\ stale' = FALSE
  /\ ends' = [l \in Location |-> ends[l] \cup {latest[l]}]
  /\ UNCHANGED <<cmtq, qlen, PJLArray, dirties, curtxid, nvm, ub, latest, Index1, call, before, durable>>

\* giter=cmtq.begin(); PJLArray=NULL;
Done ==
  /\ at = "copy"
  /\ ~EntryLeft
  /\ at' = IF call = NoCall THEN "client" ELSE "write"
  /\ giter' = 0
  /\ stale' = FALSE
  /\ PJLArray' = EmptyJudy
  /\ ends' = [l \in Location |-> ends[l] \cup {latest[l]}]
  /\ UNCHANGED <<cmtq, qlen, dirties, curtxid, nvm, ub, latest, Index1, call, before, durable>>

\* The rest of the my_write_literal that called my_xfer.
WriteResumes ==
  /\ at = "write"
  /\ at' = "client"
  /\ MyWriteLiteral(Local(call.data), call.location)
  /\ call' = NoCall
  /\ UNCHANGED <<Index1, before, durable, ends>>

\* The cache writes a line back on its own account, of which this is a word.
Evict(l, w) ==
  /\ durable' = [durable EXCEPT ![l][w] = nvm[l]]
  /\ UNCHANGED <<vars, at, Index1, call, before, ends>>

Running == Copy \/ Wait \/ Done \/ WriteResumes

XferNext ==
  \/ CallXfer
  \/ \E v \in Val, l \in Location : WriteFindsEnd(v, l) \/ WriteFindsRoom(v, l)
  \/ CallTxend
  \/ Running
  \/ \E l \in Location, w \in Word : Evict(l, w)

XferSpec == XferInit /\ [][XferNext]_xfervars /\ WF_xfervars(Running)

-----------------------------------------------------------------------------
InLoop == at \in {"copy", "wait"}

\* The addresses the loop has copied an entry to.
Copied ==
  {l \in DOMAIN PJLArray :
     InLoop /\ (l < Index1 \/ ~EntryLeft \/ (at = "wait" /\ l = Index1))}

\* What a crash may find, whatever lines were written back and when: each word
\* is of an object the client had written last when some transfer ended, or of
\* one that the transfer it cuts off has copied.  An object overwritten within
\* its batch never reaches the NVM, nor does any before its transfer (my_xfer,
\* my_write_literal).  Nothing says which of those objects: as my_xfer flushes
\* no line, two words may be of different batches, also after it has returned.
CrashFindsBatchEnds ==
  \A l \in Location, w \in Word :
    durable[l][w] \in ends[l] \/ (l \in Copied /\ durable[l][w] = latest[l])

\* A transfer can be run again from its start: whatever part of it was done,
\* the queue, the array and the memory still lead to every last write.
TransferCanRestart == InLoop => Transferred = latest

\* The memory as the caller will find it: the steps of a transfer are one.
Buffer == INSTANCE MmpUser WITH nvm <- IF InLoop THEN before ELSE nvm

\* The loop of my_xfer, the wait in it and the return to my_write_literal
\* together do what MmpUser says in one step.
ImplementsBuffer == Buffer!LiteralSpec

\* Every transfer ends, and the my_write_literal that needed it returns.
TransferReturns == at # "client" ~> at = "client"
=============================================================================
