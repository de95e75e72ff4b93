----------------------------- MODULE BufferSps ------------------------------
(***************************************************************************)
(* src/Sps/buffer_sps.cc: random swaps of the entries of an array that is  *)
(* read and written through the write buffer.                              *)
(*                                                                         *)
(* array_swap asks my_read for a pointer to each of two entries and passes *)
(* the pointers to two my_write_literal calls.  They lead into the queue   *)
(* or the NVM, which the calls change: the entries are the locations of    *)
(* MmpUser, and the client's state is the two pointers it holds.           *)
(***************************************************************************)
EXTENDS MmpUser

VARIABLES
  pc,         \* "idle" between two swaps, "first"/"second": the next write
  k1, k2,     \* the entries being swapped
  a1, a2,     \* the pointers my_read returned for them
  want,       \* history: the array as the last swap should leave it
  exact,      \* history: its two reads showed the right objects
  room        \* history: two slots were free when it began

clientvars == <<pc, k1, k2, a1, a2, want, exact, room>>
allvars == <<vars, clientvars>>

\* build_array: every entry has an object of its own.
InitSps ==
  /\ Init
  /\ \A l, m \in Location : nvm[l] = nvm[m] => l = m
  /\ pc = "idle"
  /\ k1 \in Location /\ k2 = k1
  /\ a1 = InNvm(k1) /\ a2 = InNvm(k2)
  /\ want = nvm
  /\ exact = TRUE
  /\ room = TRUE

Swapped(f, i, j) == [f EXCEPT ![i] = f[j], ![j] = f[i]]

\* The two my_read calls of array_swap.
ReadBoth(i, j) ==
  /\ pc = "idle"
  /\ pc' = "first"
  /\ k1' = i /\ k2' = j
  /\ a1' = MyRead(i) /\ a2' = MyRead(j)
  /\ want' = Swapped(View, i, j)
  /\ exact' = (\A l \in {i, j} : Deref(MyRead(l), cmtq, nvm) = View[l])
  /\ room' = (giter + 2 <= qlen)
  /\ UNCHANGED vars

\* rt_mem->write_literal(a2, 256, a[k1])
WriteFirst ==
  /\ pc = "first"
  /\ MyWriteLiteral(a2, k1)
  /\ pc' = "second"
  /\ UNCHANGED <<k1, k2, a1, a2, want, exact, room>>

\* For mutation: the pointer of the first write is used again.
WriteSecondSame ==
  /\ pc = "second"
  /\ MyWriteLiteral(a2, k2)
  /\ pc' = "idle"
  /\ UNCHANGED <<k1, k2, a1, a2, want, exact, room>>

\* rt_mem->write_literal(a1, 256, a[k2])
WriteSecond ==
  /\ pc = "second"
  /\ MyWriteLiteral(a1, k2)
  /\ pc' = "idle"
  /\ UNCHANGED <<k1, k2, a1, a2, want, exact, room>>

\* rt_mem->finish; -- the statement names the function and does not call it.
Finish ==
  /\ pc = "idle"
  /\ pc' = "done"
  /\ UNCHANGED <<vars, k1, k2, a1, a2, want, exact, room>>

NextSps ==
  \/ \E i, j \in Location : ReadBoth(i, j)
  \/ WriteFirst
  \/ WriteSecond
  \/ Finish

SpsSpec == InitSps /\ [][NextSps]_allvars

-----------------------------------------------------------------------------
\* Whatever a swap gets wrong, it invents nothing: every entry holds an object
\* that some entry held when the swap began.  So the pointers never show a slot
\* that was not filled in this batch, or one of an earlier batch (array_swap,
\* my_read, my_write_literal).
NothingInvented == \A l \in Location : \E m \in Location : View[l] = want[m]

\* A swap that read the right objects and found two free slots exchanges the
\* two entries and leaves the others as they were: there the pointers stay
\* good until their last use.  Both conditions are needed: a transfer between a
\* read and the use of its pointer changes what the pointer shows.
SwapWithRoomIsExact == pc \in {"idle", "done"} /\ exact /\ room => View = want
=============================================================================
