# sw_queue in TLA+

sw_queue is a software write buffer in front of slow non-volatile memory (NVM),
with benchmarks that run data structures on it or, for comparison, with a
hand-written log. This directory holds TLA+ models of its parts, the TLC
configurations that check them on small instances, and TLAPS proofs of the main
results for every value of the constants.

`tlc -config <run>.cfg <module>` runs one configuration; the table under
[Runs](#runs) says which module goes with which. `tlapm` checks the proofs in
the eight modules whose names end in `Proofs`; what the passing runs check is a
theorem there, liveness apart.
`PROJECT.json` maps every definition to the lines it stands for and lists runs,
hazards, findings and theorems.

## The system

| component | state it keeps | operations | talks to |
|---|---|---|---|
| write buffer, `mmp_user.cc` | `cmtq` (deque of slots), `giter` (next slot), `PJLArray` (Judy array address -> slot), `dirties`, `curtxid` | `my_write`, `my_write_literal`, `my_read`, `my_xfer`, `my_txend`, `my_finish`, `internal_init` | libJudy; the NVM, by `memcpy`; called through the function pointers of `rt_mem_t` |
| start-up and transfer thread, `mmp_init.cc`, `mmp_thread.cc` | `appfinish`, `th1` | `my_init`, `LoopTransfer` | the buffer's `do_transfer`; the thread is never created, its lines are commented out |
| array swap, `Sps/buffer_sps.cc` | the array (in NVM), two pointers per swap | `build_array`, `array_swap` | the buffer; keeps the pointers `read` returned over two `write_literal` |
| array swap with undo log, `Sps/sps.cc`, `flush.h` | the array, `log`, `numa`, the cache in front of both | `array_swap`, `flush` | cache-line flushes and fences |
| B-tree, `Btree/btree.cc` and `buffer_btree.cc` | nodes, `root` | `insert`, `insertNonFull`, `splitChild`, `search` | the second reads and writes its keys through the buffer |
| heap, `Heap/heap.cc` and `buffer_heap.cc` | `h`, `heapsize` | `insert`, `Delete` | the second writes through the buffer, and reads and writes partly past it |
| hash table, `HashTable/hash.cc` | `hashArray`, `log`, `numa`, the cache in front of both | `search`, `insertH`, `deleteH` | cache-line flushes and fences |
| vector addition, `vecs.cc` | three arrays | one loop | the buffer |
| variants without a program to model: `buffer_hash.cc`, `base_vecs.cc`, `p_vecs.cc`, `thread_base.c`, `thread_buffer.c` | - | see [Not modelled](#not-modelled) | - |
| the rest: `lat.*`, `mem.h`, `tx.cc`, `mtx.cc`, `try1.cc`, `and_test.c`, `test.c`, build files, recorded outputs, binaries | - | latency emulation, experiments | - |

What makes each part correct, and hard:

* **Write buffer.** A read after a write must see it, a write must not be lost
  or overtaken, and the NVM should never hold a mixture of batches. Hard: the
  transfer happens *inside* `my_write_literal` when the queue is full; it visits
  addresses in ascending order, not slots in the order of the writes; index,
  iterator and queue are three structures that must be reset together; the
  pointers `my_read` hands out lead into memory later calls overwrite; the
  search finds neighbours; a crash may come at any time, and nothing the
  transfer copies is flushed.
* **Clients of the buffer.** Any of their writes may transfer, and afterwards
  their reads go to other objects; some keep pointers over calls, some go past
  the buffer. Which of their results survive wrong reads, and which are right as
  long as the reads are?
* **Logs of `sps.cc` and `hash.cc`.** At any crash the log must tell what the
  cells hold, while the cache writes lines back early in any order, `flush`
  reaches only some of them, and the log wraps.
* **B-tree, heap, hash table.** Shape, order and contents over long sequences of
  operations, at each step of a loop and not only between operations.

## Modules

| module | models | extends / uses |
|---|---|---|
| `Judy` | the JudyL macros the buffer uses (external) | |
| `PersistentMemory` | abstract: a memory written at once and copied to the NVM in batches | |
| `LiteralBuffer` | abstract: the buffer as its clients in the repository use it, a cache | |
| `MmpUser` | `mmp_user.cc`, one calling thread, a call at a time | `Judy`; instances of the two abstract modules |
| `MmpXfer` | `my_xfer` entry by entry, the cache in front of the NVM, crashes | `MmpUser`, and an instance of it |
| `BufferSps` | `Sps/buffer_sps.cc` on the buffer | `MmpUser` |
| `Vecs` | `vecs.cc` on the buffer | instance of `LiteralBuffer` |
| `BTree` | `Btree/btree.cc` | |
| `BufferBTree` | `Btree/buffer_btree.cc` on the buffer | instances of `LiteralBuffer` and, twice, of `BTree` |
| `Heap` | `Heap/heap.cc` | |
| `BufferHeap` | `Heap/buffer_heap.cc` on the buffer | instances of `LiteralBuffer` and `Heap` |
| `Flush` | which lines `flush` of `flush.h` reaches | |
| `Sps` | `Sps/sps.cc`, cache and NVM | `Flush` |
| `HashTable` | the keys of `HashTable/hash.cc` | |
| `HashLog` | texts, log, cache and NVM of `HashTable/hash.cc` | `HashTable`, `Flush` |
| `HeapProofs`, `BufferHeapProofs`, `SpsProofs`, `BTreeProofs` | theorems | the module they are about, TLAPS |
| `MmpProofs` | theorems about `MmpUser`, `MmpXfer` and `BufferSps` | `MmpXfer`, `BufferSps`, TLAPS |
| `HashProofs` | theorems about both modules of the hash table | `HashLog`, TLAPS |
| `BufferBTreeProofs` | theorems about `BufferBTree`: whatever is read | `BufferBTree`, TLAPS, an instance of `BTreeProofs` |
| `BufferBTreeExactProofs` | theorems about `BufferBTree`: after right reads | `BufferBTreeProofs`, a second instance of `BTreeProofs` |
| `MCMmpUser`, `MCMmpXfer`, `MCBufferSps`, `MCBTree` | values of the constants for TLC | their module |

### MmpUser

| TLA+ | code |
|---|---|
| `cmtq`, `qlen` | `std::deque<buffer_t> cmtq` and its size; a slot keeps `data`, `write_to`, `txid` |
| `giter` | the iterator, as the index of its slot; `qlen` is `cmtq.end()` |
| `stale` | the deque moved its node map in `push_back`, `giter` still walks the old one |
| `PJLArray` | the Judy array; a partial function from locations to slots |
| `dirties` | the byte counters, incremented by an atomic add modulo `BYTE` |
| `nvm` | the memory the locations are in, as the program sees it (cache included) |
| `ub` | a call with undefined behaviour was made; the model stops there |
| `latest` | history: what the client last wrote (not in the code) |

A call is one action, since one thread calls. `Transferred` is the NVM after the
`JLF`/`JLN` loop; `MyWriteLiteral` contains the transfer the code calls when
`giter==cmtq.end()`, and dereferences its `data` after it, as line 160 does: the
argument is a *pointer*, to a variable of the client, into a slot or into the
NVM. `MyRead` is the pointer the code returns. Left out: `len` and the bytes
(all clients use one size and locations that do not overlap), the fields `st`,
`cmt`, `lock` and `tim`, which nothing reads, and the latency emulation.

`Spec` allows every call of the interface. `LiteralSpec` is the part of it the
programs of the repository use: `my_write_literal`, `my_xfer`, `my_txend` and
reads. Under `LiteralSpec` the buffer implements `LiteralBuffer`
(`ImplementsLiteralBuffer`, proved): no queue, slots or index, only a cache of
objects, the NVM and a count of the writes. `LiteralBuffer` gives its steps as
operators on the state (`Load`, `Store`, `Transfer`), so that a client can use
several in one of its steps; that is how `Vecs`, `BufferBTree` and `BufferHeap`
are composed with the buffer. `BufferSps`, whose client keeps pointers into
slots, is composed with `MmpUser` itself.

### MmpXfer

The loop of `my_xfer` in steps: `Begin` (`JLF`), for each entry `Copy` (the
`memcpy`) and `Wait` (the emulated latency and `JLN`), `Done` (the rewind and
the loss of the array), `WriteResumes` (the rest of the `my_write_literal` that
found the queue full). Between `Begin` and `Done` the instance `Buffer` sees the
memory from before the transfer: under this mapping `MmpXfer` implements
`LiteralSpec`, and so, by the theorem `BufferImplementsCache`, `LiteralBuffer`.

`my_xfer` flushes no cache line. The wait is an `sfence` and a loop (of no ticks
at all, because nobody calls `init_pflush`), and neither takes a store out of
the cache. So `nvm` is the memory the program sees, and `durable` is what of it
has been written back, `WORDS` words an object: it changes by `Evict` only, the
hardware's own write-back, possible at any time and under no fairness. A crash
leaves `durable` as it is in the state it comes in, so what a crash finds is an
invariant. `ends` remembers which objects a location had when a transfer ended.
What the program stored before its first call is taken to be written back.

### BufferSps

The locations are the entries of the array. A swap is three steps: the two
`read` calls, which store pointers, then one `write_literal` each. The history
variables record what the array should be (`want`), whether the reads showed the
right objects (`exact`) and whether two slots were free (`room`).

### Vecs

Each `write_literal` is a step, with the reads that make its argument. `mmap`
may put the three vectors in any order (`base`), which decides which neighbour a
read finds. `temp` is an `int` of which the buffer copies a `long`; the lower
half is what later reads use, so elements are plain numbers.

### BTree and BufferBTree

A call of `insertNonFull` on one node is a step: split and descend, descend, or
insert in the leaf. Memory from `new` holds `UNINIT`, and the `search` of
`btree.cc` reads the word behind the last key as the code does: `Search` is the
*set* of results the call may have.

`BufferBTree` has the same steps. The fields `n`, `C` and `leaf` are ordinary
memory there, so the instance `Nodes` of `BTree` provides them; the keys are in
the buffer, and inside a step they are moved one by one (`Move`, the loops
`MoveKeys` and `MoveUp`, `InsertKey`, `SplitKeys`), each by a read and a write
that may transfer. `mem` is the buffer and the history `exact`: every read so
far showed what was last written there. The instance `Direct` is the tree with
the keys last written, for comparison with `btree.cc`.

### Heap and BufferHeap

One iteration of the loops of `insert` and `Delete` is a step. `BufferHeap`
keeps apart what the program does through the buffer and past it: `insert`
stores `h[++heapsize]` directly (line 38), `Delete` reads the first and the last
element directly (55) and hands `write_literal` a pointer into the array (70),
of which the NVM's object is copied. The instance `Heap` is `heap.cc` with the
elements last written.

### Flush and Sps

An entry is an object of `LINES` cache lines. The program sees whole objects
(`a`, `log`), the NVM holds a value per line (`aNvm`, `logNvm`). Each store and
each flush of `array_swap` is a step; between any two of them `EvictEntry` and
`EvictRecord` write any line back, as hardware may. A crash is not an action: it
may happen in every state and leaves the NVM as it is, so what must hold after a
crash is an invariant over `aNvm` and `logNvm`. The repository has no recovery
code; the invariant is what such code would need. `FlushedLines` follows `p+=64`
on an `intptr_t *`: every eighth line.

### HashTable and HashLog

In `HashTable` one turn of `main` is a step on the keys. `HashLog` has the steps
inside it: the stores, the flush of the item, the log record, its flush; lines
are written back at any moment in between. Items and records are five lines
long; two of each are modelled, the first, which `flush` reaches and which has
the text (and, in a record, the pointer), and the last, which has the key and
which `flush` does not reach. `numa` itself is never flushed; the properties are
about the records.

The redo logs of `heap.cc` and `btree.cc` are written and never read, and are
left out.

## Runs

| run | module, configuration | shows |
|---|---|---|
| `buffer_api` | `MCMmpUser`, `MmpUser_api.cfg` | any sequence of interface calls keeps index, queue, NVM and the client's view together; which reads are right; refinement of `PersistentMemory` |
| `buffer_xfer` | `MCMmpXfer`, `MmpXfer.cfg` | what a crash may find, that a transfer could be run again, that it ends; refinement of `MmpUser`; the calls the benchmarks use have no undefined behaviour |
| `swap_room` | `MCBufferSps`, `BufferSps_swap.cfg` | a swap invents nothing; it is exact if its reads were and no transfer falls inside |
| `sps_undo` | `Sps`, `Sps_undo.cfg` | log before data in the lines `flush` reaches; finished swaps are durable there |
| `tree_insert` | `MCBTree`, `BTree_tree.cfg` | shape and occupancy (`WellFormed`), order, contents at each step; insertions end; present keys are found |
| `buffer_btree` | `BufferBTree`, `BufferBTree.cfg` | the shape withstands wrong reads; after right reads the tree is that of `btree.cc`, over transfers inside a split; its search |
| `tree_search` (violated) | `MCBTree`, `BTree_search.cfg` | an absent key can be "found" behind the last key |
| `heap_build` | `Heap`, `Heap_build.cfg` | heap order and contents at each step of `insert`; both loops end |
| `buffer_heap` | `BufferHeap`, `BufferHeap.cfg` | right reads up to the first transfer; after right accesses the array is that of `heap.cc`; the loops end whatever is read |
| `heap_delete` (violated) | `Heap`, `Heap_delete.cfg` | after a `Delete` the first element need not be the least |
| `hash_log` | `HashLog`, `HashLog.cfg` | each turn toggles its key; the log tells the text of every item in the NVM except that of an unfinished turn; flushed texts stay |
| `vector_sum` (violated) | `Vecs`, `Vecs.cfg` | sums computed after a transfer are made of elements of the third vector |

A violated run checks one statement that the source makes about itself;
`PROJECT.json` quotes it.

**Bounds.**

* `buffer_api`: 2 addresses, 2 values, 2 slots that `my_write` may make 3
  (`QMAX`). Enough for an address written twice in a batch, a neighbour below, a
  wrap in the middle of a batch, and an address for which `my_write` counts past
  the end of `dirties`. `TXMAX` bounds the transaction ids, `BYTE` stands for
  256. That three addresses add nothing is part of what the proofs show.
* `buffer_xfer`: 2 addresses, 2 slots, objects of 2 words. A batch has one entry
  or two, the later slot may hold the lower address or the same one, an address
  outside the batch may lie below or above it, a transaction may end between two
  writes, and the words of an object may be written back batches apart. The loop
  is at one address at a time and treats all it skips alike; the theorems are
  for any number of addresses, slots and words.
* `swap_room`: 3 entries, so that a read can go to a neighbour that is not part
  of the swap, and 5 slots: a swap takes two, so the queue fills inside one swap
  and between two others.
* `sps_undo`: 2 entries of 2 lines, one of which `flush` reaches, and 3 records,
  so that the log wraps inside a swap.
* `tree_insert`: the tree of degree 2 reaches three levels with 9 insertions; 4
  keys give duplicates and every relative order around a split. `buffer_btree`
  has 3 keys, the same number of insertions and one turn of `main`, and 5 slots:
  a leaf insertion writes up to three keys and a split more, so a transfer falls
  inside every kind of step.
* `heap_build`: 7 elements, three full levels. `buffer_heap`: 6 elements, 3
  turns (delete, insert, delete), 4 slots.
* `hash_log`: 2 cells, 2 texts, 3 records: the log wraps while both cells have
  records in it. The theorems cover every table size.
* `vector_sum`: 3 elements and 15 slots. As in the code (15000 writes a round,
  100000 slots) there is a round in which the queue becomes full between the
  filling and the addition.

`CHECK_DEADLOCK FALSE` is set where the program ends (a bound on operations,
`done`) or the model stops at undefined behaviour. `buffer_btree` and `hash_log`
are checked for deadlock.

**Fairness.** `BTree!FairSpec`, `Heap!FairSpec`, `BufferHeap!Spec` and
`MmpXfer!XferSpec` assume weak fairness of the steps *inside* a call only: a
sequential program that is in a loop goes on with it. Nothing is assumed about
further calls or about write-backs of cache lines. `BufferBTree` needs no
fairness: `InsertGoesDown` is a variant, the distance to the leaves falls with
every step of an insertion and no state deadlocks.

## Proofs

The theorems hold for every value of the constants the assumptions allow: any
addresses, values, keys, degrees, lengths of queue, log, table and array.

### The buffer: `MmpProofs`, first part

None of `MmpUser`'s invariants is inductive alone: that `nvm` keeps its type
over a transfer rests on `NoLostWrite`, and `NoLostWrite` rests on
`IndexIsNewest`. `IInv` is their conjunction with `TypeOK`; its conjuncts are
the invariants of `buffer_api`. The argument:

1. `TransferredIsView` / `TransferredIsLatest`: as an indexed address leads to a
   slot that names it, every address is written once, from its newest slot, and
   the transfer makes the NVM equal to the view in whichever order it copies.
2. `MyWriteLiteralIInv`: a write, with or without the transfer, keeps `IInv` for
   any pointer that shows the same object after the transfer as before it; a
   client's own variable is such a pointer (`MyWriteLocalIInv`).
3. One lemma per other call, `NextIInv`, then `BufferInvariant` by induction;
   `TypeOK`, `IndexIsNewest` and `NoLostWrite` are its conjuncts.
4. `NvmIsASnapshot`: a step that changes the NVM is a transfer, by 1.
5. `ReadsExactOrBelow`, from the invariant and what `JLL` returns: the nearest
   index at or below the address; so a read of a buffered address, or of one
   below all of them, is right. That there is a nearest one in any set of
   addresses is `MaxExists`, by well-founded induction. (The lemma `ReadIsLoad`
   says that `MyRead` and `Load` of `LiteralBuffer` are the same search.)
6. `LiteralNeverUndefined`: without `my_write` and `my_finish`, `giter` is not
   beyond the queue and the node map never moves.
7. `BufferImplementsMemory`: with `mem <- View`, `pending <- giter`, every call
   is a `Write`, a `Flush` or a stutter of `PersistentMemory`.
8. `BufferImplementsCache`: from `IInv` and `LiteralInv` (that of 6), a transfer
   of the queue is a transfer of the cache (`TransferIsTransfer`), and a write a
   `Store` (`WriteIsStore`). With `ReadIsLoad` this justifies the composition of
   the clients with `LiteralBuffer` instead of `MmpUser`.

### The transfer: `MmpProofs`, second part

`XferInv` is `LiteralInv`, the invariant of `MmpUser` for the memory *the caller
will find* (`BufferInv`, on the instance `Buffer`), what the interrupted call is
(`CallerInv`), and where the loop is (`LoopInv`): it has written every address
of the array it has passed and no other (`LoopWrote`). The loop touches neither
queue nor array, so `BufferInv` stays; `JLN` finds the next address, so nothing
is passed over (`WaitCopies`). At the end of the loop the memory is therefore
what the buffer recorded: `TransferRestarts`, `XferNeverUndefined`, and
`XferImplementsBuffer`: with the mapping of `Buffer` every step is a step of
`LiteralSpec` or a stutter. With 8 above, `LiteralBuffer` is what the loop with
its waits promises too.

`CrashInv` adds the cache: outside the loop the memory is that of the end of a
batch (`Settled`), inside it that or, where the loop has passed, the client's
last writes; so whatever line is written back, at whatever moment, it takes no
other object along (`EvictStep`). No step of the program writes a line back,
which leaves `CrashFindsNoQueued` to the way `ends` and the copied addresses
grow.

### The swap through the buffer: `MmpProofs`, third part

`NoLostWrite` does not hold here: a pointer into a slot may show another object
by the time it is dereferenced. `SpsInv` says what is left. The buffer has some
record of every entry (`RecordInv`); a pointer leads to an object some entry
held when the swap began, also if the first write has reused its slot
(`PointersByStep`), which with `NothingInvented` itself gives
`SwapsInventNothing`; and while `exact` and `room` hold, it leads to the object
it was read for (`ExactByStep`), which gives `SwapsWithRoom`.

### The swap with a log: `SpsProofs`

`IInv` follows the program counter: which record holds the old text of which
entry, in the cache and in the flushed lines of the NVM (`LogByStep`); which
entries may differ from what they were (`ArrayByStep`); and that of the flushed
lines only those of the entry just stored may be behind (`OnlyPendingBehind`).
That the record of the first entry survives the writing of the second needs two
records at least, the one assumption about `LOGSIZE`. `CrashIsUndoable` and
`ReturnedIsDurable` follow at each step.

### The hash table: `HashProofs`

`KeysStayHome` (`TypeOK` and `HomeOnly` form an inductive invariant) and from it
`TurnsToggle`, for any table size: a key is present exactly when its home cell
is not empty, so `search` and `insertH` both end there. `LogImplementsTable`: a
step of `HashLog` is a turn of `HashTable` or leaves it alone, so both results
hold of the program with its log as well. `FlushedStaysDurable` by `DurableInv`,
which adds the domains the property needs; the turn stores to the item it then
flushes because the target is the home cell of its key (`TargetIsHome`).

`LogInvariant` adds `LogInv`: no record but the one being written is behind in
the NVM (`NvmFollows`), and of each cell the newest record *in the cache* has
the text, but for a turn that has stored the one and not yet the other
(`NewestHasText`). Ages count back from `numa` around the log, so that when
`numa` moves the record overwritten is the oldest, and none but it stops being
the newest of its cell. `LogExplains` and `LogTypes` follow.

### The heap: `HeapProofs`, `BufferHeapProofs`

`Places` bounds the indexes of both loops. It rests on `main`: `Delete` runs on
a full array of three elements at least, so its loop is entered and `j` has a
value; and on the sentinel, which stops `insert`. With it `HeapWhileBuilding`
and `KeptWhileBuilding` are inductive (`HeapInvariant`): a step of `insert`
exchanges the hole with the place above it.

`AccessesStayInside` says the same of `BufferHeap` *whatever the reads return*:
no address outside the array is ever buffered, and `h[0]` never, so the sentinel
is always read from the NVM. `RightUntilTransfer` (`ExactUntilTransfer`) follows
with `BeforeTransfer`: before the queue is first full exactly the places already
written through the buffer are in it, and `insert` reads only those and the
sentinel. `RightIsHeap` (`LikeHeap`) needs no such condition: as long as the
accesses were right, each step on the array as last written is a step of `Heap`.

### The B-tree: `BTreeProofs`

Two inductive invariants, for any degree, keys and number of insertions.

`IInv` is about the nodes: numbered as allocated, good (`Good`: the children up
to `n` are nodes; `Keyed`: the keys below `n` are keys), the place of a call has
room, each node but the root is the child of one place and the root of none
(`Linked`), enough keys in each (`Filled`), and every key in as many places as
insertions left it (`Kept`). The last three count places, and a split moves
words: `KeyTo` and `KeyFrom` (`LinkTo` and `LinkFrom` for children) name the
place each word goes to and comes from, inverse to each other, so a split keeps
every count but that of its new node. Hence `TreeTypes` and `NoKeyLost`.

`OrderInv` is about the paths: there is a height for every node, one more than
that of its children, and a set of keys for every node (`IsSpan`), all keys for
the root and for a child those between the keys beside it, with every node
sorted within its own; and the key of a call is in the set of the call's node.
A split divides the set of the child at its middle key (`HalfSpans`) and leaves
all others: that is `SplitKeepsSpans`, and the new key of the parent lies
between its neighbours because it was in the set of the child. `PlaceFits` and
`SideFits` show that the scans of `insertNonFull` follow the key.

`NodesUnder`, `LeafDepths` and `search` are recursive functions. That each is
what its equation says is proved by giving a solution (`ReachedIs`: the least
set closed under the children); what they compute then follows by looking at the
lowest node at which it would not (`LowestNode`; `HighestNode` for "every node
is under the root"), which exists because heights are numbers. So
`TreeWellFormed`, `KeysInOrder`, `CallsAreInPlace` and `PresentKeysAreFound`,
the last whatever the words behind the keys are.

### The B-tree through the buffer: `BufferBTreeProofs`, `BufferBTreeExactProofs`

A node of `BufferBTree` is compared with two nodes of `BTree`, by two instances
of `BTreeProofs`, and each gives what its lemmas say of it.

*Whatever is read* (instance `Bare`: the keys are left as `new` gave them, and
no lemma used asks for `Keyed`). `TreeInv` is the part of `IInv` and `OrderInv`
that no key decides: `Good`, `Linked`, `Filled`, a height for every node. A step
may take the wrong child, but it takes a child, so `ShapeIsKept` and, as heights
fall on the way down, `CallsGoDown`. The keys of `Bare` are all the same one, so
that its count (`Few`) is the places in use: no more than the insertions so far.
With it no node is numbered beyond those the buffer has addresses for
(`TreeFits`, by `NodesAreFew`).

*Memory.* `MemInv` is about the buffer under this client: what is cached or in
the NVM is a key inserted so far or was never written, and every place in use
was written. A read of a written place is then a key, and until the first
transfer the place itself is in the queue, so the read is exact
(`ReadsAreExact`): that is why `ExactUntilTransfer` needs the shape first. What
a loop of moves leaves (`MoveKeys`, `MoveUp`) is shown by looking at the first
move after which it would not be so, since induction over the number of moves is
not to be had.

*After right reads* (instance `Whole`: the keys last written, `WholeNode`). A
loop whose reads were all right does to the words what one assignment of `BTree`
does to the arrays (`SplitIsSplit`, `LeafIsWhole`, `InsertIsWhole`), although
the code moves keys one at a time into places that are in use. So a step of
`BufferBTree` is one of `BTree` on `WholeNode` as long as `exact` stays true
(`StepIsDirect`), which is `MovesLikeBTree`, and `IInv` and `OrderInv` carry
over (`WholeInvariant`, `TreeStaysOrdered`). `search` reads again, and these
reads may be wrong too; one whose reads are right scans as one of the words last
written would (`LooksRight`), and stops at the last key, so it finds a key
exactly if it was inserted (`SearchesAreRight`).

### Assumptions, and what is only model-checked

The proofs use the named assumptions on the constants (`LocationAssumption`,
`NullAssumption`, `SizeAssumption`, `HashAssumption`, `ByteAssumption`,
`BoundAssumption`, `WordsAssumption`; `SpsAssumption`; `TableAssumption`;
`StrideAssumption`, `LogAssumption`; `HeapAssumption`, `BufferHeapAssumption`;
`TreeAssumption`, `BufferTreeAssumption`), which TLC evaluates in the runs.

Only model-checked is liveness (`InsertReturns` of `BTree`, `CallsReturn` of
`Heap` and `BufferHeap`, `TransferReturns`): weak fairness is stated with
`ENABLED`, which is out of the prover's reach. So is induction over data by the
library's theorems, which take an operator as a parameter; where a proof needs
it (`MaxExists`, recursive functions, loops), it looks at a least counterexample
instead. The three violated runs are TLC's alone.

## What the code does not do

Three statements of the source are not true of the code; each has a run that
shows it and an entry under "findings":

* `vector_sum`: `my_read` returns a neighbour's object when the address is not
  buffered but a lower one is, so vector sums go wrong after a transfer.
* `tree_search`: the B-tree's `search` reads behind the last key.
* `heap_delete`: `Delete` breaks the heap.

The properties of other runs carry conditions that the code makes necessary:

* A swap is exact only if no transfer falls inside it (`SwapWithRoomIsExact`):
  the pointers `array_swap` holds show other objects afterwards, also when both
  reads were right.
* `flush` passes over seven of eight lines (`flush.h:17` steps a pointer to
  words by 64), so `FlushedLinesUndoable`, `FlushedLinesDurable`,
  `FlushedTextDurable` and `LogExplainsTexts` are about the lines it reaches.
  The key of an item is not in one.
* `my_xfer` flushes nothing, so neither a running nor a finished transfer need
  be durable: after a crash the words of an object may be of different batches
  (`CrashFindsBatchEnds`). All that can be said is what is *not* found: objects
  overwritten within their batch, and objects still only queued.
* `hash.cc` writes and flushes the item before its log record, so the log may be
  one turn behind (`LogExplainsTexts`).
* The keys of `BufferBTree` and the elements of `BufferHeap` are right while
  reads are right; after a transfer they need not be.

Visible without a search: `buffer_sps.cc:133` names `finish` and does not call
it (`Finish`); the byte counters of `dirties`, which nothing reads, wrap to zero
(`Bump`); `buffer_heap.cc:111` joins a thread that was never created.

## Not modelled

* `mmp_init.cc`, `mmp_thread.cc`: `my_init` calls `get_rt_mem`, once, from one
  thread; what `internal_init` leaves is `MmpUser`'s `Init`. The creation of the
  thread that would run `LoopTransfer` is commented out.
* `HashTable/buffer_hash.cc` assigns numbers to the array member `data` of
  `hash.h`'s `DataItem` and does not compile against that header.
* `base_vecs.cc` is a loop over its arrays. `p_vecs.cc` writes a log nobody
  reads and copies from it the first bytes of a pair, which are those of a
  pointer.
* `thread_base.c`: all elements are and stay 0, so no order of the two threads
  can be told from another. `thread_buffer.c` passes a number where
  `write_literal` takes a pointer; its first call copies from address 1 and the
  program ends there. No program of the repository has two threads in the
  buffer, and `MmpUser` has one.
* `lat.*` (waits, no state the rest reads), `mem.h`, the experiments, the
  checked-in binaries and the recorded outputs.

## Plan

The modules and theorems planned are there. Every invariant, action property and
refinement of the passing runs is proved; a change of the code would be followed
in this order:

1. the definitions `PROJECT.json` maps to the changed lines, and the runs of
   their module;
2. the lemmas named for the changed actions (`...IInv`, `...Keeps...`): one
   lemma per action, so that the others stay as they are;
3. the clients, if what `LiteralBuffer` or `BTree` promises has changed.

The hazards without a property in `PROJECT.json` say why they have none. Should
the lines that create the transfer thread be uncommented, `MmpXfer` is the
module to start from: its steps would then interleave with those of `MmpUser`.
