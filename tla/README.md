# Verification of the Eastlake evaluation suite

TLA+ models of the programs under `src/`, checked with TLC on small instances
and proved with TLAPS for every value of the constants.

The repository evaluates *Eastlake* (called *lullaby* in the headers), a kernel
that offers persistent objects on persistent memory. It holds a persistent hash
table (CCEH), a crash consistency test, and a set of bandwidth, NUMA and
microbenchmarks.

## 1. Inventory

| Component | Files | State it keeps | Operations |
|---|---|---|---|
| CCEH hash table | `datastructures/CCEH.h`, `CCEH_MSB.cpp`, `util/pair.h` | directory array, its capacity, `global_depth`; per segment 1024 pairs, `local_depth`, `pattern` | `Insert`, `InsertOnly`, `Get`, `Utilization`, `Capacity`, `FindAnyway`, `Recovery`; inside: `Segment::Insert`, `Insert4split`, `Split`, three ways to update the directory |
| Hash interface | `datastructures/hash.h` | none | the virtual functions CCEH implements |
| Driver | `datastructures/CCEH_MSB_test.cc`, `util/input_gen.cpp` | the input, the table | inserts every key, then gets every key, on one thread |
| Spin lock | `datastructures/util/rwlock.h` | one word | `TryReadLock`, `ReadUnlock`, `WriteLock`, `WriteUnlock` |
| Hash functions | `datastructures/util/hash.h` | none | `h` |
| Persistence | `datastructures/util/persist.h` | none | `mfence`, `clflush` (only fences: the flush loop is commented out) |
| System calls | `include/eastlake.h` | the kernel's objects, descriptors and chunks | `po_creat` ... `po_chunk_next`, `po_malloc`, `po_free` |
| Crash consistency test | `crash_consistency_test/run_before_crash.cc`, `run_after_crash.cc` | `existing_pos`, `opened_pos`, the file `op_log` | eleven random operations, a log record after three of them; replay and check after a restart |
| Benchmarks | `bandwidth/`, `numa_test/`, `multiple_pages_test/` | one object, the addresses of its chunks, the access patterns | prepare (in the NUMA programs by threads under a mutex), rounds of threads over a partition of the blocks, clean up |
| Microbenchmark | `microbenchmarks/` | a list of names, one object for each | create, extend, open, delete, one loop for each |
| Tools and scripts | `tool/`, `eastlake-memcached/`, `datastructures/aep.*`, `util/timer.h`, `util/fileio.h` | none | one call each, plots, clocks |

How they interact. The driver calls CCEH through the `Hash` interface; CCEH
calls `h` on keys, and `mfence`/`clflush` between its stores. The crash test and
the benchmarks call the kernel through `eastlake.h`. The two halves of the crash
test share nothing but the file `op_log` and the kernel's objects. The spin
lock has no caller.

What is hard:

* *CCEH.* A segment splits **in place**: pairs that move are copied, not
  removed, and are recognised as dead later because their hash no longer starts
  with the segment's `pattern`. Slot reuse, the order of the scan, the choice of
  the bit, the pattern and the directory indices must all agree. None of it is
  local: a mistake shows many insertions later, in another segment, at another
  depth. The insertion retries by `goto` until there is room, which must end.
* *Stores and crashes.* Pair, depth, pattern, directory entry, directory
  pointer, capacity and global depth are stored one by one. A lookup or a restart
  between two of them sees a half-made table.
* *Spin lock.* Loads and compare-and-swaps of several threads interleave.
* *Crash test.* A crash between the system call and the log record; a replay
  that has to reconstruct what the first half had in memory.
* *Benchmarks.* Threads that write without a lock; chunks handed out in the order in
  which a lock is won; a helper that exits with the lock held; objects left behind
  by an early exit, under names that several programs share.

What makes each correct:

* *CCEH.* Get after Insert finds the key, always. The directory partitions the
  hash space by the patterns of the segments. No segment is leaked. A pair is
  counted once. A call changes nothing that lookups see before the one store that
  makes its pair visible. A call returns.
* *Spin lock.* A writer is alone; the word counts the holders.
* *Crash test.* Memory, kernel and file agree up to the operation in flight; the
  replay arrives at what the kernel durably holds, raises no false alarm, and fails
  when something is missing.
* *Benchmarks.* No two threads of a round touch the same block; a round moves
  what its bandwidth is computed from; a measurement never runs on another
  process's leftovers; a run that ends leaves the kernel as it was.

## 2. Modules

| Module | What it is |
|---|---|
| `HashMap` | What the interface promises: a map, one operation at a time |
| `CCEH` | The table: one action per store, the readers as operators, properties, inductive invariants |
| `MCCCEH` | Hash functions for the instances TLC checks |
| `CCEH_proofs` | Lemmas on division, for bit shifts; type correctness of `CCEH`, coherence of the directory, reachable segments |
| `CCEH_lookup` | No key is lost, counts, `FindAnyway` (extends `CCEH_proofs`) |
| `CCEH_refinement` | `CCEH` implements `HashMap`; where keys are lost when windows wrap (extends `CCEH_lookup`) |
| `CCEHCrash` | `CCEH` with a crash between any two stores, and `Recovery` (extends `CCEH`) |
| `MCCCEHCrash` | Its instance for TLC |
| `CCEHCrash_proofs` | What a crash costs and what `Recovery` does (extends `CCEHCrash` and `CCEH_lookup`) |
| `RwLock` | The spin lock, one action per access to the word |
| `MCRwLock` | Its instances for TLC |
| `RwLock_proofs` | Its type correctness and exclusion |
| `Eastlake` | The kernel's objects, chunks and descriptors, external: what the callers rely on |
| `OpLog` | The crash consistency test: both programs, the file between them, crashes (extends `Eastlake`) |
| `MCOpLog` | Its instances for TLC |
| `OpLog_proofs` | Memory and file agree with the kernel, the replay with the file |
| `Benchmark` | What all benchmarks share: the life of a process, `Prepare`, rounds, threads (extends `Eastlake`) |
| `LatBw` | `lat_bw.c` (extends `Benchmark`) |
| `ObjectBench` | `microbenchmarks/test.c` (extends `Benchmark`) |
| `Bandwidth` | The programs of `bandwidth/` composed with those two, one run after another |
| `MCBandwidth`, `Bandwidth_proofs` | Its instance for TLC; threads stay apart, a round moves what is measured, the kernel is left as found |
| `NumaBench` | The programs of `numa_test/` and `multiple_pages_test/` (extends `Benchmark`) |
| `MCNumaBench`, `NumaBench_proofs` | Its instance for TLC; every thread has its chunk, on its node, and writes all of it |

### CCEH

What is modelled is the table as it is compiled: `INPLACE` is defined and the
lock code is commented out, so one thread runs one operation at a time.
`dir`, `capacity`, `global_depth`, `local_depth`, `pattern` and `slot` are the
fields of the same names (`slot` is `Segment::_`). Segments are numbered in the
order of their allocation, `nseg` counts them. `pc`, `op`, `target`, `at` are the
thread's place, the arguments of the call and its locals; `acked` is history.

| Actions | Code |
|---|---|
| `Insert`, `InsertOnly` | the driver calls |
| `StoreValue`, `StoreKey` | `Segment::Insert`: value, fence, key; the call returns |
| `ReturnFalse` | `InsertOnly` finds no room |
| `AllocateSibling`, `CopyPair`, `Deepen` | `Segment::Split` with `Insert4split` |
| `SetPatterns` | the two assignments after `Split` |
| `PointSibling`, `PointChunk` | directory update when the segment has two, or more, entries |
| `SwapDirectory`, `DoubleCapacity`, `DeepenGlobal` | doubling: the stores to `dir._`, `dir.capacity`, `global_depth` |

Decisions worth knowing:

* Loads and stores between two stores that outlive the call are one action: the
  new array of a doubling is filled in `SwapDirectory` since nothing refers to it
  before, and both patterns are set in one step. Fences and flushes order
  stores; without a crash in the model they are no steps.
* `Hash` is an arbitrary function of width `HashBits`. `INVALID` has a hash too:
  `Split` hashes empty slots like any other, and may "move" one.
* Powers of two are a constant table `Pow2`, pinned down by an assumption (its
  value at 1 and the law of exponents): what a recursive definition computes
  could not be used in the proofs. `MCPow2` gives TLC the table.
* The code shifts by the width minus the depth. `InitAssumption` starts at depth
  one or more (the driver calls `CCEH(2)`), `AllocateSibling` stops at a depth
  equal to the width, where the code would shift by a negative amount.
* The capacity may be any number, not only a power of two: entries beyond
  `2^InitDepth` exist and double with the rest, but no prefix leads to them.
* `NONE` is kept apart from the values. In the code it is 0 and the input may
  contain 0: such a key reads as missing whatever the table does.
* A failed allocation is not modelled.

### RwLock

The word is a number below `2 * kWriteStatus`, `kWriteStatus` standing for
`2^63`. The macro `CAS` is modelled by what it does: on failure it stores the word
it found into the local `cur_lock`. Threads release exactly what they acquired.
`contended` is history: some `WriteLock` has lost a round.

### CCEHCrash

Adds `Crash` (the call in progress and its locals are gone; one crash per
behaviour), `RecoverGroup`, `RecoverOverflow` and `RecoverBelow` to the actions of
`CCEH`.

* A store is durable once made, in program order. `persist.h` flushes nothing, so
  this is the best case: what the model loses is lost on any machine. Caches that
  write back in another order lose more and are not modelled.
* `Recovery` has no caller in the repository. It runs once after the crash, before
  the next call.
* Where a segment is deeper than the table (`TooDeep`) the difference of two unsigned
  depths wraps around, and the result of `pow`, infinite, is converted to an integer:
  undefined, and 0 or 2^63 in practice. From `i > 0`, `Recovery` then stands
  still (`pc = "stuck"`) or returns (`RecoverOverflow`). At `i = 0`, `j` is -1, which
  compares as `SIZE_MAX`: the loop reads, and may write, below the array
  (`RecoverBelow`). `pc = "wild"` ends the behaviour, and nothing is said of the table
  from there on.
* `crashed` (where the crash fell) and `leaked` (the segment a crash inside the
  copying left unreachable) are history.

### Eastlake and OpLog

`objects` maps a name to the addresses of its chunks in the order they were
added, `descriptors` a descriptor to a name; objects survive a crash, descriptors
do not. `existing` and `opened` are `existing_pos` and `opened_pos`, `log` is the
file.

| Actions | Code |
|---|---|
| `Creat`, `Unlink`, `Open`, `Close`, `Extend`, `Shrink` | the cases of the switch in `run_before_crash.cc` that change something, with the helpers that pick the object |
| `WriteRecord` | the record in the file, then the list in memory |
| `Abort` | an assertion that meets a failed extend kept as an address |
| `Crash`, `RunBefore`, `RunAfter` | the environment; `RunBefore` truncates the file |
| `ReplayRecord`, `ReplayTrailing`, `Spin`, `CheckIsOk` | the loop of `run_after_crash.cc`, its last round, the loop without a file, the check |

* A system call and its record are two steps; a crash can come between them.
  `inflight`, the record that is due, is kept in a crash only for the properties.
* `po_chunk_mmap`, `po_chunk_munmap`, `po_stat`, `po_fstat` and `po_chunk_next`
  change nothing that is modelled. What their assertions compare is
  `MemoryIsKernel`.
* `flush()` reaches the operating system and not the disk: a crash may take any
  suffix of the file, at the boundary of a record. Records torn in the middle are not
  modelled.
* The loop tests for the end of the file before it reads, so there is one round
  more, with the operands of the last record, which the failed reads leave alone,
  or anything when the file is empty.
* A crash that takes every record may take the file as well. `run_after_crash` does not
  look whether it could open the file, and a failed open never sets the end of file:
  its loop goes round (`Spin`), with whatever its locals hold, until a null vector or
  the operator stops it (`RunBefore`).
* `KernelLoses` lets a crash take the last chunk of an object, to see what the check
  is worth. `leftover`, `tailLost`, `chunkLost` are history.
* What a file says, `Meaning`, is a recursive function over its records, each of which
  has its `Effect`.

### Benchmark, LatBw, ObjectBench, Bandwidth, NumaBench

One process runs at a time. `Start` runs any program, `Die` ends it anywhere
(an `exit(-1)`, a thread that cannot be created, a signal), `DeletePo` is
`tool/delete_po` on any object. Actions named after the source's functions with
the program in front (`seqread_Prepare`, `bw_RandWriteThread`) instantiate the
parts the programs have in common. `moves` holds the blocks each thread of the
round has moved, in order.

* A thread moves one block per step. `BlockNum` is `EXTEND_MAP_SIZE / BLOCK_SIZE`,
  `LatBlocks` the length of `access_list` in `lat_bw`, whose entries are single
  blocks as compiled.
* `po_open`'s result is not looked at, so a round may run with no descriptor.
* `po_extend` that returns -1 passes the comparison with `NULL`; the loop that fills
  the chunk is killed. Both that and the exit are `ExtendFails`.
* Which free address the kernel hands out makes no difference: `AnyFree` is one
  of them. That it is free is what `po_extend` promises.
* Access patterns are any function of blocks to blocks (`rand()` repeats itself);
  the list of `lat_bw` is shuffled by swaps, as `shuffle_access_list` does.
* In `NumaBench` `Prepare` is a thread's: `Lock`, `Extend`, `Fill`, then `Draw`
  where the program has patterns. `set_affinity` and the nodes of the CPUs are
  `Cpu` and `Node`. That `MAP_NUMA_AWARE` takes the chunk from the caller's node is
  the kernel's promise; a failure to bind a thread, and huge pages, are left out.
* The names the microbenchmark reads from `ponames.txt` are a constant.
* `sandbox_check` is called nowhere; it is stated as a property.

## 3. Runs

| Run | Checks | Shows | Size |
|---|---|---|---|
| `distinct` | `TypeOK`, `NothingLost`, `DirectoryCoherent`, `NoSegmentLeaked`, `FindAnywayAgrees`, `DirInv`, `DataInv`, `ImplementsMap`, `InsertReturns` | eight distinct keys in every order; the table implements `HashMap` | 30,976 states |
| `repeated` | `UtilizationExact`, `MapInv`, `ImplementsMap`, `InsertReturns` | keys inserted twice with other values; three directory entries to start with | 216,553 states |
| `wrap` | `LossOnlyAroundTheEnd` | the only way to lose a key | 2,355 states |
| `wrap_lost` | `NothingLost` (violated) | a split drops a pair | finding |
| `rwlock_word` | `TypeOK`, `ExclusiveUntilContended` | three threads | 13,408 states |
| `rwlock_blocks` | `WriteLockBlocks` (violated) | `WriteLock` returns on a held lock | finding |
| `crash` | `RestartLosesOnlyInDoubling`, `EarlyCrashIsHarmless`, `RecoveryFailsOnlyInDeepening`, `RecoveryRepairsNothing` | which crashes cost a key, which a segment only, what `Recovery` does about it | 61,707 states |
| `oplog` | `TypeOK`, `MemoryIsKernel`, `OpenedAreDescriptors`, `LogExplainsObjects`, `ReplayFindsObjects`, `NoFalseAlarm`, `NullVectorOnlyWhenEmpty`, `LeftoversUntouched`, `ReplayEnds` | both halves of the test over several crashes, with a kernel that keeps everything | 626,059 states |
| `oplog_extend` | `ExtendGaveAnAddress` (violated) | a failed `po_extend` is logged and kept | finding |
| `oplog_loss` | `LossIsNoticed` (violated) | a kernel that loses a chunk passes | finding |
| `bandwidth` | `TypeOK`, `ObjectIsAddrs`, `NoBlockShared`, `RestoresKernel`, `RoundMovesAll`, `ProgramEnds` | seven programs one after another, killed at any point | 832,571 states |
| `numa` | `TypeOK`, `ChunkPerThread`, `LocalAndBalanced`, `SandboxCheck`, `ProgramEnds` | eight programs; helpers get the lock in every order | 154,849 states |

Bounds. Hashes of six or seven bits, segments of four slots and windows of two
stand for 64 bits, 1024 slots and windows of 16. In `distinct` three keys of one
corner of the table overflow a window and take the directory to depth four or, in
other orders, three, and a segment of depth one then splits while it owns four or eight
entries: all three directory branches run. Pairs left behind by a split are
overwritten by later insertions, and copied again by later splits; empty slots
are "moved" too, since the hash given to `INVALID` has every leading bit set.
`MaxCopies` bounds how often a key
comes. Deadlock is not checked in these runs: once every key has come as often as
the bound allows, the driver is done and stops.

In `distinct` and `repeated` no window runs around the end of a segment; in
`wrap` and `wrap_lost` some do. `wrap` says how far the damage of the finding goes:
a key is lost only at the step that makes the directory point to a new segment
which holds a pair whose window wraps.

`crash` has six keys on the same geometry: a first split with two entries, one with
more, and a doubling all happen before, after and around the crash.

`oplog` has two names, three addresses, two descriptors and files of up to five
records (`MaxLog`): enough for an object that gets three chunks and gives one back,
for the creation of a name that was deleted, and, over restarts, for objects of
earlier runs beside the present ones. `MemoryFollowsKernel` and
`NoDescriptorIsLost` hold without these bounds.

`bandwidth` has four chunks of two blocks and rounds of one, two and four threads,
so that a thread has four, two and one chunks; `lat_bw` has five blocks for one,
two and three threads, so that the rounds leave out none, one and two of them.
There are four addresses: an object left behind can make the next `po_extend` fail.
`MaxObjects` bounds by one the objects left when a program starts. `numa` has three
helpers and rounds of one, two and three threads, and two patterns to draw: one
that reaches every block and one that repeats a block (`Drawn`). Deadlock is checked
in `oplog`, `bandwidth` and `numa`; it is not in `crash`, whose driver stops.

`rwlock_word` uses three interchangeable threads (hence the symmetry; it checks
no liveness) and a word of three bits, the smallest that can count them. Deadlock
is checked.

Fairness. `InsertReturns` assumes weak fairness of `Step`, the actions of a call in
progress: the one thread of the driver runs on, and nothing else can take a step
in between. Calls themselves are not assumed to come. `ReplayEnds` assumes weak
fairness of `Replay`, the one thread of `run_after_crash`, and speaks of a file that
could be opened: without one the loop never ends. `ProgramEnds` assumes
weak fairness of `Run`, all actions of the process together: the operating system
runs some thread that can run. It needs no fairness among the threads, since each
has finitely many blocks to move, and none of `Start`, `Die` or `DeletePo`.

Refinement. `ImplementsMap` maps the abstract `map` to what a lookup through the
array in place finds for each key (`View`) and `pending` to `op`. Every store of
a split or a doubling is a stutter, `StoreKey` alone is the abstract `Return`.
In the middle of a doubling the array in place already has one more bit than
`global_depth`; `View` uses the depth of the array. `HashMap` allows a second
insertion of a key to leave the first value in place (`ReturnShadowed`): the code
does not look for an older pair, and which of the two comes first in the window
depends on the history.

## 4. Findings

* **A split can lose a key** (`wrap_lost`). `Insert4split` gives up silently when
  the window is full. Without wrapping, the scan meets pairs in the order of
  their slots and each finds a place no later than its old one; this is proved. A
  pair that had been placed around the end of the segment is met first, moves to the
  end of the new segment, and can take the room of pairs met later. With the
  compiled constants, windows that start in buckets 253 to 255 wrap. The check in
  the driver that would notice is commented out.
* **`WriteLock` does not block** (`rwlock_blocks`). The first failed round overwrites
  the word it compares with; the second round succeeds on a held lock.
* **A failed `po_extend` passes for an address** (`oplog_extend`).
  `run_before_crash.cc:190` asserts `addr >= 0` of an `unsigned long`. The failure is
  logged and kept as a chunk; a later operation that uses it stops the test.
* **The check after a crash compares nothing** (`oplog_loss`).
  `run_after_crash.cc:81` drops the address of every replayed extend, all lists stay
  empty, and objects with an empty list are skipped. The passing property
  `NoFalseAlarm` holds for the same reason. Keeping the addresses is not enough of
  a repair: the file is behind the kernel by a call in flight, and by any records the
  crash took, and the check would then fail on a kernel that lost nothing.

What a crash does to the table is no disagreement with a document, and is stated by
the properties of `crash`. A crash up to the copying of a split costs the new segment
and no more. A crash after the new array of a doubling is in place and before
`global_depth` follows makes keys unfindable; the code's own comment there asks for
the three stores to be atomic. `Recovery` repairs none of these cases, since
both halves of a split have the new depth before the directory is touched. Where a
segment is deeper than the table it may stand still for ever or, when the segment is
that of entry 0, run below the array (`RecoveryFailsOnlyInDeepening`).

## 5. Proofs

Every invariant, action property and refinement of the passing runs is a theorem, for
every value of the constants that the named assumptions allow: any hash function,
any geometry, any input, any number of threads, blocks, names or crashes. Where one
needs more, its statement says so (`NoWrap`).

The assumptions are on the constants and TLC evaluates each. Those that say
something about the code: `InitAssumption` (the depth to start with is at least one),
`NamesAssumption` (a set of names has a least one), `RoundsAssumption` (no round of
the NUMA programs has more threads than the largest, whose number is that of the
helpers), `CpusAssumption` (CPUs are among the 72 that the comment of
`set_affinity` lists), `SharesAssumption` (the chunks can be divided evenly: 16 of
them among 1, 2, 4, 8, 16 threads).

### The table (`CCEH_proofs`, `CCEH_lookup`, `CCEH_refinement`)

* `TypeCorrect` (`TypeOK`). `TypeOK` is not inductive: that a prefix is an index of
  the array needs the size of the array in terms of the depth, and that depths stay
  below the width needs to know that the segment a split is making is one deeper than
  its origin. `TypeInv` adds these.
* `DirectoryAgrees` (`DirInv`), `DirectoryStaysCoherent` (`DirectoryCoherent`).
  `DirectoryCoherent` speaks of the states where no split is under way. `DirInv`
  extends it to every store in between: `OldDepth` and `OldPattern` undo what the
  split has already changed in the old segment, `Owner` undoes what `PointChunk` has
  already moved. The arithmetic behind the three branches is in lemmas: the chunk of a
  segment is an aligned interval of indices (`ChunkFacts`), its upper half is where
  the next bit is one (`SiblingIsUpperHalf`), a doubled array is indexed by one
  more bit (`Doubling`).
* `SegmentsAreReachable` (`NoSegmentLeaked`). `AllPointedTo`: every segment but the
  one a split is making has an entry. The update leaves the old segment the lower
  half of its chunk and gives the new one the upper half; neither is empty.
* `DataStaysInPlace` (`DataInv`), `NothingIsLost` (`NothingLost`), under `NoWrap`.
  `DataInv` says that pairs lie in their windows, that acknowledged keys are stored in
  the segment their prefix leads to, that the slot about to be overwritten holds
  nobody's live pair, and that a scan that has reached slot `at` of the old segment
  has filled nothing beyond it in the new one. The last part is why every pair finds
  a place, and is what a window around the end breaks: `wrap_lost` shows that
  `NoWrap` is needed. The invariant is proved with `DirInv`, which says where prefixes
  lead.
* `UtilizationCountsAll` (`UtilizationExact`), under `NoWrap`, keys inserted more than
  once included. `CountInv`: a key has as many copies in the segment its prefix
  leads to as insertions have returned, and the new half of a split as many as were
  scanned. The set that `Utilization` counts then is a union of disjoint ones.
* `FindAnywayAgreesWithGet` (`FindAnywayAgrees`), under `NoWrap`. `CopiesInv`: no
  pair is anywhere, dead or alive, whose insertion has not returned, and where every
  key comes once, all its copies have one value.
* `AnswersMoveAlong` (`MapInv`), `TableImplementsMap` (`ImplementsMap`), under
  `NoWrap`. `MapInv` says that the new segment answers as the old one for each key it
  has been given, and leaves no gap in front of a copy into which a later copy of the
  same key could fall. Each action of `CCEH` is then a step of `HashMap` or a
  stutter: `StoreKey` is `Return` or `ReturnShadowed`, pointing the directory at
  the new half changes the segment of a key and not its answer.
* `LossesAreAroundTheEnd` (`LossOnlyAroundTheEnd`), without `NoWrap`: a split that has
  put no wrapping pair into the new segment has left none behind (`LossInv`). A key is
  lost only where the directory begins to point at one that holds such a pair.

`NoWrap` (no key's window runs around the end of a segment) holds in `distinct` and
`repeated`, where the invariants proved under it are checked. With the compiled
constants it excludes the keys whose windows start in the last three of 256 buckets;
what the table does with them is the finding `wrap_lost` and the last theorem.

### The table and a crash (`CCEHCrash_proofs`)

* `RecoveryFailsOnlyAfterDeepening` (`RecoveryFailsOnlyInDeepening`) and
  `RecoveryChangesNothing` (`RecoveryRepairsNothing`: as long as it stays inside the
  array), without `NoWrap`. `CrashInv`: before the crash the table
  is that of `CCEH`, so `TypeInv` and `DirInv` say what `Recovery` finds. `Walk` says
  what its loop relies on: it goes from the start of one group of entries to the
  next, since the entries a segment's depth groups have equal depths
  (`Grouped`), in the middle of a split too. Every entry it looks at then has the
  depth it compares with, and nothing is written. `SpareInv` is about a capacity that is
  no power of two: the loop also walks over the entries no prefix leads to.
* `EarlyCrashCostsNothing` (`EarlyCrashIsHarmless`) and `RestartLosesOnlyThere`
  (`RestartLosesOnlyInDoubling`), under `NoWrap`. After a crash no later than the
  copying, the table is one `CCEH` reaches without a crash, but for the leaked
  segment. `Seen` is `CCEH_lookup` instantiated with that segment's depth and pattern
  replaced by ones no hash matches: `EarlyInv` says that the invariants of the table
  hold of it, and its lemmas carry over: no key is lost, and the directory is coherent
  for all other segments and leads nowhere to the leaked one. For a later crash, `Found` follows from
  `DataInv` in the state of the crash.

### The spin lock (`RwLock_proofs`)

* `WordStaysAWord` (`TypeOK`) and `ExclusionUntilContended`
  (`ExclusiveUntilContended`), for every number of threads below the writer bit. The
  strengthening (`TypeInv`, `LocalInv`) says what each local in flight can hold.

### The crash consistency test (`OpLog_proofs`)

* `TypeCorrect` (`TypeOK`): `Typed` says of each map where its arguments and its values
  lie.
* `MemoryFollowsKernel` (`MemoryIsKernel`) and `NoDescriptorIsLost`
  (`OpenedAreDescriptors`). `MemoryIsKernel` speaks of the states between two calls.
  The strengthening `IInv` carries it across the call and its record: `Believed` is
  the memory once the record that is due is written, `Agree` compares it with the
  kernel's list as long as no extend of the object has failed, `ObjectsInv` says that
  an object's addresses are no failure and that memory and leftovers divide the
  kernel's names, `OpenedInv` that `opened` and `descriptors` are inverse.
* `EarlierObjectsAreSafe` (`LeftoversUntouched`) from the same invariant.
* `FileTellsAll` (`LogExplainsObjects`). `Accounted`: every record is one that could be
  made, by what the records before it say (`Sound`); what the file and the record that
  is due say is what the kernel holds of this run (`Ours = Meaning(Written)`), and
  after a crash that took no records still so for the names.
* `ReplayIsRight` (`ReplayFindsObjects`), `CheckNeverFails` (`NoFalseAlarm`),
  `NullVectorsAreRare` (`NullVectorOnlyWhenEmpty`). `Replaying`: the names replayed so
  far are those the replayed records mean, the last record's second round changes
  none, all lists are empty, and a loop without a file has an empty record before it. The last part is why the check never fails, whatever
  the kernel lost: the finding `oplog_loss`.

### The benchmarks (`NumaBench_proofs`, `Bandwidth_proofs`)

* `NumaBench!TypeCorrect` (`TypeOK`), with `TypeInv` for the types of objects, nodes and
  helpers.
* `EveryThreadHasItsChunk` (`ChunkPerThread`) for any number of helpers, in any order
  of the lock. `HelperInv` relates where a helper is to what it has in `addr` and
  `addrs`, `LockInv` says that only the holder of the lock is past it, `MeasuredInv`
  that rounds begin with a full list, `IdleInv` that nothing survives the process.
* `WritersCoverTheirChunks` (`SandboxCheck`). `Targets` are the blocks the writers are
  asked to overwrite; `WrittenInv` says that nothing else is overwritten, that each
  thread has overwritten its targets as far as it has come, and that all are done at
  the end. `RoundInv`: no round has more threads than chunks, and the last, with as
  many as helpers, reaches every one.
* `ThreadsAreLocal` (`LocalAndBalanced`). `NodeInv`: a chunk is on the node of the
  helper that asked for it, and no later chunk changes that, since its address was in
  use. That an even number of threads is spread evenly is shown by a bijection between
  the threads with even and with odd numbers.
* `ThreadsStayApart` (`NoBlockShared`) for any sizes, numbers of threads, patterns and
  shuffles. In the chunk programs the chunk a thread is at lies in an interval of its
  own (`each_thread_rw_extend_num` of them); in `lat_bw` its position in the list does,
  and the list never has a block twice, which the shuffles preserve. `Control` fixes
  which program is in which place; `MovesInv` says of every block moved where it came
  from.
* `Bandwidth!TypeCorrect` (`TypeOK`). `DataInv` gives the patterns and what is written
  their types; `FewThreads` bounds the threads by the round, without which the
  address they look up need not exist.
* `MeasuresItsOwnObject` (`ObjectIsAddrs`) and `LeavesNothingBehind` (`RestoresKernel`).
  `KernelInv`: from the creation to the clean-up the kernel holds what it held before
  and the object, whose chunks are `addrs` in order. `TestInv` says the same of the
  microbenchmark, for the names its loops have passed.
* `MovesWhatIsMeasured` (`RoundMovesAll`), at every join. `Placed`: the i-th block a
  thread has moved is the i-th of its share. When all threads are done the shares
  together are the whole, and their lengths add up to it. The sum is a fold over the
  threads; that it is n * q for n lists of length q is shown by a least
  counterexample among the sizes of the sets of threads (`TotalIs`, from
  `WFMin` of `WellFoundedInduction`). `WrittenInv` says that the sequential writers
  have overwritten every block when they end.

### Only model-checked

Liveness (`InsertReturns`, `ReplayEnds`, `ProgramEnds`): fairness and ENABLED are beyond
the prover. The four findings are counterexamples and need no proof. The library's
induction theorems, which take the formula to prove as a parameter, cannot be used
either; least counterexamples, and facts that make each record or block speak for
itself, take their place.

## 6. Not modelled, and the plan

Not modelled, and why:

* CCEH without `INPLACE`, and `LSBUpdate`, which only calls itself: not compiled, or never run. The lock
  code of the table is commented out.
* The bit mixing in `hash.h`: arithmetic on 64 bits, beyond TLC's integers; `CCEH`
  takes any function for the hash, and its theorems hold for all.
* Caches that write back out of order: `persist.h` gives no order to model, and
  what is lost in order is lost anyway. Failed allocations, whose result the code does not
  look at.
* Records of the file torn in the middle by a crash.
* The slab allocator for memcached behind `po_malloc` and `po_free`, declared and
  not used here; `pmem_init`, and `tool/reinit_pmem`, which makes that one call;
  mapping, unmapping and stat calls, which change nothing a program here reads.
* Clocks, printing, file input, `input_gen.cpp` and `prepare.py`: no property
  beyond what they write. Plotting scripts. The libvmem shim (`USE_AEP` is off).

What could follow, in this order:

1. The loss without `NoWrap` for single keys: a key whose segments never hold a pair
   that wraps should be safe whatever other keys do.
2. What a crash between the copying and the doubling leaves, as an invariant of the
   calls that come after it.
3. The variant of CCEH without `INPLACE`, against the same abstract map.
