-------------------------------- MODULE CCEH --------------------------------
(***************************************************************************)
(* The extendible hash table of datastructures/CCEH.h and CCEH_MSB.cpp, as *)
(* it is compiled: INPLACE is defined, the lock code is commented out, so  *)
(* one thread runs one operation at a time.                                *)
(*                                                                         *)
(* The directory is an array of segment pointers indexed by the leading    *)
(* global_depth bits of a key's hash.  A segment holds kNumSlot pairs; a   *)
(* key is looked for in a window of consecutive slots, from a position     *)
(* given by the trailing bits of its hash, around the end of the segment.  *)
(* A full window splits the segment in place: the pairs of the upper half  *)
(* are copied to a new segment and left behind, to be overwritten later    *)
(* because their hash no longer starts with the segment's pattern.         *)
(*                                                                         *)
(* One action is one store (or group of stores to memory nothing else can  *)
(* reach) to memory that outlives the call: the order of those stores is   *)
(* what the code's fences are about.                                       *)
(***************************************************************************)
EXTENDS Integers, FiniteSets

CONSTANTS
  Keys,          \* keys the driver inserts, INVALID excluded
  Values,        \* values the driver inserts, NONE excluded
  INVALID,       \* key of an empty slot
  NONE,          \* what Get returns for a key that is not there
  Uninit,        \* value word of a slot no one has written
  NoOp,          \* no operation in progress
  Hash,          \* h(): a HashBits-wide number for each key, INVALID included
  HashBits,      \* 8*sizeof(size_t)
  SegmentBits,   \* kSegmentBits
  PairsPerLine,  \* kNumPairPerCacheLine
  CacheLines,    \* kNumCacheLine
  InitCap,       \* argument of CCEH(size_t)
  InitDepth,     \* floor(log2(InitCap))
  Pow2,          \* Pow2[n] = 2^n, as a table
  MaxCopies      \* bound: how often the input may contain the same key

\* 2^n, pinned down by its value at 1 and the law of exponents.
ASSUME Pow2Assumption ==
  /\ Pow2 \in [0..HashBits -> Nat \ {0}]
  /\ Pow2[0] = 1
  /\ Pow2[1] = 2
  /\ \A m, n \in 0..HashBits : m + n <= HashBits => Pow2[m + n] = Pow2[m] * Pow2[n]

ASSUME HashAssumption ==
  /\ HashBits \in Nat \ {0}
  /\ SegmentBits \in 0..HashBits
  /\ Hash \in [Keys \cup {INVALID} -> 0..(Pow2[HashBits] - 1)]

ASSUME GeometryAssumption ==
  /\ PairsPerLine \in Nat \ {0}
  /\ CacheLines \in Nat \ {0}
  /\ CacheLines <= Pow2[SegmentBits]

\* CCEH(void), which starts at depth 0 and then shifts by the width of the
\* hash, is outside the model: the driver only calls CCEH(2).
ASSUME InitAssumption ==
  /\ InitCap \in Nat
  /\ InitDepth \in 1..HashBits
  /\ Pow2[InitDepth] <= InitCap
  /\ InitCap < 2 * Pow2[InitDepth]

ASSUME ValueAssumption ==
  /\ INVALID \notin Keys
  /\ NONE \notin Values \cup {Uninit}
  /\ NoOp \notin [key : Keys, value : Values, resize : BOOLEAN]
  /\ MaxCopies \in Nat

VARIABLES
  dir,           \* dir._ : segment number of each directory entry
  capacity,      \* dir.capacity
  global_depth,
  nseg,          \* segments allocated so far; they are never freed
  local_depth,   \* of each segment
  pattern,       \* of each segment: the leading bits its pairs share
  slot,          \* _[] of each segment: pairs of key and value
  pc,            \* where the thread is
  op,            \* arguments of the call in progress, or NoOp
  target,        \* local: the segment being written or split
  at,            \* local: slot or loop index
  acked          \* history: completed insertions of each key

table == <<dir, capacity, global_depth, nseg, local_depth, pattern, slot>>
thread == <<pc, op, target, at>>
vars == <<table, thread, acked>>

-----------------------------------------------------------------------------
(* Geometry of a segment and of a hash value. *)

kNumSlot == Pow2[SegmentBits] * PairsPerLine
Slots == 0..(kNumSlot - 1)
Window == 0..(PairsPerLine * CacheLines - 1)

Pair == [key : Keys \cup {INVALID}, value : Values \cup {Uninit}]
EmptyPair == [key |-> INVALID, value |-> Uninit]
EmptySlots == [j \in Slots |-> EmptyPair]

\* h >> n
Shr(h, n) == h \div Pow2[n]

\* key_hash >> (8*sizeof(key_hash) - d): the d leading bits
Prefix(k, d) == Shr(Hash[k], HashBits - d)

\* Mutation: the split looks one bit too early.
SplitBitEarly(k, d) == Shr(Hash[k], HashBits - d) % 2 = 1

\* key_hash & ((size_t)1 << (8*sizeof(Key_t) - d - 1)): the bit after them
SplitBit(k, d) == Shr(Hash[k], HashBits - d - 1) % 2 = 1

\* (key_hash & kMask) * kNumPairPerCacheLine, then the i-th probe from there
Loc(k) == (Hash[k] % Pow2[SegmentBits]) * PairsPerLine
Probe(k, i) == (Loc(k) + i) % kNumSlot

\* i is the first index of the window of k that satisfies P
FirstInWindow(i, P(_)) == P(i) /\ \A j \in 0..(i - 1) : ~P(j)

-----------------------------------------------------------------------------
(* Readers.  They change nothing but statistics. *)

\* The loop over the window of k in one segment, f its slots.
Search(f, k) ==
  LET Hit(i) == f[Probe(k, i)].key = k
  IN  IF \E i \in Window : Hit(i)
      THEN f[Probe(k, CHOOSE i \in Window : FirstInWindow(i, Hit))].value
      ELSE NONE

Lookup(k, depth) == Search(slot[dir[Prefix(k, depth)]], k)

Get(k) == Lookup(k, global_depth)

\* Every segment the directory points to, each once.
Reachable == {dir[i] : i \in 0..(capacity - 1)}

Capacity == Cardinality(Reachable) * kNumSlot

\* The slots Utilization counts: occupied, and under the segment's pattern.
LiveSlots ==
  {p \in Reachable \X Slots :
     LET k == slot[p[1]][p[2]].key
     IN  k # INVALID /\ Prefix(k, local_depth[p[1]]) = pattern[p[1]]}

\* A scan of everything, pairs left behind by a split included.
FindAnyway(k) ==
  LET Hits == {p \in (0..(capacity - 1)) \X Slots : slot[dir[p[1]]][p[2]].key = k}
      Before(p, q) == p[1] < q[1] \/ (p[1] = q[1] /\ p[2] <= q[2])
      first == CHOOSE p \in Hits : \A q \in Hits : Before(p, q)
  IN  IF Hits = {} THEN NONE ELSE slot[dir[first[1]]][first[2]].value

-----------------------------------------------------------------------------
(* CCEH::CCEH(size_t) *)

Init ==
  /\ capacity = InitCap
  /\ global_depth = InitDepth
  /\ dir = [i \in 0..(InitCap - 1) |-> i]
  /\ nseg = InitCap
  /\ local_depth = [s \in 0..(InitCap - 1) |-> InitDepth]
  /\ pattern = [s \in 0..(InitCap - 1) |-> s]
  /\ slot = [s \in 0..(InitCap - 1) |-> EmptySlots]
  /\ pc = "idle"
  /\ op = NoOp
  /\ target = 0
  /\ at = 0
  /\ acked = [k \in Keys |-> 0]

-----------------------------------------------------------------------------
(* Calls and Segment::Insert *)

\* The driver reads its keys from a file; MaxCopies bounds their repetition.
Call(k, v, resize) ==
  /\ pc = "idle"
  /\ acked[k] < MaxCopies
  /\ op' = [key |-> k, value |-> v, resize |-> resize]
  /\ pc' = "probe"
  /\ UNCHANGED <<table, target, at, acked>>

Insert(k, v) == Call(k, v, TRUE)
InsertOnly(k, v) == Call(k, v, FALSE)

\* dir._[x] for the key being inserted
Target == dir[Prefix(op.key, global_depth)]

\* Mutation: pairs left behind by a split are never overwritten.
UsableIfEmpty(s, j) == slot[s][j].key = INVALID

\* A slot Segment::Insert may take: empty, or holding a pair left behind.
Usable(s, j) ==
  \/ slot[s][j].key = INVALID
  \/ Prefix(slot[s][j].key, local_depth[s]) # pattern[s]

UsableProbe(i) == Usable(Target, Probe(op.key, i))

\* Mutation: the key is stored before the value.
StoreKeyFirst ==
  /\ pc = "probe"
  /\ \E i \in Window :
       /\ FirstInWindow(i, UsableProbe)
       /\ at' = Probe(op.key, i)
       /\ slot' = [slot EXCEPT ![Target][Probe(op.key, i)].key = op.key]
  /\ target' = Target
  /\ pc' = "publish"
  /\ UNCHANGED <<dir, capacity, global_depth, nseg, local_depth, pattern, op, acked>>

\* _[slot].value = value; mfence()
StoreValue ==
  /\ pc = "probe"
  /\ \E i \in Window :
       /\ FirstInWindow(i, UsableProbe)
       /\ at' = Probe(op.key, i)
       /\ slot' = [slot EXCEPT ![Target][Probe(op.key, i)].value = op.value]
  /\ target' = Target
  /\ pc' = "publish"
  /\ UNCHANGED <<dir, capacity, global_depth, nseg, local_depth, pattern, op, acked>>

\* _[slot].key = key, and the call returns
StoreKey ==
  /\ pc = "publish"
  /\ slot' = [slot EXCEPT ![target][at].key = op.key]
  /\ acked' = [acked EXCEPT ![op.key] = @ + 1]
  /\ pc' = "idle"
  /\ op' = NoOp
  /\ target' = 0
  /\ at' = 0
  /\ UNCHANGED <<dir, capacity, global_depth, nseg, local_depth, pattern>>

WindowFull ==
  /\ pc = "probe"
  /\ \A i \in Window : ~UsableProbe(i)

\* InsertOnly does not resize: it returns false
ReturnFalse ==
  /\ WindowFull
  /\ ~op.resize
  /\ pc' = "idle"
  /\ op' = NoOp
  /\ UNCHANGED <<table, target, at, acked>>

-----------------------------------------------------------------------------
(* Segment::Split *)

NewSeg == nseg - 1

\* f with a value for the segment that is being allocated
Extend(f, v) == [s \in 0..nseg |-> IF s = nseg THEN v ELSE f[s]]

\* split[1] = new Segment(local_depth+1).  With every hash bit used up the
\* code shifts by a negative amount; the guard stops there.
AllocateSibling ==
  /\ WindowFull
  /\ op.resize
  /\ local_depth[Target] < HashBits
  /\ nseg' = nseg + 1
  /\ local_depth' = Extend(local_depth, local_depth[Target] + 1)
  /\ pattern' = Extend(pattern, 0)
  /\ slot' = Extend(slot, EmptySlots)
  /\ target' = Target
  /\ at' = 0
  /\ pc' = "copy"
  /\ UNCHANGED <<dir, capacity, global_depth, op, acked>>

\* Mutation: only the first slot of the window is tried.
Insert4splitNoProbing(pair) ==
  IF slot[NewSeg][Probe(pair.key, 0)].key = INVALID
  THEN slot' = [slot EXCEPT ![NewSeg][Probe(pair.key, 0)] = pair]
  ELSE UNCHANGED slot

\* Segment::Insert4split: the first empty slot of the window takes the pair;
\* when there is none the pair is dropped without a word.
Insert4split(pair) ==
  LET Free(i) == slot[NewSeg][Probe(pair.key, i)].key = INVALID
  IN  \/ \E i \in Window :
           /\ FirstInWindow(i, Free)
           /\ slot' = [slot EXCEPT ![NewSeg][Probe(pair.key, i)] = pair]
      \/ /\ \A i \in Window : ~Free(i)
         /\ UNCHANGED slot

\* Mutation: a pair is moved, its old slot cleared.
CopyPairMoves ==
  /\ pc = "copy"
  /\ at < kNumSlot
  /\ LET pair == slot[target][at]
     IN  \E i \in Window :
           /\ slot[NewSeg][Probe(pair.key, i)].key = INVALID
           /\ slot' = IF SplitBit(pair.key, local_depth[target])
                      THEN [slot EXCEPT ![NewSeg][Probe(pair.key, i)] = pair,
                                        ![target][at] = EmptyPair]
                      ELSE slot
  /\ at' = at + 1
  /\ UNCHANGED <<dir, capacity, global_depth, nseg, local_depth, pattern, pc, op, target, acked>>

\* One round of the scan over the old segment's slots.
CopyPair ==
  /\ pc = "copy"
  /\ at < kNumSlot
  /\ LET pair == slot[target][at]
     IN  IF SplitBit(pair.key, local_depth[target])
         THEN Insert4split(pair)
         ELSE UNCHANGED slot
  /\ at' = at + 1
  /\ UNCHANGED <<dir, capacity, global_depth, nseg, local_depth, pattern, pc, op, target, acked>>

\* local_depth = local_depth + 1
Deepen ==
  /\ pc = "copy"
  /\ at = kNumSlot
  /\ local_depth' = [local_depth EXCEPT ![target] = @ + 1]
  /\ at' = 0
  /\ pc' = "pattern"
  /\ UNCHANGED <<dir, capacity, global_depth, nseg, pattern, slot, op, target, acked>>

-----------------------------------------------------------------------------
(* Directory management in CCEH::Insert *)

\* (key_hash >> (8*sizeof(key_hash) - depth + 1)) << 1
OldPrefixDoubled(depth) == 2 * Shr(Hash[op.key], HashBits - depth + 1)

SetPatterns ==
  /\ pc = "pattern"
  /\ pattern' = [pattern EXCEPT ![target] = OldPrefixDoubled(local_depth[target]),
                                ![NewSeg] = OldPrefixDoubled(local_depth[NewSeg]) + 1]
  /\ pc' = "directory"
  /\ UNCHANGED <<dir, capacity, global_depth, nseg, local_depth, slot, op, target, at, acked>>

X == Prefix(op.key, global_depth)

Retry == pc' = "probe" /\ target' = 0 /\ at' = 0

\* Mutation: the entry of the key itself, whichever half it is in.
SiblingIndexOwn == X

\* if (x % 2 == 0) dir._[x+1] else dir._[x]
SiblingIndex == IF X % 2 = 0 THEN X + 1 ELSE X

\* depth_diff == 0: only one entry changes
PointSibling ==
  /\ pc = "directory"
  /\ local_depth[target] = global_depth
  /\ dir' = [dir EXCEPT ![SiblingIndex] = NewSeg]
  /\ Retry
  /\ UNCHANGED <<capacity, global_depth, nseg, local_depth, pattern, slot, op, acked>>

ChunkSize == Pow2[global_depth - (local_depth[target] - 1)]

\* Mutation: the chunk starts at the key's own entry.
ChunkStartOwn == X

ChunkStart == X - (X % ChunkSize)
UpperHalf == ChunkStart + (ChunkSize \div 2)

\* depth_diff > 0: the upper half of the chunk, one entry per round
PointChunk ==
  /\ pc = "directory"
  /\ local_depth[target] < global_depth
  /\ dir' = [dir EXCEPT ![UpperHalf + at] = NewSeg]
  /\ IF at + 1 < ChunkSize \div 2
     THEN at' = at + 1 /\ UNCHANGED <<pc, target>>
     ELSE Retry
  /\ UNCHANGED <<capacity, global_depth, nseg, local_depth, pattern, slot, op, acked>>

\* Mutation: the last entry of the new directory is left out.
DoubledLengthShort == 2 * capacity - 1

DoubledLength == 2 * capacity

\* Fill _dir, which nothing can see yet, then dir._ = _dir
SwapDirectory ==
  /\ pc = "directory"
  /\ local_depth[target] > global_depth
  /\ dir' = [j \in 0..(DoubledLength - 1) |->
               IF j \div 2 # X THEN dir[j \div 2]
               ELSE IF j % 2 = 0 THEN target ELSE NewSeg]
  /\ pc' = "capacity"
  /\ target' = 0
  /\ UNCHANGED <<capacity, global_depth, nseg, local_depth, pattern, slot, op, at, acked>>

\* dir.capacity *= 2
DoubleCapacity ==
  /\ pc = "capacity"
  /\ capacity' = 2 * capacity
  /\ pc' = "depth"
  /\ UNCHANGED <<dir, global_depth, nseg, local_depth, pattern, slot, op, target, at, acked>>

\* Mutation: global_depth is left as it is.
DeepenGlobalForgotten ==
  /\ pc = "depth"
  /\ pc' = "probe"
  /\ UNCHANGED <<table, op, target, at, acked>>

\* global_depth += 1
DeepenGlobal ==
  /\ pc = "depth"
  /\ global_depth' = global_depth + 1
  /\ pc' = "probe"
  /\ UNCHANGED <<dir, capacity, nseg, local_depth, pattern, slot, op, target, at, acked>>

-----------------------------------------------------------------------------

\* A call in progress runs to its end: the table has one thread.
Step ==
  \/ StoreValue \/ StoreKey \/ ReturnFalse
  \/ AllocateSibling \/ CopyPair \/ Deepen
  \/ SetPatterns \/ PointSibling \/ PointChunk
  \/ SwapDirectory \/ DoubleCapacity \/ DeepenGlobal

Next ==
  \/ \E k \in Keys, v \in Values : Insert(k, v) \/ InsertOnly(k, v)
  \/ Step

Spec == Init /\ [][Next]_vars

FairSpec == Spec /\ WF_vars(Step)

-----------------------------------------------------------------------------
(* Correctness *)

PCs == {"idle", "probe", "publish", "copy", "pattern", "directory", "capacity", "depth"}

Segments == 0..(nseg - 1)

\* Length of the array dir._ points to; dir.capacity lags behind a doubling.
ArrayLength == IF pc = "capacity" THEN 2 * capacity ELSE capacity

TypeOK ==
  /\ global_depth \in 1..HashBits
  /\ capacity \in Nat
  /\ nseg \in Nat
  /\ dir \in [0..(ArrayLength - 1) -> Segments]
  /\ local_depth \in [Segments -> 1..HashBits]
  /\ pattern \in [Segments -> Nat]
  /\ slot \in [Segments -> [Slots -> Pair]]
  /\ pc \in PCs
  /\ op \in [key : Keys, value : Values, resize : BOOLEAN] \cup {NoOp}
  /\ pc = "idle" <=> op = NoOp
  /\ target \in Segments
  /\ at \in Nat
  /\ acked \in [Keys -> Nat]

\* How many leading bits index the array dir._ points to; global_depth lags
\* one behind it in the middle of a doubling.
IndexDepth == IF pc \in {"capacity", "depth"} THEN global_depth + 1 ELSE global_depth

\* What a lookup through the array in place finds, for every key.
View == [k \in Keys |-> Lookup(k, IndexDepth)]

\* An acknowledged insertion stays findable, whatever is split or doubled
\* afterwards (the check commented out in CCEH_MSB_test.cc: Get after Insert).
NothingLost == \A k \in Keys : acked[k] > 0 => View[k] # NONE

\* The directory partitions the hash space: an entry points to a segment
\* exactly when the leading bits of its index are the segment's pattern.
\* LSB/MSB index arithmetic of the three directory updates must agree on it.
DirectoryCoherent ==
  pc \in {"idle", "probe", "publish"} =>
    \A i \in 0..(Pow2[global_depth] - 1), s \in Segments :
      (dir[i] = s) <=> /\ local_depth[s] <= global_depth
                       /\ Shr(i, global_depth - local_depth[s]) = pattern[s]

\* Utilization() counts every acknowledged insertion once: splitting neither
\* duplicates a pair nor leaves one behind that still passes for live.
UtilizationExact ==
  pc = "idle" =>
    \A k \in Keys :
      Cardinality({p \in LiveSlots : slot[p[1]][p[2]].key = k}) = acked[k]

\* Capacity() accounts for every segment allocated: no split leaks one.
NoSegmentLeaked == pc = "idle" => Capacity = nseg * kNumSlot

\* The debugging scan finds exactly what Get finds: a pair left behind by a
\* split never outlives, or contradicts, the pair that replaced it.
FindAnywayAgrees ==
  pc = "idle" =>
    \A k \in Keys : IF MaxCopies = 1
                    THEN FindAnyway(k) = Get(k)
                    ELSE (FindAnyway(k) = NONE) <=> (Get(k) = NONE)

\* Every store of the code either leaves what lookups find unchanged or is
\* the one step that makes the pair of the current call visible.
Map == INSTANCE HashMap WITH map <- View, pending <- op
ImplementsMap == Map!Spec

\* The window of k runs around the end of the segment.
Wraps(k) == Loc(k) + PairsPerLine * CacheLines > kNumSlot

\* A key stops being found only in an update of the directory, and only when the
\* new segment holds a key whose window wraps, the kind of key that can be put, in
\* the wrapped part, where another one's window begins.
LossOnlyAroundTheEnd ==
  [][\A k \in Keys : View[k] # NONE /\ View'[k] = NONE =>
        /\ pc = "directory"
        /\ \E j \in Slots : LET q == slot[NewSeg][j].key IN q # INVALID /\ Wraps(q)]_vars

\* A call returns: splitting and doubling make room after finitely many
\* rounds, and never leave the thread without a step.
InsertReturns == pc # "idle" ~> pc = "idle"

-----------------------------------------------------------------------------
(* Inductive invariants *)

\* The facts TypeOK rests on: the directory in place has an entry for every
\* prefix that is looked up, and a sibling is one deeper than its origin.
TypeInv ==
  /\ TypeOK
  /\ IndexDepth <= HashBits
  /\ Pow2[IndexDepth] <= ArrayLength
  /\ pc = "publish" => at \in Slots
  /\ pc = "copy" => local_depth[NewSeg] = local_depth[target] + 1

Splitting == pc \in {"copy", "pattern", "directory"}

\* Segments whose depth and pattern describe what the directory says.
Established == IF Splitting THEN Segments \ {NewSeg} ELSE Segments

\* A segment's depth and pattern before the split in progress changed them.
OldDepth(s) ==
  IF pc \in {"pattern", "directory"} /\ s = target THEN local_depth[s] - 1 ELSE local_depth[s]
OldPattern(s) ==
  IF pc = "directory" /\ s = target THEN pattern[s] \div 2 ELSE pattern[s]

\* Entry i is one of those PointChunk has already given to the new segment.
Moved(i) == pc = "directory" /\ i \in UpperHalf..(UpperHalf + at - 1)

\* The segment entry i pointed to before that.
Owner(i) == IF Moved(i) THEN target ELSE dir[i]

\* DirectoryCoherent, extended to every point inside a split or a doubling.
DirInv ==
  /\ \A s \in Established : OldDepth(s) <= IndexDepth
  /\ \A i \in 0..(Pow2[IndexDepth] - 1), s \in Established :
       (Owner(i) = s) <=> Shr(i, IndexDepth - OldDepth(s)) = OldPattern(s)
  /\ Splitting => \A i \in 0..(Pow2[IndexDepth] - 1) : (dir[i] = NewSeg) <=> Moved(i)
  /\ Splitting \/ pc = "publish" =>
       /\ target \in Established
       /\ Prefix(op.key, OldDepth(target)) = OldPattern(target)
  /\ pc \in {"pattern", "directory"} =>
       /\ OldDepth(target) >= 1
       /\ local_depth[NewSeg] = local_depth[target]
  /\ pc = "pattern" => at = 0
  /\ pc = "directory" =>
       /\ pattern[target] = 2 * OldPattern(target)
       /\ pattern[NewSeg] = 2 * OldPattern(target) + 1
       /\ local_depth[target] <= global_depth => at < ChunkSize \div 2
       /\ local_depth[target] > global_depth => at = 0

\* Where no window wraps, a split cannot run out of room for a pair.
NoWrap == \A k \in Keys : ~Wraps(k)

\* Some slot of k's window in segment s holds k.
Stored(k, s) == \E i \in Window : slot[s][Probe(k, i)].key = k

\* The pair in slot j of the segment being split has its place in the new one.
Copied(j) ==
  LET k == slot[target][j].key
  IN  k \in Keys /\ SplitBit(k, OldDepth(target)) => Stored(k, NewSeg)

\* NothingLost, with what it rests on: pairs stay inside their windows, the
\* slot about to be overwritten holds nobody's pair, and a split that has
\* scanned the old segment up to a slot has not gone beyond it in the new one.
InOwnWindow ==
  \A s \in Segments, j \in Slots :
    slot[s][j].key \in Keys => \E i \in Window : j = Probe(slot[s][j].key, i)

Kept == \A k \in Keys : acked[k] > 0 => Stored(k, dir[Prefix(k, IndexDepth)])

SlotFree ==
  pc = "publish" => /\ Usable(target, at)
                    /\ \E i \in Window : at = Probe(op.key, i)

CopyProgress ==
  pc = "copy" => /\ \A j \in Slots : j < at => Copied(j)
                 /\ \A j \in Slots : j >= at => slot[NewSeg][j].key = INVALID

CopyDone == pc \in {"pattern", "directory"} => \A j \in Slots : Copied(j)

DataInv == InOwnWindow /\ Kept /\ SlotFree /\ CopyProgress /\ CopyDone

\* The new segment answers for every key it holds as the old one does, and
\* leaves no gap in front of a key that a later copy could fall into.
SameAnswer ==
  Splitting =>
    \A k \in Keys : Stored(k, NewSeg) =>
      Stored(k, target) /\ Search(slot[NewSeg], k) = Search(slot[target], k)

NoGap ==
  pc = "copy" =>
    \A k \in Keys, i \in Window : slot[NewSeg][Probe(k, i)].key = k =>
      \A j \in 0..(i - 1) : slot[NewSeg][Probe(k, j)].key # INVALID

ValueStored == pc = "publish" => slot[target][at].value = op.value

\* What ImplementsMap rests on, beyond DirInv and DataInv: a key changes its
\* segment without changing its answer, and the key of a pair is stored when
\* its value is there.
MapInv == SameAnswer /\ NoGap /\ ValueStored

=============================================================================
