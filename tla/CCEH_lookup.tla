---------------------------- MODULE CCEH_lookup ----------------------------
(***************************************************************************)
(* An acknowledged insertion stays findable, whatever is split or doubled  *)
(* afterwards, as long as no key's window wraps around the end of a        *)
(* segment.  (With a window that wraps it may not: see the run wrap_lost.) *)
(***************************************************************************)
EXTENDS CCEH_proofs, WellFoundedInduction

\* A set of numbers has a least one.
LEMMA LeastExists ==
  ASSUME NEW S \in SUBSET Nat, S # {}
  PROVE  \E i \in S : \A j \in S : i <= j
  <1> DEFINE Less == {p \in Nat \X Nat : p[1] < p[2]}
  <1>1. IsWellFoundedOn(Less, Nat)
    BY NatLessThanWellFounded DEF OpToRel
  <1> HIDE DEF Less
  <1>2. PICK i \in S : \A j \in S : ~(<<j, i>> \in Less)
    BY <1>1, WFMin
  <1>3. ASSUME NEW j \in S
        PROVE  i <= j
    <2>1. CASE j < i
      BY <1>2, <2>1 DEF Less
    <2> QED BY <2>1
  <1> QED BY <1>3

\* A window that holds a key has a first slot that holds it.
LEMMA FirstExists ==
  ASSUME NEW S \in SUBSET Window, S # {}
  PROVE  \E i \in S : \A j \in 0..(i - 1) : j \notin S
  <1>1. S \in SUBSET Nat
    BY DEF Window
  <1>2. PICK i \in S : \A j \in S : i <= j
    BY <1>1, LeastExists
  <1> QED BY <1>1, <1>2

\* The search of a window returns the value of its first slot with the key...
LEMMA SearchFirst ==
  ASSUME NEW f, NEW k, NEW i \in Window,
         f[Probe(k, i)].key = k, \A j \in 0..(i - 1) : f[Probe(k, j)].key # k
  PROVE  Search(f, k) = f[Probe(k, i)].value
  <1> DEFINE Hit(n) == f[Probe(k, n)].key = k
             c == CHOOSE n \in Window : FirstInWindow(n, Hit)
  <1>1. FirstInWindow(i, Hit)
    BY DEF FirstInWindow
  <1>2. c \in Window /\ FirstInWindow(c, Hit)
    BY <1>1
  <1>3. Hit(c) /\ \A j \in 0..(c - 1) : ~Hit(j)
    BY <1>2 DEF FirstInWindow
  <1>4. c = i
    <2>1. c \in Nat /\ i \in Nat
      BY <1>2 DEF Window
    <2>2. Hit(i) /\ \A j \in 0..(i - 1) : ~Hit(j)
      OBVIOUS
    <2> HIDE DEF Hit, c
    <2> QED BY <1>3, <2>1, <2>2
  <1>5. \E n \in Window : Hit(n)
    OBVIOUS
  <1> QED BY <1>4, <1>5 DEF Search

\* ...and there is a first slot as soon as there is one.
LEMMA FirstThere ==
  ASSUME NEW f, NEW k, \E i \in Window : f[Probe(k, i)].key = k
  PROVE  \E i \in Window : /\ f[Probe(k, i)].key = k
                           /\ \A j \in 0..(i - 1) : f[Probe(k, j)].key # k
                           /\ 0..(i - 1) \subseteq Window
  <1> DEFINE S == {i \in Window : f[Probe(k, i)].key = k}
  <1>1. S # {} /\ S \in SUBSET Window
    OBVIOUS
  <1>2. PICK i \in S : \A j \in 0..(i - 1) : j \notin S
    BY <1>1, FirstExists
  <1>3. 0..(i - 1) \subseteq Window
    BY <1>2, GeometryAssumption DEF Window
  <1> QED BY <1>2, <1>3

LEMMA SearchNone ==
  ASSUME NEW f, NEW k, \A i \in Window : f[Probe(k, i)].key # k
  PROVE  Search(f, k) = NONE
  BY Zenon DEF Search

\* A search finds exactly the keys that are there: a value in a slot is never
\* NONE.
LEMMA SearchFinds ==
  ASSUME NEW f \in [Slots -> Pair], NEW k \in Keys, \E i \in Window : f[Probe(k, i)].key = k
  PROVE  Search(f, k) # NONE
  <1>1. PICK i \in Window : /\ f[Probe(k, i)].key = k
                            /\ \A j \in 0..(i - 1) : f[Probe(k, j)].key # k
                            /\ 0..(i - 1) \subseteq Window
    BY FirstThere, Zenon
  <1>2. f[Probe(k, i)] \in Pair
    BY ProbeType
  <1>3. f[Probe(k, i)].value # NONE
    BY <1>2, ValueAssumption DEF Pair
  <1> QED BY <1>1, <1>3, SearchFirst

LEMMA LookupFinds ==
  ASSUME TypeOK, NEW k \in Keys,
         dir[Prefix(k, IndexDepth)] \in Segments,
         Stored(k, dir[Prefix(k, IndexDepth)])
  PROVE  Lookup(k, IndexDepth) # NONE
  <1>1. slot[dir[Prefix(k, IndexDepth)]] \in [Slots -> Pair]
    BY DEF TypeOK
  <1> QED BY <1>1, SearchFinds DEF Lookup, Stored

-----------------------------------------------------------------------------
(* DataInv: Init and the steps. *)

LEMMA HomeType ==
  ASSUME TypeInv, NEW k \in Keys
  PROVE  /\ dir[Prefix(k, IndexDepth)] \in Segments
         /\ Prefix(k, IndexDepth) \in 0..(Pow2[IndexDepth] - 1)
         /\ Prefix(k, IndexDepth) \in 0..(ArrayLength - 1)
  <1>1. IndexDepth \in 0..HashBits /\ ArrayLength \in Nat
    BY HashAssumption DEF TypeInv, TypeOK, IndexDepth, ArrayLength
  <1>2. Prefix(k, IndexDepth) \in 0..(Pow2[IndexDepth] - 1)
    BY <1>1, PrefixRange
  <1>3. Pow2[IndexDepth] \in Nat /\ Pow2[IndexDepth] <= ArrayLength
    BY <1>1, PowPositive DEF TypeInv
  <1>4. Prefix(k, IndexDepth) \in 0..(ArrayLength - 1)
    BY <1>1, <1>2, <1>3
  <1> QED BY <1>2, <1>4 DEF TypeInv, TypeOK

\* A window that does not wrap is an interval of slots.
LEMMA NoWrapProbe ==
  ASSUME NEW k \in Keys, ~Wraps(k), NEW i \in Window
  PROVE  Probe(k, i) = Loc(k) + i
  <1>1. Loc(k) \in Nat /\ i \in Nat /\ i < PairsPerLine * CacheLines
    BY LocType, GeometryAssumption DEF Window
  <1>2. PairsPerLine * CacheLines \in Nat /\ kNumSlot \in Nat \ {0}
    BY GeometryAssumption, SlotCount
  <1>3. Loc(k) + PairsPerLine * CacheLines <= kNumSlot
    BY <1>1, <1>2 DEF Wraps
  <1>4. Loc(k) + i < kNumSlot
    BY <1>1, <1>2, <1>3
  <1>5. (Loc(k) + i) % kNumSlot = Loc(k) + i
    BY <1>1, <1>2, <1>4
  <1> QED BY <1>5 DEF Probe

LEMMA InitDataInv == Init => DataInv
  <1> SUFFICES ASSUME Init PROVE DataInv
    OBVIOUS
  <1>1. \A s \in Segments, j \in Slots : slot[s][j].key = INVALID
    BY InitAssumption DEF Init, EmptySlots, EmptyPair, Segments
  <1>2. InOwnWindow
    BY <1>1, ValueAssumption DEF InOwnWindow
  <1>3. Kept
    BY DEF Init, Kept
  <1> QED BY <1>2, <1>3 DEF DataInv, Init, SlotFree, CopyProgress, CopyDone

\* Steps that leave the keys in the slots alone.
LEMMA FrameWindow ==
  ASSUME InOwnWindow, nseg' = nseg,
         \A s \in Segments, j \in Slots : slot'[s][j].key = slot[s][j].key
  PROVE  InOwnWindow'
  BY DEF InOwnWindow, Segments

\* Steps that leave the homes of all keys alone, too.
LEMMA FrameData ==
  ASSUME TypeInv, InOwnWindow, Kept, nseg' = nseg, acked' = acked,
         \A s \in Segments, j \in Slots : slot'[s][j].key = slot[s][j].key,
         \A k \in Keys : dir'[Prefix(k, IndexDepth')] = dir[Prefix(k, IndexDepth)]
  PROVE  InOwnWindow' /\ Kept'
  <1>3. InOwnWindow'
    BY FrameWindow
  <1>4. ASSUME NEW k \in Keys, acked'[k] > 0
        PROVE  Stored(k, dir[Prefix(k, IndexDepth)])'
    <2> DEFINE s == dir[Prefix(k, IndexDepth)]
    <2>1. s \in Segments /\ Stored(k, s)
      BY <1>4, HomeType DEF Kept
    <2>2. \E i \in Window : slot'[s][Probe(k, i)].key = k
      BY <2>1, ProbeType DEF Stored
    <2>3. dir'[Prefix(k, IndexDepth')] = s
      OBVIOUS
    <2> QED BY <2>2, <2>3 DEF Stored
  <1> QED BY <1>3, <1>4 DEF Kept

\* The new key overwrites nobody's pair: whoever was left in the slot has its
\* home elsewhere.
LEMMA StoreKeyData ==
  ASSUME TypeInv, DirInv, DataInv, StoreKey
  PROVE  InOwnWindow' /\ Kept'
  <1>1. /\ pc = "publish" /\ pc' = "idle" /\ nseg' = nseg /\ dir' = dir
        /\ slot' = [slot EXCEPT ![target][at].key = op.key]
        /\ acked' = [acked EXCEPT ![op.key] = @ + 1]
        /\ IndexDepth' = IndexDepth /\ ~Splitting /\ global_depth' = global_depth
    BY DEF StoreKey, IndexDepth, Splitting
  <1>2. /\ target \in Segments /\ at \in Slots /\ op.key \in Keys
        /\ Segments' = Segments
    BY <1>1, OpType DEF TypeInv, TypeOK, Segments
  <1>3. PICK i0 \in Window : at = Probe(op.key, i0)
    BY <1>1 DEF DataInv, SlotFree
  <1>4. \A s \in Segments, j \in Slots :
          slot'[s][j].key = IF s = target /\ j = at THEN op.key ELSE slot[s][j].key
    <2>1. slot \in [Segments -> [Slots -> Pair]]
      BY DEF TypeInv, TypeOK
    <2>2. ASSUME NEW s \in Segments, NEW j \in Slots
          PROVE  slot'[s][j].key = IF s = target /\ j = at THEN op.key ELSE slot[s][j].key
      <3>1. slot[target][at] \in Pair /\ slot[s][j] \in Pair
        BY <1>2, <2>1
      <3>2. CASE s = target /\ j = at
        BY <1>1, <1>2, <2>1, <3>1, <3>2 DEF Pair
      <3>3. CASE ~(s = target /\ j = at)
        BY <1>1, <1>2, <2>1, <3>3
      <3> QED BY <3>2, <3>3
    <2> QED BY <2>2
  <1>5. InOwnWindow'
    BY <1>2, <1>3, <1>4 DEF DataInv, InOwnWindow
  <1>6. ASSUME NEW k \in Keys, acked'[k] > 0
        PROVE  Stored(k, dir[Prefix(k, IndexDepth)])'
    <2> DEFINE s == dir[Prefix(k, IndexDepth)]
    <2>1. s \in Segments /\ dir'[Prefix(k, IndexDepth')] = s
      BY <1>1, HomeType
    <2>2. CASE k = op.key
      <3>1. OldDepth(target) = local_depth[target] /\ OldPattern(target) = pattern[target]
        BY <1>1 DEF OldDepth, OldPattern
      <3>2. Prefix(k, local_depth[target]) = pattern[target]
        BY <1>1, <2>2, <3>1 DEF DirInv
      <3>3. s = target
        BY <1>1, <1>2, <3>2, KeyHome
      <3>4. slot'[s][Probe(k, i0)].key = k
        BY <1>2, <1>3, <1>4, <2>2, <3>3
      <3> QED BY <2>1, <3>4 DEF Stored
    <2>3. CASE k # op.key
      <3>1. acked[k] > 0
        BY <1>1, <1>2, <1>6, <2>3 DEF TypeInv, TypeOK
      <3>2. PICK i \in Window : slot[s][Probe(k, i)].key = k
        BY <3>1 DEF DataInv, Kept, Stored
      <3>3. ~(s = target /\ Probe(k, i) = at)
        <4>1. SUFFICES ASSUME s = target, Probe(k, i) = at PROVE FALSE
          OBVIOUS
        <4>2. Prefix(k, local_depth[target]) # pattern[target]
          BY <1>1, <3>2, <4>1, ValueAssumption DEF DataInv, SlotFree, Usable
        <4> QED BY <1>1, <1>2, <4>1, <4>2, KeyHome
      <3>4. slot'[s][Probe(k, i)].key = k
        BY <1>4, <2>1, <3>2, <3>3, ProbeType
      <3> QED BY <2>1, <3>4 DEF Stored
    <2> QED BY <2>2, <2>3
  <1> QED BY <1>5, <1>6 DEF Kept

\* No key in the new segment has a window that wraps.
Straight == \A j \in Slots : slot[NewSeg][j].key \in Keys => ~Wraps(slot[NewSeg][j].key)

\* What one round of the copy loop does: it leaves every key where it is, or
\* copies a pair to the first free slot of its window, for which there is room at
\* or before the slot the pair comes from: everything copied so far came from
\* before it.
Skips(pair) ==
  /\ \A s \in Segments, j \in Slots :
       /\ slot'[s][j].key = slot[s][j].key
       /\ slot[s][j].key # INVALID => slot'[s][j] = slot[s][j]
  /\ pair.key \in Keys => ~SplitBit(pair.key, local_depth[target])

Moves(pair, i) ==
  /\ pair.key \in Keys /\ SplitBit(pair.key, local_depth[target])
  /\ Probe(pair.key, i) \in Slots /\ Probe(pair.key, i) <= at
  /\ slot[NewSeg][Probe(pair.key, i)].key = INVALID
  /\ \A j \in 0..(i - 1) : slot[NewSeg][Probe(pair.key, j)].key # INVALID
  /\ slot' = [slot EXCEPT ![NewSeg][Probe(pair.key, i)] = pair]

LEMMA CopyStep ==
  ASSUME TypeInv, DirInv, InOwnWindow, CopyProgress, CopyPair, Straight',
         NEW pair, pair = slot[target][at]
  PROVE  Skips(pair) \/ \E i \in Window : Moves(pair, i)
  <1>1. /\ target \in Segments /\ NewSeg \in Segments /\ at \in Slots /\ at \in Nat
        /\ pc = "copy" /\ NewSeg' = NewSeg
    BY SplitFacts, SlotCount DEF CopyPair, NewSeg, Splitting, Slots, TypeInv, TypeOK
  <1>2. slot \in [Segments -> [Slots -> Pair]] /\ pair \in Pair
    BY <1>1 DEF TypeInv, TypeOK
  <1>3. CASE ~SplitBit(pair.key, local_depth[target])
    BY <1>3 DEF CopyPair, Skips
  <1>4. CASE SplitBit(pair.key, local_depth[target]) /\ pair.key \notin Keys
    <2>1. pair.key = INVALID /\ Insert4split(pair)
      BY <1>2, <1>4 DEF CopyPair, Pair
    <2>2. CASE slot' = slot
      BY <1>4, <2>2 DEF Skips
    <2>3. ASSUME NEW p \in Slots, slot[NewSeg][p].key = INVALID,
                 slot' = [slot EXCEPT ![NewSeg][p] = pair]
          PROVE  Skips(pair)
      BY <1>1, <1>2, <1>4, <2>1, <2>3, SMTT(30) DEF Skips
    <2> QED BY <2>1, <2>2, <2>3, ProbeType DEF Insert4split, FirstInWindow
  <1>5. CASE SplitBit(pair.key, local_depth[target]) /\ pair.key \in Keys
    <2> DEFINE Free(i) == slot[NewSeg][Probe(pair.key, i)].key = INVALID
    <2>1. Insert4split(pair)
      BY <1>5 DEF CopyPair
    <2>2. PICK i0 \in Window : at = Probe(pair.key, i0)
      BY <1>1, <1>5 DEF InOwnWindow
    <2>3. Free(i0)
      BY <1>1, <2>2 DEF CopyProgress
    <2>4. PICK i \in Window :
            /\ FirstInWindow(i, Free)
            /\ slot' = [slot EXCEPT ![NewSeg][Probe(pair.key, i)] = pair]
      BY <2>1, <2>3, Zenon DEF Insert4split
    <2>5. Free(i) /\ \A j \in 0..(i - 1) : ~Free(j)
      BY <2>4 DEF FirstInWindow
    <2>6. i <= i0
      <3>1. i \in Nat /\ i0 \in Nat
        BY DEF Window
      <3> HIDE DEF Free
      <3> QED BY <2>3, <2>5, <3>1
    <2>7. Probe(pair.key, i) \in Slots
      BY <1>5, ProbeType
    <2>8. Probe(pair.key, i) <= at
      <3>1. i \in Nat /\ i0 \in Nat /\ Loc(pair.key) \in Nat
        BY <1>5, LocType DEF Window
      <3>2. slot'[NewSeg][Probe(pair.key, i)].key = pair.key
        BY <1>1, <1>2, <2>4, <2>7
      <3>3. ~Wraps(pair.key)
        BY <1>1, <1>5, <2>7, <3>2 DEF Straight
      <3> QED BY <1>5, <2>2, <2>6, <3>1, <3>3, NoWrapProbe
    <2> QED BY <1>5, <2>4, <2>5, <2>7, <2>8 DEF Moves
  <1> QED BY <1>3, <1>4, <1>5

LEMMA CopyAdvances ==
  ASSUME TypeInv, DirInv, InOwnWindow, CopyProgress, CopyPair, Straight'
  PROVE  CopyProgress'
  <1> DEFINE pair == slot[target][at]
  <1>1. /\ pc = "copy" /\ pc' = "copy" /\ at' = at + 1
        /\ UNCHANGED <<nseg, local_depth, target>>
        /\ Splitting /\ NewSeg' = NewSeg
    BY DEF CopyPair, Splitting, NewSeg
  <1>2. /\ target \in Segments /\ target # NewSeg /\ NewSeg \in Segments
        /\ at \in Slots /\ at \in Nat /\ kNumSlot \in Nat
        /\ OldDepth(target) = local_depth[target] /\ OldDepth(target)' = OldDepth(target)
    BY <1>1, SplitFacts, SlotCount DEF CopyPair, Slots, OldDepth, TypeInv, TypeOK
  <1>3. slot \in [Segments -> [Slots -> Pair]] /\ pair \in Pair
    BY <1>2 DEF TypeInv, TypeOK
  <1>4. \A j \in Slots : j >= at => slot[NewSeg][j].key = INVALID
    BY <1>1 DEF CopyProgress
  <1>5. Skips(pair) \/ \E i \in Window : Moves(pair, i)
    BY CopyStep
  <1>6. CASE Skips(pair)
    <2>1. ASSUME NEW j \in Slots, j < at'
          PROVE  Copied(j)'
      <3>1. slot'[target'][j].key = slot[target][j].key
        BY <1>1, <1>2, <1>6 DEF Skips
      <3>2. \A k \in Keys : Stored(k, NewSeg)' <=> Stored(k, NewSeg)
        BY <1>1, <1>2, <1>6, ProbeType DEF Stored, Skips
      <3>3. CASE j < at
        BY <1>1, <1>2, <3>1, <3>2, <3>3 DEF CopyProgress, Copied
      <3>4. CASE j = at
        BY <1>1, <1>2, <1>6, <3>1, <3>4 DEF Copied, Skips
      <3> QED BY <1>1, <1>2, <2>1, <3>3, <3>4 DEF Slots
    <2>2. ASSUME NEW j \in Slots, j >= at'
          PROVE  slot'[NewSeg'][j].key = INVALID
      BY <1>1, <1>2, <1>4, <1>6, <2>2 DEF Slots, Skips
    <2> QED BY <2>1, <2>2 DEF CopyProgress
  <1>7. ASSUME NEW i0 \in Window, Moves(pair, i0)
        PROVE  CopyProgress'
    <2> DEFINE p == Probe(pair.key, i0)
    <2> HIDE DEF pair
    <2>1. /\ pair.key \in Keys /\ p \in Slots /\ p <= at
          /\ slot[NewSeg][p].key = INVALID
          /\ slot' = [slot EXCEPT ![NewSeg][p] = pair]
      BY <1>7 DEF Moves
    <2>2. \A s \in Segments, j \in Slots :
            slot'[s][j].key = IF s = NewSeg /\ j = p THEN pair.key ELSE slot[s][j].key
      BY <1>2, <1>3, <2>1
    <2> HIDE DEF p
    <2>3. \A k \in Keys : Stored(k, NewSeg) => Stored(k, NewSeg)'
      <3>1. SUFFICES ASSUME NEW k \in Keys, Stored(k, NewSeg) PROVE Stored(k, NewSeg)'
        OBVIOUS
      <3>2. PICK i \in Window : slot[NewSeg][Probe(k, i)].key = k
        BY <3>1 DEF Stored
      <3>3. Probe(k, i) # p
        BY <2>1, <3>2, ValueAssumption
      <3>4. slot'[NewSeg][Probe(k, i)].key = k
        BY <1>2, <2>2, <3>2, <3>3, ProbeType
      <3> QED BY <1>1, <3>4 DEF Stored
    <2>4. \E i \in Window : slot'[NewSeg'][Probe(pair.key, i)].key = pair.key
      <3>1. slot'[NewSeg][p].key = pair.key
        BY <1>2, <2>1, <2>2
      <3> QED BY <1>1, <3>1 DEF p
    <2>5. ASSUME NEW j \in Slots, j < at'
          PROVE  Copied(j)'
      <3>1. slot'[target'][j].key = slot[target][j].key
        BY <1>1, <1>2, <2>2
      <3>2. CASE j < at
        BY <1>1, <1>2, <2>3, <3>1, <3>2 DEF CopyProgress, Copied
      <3>3. CASE j = at
        <4>1. slot'[target'][j].key = pair.key
          BY <3>1, <3>3 DEF pair
        <4> QED BY <2>4, <4>1 DEF Copied, Stored
      <3> QED BY <1>1, <1>2, <2>5, <3>2, <3>3 DEF Slots
    <2>6. ASSUME NEW j \in Slots, j >= at'
          PROVE  slot'[NewSeg'][j].key = INVALID
      <3>1. j > at /\ j # p
        BY <1>1, <1>2, <2>1, <2>6 DEF Slots
      <3> QED BY <1>1, <1>2, <1>4, <2>2, <3>1 DEF Slots
    <2> QED BY <2>5, <2>6 DEF CopyProgress
  <1> QED BY <1>5, <1>6, <1>7

\* Wherever a pair is copied to, it is inside its window, and no home is the
\* new segment yet.
LEMMA CopyData ==
  ASSUME TypeInv, DirInv, CopyPair
  PROVE  /\ InOwnWindow => InOwnWindow'
         /\ Kept => Kept'
         /\ Straight' => Straight
  <1> DEFINE pair == slot[target][at]
  <1>1. /\ UNCHANGED <<dir, acked>> /\ Segments' = Segments /\ NewSeg' = NewSeg
        /\ IndexDepth' = IndexDepth /\ Splitting /\ pc = "copy"
    BY DEF CopyPair, IndexDepth, Splitting, NewSeg, Segments
  <1>2. /\ target \in Segments /\ NewSeg \in Segments /\ at \in Slots
    BY <1>1, SplitFacts, SlotCount DEF CopyPair, Slots, TypeInv, TypeOK
  <1>3. slot \in [Segments -> [Slots -> Pair]] /\ pair \in Pair
    BY <1>2 DEF TypeInv, TypeOK
  <1>4. \/ slot' = slot
        \/ \E i \in Window :
             /\ slot[NewSeg][Probe(pair.key, i)].key = INVALID
             /\ slot' = [slot EXCEPT ![NewSeg][Probe(pair.key, i)] = pair]
    BY DEF CopyPair, Insert4split, FirstInWindow
  <1>5. ASSUME NEW s \in Segments, NEW j \in Slots
        PROVE  \/ slot'[s][j].key = slot[s][j].key
               \/ /\ s = NewSeg /\ slot[s][j].key = INVALID
                  /\ slot'[s][j].key = pair.key
                  /\ \E i \in Window : j = Probe(pair.key, i)
    <2> HIDE DEF pair
    <2>1. ASSUME NEW i \in Window, slot' = [slot EXCEPT ![NewSeg][Probe(pair.key, i)] = pair]
          PROVE  slot'[s][j] = IF s = NewSeg /\ j = Probe(pair.key, i) THEN pair ELSE slot[s][j]
      BY <1>2, <1>3, <2>1
    <2> QED BY <1>4, <2>1
  <1> HIDE DEF pair
  <1>6. InOwnWindow => InOwnWindow'
    BY <1>1, <1>5 DEF InOwnWindow
  <1>7. Straight' => Straight
    BY <1>1, <1>2, <1>5, ValueAssumption DEF Straight
  <1>8. ASSUME Kept, NEW k \in Keys, acked'[k] > 0
        PROVE  Stored(k, dir[Prefix(k, IndexDepth)])'
    <2> DEFINE s == dir[Prefix(k, IndexDepth)]
    <2>1. s \in Segments /\ s # NewSeg /\ Stored(k, s)
      BY <1>1, <1>8, HomeType DEF DirInv, Moved, Kept
    <2>2. \E i \in Window : slot'[s][Probe(k, i)].key = k
      BY <1>5, <2>1, ProbeType DEF Stored
    <2> QED BY <1>1, <2>2 DEF Stored
  <1> QED BY <1>6, <1>7, <1>8 DEF Kept

\* The bit a split looks at is the last bit of the prefix one longer.
LEMMA SplitBitPrefix ==
  ASSUME NEW k \in Keys, NEW d \in Nat
  PROVE  SplitBit(k, d) <=> Prefix(k, d + 1) % 2 = 1
  <1>1. HashBits - d - 1 = HashBits - (d + 1)
    BY HashAssumption
  <1> QED BY <1>1 DEF SplitBit, Prefix

\* A pair whose home moves to the new segment has been copied there.
LEMMA MovedWithItsHome ==
  ASSUME CopyDone, pc = "directory", NEW k \in Keys,
         Stored(k, target), SplitBit(k, OldDepth(target))
  PROVE  Stored(k, NewSeg)
  <1>1. PICK i \in Window : slot[target][Probe(k, i)].key = k
    BY DEF Stored
  <1>2. Copied(Probe(k, i))
    BY ProbeType DEF CopyDone
  <1> QED BY <1>1, <1>2 DEF Copied

\* Where the home of a key goes when the directory changes: nowhere, or from the
\* segment being split to the new one, for a key with the split bit set.
HomeMoves(k) ==
  \/ dir'[Prefix(k, IndexDepth')] = dir[Prefix(k, IndexDepth)]
  \/ /\ dir[Prefix(k, IndexDepth)] = target
     /\ dir'[Prefix(k, IndexDepth')] = NewSeg
     /\ SplitBit(k, OldDepth(target))

\* One entry pointed to the new segment.
LEMMA EntryHome ==
  ASSUME TypeInv, DirInv, pc = "directory", pc' \in {"probe", "directory"},
         local_depth[target] <= global_depth,
         dir' = [dir EXCEPT ![UpperHalf + at] = NewSeg],
         UNCHANGED global_depth, NEW k \in Keys
  PROVE  HomeMoves(k)
  <1> DEFINE n == global_depth - local_depth[target]
             P == OldPattern(target)
             i == Prefix(k, global_depth)
  <1>1. /\ target \in Segments /\ target # NewSeg /\ NewSeg \in Segments
        /\ global_depth \in 1..HashBits /\ IndexDepth = global_depth /\ HashBits \in Nat
        /\ OldDepth(target) \in 0..global_depth
    BY SplitFacts DEF Splitting
  <1>2. /\ P \in Nat /\ Pow2[n] \in Nat \ {0} /\ n \in 0..HashBits
        /\ OldDepth(target) = local_depth[target] - 1
        /\ global_depth - OldDepth(target) = n + 1
        /\ ChunkSize \div 2 = Pow2[n]
        /\ UpperHalf \in Nat
        /\ \A j \in Nat : /\ Shr(j, n + 1) = Shr(j, n) \div 2
                          /\ Shr(j, n) \in Nat
                          /\ Shr(j, n) = 2 * P + 1 <=> j \in UpperHalf..(UpperHalf + Pow2[n] - 1)
    BY ChunkFacts
  <1> HIDE DEF n, P
  <1>3. IndexDepth' = global_depth
    BY <1>1 DEF IndexDepth
  <1>4. at \in Nat /\ at < Pow2[n]
    BY <1>2 DEF DirInv, TypeInv, TypeOK
  <1>5. /\ i \in 0..(Pow2[global_depth] - 1) /\ i \in Nat /\ i \in 0..(capacity - 1)
        /\ dir[i] \in Segments
    BY <1>1, HomeType, PowPositive DEF ArrayLength
  <1>6. dir'[i] = IF i = UpperHalf + at THEN NewSeg ELSE dir[i]
    BY <1>5 DEF TypeInv, TypeOK, ArrayLength
  <1>7. CASE i # UpperHalf + at
    BY <1>1, <1>3, <1>6, <1>7 DEF HomeMoves
  <1>8. CASE i = UpperHalf + at
    <2>1. Shr(i, n) = 2 * P + 1
      BY <1>2, <1>4, <1>5, <1>8
    <2>2. Shr(i, n + 1) = P
      <3>1. Shr(i, n + 1) = Shr(i, n) \div 2
        BY <1>2, <1>5
      <3>2. (2 * P + 1) \div 2 = P
        BY <1>2
      <3> QED BY <2>1, <3>1, <3>2
    <2>3. Owner(i) = target
      BY <1>1, <1>2, <1>5, <2>2 DEF DirInv, Established, Splitting, P
    <2>4. ~Moved(i)
      BY <1>2, <1>4, <1>8 DEF Moved
    <2>5. SplitBit(k, OldDepth(target))
      <3> DEFINE d == OldDepth(target)
      <3>1. d \in Nat /\ d + 1 \in 0..global_depth /\ global_depth - (d + 1) = n
        BY <1>1, <1>2, SMTT(30)
      <3> HIDE DEF d
      <3>2. Shr(i, n) = Prefix(k, d + 1)
        BY <1>1, <3>1, PrefixOfPrefix
      <3>3. (2 * P + 1) % 2 = 1
        BY <1>2
      <3>4. SplitBit(k, d)
        BY <2>1, <3>1, <3>2, <3>3, SplitBitPrefix
      <3> QED BY <3>4 DEF d
    <2> QED BY <1>1, <1>3, <1>6, <1>8, <2>3, <2>4, <2>5 DEF Owner, HomeMoves
  <1> QED BY <1>7, <1>8

\* The doubled directory put in place.
LEMMA DoublingHome ==
  ASSUME TypeInv, DirInv, SwapDirectory, NEW k \in Keys
  PROVE  HomeMoves(k)
  <1> DEFINE i == Prefix(k, global_depth)
             j == Prefix(k, global_depth + 1)
  <1>1. /\ pc = "directory" /\ pc' = "capacity" /\ local_depth[target] > global_depth
        /\ UNCHANGED <<capacity, global_depth>>
        /\ dir' = [m \in 0..(2 * capacity - 1) |->
                     IF m \div 2 # X THEN dir[m \div 2]
                     ELSE IF m % 2 = 0 THEN target ELSE NewSeg]
    BY DEF SwapDirectory, DoubledLength
  <1>2. /\ target \in Segments /\ target # NewSeg /\ NewSeg \in Segments
        /\ op.key \in Keys
        /\ global_depth \in 1..HashBits /\ HashBits \in Nat /\ IndexDepth = global_depth
        /\ OldDepth(target) \in 0..global_depth
        /\ Prefix(op.key, OldDepth(target)) = OldPattern(target)
    BY <1>1, SplitFacts DEF Splitting
  <1>3. local_depth[target] = global_depth + 1 /\ OldDepth(target) = global_depth
    BY <1>1, <1>2 DEF OldDepth, TypeInv, TypeOK
  <1>4. IndexDepth' = global_depth + 1
    BY <1>1 DEF IndexDepth
  <1>5. global_depth + 1 \in 0..HashBits /\ capacity \in Nat /\ ArrayLength = capacity
    <2>1. local_depth[target] \in 1..HashBits
      BY <1>2 DEF TypeInv, TypeOK
    <2> QED BY <1>1, <1>2, <1>3, <2>1 DEF TypeInv, TypeOK, ArrayLength
  <1>6. dir[X] = target
    BY <1>1, OwnEntry
  <1>7. i \in 0..(capacity - 1) /\ dir[i] \in Segments
    BY <1>1, <1>2, <1>5, HomeType
  <1>8. j \in Nat /\ j \div 2 = i
    <2>1. j \in Nat
      BY <1>5, PrefixRange, PowPositive
    <2>2. global_depth \in 0..(global_depth + 1) /\ (global_depth + 1) - global_depth = 1
      BY <1>2
    <2>3. Shr(j, 1) = i
      BY <1>5, <2>2, PrefixOfPrefix
    <2> QED BY <2>1, <2>3, ShrOne
  <1>9. j \in 0..(2 * capacity - 1)
    BY <1>5, <1>7, <1>8
  <1>10. dir'[j] = IF i # X THEN dir[i] ELSE IF j % 2 = 0 THEN target ELSE NewSeg
    BY <1>1, <1>8, <1>9
  <1>11. SplitBit(k, OldDepth(target)) <=> j % 2 = 1
    BY <1>2, <1>3, SplitBitPrefix
  <1>12. CASE i # X
    BY <1>2, <1>4, <1>10, <1>12 DEF HomeMoves
  <1>13. CASE i = X /\ j % 2 = 0
    BY <1>2, <1>4, <1>6, <1>10, <1>13 DEF HomeMoves
  <1>14. CASE i = X /\ j % 2 # 0
    <2>1. j % 2 = 1
      BY <1>8, <1>14
    <2> QED BY <1>2, <1>4, <1>6, <1>10, <1>11, <1>14, <2>1 DEF HomeMoves
  <1> QED BY <1>12, <1>13, <1>14

\* Either way the pairs are already where the homes go.
LEMMA MovingData ==
  ASSUME TypeInv, DataInv, pc = "directory", UNCHANGED <<nseg, slot, acked>>,
         \A k \in Keys : HomeMoves(k)
  PROVE  InOwnWindow' /\ Kept'
  <1>1. InOwnWindow'
    BY DEF DataInv, InOwnWindow, Segments
  <1>2. ASSUME NEW k \in Keys, acked'[k] > 0
        PROVE  Stored(k, dir[Prefix(k, IndexDepth)])'
    <2>1. Stored(k, dir[Prefix(k, IndexDepth)])
      BY <1>2 DEF DataInv, Kept
    <2>2. Stored(k, dir'[Prefix(k, IndexDepth')])
      BY <2>1, MovedWithItsHome DEF HomeMoves, DataInv
    <2> QED BY <2>2 DEF Stored
  <1> QED BY <1>1, <1>2 DEF Kept

LEMMA StepDataInv ==
  ASSUME NoWrap
  PROVE  TypeInv /\ DirInv /\ DataInv /\ [Next]_vars => DataInv'
  <1> SUFFICES ASSUME TypeInv, DirInv, DataInv, [Next]_vars PROVE DataInv'
    OBVIOUS
  <1> USE DEF DataInv
  <1>1. ASSUME NEW k \in Keys, NEW v \in Values, NEW r \in BOOLEAN, Call(k, v, r)
        PROVE  DataInv'
    <2>1. InOwnWindow' /\ Kept'
      BY <1>1, FrameData DEF Call, table, IndexDepth
    <2> QED BY <1>1, <2>1 DEF Call, SlotFree, CopyProgress, CopyDone
  <1>2. CASE StoreValue
    <2>1. PICK i \in Window :
            /\ FirstInWindow(i, UsableProbe)
            /\ at' = Probe(op.key, i)
            /\ slot' = [slot EXCEPT ![Target][Probe(op.key, i)].value = op.value]
      BY <1>2 DEF StoreValue
    <2>2. /\ pc = "probe" /\ pc' = "publish" /\ target' = Target
          /\ UNCHANGED <<dir, capacity, global_depth, nseg, local_depth, pattern, op, acked>>
      BY <1>2 DEF StoreValue
    <2>3. Target \in Segments /\ op.key \in Keys /\ Probe(op.key, i) \in Slots
      BY <2>2, TargetType, OpType, ProbeType DEF TypeInv
    <2>4. \A s \in Segments, j \in Slots : slot'[s][j].key = slot[s][j].key
      <3>1. slot \in [Segments -> [Slots -> Pair]]
        BY DEF TypeInv, TypeOK
      <3>2. ASSUME NEW s \in Segments, NEW j \in Slots
            PROVE  slot'[s][j].key = slot[s][j].key
        BY <2>1, <2>3, <3>1 DEF Pair
      <3> QED BY <3>2
    <2>5. InOwnWindow' /\ Kept'
      BY <2>2, <2>4, FrameData DEF IndexDepth
    <2>6. Usable(target, at)'
      <3>1. Usable(Target, Probe(op.key, i))
        BY <2>1 DEF FirstInWindow, UsableProbe
      <3> QED BY <2>1, <2>2, <2>3, <2>4, <3>1 DEF Usable
    <2> QED BY <2>1, <2>2, <2>5, <2>6 DEF SlotFree, CopyProgress, CopyDone
  <1>3. CASE StoreKey
    BY <1>3, StoreKeyData DEF StoreKey, SlotFree, CopyProgress, CopyDone
  <1>4. CASE ReturnFalse
    <2>1. InOwnWindow' /\ Kept'
      BY <1>4, FrameData DEF ReturnFalse, WindowFull, table, IndexDepth
    <2> QED BY <1>4, <2>1 DEF ReturnFalse, SlotFree, CopyProgress, CopyDone
  <1>5. CASE AllocateSibling
    <2>1. /\ pc = "probe" /\ pc' = "copy" /\ nseg' = nseg + 1 /\ at' = 0
          /\ slot' = Extend(slot, EmptySlots)
          /\ UNCHANGED <<dir, capacity, global_depth, acked>> /\ nseg \in Nat
          /\ IndexDepth' = IndexDepth
      BY <1>5 DEF AllocateSibling, WindowFull, TypeInv, TypeOK, IndexDepth
    <2>2. /\ Segments' = 0..nseg /\ NewSeg' = nseg /\ nseg \notin Segments
          /\ \A s \in Segments' : s = nseg \/ s \in Segments
          /\ Segments \subseteq Segments'
      BY <2>1 DEF Segments, NewSeg
    <2>3. /\ \A s \in Segments : slot'[s] = slot[s]
          /\ \A j \in Slots : slot'[nseg][j].key = INVALID
      BY <2>1, <2>2 DEF Extend, EmptySlots, EmptyPair
    <2>4. InOwnWindow'
      BY <2>2, <2>3, ValueAssumption DEF InOwnWindow
    <2>5. ASSUME NEW k \in Keys, acked'[k] > 0
          PROVE  Stored(k, dir[Prefix(k, IndexDepth)])'
      <3> DEFINE s == dir[Prefix(k, IndexDepth)]
      <3>1. s \in Segments /\ Stored(k, s) /\ dir'[Prefix(k, IndexDepth')] = s
        BY <2>1, <2>5, HomeType DEF Kept
      <3>2. \E i \in Window : slot'[s][Probe(k, i)].key = k
        BY <2>3, <3>1 DEF Stored
      <3> QED BY <3>1, <3>2 DEF Stored
    <2>6. CopyProgress'
      BY <2>1, <2>2, <2>3 DEF CopyProgress, Slots
    <2> QED BY <2>1, <2>4, <2>5, <2>6 DEF Kept, SlotFree, CopyDone
  <1>6. CASE CopyPair
    BY <1>6, CopyData, CopyAdvances DEF CopyPair, SlotFree, CopyDone, NoWrap, Straight
  <1>7. CASE Deepen
    <2>1. /\ pc = "copy" /\ pc' = "pattern" /\ at = kNumSlot
          /\ local_depth' = [local_depth EXCEPT ![target] = @ + 1]
          /\ UNCHANGED <<dir, capacity, global_depth, nseg, slot, op, target, acked>>
      BY <1>7 DEF Deepen
    <2>2. InOwnWindow' /\ Kept'
      BY <2>1, FrameData DEF IndexDepth
    <2>3. OldDepth(target)' = OldDepth(target)
      BY <2>1, SplitFacts DEF OldDepth, Splitting, TypeInv, TypeOK
    <2>4. \A j \in Slots : Copied(j)
      BY <2>1, SlotCount DEF CopyProgress, Slots
    <2>5. \A j \in Slots : Copied(j)'
      BY <2>1, <2>3, <2>4 DEF Copied, Stored, NewSeg
    <2> QED BY <2>1, <2>2, <2>5 DEF SlotFree, CopyProgress, CopyDone
  <1>8. CASE SetPatterns
    <2>1. /\ pc = "pattern" /\ pc' = "directory"
          /\ UNCHANGED <<dir, capacity, global_depth, nseg, local_depth, slot, op, target, acked>>
      BY <1>8 DEF SetPatterns
    <2>2. InOwnWindow' /\ Kept'
      BY <2>1, FrameData DEF IndexDepth
    <2>3. \A j \in Slots : Copied(j)'
      BY <2>1 DEF CopyDone, Copied, Stored, NewSeg, OldDepth
    <2> QED BY <2>1, <2>2, <2>3 DEF SlotFree, CopyProgress, CopyDone
  <1>9. CASE PointSibling
    <2>1. /\ pc = "directory" /\ pc' = "probe" /\ local_depth[target] = global_depth
          /\ dir' = [dir EXCEPT ![SiblingIndex] = NewSeg]
          /\ UNCHANGED <<capacity, global_depth, nseg, slot, acked>>
      BY <1>9 DEF PointSibling, Retry
    <2>2. global_depth \in Nat /\ SiblingIndex = UpperHalf + at
      BY <2>1, SiblingIsUpperHalf DEF TypeInv, TypeOK
    <2>3. InOwnWindow' /\ Kept'
      BY <2>1, <2>2, EntryHome, MovingData
    <2> QED BY <2>1, <2>3 DEF SlotFree, CopyProgress, CopyDone
  <1>10. CASE PointChunk
    <2>1. /\ pc = "directory" /\ pc' \in {"probe", "directory"}
          /\ local_depth[target] < global_depth
          /\ dir' = [dir EXCEPT ![UpperHalf + at] = NewSeg]
          /\ UNCHANGED <<capacity, global_depth, nseg, local_depth, slot, acked>>
          /\ pc' = "directory" => target' = target
      BY <1>10 DEF PointChunk, Retry
    <2>2. local_depth[target] <= global_depth
      BY <2>1, SplitFacts DEF Splitting, TypeInv, TypeOK
    <2>3. InOwnWindow' /\ Kept'
      BY <2>1, <2>2, EntryHome, MovingData
    <2>4. pc' = "directory" => \A j \in Slots : Copied(j)'
      BY <2>1 DEF CopyDone, Copied, Stored, NewSeg, OldDepth
    <2> QED BY <2>1, <2>3, <2>4 DEF SlotFree, CopyProgress, CopyDone
  <1>11. CASE SwapDirectory
    <2>1. InOwnWindow' /\ Kept'
      BY <1>11, DoublingHome, MovingData DEF SwapDirectory
    <2> QED BY <1>11, <2>1 DEF SwapDirectory, SlotFree, CopyProgress, CopyDone
  <1>12. CASE DoubleCapacity
    <2>1. InOwnWindow' /\ Kept'
      BY <1>12, FrameData DEF DoubleCapacity, IndexDepth
    <2> QED BY <1>12, <2>1 DEF DoubleCapacity, SlotFree, CopyProgress, CopyDone
  <1>13. CASE DeepenGlobal
    <2>1. InOwnWindow' /\ Kept'
      BY <1>13, FrameData DEF DeepenGlobal, IndexDepth
    <2> QED BY <1>13, <2>1 DEF DeepenGlobal, SlotFree, CopyProgress, CopyDone
  <1>14. CASE UNCHANGED vars
    <2>1. UNCHANGED <<dir, global_depth, nseg, local_depth, pattern, slot, pc, op, target, at, acked>>
      BY <1>14 DEF vars, table, thread
    <2>2. InOwnWindow' /\ Kept'
      BY <2>1, FrameData DEF IndexDepth
    <2>3. SlotFree'
      BY <2>1 DEF SlotFree, Usable
    <2>4. \A j \in Slots : Copied(j) => Copied(j)'
      BY <2>1 DEF Copied, Stored, NewSeg, OldDepth
    <2> QED BY <2>1, <2>2, <2>3, <2>4 DEF CopyProgress, CopyDone, NewSeg
  <1> QED
    BY <1>1, <1>2, <1>3, <1>4, <1>5, <1>6, <1>7, <1>8, <1>9, <1>10, <1>11, <1>12, <1>13, <1>14
    DEF Next, Step, Insert, InsertOnly

\* A pair whose insertion has returned is always in its window in the segment
\* its key is directed to, and a split that is under way has copied every pair it
\* has scanned: what Get and Utilization rest on.
THEOREM DataStaysInPlace ==
  ASSUME NoWrap
  PROVE  Spec => []DataInv
  <1>1. TypeInv /\ DirInv /\ DataInv /\ [Next]_vars => DataInv'
    BY StepDataInv
  <1> QED BY <1>1, InitDataInv, TypeInvHolds, DirectoryAgrees, PTL DEF Spec

\* Whatever is inserted, split and doubled, Get finds every key whose
\* insertion has returned, at every point of every later call.
THEOREM NothingIsLost ==
  ASSUME NoWrap
  PROVE  Spec => []NothingLost
  <1>1. TypeInv /\ DataInv => NothingLost
    <2> SUFFICES ASSUME TypeInv, DataInv, NEW k \in Keys, acked[k] > 0
                 PROVE  Lookup(k, IndexDepth) # NONE
      BY DEF NothingLost, View
    <2> QED BY HomeType, LookupFinds DEF DataInv, Kept, TypeInv
  <1> QED BY <1>1, TypeInvHolds, DataStaysInPlace, PTL

-----------------------------------------------------------------------------
(* Utilization: counting the copies of a key. *)

Places(k, s) == {j \in Slots : slot[s][j].key = k}

\* The pairs of k a split has scanned so far.
Scanned(k) == {j \in Places(k, target) : pc = "copy" => j < at}

\* A key has as many copies in its home as insertions have returned, and a
\* split makes one more of each copy that is to move.
CountInv ==
  /\ \A k \in Keys : Cardinality(Places(k, dir[Prefix(k, IndexDepth)])) = acked[k]
  /\ Splitting =>
       \A k \in Keys : SplitBit(k, OldDepth(target)) =>
         Cardinality(Places(k, NewSeg)) = Cardinality(Scanned(k))

LEMMA PlacesFinite ==
  ASSUME NEW k, NEW s
  PROVE  IsFiniteSet(Places(k, s))
  <1>1. kNumSlot - 1 \in Int /\ 0 \in Int
    BY SlotCount
  <1>2. IsFiniteSet(Slots)
    BY <1>1, FS_Interval DEF Slots
  <1> QED BY <1>2, FS_Subset DEF Places

LEMMA InitCount == Init => CountInv
  <1> SUFFICES ASSUME Init PROVE CountInv
    OBVIOUS
  <1>1. ASSUME NEW k \in Keys
        PROVE  Cardinality(Places(k, dir[Prefix(k, IndexDepth)])) = acked[k]
    <2> DEFINE s == dir[Prefix(k, IndexDepth)]
    <2>1. s \in 0..(InitCap - 1)
      <3>1. s \in Segments
        BY InitTypeInv, HomeType
      <3> QED BY <3>1 DEF Init, Segments
    <2>2. Places(k, s) = {}
      BY <2>1, ValueAssumption DEF Init, EmptySlots, EmptyPair, Places
    <2> QED BY <2>2, FS_EmptySet DEF Init
  <1> QED BY <1>1 DEF CountInv, Init, Splitting

\* Steps that leave the keys in the slots and the homes of all keys alone.
LEMMA FrameCount ==
  ASSUME TypeInv, CountInv, nseg' = nseg, acked' = acked,
         \A s \in Segments, j \in Slots : slot'[s][j].key = slot[s][j].key,
         \A k \in Keys : dir'[Prefix(k, IndexDepth')] = dir[Prefix(k, IndexDepth)],
         \/ ~Splitting'
         \/ /\ Splitting /\ target' = target
            /\ NewSeg \in Segments /\ target \in Segments
            /\ OldDepth(target)' = OldDepth(target)
            /\ \A k \in Keys : SplitBit(k, OldDepth(target)) => Scanned(k)' = Scanned(k)
  PROVE  CountInv'
  <1>1. \A k, s : s \in Segments => Places(k, s)' = Places(k, s)
    BY DEF Places
  <1>2. ASSUME NEW k \in Keys
        PROVE  Cardinality(Places(k, dir[Prefix(k, IndexDepth)]))' = acked'[k]
    <2>1. dir[Prefix(k, IndexDepth)] \in Segments
      BY HomeType
    <2>2. Places(k, dir[Prefix(k, IndexDepth)])' = Places(k, dir[Prefix(k, IndexDepth)])
      BY <1>1, <2>1 DEF Places
    <2> QED BY <2>2 DEF CountInv
  <1>3. ASSUME Splitting', NEW k \in Keys, SplitBit(k, OldDepth(target))'
        PROVE  Cardinality(Places(k, NewSeg))' = Cardinality(Scanned(k))'
    <2>1. /\ Splitting /\ target' = target /\ NewSeg \in Segments
          /\ OldDepth(target)' = OldDepth(target) /\ Scanned(k)' = Scanned(k)
      BY <1>3 DEF SplitBit
    <2>2. Places(k, NewSeg)' = Places(k, NewSeg)
      BY <1>1, <2>1 DEF NewSeg, Places
    <2> QED BY <1>3, <2>1, <2>2 DEF CountInv, SplitBit
  <1> QED BY <1>2, <1>3 DEF CountInv

LEMMA StoreKeyCount ==
  ASSUME NoWrap, TypeInv, DirInv, DataInv, CountInv, StoreKey
  PROVE  CountInv'
  <1> DEFINE q == op.key
  <1>1. /\ pc = "publish" /\ pc' = "idle" /\ ~Splitting /\ ~Splitting'
        /\ UNCHANGED <<dir, global_depth, nseg>>
        /\ slot' = [slot EXCEPT ![target][at].key = q]
        /\ acked' = [acked EXCEPT ![q] = @ + 1]
    BY DEF StoreKey, Splitting
  <1>2. target \in Segments /\ at \in Slots /\ q \in Keys
    BY <1>1, OpType DEF TypeInv, TypeOK
  <1>3. \A s \in Segments, j \in Slots :
          slot'[s][j].key = IF s = target /\ j = at THEN q ELSE slot[s][j].key
    <2>1. slot \in [Segments -> [Slots -> Pair]]
      BY DEF TypeInv, TypeOK
    <2>2. ASSUME NEW s \in Segments, NEW j \in Slots
          PROVE  slot'[s][j].key = IF s = target /\ j = at THEN q ELSE slot[s][j].key
      <3>1. slot[target][at] \in Pair /\ slot[s][j] \in Pair
        BY <1>2, <2>1
      <3>2. CASE s = target /\ j = at
        BY <1>1, <1>2, <2>1, <3>1, <3>2 DEF Pair
      <3>3. CASE ~(s = target /\ j = at)
        BY <1>1, <1>2, <2>1, <3>3
      <3> QED BY <3>2, <3>3
    <2> QED BY <2>2
  <1>4. Prefix(q, local_depth[target]) = pattern[target]
    BY <1>1 DEF DirInv, OldDepth, OldPattern
  <1> HIDE DEF q
  <1>5. ASSUME NEW k \in Keys
        PROVE  Cardinality(Places(k, dir[Prefix(k, IndexDepth)]))' = acked'[k]
    <2> DEFINE s == dir[Prefix(k, IndexDepth)]
    <2>1. s \in Segments /\ dir'[Prefix(k, IndexDepth')] = s
      BY <1>1, HomeType DEF IndexDepth
    <2>2. s = target <=> Prefix(k, local_depth[target]) = pattern[target]
      BY <1>1, <1>2, KeyHome
    <2>3. ~(s = target /\ slot[target][at].key = k)
      BY <1>1, <2>2, ValueAssumption DEF DataInv, SlotFree, Usable
    <2> HIDE DEF s
    <2>4. Places(k, dir[Prefix(k, IndexDepth)])' = {j \in Slots : slot'[s][j].key = k}
      BY <2>1 DEF Places
    <2>5. Cardinality(Places(k, s)) = acked[k] /\ acked[k] \in Nat
      BY DEF CountInv, s, TypeInv, TypeOK
    <2>6. CASE k = q
      <3>1. s = target
        BY <1>4, <2>2, <2>6
      <3>2. {j \in Slots : slot'[s][j].key = k} = Places(k, s) \cup {at}
        BY <1>2, <1>3, <2>1, <2>6, <3>1 DEF Places
      <3>3. at \notin Places(k, s)
        BY <2>3, <3>1 DEF Places
      <3>4. Cardinality(Places(k, s) \cup {at}) = Cardinality(Places(k, s)) + 1
        BY <3>3, PlacesFinite, FS_AddElement
      <3>5. acked'[k] = acked[k] + 1
        BY <1>1, <2>6 DEF TypeInv, TypeOK, q
      <3> QED BY <2>4, <2>5, <3>2, <3>4, <3>5
    <2>7. CASE k # q
      <3>1. {j \in Slots : slot'[s][j].key = k} = Places(k, s)
        BY <1>3, <2>1, <2>3, <2>7 DEF Places
      <3>2. acked'[k] = acked[k]
        BY <1>1, <2>7 DEF TypeInv, TypeOK, q
      <3> QED BY <2>4, <2>5, <3>1, <3>2
    <2> QED BY <2>6, <2>7
  <1> QED BY <1>1, <1>5 DEF CountInv

LEMMA CopyCount ==
  ASSUME NoWrap, TypeInv, DirInv, DataInv, CountInv, CopyPair
  PROVE  CountInv'
  <1> DEFINE pair == slot[target][at]
  <1>1. /\ pc = "copy" /\ pc' = "copy" /\ at' = at + 1
        /\ UNCHANGED <<dir, global_depth, nseg, local_depth, target, acked>>
        /\ IndexDepth' = IndexDepth /\ Splitting /\ Splitting' /\ NewSeg' = NewSeg
    BY DEF CopyPair, IndexDepth, Splitting, NewSeg
  <1>2. /\ target \in Segments /\ target # NewSeg /\ NewSeg \in Segments
        /\ at \in Slots /\ at \in Nat /\ Slots \subseteq Nat
        /\ OldDepth(target) = local_depth[target] /\ OldDepth(target)' = OldDepth(target)
    BY <1>1, SplitFacts, SlotCount DEF CopyPair, Slots, OldDepth, TypeInv, TypeOK
  <1>3. slot \in [Segments -> [Slots -> Pair]] /\ pair \in Pair
    BY <1>2 DEF TypeInv, TypeOK
  <1>4. Skips(pair) \/ \E i \in Window : Moves(pair, i)
    BY CopyStep DEF DataInv, NoWrap, Straight
  <1>5. \A k \in Keys : /\ dir[Prefix(k, IndexDepth)] # NewSeg
                        /\ dir[Prefix(k, IndexDepth)] \in Segments
    BY <1>1, HomeType DEF DirInv, Moved
  <1>6. CASE Skips(pair)
    <2>1. ASSUME NEW k \in Keys, SplitBit(k, OldDepth(target))
          PROVE  Scanned(k)' = Scanned(k)
      <3>1. slot[target][at].key # k
        BY <1>2, <1>6, <2>1 DEF Skips
      <3>2. \A j \in Slots : slot[target][j].key = k => (j < at + 1 <=> j < at)
        BY <1>2, <3>1
      <3>3. \A j \in Slots : slot'[target][j].key = slot[target][j].key
        BY <1>2, <1>6 DEF Skips
      <3> QED BY <1>1, <3>2, <3>3 DEF Scanned, Places
    <2> QED BY <1>1, <1>2, <1>6, <2>1, FrameCount DEF Skips
  <1>7. ASSUME NEW i \in Window, Moves(pair, i)
        PROVE  CountInv'
    <2> DEFINE q == pair.key
               p == Probe(q, i)
    <2>1. /\ q \in Keys /\ p \in Slots /\ slot[NewSeg][p].key = INVALID
          /\ slot' = [slot EXCEPT ![NewSeg][p] = pair]
      BY <1>7 DEF Moves
    <2>2. \A s \in Segments, j \in Slots :
            slot'[s][j].key = IF s = NewSeg /\ j = p THEN q ELSE slot[s][j].key
      BY <1>2, <1>3, <2>1
    <2>3. slot[target][at].key = q
      OBVIOUS
    <2> HIDE DEF pair, p, q
    <2>4. ASSUME NEW k \in Keys
          PROVE  Cardinality(Places(k, dir[Prefix(k, IndexDepth)]))' = acked'[k]
      <3> DEFINE s == dir[Prefix(k, IndexDepth)]
      <3>1. \A j \in Slots : slot'[s][j].key = slot[s][j].key
        BY <1>5, <2>2
      <3>2. Places(k, dir[Prefix(k, IndexDepth)])' = Places(k, s)
        BY <1>1, <3>1 DEF Places
      <3> QED BY <1>1, <3>2 DEF CountInv
    <2>5. ASSUME NEW k \in Keys, SplitBit(k, OldDepth(target))
          PROVE  Cardinality(Places(k, NewSeg))' = Cardinality(Scanned(k))'
      <3>1. /\ Places(k, NewSeg)' = {j \in Slots : slot'[NewSeg][j].key = k}
            /\ Scanned(k)' = {j \in Slots : slot'[target][j].key = k /\ j < at + 1}
            /\ Scanned(k) = {j \in Slots : slot[target][j].key = k /\ j < at}
        BY <1>1 DEF Places, Scanned
      <3>2. Cardinality(Places(k, NewSeg)) = Cardinality(Scanned(k))
        BY <1>1, <2>5 DEF CountInv
      <3>3. CASE k = q
        <4>1. Places(k, NewSeg)' = Places(k, NewSeg) \cup {p} /\ p \notin Places(k, NewSeg)
          BY <1>2, <2>1, <2>2, <3>1, <3>3, ValueAssumption DEF Places
        <4>2. Scanned(k)' = Scanned(k) \cup {at} /\ at \notin Scanned(k)
          <5>1. \A j \in Slots : slot'[target][j].key = slot[target][j].key
            BY <1>2, <2>2
          <5>2. \A j \in Slots : j < at + 1 <=> (j < at \/ j = at)
            BY <1>2
          <5>3. ~(at < at)
            BY <1>2
          <5> QED BY <1>2, <2>3, <3>1, <3>3, <5>1, <5>2, <5>3, ZenonT(40)
        <4>3. IsFiniteSet(Scanned(k))
          BY PlacesFinite, FS_Subset DEF Scanned
        <4>4. /\ Cardinality(Places(k, NewSeg) \cup {p}) = Cardinality(Places(k, NewSeg)) + 1
              /\ Cardinality(Scanned(k) \cup {at}) = Cardinality(Scanned(k)) + 1
          BY <4>1, <4>2, <4>3, PlacesFinite, FS_AddElement
        <4> QED BY <3>2, <4>1, <4>2, <4>4
      <3>4. CASE k # q
        <4>1. Places(k, NewSeg)' = Places(k, NewSeg)
          BY <1>2, <2>1, <2>2, <3>1, <3>4, ValueAssumption DEF Places
        <4>2. \A j \in Slots : slot[target][j].key = k => (j < at + 1 <=> j < at)
          BY <1>2, <2>3, <3>4
        <4>3. Scanned(k)' = Scanned(k)
          BY <1>2, <2>2, <3>1, <4>2
        <4> QED BY <3>2, <4>1, <4>3
      <3> QED BY <3>3, <3>4
    <2>6. \A k \in Keys : SplitBit(k, OldDepth(target))' => SplitBit(k, OldDepth(target))
      BY <1>2 DEF SplitBit
    <2> QED BY <2>4, <2>5, <2>6 DEF CountInv
  <1> QED BY <1>4, <1>6, <1>7

\* A key whose home goes to the new segment has as many copies there.
LEMMA MovingCount ==
  ASSUME CountInv, pc = "directory", UNCHANGED <<nseg, local_depth, slot, acked>>,
         \/ pc' \in {"probe", "capacity"}
         \/ pc' = "directory" /\ target' = target,
         \A k \in Keys : HomeMoves(k)
  PROVE  CountInv'
  <1>1. \A k, s : Places(k, s)' = Places(k, s)
    BY DEF Places
  <1>2. ASSUME NEW k \in Keys
        PROVE  Cardinality(Places(k, dir[Prefix(k, IndexDepth)]))' = acked'[k]
    <2> DEFINE s == dir[Prefix(k, IndexDepth)]
               t == dir'[Prefix(k, IndexDepth')]
    <2>1. Cardinality(Places(k, s)) = acked[k]
      BY DEF CountInv
    <2>2. CASE t = s
      BY <2>1, <2>2 DEF Places
    <2>3. CASE s = target /\ t = NewSeg /\ SplitBit(k, OldDepth(target))
      <3>1. Cardinality(Places(k, NewSeg)) = Cardinality(Places(k, target))
        BY <2>3 DEF CountInv, Splitting, Scanned
      <3> QED BY <2>1, <2>3, <3>1 DEF Places
    <2> QED BY <2>2, <2>3 DEF HomeMoves
  <1>3. CASE pc' = "directory" /\ target' = target
    <2>1. /\ Splitting /\ NewSeg' = NewSeg /\ OldDepth(target)' = OldDepth(target)
          /\ \A k : Scanned(k)' = Scanned(k) /\ Places(k, NewSeg)' = Places(k, NewSeg)
      BY <1>3 DEF Splitting, NewSeg, OldDepth, Scanned, Places
    <2>2. \A k : SplitBit(k, OldDepth(target))' => SplitBit(k, OldDepth(target))
      BY <2>1 DEF SplitBit
    <2> QED BY <1>2, <2>1, <2>2 DEF CountInv
  <1>4. CASE pc' \in {"probe", "capacity"}
    BY <1>2, <1>4 DEF CountInv, Splitting
  <1> QED BY <1>3, <1>4

LEMMA StepCount ==
  ASSUME NoWrap
  PROVE  TypeInv /\ DirInv /\ DataInv /\ CountInv /\ [Next]_vars => CountInv'
  <1> SUFFICES ASSUME TypeInv, DirInv, DataInv, CountInv, [Next]_vars PROVE CountInv'
    OBVIOUS
  <1>1. ASSUME NEW k \in Keys, NEW v \in Values, NEW r \in BOOLEAN, Call(k, v, r)
        PROVE  CountInv'
    BY <1>1, FrameCount DEF Call, table, IndexDepth, Splitting
  <1>2. CASE StoreValue
    <2>1. PICK i \in Window :
            slot' = [slot EXCEPT ![Target][Probe(op.key, i)].value = op.value]
      BY <1>2 DEF StoreValue
    <2>2. /\ pc = "probe" /\ pc' = "publish"
          /\ UNCHANGED <<dir, global_depth, nseg, acked>>
      BY <1>2 DEF StoreValue
    <2>3. Target \in Segments /\ op.key \in Keys /\ Probe(op.key, i) \in Slots
      BY <2>2, TargetType, OpType, ProbeType DEF TypeInv
    <2>4. slot \in [Segments -> [Slots -> Pair]]
      BY DEF TypeInv, TypeOK
    <2>5. ASSUME NEW s \in Segments, NEW j \in Slots
          PROVE  slot'[s][j].key = slot[s][j].key
      BY <2>1, <2>3, <2>4 DEF Pair
    <2> QED BY <2>2, <2>5, FrameCount DEF IndexDepth, Splitting
  <1>3. CASE StoreKey
    BY <1>3, StoreKeyCount
  <1>4. CASE ReturnFalse
    BY <1>4, FrameCount DEF ReturnFalse, WindowFull, table, IndexDepth, Splitting
  <1>5. CASE AllocateSibling
    <2>1. /\ pc = "probe" /\ pc' = "copy" /\ nseg' = nseg + 1 /\ at' = 0
          /\ slot' = Extend(slot, EmptySlots)
          /\ UNCHANGED <<dir, global_depth, acked>> /\ nseg \in Nat
          /\ IndexDepth' = IndexDepth
      BY <1>5 DEF AllocateSibling, WindowFull, TypeInv, TypeOK, IndexDepth
    <2>2. /\ \A s \in Segments : slot'[s] = slot[s]
          /\ \A j \in Slots : slot'[nseg][j].key = INVALID
          /\ NewSeg' = nseg
      BY <2>1 DEF Extend, EmptySlots, EmptyPair, Segments, NewSeg
    <2>3. ASSUME NEW k \in Keys
          PROVE  Cardinality(Places(k, dir[Prefix(k, IndexDepth)]))' = acked'[k]
      <3>1. dir[Prefix(k, IndexDepth)] \in Segments
        BY HomeType
      <3>2. Places(k, dir[Prefix(k, IndexDepth)])' = Places(k, dir[Prefix(k, IndexDepth)])
        BY <2>1, <2>2, <3>1 DEF Places
      <3> QED BY <2>1, <3>2 DEF CountInv
    <2>4. ASSUME NEW k \in Keys
          PROVE  Places(k, NewSeg)' = {} /\ Scanned(k)' = {}
      <3>1. Places(k, NewSeg)' = {}
        BY <2>2, ValueAssumption DEF Places
      <3>2. Scanned(k)' = {}
        BY <2>1, SlotCount DEF Scanned, Places, Slots
      <3> QED BY <3>1, <3>2
    <2> QED BY <2>3, <2>4 DEF CountInv
  <1>6. CASE CopyPair
    BY <1>6, CopyCount
  <1>7. CASE Deepen
    <2>1. /\ pc = "copy" /\ pc' = "pattern" /\ at = kNumSlot
          /\ local_depth' = [local_depth EXCEPT ![target] = @ + 1]
          /\ UNCHANGED <<dir, global_depth, nseg, slot, target, acked>>
      BY <1>7 DEF Deepen
    <2>2. /\ OldDepth(target)' = OldDepth(target) /\ Splitting
          /\ target \in Segments /\ NewSeg \in Segments
      BY <2>1, SplitFacts DEF OldDepth, Splitting, TypeInv, TypeOK
    <2>3. \A j \in Slots : j < at
      BY <2>1, SlotCount DEF Slots
    <2>4. \A k : Scanned(k)' = Scanned(k)
      BY <2>1, <2>3 DEF Scanned, Places
    <2> QED BY <2>1, <2>2, <2>4, FrameCount DEF IndexDepth
  <1>8. CASE SetPatterns
    <2>1. /\ pc = "pattern" /\ pc' = "directory"
          /\ UNCHANGED <<dir, global_depth, nseg, local_depth, slot, target, acked>>
      BY <1>8 DEF SetPatterns
    <2>2. /\ OldDepth(target)' = OldDepth(target) /\ Splitting
          /\ target \in Segments /\ NewSeg \in Segments
      BY <2>1, SplitFacts DEF OldDepth, Splitting
    <2>3. \A k : Scanned(k)' = Scanned(k)
      BY <2>1 DEF Scanned, Places
    <2> QED BY <2>1, <2>2, <2>3, FrameCount DEF IndexDepth
  <1>9. CASE PointSibling
    <2>1. /\ pc = "directory" /\ pc' = "probe" /\ local_depth[target] = global_depth
          /\ dir' = [dir EXCEPT ![SiblingIndex] = NewSeg]
          /\ UNCHANGED <<capacity, global_depth, nseg, local_depth, slot, acked>>
      BY <1>9 DEF PointSibling, Retry
    <2>2. global_depth \in Nat /\ SiblingIndex = UpperHalf + at
      BY <2>1, SiblingIsUpperHalf DEF TypeInv, TypeOK
    <2> QED BY <2>1, <2>2, EntryHome, MovingCount
  <1>10. CASE PointChunk
    <2>1. /\ pc = "directory" /\ local_depth[target] < global_depth
          /\ dir' = [dir EXCEPT ![UpperHalf + at] = NewSeg]
          /\ UNCHANGED <<capacity, global_depth, nseg, local_depth, slot, acked>>
          /\ pc' = "probe" \/ (pc' = "directory" /\ target' = target)
      BY <1>10 DEF PointChunk, Retry
    <2>2. local_depth[target] <= global_depth
      BY <2>1, SplitFacts DEF Splitting, TypeInv, TypeOK
    <2> QED BY <2>1, <2>2, EntryHome, MovingCount
  <1>11. CASE SwapDirectory
    BY <1>11, DoublingHome, MovingCount DEF SwapDirectory
  <1>12. CASE DoubleCapacity
    BY <1>12, FrameCount DEF DoubleCapacity, IndexDepth, Splitting
  <1>13. CASE DeepenGlobal
    BY <1>13, FrameCount DEF DeepenGlobal, IndexDepth, Splitting
  <1>14. CASE UNCHANGED vars
    <2>1. UNCHANGED <<dir, global_depth, nseg, local_depth, slot, pc, target, at, acked>>
      BY <1>14 DEF vars, table, thread
    <2>2. OldDepth(target)' = OldDepth(target) /\ (Splitting' => Splitting)
      BY <2>1 DEF OldDepth, Splitting
    <2>3. Splitting => NewSeg \in Segments /\ target \in Segments
      BY SplitFacts
    <2>4. \A k : Scanned(k)' = Scanned(k)
      BY <2>1 DEF Scanned, Places
    <2> QED BY <2>1, <2>2, <2>3, <2>4, FrameCount DEF IndexDepth
  <1> QED
    BY <1>1, <1>2, <1>3, <1>4, <1>5, <1>6, <1>7, <1>8, <1>9, <1>10, <1>11, <1>12, <1>13, <1>14
    DEF Next, Step, Insert, InsertOnly

\* Utilization() counts every acknowledged insertion exactly once, whatever has
\* been split and however often a key was inserted: the pairs a split leaves
\* behind are as many as it copies, and only the copies are counted.
THEOREM UtilizationCountsAll ==
  ASSUME NoWrap
  PROVE  Spec => []UtilizationExact
  <1>1. TypeInv /\ DirInv /\ CountInv => UtilizationExact
    <2> SUFFICES ASSUME TypeInv, DirInv, CountInv, pc = "idle", NEW k \in Keys
                 PROVE  Cardinality({p \in LiveSlots : slot[p[1]][p[2]].key = k}) = acked[k]
      BY DEF UtilizationExact
    <2> DEFINE s == dir[Prefix(k, IndexDepth)]
    <2>1. s \in Segments /\ s \in Reachable
      BY HomeType DEF Reachable, ArrayLength
    <2>2. Reachable \subseteq Segments
      BY DEF Reachable, TypeInv, TypeOK, ArrayLength
    <2>3. \A t \in Segments : Prefix(k, local_depth[t]) = pattern[t] <=> t = s
      BY KeyHome DEF Splitting
    <2>4. Cardinality(Places(k, s)) = acked[k]
      BY DEF CountInv
    <2> HIDE DEF s
    <2>5. {p \in LiveSlots : slot[p[1]][p[2]].key = k} = {s} \X Places(k, s)
      BY <2>1, <2>2, <2>3, ValueAssumption DEF LiveSlots, Places
    <2>6. IsFiniteSet({s}) /\ Cardinality({s}) = 1
      BY FS_Singleton
    <2>7. Cardinality({s} \X Places(k, s)) = Cardinality({s}) * Cardinality(Places(k, s))
      BY <2>6, PlacesFinite, FS_Product
    <2>8. acked[k] \in Nat
      BY DEF TypeInv, TypeOK
    <2>9. Cardinality({s} \X Places(k, s)) = acked[k]
      BY <2>4, <2>6, <2>7, <2>8
    <2> QED BY <2>5, <2>9
  <1>2. TypeInv /\ DirInv /\ DataInv /\ CountInv /\ [Next]_vars => CountInv'
    BY StepCount
  <1> QED BY <1>1, <1>2, InitCount, TypeInvHolds, DirectoryAgrees, DataStaysInPlace, PTL DEF Spec

-----------------------------------------------------------------------------
(* FindAnyway: the copies of a key all over the table. *)

\* The value of this slot has been stored, its key has not.
HalfStored(s, j) == pc = "publish" /\ s = target /\ j = at

\* No pair is anywhere in the table, dead or alive, whose insertion has not
\* returned; where every key comes once, all copies of its pair have its value.
CopiesInv ==
  /\ pc # "idle" => acked[op.key] < MaxCopies
  /\ \A s \in Segments, j \in Slots : slot[s][j].key \in Keys => acked[slot[s][j].key] > 0
  /\ MaxCopies = 1 =>
       \A s, t \in Segments, i, j \in Slots :
         /\ slot[s][i].key \in Keys /\ slot[s][i].key = slot[t][j].key
         /\ ~HalfStored(s, i) /\ ~HalfStored(t, j)
         => slot[s][i].value = slot[t][j].value

LEMMA InitCopies == Init => CopiesInv
  <1> SUFFICES ASSUME Init PROVE CopiesInv
    OBVIOUS
  <1>1. \A s \in Segments, j \in Slots : slot[s][j].key \notin Keys
    BY ValueAssumption DEF Init, EmptySlots, EmptyPair, Segments
  <1> QED BY <1>1 DEF CopiesInv, Init

\* Steps that leave the segments alone.
LEMMA FrameCopies ==
  ASSUME CopiesInv, UNCHANGED <<nseg, slot, acked>>,
         pc # "publish", pc' # "publish",
         pc' # "idle" => pc # "idle" /\ op' = op
  PROVE  CopiesInv'
  BY DEF CopiesInv, HalfStored, Segments

LEMMA StepCopies ==
  ASSUME NoWrap
  PROVE  TypeInv /\ DirInv /\ DataInv /\ CopiesInv /\ [Next]_vars => CopiesInv'
  <1> SUFFICES ASSUME TypeInv, DirInv, DataInv, CopiesInv, [Next]_vars PROVE CopiesInv'
    OBVIOUS
  <1>0. slot \in [Segments -> [Slots -> Pair]] /\ acked \in [Keys -> Nat]
    BY DEF TypeInv, TypeOK
  <1>1. ASSUME NEW k \in Keys, NEW v \in Values, NEW r \in BOOLEAN, Call(k, v, r)
        PROVE  CopiesInv'
    BY <1>1 DEF Call, table, CopiesInv, HalfStored, Segments
  <1>2. CASE StoreValue
    <2>1. PICK i \in Window :
            /\ at' = Probe(op.key, i)
            /\ slot' = [slot EXCEPT ![Target][Probe(op.key, i)].value = op.value]
      BY <1>2 DEF StoreValue
    <2> DEFINE p == Probe(op.key, i)
    <2>2. /\ pc = "probe" /\ pc' = "publish" /\ target' = Target
          /\ UNCHANGED <<nseg, op, acked>>
      BY <1>2 DEF StoreValue
    <2>3. Target \in Segments /\ p \in Slots
      BY <2>2, TargetType, OpType, ProbeType DEF TypeInv
    <2> HIDE DEF p
    <2>4. ASSUME NEW s \in Segments, NEW j \in Slots
          PROVE  /\ slot'[s][j].key = slot[s][j].key
                 /\ ~HalfStored(s, j)' => slot'[s][j].value = slot[s][j].value
      <3>1. slot' = [slot EXCEPT ![Target][p].value = op.value]
        BY <2>1 DEF p
      <3>2. slot[s][j] \in Pair
        BY <1>0
      <3>3. CASE s = Target /\ j = p
        BY <1>0, <2>1, <2>2, <2>3, <3>1, <3>2, <3>3 DEF HalfStored, p, Pair
      <3>4. CASE ~(s = Target /\ j = p)
        BY <1>0, <2>3, <3>1, <3>4
      <3> QED BY <3>3, <3>4
    <2>5. \A s, j : ~HalfStored(s, j)
      BY <2>2 DEF HalfStored
    <2>6. Segments' = Segments
      BY <2>2 DEF Segments
    <2> QED BY <2>2, <2>4, <2>5, <2>6 DEF CopiesInv
  <1>3. CASE StoreKey
    <2> DEFINE q == op.key
    <2>1. /\ pc = "publish" /\ pc' = "idle" /\ nseg' = nseg
          /\ slot' = [slot EXCEPT ![target][at].key = q]
          /\ acked' = [acked EXCEPT ![q] = @ + 1]
      BY <1>3 DEF StoreKey
    <2>2. target \in Segments /\ at \in Slots /\ q \in Keys /\ Segments' = Segments
      BY <2>1, OpType DEF TypeInv, TypeOK, Segments
    <2> HIDE DEF q
    <2>3. ASSUME NEW s \in Segments, NEW j \in Slots
          PROVE  /\ slot'[s][j].key = IF s = target /\ j = at THEN q ELSE slot[s][j].key
                 /\ slot'[s][j].value = slot[s][j].value
      <3>1. slot[s][j] \in Pair
        BY <1>0
      <3>2. CASE s = target /\ j = at
        BY <1>0, <2>1, <2>2, <3>1, <3>2 DEF Pair
      <3>3. CASE ~(s = target /\ j = at)
        BY <1>0, <2>1, <2>2, <3>3
      <3> QED BY <3>2, <3>3
    <2>4. \A k \in Keys : acked'[k] >= acked[k] /\ acked'[q] > 0
      BY <1>0, <2>1, <2>2
    <2>5. \A s \in Segments, j \in Slots : slot'[s][j].key \in Keys => acked'[slot'[s][j].key] > 0
      <3>1. SUFFICES ASSUME NEW s \in Segments, NEW j \in Slots, slot'[s][j].key \in Keys
                     PROVE  acked'[slot'[s][j].key] > 0
        OBVIOUS
      <3>2. CASE slot'[s][j].key = q
        BY <2>2, <2>4, <3>2
      <3>3. CASE slot'[s][j].key # q
        <4>1. slot'[s][j].key = slot[s][j].key
          BY <2>3, <3>3
        <4>2. acked[slot[s][j].key] > 0
          BY <3>1, <4>1 DEF CopiesInv
        <4> QED BY <1>0, <2>1, <2>4, <3>1, <4>1, <4>2
      <3> QED BY <3>2, <3>3
    <2>6. ASSUME MaxCopies = 1, NEW s \in Segments, NEW j \in Slots
          PROVE  slot[s][j].key # q
      <3>1. acked[q] < 1
        BY <2>1, <2>6 DEF CopiesInv, q
      <3>2. ~(acked[q] > 0)
        BY <1>0, <2>2, <3>1
      <3> QED BY <2>2, <3>2 DEF CopiesInv
    <2>7. ASSUME MaxCopies = 1, NEW s \in Segments, NEW t \in Segments, NEW i \in Slots, NEW j \in Slots,
                 slot'[s][i].key \in Keys, slot'[s][i].key = slot'[t][j].key
          PROVE  slot'[s][i].value = slot'[t][j].value
      <3>1. CASE s = target /\ i = at
        BY <2>3, <2>6, <2>7, <3>1
      <3>2. CASE t = target /\ j = at
        BY <2>3, <2>6, <2>7, <3>2
      <3>3. CASE ~(s = target /\ i = at) /\ ~(t = target /\ j = at)
        BY <2>3, <2>7, <3>3 DEF CopiesInv, HalfStored
      <3> QED BY <3>1, <3>2, <3>3
    <2> QED BY <2>1, <2>2, <2>5, <2>7 DEF CopiesInv
  <1>4. CASE AllocateSibling
    <2>1. /\ pc = "probe" /\ pc' = "copy" /\ nseg' = nseg + 1
          /\ slot' = Extend(slot, EmptySlots)
          /\ UNCHANGED <<op, acked>> /\ nseg \in Nat
      BY <1>4 DEF AllocateSibling, WindowFull, TypeInv, TypeOK
    <2>2. /\ \A s \in Segments : slot'[s] = slot[s]
          /\ \A s \in Segments' : s \in Segments \/ \A j \in Slots : slot'[s][j].key \notin Keys
      BY <2>1, ValueAssumption DEF Extend, EmptySlots, EmptyPair, Segments
    <2> QED BY <2>1, <2>2 DEF CopiesInv, HalfStored
  <1>5. CASE CopyPair
    <2> DEFINE pair == slot[target][at]
    <2>1. /\ pc = "copy" /\ pc' = "copy" /\ Segments' = Segments
          /\ UNCHANGED <<op, acked>> /\ \A s, j : ~HalfStored(s, j)
      BY <1>5 DEF CopyPair, Segments, HalfStored
    <2>2. target \in Segments /\ NewSeg \in Segments /\ at \in Slots
      BY <1>5, <2>1, SplitFacts, SlotCount DEF CopyPair, Splitting, Slots, TypeInv, TypeOK
    <2>3. ASSUME NEW s \in Segments, NEW j \in Slots, slot'[s][j].key \in Keys
          PROVE  \E t \in Segments, i \in Slots : slot'[s][j] = slot[t][i]
      <3>1. CASE Skips(pair)
        BY <2>3, <3>1, ValueAssumption DEF Skips
      <3>2. ASSUME NEW i \in Window, Moves(pair, i)
            PROVE  slot'[s][j] \in {slot[s][j], slot[target][at]}
        <4>1. /\ Probe(pair.key, i) \in Slots
              /\ slot' = [slot EXCEPT ![NewSeg][Probe(pair.key, i)] = slot[target][at]]
          BY <3>2 DEF Moves
        <4> HIDE DEF pair
        <4> QED BY <1>0, <2>2, <4>1
      <3> QED BY <1>5, <2>2, <3>1, <3>2, CopyStep DEF DataInv, NoWrap, Straight
    <2>4. \A s \in Segments, j \in Slots : slot'[s][j].key \in Keys => acked'[slot'[s][j].key] > 0
      BY <2>1, <2>3 DEF CopiesInv
    <2>5. ASSUME MaxCopies = 1, NEW s \in Segments, NEW t \in Segments, NEW i \in Slots, NEW j \in Slots,
                 slot'[s][i].key \in Keys, slot'[s][i].key = slot'[t][j].key
          PROVE  slot'[s][i].value = slot'[t][j].value
      <3>1. PICK s1 \in Segments, i1 \in Slots : slot'[s][i] = slot[s1][i1]
        BY <2>3, <2>5
      <3>2. PICK t1 \in Segments, j1 \in Slots : slot'[t][j] = slot[t1][j1]
        BY <2>3, <2>5
      <3> QED BY <2>1, <2>5, <3>1, <3>2 DEF CopiesInv
    <2> QED BY <2>1, <2>4, <2>5 DEF CopiesInv
  <1>6. CASE ReturnFalse
    BY <1>6, FrameCopies DEF ReturnFalse, WindowFull, table
  <1>7. CASE Deepen \/ SetPatterns \/ PointSibling \/ PointChunk
    BY <1>7, FrameCopies DEF Deepen, SetPatterns, PointSibling, PointChunk, Retry
  <1>8. CASE SwapDirectory \/ DoubleCapacity \/ DeepenGlobal
    BY <1>8, FrameCopies DEF SwapDirectory, DoubleCapacity, DeepenGlobal
  <1>9. CASE UNCHANGED vars
    BY <1>9 DEF vars, table, thread, CopiesInv, HalfStored, Segments
  <1> QED
    BY <1>1, <1>2, <1>3, <1>4, <1>5, <1>6, <1>7, <1>8, <1>9
    DEF Next, Step, Insert, InsertOnly

\* A set of pairs of numbers has a first one.
LEMMA FirstPairExists ==
  ASSUME NEW S \in SUBSET (Nat \X Nat), S # {}
  PROVE  \E p \in S : \A q \in S : p[1] < q[1] \/ (p[1] = q[1] /\ p[2] <= q[2])
  <1>1. PICK a \in {p[1] : p \in S} : \A b \in {p[1] : p \in S} : a <= b
    <2>1. {p[1] : p \in S} \in SUBSET Nat /\ {p[1] : p \in S} # {}
      OBVIOUS
    <2> QED BY <2>1, LeastExists
  <1>2. PICK c \in {p[2] : p \in {q \in S : q[1] = a}} :
          \A d \in {p[2] : p \in {q \in S : q[1] = a}} : c <= d
    <2>1. /\ {p[2] : p \in {q \in S : q[1] = a}} \in SUBSET Nat
          /\ {p[2] : p \in {q \in S : q[1] = a}} # {}
      BY <1>1
    <2> QED BY <2>1, LeastExists
  <1>3. PICK p \in S : p[1] = a /\ p[2] = c
    BY <1>2
  <1>4. ASSUME NEW q \in S
        PROVE  p[1] < q[1] \/ (p[1] = q[1] /\ p[2] <= q[2])
    <2>1. a <= q[1] /\ a \in Nat /\ q[1] \in Nat
      BY <1>1
    <2>2. q[1] = a => c <= q[2]
      BY <1>2
    <2> QED BY <1>3, <2>1, <2>2
  <1> QED BY <1>4

\* The scan of everything returns the value of some slot that holds the key, if
\* there is one.
LEMMA FindAnywayFinds ==
  ASSUME TypeInv, pc = "idle", NEW k \in Keys
  PROVE  \/ /\ FindAnyway(k) = NONE
            /\ \A i \in 0..(capacity - 1), j \in Slots : slot[dir[i]][j].key # k
         \/ \E i \in 0..(capacity - 1), j \in Slots :
              slot[dir[i]][j].key = k /\ FindAnyway(k) = slot[dir[i]][j].value
  <1> DEFINE Hits == {p \in (0..(capacity - 1)) \X Slots : slot[dir[p[1]]][p[2]].key = k}
             Before(p, q) == p[1] < q[1] \/ (p[1] = q[1] /\ p[2] <= q[2])
             first == CHOOSE p \in Hits : \A q \in Hits : Before(p, q)
  <1>1. FindAnyway(k) = IF Hits = {} THEN NONE ELSE slot[dir[first[1]]][first[2]].value
    BY ZenonT(60) DEF FindAnyway
  <1>2. CASE Hits = {}
    <2>1. ASSUME NEW i \in 0..(capacity - 1), NEW j \in Slots
          PROVE  slot[dir[i]][j].key # k
      <3>1. <<i, j>> \notin Hits
        BY <1>2
      <3> QED BY <3>1
    <2> QED BY <1>1, <1>2, <2>1
  <1>3. CASE Hits # {}
    <2>1. Hits \in SUBSET (Nat \X Nat)
      BY SlotCount DEF Slots
    <2>2. \E p \in Hits : \A q \in Hits : Before(p, q)
      BY <1>3, <2>1, FirstPairExists, Zenon
    <2>3. first \in Hits
      BY <2>2, Zenon
    <2> HIDE DEF first
    <2>4. /\ first[1] \in 0..(capacity - 1) /\ first[2] \in Slots
          /\ slot[dir[first[1]]][first[2]].key = k
      BY <2>3
    <2> HIDE DEF Hits
    <2> QED BY <1>1, <1>3, <2>4
  <1> QED BY <1>2, <1>3

\* The debugging scan agrees with Get between calls: whatever splits leave behind,
\* a pair that the scan finds has a copy where Get looks for it, and where every
\* key is inserted once, one with the same value.
THEOREM FindAnywayAgreesWithGet ==
  ASSUME NoWrap
  PROVE  Spec => []FindAnywayAgrees
  <1>1. TypeInv /\ DataInv /\ CopiesInv => FindAnywayAgrees
    <2> SUFFICES ASSUME TypeInv, DataInv, CopiesInv, pc = "idle", NEW k \in Keys
                 PROVE  /\ MaxCopies = 1 => FindAnyway(k) = Get(k)
                        /\ (FindAnyway(k) = NONE) <=> (Get(k) = NONE)
      BY DEF FindAnywayAgrees
    <2> DEFINE n == Prefix(k, IndexDepth)
               s == dir[n]
    <2>1. /\ n \in 0..(capacity - 1) /\ s \in Segments
          /\ Get(k) = Search(slot[s], k) /\ Get(k) = Lookup(k, IndexDepth)
          /\ dir \in [0..(capacity - 1) -> Segments]
          /\ slot \in [Segments -> [Slots -> Pair]]
      BY HomeType DEF ArrayLength, IndexDepth, Get, Lookup, TypeInv, TypeOK
    <2>2. CASE /\ FindAnyway(k) = NONE
               /\ \A i \in 0..(capacity - 1), j \in Slots : slot[dir[i]][j].key # k
      <3>1. \A i \in Window : slot[s][Probe(k, i)].key # k
        BY <2>1, <2>2, ProbeType
      <3>2. Search(slot[s], k) = NONE
        BY <3>1, SearchNone
      <3> QED BY <2>1, <2>2, <3>2
    <2>3. ASSUME NEW i \in 0..(capacity - 1), NEW j \in Slots,
                 slot[dir[i]][j].key = k, FindAnyway(k) = slot[dir[i]][j].value
          PROVE  /\ MaxCopies = 1 => FindAnyway(k) = Get(k)
                 /\ (FindAnyway(k) = NONE) <=> (Get(k) = NONE)
      <3>1. dir[i] \in Segments
        BY <2>1
      <3>2. FindAnyway(k) # NONE
        <4>1. slot[dir[i]][j] \in Pair
          BY <2>1, <3>1
        <4> QED BY <2>3, <4>1, ValueAssumption DEF Pair
      <3>3. Stored(k, s)
        BY <2>3, <3>1 DEF CopiesInv, DataInv, Kept
      <3>4. Get(k) # NONE
        BY <2>1, <3>3, LookupFinds DEF TypeInv
      <3>5. ASSUME MaxCopies = 1
            PROVE  FindAnyway(k) = Get(k)
        <4> DEFINE f == slot[s]
        <4>1. \E m \in Window : f[Probe(k, m)].key = k
          BY <3>3 DEF Stored
        <4> HIDE DEF f
        <4>2. PICK m \in Window : /\ f[Probe(k, m)].key = k
                                  /\ \A l \in 0..(m - 1) : f[Probe(k, l)].key # k
                                  /\ 0..(m - 1) \subseteq Window
          BY <4>1, FirstThere, Zenon
        <4>3. Search(f, k) = f[Probe(k, m)].value
          BY <4>2, SearchFirst, Zenon
        <4> DEFINE p == Probe(k, m)
        <4>4. p \in Slots
          BY ProbeType
        <4>5. Get(k) = slot[s][p].value /\ slot[s][p].key = k
          BY <2>1, <4>2, <4>3 DEF f
        <4> HIDE DEF p
        <4>6. slot[s][p].value = slot[dir[i]][j].value
          BY <2>1, <2>3, <3>1, <3>5, <4>4, <4>5 DEF CopiesInv, HalfStored
        <4> QED BY <2>3, <4>5, <4>6
      <3> QED BY <3>2, <3>4, <3>5
    <2> QED BY <2>2, <2>3, FindAnywayFinds
  <1>2. TypeInv /\ DirInv /\ DataInv /\ CopiesInv /\ [Next]_vars => CopiesInv'
    BY StepCopies
  <1> QED BY <1>1, <1>2, InitCopies, TypeInvHolds, DirectoryAgrees, DataStaysInPlace, PTL DEF Spec

=============================================================================
