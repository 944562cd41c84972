-------------------------- MODULE CCEHCrash_proofs --------------------------
(***************************************************************************)
(* What a crash and CCEH::Recovery do to the table, for every hash         *)
(* function and every geometry: until the crash the table is the one of    *)
(* CCEH, so that its invariants say what Recovery finds.                   *)
(***************************************************************************)
EXTENDS CCEHCrash, CCEH_lookup

\* CCEH(n) for an n that is no power of two allocates segments that no prefix
\* leads to.  Recovery walks over them all the same: each keeps its depth and
\* its share of the array.
Spare == Pow2[InitDepth]..(InitCap - 1)

SpareInv ==
  /\ IndexDepth >= InitDepth
  /\ nseg >= InitCap /\ (Splitting => nseg > InitCap)
  /\ ArrayLength = Pow2[IndexDepth - InitDepth] * InitCap
  /\ \A s \in Spare : local_depth[s] = InitDepth /\ pattern[s] = s
  /\ \A i \in Pow2[IndexDepth]..(ArrayLength - 1) : dir[i] = Shr(i, IndexDepth - InitDepth)

\* Entries with the leading bits that one segment's depth counts have equal depths,
\* whether or not a split has got round to giving some of them to the new segment.
Grouped ==
  \A i, j \in DOMAIN dir :
    LET n == global_depth - local_depth[dir[i]]
    IN  n >= 0 /\ Shr(i, n) = Shr(j, n) => local_depth[dir[j]] = local_depth[dir[i]]

Early == {"idle", "probe", "publish", "copy"}

\* What Recovery walks over: the table as the crash left it, from the first entry
\* of one group to that of the next.
Walk ==
  /\ crashed \in PCs
  /\ global_depth \in 1..HashBits /\ capacity \in Nat
  /\ dir \in [DOMAIN dir -> Nat] /\ DOMAIN dir \subseteq Nat /\ 0..(capacity - 1) \subseteq DOMAIN dir
  /\ \A i \in DOMAIN dir : local_depth[dir[i]] \in 1..HashBits
  /\ Grouped
  /\ at \in 0..(capacity - 1)
  /\ DepthCur <= global_depth => at % Pow2[global_depth - DepthCur] = 0
  /\ crashed \in Early => \A i \in DOMAIN dir : local_depth[dir[i]] <= global_depth

CrashInv ==
  /\ crashed = "no" => TypeInv /\ DirInv /\ SpareInv
  /\ pc = "recovery" => Walk
  /\ RecoveryFailsOnlyInDeepening

-----------------------------------------------------------------------------
(* The spare segments. *)

LEMMA InitFacts ==
  /\ HashBits \in Nat /\ InitDepth \in 0..HashBits /\ InitCap \in Nat
  /\ Pow2[InitDepth] \in Nat \ {0} /\ Pow2[InitDepth] <= InitCap
  BY InitAssumption, HashAssumption, PowPositive

LEMMA InitSpareInv == Init => SpareInv
  <1> SUFFICES ASSUME Init PROVE SpareInv
    OBVIOUS
  <1>1. IndexDepth = InitDepth /\ ArrayLength = InitCap /\ ~Splitting /\ nseg = InitCap
    BY DEF Init, IndexDepth, ArrayLength, Splitting
  <1>2. InitDepth - InitDepth = 0 /\ Pow2[0] = 1 /\ Spare \subseteq 0..(InitCap - 1)
    BY InitFacts, Pow2Assumption DEF Spare
  <1>3. ASSUME NEW i \in Pow2[InitDepth]..(InitCap - 1)
        PROVE  dir[i] = Shr(i, 0)
    <2>1. i \in Nat /\ i \in 0..(InitCap - 1)
      BY InitFacts
    <2> QED BY <2>1, ShrZero DEF Init
  <1>4. InitCap = Pow2[0] * InitCap
    BY <1>2, InitFacts
  <1>5. \A s \in Spare : local_depth[s] = InitDepth /\ pattern[s] = s
    BY <1>2 DEF Init
  <1> QED BY <1>1, <1>2, <1>3, <1>4, <1>5, InitFacts DEF SpareInv

\* No prefix leads to a spare segment, so none is ever split.
LEMMA TargetNotSpare ==
  ASSUME TypeInv, DirInv, SpareInv, Splitting
  PROVE  target \notin Spare /\ NewSeg \notin Spare
  <1>1. /\ target \in Segments /\ op.key \in Keys
        /\ OldDepth(target) \in 0..global_depth /\ global_depth \in 1..HashBits
        /\ Prefix(op.key, OldDepth(target)) = OldPattern(target)
    BY SplitFacts
  <1>2. NewSeg \notin Spare
    BY InitFacts DEF SpareInv, NewSeg, Spare, TypeInv, TypeOK
  <1>3. ASSUME target \in Spare PROVE FALSE
    <2>1. /\ local_depth[target] = InitDepth /\ pattern[target] = target
          /\ target \in Nat /\ target >= Pow2[InitDepth]
      BY <1>3, InitFacts DEF SpareInv, Spare
    <2>2. OldDepth(target) \in 0..HashBits
      BY <1>1, InitFacts
    <2>3. OldPattern(target) < Pow2[OldDepth(target)] /\ OldPattern(target) \in Nat
      BY <1>1, <2>2, PrefixRange, PowPositive
    <2>4. CASE pc = "copy"
      <3>1. OldDepth(target) = InitDepth /\ OldPattern(target) = target
        BY <2>1, <2>4 DEF OldDepth, OldPattern
      <3>2. target < Pow2[InitDepth]
        BY <2>3, <3>1
      <3> QED BY <2>1, <3>2, InitFacts
    <2>5. CASE pc \in {"pattern", "directory"}
      <3>1. OldDepth(target) = InitDepth - 1
        BY <2>1, <2>5 DEF OldDepth
      <3>2. Pow2[InitDepth] = 2 * Pow2[OldDepth(target)]
        BY <2>2, <3>1, InitFacts, PowNext
      <3>3. target = OldPattern(target) \/ target = 2 * OldPattern(target)
        BY <2>1, <2>5 DEF OldPattern, DirInv
      <3>4. Pow2[OldDepth(target)] \in Nat
        BY <2>2, PowPositive
      <3> QED BY <2>1, <2>3, <3>2, <3>3, <3>4
    <2> QED BY <2>4, <2>5 DEF Splitting
  <1> QED BY <1>2, <1>3

\* A step that leaves the array, the spare segments and the lengths alone.
LEMMA FrameSpare ==
  ASSUME SpareInv, UNCHANGED dir, IndexDepth' = IndexDepth, ArrayLength' = ArrayLength,
         nseg \in Nat, nseg' >= nseg, nseg' \in Nat,
         Splitting' => Splitting \/ nseg' > nseg,
         \A s \in Spare : local_depth'[s] = local_depth[s] /\ pattern'[s] = pattern[s]
  PROVE  SpareInv'
  BY InitFacts DEF SpareInv, Spare

\* A step that changes one entry some prefix leads to.
LEMMA EntrySpare ==
  ASSUME SpareInv, UNCHANGED <<capacity, global_depth, nseg, local_depth, pattern>>,
         pc = "directory", pc' \in {"probe", "directory"},
         NEW j \in 0..(Pow2[global_depth] - 1), NEW v, dir' = [dir EXCEPT ![j] = v],
         TypeInv
  PROVE  SpareInv'
  <1>1. IndexDepth' = IndexDepth /\ IndexDepth = global_depth /\ ArrayLength' = ArrayLength
    BY DEF IndexDepth, ArrayLength
  <1>2. Pow2[global_depth] \in Nat
    BY PowPositive, HashAssumption DEF TypeInv, TypeOK
  <1>3. ASSUME NEW i \in Pow2[IndexDepth]..(ArrayLength - 1)
        PROVE  dir'[i] = dir[i]
    <2>1. i # j /\ i \in 0..(ArrayLength - 1)
      BY <1>1, <1>2
    <2> QED BY <2>1 DEF TypeInv, TypeOK
  <1> QED BY <1>1, <1>3 DEF SpareInv, Splitting

LEMMA DoublingSpare ==
  ASSUME TypeInv, DirInv, SpareInv, SwapDirectory
  PROVE  SpareInv'
  <1>1. /\ pc = "directory" /\ pc' = "capacity"
        /\ UNCHANGED <<capacity, global_depth, nseg, local_depth, pattern>>
        /\ dir' = [j \in 0..(2 * capacity - 1) |->
                     IF j \div 2 # X THEN dir[j \div 2]
                     ELSE IF j % 2 = 0 THEN target ELSE NewSeg]
    BY DEF SwapDirectory, DoubledLength
  <1> DEFINE n == global_depth - InitDepth
  <1>2. /\ IndexDepth = global_depth /\ IndexDepth' = global_depth + 1
        /\ ArrayLength = capacity /\ ArrayLength' = 2 * capacity /\ ~Splitting'
    BY <1>1 DEF IndexDepth, ArrayLength, Splitting
  <1>3. /\ global_depth \in 1..HashBits /\ capacity \in Nat /\ op.key \in Keys
        /\ local_depth[target] > global_depth /\ target \in Segments
    BY <1>1, SplitFacts DEF Splitting, TypeInv, TypeOK, SwapDirectory
  <1>4. global_depth + 1 <= HashBits
    BY <1>3, InitFacts DEF TypeInv, TypeOK
  <1>5. n \in 0..HashBits /\ n + 1 \in 0..HashBits /\ (global_depth + 1) - InitDepth = n + 1
    BY <1>2, <1>3, <1>4, InitFacts DEF SpareInv
  <1>6. /\ Pow2[n + 1] = 2 * Pow2[n] /\ Pow2[n] \in Nat
        /\ Pow2[global_depth + 1] = 2 * Pow2[global_depth] /\ Pow2[global_depth] \in Nat
    BY <1>3, <1>4, <1>5, InitFacts, PowPositive, PowNext
  <1>7. 2 * capacity = Pow2[n + 1] * InitCap
    <2>1. capacity = Pow2[n] * InitCap
      BY <1>2 DEF SpareInv
    <2> QED BY <1>6, <2>1, InitFacts
  <1>8. ASSUME NEW j \in Pow2[global_depth + 1]..(2 * capacity - 1)
        PROVE  dir'[j] = Shr(j, n + 1)
    <2>1. j \in Nat /\ j \div 2 \in Pow2[global_depth]..(capacity - 1)
      BY <1>3, <1>6
    <2>2. X \in 0..(Pow2[global_depth] - 1)
      BY <1>3, InitFacts, PrefixRange DEF X
    <2>3. dir'[j] = dir[j \div 2]
      BY <1>1, <1>3, <1>6, <2>1, <2>2
    <2>4. dir[j \div 2] = Shr(j \div 2, n)
      BY <1>2, <2>1 DEF SpareInv
    <2>5. Shr(j \div 2, n) = Shr(j, n + 1)
      <3>1. 1 + n = n + 1 /\ 1 \in 0..HashBits /\ 1 + n <= HashBits
        BY <1>5, InitFacts
      <3> QED BY <1>5, <2>1, <3>1, ShrOne, ShrShr
    <2> QED BY <2>3, <2>4, <2>5
  <1> HIDE DEF n
  <1>9. IndexDepth' - InitDepth = n + 1 /\ IndexDepth' >= InitDepth
    BY <1>2, <1>3, <1>5, InitFacts DEF SpareInv
  <1> QED BY <1>1, <1>2, <1>7, <1>8, <1>9 DEF SpareInv

LEMMA StepSpareInv == TypeInv /\ TypeInv' /\ DirInv /\ SpareInv /\ [Next]_vars => SpareInv'
  <1> SUFFICES ASSUME TypeInv, TypeInv', DirInv, SpareInv, [Next]_vars PROVE SpareInv'
    OBVIOUS
  <1>0. nseg \in Nat /\ nseg' \in Nat
    BY DEF TypeInv, TypeOK
  <1>1. ASSUME UNCHANGED <<dir, capacity, global_depth, nseg>>,
               \/ ~Splitting' /\ IndexDepth' = IndexDepth /\ ArrayLength' = ArrayLength
               \/ Splitting /\ Splitting',
               \A s \in Spare : local_depth'[s] = local_depth[s] /\ pattern'[s] = pattern[s]
        PROVE  SpareInv'
    <2>1. IndexDepth' = IndexDepth /\ ArrayLength' = ArrayLength
      BY <1>1 DEF Splitting, IndexDepth, ArrayLength
    <2> QED BY <1>0, <1>1, <2>1, FrameSpare
  <1>2. ASSUME NEW k \in Keys, NEW v \in Values, NEW r \in BOOLEAN, Call(k, v, r)
        PROVE  SpareInv'
    BY <1>1, <1>2 DEF Call, table, Splitting, IndexDepth, ArrayLength
  <1>3. CASE StoreValue \/ StoreKey \/ ReturnFalse
    BY <1>1, <1>3 DEF StoreValue, StoreKey, ReturnFalse, WindowFull, table,
                      Splitting, IndexDepth, ArrayLength
  <1>4. CASE AllocateSibling
    <2>1. /\ pc = "probe" /\ pc' = "copy" /\ nseg' = nseg + 1
          /\ UNCHANGED <<dir, capacity, global_depth>>
          /\ local_depth' = Extend(local_depth, local_depth[Target] + 1)
          /\ pattern' = Extend(pattern, 0)
      BY <1>4 DEF AllocateSibling, WindowFull
    <2>2. Spare \subseteq 0..(nseg - 1)
      BY <1>0, InitFacts DEF Spare, SpareInv
    <2>3. \A s \in Spare : local_depth'[s] = local_depth[s] /\ pattern'[s] = pattern[s]
      BY <1>0, <2>1, <2>2 DEF Extend
    <2>4. IndexDepth' = IndexDepth /\ ArrayLength' = ArrayLength
      BY <2>1 DEF IndexDepth, ArrayLength
    <2> QED BY <1>0, <2>1, <2>3, <2>4, FrameSpare
  <1>5. CASE CopyPair
    BY <1>1, <1>5 DEF CopyPair, Splitting
  <1>6. CASE Deepen
    <2>1. /\ Splitting /\ Splitting'
          /\ local_depth' = [local_depth EXCEPT ![target] = @ + 1]
          /\ UNCHANGED <<dir, capacity, global_depth, nseg, pattern>>
      BY <1>6 DEF Deepen, Splitting
    <2>2. \A s \in Spare : s \in Segments /\ s # target
      BY <1>0, <2>1, TargetNotSpare, InitFacts DEF Spare, SpareInv, Segments
    <2>3. \A s \in Spare : local_depth'[s] = local_depth[s]
      BY <2>1, <2>2 DEF TypeInv, TypeOK
    <2> QED BY <1>1, <2>1, <2>3
  <1>7. CASE SetPatterns
    <2>1. /\ Splitting /\ Splitting'
          /\ UNCHANGED <<dir, capacity, global_depth, nseg, local_depth>>
      BY <1>7 DEF SetPatterns, Splitting
    <2>2. \A s \in Spare : s \in Segments /\ s # target /\ s # NewSeg
      BY <1>0, <2>1, TargetNotSpare, InitFacts DEF Spare, SpareInv, Segments
    <2>3. \A s \in Spare : pattern'[s] = pattern[s]
      BY <1>7, <2>2 DEF SetPatterns, TypeInv, TypeOK
    <2> QED BY <1>1, <2>1, <2>3
  <1>8. ASSUME PointSibling \/ PointChunk
        PROVE  SpareInv'
    <2>1. /\ pc = "directory" /\ pc' \in {"probe", "directory"}
          /\ local_depth[target] <= global_depth
          /\ dir' = [dir EXCEPT ![UpperHalf + at] = NewSeg]
          /\ UNCHANGED <<capacity, global_depth, nseg, local_depth, pattern>>
      BY <1>8, SiblingIsUpperHalf, SMTT(30) DEF PointSibling, PointChunk, Retry, TypeInv, TypeOK
    <2>2. /\ UpperHalf \in Nat /\ ChunkSize \div 2 \in Nat
          /\ UpperHalf + (ChunkSize \div 2) <= Pow2[global_depth]
      BY <2>1, ChunkFacts
    <2>3. at \in Nat /\ at < ChunkSize \div 2
      BY <2>1 DEF DirInv, TypeInv, TypeOK
    <2>4. UpperHalf + at \in 0..(Pow2[global_depth] - 1)
      <3>1. Pow2[global_depth] \in Nat
        <4>1. global_depth \in 0..HashBits
          BY DEF TypeInv, TypeOK
        <4> QED BY <4>1, PowPositive
      <3> DEFINE u == UpperHalf
                 c == ChunkSize \div 2
                 p == Pow2[global_depth]
      <3>2. u \in Nat /\ c \in Nat /\ p \in Nat /\ u + c <= p /\ at \in Nat /\ at < c
        BY <2>2, <2>3, <3>1
      <3> HIDE DEF u, c, p
      <3>3. u + at \in 0..(p - 1)
        BY <3>2
      <3> QED BY <3>3 DEF u, p
    <2> QED BY <2>1, <2>4, EntrySpare
  <1>9. CASE SwapDirectory
    BY <1>9, DoublingSpare
  <1>10. CASE DoubleCapacity \/ DeepenGlobal
    <2>1. /\ ~Splitting' /\ UNCHANGED <<dir, nseg, local_depth, pattern>>
          /\ IndexDepth' = IndexDepth /\ ArrayLength' = ArrayLength
      BY <1>10 DEF DoubleCapacity, DeepenGlobal, Splitting, IndexDepth, ArrayLength
    <2> QED BY <1>0, <2>1, FrameSpare
  <1>11. CASE UNCHANGED vars
    <2>1. UNCHANGED <<dir, capacity, global_depth, nseg, local_depth, pattern, pc>>
      BY <1>11 DEF vars, table, thread
    <2> QED BY <1>1, <2>1 DEF Splitting, IndexDepth, ArrayLength
  <1> QED
    BY <1>2, <1>3, <1>4, <1>5, <1>6, <1>7, <1>8, <1>9, <1>10, <1>11
    DEF Next, Step, Insert, InsertOnly

-----------------------------------------------------------------------------
(* What the crash leaves. *)

LEMMA ShrBelow ==
  ASSUME NEW i \in Nat, NEW d \in 0..HashBits, NEW m \in 0..d
  PROVE  /\ Shr(i, m) \in Nat /\ Pow2[d - m] \in Nat
         /\ i < Pow2[d] <=> Shr(i, m) < Pow2[d - m]
  <1>1. m \in 0..HashBits /\ d - m \in 0..HashBits /\ m + (d - m) = d /\ d <= HashBits
    BY InitFacts
  <1>2. Pow2[d] = Pow2[m] * Pow2[d - m] /\ Pow2[m] \in Nat \ {0} /\ Pow2[d - m] \in Nat \ {0}
    BY <1>1, PowSum, PowPositive
  <1> DEFINE b == Pow2[m]
             c == Pow2[d - m]
             q == i \div b
  <1>3. q \in Nat /\ q * b <= i /\ i < q * b + b
    BY <1>2, DivRange
  <1>4. b \in Nat \ {0} /\ c \in Nat \ {0} /\ Pow2[d] = b * c /\ Shr(i, m) = q
    BY <1>2 DEF Shr
  <1> HIDE DEF b, c, q
  <1>5. q < c => q * b + b <= b * c
    <2> SUFFICES ASSUME q < c PROVE (q + 1) * b <= c * b
      BY <1>3, <1>4
    <2> QED BY <1>3, <1>4
  <1>6. q >= c => b * c <= q * b
    BY <1>3, <1>4
  <1>7. b * c \in Nat /\ q * b \in Nat
    BY <1>3, <1>4
  <1>8. CASE q < c
    BY <1>3, <1>4, <1>5, <1>7, <1>8 DEF c
  <1>9. CASE q >= c
    BY <1>3, <1>4, <1>6, <1>7, <1>9 DEF c
  <1> QED BY <1>3, <1>4, <1>8, <1>9 DEF c

LEMMA MovedLow ==
  ASSUME TypeInv, DirInv, NEW i \in Nat, Moved(i)
  PROVE  i \in 0..(Pow2[global_depth] - 1) /\ Splitting /\ IndexDepth = global_depth
  <1>1. pc = "directory" /\ Splitting /\ IndexDepth = global_depth
    BY DEF Moved, Splitting, IndexDepth
  <1>2. /\ global_depth \in 1..HashBits /\ op.key \in Keys /\ at \in Nat
        /\ local_depth[target] \in 1..HashBits /\ OldDepth(target) <= global_depth
    BY <1>1, SplitFacts DEF TypeInv, TypeOK
  <1>3. Pow2[global_depth] \in Nat /\ X \in Nat
    BY <1>2, InitFacts, PowPositive, PrefixRange DEF X
  <1>4. CASE local_depth[target] <= global_depth
    <2>1. /\ UpperHalf \in Nat /\ ChunkSize \div 2 \in Nat
          /\ UpperHalf + (ChunkSize \div 2) <= Pow2[global_depth]
      BY <1>1, <1>4, ChunkFacts
    <2>2. at < ChunkSize \div 2
      BY <1>1, <1>4 DEF DirInv
    <2> QED BY <1>1, <1>2, <1>3, <2>1, <2>2 DEF Moved
  <1>5. CASE local_depth[target] > global_depth
    <2>1. at = 0 /\ local_depth[target] = global_depth + 1
      BY <1>1, <1>2, <1>5 DEF DirInv, OldDepth
    <2>2. global_depth - (local_depth[target] - 1) = 0
      BY <1>2, <2>1
    <2>3. ChunkSize = 1
      BY <2>2, Pow2Assumption DEF ChunkSize
    <2>4. UpperHalf \in Int
      BY <1>3, <2>3 DEF UpperHalf, ChunkStart
    <2> QED BY <2>1, <2>4 DEF Moved
  <1> QED BY <1>1, <1>2, <1>4, <1>5

\* Every entry belongs to the segment that had it before the split in progress
\* began to hand it over; a spare one is neither handed over nor reached.
LEMMA OwnerFacts ==
  ASSUME TypeInv, DirInv, SpareInv, NEW i \in DOMAIN dir
  PROVE  /\ i \in Nat /\ Owner(i) \in Established
         /\ i < Pow2[IndexDepth] =>
              Shr(i, IndexDepth - OldDepth(Owner(i))) = OldPattern(Owner(i))
         /\ i >= Pow2[IndexDepth] =>
              /\ OldDepth(Owner(i)) = InitDepth
              /\ Owner(i) = dir[i] /\ dir[i] = Shr(i, IndexDepth - InitDepth)
  <1>1. /\ i \in Nat /\ i \in 0..(ArrayLength - 1) /\ dir[i] \in Segments
        /\ IndexDepth \in 1..HashBits
    BY InitFacts DEF TypeInv, TypeOK, ArrayLength, IndexDepth
  <1>2. Pow2[IndexDepth] \in Nat
    BY <1>1, PowPositive
  <1>3. CASE i < Pow2[IndexDepth]
    <2>1. i \in 0..(Pow2[IndexDepth] - 1)
      BY <1>1, <1>2, <1>3
    <2>2. Owner(i) \in Established
      <3>1. CASE Moved(i)
        BY <1>1, <3>1, MovedLow DEF Owner, DirInv
      <3>2. CASE ~Moved(i)
        BY <1>1, <2>1, <3>2 DEF Owner, DirInv, Established
      <3> QED BY <3>1, <3>2
    <2> QED BY <1>1, <1>2, <1>3, <2>1, <2>2 DEF DirInv
  <1>4. CASE i >= Pow2[IndexDepth]
    <2>1. dir[i] = Shr(i, IndexDepth - InitDepth)
      BY <1>1, <1>2, <1>4 DEF SpareInv
    <2>2. ~Moved(i)
      BY <1>1, <1>2, <1>4, MovedLow
    <2>3. dir[i] \in Spare
      <3> DEFINE n == IndexDepth - InitDepth
      <3>1. n \in 0..IndexDepth /\ IndexDepth - n = InitDepth /\ n \in 0..HashBits
        BY <1>1, InitFacts DEF SpareInv
      <3>2. dir[i] >= Pow2[InitDepth]
        <4>1. IndexDepth \in 0..HashBits
          BY <1>1
        <4>2. /\ Shr(i, n) \in Nat /\ Pow2[IndexDepth - n] \in Nat
              /\ i < Pow2[IndexDepth] <=> Shr(i, n) < Pow2[IndexDepth - n]
          BY <1>1, <3>1, <4>1, ShrBelow
        <4>3. ~(i < Pow2[IndexDepth])
          BY <1>1, <1>2, <1>4
        <4>4. dir[i] \in Nat /\ Pow2[InitDepth] \in Nat /\ ~(dir[i] < Pow2[InitDepth])
          BY <2>1, <3>1, <4>2, <4>3
        <4> QED BY <4>4
      <3>3. dir[i] < InitCap
        <4>1. i < Pow2[n] * InitCap
          BY <1>1 DEF SpareInv
        <4>2. Pow2[n] \in Nat \ {0}
          BY <3>1, PowPositive
        <4> QED BY <1>1, <2>1, <4>1, <4>2, InitFacts, DivBelow DEF Shr
      <3> QED BY <1>1, <3>2, <3>3, InitFacts DEF Spare, Segments
    <2>4. Splitting => dir[i] # target /\ dir[i] # NewSeg
      BY <2>3, TargetNotSpare
    <2>5. local_depth[dir[i]] = InitDepth
      BY <2>3 DEF SpareInv
    <2> QED BY <1>1, <1>2, <1>4, <2>1, <2>2, <2>4, <2>5
            DEF Owner, Established, OldDepth, Splitting
  <1> QED BY <1>1, <1>2, <1>3, <1>4

LEMMA OwnerDepth ==
  ASSUME TypeInv, DirInv, SpareInv, NEW i \in DOMAIN dir
  PROVE  /\ OldDepth(Owner(i)) \in 0..IndexDepth
         /\ local_depth[dir[i]] = local_depth[Owner(i)]
         /\ \/ /\ OldDepth(Owner(i)) = local_depth[dir[i]]
            \/ /\ OldDepth(Owner(i)) = local_depth[dir[i]] - 1
               /\ pc \in {"pattern", "directory"}
  <1>1. /\ i \in Nat /\ dir[i] \in Segments /\ Owner(i) \in Established /\ Owner(i) \in Segments
        /\ OldDepth(Owner(i)) <= IndexDepth
    BY OwnerFacts DEF TypeInv, TypeOK, DirInv, Established
  <1>2. local_depth[dir[i]] = local_depth[Owner(i)]
    <2>1. CASE Moved(i)
      <3>1. i \in 0..(Pow2[IndexDepth] - 1) /\ Splitting /\ pc = "directory"
        BY <1>1, <2>1, MovedLow DEF Moved
      <3>2. dir[i] = NewSeg /\ local_depth[NewSeg] = local_depth[target]
        BY <2>1, <3>1 DEF DirInv
      <3> QED BY <2>1, <3>2 DEF Owner
    <2>2. CASE ~Moved(i)
      BY <2>2 DEF Owner
    <2> QED BY <2>1, <2>2
  <1>3. local_depth[Owner(i)] \in 1..HashBits
    BY <1>1 DEF TypeInv, TypeOK
  <1> QED BY <1>1, <1>2, <1>3, InitFacts, SMTT(30) DEF OldDepth, TypeInv, TypeOK, IndexDepth

\* Two entries agree on the leading bits that an owner's depth counts only if
\* they have that owner.
LEMMA SameOwner ==
  ASSUME TypeInv, DirInv, SpareInv, NEW i \in DOMAIN dir, NEW j \in DOMAIN dir,
         NEW m, m = IndexDepth - OldDepth(Owner(i)), Shr(i, m) = Shr(j, m)
  PROVE  Owner(j) = Owner(i)
  <1>1. /\ i \in Nat /\ j \in Nat /\ Owner(i) \in Established
        /\ IndexDepth \in 1..HashBits /\ m \in 0..IndexDepth
        /\ IndexDepth - m = OldDepth(Owner(i))
    <2>1. IndexDepth \in 1..HashBits
      BY InitFacts DEF TypeInv, TypeOK, IndexDepth
    <2>2. OldDepth(Owner(i)) \in 0..IndexDepth
      BY OwnerDepth
    <2> QED BY <2>1, <2>2, OwnerFacts, InitFacts
  <1>2. Pow2[IndexDepth] \in Nat
    BY <1>1, PowPositive
  <1>3. i < Pow2[IndexDepth] <=> j < Pow2[IndexDepth]
    BY <1>1, ShrBelow
  <1>4. CASE i < Pow2[IndexDepth]
    <2>1. j \in 0..(Pow2[IndexDepth] - 1)
      BY <1>1, <1>2, <1>3, <1>4
    <2>2. Shr(j, m) = OldPattern(Owner(i))
      BY <1>4, OwnerFacts
    <2> QED BY <1>1, <2>1, <2>2 DEF DirInv
  <1>5. CASE i >= Pow2[IndexDepth]
    <2>1. /\ m = IndexDepth - InitDepth /\ Owner(i) = Shr(i, m)
      BY <1>5, OwnerFacts
    <2>2. j >= Pow2[IndexDepth]
      BY <1>1, <1>2, <1>3, <1>5
    <2> QED BY <2>1, <2>2, OwnerFacts
  <1> QED BY <1>1, <1>2, <1>4, <1>5

LEMMA TableGrouped ==
  ASSUME TypeInv, DirInv, SpareInv
  PROVE  Grouped
  <1> SUFFICES ASSUME NEW i \in DOMAIN dir, NEW j \in DOMAIN dir, NEW n,
                      n = global_depth - local_depth[dir[i]], n >= 0,
                      Shr(i, n) = Shr(j, n)
               PROVE  local_depth[dir[j]] = local_depth[dir[i]]
    BY DEF Grouped
  <1> DEFINE m == IndexDepth - OldDepth(Owner(i))
  <1>1. /\ i \in Nat /\ j \in Nat /\ local_depth[dir[i]] \in 1..HashBits
        /\ global_depth \in 1..HashBits /\ IndexDepth <= HashBits
        /\ OldDepth(Owner(i)) \in 0..IndexDepth
    BY OwnerFacts, OwnerDepth DEF TypeInv, TypeOK
  <1>2. m = n \/ m = n + 1
    <2>1. IndexDepth \in {global_depth, global_depth + 1}
          /\ (pc \in {"pattern", "directory"} => IndexDepth = global_depth)
      BY DEF IndexDepth
    <2> QED BY <1>1, <2>1, OwnerDepth
  <1>3. m \in 0..HashBits /\ n \in 0..HashBits
    BY <1>1, <1>2, InitFacts, OwnerDepth DEF IndexDepth
  <1>4. Shr(i, m) = Shr(j, m)
    BY <1>1, <1>2, <1>3, ShrNext
  <1>5. Owner(j) = Owner(i)
    BY <1>4, SameOwner
  <1> QED BY <1>5, OwnerDepth

-----------------------------------------------------------------------------
(* Recovery's walk. *)

\* A call's steps are taken at the places TypeOK knows: never inside Recovery.
LEMMA CallPCs == Next => pc \in PCs /\ pc' \in PCs
  <1> SUFFICES ASSUME Next PROVE pc \in PCs /\ pc' \in PCs
    OBVIOUS
  <1>1. ASSUME NEW k \in Keys, NEW v \in Values, Insert(k, v) \/ InsertOnly(k, v)
        PROVE  pc \in PCs /\ pc' \in PCs
    BY <1>1 DEF Insert, InsertOnly, Call, PCs
  <1>2. CASE Step
    BY <1>2 DEF Step, StoreValue, StoreKey, ReturnFalse, WindowFull, AllocateSibling, CopyPair,
                Deepen, SetPatterns, PointSibling, PointChunk, Retry, SwapDirectory,
                DoubleCapacity, DeepenGlobal, PCs
  <1> QED BY <1>1, <1>2 DEF Next

LEMMA CrashWalk ==
  ASSUME TypeInv, DirInv, SpareInv, Crash
  PROVE  Walk'
  <1>1. /\ crashed' = pc /\ at' = 0 /\ pc \in PCs
        /\ UNCHANGED <<dir, capacity, global_depth, local_depth>>
    BY DEF Crash, table, TypeInv, TypeOK
  <1>2. /\ global_depth \in 1..HashBits /\ capacity \in Nat
        /\ DOMAIN dir = 0..(ArrayLength - 1) /\ ArrayLength \in {capacity, 2 * capacity}
        /\ dir \in [DOMAIN dir -> Nat]
        /\ \A i \in DOMAIN dir : local_depth[dir[i]] \in 1..HashBits
    BY DEF TypeInv, TypeOK, ArrayLength, Segments
  <1>3. Grouped'
    BY <1>1, TableGrouped DEF Grouped
  <1>4. capacity > 0
    <2>1. IndexDepth \in 0..HashBits
      BY <1>2, InitFacts DEF TypeInv, IndexDepth
    <2>2. Pow2[IndexDepth] \in Nat \ {0} /\ Pow2[IndexDepth] <= ArrayLength
      BY <2>1, PowPositive DEF TypeInv
    <2> QED BY <1>2, <2>2
  <1>5. local_depth[dir[0]] <= global_depth => 0 % Pow2[global_depth - local_depth[dir[0]]] = 0
    <2> SUFFICES ASSUME local_depth[dir[0]] <= global_depth
                 PROVE  0 % Pow2[global_depth - local_depth[dir[0]]] = 0
      OBVIOUS
    <2>1. global_depth - local_depth[dir[0]] \in 0..HashBits
      BY <1>2, <1>4, InitFacts, SMTT(30)
    <2>2. Pow2[global_depth - local_depth[dir[0]]] \in Nat \ {0}
      BY <2>1, PowPositive
    <2> QED BY <2>2
  <1>6. ASSUME pc \in Early, NEW i \in DOMAIN dir
        PROVE  local_depth[dir[i]] <= global_depth
    <2>1. IndexDepth = global_depth /\ pc \notin {"pattern", "directory", "capacity", "depth"}
      BY <1>6 DEF Early, IndexDepth
    <2> QED BY <1>2, <1>6, <2>1, OwnerDepth DEF Early
  <1> QED BY <1>1, <1>2, <1>3, <1>4, <1>5, <1>6 DEF Walk, DepthCur, Group

\* A group is uniform from its first entry to its last: there is nothing to reset.
LEMMA GroupUniform ==
  ASSUME Walk, DepthCur <= global_depth, NEW w, w = Pow2[global_depth - DepthCur],
         NEW j \in DOMAIN dir, at <= j, j < at + w
  PROVE  local_depth[dir[j]] = DepthCur
  <1> DEFINE n == global_depth - DepthCur
  <1>1. n \in 0..HashBits /\ n >= 0 /\ at \in DOMAIN dir /\ at \in Nat /\ j \in Nat
    BY InitFacts DEF Walk, DepthCur, Group
  <1>2. w \in Nat \ {0} /\ at % w = 0
    BY <1>1, PowPositive DEF Walk
  <1>3. j \div w = at \div w
    <2>1. at = (at \div w) * w /\ at \div w \in Nat
      BY <1>1, <1>2
    <2> QED BY <1>1, <1>2, <2>1, DivUnique
  <1> QED BY <1>1, <1>3 DEF Walk, Grouped, DepthCur, Group, Shr

LEMMA ModIs ==
  ASSUME NEW h \in Nat, NEW m \in Nat \ {0}
  PROVE  h % m = h - (h \div m) * m
  OBVIOUS

\* The next group begins where this one ends.
LEMMA NextGroup ==
  ASSUME Walk, DepthCur <= global_depth, Buddy < capacity,
         NEW e, e = local_depth[dir[Buddy]], e <= global_depth
  PROVE  Buddy % Pow2[global_depth - e] = 0
  <1> DEFINE n == global_depth - DepthCur
             w == Pow2[n]
             m == global_depth - e
             v == Pow2[m]
             b == at + w
  <1>1. n \in 0..HashBits /\ at \in DOMAIN dir /\ at \in Nat /\ capacity \in Nat
    BY InitFacts DEF Walk, DepthCur, Group
  <1>2. w \in Nat \ {0} /\ at % w = 0 /\ Buddy = b
    BY <1>1, PowPositive DEF Walk, Buddy
  <1>3. b \in Nat /\ b \in DOMAIN dir
    BY <1>1, <1>2 DEF Walk
  <1>4. m \in 0..HashBits /\ v \in Nat \ {0}
    BY <1>2, <1>3, InitFacts, PowPositive DEF Walk
  <1>5. at = (at \div w) * w /\ at \div w \in Nat
    BY <1>1, <1>2
  <1>6. CASE m <= n
    <2>1. n - m \in 0..HashBits /\ m + (n - m) = n
      BY <1>1, <1>4, <1>6, InitFacts
    <2>2. w = v * Pow2[n - m] /\ Pow2[n - m] \in Nat
      BY <1>4, <2>1, <1>1, PowSum, PowPositive, InitFacts, SMTT(30)
    <2> DEFINE q == Pow2[n - m]
               a == at \div w
    <2> HIDE DEF q, a, w, v
    <2>3. b = ((a + 1) * q) * v /\ (a + 1) * q \in Nat
      BY <1>2, <1>4, <1>5, <2>2 DEF q, a
    <2> HIDE DEF b
    <2>4. b \div v = (a + 1) * q
      BY <1>3, <1>4, <2>3, DivUnique
    <2>5. b % v = 0
      <3>1. b % v = b - (b \div v) * v
        BY <1>3, <1>4, ModIs
      <3> DEFINE c == (a + 1) * q
      <3>2. b = c * v /\ c \in Nat /\ b \div v = c
        BY <2>3, <2>4
      <3> HIDE DEF c
      <3>3. b % v = b - c * v
        BY <3>1, <3>2
      <3> QED BY <1>3, <3>2, <3>3
    <2> QED BY <1>2, <2>5 DEF v
  <1>7. CASE m > n
    <2>1. m - n \in 0..HashBits /\ n + (m - n) = m
      BY <1>1, <1>4, <1>7, InitFacts
    <2>2. v = w * Pow2[m - n] /\ Pow2[m - n] \in Nat \ {0}
      BY <1>1, <1>4, <2>1, PowSum, PowPositive, InitFacts
    <2> SUFFICES ASSUME b % v # 0 PROVE FALSE
      BY <1>2
    <2>3. b \div v = at \div v
      <3> DEFINE q == Pow2[m - n]
                 a == at \div w
                 c == b \div v
      <3> HIDE DEF q, a, c, w, v
      <3>1. c \in Nat /\ c * v <= b /\ b < c * v + v /\ b # c * v
        <4>1. b % v = b - c * v
          BY <1>3, <1>4, ModIs DEF c
        <4>2. c \in Nat /\ c * v <= b /\ b < c * v + v
          BY <1>3, <1>4, DivRange DEF c
        <4>3. c * v \in Nat
          BY <1>4, <4>2
        <4> HIDE DEF b
        <4> QED BY <1>3, <4>1, <4>2, <4>3
      <3>2. b = (a + 1) * w /\ a \in Nat /\ at = a * w
        BY <1>2, <1>5 DEF a
      <3>3. c * v = (c * q) * w /\ c * q \in Nat
        BY <1>2, <2>2, <3>1 DEF q
      <3>4. c * q <= a
        <4>1. (c * q) * w < (a + 1) * w
          BY <3>1, <3>2, <3>3, <1>4, <1>2
        <4> QED BY <1>2, <3>2, <3>3, <4>1
      <3>5. c * v <= at
        BY <1>2, <3>2, <3>3, <3>4
      <3>6. at < c * v + v
        BY <1>1, <1>2, <1>4, <3>1
      <3>7. at \div v = c
        BY <1>1, <1>4, <3>1, <3>5, <3>6, DivUnique
      <3> QED BY <3>7 DEF c
    <2>4. DepthCur = e
      <3>1. Shr(b, m) = Shr(at, m)
        BY <2>3 DEF Shr
      <3>2. m >= 0 /\ local_depth[dir[b]] = e
        BY <1>2, <1>4
      <3> HIDE DEF b
      <3> QED BY <1>1, <1>3, <3>1, <3>2 DEF Walk, Grouped, DepthCur, Group
    <2> QED BY <1>1, <1>4, <1>7, <2>4, InitFacts DEF Walk, DepthCur, Group
  <1> QED BY <1>1, <1>4, <1>6, <1>7

LEMMA RecoverStep ==
  ASSUME Walk, RecoverGroup
  PROVE  dir' = dir /\ (pc' = "recovery" => Walk')
  <1>1. /\ pc = "recovery" /\ DepthCur <= global_depth
        /\ UNCHANGED <<capacity, global_depth, local_depth, crashed>>
    BY DEF RecoverGroup, history
  <1>2. at \in DOMAIN dir /\ at \in Nat
    BY DEF Walk
  <1>3. ASSUME NEW j \in DOMAIN dir
        PROVE  ~(at < j /\ j < Buddy /\ local_depth[dir[j]] # DepthCur)
    BY <1>1, <1>2, GroupUniform DEF Walk, Buddy
  <1>4. dir' = dir
    <2>1. CASE Buddy = capacity
      BY <2>1 DEF RecoverGroup
    <2>2. CASE Buddy # capacity
      <3>1. dir' = [j \in DOMAIN dir |-> dir[j]]
        BY <1>3, <2>2 DEF RecoverGroup
      <3> QED BY <3>1 DEF Walk
    <2> QED BY <2>1, <2>2
  <1>5. ASSUME pc' = "recovery"
        PROVE  Walk'
    <2>1. Buddy < capacity /\ at' = Buddy
      BY <1>1, <1>5 DEF RecoverGroup, Return
    <2>2. Buddy \in 0..(capacity - 1)
      <3>1. global_depth - DepthCur \in 0..HashBits
        BY <1>1, <1>2, InitFacts DEF Walk, DepthCur, Group
      <3>2. Pow2[global_depth - DepthCur] \in Nat
        BY <3>1, PowPositive
      <3> QED BY <1>2, <2>1, <3>2 DEF Buddy, Walk
    <2>3. local_depth[dir[Buddy]] <= global_depth =>
            Buddy % Pow2[global_depth - local_depth[dir[Buddy]]] = 0
      BY <1>1, <2>1, NextGroup
    <2> QED BY <1>1, <1>4, <2>1, <2>2, <2>3 DEF Walk, Grouped, DepthCur, Group
  <1> QED BY <1>4, <1>5

LEMMA StepCrashInv == CrashInv /\ [CrashNext]_crashVars => CrashInv'
  <1> SUFFICES ASSUME CrashInv, [CrashNext]_crashVars PROVE CrashInv'
    OBVIOUS
  <1>1. CASE Next /\ UNCHANGED crashed
    <2>1. crashed = "no" => (TypeInv /\ DirInv /\ SpareInv)'
      BY <1>1, StepTypeInv, StepDirInv, StepSpareInv DEF CrashInv
    <2>2. pc' \notin {"recovery", "stuck", "wild"}
      BY <1>1, CallPCs DEF PCs
    <2> QED BY <1>1, <2>1, <2>2 DEF CrashInv, RecoveryFailsOnlyInDeepening
  <1>2. CASE Crash
    <2>1. pc \in PCs /\ pc' = "recovery" /\ crashed' = pc
      BY <1>2 DEF Crash, CrashInv, TypeInv, TypeOK
    <2>2. Walk'
      BY <1>2, CrashWalk DEF CrashInv, Crash
    <2> QED BY <2>1, <2>2 DEF CrashInv, RecoveryFailsOnlyInDeepening, PCs
  <1>3. CASE RecoverGroup
    <2>1. pc' \in {"idle", "recovery"} /\ UNCHANGED crashed /\ crashed # "no"
      BY <1>3 DEF RecoverGroup, Return, CrashInv, Walk, PCs, history
    <2> QED BY <1>3, <2>1, RecoverStep DEF CrashInv, RecoverGroup, RecoveryFailsOnlyInDeepening
  <1>4. CASE RecoverOverflow \/ RecoverBelow
    <2>1. /\ pc = "recovery" /\ pc' \in {"idle", "stuck", "wild"} /\ UNCHANGED crashed
          /\ DepthCur > global_depth /\ Walk
      BY <1>4 DEF RecoverOverflow, RecoverBelow, TooDeep, Return, CrashInv, history
    <2>2. crashed \notin Early /\ crashed \in PCs
      <3>1. at \in DOMAIN dir /\ DepthCur \in 1..HashBits /\ global_depth \in 1..HashBits
        BY <2>1 DEF Walk, DepthCur, Group
      <3> QED BY <2>1, <3>1, InitFacts DEF Walk, DepthCur, Group
    <2> QED BY <2>1, <2>2 DEF CrashInv, RecoveryFailsOnlyInDeepening, Early, PCs
  <1>5. CASE UNCHANGED crashVars
    <2>1. UNCHANGED vars /\ UNCHANGED crashed
      BY <1>5 DEF crashVars, history
    <2>2. TypeInv /\ DirInv /\ SpareInv => (TypeInv /\ DirInv /\ SpareInv)'
      BY <2>1, StepTypeInv, StepDirInv, StepSpareInv
    <2>3. Walk => Walk'
      BY <2>1 DEF vars, table, thread, Walk, Grouped, DepthCur, Group
    <2>4. pc' = pc
      BY <2>1 DEF vars, thread
    <2> QED BY <2>1, <2>2, <2>3, <2>4 DEF CrashInv, RecoveryFailsOnlyInDeepening
  <1> QED BY <1>1, <1>2, <1>3, <1>4, <1>5 DEF CrashNext, history

LEMMA CrashInvHolds == CrashSpec => []CrashInv
  <1>1. CrashInit => CrashInv
    BY InitTypeInv, InitDirInv, InitSpareInv
    DEF CrashInit, CrashInv, RecoveryFailsOnlyInDeepening, Init
  <1> QED BY <1>1, StepCrashInv, PTL DEF CrashSpec

\* Recovery runs for ever, or below the array, only after a crash inside a split
\* that deepens a segment beyond the table: up to the end of the copying no depth
\* exceeds global_depth.
THEOREM RecoveryFailsOnlyAfterDeepening == CrashSpec => []RecoveryFailsOnlyInDeepening
  <1>1. CrashInv => RecoveryFailsOnlyInDeepening
    BY DEF CrashInv
  <1> QED BY <1>1, CrashInvHolds, PTL

\* Recovery finds nothing to repair, wherever the crash fell: it changes no entry
\* of the directory in any step but the one that takes it below the array.
THEOREM RecoveryChangesNothing == CrashSpec => RecoveryRepairsNothing
  <1>1. CrashInv /\ [CrashNext]_crashVars =>
          [pc = "recovery" /\ pc' # "wild" => dir' = dir]_crashVars
    <2> SUFFICES ASSUME CrashInv, CrashNext, pc = "recovery", pc' # "wild"
                 PROVE  dir' = dir
      OBVIOUS
    <2>1. ~Next
      BY CallPCs DEF PCs
    <2>2. Walk
      BY DEF CrashInv
    <2> QED BY <2>1, <2>2, RecoverStep DEF CrashNext, Crash, RecoverOverflow, RecoverBelow, table
  <1> QED BY <1>1, CrashInvHolds, PTL DEF CrashSpec, RecoveryRepairsNothing

-----------------------------------------------------------------------------
(* An early crash.  The table that Recovery finds, and the calls after it    *)
(* work on, is one CCEH reaches without a crash, but for the segment that    *)
(* the crash left unreachable: it counts as one whose pattern no hash has.   *)

seenPc == IF pc = "recovery" THEN "idle" ELSE pc
seenAt == IF pc = "recovery" THEN 0 ELSE at
seenDepth == [s \in Segments |-> IF s \in leaked THEN 1 ELSE local_depth[s]]
seenPattern == [s \in Segments |-> IF s \in leaked THEN Pow2[HashBits] ELSE pattern[s]]

Seen == INSTANCE CCEH_lookup
        WITH pc <- seenPc, at <- seenAt, local_depth <- seenDepth, pattern <- seenPattern

Shape ==
  /\ local_depth = [s \in Segments |-> local_depth[s]]
  /\ pattern = [s \in Segments |-> pattern[s]]
  /\ leaked \subseteq Segments /\ nseg \in Nat
  /\ Splitting => target \notin leaked /\ NewSeg \notin leaked
  /\ crashed # "copy" => leaked = {}

LEMMA SeenSame ==
  /\ Seen!kNumSlot = kNumSlot /\ Seen!Slots = Slots /\ Seen!Window = Window
  /\ Seen!Segments = Segments /\ Seen!NewSeg = NewSeg /\ Seen!Pair = Pair
  /\ Seen!EmptySlots = EmptySlots
  /\ Seen!X = X /\ Seen!Target = Target
  /\ \A k, i : Seen!Probe(k, i) = Probe(k, i)
  /\ \A k, d : Seen!Prefix(k, d) = Prefix(k, d)
  /\ \A k, d : Seen!SplitBit(k, d) = SplitBit(k, d)
  /\ \A d : Seen!OldPrefixDoubled(d) = OldPrefixDoubled(d)
  BY DEF Seen!kNumSlot, kNumSlot, Seen!Slots, Slots, Seen!Window, Window,
         Seen!Segments, Segments, Seen!NewSeg, NewSeg, Seen!Pair, Pair,
         Seen!EmptySlots, EmptySlots, Seen!EmptyPair, EmptyPair,
         Seen!X, X, Seen!Target, Target, Seen!Probe, Probe, Seen!Loc, Loc,
         Seen!Prefix, Prefix, Seen!SplitBit, SplitBit, Seen!Shr, Shr,
         Seen!OldPrefixDoubled, OldPrefixDoubled

LEMMA SeenTarget ==
  ASSUME Seen!TypeInv, Seen!DirInv, Shape, pc = "probe"
  PROVE  Target \in Segments /\ Target \notin leaked
  <1>1. seenPc = "probe" /\ ~Seen!Splitting /\ Seen!IndexDepth = global_depth
    BY DEF seenPc, Seen!Splitting, Seen!IndexDepth
  <1>2. Target \in Segments /\ op.key \in Keys
    BY <1>1, SeenSame, Seen!TargetType, Seen!OpType,
       Pow2Assumption, HashAssumption, GeometryAssumption, InitAssumption, ValueAssumption DEF Seen!TypeInv
  <1>3. seenDepth[Target] \in 0..HashBits
    BY <1>1, <1>2, SeenSame, InitFacts DEF Seen!TypeInv, Seen!TypeOK
  <1>4. Prefix(op.key, seenDepth[Target]) = seenPattern[Target]
    BY <1>1, <1>2, SeenSame, Seen!KeyHome,
       Pow2Assumption, HashAssumption, GeometryAssumption, InitAssumption, ValueAssumption DEF Target, X
  <1>5. seenPattern[Target] < Pow2[HashBits]
    <2> DEFINE d == seenDepth[Target]
    <2>1. Prefix(op.key, d) \in Nat /\ Pow2[d] \in Nat /\ Prefix(op.key, d) < Pow2[d]
      BY <1>2, <1>3, PrefixRange, PowPositive
    <2>2. Pow2[d] <= Pow2[HashBits]
      <3>0. d \in 0..HashBits
        BY <1>3
      <3> HIDE DEF d
      <3> DEFINE e == HashBits - d
      <3>1. e \in 0..HashBits /\ d + e = HashBits /\ HashBits \in Nat
        BY <3>0, InitFacts
      <3> HIDE DEF e
      <3>2. Pow2[HashBits] = Pow2[d] * Pow2[e] /\ Pow2[e] \in Nat \ {0}
        <4>1. d + e <= HashBits
          BY <3>1
        <4>2. Pow2[d + e] = Pow2[d] * Pow2[e] /\ Pow2[e] \in Nat \ {0}
          BY <3>0, <3>1, <4>1, PowSum, PowPositive, Zenon
        <4> QED BY <3>1, <4>2, Zenon
      <3> DEFINE a == Pow2[d]
                 b == Pow2[e]
      <3>3. a \in Nat /\ b \in Nat \ {0} /\ Pow2[HashBits] = a * b
        BY <2>1, <3>2
      <3> HIDE DEF a, b
      <3>4. a <= a * b
        BY <3>3
      <3> QED BY <3>3, <3>4 DEF a
    <2>3. Pow2[HashBits] \in Nat
      BY InitFacts, PowPositive
    <2> QED BY <1>4, <2>1, <2>2, <2>3
  <1>6. Pow2[HashBits] \in Nat
    BY InitFacts, PowPositive
  <1> QED BY <1>2, <1>5, <1>6 DEF seenPattern

\* Every step of a call is a step of the table without the crash.
LEMMA SeenStep ==
  ASSUME Seen!TypeInv, Seen!DirInv, Shape, Next, UNCHANGED history
  PROVE  Seen!Next /\ Shape'
  <1>1. /\ pc \in PCs /\ pc' \in PCs
        /\ seenPc = pc /\ seenPc' = pc' /\ seenAt = at /\ seenAt' = at'
    BY CallPCs DEF PCs, seenPc, seenAt
  <1>2. UNCHANGED <<nseg, local_depth, pattern>> => UNCHANGED <<seenDepth, seenPattern>>
    BY DEF seenDepth, seenPattern, history, Segments
  <1>3. ASSUME NEW k \in Keys, NEW v \in Values, Insert(k, v) \/ InsertOnly(k, v)
        PROVE  Seen!Next /\ Shape'
    <2>1. Seen!Insert(k, v) \/ Seen!InsertOnly(k, v)
      BY <1>1, <1>2, <1>3 DEF Insert, InsertOnly, Call, Seen!Insert, Seen!InsertOnly, Seen!Call,
                              table, Seen!table
    <2>2. Shape'
      BY <1>3 DEF Insert, InsertOnly, Call, table, Shape, history, Splitting, Segments
    <2> QED BY <2>1, <2>2 DEF Seen!Next
  <1>4. CASE StoreValue
    <2>1. Seen!StoreValue
      BY <1>1, <1>2, <1>4, SeenSame, SeenTarget
      DEF StoreValue, Seen!StoreValue, FirstInWindow, Seen!FirstInWindow, UsableProbe, Seen!UsableProbe,
          Usable, Seen!Usable, seenDepth, seenPattern
    <2>2. Shape'
      BY <1>4 DEF StoreValue, Shape, history, Splitting, Segments
    <2> QED BY <2>1, <2>2 DEF Seen!Next, Seen!Step
  <1>5. CASE StoreKey
    <2>1. Seen!StoreKey
      BY <1>1, <1>2, <1>5 DEF StoreKey, Seen!StoreKey
    <2>2. Shape'
      BY <1>5 DEF StoreKey, Shape, history, Splitting, Segments
    <2> QED BY <2>1, <2>2 DEF Seen!Next, Seen!Step
  <1>6. WindowFull => Seen!WindowFull
    BY <1>1, SeenSame, SeenTarget
    DEF WindowFull, Seen!WindowFull, UsableProbe, Seen!UsableProbe,
        Usable, Seen!Usable, seenDepth, seenPattern
  <1>7. CASE ReturnFalse
    <2>1. Seen!ReturnFalse
      BY <1>1, <1>2, <1>6, <1>7 DEF ReturnFalse, Seen!ReturnFalse, table, Seen!table
    <2>2. Shape'
      BY <1>7 DEF ReturnFalse, table, Shape, history, Splitting, Segments
    <2> QED BY <2>1, <2>2 DEF Seen!Next, Seen!Step
  <1>8. CASE AllocateSibling
    <2>1. /\ pc = "probe" /\ Target \in Segments /\ Target \notin leaked
          /\ nseg' = nseg + 1 /\ nseg \in Nat /\ target' = Target /\ UNCHANGED leaked
          /\ leaked \subseteq 0..(nseg - 1)
          /\ local_depth' = Extend(local_depth, local_depth[Target] + 1)
          /\ pattern' = Extend(pattern, 0)
      BY <1>8, SeenTarget DEF AllocateSibling, WindowFull, Shape, history, Segments
    <2>2. Segments' = 0..nseg /\ NewSeg' = nseg /\ nseg \notin leaked
      BY <2>1 DEF Segments, NewSeg
    <2>3. seenDepth[Target] = local_depth[Target]
      BY <2>1 DEF seenDepth
    <2>4. seenDepth' = Seen!Extend(seenDepth, seenDepth[Target] + 1)
      BY <2>1, <2>2, <2>3 DEF seenDepth, Seen!Extend, Extend, Segments
    <2>5. seenPattern' = Seen!Extend(seenPattern, 0)
      BY <2>1, <2>2 DEF seenPattern, Seen!Extend, Extend, Segments
    <2>6. Seen!AllocateSibling
      BY <1>1, <1>6, <1>8, <2>3, <2>4, <2>5, SeenSame
      DEF AllocateSibling, Seen!AllocateSibling, Extend, Seen!Extend
    <2>7. Shape'
      BY <1>1, <1>8, <2>1, <2>2 DEF AllocateSibling, Shape, Extend, Segments, history
    <2> QED BY <2>6, <2>7 DEF Seen!Next, Seen!Step
  <1>9. CASE CopyPair
    <2>1. seenDepth[target] = local_depth[target]
      <3>1. target \in Segments /\ target \notin leaked
        BY <1>1, <1>9, SeenSame DEF CopyPair, Shape, Splitting, Seen!TypeInv, Seen!TypeOK
      <3> QED BY <3>1 DEF seenDepth
    <2>2. Seen!CopyPair
      BY <1>1, <1>2, <1>9, <2>1, SeenSame
      DEF CopyPair, Seen!CopyPair, Insert4split, Seen!Insert4split, FirstInWindow, Seen!FirstInWindow
    <2>3. Shape'
      BY <1>9 DEF CopyPair, Shape, history, Splitting, Segments, NewSeg
    <2> QED BY <2>2, <2>3 DEF Seen!Next, Seen!Step
  <1>10. CASE Deepen
    <2>1. /\ target \in Segments /\ target \notin leaked /\ UNCHANGED <<nseg, leaked, pattern>>
          /\ local_depth' = [local_depth EXCEPT ![target] = @ + 1]
          /\ local_depth = [s \in Segments |-> local_depth[s]]
      BY <1>1, <1>10, SeenSame DEF Deepen, Shape, Splitting, history, Seen!TypeInv, Seen!TypeOK
    <2>2. seenDepth' = [seenDepth EXCEPT ![target] = @ + 1]
      BY <2>1 DEF seenDepth, Segments
    <2>3. seenPattern' = seenPattern
      BY <2>1 DEF seenPattern, Segments
    <2>4. Seen!Deepen
      BY <1>1, <1>10, <2>2, <2>3, SeenSame DEF Deepen, Seen!Deepen
    <2>5. Shape'
      BY <1>10, <2>1 DEF Deepen, Shape, history, Splitting, Segments, NewSeg
    <2> QED BY <2>4, <2>5 DEF Seen!Next, Seen!Step
  <1>11. CASE SetPatterns
    <2>1. /\ target \in Segments /\ target \notin leaked /\ NewSeg \notin leaked
          /\ UNCHANGED <<nseg, leaked, local_depth>>
          /\ pattern = [s \in Segments |-> pattern[s]]
      BY <1>1, <1>11, SeenSame DEF SetPatterns, Shape, Splitting, history, Seen!TypeInv, Seen!TypeOK
    <2>2. NewSeg \in Segments
      BY <1>1, <1>11, SeenSame, Seen!SplitFacts,
         Pow2Assumption, HashAssumption, GeometryAssumption, InitAssumption, ValueAssumption
      DEF SetPatterns, Seen!Splitting
    <2>3. seenDepth' = seenDepth /\ seenDepth[target] = local_depth[target]
          /\ seenDepth[NewSeg] = local_depth[NewSeg]
      BY <2>1, <2>2 DEF seenDepth, Segments
    <2>4. seenPattern' = [seenPattern EXCEPT ![target] = OldPrefixDoubled(seenDepth[target]),
                                             ![NewSeg] = OldPrefixDoubled(seenDepth[NewSeg]) + 1]
      BY <1>11, <2>1, <2>2, <2>3 DEF SetPatterns, seenPattern, Segments
    <2>5. Seen!SetPatterns
      BY <1>1, <1>11, <2>3, <2>4, SeenSame DEF SetPatterns, Seen!SetPatterns
    <2>6. Shape'
      BY <1>11, <2>1 DEF SetPatterns, Shape, history, Splitting, Segments, NewSeg
    <2> QED BY <2>5, <2>6 DEF Seen!Next, Seen!Step
  <1>12. ASSUME pc = "directory" PROVE seenDepth[target] = local_depth[target]
    <2>1. target \in Segments /\ target \notin leaked
      BY <1>1, <1>12, SeenSame DEF Shape, Splitting, Seen!TypeInv, Seen!TypeOK
    <2> QED BY <2>1 DEF seenDepth
  <1>13. CASE PointSibling
    <2>1. Seen!PointSibling
      BY <1>1, <1>2, <1>12, <1>13, SeenSame
      DEF PointSibling, Seen!PointSibling, Retry, Seen!Retry, SiblingIndex, Seen!SiblingIndex
    <2>2. Shape'
      BY <1>13 DEF PointSibling, Retry, Shape, history, Splitting, Segments
    <2> QED BY <2>1, <2>2 DEF Seen!Next, Seen!Step
  <1>14. CASE PointChunk
    <2>1. Seen!PointChunk
      BY <1>1, <1>2, <1>12, <1>14, SeenSame
      DEF PointChunk, Seen!PointChunk, Retry, Seen!Retry, UpperHalf, Seen!UpperHalf,
          ChunkStart, Seen!ChunkStart, ChunkSize, Seen!ChunkSize
    <2>2. Shape'
      BY <1>14 DEF PointChunk, Retry, Shape, history, Splitting, Segments, NewSeg
    <2> QED BY <2>1, <2>2 DEF Seen!Next, Seen!Step
  <1>15. CASE SwapDirectory
    <2>1. Seen!SwapDirectory
      BY <1>1, <1>2, <1>12, <1>15, SeenSame
      DEF SwapDirectory, Seen!SwapDirectory, DoubledLength, Seen!DoubledLength
    <2>2. Shape'
      BY <1>15 DEF SwapDirectory, Shape, history, Splitting, Segments
    <2> QED BY <2>1, <2>2 DEF Seen!Next, Seen!Step
  <1>16. CASE DoubleCapacity \/ DeepenGlobal
    <2>1. Seen!DoubleCapacity \/ Seen!DeepenGlobal
      BY <1>1, <1>2, <1>16 DEF DoubleCapacity, Seen!DoubleCapacity, DeepenGlobal, Seen!DeepenGlobal
    <2>2. Shape'
      BY <1>16 DEF DoubleCapacity, DeepenGlobal, Shape, history, Splitting, Segments
    <2> QED BY <2>1, <2>2 DEF Seen!Next, Seen!Step
  <1> QED
    BY <1>3, <1>4, <1>5, <1>7, <1>8, <1>9, <1>10, <1>11, <1>13, <1>14, <1>15, <1>16
    DEF Next, Step

LEMMA SeenNoWrap == NoWrap => Seen!NoWrap
  BY DEF NoWrap, Wraps, Seen!NoWrap, Seen!Wraps, Seen!Loc, Loc, Seen!kNumSlot, kNumSlot

\* Recovery leaves the table, seen this way, where it is.
LEMMA SeenStutters ==
  ASSUME Shape, \/ UNCHANGED crashVars
                \/ /\ pc = "recovery" /\ pc' \in {"recovery", "idle"} /\ (pc' = "idle" => at' = 0)
                   /\ UNCHANGED <<table, op, target, acked, history>>
  PROVE  UNCHANGED Seen!vars /\ Shape'
  <1>1. UNCHANGED <<table, op, target, acked, history>>
    BY DEF crashVars, vars, thread
  <1>2. seenPc' = seenPc /\ seenAt' = seenAt
    BY DEF crashVars, vars, thread, seenPc, seenAt
  <1>3. UNCHANGED <<seenDepth, seenPattern>>
    BY <1>1 DEF table, history, seenDepth, seenPattern, Segments
  <1>4. Splitting' => Splitting
    BY DEF crashVars, vars, thread, Splitting
  <1> QED BY <1>1, <1>2, <1>3, <1>4
          DEF table, history, Seen!vars, Seen!table, Seen!thread, Shape, Segments, NewSeg

\* The pattern a leaked segment counts with is no entry's first bit.
LEMMA NoSuchPrefix ==
  ASSUME global_depth \in 1..HashBits, NEW i \in 0..(Pow2[global_depth] - 1)
  PROVE  Shr(i, global_depth - 1) # Pow2[HashBits]
  <1>1. Shr(i, global_depth - 1) < 2 /\ Shr(i, global_depth - 1) \in Nat
    <2>1. /\ global_depth - 1 \in 0..global_depth /\ global_depth \in 0..HashBits
          /\ global_depth - (global_depth - 1) = 1 /\ Pow2[global_depth] \in Nat
      BY InitFacts, PowPositive
    <2>2. i \in Nat /\ i < Pow2[global_depth]
      BY <2>1
    <2>3. /\ Shr(i, global_depth - 1) \in Nat
          /\ Shr(i, global_depth - 1) < Pow2[global_depth - (global_depth - 1)]
      BY <2>1, <2>2, ShrBelow
    <2> QED BY <2>1, <2>3, Pow2Assumption
  <1>2. Pow2[HashBits] >= 2 /\ Pow2[HashBits] \in Nat
    <2>1. HashBits - 1 \in 0..HashBits /\ (HashBits - 1) + 1 = HashBits
      BY HashAssumption
    <2>2. Pow2[HashBits] = 2 * Pow2[HashBits - 1] /\ Pow2[HashBits - 1] \in Nat \ {0}
      BY <2>1, PowNext, PowPositive
    <2> QED BY <2>2
  <1> QED BY <1>1, <1>2

\* A crash before the end of a copy is a return to between two calls.
LEMMA SeenCrash ==
  ASSUME Shape, Seen!TypeInv, Seen!DirInv, Seen!DataInv,
         crashed = "no", pc \in Early, Crash
  PROVE  /\ Shape' /\ Seen!TypeInv' /\ Seen!DirInv' /\ Seen!DataInv'
  <1>1. /\ seenPc = pc /\ seenPc' = "idle" /\ seenAt' = 0 /\ pc' = "recovery"
        /\ op' = NoOp /\ target' = 0 /\ crashed' = pc
        /\ leaked = {} /\ leaked' = IF pc = "copy" THEN {NewSeg} ELSE {}
        /\ UNCHANGED <<dir, capacity, global_depth, nseg, local_depth, pattern, slot, acked>>
    BY DEF seenPc, seenAt, Early, Crash, Shape, table
  <1>2. /\ global_depth \in 1..HashBits /\ capacity \in Nat /\ nseg \in Nat
        /\ dir \in [0..(capacity - 1) -> Segments]
        /\ local_depth \in [Segments -> 1..HashBits] /\ pattern \in [Segments -> Nat]
        /\ slot \in [Segments -> [Slots -> Pair]] /\ acked \in [Keys -> Nat]
        /\ Pow2[global_depth] <= capacity
        /\ Seen!IndexDepth = global_depth /\ Seen!IndexDepth' = global_depth
        /\ Seen!ArrayLength' = capacity
    <2>1. /\ Seen!ArrayLength = capacity /\ Seen!ArrayLength' = capacity
          /\ Seen!IndexDepth = global_depth /\ Seen!IndexDepth' = global_depth
      BY <1>1 DEF Early, Seen!ArrayLength, Seen!IndexDepth
    <2>2. seenDepth = local_depth /\ seenPattern = pattern
      BY <1>1 DEF seenDepth, seenPattern, Shape
    <2> QED BY <2>1, <2>2, SeenSame DEF Seen!TypeInv, Seen!TypeOK
  <1>3. pc = "copy" => NewSeg \in Segments
    BY <1>1, SeenSame, Seen!SplitFacts,
       Pow2Assumption, HashAssumption, GeometryAssumption, InitAssumption, ValueAssumption
    DEF Seen!Splitting
  <1>4. Shape'
    BY <1>1, <1>3 DEF Shape, Splitting, Segments
  <1>5. /\ seenDepth' \in [Segments -> 1..HashBits]
        /\ seenPattern' \in [Segments -> Nat]
    <2>1. 1 \in 1..HashBits /\ Pow2[HashBits] \in Nat
      BY InitFacts, HashAssumption, PowPositive
    <2> QED BY <1>1, <1>2, <2>1 DEF seenDepth, seenPattern, Segments
  <1>6. 0 \in Segments
    <2>1. Pow2[global_depth] \in Nat \ {0}
      BY <1>2, InitFacts, PowPositive
    <2> QED BY <1>2, <2>1 DEF Segments
  <1>7. Seen!TypeInv'
    BY <1>1, <1>2, <1>5, <1>6, SeenSame, InitFacts
    DEF Seen!TypeInv, Seen!TypeOK, Seen!Segments, Segments, PCs, Seen!PCs, Seen!Pair, Pair,
        Seen!Slots, Slots, Seen!kNumSlot, kNumSlot
  <1>8. ASSUME NEW s \in Segments
        PROVE  /\ seenDepth'[s] <= global_depth
               /\ \A i \in 0..(Pow2[global_depth] - 1) :
                    (dir[i] = s) <=> Shr(i, global_depth - seenDepth'[s]) = seenPattern'[s]
    <2>1. CASE s \in leaked'
      <3>1. /\ pc = "copy" /\ s = NewSeg
            /\ seenDepth'[s] = 1 /\ seenPattern'[s] = Pow2[HashBits]
        BY <1>1, <2>1 DEF seenDepth, seenPattern, Segments
      <3>2. ASSUME NEW i \in 0..(Pow2[global_depth] - 1)
            PROVE  dir[i] # s /\ Shr(i, global_depth - 1) # Pow2[HashBits]
        <4>1. dir[i] # NewSeg
          BY <1>1, <1>2, <3>1, SeenSame DEF Seen!DirInv, Seen!Splitting, Seen!Moved
        <4>2. Shr(i, global_depth - 1) # Pow2[HashBits]
          BY <1>2, NoSuchPrefix
        <4> QED BY <3>1, <4>1, <4>2
      <3> QED BY <1>2, <3>1, <3>2
    <2>2. CASE s \notin leaked'
      <3>1. seenDepth'[s] = local_depth[s] /\ seenPattern'[s] = pattern[s]
            /\ seenDepth[s] = local_depth[s] /\ seenPattern[s] = pattern[s]
        BY <1>1, <2>2 DEF seenDepth, seenPattern, Segments
      <3>2. s \in Seen!Established
        BY <1>1, <2>2, SeenSame DEF Seen!Established, Seen!Splitting, Early
      <3>3. Seen!OldDepth(s) = local_depth[s] /\ Seen!OldPattern(s) = pattern[s]
        BY <1>1, <3>1 DEF Seen!OldDepth, Seen!OldPattern, Early
      <3>4. \A i : Seen!Owner(i) = dir[i]
        BY <1>1 DEF Seen!Owner, Seen!Moved, Early
      <3>5. seenDepth'[s] <= global_depth
        BY <1>2, <3>1, <3>2, <3>3 DEF Seen!DirInv
      <3>6. ASSUME NEW i \in 0..(Pow2[global_depth] - 1)
            PROVE  (dir[i] = s) <=> Shr(i, global_depth - seenDepth'[s]) = seenPattern'[s]
        <4>1. (Seen!Owner(i) = s) <=>
                 Seen!Shr(i, global_depth - Seen!OldDepth(s)) = Seen!OldPattern(s)
          BY <1>2, <3>2 DEF Seen!DirInv
        <4> QED BY <3>1, <3>3, <3>4, <4>1 DEF Seen!Shr, Shr
      <3> QED BY <3>5, <3>6
    <2> QED BY <2>1, <2>2
  <1>9. Seen!DirInv'
    <2>1. ~Seen!Splitting' /\ seenPc' # "publish" /\ Seen!Segments' = Segments
      BY <1>1 DEF Seen!Splitting, Seen!Segments, Segments
    <2>2. \A i, n : Seen!Shr(i, n) = Shr(i, n)
      BY DEF Seen!Shr, Shr
    <2> QED BY <1>1, <1>2, <1>8, <2>1, <2>2, Seen!QuietDirInv, ZenonT(60),
               Pow2Assumption, HashAssumption, GeometryAssumption, InitAssumption, ValueAssumption
  <1>10. Seen!DataInv'
    <2>1. Seen!InOwnWindow'
      BY <1>1 DEF Seen!DataInv, Seen!InOwnWindow, Seen!Segments
    <2>2. Seen!Kept'
      <3>1. Seen!Kept /\ Seen!IndexDepth' = Seen!IndexDepth /\ UNCHANGED <<dir, slot, acked>>
        BY <1>1, <1>2 DEF Seen!DataInv
      <3> QED BY <3>1, SMTT(60) DEF Seen!Kept, Seen!Stored
    <2> QED BY <1>1, <2>1, <2>2
            DEF Seen!DataInv, Seen!SlotFree, Seen!CopyProgress, Seen!CopyDone
  <1> QED BY <1>4, <1>7, <1>9, <1>10

Found == \A k \in Keys : acked[k] > 0 => Get(k) # NONE

\* The calls after an early crash keep every invariant of the table, seen this way.
EarlyInv ==
  /\ crashed \in Early \cup {"no"} => Shape /\ Seen!TypeInv /\ Seen!DirInv /\ Seen!DataInv
  /\ pc = "recovery" /\ crashed \notin {"capacity", "depth"} => Found

LEMMA SeenFound ==
  ASSUME Seen!TypeInv, Seen!DataInv, NEW k \in Keys, acked[k] > 0
  PROVE  Lookup(k, Seen!IndexDepth) # NONE
  <1>1. Seen!Lookup(k, Seen!IndexDepth) # NONE
    BY Seen!LookupFinds, Seen!HomeType, SeenSame,
       Pow2Assumption, HashAssumption, GeometryAssumption, InitAssumption, ValueAssumption
    DEF Seen!TypeInv, Seen!DataInv, Seen!Kept
  <1> QED BY <1>1, SeenSame DEF Lookup, Seen!Lookup, Search, Seen!Search, FirstInWindow,
                                Seen!FirstInWindow

LEMMA StepEarlyInv ==
  ASSUME NoWrap
  PROVE  CrashInv /\ EarlyInv /\ [CrashNext]_crashVars => EarlyInv'
  <1> SUFFICES ASSUME CrashInv, EarlyInv, [CrashNext]_crashVars PROVE EarlyInv'
    OBVIOUS
  <1>1. ASSUME crashed \in Early \cup {"no"}, [Seen!Next]_(Seen!vars), Shape'
        PROVE  Shape' /\ Seen!TypeInv' /\ Seen!DirInv' /\ Seen!DataInv'
    BY <1>1, SeenNoWrap, Seen!StepTypeInv, Seen!StepDirInv, Seen!StepDataInv,
       Pow2Assumption, HashAssumption, GeometryAssumption, InitAssumption, ValueAssumption
    DEF EarlyInv
  <1>2. CASE Next /\ UNCHANGED history
    <2>1. pc' # "recovery" /\ crashed' = crashed
      BY <1>2, CallPCs DEF PCs, history
    <2> QED BY <1>1, <1>2, <2>1, SeenStep DEF EarlyInv
  <1>3. CASE Crash
    <2>1. pc \in PCs /\ crashed = "no" /\ crashed' = pc /\ pc' = "recovery"
          /\ UNCHANGED <<dir, slot, global_depth, acked>>
      BY <1>3 DEF Crash, CrashInv, TypeInv, TypeOK, table
    <2>2. pc \in Early => Shape' /\ Seen!TypeInv' /\ Seen!DirInv' /\ Seen!DataInv'
      BY <1>3, <2>1, SeenCrash DEF EarlyInv
    <2>3. ASSUME pc \notin {"capacity", "depth"}, NEW k \in Keys, acked[k] > 0
          PROVE  Get(k)' # NONE
      <3>1. Seen!IndexDepth = global_depth
        BY <2>1, <2>3 DEF Seen!IndexDepth, seenPc, PCs
      <3>2. Get(k) # NONE
        BY <2>1, <2>3, <3>1, SeenFound DEF EarlyInv, Get
      <3> QED BY <2>1, <3>2 DEF Get, Lookup
    <2> QED BY <2>1, <2>2, <2>3 DEF EarlyInv, Early, PCs, Found
  <1>4. ASSUME \/ UNCHANGED crashVars
               \/ /\ pc = "recovery" /\ pc' \in {"recovery", "idle"} /\ (pc' = "idle" => at' = 0)
                  /\ UNCHANGED <<table, op, target, acked, history>>
        PROVE  EarlyInv'
    <2>1. crashed' = crashed /\ UNCHANGED <<dir, slot, global_depth, acked>>
          /\ (pc' = "recovery" => pc = "recovery")
      BY <1>4 DEF crashVars, vars, thread, table, history
    <2>2. Found => Found'
      BY <2>1 DEF Found, Get, Lookup
    <2>3. crashed \in Early \cup {"no"} => [Seen!Next]_(Seen!vars) /\ Shape'
      BY <1>4, SeenStutters DEF EarlyInv
    <2> QED BY <1>1, <2>1, <2>2, <2>3 DEF EarlyInv
  <1>5. CASE RecoverGroup
    <2>1. dir' = dir
      BY <1>5, RecoverStep DEF CrashInv, RecoverGroup
    <2> QED BY <1>4, <1>5, <2>1 DEF RecoverGroup, Return, table
  <1>6. CASE RecoverOverflow \/ RecoverBelow
    <2>1. /\ pc = "recovery" /\ UNCHANGED <<table, op, target, acked, history>>
          /\ \/ pc' = "idle" /\ at' = 0
             \/ pc' \in {"stuck", "wild"}
      BY <1>6 DEF RecoverOverflow, RecoverBelow, TooDeep, Return
    <2>2. pc' \in {"stuck", "wild"} => EarlyInv'
      <3>1. ASSUME pc' \in {"stuck", "wild"}
            PROVE  crashed' \notin Early \cup {"no"}
        <4>1. CrashInv'
          BY StepCrashInv
        <4>2. crashed' = crashed /\ crashed # "no"
          BY <2>1 DEF history, CrashInv, Walk, PCs
        <4> QED BY <3>1, <4>1, <4>2 DEF CrashInv, RecoveryFailsOnlyInDeepening, Early
      <3> QED BY <3>1 DEF EarlyInv
    <2> QED BY <1>4, <2>1, <2>2
  <1>7. CASE UNCHANGED crashVars
    BY <1>4, <1>7
  <1> QED BY <1>2, <1>3, <1>5, <1>6, <1>7 DEF CrashNext

LEMMA InitEarlyInv == CrashInit => EarlyInv
  <1> SUFFICES ASSUME CrashInit PROVE EarlyInv
    OBVIOUS
  <1>1. /\ seenPc = pc /\ seenAt = at /\ leaked = {} /\ Init
        /\ nseg = InitCap /\ Segments = 0..(InitCap - 1) /\ pc = "idle"
    BY DEF CrashInit, Init, seenPc, seenAt, Segments
  <1>2. seenDepth = local_depth /\ seenPattern = pattern
    BY <1>1 DEF Init, seenDepth, seenPattern
  <1>3. Seen!Init
    BY <1>1, <1>2, SeenSame DEF Init, Seen!Init
  <1>4. Seen!TypeInv /\ Seen!DirInv /\ Seen!DataInv
    BY <1>3, Seen!InitTypeInv, Seen!InitDirInv, Seen!InitDataInv,
       Pow2Assumption, HashAssumption, GeometryAssumption, InitAssumption, ValueAssumption
  <1>5. Shape
    BY <1>1, InitFacts DEF Init, Shape, Splitting, Segments
  <1> QED BY <1>1, <1>4, <1>5 DEF EarlyInv

LEMMA EarlyInvHolds ==
  ASSUME NoWrap
  PROVE  CrashSpec => []EarlyInv
  <1>1. CrashInv /\ EarlyInv /\ [CrashNext]_crashVars => EarlyInv'
    BY StepEarlyInv
  <1> QED BY <1>1, InitEarlyInv, CrashInvHolds, PTL DEF CrashSpec

\* Where no window wraps, an acknowledged key is missing at the restart only if
\* the crash fell between the stores of a doubling.
THEOREM RestartLosesOnlyThere ==
  ASSUME NoWrap
  PROVE  CrashSpec => []RestartLosesOnlyInDoubling
  <1>1. EarlyInv => RestartLosesOnlyInDoubling
    BY DEF EarlyInv, RestartLosesOnlyInDoubling, Restarted, Found
  <1> QED BY <1>1, EarlyInvHolds, PTL

\* Where no window wraps, a crash before the end of a copy costs a segment at
\* most: whatever is inserted after it, nothing acknowledged before or after is
\* lost, and the directory is coherent for every segment but the leaked one, to
\* which no entry leads.
THEOREM EarlyCrashCostsNothing ==
  ASSUME NoWrap
  PROVE  CrashSpec => []EarlyCrashIsHarmless
  <1>1. CrashInv /\ EarlyInv => EarlyCrashIsHarmless
    <2> SUFFICES ASSUME CrashInv, EarlyInv, crashed \in Early, pc # "recovery"
                 PROVE  /\ NothingLost
                        /\ pc \in {"idle", "probe", "publish"} =>
                             \A i \in 0..(Pow2[global_depth] - 1), s \in Segments :
                               (dir[i] = s) <=> /\ s \notin leaked
                                                /\ local_depth[s] <= global_depth
                                                /\ Shr(i, global_depth - local_depth[s]) = pattern[s]
      BY DEF EarlyCrashIsHarmless, Early
    <2>1. Shape /\ Seen!TypeInv /\ Seen!DirInv /\ Seen!DataInv /\ seenPc = pc
      BY DEF EarlyInv, seenPc
    <2>2. Seen!IndexDepth = IndexDepth
      BY <2>1 DEF Seen!IndexDepth, IndexDepth
    <2>3. NothingLost
      BY <2>1, <2>2, SeenFound DEF NothingLost, View
    <2>4. ASSUME pc \in {"idle", "probe", "publish"},
                 NEW i \in 0..(Pow2[global_depth] - 1), NEW s \in Segments
          PROVE  (dir[i] = s) <=> /\ s \notin leaked
                                  /\ local_depth[s] <= global_depth
                                  /\ Shr(i, global_depth - local_depth[s]) = pattern[s]
      <3>1. (dir[i] = s) <=> /\ seenDepth[s] <= global_depth
                             /\ Shr(i, global_depth - seenDepth[s]) = seenPattern[s]
        <4>1. Seen!DirectoryCoherent
          BY <2>1, Seen!DirInvCoherent,
             Pow2Assumption, HashAssumption, GeometryAssumption, InitAssumption, ValueAssumption
        <4> QED BY <2>1, <2>4, <4>1, SeenSame DEF Seen!DirectoryCoherent, Seen!Shr, Shr
      <3>2. CASE s \in leaked
        <4>1. seenDepth[s] = 1 /\ seenPattern[s] = Pow2[HashBits]
          BY <3>2 DEF seenDepth, seenPattern
        <4>2. Shr(i, global_depth - 1) # Pow2[HashBits]
          BY <2>1, <2>4, NoSuchPrefix DEF Seen!TypeInv, Seen!TypeOK
        <4> QED BY <3>1, <3>2, <4>1, <4>2
      <3>3. CASE s \notin leaked
        BY <3>1, <3>3 DEF seenDepth, seenPattern
      <3> QED BY <3>2, <3>3
    <2> QED BY <2>3, <2>4
  <1> QED BY <1>1, CrashInvHolds, EarlyInvHolds, PTL

=============================================================================
