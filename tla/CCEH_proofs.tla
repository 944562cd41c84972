---------------------------- MODULE CCEH_proofs ----------------------------
(***************************************************************************)
(* Theorems about CCEH for every set of keys, every hash function and      *)
(* every geometry the assumptions of CCEH allow: the variables keep their  *)
(* types, and the directory partitions the hash space, whatever is split   *)
(* or doubled.                                                             *)
(***************************************************************************)
EXTENDS CCEH, FiniteSetTheorems, TLAPS

-----------------------------------------------------------------------------
(* Division of natural numbers, for arguments about bit shifts: h >> n is  *)
(* h \div 2^n.  None of these needs the divisor to be a power of two.      *)

\* The quotient is pinned down by the interval it selects.
LEMMA DivUnique ==
  ASSUME NEW h \in Nat, NEW m \in Nat \ {0}, NEW q \in Nat,
         q * m <= h, h < q * m + m
  PROVE  h \div m = q
  <1>1. h \div m \in Nat /\ m * (h \div m) <= h /\ h < m * (h \div m) + m
    OBVIOUS
  <1>2. CASE h \div m > q
    <2>1. m * (h \div m) >= m * (q + 1)
       BY <1>1, <1>2
    <2> QED BY <1>1, <2>1
  <1>3. CASE h \div m < q
    <2>1. m * q >= m * (h \div m + 1)
       BY <1>1, <1>3
    <2> QED BY <1>1, <2>1
  <1> QED BY <1>1, <1>2, <1>3

LEMMA DivRange ==
  ASSUME NEW h \in Nat, NEW m \in Nat \ {0}
  PROVE  /\ h \div m \in Nat
         /\ (h \div m) * m <= h
         /\ h < (h \div m) * m + m
         /\ h - (h % m) = (h \div m) * m
  OBVIOUS

LEMMA DivDiv ==
  ASSUME NEW h \in Nat, NEW m \in Nat \ {0}, NEW n \in Nat \ {0}
  PROVE  (h \div m) \div n = h \div (m * n)
  OBVIOUS

LEMMA DivBelow ==
  ASSUME NEW h \in Nat, NEW m \in Nat \ {0}, NEW n \in Nat, h < m * n
  PROVE  h \div m < n
  OBVIOUS

LEMMA HalfIs ==
  ASSUME NEW a \in Nat, NEW b \in Nat
  PROVE  a \div 2 = b <=> a \in {2 * b, 2 * b + 1}
  OBVIOUS

-----------------------------------------------------------------------------
(* Powers of two and prefixes of a hash. *)

LEMMA PowPositive ==
  ASSUME NEW n \in 0..HashBits
  PROVE  Pow2[n] \in Nat \ {0}
  BY Pow2Assumption

LEMMA PowSum ==
  ASSUME NEW m \in 0..HashBits, NEW n \in 0..HashBits, m + n <= HashBits
  PROVE  Pow2[m + n] = Pow2[m] * Pow2[n]
  BY Pow2Assumption

LEMMA PowNext ==
  ASSUME NEW n \in 0..HashBits, n + 1 <= HashBits
  PROVE  Pow2[n + 1] = 2 * Pow2[n]
  <1>1. 1 \in 0..HashBits
    BY HashAssumption
  <1>2. Pow2[n + 1] = Pow2[n] * Pow2[1] /\ Pow2[1] = 2
    BY <1>1, Pow2Assumption
  <1> QED BY <1>2, PowPositive

\* Shifting twice is shifting once by the sum.
LEMMA ShrShr ==
  ASSUME NEW h \in Nat, NEW m \in 0..HashBits, NEW n \in 0..HashBits,
         m + n <= HashBits
  PROVE  Shr(Shr(h, m), n) = Shr(h, m + n)
  <1>1. (h \div Pow2[m]) \div Pow2[n] = h \div (Pow2[m] * Pow2[n])
    BY PowPositive, DivDiv
  <1> QED BY <1>1, PowSum DEF Shr

LEMMA HashType ==
  ASSUME NEW k \in Keys \cup {INVALID}
  PROVE  Hash[k] \in Nat /\ Hash[k] < Pow2[HashBits]
  <1>1. HashBits \in 0..HashBits
    BY HashAssumption
  <1> QED BY <1>1, HashAssumption, PowPositive

\* d leading bits index an array of 2^d entries.
LEMMA PrefixRange ==
  ASSUME NEW k \in Keys \cup {INVALID}, NEW d \in 0..HashBits
  PROVE  Prefix(k, d) \in 0..(Pow2[d] - 1)
  <1> DEFINE e == HashBits - d
  <1>1. HashBits \in Nat /\ e \in 0..HashBits /\ e + d = HashBits
    BY HashAssumption
  <1> HIDE DEF e
  <1>2. Pow2[e + d] = Pow2[e] * Pow2[d]
    BY <1>1, PowSum
  <1>3. Hash[k] \in Nat /\ Hash[k] < Pow2[e] * Pow2[d]
    BY <1>1, <1>2, HashType
  <1>4. Pow2[e] \in Nat \ {0} /\ Pow2[d] \in Nat \ {0}
    BY <1>1, PowPositive
  <1>5. Hash[k] \div Pow2[e] \in Nat
    BY <1>3, <1>4
  <1>6. Hash[k] \div Pow2[e] < Pow2[d]
    BY <1>3, <1>4, DivBelow
  <1> QED BY <1>4, <1>5, <1>6 DEF Prefix, Shr, e

\* The c leading bits are a prefix of the d leading bits.
LEMMA PrefixOfPrefix ==
  ASSUME NEW k \in Keys \cup {INVALID}, NEW d \in 0..HashBits, NEW c \in 0..d
  PROVE  Shr(Prefix(k, d), d - c) = Prefix(k, c)
  <1>1. /\ HashBits \in Nat
        /\ HashBits - d \in 0..HashBits
        /\ d - c \in 0..HashBits
        /\ (HashBits - d) + (d - c) = HashBits - c
    BY HashAssumption
  <1>2. Shr(Shr(Hash[k], HashBits - d), d - c) = Shr(Hash[k], (HashBits - d) + (d - c))
    BY <1>1, HashType, ShrShr
  <1> QED BY <1>1, <1>2 DEF Prefix

-----------------------------------------------------------------------------
(* Slots. *)

LEMMA SlotCount ==
  kNumSlot \in Nat \ {0} /\ 0 \in Slots
  <1>1. SegmentBits \in 0..HashBits
    BY HashAssumption
  <1>2. Pow2[SegmentBits] \in Nat \ {0} /\ PairsPerLine \in Nat \ {0}
    BY <1>1, PowPositive, GeometryAssumption
  <1>3. Pow2[SegmentBits] * PairsPerLine \in Nat \ {0}
    BY <1>2
  <1> QED BY <1>3 DEF kNumSlot, Slots

LEMMA LocType ==
  ASSUME NEW k \in Keys \cup {INVALID}
  PROVE  Loc(k) \in Nat
  <1>1. SegmentBits \in 0..HashBits
    BY HashAssumption
  <1>2. Pow2[SegmentBits] \in Nat \ {0} /\ PairsPerLine \in Nat
    BY <1>1, PowPositive, GeometryAssumption
  <1>3. Hash[k] % Pow2[SegmentBits] \in Nat
    BY <1>2, HashType
  <1> QED BY <1>2, <1>3 DEF Loc

LEMMA ProbeType ==
  ASSUME NEW k \in Keys \cup {INVALID}, NEW i \in Window
  PROVE  Probe(k, i) \in Slots
  <1>1. Loc(k) + i \in Nat
    BY LocType, GeometryAssumption DEF Window
  <1>2. (Loc(k) + i) % kNumSlot \in 0..(kNumSlot - 1)
    BY <1>1, SlotCount
  <1> QED BY <1>2 DEF Probe, Slots

-----------------------------------------------------------------------------
(* Type correctness. *)

\* A thread that is not idle has a call to work on.
LEMMA OpType ==
  ASSUME TypeOK, pc # "idle"
  PROVE  /\ op \in [key : Keys, value : Values, resize : BOOLEAN]
         /\ op.key \in Keys
         /\ op.value \in Values
  BY DEF TypeOK

\* The entry a call works on exists, as long as no doubling is under way.
LEMMA TargetType ==
  ASSUME TypeInv, pc \notin {"idle", "capacity", "depth"}
  PROVE  X \in 0..(capacity - 1) /\ Target \in Segments /\ nseg > 0
  <1>1. op.key \in Keys
    BY OpType DEF TypeInv
  <1>2. global_depth \in 0..HashBits /\ HashBits \in Nat
    BY HashAssumption DEF TypeInv, TypeOK
  <1>3. Prefix(op.key, global_depth) \in 0..(Pow2[global_depth] - 1)
    BY <1>1, <1>2, PrefixRange
  <1>4. Pow2[global_depth] <= capacity /\ Pow2[global_depth] \in Nat /\ capacity \in Nat
    BY <1>2, PowPositive DEF TypeInv, TypeOK, IndexDepth, ArrayLength
  <1>5. X \in 0..(capacity - 1)
    BY <1>3, <1>4 DEF X
  <1>6. dir \in [0..(capacity - 1) -> Segments]
    BY DEF TypeInv, TypeOK, ArrayLength
  <1>7. nseg \in Nat
    BY DEF TypeInv, TypeOK
  <1> QED BY <1>5, <1>6, <1>7 DEF X, Target, Segments

\* Storing one word of one slot keeps the segments well typed.
LEMMA StoreWordType ==
  ASSUME slot \in [Segments -> [Slots -> Pair]],
         NEW s \in Segments, NEW j \in Slots,
         NEW k \in Keys, NEW v \in Values
  PROVE  /\ [slot EXCEPT ![s][j].value = v] \in [Segments -> [Slots -> Pair]]
         /\ [slot EXCEPT ![s][j].key = k] \in [Segments -> [Slots -> Pair]]
  <1>1. slot[s] \in [Slots -> Pair] /\ slot[s][j] \in Pair
    OBVIOUS
  <1>2. [slot[s][j] EXCEPT !.value = v] \in Pair /\ [slot[s][j] EXCEPT !.key = k] \in Pair
    BY <1>1 DEF Pair
  <1>3. /\ [slot[s] EXCEPT ![j] = [slot[s][j] EXCEPT !.value = v]] \in [Slots -> Pair]
        /\ [slot[s] EXCEPT ![j] = [slot[s][j] EXCEPT !.key = k]] \in [Slots -> Pair]
    BY <1>1, <1>2
  <1> QED BY <1>3

LEMMA InitTypeInv == Init => TypeInv
  <1> SUFFICES ASSUME Init PROVE TypeInv
    OBVIOUS
  <1>1. HashBits \in Nat /\ InitDepth \in 1..HashBits /\ InitCap \in Nat
    BY HashAssumption, InitAssumption
  <1>2. Pow2[InitDepth] \in Nat \ {0} /\ Pow2[InitDepth] <= InitCap
    BY <1>1, PowPositive, InitAssumption
  <1>3. EmptySlots \in [Slots -> Pair]
    BY DEF EmptySlots, EmptyPair, Pair
  <1>4. TypeOK
    BY <1>1, <1>2, <1>3, ValueAssumption
    DEF Init, TypeOK, ArrayLength, Segments, PCs
  <1> QED BY <1>1, <1>2, <1>4 DEF Init, TypeInv, IndexDepth, ArrayLength

LEMMA StepTypeInv == TypeInv /\ [Next]_vars => TypeInv'
  <1> SUFFICES ASSUME TypeInv, [Next]_vars PROVE TypeInv'
    OBVIOUS
  <1> USE DEF TypeInv
  <1>0. HashBits \in Nat \ {0} /\ kNumSlot \in Nat \ {0}
    BY HashAssumption, SlotCount
  <1>1. ASSUME NEW k \in Keys, NEW v \in Values, NEW r \in BOOLEAN, Call(k, v, r)
        PROVE  TypeInv'
    <2>1. op' \in [key : Keys, value : Values, resize : BOOLEAN] /\ op' # NoOp
      BY <1>1, ValueAssumption DEF Call
    <2>2. TypeOK'
      BY <1>1, <2>1 DEF Call, table, TypeOK, ArrayLength, Segments, PCs
    <2> QED BY <1>1, <2>2 DEF Call, table, ArrayLength, IndexDepth
  <1>2. CASE StoreValue
    <2>1. PICK i \in Window :
            /\ at' = Probe(op.key, i)
            /\ slot' = [slot EXCEPT ![Target][Probe(op.key, i)].value = op.value]
      BY <1>2 DEF StoreValue
    <2>2. pc = "probe" /\ op.key \in Keys /\ op.value \in Values
      BY <1>2, OpType DEF StoreValue
    <2>3. Probe(op.key, i) \in Slots /\ Target \in Segments
      BY <2>2, ProbeType, TargetType
    <2>4. slot' \in [Segments -> [Slots -> Pair]]
      BY <2>1, <2>2, <2>3, StoreWordType DEF TypeOK
    <2>5. at' \in Nat
      BY <2>1, <2>3, <1>0 DEF Slots
    <2> QED BY <1>2, <2>3, <2>4, <2>5, SMTT(30)
        DEF StoreValue, TypeOK, ArrayLength, IndexDepth, Segments, PCs, NewSeg
  <1>3. CASE StoreKey
    <2>1. pc = "publish" /\ op.key \in Keys
      BY <1>3, OpType DEF StoreKey
    <2>2. slot' \in [Segments -> [Slots -> Pair]]
      BY <1>3, <2>1, StoreWordType DEF StoreKey, TypeOK
    <2>3. acked' \in [Keys -> Nat]
      BY <1>3, <2>1 DEF StoreKey, TypeOK
    <2>4. 0 \in Segments
      BY <2>1, TargetType DEF Segments, TypeOK
    <2> QED BY <1>3, <2>1, <2>2, <2>3, <2>4
        DEF StoreKey, TypeOK, ArrayLength, IndexDepth, Segments, PCs, NewSeg
  <1>4. CASE ReturnFalse
    BY <1>4 DEF ReturnFalse, WindowFull, table, TypeOK, ArrayLength, IndexDepth,
                Segments, PCs, NewSeg
  <1>5. CASE AllocateSibling
    <2>1. pc = "probe" /\ pc' = "copy" /\ nseg' = nseg + 1 /\ target' = Target /\ op' = op
      BY <1>5 DEF AllocateSibling, WindowFull
    <2>2. Target \in Segments /\ nseg \in Nat
      BY <2>1, TargetType DEF TypeOK
    <2>3. Segments \subseteq Segments' /\ Segments' = 0..nseg /\ nseg \notin Segments
      BY <2>1, <2>2 DEF Segments
    <2>4. local_depth[Target] \in 1..HashBits /\ local_depth[Target] < HashBits
      BY <1>5, <2>2 DEF AllocateSibling, TypeOK
    <2>5. /\ local_depth' \in [Segments' -> 1..HashBits]
          /\ pattern' \in [Segments' -> Nat]
      BY <1>0, <1>5, <2>2, <2>3, <2>4 DEF AllocateSibling, Extend, TypeOK, Segments
    <2>6. slot' \in [Segments' -> [Slots -> Pair]]
      <3>1. EmptySlots \in [Slots -> Pair]
        BY DEF EmptySlots, EmptyPair, Pair
      <3> QED BY <1>5, <2>2, <2>3, <3>1 DEF AllocateSibling, Extend, TypeOK, Segments
    <2>7. TypeOK'
      <3>1. dir' \in [0..(ArrayLength' - 1) -> Segments']
        BY <1>5, <2>1, <2>3 DEF AllocateSibling, TypeOK, ArrayLength
      <3>2. op' \in [key : Keys, value : Values, resize : BOOLEAN]
        BY <2>1, OpType
      <3>3. op' # NoOp
        BY <2>1 DEF TypeOK
      <3>4. target' \in Segments' /\ nseg' \in Nat
        BY <2>1, <2>2, <2>3
      <3>5. /\ global_depth' \in 1..HashBits
            /\ capacity' \in Nat
            /\ at' \in Nat
            /\ acked' \in [Keys -> Nat]
        BY <1>5 DEF AllocateSibling, TypeOK
      <3> QED BY <2>1, <2>5, <2>6, <3>1, <3>2, <3>3, <3>4, <3>5 DEF TypeOK, PCs
    <2>8. local_depth'[nseg] = local_depth[Target] + 1 /\ local_depth'[Target] = local_depth[Target]
      BY <1>5, <2>2, <2>3 DEF AllocateSibling, Extend, Segments
    <2> QED BY <1>5, <2>1, <2>2, <2>7, <2>8 DEF AllocateSibling, ArrayLength, IndexDepth, NewSeg
  <1>6. CASE CopyPair
    <2>1. pc = "copy" /\ at \in Slots /\ target \in Segments /\ nseg \in Nat
      BY <1>0, <1>6 DEF CopyPair, TypeOK, Slots
    <2>2. NewSeg \in Segments
      BY <2>1, TargetType DEF NewSeg, Segments
    <2>3. slot[target][at] \in Pair
      BY <2>1 DEF TypeOK
    <2>4. slot' \in [Segments -> [Slots -> Pair]]
      <3> DEFINE pair == slot[target][at]
      <3>1. \/ UNCHANGED slot
            \/ \E i \in Window : slot' = [slot EXCEPT ![NewSeg][Probe(pair.key, i)] = pair]
        BY <1>6 DEF CopyPair, Insert4split
      <3>2. ASSUME NEW i \in Window,
                   slot' = [slot EXCEPT ![NewSeg][Probe(pair.key, i)] = pair]
            PROVE  slot' \in [Segments -> [Slots -> Pair]]
        <4>1. slot[NewSeg] \in [Slots -> Pair]
          BY <2>2 DEF TypeOK
        <4>2. [slot[NewSeg] EXCEPT ![Probe(pair.key, i)] = pair] \in [Slots -> Pair]
          BY <2>3, <4>1
        <4> QED BY <2>2, <3>2, <4>2 DEF TypeOK
      <3> QED BY <3>1, <3>2 DEF TypeOK
    <2>5. TypeOK'
      BY <1>6, <2>1, <2>4, SMTT(30) DEF CopyPair, TypeOK, ArrayLength, Segments, PCs
    <2> QED BY <1>6, <2>5 DEF CopyPair, ArrayLength, IndexDepth, NewSeg
  <1>7. CASE Deepen
    <2>1. pc = "copy" /\ target \in Segments
      BY <1>7 DEF Deepen, TypeOK
    <2>2. NewSeg \in Segments
      BY <2>1, TargetType DEF NewSeg, Segments, TypeOK
    <2>3. local_depth[target] + 1 \in 1..HashBits
      BY <2>1, <2>2 DEF TypeOK
    <2>4. local_depth' \in [Segments -> 1..HashBits]
      BY <1>7, <2>1, <2>3 DEF Deepen, TypeOK
    <2>5. TypeOK'
      BY <1>7, <2>1, <2>4 DEF Deepen, TypeOK, ArrayLength, Segments, PCs
    <2> QED BY <1>7, <2>5 DEF Deepen, ArrayLength, IndexDepth
  <1>8. CASE SetPatterns
    <2>1. pc = "pattern" /\ target \in Segments /\ op.key \in Keys
      BY <1>8, OpType DEF SetPatterns, TypeOK
    <2>2. NewSeg \in Segments
      BY <2>1, TargetType DEF NewSeg, Segments, TypeOK
    <2>3. ASSUME NEW d \in 1..HashBits
          PROVE  OldPrefixDoubled(d) \in Nat
      <3>1. HashBits - d + 1 \in 0..HashBits
        BY <1>0
      <3>2. Hash[op.key] \div Pow2[HashBits - d + 1] \in Nat
        BY <2>1, <3>1, HashType, PowPositive
      <3> QED BY <3>2 DEF OldPrefixDoubled, Shr
    <2>4. pattern' \in [Segments -> Nat]
      <3>1. OldPrefixDoubled(local_depth[target]) \in Nat /\ OldPrefixDoubled(local_depth[NewSeg]) \in Nat
        BY <2>1, <2>2, <2>3 DEF TypeOK
      <3> QED BY <1>8, <2>1, <2>2, <3>1 DEF SetPatterns, TypeOK
    <2>5. TypeOK'
      BY <1>8, <2>4 DEF SetPatterns, TypeOK, ArrayLength, Segments, PCs
    <2> QED BY <1>8, <2>5 DEF SetPatterns, ArrayLength, IndexDepth
  <1>9. ASSUME NEW i, dir' = [dir EXCEPT ![i] = NewSeg], pc = "directory",
               \/ Retry
               \/ at' = at + 1 /\ UNCHANGED <<pc, target>>,
               UNCHANGED <<capacity, global_depth, nseg, local_depth, pattern, slot, op, acked>>
        PROVE  TypeInv'
    <2>1. NewSeg \in Segments /\ 0 \in Segments
      BY <1>9, TargetType DEF NewSeg, Segments, TypeOK
    <2>2. pc' \in {"probe", "directory"} /\ target' \in Segments /\ at' \in Nat
      BY <1>9, <2>1 DEF Retry, TypeOK
    <2>3. dir' \in [0..(capacity - 1) -> Segments]
      BY <1>9, <2>1 DEF TypeOK, ArrayLength
    <2>4. TypeOK'
      BY <1>9, <2>2, <2>3 DEF TypeOK, ArrayLength, Segments, PCs
    <2> QED BY <1>9, <2>2, <2>4 DEF ArrayLength, IndexDepth
  <1>10. CASE PointSibling
    BY <1>9, <1>10 DEF PointSibling
  <1>11. CASE PointChunk
    BY <1>9, <1>11 DEF PointChunk
  <1>12. CASE SwapDirectory
    <2>1. /\ pc = "directory" /\ pc' = "capacity" /\ capacity' = capacity
          /\ local_depth[target] > global_depth /\ target \in Segments
          /\ global_depth \in 1..HashBits /\ capacity \in Nat
      BY <1>12 DEF SwapDirectory, TypeOK
    <2>2. NewSeg \in Segments /\ 0 \in Segments
      BY <2>1, TargetType DEF NewSeg, Segments, TypeOK
    <2>3. global_depth + 1 \in 1..HashBits
      BY <1>0, <2>1 DEF TypeOK
    <2>4. Pow2[global_depth + 1] <= 2 * capacity
      <3>1. Pow2[global_depth] <= capacity /\ Pow2[global_depth] \in Nat
        BY <2>1, <1>0, PowPositive DEF IndexDepth, ArrayLength
      <3> QED BY <1>0, <2>1, <2>3, <3>1, PowNext
    <2>5. dir' \in [0..(2 * capacity - 1) -> Segments]
      <3>1. ASSUME NEW j \in 0..(2 * capacity - 1)
            PROVE  j \div 2 \in 0..(capacity - 1)
        BY <2>1
      <3>2. ASSUME NEW j \in 0..(2 * capacity - 1)
            PROVE  dir[j \div 2] \in Segments
        BY <2>1, <3>1 DEF TypeOK, ArrayLength
      <3> QED BY <1>12, <2>1, <2>2, <3>2 DEF SwapDirectory, DoubledLength
    <2>6. TypeOK'
      BY <1>12, <2>1, <2>2, <2>5 DEF SwapDirectory, TypeOK, ArrayLength, Segments, PCs
    <2> QED BY <1>0, <1>12, <2>1, <2>3, <2>4, <2>6 DEF SwapDirectory, ArrayLength, IndexDepth
  <1>13. CASE DoubleCapacity
    <2>1. TypeOK'
      BY <1>13, SMTT(30) DEF DoubleCapacity, TypeOK, ArrayLength, Segments, PCs
    <2> QED BY <1>13, <2>1 DEF DoubleCapacity, ArrayLength, IndexDepth
  <1>14. CASE DeepenGlobal
    <2>1. global_depth + 1 \in 1..HashBits
      BY <1>0, <1>14 DEF DeepenGlobal, IndexDepth, TypeOK
    <2>2. TypeOK'
      BY <1>14, <2>1 DEF DeepenGlobal, TypeOK, ArrayLength, Segments, PCs
    <2> QED BY <1>14, <2>2 DEF DeepenGlobal, ArrayLength, IndexDepth
  <1>15. CASE UNCHANGED vars
    <2>1. TypeOK'
      BY <1>15 DEF vars, table, thread, TypeOK, ArrayLength, Segments, PCs
    <2> QED BY <1>15, <2>1 DEF vars, table, thread, ArrayLength, IndexDepth, NewSeg
  <1> QED
    BY <1>1, <1>2, <1>3, <1>4, <1>5, <1>6, <1>7, <1>8, <1>10, <1>11, <1>12, <1>13, <1>14, <1>15
    DEF Next, Step, Insert, InsertOnly

LEMMA TypeInvHolds == Spec => []TypeInv
  BY InitTypeInv, StepTypeInv, PTL DEF Spec

\* In every reachable state the variables have their types: no index leaves
\* the directory or a segment, and no shift count leaves the hash.
THEOREM TypeCorrect == Spec => []TypeOK
  <1>1. TypeInv => TypeOK
    BY DEF TypeInv
  <1> QED BY <1>1, TypeInvHolds, PTL

-----------------------------------------------------------------------------
(* The directory: shifts of its indices. *)

LEMMA ShrZero ==
  ASSUME NEW h \in Nat
  PROVE  Shr(h, 0) = h
  BY Pow2Assumption DEF Shr

LEMMA ShrOne ==
  ASSUME NEW h \in Nat
  PROVE  Shr(h, 1) = h \div 2
  BY Pow2Assumption DEF Shr

\* The numbers with prefix q are an interval.
LEMMA ShrInterval ==
  ASSUME NEW h \in Nat, NEW n \in 0..HashBits, NEW q \in Nat
  PROVE  Shr(h, n) = q <=> h \in (q * Pow2[n])..(q * Pow2[n] + Pow2[n] - 1)
  <1>1. Pow2[n] \in Nat \ {0}
    BY PowPositive
  <1>2. q * Pow2[n] \in Nat
    BY <1>1
  <1>3. ASSUME h \div Pow2[n] = q
        PROVE  h \in (q * Pow2[n])..(q * Pow2[n] + Pow2[n] - 1)
    <2>1. /\ (h \div Pow2[n]) * Pow2[n] <= h
          /\ h < (h \div Pow2[n]) * Pow2[n] + Pow2[n]
      BY <1>1, DivRange
    <2>2. q * Pow2[n] <= h /\ h < q * Pow2[n] + Pow2[n]
      BY <1>3, <2>1
    <2> QED BY <1>1, <1>2, <2>2
  <1>4. ASSUME h \in (q * Pow2[n])..(q * Pow2[n] + Pow2[n] - 1)
        PROVE  h \div Pow2[n] = q
    BY <1>1, <1>2, <1>4, DivUnique
  <1> QED BY <1>3, <1>4 DEF Shr

\* One bit less is the prefix halved.
LEMMA ShrNext ==
  ASSUME NEW h \in Nat, NEW n \in 0..HashBits, n + 1 <= HashBits
  PROVE  Shr(h, n) \in Nat /\ Shr(h, n + 1) = Shr(h, n) \div 2
  <1>1. n \in Nat /\ 1 \in 0..HashBits
    BY HashAssumption
  <1>2. h \div Pow2[n] \in Nat
    BY PowPositive
  <1>3. Shr(Shr(h, n), 1) = Shr(h, n + 1)
    BY <1>1, ShrShr
  <1> QED BY <1>2, <1>3, ShrOne DEF Shr

-----------------------------------------------------------------------------
(* The chunk of entries that pointed to the segment being split. *)

\* Facts about the segment being split that hold as long as the split does.
LEMMA SplitFacts ==
  ASSUME TypeInv, DirInv, Splitting
  PROVE  /\ target \in Segments /\ target # NewSeg /\ NewSeg \in Segments
         /\ op.key \in Keys
         /\ global_depth \in 1..HashBits /\ HashBits \in Nat
         /\ OldDepth(target) \in 0..global_depth
         /\ OldPattern(target) \in Nat
         /\ Prefix(op.key, OldDepth(target)) = OldPattern(target)
         /\ IndexDepth = global_depth
  <1>1. pc \in {"copy", "pattern", "directory"}
    BY DEF Splitting
  <1>2. target \in Segments /\ target # NewSeg
    BY <1>1 DEF DirInv, Established, Splitting
  <1>3. NewSeg \in Segments
    BY <1>1, TargetType DEF NewSeg, Segments, TypeInv, TypeOK
  <1>4. op.key \in Keys
    BY <1>1, OpType DEF TypeInv
  <1>5. global_depth \in 1..HashBits /\ HashBits \in Nat /\ IndexDepth = global_depth
    BY <1>1, HashAssumption DEF TypeInv, TypeOK, IndexDepth
  <1>6. local_depth[target] \in 1..HashBits
    BY <1>2 DEF TypeInv, TypeOK
  <1>7. OldDepth(target) <= global_depth
    BY <1>2, <1>3, <1>5 DEF DirInv, Established, Splitting
  <1>8. OldDepth(target) \in 0..global_depth
    BY <1>5, <1>6, <1>7 DEF OldDepth
  <1>9. Prefix(op.key, OldDepth(target)) = OldPattern(target)
    BY <1>1 DEF DirInv, Splitting
  <1>10. Prefix(op.key, OldDepth(target)) \in Nat
    BY <1>4, <1>5, <1>8, PrefixRange, PowPositive
  <1> QED BY <1>2, <1>3, <1>4, <1>5, <1>8, <1>9, <1>10

\* The chunk is the interval of indices with the old pattern, its upper half
\* those with the new segment's pattern.
LEMMA ChunkFacts ==
  ASSUME TypeInv, DirInv, pc = "directory", local_depth[target] <= global_depth,
         NEW n, n = global_depth - local_depth[target],
         NEW P, P = OldPattern(target)
  PROVE  /\ n \in 0..HashBits /\ n + 1 <= HashBits /\ P \in Nat
         /\ Pow2[n] \in Nat \ {0}
         /\ OldDepth(target) = local_depth[target] - 1
         /\ global_depth - OldDepth(target) = n + 1
         /\ ChunkSize \div 2 = Pow2[n]
         /\ UpperHalf = (2 * P + 1) * Pow2[n]
         /\ UpperHalf \in Nat
         /\ UpperHalf + Pow2[n] <= Pow2[global_depth]
         /\ \A i \in Nat : /\ Shr(i, n + 1) = Shr(i, n) \div 2
                           /\ Shr(i, n) \in Nat
                           /\ Shr(i, n) = 2 * P + 1 <=> i \in UpperHalf..(UpperHalf + Pow2[n] - 1)
  <1>1. Splitting
    BY DEF Splitting
  <1>2. /\ target \in Segments /\ op.key \in Keys
        /\ global_depth \in 1..HashBits /\ HashBits \in Nat
        /\ OldDepth(target) \in 0..global_depth /\ P \in Nat
        /\ Prefix(op.key, OldDepth(target)) = P
    BY <1>1, SplitFacts
  <1>3. local_depth[target] \in 1..HashBits
    BY <1>2 DEF TypeInv, TypeOK
  <1>4. OldDepth(target) = local_depth[target] - 1
    BY DEF OldDepth
  <1>5. n \in 0..HashBits /\ n + 1 \in 0..HashBits /\ global_depth - OldDepth(target) = n + 1
    BY <1>2, <1>3, <1>4
  <1>6. Pow2[n] \in Nat \ {0} /\ Pow2[n + 1] = 2 * Pow2[n]
    BY <1>5, PowPositive, PowNext
  <1>7. ChunkSize = 2 * Pow2[n]
    BY <1>4, <1>5, <1>6 DEF ChunkSize
  <1>8. X \in Nat
    BY <1>2, PrefixRange, PowPositive DEF X
  <1>9. X \div ChunkSize = P
    <2>1. Shr(Prefix(op.key, global_depth), global_depth - OldDepth(target)) = P
      BY <1>2, PrefixOfPrefix
    <2> QED BY <2>1, <1>5, <1>6, <1>7 DEF X, Shr
  <1>10. ChunkStart = P * (2 * Pow2[n])
    <2>1. ChunkSize \in Nat \ {0}
      BY <1>6, <1>7
    <2>2. X - (X % ChunkSize) = (X \div ChunkSize) * ChunkSize
      BY <1>8, <2>1, DivRange
    <2> QED BY <2>2, <1>7, <1>9 DEF ChunkStart
  <1>11. ChunkSize \div 2 = Pow2[n]
    BY <1>6, <1>7
  <1>12. UpperHalf = (2 * P + 1) * Pow2[n] /\ UpperHalf \in Nat
    BY <1>2, <1>6, <1>10, <1>11 DEF UpperHalf
  <1>13. UpperHalf + Pow2[n] <= Pow2[global_depth]
    <2> DEFINE D == OldDepth(target)
    <2>1. D \in 0..HashBits /\ n + 1 \in 0..HashBits /\ (n + 1) + D = global_depth
      BY <1>2, <1>5
    <2>2. Pow2[(n + 1) + D] = Pow2[n + 1] * Pow2[D]
      BY <2>1, <1>2, PowSum
    <2>3. P + 1 <= Pow2[D] /\ Pow2[D] \in Nat
      BY <1>2, <2>1, PrefixRange, PowPositive
    <2>4. (2 * Pow2[n]) * (P + 1) <= (2 * Pow2[n]) * Pow2[D]
      BY <1>2, <1>6, <2>3
    <2>5. UpperHalf + Pow2[n] = (2 * Pow2[n]) * (P + 1)
      BY <1>2, <1>6, <1>12
    <2> QED BY <1>6, <2>1, <2>2, <2>4, <2>5
  <1>14. ASSUME NEW i \in Nat
         PROVE  /\ Shr(i, n + 1) = Shr(i, n) \div 2
                /\ Shr(i, n) \in Nat
                /\ Shr(i, n) = 2 * P + 1 <=> i \in UpperHalf..(UpperHalf + Pow2[n] - 1)
    <2>1. 2 * P + 1 \in Nat
      BY <1>2
    <2> QED BY <1>5, <1>12, <2>1, ShrNext, ShrInterval, SMTT(30)
  <1> QED BY <1>2, <1>4, <1>5, <1>6, <1>11, <1>12, <1>13, <1>14

-----------------------------------------------------------------------------
(* Init and the steps. *)

LEMMA InitDirInv == Init => DirInv
  <1> SUFFICES ASSUME Init PROVE DirInv
    OBVIOUS
  <1>1. /\ InitCap \in Nat /\ InitDepth \in 0..HashBits
        /\ Pow2[InitDepth] \in Nat \ {0} /\ Pow2[InitDepth] <= InitCap
    BY InitAssumption, HashAssumption, PowPositive
  <1>2. ~Splitting /\ IndexDepth = InitDepth /\ Established = 0..(InitCap - 1)
    BY DEF Init, Splitting, IndexDepth, Established, Segments
  <1>3. ASSUME NEW s \in Established
        PROVE  OldDepth(s) = InitDepth /\ OldPattern(s) = s
    BY <1>2, <1>3 DEF Init, OldDepth, OldPattern
  <1>4. ASSUME NEW i \in 0..(Pow2[InitDepth] - 1), NEW s \in Established
        PROVE  (Owner(i) = s) <=> Shr(i, IndexDepth - OldDepth(s)) = OldPattern(s)
    <2>1. i \in Nat /\ i \in 0..(InitCap - 1) /\ InitDepth - InitDepth = 0
      BY <1>1
    <2>2. Owner(i) = i
      BY <2>1 DEF Init, Owner, Moved
    <2> QED BY <1>2, <1>3, <2>1, <2>2, ShrZero
  <1> QED BY <1>1, <1>2, <1>3, <1>4 DEF DirInv, Init, Splitting

\* The steps that leave the directory, the depths and the patterns alone.
LEMMA FrameDirInv ==
  ASSUME TypeInv, DirInv,
         UNCHANGED <<dir, nseg, local_depth, pattern>>,
         IndexDepth' = IndexDepth,
         \/ ~Splitting /\ ~Splitting' /\ pc' # "publish"
         \/ pc = "copy" /\ pc' = "copy" /\ UNCHANGED <<op, target>>
  PROVE  DirInv'
  <1>1. pc' \notin {"pattern", "directory"} /\ pc \notin {"pattern", "directory"}
    BY DEF Splitting
  <1>2. Splitting' <=> Splitting
    BY DEF Splitting
  <1>3. Established' = Established /\ NewSeg' = NewSeg
    BY <1>2 DEF Established, NewSeg, Segments
  <1>4. \A s : OldDepth(s)' = OldDepth(s) /\ OldPattern(s)' = OldPattern(s)
    BY <1>1 DEF OldDepth, OldPattern
  <1>5. \A i : Owner(i)' = Owner(i) /\ ~Moved(i) /\ ~Moved(i)'
    BY <1>1 DEF Owner, Moved
  <1> QED BY <1>1, <1>2, <1>3, <1>4, <1>5 DEF DirInv, Splitting

\* A step out of a split has to make the directory agree with depths and
\* patterns.
LEMMA QuietDirInv ==
  ASSUME ~Splitting', pc' # "publish",
         \A s \in Segments' : local_depth'[s] <= IndexDepth',
         \A i \in 0..(Pow2[IndexDepth'] - 1), s \in Segments' :
            (dir'[i] = s) <=> Shr(i, IndexDepth' - local_depth'[s]) = pattern'[s]
  PROVE  DirInv'
  BY DEF DirInv, Splitting, Established, OldDepth, OldPattern, Owner, Moved

\* Conversely, outside a split DirInv is that agreement.
LEMMA QuietFacts ==
  ASSUME DirInv, ~Splitting
  PROVE  /\ \A s \in Segments : local_depth[s] <= IndexDepth
         /\ \A i \in 0..(Pow2[IndexDepth] - 1), s \in Segments :
              (dir[i] = s) <=> Shr(i, IndexDepth - local_depth[s]) = pattern[s]
  BY DEF DirInv, Splitting, Established, OldDepth, OldPattern, Owner, Moved

\* The entry that completes the upper half: the new segment takes its place
\* in the partition, and the old one keeps the lower half.
LEMMA LastEntry ==
  ASSUME TypeInv, TypeInv', DirInv, pc = "directory", pc' = "probe",
         local_depth[target] <= global_depth,
         dir' = [dir EXCEPT ![UpperHalf + at] = NewSeg],
         at + 1 = ChunkSize \div 2,
         UNCHANGED <<capacity, global_depth, nseg, local_depth, pattern>>
  PROVE  DirInv'
  <1> DEFINE n == global_depth - local_depth[target]
             P == OldPattern(target)
  <1>1. /\ target \in Segments /\ target # NewSeg /\ NewSeg \in Segments
        /\ global_depth \in 1..HashBits /\ IndexDepth = global_depth
    BY SplitFacts DEF Splitting
  <1>2. /\ n \in 0..HashBits /\ n + 1 <= HashBits /\ P \in Nat
        /\ Pow2[n] \in Nat \ {0}
        /\ OldDepth(target) = local_depth[target] - 1
        /\ global_depth - OldDepth(target) = n + 1
        /\ ChunkSize \div 2 = Pow2[n]
        /\ UpperHalf \in Nat
        /\ \A i \in Nat : /\ Shr(i, n + 1) = Shr(i, n) \div 2
                          /\ Shr(i, n) \in Nat
                          /\ Shr(i, n) = 2 * P + 1 <=> i \in UpperHalf..(UpperHalf + Pow2[n] - 1)
    BY ChunkFacts
  <1>3. /\ local_depth[NewSeg] = local_depth[target]
        /\ pattern[target] = 2 * P
        /\ pattern[NewSeg] = 2 * P + 1
    BY DEF DirInv
  <1> HIDE DEF n, P
  <1>4. IndexDepth' = IndexDepth /\ Segments' = Segments /\ ~Splitting'
    BY <1>1 DEF IndexDepth, Segments, Splitting
  <1>5. ASSUME NEW s \in Segments
        PROVE  local_depth[s] <= IndexDepth
    BY <1>1, <1>3, <1>5 DEF DirInv, Established, Splitting, OldDepth
  <1>6. at \in Nat /\ at + 1 = Pow2[n]
    BY <1>2 DEF TypeInv, TypeOK
  <1>7. ASSUME NEW i \in 0..(Pow2[global_depth] - 1)
        PROVE  /\ i \in Nat
               /\ dir'[i] = NewSeg <=> Shr(i, n) = 2 * P + 1
               /\ dir'[i] # NewSeg => dir'[i] = Owner(i)
               /\ dir'[i] = NewSeg => Owner(i) = target
    <2>1. i \in Nat /\ i \in 0..(capacity - 1)
      <3>1. ArrayLength = capacity /\ capacity \in Nat
        BY DEF TypeInv, TypeOK, ArrayLength
      <3>2. Pow2[global_depth] <= capacity
        BY <1>1, <3>1 DEF TypeInv
      <3>3. Pow2[global_depth] \in Nat
        BY <1>1, HashAssumption, PowPositive
      <3> QED BY <3>1, <3>2, <3>3, <1>7, <3>1
    <2>2. dir'[i] = IF i = UpperHalf + at THEN NewSeg ELSE dir[i]
      BY <2>1 DEF TypeInv, TypeOK, ArrayLength
    <2>3. (dir[i] = NewSeg) <=> Moved(i)
      BY <1>1, <1>7 DEF DirInv, Splitting
    <2>4. Moved(i) <=> i \in UpperHalf..(UpperHalf + at - 1)
      BY DEF Moved
    <2>5. i \in UpperHalf..(UpperHalf + Pow2[n] - 1) <=> Moved(i) \/ i = UpperHalf + at
      BY <1>2, <1>6, <2>1, <2>4
    <2>6. i = UpperHalf + at => Owner(i) = target
      <3>1. SUFFICES ASSUME i = UpperHalf + at PROVE Owner(i) = target
        OBVIOUS
      <3>2. Shr(i, n) = 2 * P + 1
        BY <1>2, <2>1, <2>5, <3>1
      <3>3. Shr(i, n + 1) = P
        <4>1. Shr(i, n + 1) = Shr(i, n) \div 2 /\ Shr(i, n) \in Nat /\ P \in Nat
          BY <1>2, <2>1
        <4> QED BY <3>2, <4>1, HalfIs
      <3> QED BY <1>1, <1>2, <1>7, <3>3 DEF DirInv, Established, Splitting, P
    <2>7. Moved(i) => Owner(i) = target
      BY DEF Owner
    <2>8. ~Moved(i) => Owner(i) = dir[i]
      BY DEF Owner
    <2> QED BY <1>2, <2>1, <2>2, <2>3, <2>5, <2>6, <2>7, <2>8
  <1>8. ASSUME NEW i \in 0..(Pow2[global_depth] - 1), NEW s \in Segments
        PROVE  (dir'[i] = s) <=> Shr(i, global_depth - local_depth[s]) = pattern[s]
    <2>1. CASE s = NewSeg
      BY <1>3, <1>7, <2>1 DEF n
    <2>2. CASE s = target
      <3>1. (Owner(i) = target) <=> Shr(i, n + 1) = P
        BY <1>1, <1>2 DEF DirInv, Established, Splitting, P
      <3>2. (Owner(i) = target) <=> Shr(i, n) \in {2 * P, 2 * P + 1}
        <4>1. Shr(i, n + 1) = Shr(i, n) \div 2 /\ Shr(i, n) \in Nat /\ P \in Nat
          BY <1>2, <1>7
        <4> QED BY <3>1, <4>1, HalfIs
      <3>3. (dir'[i] = target) <=> Shr(i, n) = 2 * P
        BY <1>1, <1>2, <1>7, <3>2
      <3> QED BY <1>3, <2>2, <3>3 DEF n
    <2>3. CASE s # NewSeg /\ s # target
      <3>1. OldDepth(s) = local_depth[s] /\ OldPattern(s) = pattern[s]
        BY <2>3 DEF OldDepth, OldPattern
      <3>2. (Owner(i) = s) <=> Shr(i, global_depth - local_depth[s]) = pattern[s]
        BY <1>1, <2>3, <3>1 DEF DirInv, Established, Splitting
      <3> QED BY <1>7, <2>3, <3>2
    <2> QED BY <2>1, <2>2, <2>3
  <1> QED
    <2>1. ~Splitting' /\ pc' # "publish"
      BY <1>4
    <2>2. \A s \in Segments' : local_depth'[s] <= IndexDepth'
      BY <1>4, <1>5
    <2>3. \A i \in 0..(Pow2[IndexDepth'] - 1), s \in Segments' :
            (dir'[i] = s) <=> Shr(i, IndexDepth' - local_depth'[s]) = pattern'[s]
      BY <1>1, <1>4, <1>8
    <2> QED BY <2>1, <2>2, <2>3, QuietDirInv

\* An entry before the last one of the upper half.
LEMMA MiddleEntry ==
  ASSUME TypeInv, TypeInv', DirInv, pc = "directory", pc' = "directory",
         local_depth[target] <= global_depth,
         dir' = [dir EXCEPT ![UpperHalf + at] = NewSeg],
         at + 1 < ChunkSize \div 2, at' = at + 1,
         UNCHANGED <<capacity, global_depth, nseg, local_depth, pattern, op, target>>
  PROVE  DirInv'
  <1> DEFINE n == global_depth - local_depth[target]
             P == OldPattern(target)
  <1>1. /\ target \in Segments /\ target # NewSeg /\ NewSeg \in Segments
        /\ global_depth \in 1..HashBits /\ IndexDepth = global_depth
    BY SplitFacts DEF Splitting
  <1>2. /\ P \in Nat /\ Pow2[n] \in Nat \ {0}
        /\ global_depth - OldDepth(target) = n + 1
        /\ ChunkSize \div 2 = Pow2[n]
        /\ UpperHalf \in Nat
        /\ \A i \in Nat : /\ Shr(i, n + 1) = Shr(i, n) \div 2
                          /\ Shr(i, n) \in Nat
                          /\ Shr(i, n) = 2 * P + 1 <=> i \in UpperHalf..(UpperHalf + Pow2[n] - 1)
    BY ChunkFacts
  <1> HIDE DEF n, P
  <1>3. /\ IndexDepth' = IndexDepth /\ Segments' = Segments /\ Established' = Established
        /\ NewSeg' = NewSeg /\ ChunkSize' = ChunkSize /\ UpperHalf' = UpperHalf
        /\ Splitting /\ Splitting'
    BY <1>1 DEF IndexDepth, Segments, Splitting, Established, NewSeg, ChunkSize,
                UpperHalf, ChunkStart, X
  <1>4. \A s : OldDepth(s)' = OldDepth(s) /\ OldPattern(s)' = OldPattern(s)
    BY DEF OldDepth, OldPattern
  <1>5. at \in Nat /\ at + 1 < Pow2[n]
    <2>1. at \in Nat
      BY DEF TypeInv, TypeOK
    <2> QED BY <2>1, <1>2
  <1>6. ASSUME NEW i \in 0..(Pow2[global_depth] - 1)
        PROVE  Owner(i)' = Owner(i) /\ ((dir'[i] = NewSeg) <=> Moved(i)')
    <2>1. i \in Nat /\ i \in 0..(capacity - 1)
      <3>1. ArrayLength = capacity /\ capacity \in Nat
        BY DEF TypeInv, TypeOK, ArrayLength
      <3>2. Pow2[global_depth] <= capacity
        BY <1>1, <3>1 DEF TypeInv
      <3>3. Pow2[global_depth] \in Nat
        BY <1>1, HashAssumption, PowPositive
      <3> QED BY <3>1, <3>2, <3>3, <1>6
    <2>2. dir'[i] = IF i = UpperHalf + at THEN NewSeg ELSE dir[i]
      BY <2>1 DEF TypeInv, TypeOK, ArrayLength
    <2>3. (dir[i] = NewSeg) <=> Moved(i)
      BY <1>1, <1>6 DEF DirInv, Splitting
    <2>4. /\ Moved(i) <=> i \in UpperHalf..(UpperHalf + at - 1)
          /\ Moved(i)' <=> i \in UpperHalf..(UpperHalf + at' - 1)
      <3>1. Moved(i) <=> i \in UpperHalf..(UpperHalf + at - 1)
        BY DEF Moved
      <3>2. Moved(i)' <=> i \in UpperHalf'..(UpperHalf' + at' - 1)
        BY DEF Moved
      <3> QED BY <3>1, <3>2, <1>3
    <2>5. Moved(i)' <=> Moved(i) \/ i = UpperHalf + at
      BY <1>2, <1>5, <2>1, <2>4
    <2>6. i = UpperHalf + at => Owner(i) = target
      <3>1. SUFFICES ASSUME i = UpperHalf + at PROVE Owner(i) = target
        OBVIOUS
      <3>2. Shr(i, n) = 2 * P + 1
        BY <1>2, <1>5, <2>1, <3>1
      <3>3. Shr(i, n + 1) = P
        <4>1. Shr(i, n + 1) = Shr(i, n) \div 2 /\ Shr(i, n) \in Nat /\ P \in Nat
          BY <1>2, <2>1
        <4> QED BY <3>2, <4>1, HalfIs
      <3> QED BY <1>1, <1>2, <1>6, <3>3 DEF DirInv, Established, Splitting, P
    <2>7. Owner(i) = (IF Moved(i) THEN target ELSE dir[i]) /\ Owner(i)' = IF Moved(i)' THEN target ELSE dir'[i]
      BY DEF Owner
    <2> QED BY <2>2, <2>3, <2>5, <2>6, <2>7
  <1>7. /\ \A s \in Established' : OldDepth(s)' <= IndexDepth'
        /\ \A i \in 0..(Pow2[IndexDepth'] - 1), s \in Established' :
             (Owner(i)' = s) <=> Shr(i, IndexDepth' - OldDepth(s)') = OldPattern(s)'
    BY <1>1, <1>3, <1>4, <1>6 DEF DirInv
  <1>8. \A i \in 0..(Pow2[IndexDepth'] - 1) : (dir'[i] = NewSeg') <=> Moved(i)'
    BY <1>1, <1>3, <1>6
  <1>9. /\ target' \in Established'
        /\ Prefix(op'.key, OldDepth(target)') = OldPattern(target)'
        /\ OldDepth(target)' >= 1
        /\ local_depth'[NewSeg'] = local_depth'[target']
        /\ pattern'[target'] = 2 * OldPattern(target)'
        /\ pattern'[NewSeg'] = 2 * OldPattern(target)' + 1
    BY <1>3, <1>4 DEF DirInv
  <1>10. /\ local_depth'[target'] <= global_depth' => at' < ChunkSize' \div 2
         /\ local_depth'[target'] > global_depth' => at' = 0
    <2>1. local_depth'[target'] <= global_depth' /\ ~(local_depth'[target'] > global_depth')
      BY <1>1 DEF TypeInv, TypeOK
    <2> QED BY <2>1, <1>3
  <1> QED BY <1>7, <1>8, <1>9, <1>10 DEF DirInv

\* A doubling: the entries of the segment being split are told apart by the
\* new bit, every other segment's entries are repeated.
LEMMA Doubling ==
  ASSUME TypeInv, TypeInv', DirInv, SwapDirectory
  PROVE  DirInv'
  <1> DEFINE P == OldPattern(target)
  <1>1. /\ pc = "directory" /\ pc' = "capacity" /\ local_depth[target] > global_depth
        /\ UNCHANGED <<capacity, global_depth, nseg, local_depth, pattern>>
    BY DEF SwapDirectory
  <1>2. /\ target \in Segments /\ target # NewSeg /\ NewSeg \in Segments
        /\ op.key \in Keys
        /\ global_depth \in 1..HashBits /\ HashBits \in Nat /\ IndexDepth = global_depth
        /\ OldDepth(target) \in 0..global_depth /\ P \in Nat
        /\ Prefix(op.key, OldDepth(target)) = P
    BY <1>1, SplitFacts DEF Splitting
  <1>3. local_depth[target] = global_depth + 1 /\ OldDepth(target) = global_depth
    <2>1. OldDepth(target) = local_depth[target] - 1
      BY <1>1 DEF OldDepth
    <2>2. local_depth[target] \in Nat
      BY <1>2, SMTT(30) DEF TypeInv, TypeOK
    <2> QED BY <1>1, <1>2, <2>1, <2>2
  <1>4. X = P
    BY <1>2, <1>3 DEF X
  <1>5. /\ local_depth[NewSeg] = local_depth[target]
        /\ pattern[target] = 2 * P
        /\ pattern[NewSeg] = 2 * P + 1
        /\ at = 0
    BY <1>1 DEF DirInv
  <1> HIDE DEF P
  <1>6. IndexDepth' = global_depth + 1 /\ Segments' = Segments /\ ~Splitting' /\ pc' # "publish"
    BY <1>1 DEF IndexDepth, Segments, Splitting
  <1>7. ASSUME NEW s \in Segments
        PROVE  /\ local_depth[s] \in 1..(global_depth + 1)
               /\ s \notin {target, NewSeg} => local_depth[s] <= global_depth
    <2>1. local_depth[s] \in 1..HashBits
      BY DEF TypeInv, TypeOK
    <2>2. s \notin {target, NewSeg} => local_depth[s] <= global_depth
      BY <1>1, <1>2 DEF DirInv, Established, Splitting, OldDepth
    <2> QED BY <1>2, <1>3, <1>5, <2>1, <2>2
  <1>8. global_depth + 1 \in 0..HashBits /\ global_depth \in 0..HashBits /\ 1 \in 0..HashBits
    BY <1>2, <1>6 DEF TypeInv
  <1>9. ASSUME NEW i \in 0..(Pow2[global_depth] - 1)
        PROVE  /\ i \in Nat
               /\ dir[i] # NewSeg
               /\ dir[i] = target <=> i = P
               /\ \A s \in Segments \ {target, NewSeg} :
                    (dir[i] = s) <=> Shr(i, global_depth - local_depth[s]) = pattern[s]
    <2>1. i \in Nat
      BY <1>8, PowPositive
    <2>2. dir[i] # NewSeg /\ Owner(i) = dir[i]
      <3>1. X \in Nat
        BY <1>2, <1>4
      <3>2. ChunkSize \in Nat \ {0}
        BY <1>2, <1>3, <1>8, PowPositive DEF ChunkSize
      <3>3. UpperHalf \in Int
        BY <3>1, <3>2 DEF UpperHalf, ChunkStart
      <3>4. ~Moved(i)
        BY <1>5, <3>3 DEF Moved
      <3> QED BY <1>1, <1>2, <1>9, <3>4 DEF DirInv, Splitting, Owner
    <2>3. ASSUME NEW s \in Segments \ {NewSeg}
          PROVE  (dir[i] = s) <=> Shr(i, global_depth - OldDepth(s)) = OldPattern(s)
      BY <1>1, <1>2, <1>9, <2>2 DEF DirInv, Established, Splitting
    <2>4. (dir[i] = target) <=> i = P
      <3>1. (dir[i] = target) <=> Shr(i, global_depth - OldDepth(target)) = P
        BY <1>2, <2>3 DEF P
      <3>2. global_depth - OldDepth(target) = 0
        BY <1>2, <1>3
      <3> QED BY <2>1, <3>1, <3>2, ShrZero
    <2>5. \A s : s # target => OldDepth(s) = local_depth[s] /\ OldPattern(s) = pattern[s]
      BY DEF OldDepth, OldPattern
    <2> QED BY <2>1, <2>2, <2>3, <2>4, <2>5
  <1>10. ASSUME NEW j \in 0..(Pow2[global_depth + 1] - 1)
         PROVE  /\ j \in Nat
                /\ j \div 2 \in 0..(Pow2[global_depth] - 1)
                /\ dir'[j] = IF j \div 2 # P THEN dir[j \div 2]
                             ELSE IF j % 2 = 0 THEN target ELSE NewSeg
    <2>1. Pow2[global_depth] \in Nat /\ Pow2[global_depth + 1] = 2 * Pow2[global_depth]
      BY <1>2, <1>8, PowPositive, PowNext
    <2>2. Pow2[global_depth] <= capacity /\ capacity \in Nat
      BY <1>1, <1>2 DEF TypeInv, TypeOK, ArrayLength
    <2>3. j \in 0..(2 * capacity - 1)
      BY <2>1, <2>2
    <2> QED BY <1>4, <2>1, <2>3 DEF SwapDirectory, DoubledLength
  <1>11. ASSUME NEW j \in 0..(Pow2[global_depth + 1] - 1), NEW s \in Segments
         PROVE  (dir'[j] = s) <=> Shr(j, global_depth + 1 - local_depth[s]) = pattern[s]
    <2>1. CASE s \in {target, NewSeg}
      <3>1. Shr(j, global_depth + 1 - local_depth[s]) = j
        BY <1>2, <1>3, <1>5, <1>10, <2>1, ShrZero
      <3>2. (dir'[j] = target) <=> j = 2 * P
        BY <1>2, <1>9, <1>10
      <3>3. (dir'[j] = NewSeg) <=> j = 2 * P + 1
        BY <1>2, <1>9, <1>10
      <3> QED BY <1>5, <2>1, <3>1, <3>2, <3>3
    <2>2. CASE s \notin {target, NewSeg}
      <3> DEFINE d == global_depth - local_depth[s]
      <3>1. d \in 0..HashBits /\ 1 + d <= HashBits /\ global_depth + 1 - local_depth[s] = 1 + d
        BY <1>2, <1>7, <1>8, <2>2
      <3>2. Shr(j, 1 + d) = Shr(j \div 2, d)
        BY <1>8, <1>10, <3>1, ShrShr, ShrOne
      <3>3. (dir[j \div 2] = s) <=> Shr(j \div 2, d) = pattern[s]
        BY <1>9, <1>10, <2>2
      <3>4. (dir'[j] = s) <=> (dir[j \div 2] = s)
        BY <1>9, <1>10, <2>2
      <3> QED BY <3>1, <3>2, <3>3, <3>4
    <2> QED BY <2>1, <2>2
  <1> QED
    <2>1. \A s \in Segments' : local_depth'[s] <= IndexDepth'
      BY <1>1, <1>2, <1>6, <1>7
    <2>2. \A i \in 0..(Pow2[IndexDepth'] - 1), s \in Segments' :
            (dir'[i] = s) <=> Shr(i, IndexDepth' - local_depth'[s]) = pattern'[s]
      <3>1. SUFFICES ASSUME NEW i \in 0..(Pow2[global_depth + 1] - 1), NEW s \in Segments
                     PROVE  (dir'[i] = s) <=> Shr(i, IndexDepth' - local_depth'[s]) = pattern'[s]
        BY <1>6
      <3>2. (dir'[i] = s) <=> Shr(i, global_depth + 1 - local_depth[s]) = pattern[s]
        BY <1>11
      <3>3. IndexDepth' - local_depth'[s] = global_depth + 1 - local_depth[s]
        BY <1>1, <1>2, <1>6, <1>7
      <3>4. pattern'[s] = pattern[s]
        BY <1>1
      <3> QED BY <3>2, <3>3, <3>4
    <2> QED BY <1>6, <2>1, <2>2, QuietDirInv

\* The segment a key is looked for in is the one whose pattern it has.
LEMMA KeyHome ==
  ASSUME TypeInv, DirInv, ~Splitting, NEW k \in Keys
  PROVE  /\ Prefix(k, IndexDepth) \in 0..(Pow2[IndexDepth] - 1)
         /\ \A s \in Segments :
              (dir[Prefix(k, IndexDepth)] = s) <=> Prefix(k, local_depth[s]) = pattern[s]
  <1>1. IndexDepth \in 0..HashBits /\ HashBits \in Nat
    BY HashAssumption DEF TypeInv, TypeOK, IndexDepth
  <1>2. Prefix(k, IndexDepth) \in 0..(Pow2[IndexDepth] - 1)
    BY <1>1, PrefixRange
  <1>3. ASSUME NEW s \in Segments
        PROVE  (dir[Prefix(k, IndexDepth)] = s) <=> Prefix(k, local_depth[s]) = pattern[s]
    <2>1. local_depth[s] \in 0..IndexDepth
      BY <1>1, QuietFacts DEF TypeInv, TypeOK
    <2>2. Shr(Prefix(k, IndexDepth), IndexDepth - local_depth[s]) = Prefix(k, local_depth[s])
      BY <1>1, <2>1, PrefixOfPrefix
    <2> QED BY <1>2, <2>2, QuietFacts
  <1> QED BY <1>2, <1>3

\* Before a doubling the entry of the key is the only one of its segment.
LEMMA OwnEntry ==
  ASSUME TypeInv, DirInv, pc = "directory", local_depth[target] > global_depth
  PROVE  X \in 0..(capacity - 1) /\ dir[X] = target
  <1>1. /\ target \in Segments /\ op.key \in Keys
        /\ global_depth \in 1..HashBits /\ HashBits \in Nat /\ IndexDepth = global_depth
        /\ OldDepth(target) \in 0..global_depth
        /\ Prefix(op.key, OldDepth(target)) = OldPattern(target)
    BY SplitFacts DEF Splitting
  <1>2. local_depth[target] = global_depth + 1
    BY <1>1 DEF OldDepth, TypeInv, TypeOK
  <1>3. X \in 0..(Pow2[global_depth] - 1) /\ X \in Nat
    BY <1>1, PrefixRange, PowPositive DEF X
  <1>4. Shr(X, global_depth - OldDepth(target)) = OldPattern(target)
    BY <1>1, PrefixOfPrefix DEF X
  <1>5. Owner(X) = target
    BY <1>1, <1>3, <1>4, SplitFacts DEF DirInv, Established, Splitting
  <1>6. UpperHalf \in Int
    <2>1. global_depth - (local_depth[target] - 1) = 0 /\ 0 \in 0..HashBits
      BY <1>1, <1>2
    <2>2. ChunkSize \in Nat \ {0}
      BY <2>1, PowPositive DEF ChunkSize
    <2> QED BY <1>3, <2>2 DEF UpperHalf, ChunkStart
  <1>7. ~Moved(X)
    BY <1>6 DEF Moved, DirInv
  <1> QED BY <1>5, <1>7, TargetType DEF Owner

\* With one entry left to tell apart, the upper half is that entry's odd twin.
LEMMA SiblingIsUpperHalf ==
  ASSUME TypeInv, DirInv, pc = "directory", local_depth[target] = global_depth
  PROVE  SiblingIndex = UpperHalf + at /\ at + 1 = ChunkSize \div 2
  <1>1. global_depth \in 1..HashBits /\ op.key \in Keys /\ HashBits \in Nat
    BY SplitFacts DEF Splitting
  <1>2. ChunkSize = 2
    <2>1. global_depth - (local_depth[target] - 1) = 1
      BY <1>1
    <2> QED BY <2>1, Pow2Assumption DEF ChunkSize
  <1>3. at = 0
    BY <1>1, <1>2 DEF DirInv, TypeInv, TypeOK
  <1>4. X \in Nat
    BY <1>1, PrefixRange, PowPositive DEF X
  <1> QED BY <1>2, <1>3, <1>4 DEF SiblingIndex, UpperHalf, ChunkStart

LEMMA StepDirInv == TypeInv /\ TypeInv' /\ DirInv /\ [Next]_vars => DirInv'
  <1> SUFFICES ASSUME TypeInv, TypeInv', DirInv, [Next]_vars PROVE DirInv'
    OBVIOUS
  <1>1. ASSUME NEW k \in Keys, NEW v \in Values, NEW r \in BOOLEAN, Call(k, v, r)
        PROVE  DirInv'
    BY <1>1, FrameDirInv DEF Call, table, Splitting, IndexDepth
  <1>2. CASE StoreValue
    <2>1. /\ pc = "probe" /\ pc' = "publish" /\ target' = Target
          /\ UNCHANGED <<dir, capacity, global_depth, nseg, local_depth, pattern, op>>
      BY <1>2 DEF StoreValue
    <2>2. Target \in Segments /\ op.key \in Keys /\ IndexDepth = global_depth
      BY <2>1, TargetType, OpType DEF TypeInv, IndexDepth
    <2>3. Prefix(op.key, local_depth[Target]) = pattern[Target]
      BY <2>1, <2>2, KeyHome DEF Target, Splitting
    <2>4. ~Splitting /\ ~Splitting' /\ IndexDepth' = IndexDepth /\ Segments' = Segments
      BY <2>1 DEF Splitting, IndexDepth, Segments
    <2> QED BY <2>1, <2>2, <2>3, <2>4, QuietFacts
        DEF DirInv, Splitting, Established, OldDepth, OldPattern, Owner, Moved
  <1>3. CASE StoreKey
    <2>1. /\ pc = "publish" /\ pc' = "idle"
          /\ UNCHANGED <<dir, capacity, global_depth, nseg, local_depth, pattern>>
      BY <1>3 DEF StoreKey
    <2> QED BY <2>1, FrameDirInv DEF Splitting, IndexDepth
  <1>4. CASE ReturnFalse
    BY <1>4, FrameDirInv DEF ReturnFalse, WindowFull, table, Splitting, IndexDepth
  <1>5. CASE AllocateSibling
    <2>1. /\ pc = "probe" /\ pc' = "copy" /\ nseg' = nseg + 1 /\ target' = Target
          /\ local_depth' = Extend(local_depth, local_depth[Target] + 1)
          /\ pattern' = Extend(pattern, 0)
          /\ UNCHANGED <<dir, capacity, global_depth, op>>
      BY <1>5 DEF AllocateSibling, WindowFull
    <2>2. Target \in Segments /\ op.key \in Keys /\ nseg \in Nat
      BY <2>1, TargetType, OpType DEF TypeInv, TypeOK
    <2>3. ~Splitting /\ Splitting' /\ IndexDepth' = IndexDepth /\ IndexDepth = global_depth
      BY <2>1 DEF Splitting, IndexDepth
    <2>4. NewSeg' = nseg /\ Established' = Segments /\ nseg \notin Segments
      BY <2>1, <2>2, <2>3 DEF NewSeg, Established, Segments
    <2>5. ASSUME NEW s \in Segments
          PROVE  OldDepth(s)' = local_depth[s] /\ OldPattern(s)' = pattern[s]
      BY <2>1, <2>2, <2>5 DEF OldDepth, OldPattern, Extend, Segments
    <2>6. Prefix(op.key, local_depth[Target]) = pattern[Target]
      BY <2>2, <2>3, KeyHome DEF Target
    <2>7. ASSUME NEW i \in 0..(Pow2[IndexDepth] - 1)
          PROVE  Owner(i)' = dir[i] /\ dir'[i] # NewSeg' /\ ~Moved(i)'
      <3>1. ArrayLength = capacity /\ capacity \in Nat /\ Pow2[IndexDepth] \in Nat
        BY <2>1, HashAssumption, PowPositive, SMTT(30) DEF TypeInv, TypeOK, ArrayLength, IndexDepth
      <3>2. i \in 0..(capacity - 1)
        BY <3>1 DEF TypeInv
      <3>3. dir[i] \in Segments
        BY <3>1, <3>2 DEF TypeInv, TypeOK
      <3> QED BY <2>1, <2>4, <3>3 DEF Owner, Moved
    <2> QED BY <2>1, <2>2, <2>3, <2>4, <2>5, <2>6, <2>7, QuietFacts DEF DirInv
  <1>6. CASE CopyPair
    BY <1>6, FrameDirInv DEF CopyPair, Splitting, IndexDepth
  <1>7. CASE Deepen
    <2>1. /\ pc = "copy" /\ pc' = "pattern" /\ at' = 0
          /\ local_depth' = [local_depth EXCEPT ![target] = @ + 1]
          /\ UNCHANGED <<dir, capacity, global_depth, nseg, pattern, op, target>>
      BY <1>7 DEF Deepen
    <2>2. /\ target \in Segments /\ target # NewSeg /\ NewSeg \in Segments
          /\ local_depth[target] \in 1..HashBits
          /\ local_depth[NewSeg] = local_depth[target] + 1
      BY <2>1, SplitFacts DEF Splitting, TypeInv, TypeOK
    <2>3. /\ Splitting /\ Splitting' /\ IndexDepth' = IndexDepth
          /\ NewSeg' = NewSeg /\ Established' = Established
      BY <2>1 DEF Splitting, IndexDepth, NewSeg, Established, Segments
    <2>4. ASSUME NEW s \in Segments
          PROVE  OldDepth(s)' = OldDepth(s) /\ OldPattern(s)' = OldPattern(s)
      BY <2>1, <2>2 DEF OldDepth, OldPattern, TypeInv, TypeOK
    <2>5. \A i : Owner(i)' = Owner(i) /\ ~Moved(i) /\ ~Moved(i)'
      BY <2>1 DEF Owner, Moved
    <2>6. OldDepth(target)' >= 1 /\ local_depth'[NewSeg] = local_depth'[target]
      BY <2>1, <2>2, <2>4 DEF OldDepth, TypeInv, TypeOK
    <2>7. Established \subseteq Segments
      BY DEF Established
    <2> QED BY <2>1, <2>2, <2>3, <2>4, <2>5, <2>6, <2>7 DEF DirInv
  <1>8. CASE SetPatterns
    <2>1. /\ pc = "pattern" /\ pc' = "directory"
          /\ pattern' = [pattern EXCEPT ![target] = OldPrefixDoubled(local_depth[target]),
                                        ![NewSeg] = OldPrefixDoubled(local_depth[NewSeg]) + 1]
          /\ UNCHANGED <<dir, capacity, global_depth, nseg, local_depth, op, target, at>>
      BY <1>8 DEF SetPatterns
    <2>2. /\ target \in Segments /\ target # NewSeg /\ NewSeg \in Segments
          /\ global_depth \in 1..HashBits /\ HashBits \in Nat
          /\ local_depth[target] \in 1..HashBits
          /\ local_depth[NewSeg] = local_depth[target]
          /\ at = 0
          /\ OldPattern(target) \in Nat /\ OldDepth(target) \in 0..global_depth
          /\ Prefix(op.key, OldDepth(target)) = OldPattern(target)
      BY <2>1, SplitFacts DEF Splitting, TypeInv, TypeOK, DirInv
    <2>3. OldDepth(target) = local_depth[target] - 1
      BY <2>1 DEF OldDepth
    <2>4. OldPrefixDoubled(local_depth[target]) = 2 * OldPattern(target)
      <3>1. HashBits - local_depth[target] + 1 = HashBits - OldDepth(target)
        BY <2>2, <2>3
      <3> QED BY <2>2, <3>1 DEF OldPrefixDoubled, Prefix
    <2>5. /\ pattern'[target] = 2 * OldPattern(target)
          /\ pattern'[NewSeg] = 2 * OldPattern(target) + 1
      BY <2>1, <2>2, <2>4 DEF TypeInv, TypeOK
    <2>6. /\ Splitting /\ Splitting' /\ IndexDepth' = IndexDepth
          /\ NewSeg' = NewSeg /\ Established' = Established
          /\ Established = Segments \ {NewSeg}
      BY <2>1 DEF Splitting, IndexDepth, NewSeg, Established, Segments
    <2>7. ASSUME NEW s \in Established
          PROVE  OldDepth(s)' = OldDepth(s) /\ OldPattern(s)' = OldPattern(s)
      <3>1. OldDepth(s)' = OldDepth(s)
        BY <2>1 DEF OldDepth
      <3>2. CASE s = target
        <4>1. OldPattern(s)' = pattern'[target] \div 2
          BY <2>1, <3>2 DEF OldPattern
        <4> QED BY <2>2, <2>5, <3>1, <3>2, <4>1
      <3>3. CASE s # target
        BY <2>1, <2>6, <3>1, <3>3 DEF OldPattern, TypeInv, TypeOK
      <3> QED BY <3>2, <3>3
    <2>8. local_depth[target] <= global_depth => ChunkSize' \div 2 > 0
      <3>1. SUFFICES ASSUME local_depth[target] <= global_depth
                     PROVE  ChunkSize' \div 2 > 0
        OBVIOUS
      <3> DEFINE n == global_depth - local_depth[target]
      <3>2. n \in 0..HashBits /\ n + 1 <= HashBits /\ global_depth - (local_depth[target] - 1) = n + 1
        BY <2>2, <3>1
      <3>3. Pow2[n + 1] = 2 * Pow2[n] /\ Pow2[n] \in Nat \ {0}
        BY <3>2, PowNext, PowPositive
      <3> QED BY <2>1, <3>2, <3>3 DEF ChunkSize
    <2>9. UpperHalf' \in Int
      <3>1. X' \in Nat
        BY <2>1, <2>2, OpType, PrefixRange, PowPositive DEF X, TypeInv
      <3>2. ChunkSize' \in Nat \ {0}
        <4>1. global_depth - (local_depth[target] - 1) \in 0..HashBits
          BY <2>2, <2>3
        <4> QED BY <2>1, <4>1, PowPositive DEF ChunkSize
      <3> QED BY <3>1, <3>2 DEF UpperHalf, ChunkStart
    <2>10. \A i : Owner(i)' = Owner(i) /\ ~Moved(i) /\ ~Moved(i)'
      BY <2>1, <2>2, <2>9 DEF Owner, Moved
    <2>11. target \in Established
      BY <2>2, <2>6
    <2> QED BY <2>1, <2>2, <2>5, <2>6, <2>7, <2>8, <2>10, <2>11 DEF DirInv
  <1>9. CASE PointSibling
    <2>1. /\ pc = "directory" /\ pc' = "probe" /\ local_depth[target] = global_depth
          /\ dir' = [dir EXCEPT ![SiblingIndex] = NewSeg]
          /\ UNCHANGED <<capacity, global_depth, nseg, local_depth, pattern>>
      BY <1>9 DEF PointSibling, Retry
    <2>2. global_depth \in Nat /\ SiblingIndex = UpperHalf + at /\ at + 1 = ChunkSize \div 2
      BY <2>1, SiblingIsUpperHalf, SMTT(30) DEF TypeInv, TypeOK
    <2> QED BY <2>1, <2>2, LastEntry
  <1>10. CASE PointChunk
    <2>1. /\ pc = "directory" /\ local_depth[target] < global_depth
          /\ dir' = [dir EXCEPT ![UpperHalf + at] = NewSeg]
          /\ UNCHANGED <<capacity, global_depth, nseg, local_depth, pattern, op>>
          /\ local_depth[target] <= global_depth
      BY <1>10, SplitFacts DEF PointChunk, Splitting, TypeInv, TypeOK
    <2>2. CASE at + 1 < ChunkSize \div 2
      <3>1. pc' = "directory" /\ at' = at + 1 /\ target' = target
        BY <1>10, <2>1, <2>2 DEF PointChunk
      <3> QED BY <2>1, <2>2, <3>1, MiddleEntry
    <2>3. CASE ~(at + 1 < ChunkSize \div 2)
      <3>1. pc' = "probe"
        BY <1>10, <2>3 DEF PointChunk, Retry
      <3>2. at + 1 = ChunkSize \div 2
        <4>1. at \in Nat /\ at < ChunkSize \div 2
          BY <2>1 DEF DirInv, TypeInv, TypeOK
        <4>2. ChunkSize \div 2 \in Nat
          BY <2>1, ChunkFacts
        <4> QED BY <2>3, <4>1, <4>2
      <3> QED BY <2>1, <3>1, <3>2, LastEntry
    <2> QED BY <2>2, <2>3
  <1>11. CASE SwapDirectory
    BY <1>11, Doubling
  <1>12. CASE DoubleCapacity
    BY <1>12, FrameDirInv DEF DoubleCapacity, Splitting, IndexDepth
  <1>13. CASE DeepenGlobal
    BY <1>13, FrameDirInv DEF DeepenGlobal, Splitting, IndexDepth
  <1>14. CASE UNCHANGED vars
    BY <1>14 DEF vars, table, thread, DirInv, Splitting, Established, Segments, NewSeg,
                 IndexDepth, OldDepth, OldPattern, Owner, Moved, UpperHalf, ChunkStart,
                 ChunkSize, X
  <1> QED
    BY <1>1, <1>2, <1>3, <1>4, <1>5, <1>6, <1>7, <1>8, <1>9, <1>10, <1>11, <1>12, <1>13, <1>14
    DEF Next, Step, Insert, InsertOnly

\* The directory, the depths and the patterns agree at every point inside a
\* split or a doubling: the updates of a chunk and the stores of a doubling pass
\* through no state that sends a prefix to the wrong segment.
THEOREM DirectoryAgrees == Spec => []DirInv
  <1>1. Init => TypeInv /\ DirInv
    BY InitTypeInv, InitDirInv
  <1>2. TypeInv /\ DirInv /\ [Next]_vars => TypeInv' /\ DirInv'
    BY StepTypeInv, StepDirInv
  <1> QED BY <1>1, <1>2, PTL DEF Spec

LEMMA DirInvCoherent == DirInv => DirectoryCoherent
  <1> SUFFICES ASSUME DirInv, pc \in {"idle", "probe", "publish"}
               PROVE  \A i \in 0..(Pow2[global_depth] - 1), s \in Segments :
                        (dir[i] = s) <=> /\ local_depth[s] <= global_depth
                                         /\ Shr(i, global_depth - local_depth[s]) = pattern[s]
    BY DEF DirectoryCoherent
  <1>1. ~Splitting /\ IndexDepth = global_depth
    BY DEF Splitting, IndexDepth
  <1> QED BY <1>1, QuietFacts

\* The directory partitions the hash space between calls and after every
\* split and doubling, for every hash function and every input.
THEOREM DirectoryStaysCoherent == Spec => []DirectoryCoherent
  BY DirInvCoherent, DirectoryAgrees, PTL

-----------------------------------------------------------------------------
(* No segment is leaked. *)

\* Every segment but one that is still being filled is pointed to.
AllPointedTo == \A s \in Established : \E i \in 0..(ArrayLength - 1) : dir[i] = s

\* Pointing one more entry to the new segment leaves the lower half of the chunk
\* to the old one.
LEMMA EntryPoints ==
  ASSUME TypeInv, DirInv, AllPointedTo, pc = "directory",
         local_depth[target] <= global_depth,
         dir' = [dir EXCEPT ![UpperHalf + at] = NewSeg]
  PROVE  \A s \in Segments : \E i \in 0..(capacity - 1) : dir'[i] = s
  <1> DEFINE n == global_depth - local_depth[target]
             P == OldPattern(target)
             low == 2 * P * Pow2[n]
             e == UpperHalf + at
  <1>1. /\ target \in Segments /\ target # NewSeg /\ NewSeg \in Segments
        /\ global_depth \in 1..HashBits /\ IndexDepth = global_depth
        /\ Established = Segments \ {NewSeg}
    BY SplitFacts DEF Splitting, Established
  <1>2. /\ n \in 0..HashBits /\ n + 1 <= HashBits /\ P \in Nat
        /\ Pow2[n] \in Nat \ {0}
        /\ global_depth - OldDepth(target) = n + 1
        /\ ChunkSize \div 2 = Pow2[n]
        /\ UpperHalf = (2 * P + 1) * Pow2[n]
        /\ UpperHalf \in Nat
        /\ UpperHalf + Pow2[n] <= Pow2[global_depth]
        /\ \A i \in Nat : /\ Shr(i, n + 1) = Shr(i, n) \div 2
                          /\ Shr(i, n) \in Nat
                          /\ Shr(i, n) = 2 * P + 1 <=> i \in UpperHalf..(UpperHalf + Pow2[n] - 1)
    BY ChunkFacts
  <1>3. low \in Nat /\ low + Pow2[n] = UpperHalf /\ low < UpperHalf
    <2>1. \A m \in Nat \ {0}, q \in Nat :
            2 * q * m \in Nat /\ 2 * q * m + m = (2 * q + 1) * m /\ 2 * q * m < (2 * q + 1) * m
      OBVIOUS
    <2> QED BY <1>2, <2>1
  <1>4. Shr(low, n) = 2 * P
    <2>1. 2 * P \in Nat /\ low \in (2 * P * Pow2[n])..(2 * P * Pow2[n] + Pow2[n] - 1)
      BY <1>2, <1>3
    <2> QED BY <1>2, <1>3, <2>1, ShrInterval, SMTT(30)
  <1> HIDE DEF n, P, low
  <1>5. at \in Nat /\ at < Pow2[n]
    BY <1>2 DEF DirInv, TypeInv, TypeOK
  <1>6. Pow2[global_depth] <= capacity /\ capacity \in Nat /\ Pow2[global_depth] \in Nat
    BY <1>1, PowPositive DEF TypeInv, TypeOK, ArrayLength
  <1>7. /\ low \in 0..(Pow2[global_depth] - 1) /\ e \in 0..(Pow2[global_depth] - 1)
        /\ low \in 0..(capacity - 1) /\ e \in 0..(capacity - 1)
    BY <1>2, <1>3, <1>5, <1>6
  <1>8. ASSUME NEW i \in 0..(Pow2[global_depth] - 1), i \in Nat, Shr(i, n) \div 2 = P, ~Moved(i)
        PROVE  dir[i] = target
    BY <1>1, <1>2, <1>8 DEF DirInv, Established, Splitting, Owner, P
  <1>9. dir[low] = target
    <2>1. ~Moved(low) /\ Shr(low, n) \div 2 = P
      BY <1>2, <1>3, <1>4, <1>5 DEF Moved
    <2> QED BY <1>3, <1>7, <1>8, <2>1
  <1>10. dir[e] = target
    <2>1. Shr(e, n) = 2 * P + 1 /\ ~Moved(e) /\ e \in Nat
      BY <1>2, <1>5 DEF Moved
    <2>2. (2 * P + 1) \div 2 = P
      BY <1>2
    <2> QED BY <1>7, <1>8, <2>1, <2>2
  <1>11. low # e
    BY <1>2, <1>3, <1>5
  <1>12. \A i \in 0..(capacity - 1) : dir'[i] = IF i = e THEN NewSeg ELSE dir[i]
    BY DEF TypeInv, TypeOK, ArrayLength
  <1> HIDE DEF e
  <1>13. ASSUME NEW s \in Segments
         PROVE  \E i \in 0..(capacity - 1) : dir'[i] = s
    <2>1. CASE s = NewSeg
      BY <1>7, <1>12, <2>1
    <2>2. CASE s = target
      BY <1>7, <1>9, <1>11, <1>12, <2>2
    <2>3. CASE s \notin {target, NewSeg}
      <3>1. PICK i \in 0..(capacity - 1) : dir[i] = s
        BY <1>1, <2>3 DEF AllPointedTo, ArrayLength
      <3> QED BY <1>10, <1>12, <2>3, <3>1
    <2> QED BY <2>1, <2>2, <2>3
  <1> QED BY <1>13

LEMMA StepAllPointedTo ==
  TypeInv /\ TypeInv' /\ DirInv /\ AllPointedTo /\ [Next]_vars => AllPointedTo'
  <1> SUFFICES ASSUME TypeInv, TypeInv', DirInv, AllPointedTo, [Next]_vars
               PROVE  AllPointedTo'
    OBVIOUS
  <1>1. CASE UNCHANGED dir /\ ArrayLength' = ArrayLength /\ Established' = Established
    BY <1>1 DEF AllPointedTo
  <1>2. ASSUME UNCHANGED <<dir, capacity, nseg>>,
               \/ ~Splitting /\ ~Splitting' /\ (pc' = "capacity" <=> pc = "capacity")
               \/ Splitting /\ Splitting'
        PROVE  AllPointedTo'
    BY <1>1, <1>2 DEF ArrayLength, Established, Splitting, Segments, NewSeg
  <1>3. ASSUME NEW k \in Keys, NEW v \in Values, NEW r \in BOOLEAN, Call(k, v, r)
        PROVE  AllPointedTo'
    BY <1>2, <1>3 DEF Call, table, Splitting
  <1>4. CASE StoreValue \/ StoreKey \/ ReturnFalse
    BY <1>2, <1>4 DEF StoreValue, StoreKey, ReturnFalse, WindowFull, table, Splitting
  <1>5. CASE AllocateSibling
    <2>1. /\ pc = "probe" /\ pc' = "copy" /\ nseg' = nseg + 1 /\ nseg \in Nat
          /\ UNCHANGED <<dir, capacity>>
      BY <1>5 DEF AllocateSibling, WindowFull, TypeInv, TypeOK
    <2>2. Established' = Segments /\ Established = Segments
      BY <2>1 DEF Established, Splitting, Segments, NewSeg
    <2> QED BY <1>1, <2>1, <2>2 DEF ArrayLength
  <1>6. CASE CopyPair \/ Deepen \/ SetPatterns
    BY <1>2, <1>6 DEF CopyPair, Deepen, SetPatterns, Splitting
  <1>7. ASSUME pc = "directory", pc' \in {"probe", "directory"},
               local_depth[target] <= global_depth,
               dir' = [dir EXCEPT ![UpperHalf + at] = NewSeg],
               UNCHANGED <<capacity, nseg>>
        PROVE  AllPointedTo'
    <2>1. \A s \in Segments : \E i \in 0..(capacity - 1) : dir'[i] = s
      BY <1>7, EntryPoints
    <2> QED BY <1>7, <2>1 DEF AllPointedTo, Established, Segments, ArrayLength
  <1>8. CASE PointSibling
    <2>1. global_depth \in Nat /\ pc = "directory" /\ local_depth[target] = global_depth
      BY <1>8 DEF PointSibling, TypeInv, TypeOK
    <2> QED BY <1>7, <1>8, <2>1, SiblingIsUpperHalf DEF PointSibling, Retry
  <1>9. CASE PointChunk
    <2>1. local_depth[target] <= global_depth
      BY <1>9, SplitFacts DEF PointChunk, Splitting, TypeInv, TypeOK
    <2> QED BY <1>7, <1>9, <2>1 DEF PointChunk, Retry
  <1>10. CASE SwapDirectory
    <2>1. /\ pc = "directory" /\ pc' = "capacity" /\ UNCHANGED <<capacity, nseg>>
          /\ dir' = [j \in 0..(2 * capacity - 1) |->
                       IF j \div 2 # X THEN dir[j \div 2]
                       ELSE IF j % 2 = 0 THEN target ELSE NewSeg]
          /\ local_depth[target] > global_depth
      BY <1>10 DEF SwapDirectory, DoubledLength
    <2>2. capacity \in Nat /\ X \in 0..(capacity - 1) /\ dir[X] = target
      BY <2>1, OwnEntry DEF TypeInv, TypeOK
    <2>3. \A i \in 0..(capacity - 1) :
            /\ 2 * i \in 0..(2 * capacity - 1) /\ 2 * i + 1 \in 0..(2 * capacity - 1)
            /\ (2 * i) \div 2 = i /\ (2 * i + 1) \div 2 = i
            /\ (2 * i) % 2 = 0 /\ (2 * i + 1) % 2 = 1
      BY <2>2
    <2>4. ASSUME NEW s \in Segments
          PROVE  \E j \in 0..(2 * capacity - 1) : dir'[j] = s
      <3>1. CASE s = target
        <4>1. dir'[2 * X] = s
          BY <2>1, <2>2, <2>3, <3>1
        <4> QED BY <2>2, <2>3, <4>1
      <3>2. CASE s = NewSeg
        <4>1. dir'[2 * X + 1] = s
          BY <2>1, <2>2, <2>3, <3>2
        <4> QED BY <2>2, <2>3, <4>1
      <3>3. CASE s \notin {target, NewSeg}
        <4>1. PICK i \in 0..(capacity - 1) : dir[i] = s
          BY <2>1, <3>3 DEF AllPointedTo, ArrayLength, Established, Splitting
        <4>2. dir'[2 * i] = s
          BY <2>1, <2>2, <2>3, <3>3, <4>1
        <4> QED BY <2>3, <4>2
      <3> QED BY <3>1, <3>2, <3>3
    <2> QED BY <2>1, <2>4 DEF AllPointedTo, Established, Splitting, Segments, ArrayLength
  <1>11. CASE DoubleCapacity
    <2>1. ArrayLength' = ArrayLength /\ Established' = Established /\ UNCHANGED dir
      BY <1>11 DEF DoubleCapacity, ArrayLength, Established, Splitting, Segments
    <2> QED BY <1>1, <2>1
  <1>12. CASE DeepenGlobal
    BY <1>2, <1>12 DEF DeepenGlobal, Splitting
  <1>13. CASE UNCHANGED vars
    <2>1. UNCHANGED <<dir, capacity, nseg, pc>>
      BY <1>13 DEF vars, table, thread
    <2> QED BY <1>1, <2>1 DEF ArrayLength, Established, Splitting, Segments, NewSeg
  <1> QED
    BY <1>3, <1>4, <1>5, <1>6, <1>8, <1>9, <1>10, <1>11, <1>12, <1>13
    DEF Next, Step, Insert, InsertOnly

\* Capacity() counts every segment the splits have allocated: each update of
\* the directory that hides an entry of one segment leaves it another.
THEOREM SegmentsAreReachable == Spec => []NoSegmentLeaked
  <1>1. TypeInv /\ AllPointedTo => NoSegmentLeaked
    <2> SUFFICES ASSUME TypeInv, AllPointedTo, pc = "idle"
                 PROVE  Capacity = nseg * kNumSlot
      BY DEF NoSegmentLeaked
    <2>1. dir \in [0..(capacity - 1) -> Segments] /\ nseg \in Nat
      BY DEF TypeInv, TypeOK, ArrayLength
    <2>2. \A s \in Segments : \E i \in 0..(capacity - 1) : dir[i] = s
      BY DEF AllPointedTo, Established, Splitting, ArrayLength
    <2>3. Reachable = Segments
      BY <2>1, <2>2 DEF Reachable
    <2>4. Cardinality(Segments) = nseg
      <3>1. nseg - 1 \in Int /\ 0 \in Int
        BY <2>1
      <3>2. Cardinality(0..(nseg - 1)) = IF 0 > nseg - 1 THEN 0 ELSE (nseg - 1) - 0 + 1
        BY <3>1, FS_Interval
      <3> QED BY <2>1, <3>2 DEF Segments
    <2> QED BY <2>3, <2>4 DEF Capacity
  <1>2. Init => AllPointedTo
    BY InitAssumption DEF Init, AllPointedTo, Established, Splitting, Segments, ArrayLength
  <1>3. TypeInv /\ TypeInv' /\ DirInv /\ AllPointedTo /\ [Next]_vars => AllPointedTo'
    BY StepAllPointedTo
  <1> QED BY <1>1, <1>2, <1>3, TypeInvHolds, DirectoryAgrees, PTL DEF Spec

=============================================================================
