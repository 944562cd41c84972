-------------------------- MODULE CCEH_refinement --------------------------
(***************************************************************************)
(* The table implements the map of HashMap, as long as no key's window     *)
(* wraps around the end of a segment: of all the stores of the code, only  *)
(* that of a pair's key changes what lookups find.                         *)
(***************************************************************************)
EXTENDS CCEH_lookup

-----------------------------------------------------------------------------
(* What a search depends on. *)

\* Two segments that hold the key in the same slots of its window, with the
\* same values, give the same answer.
LEMMA SearchSame ==
  ASSUME NEW f, NEW g, NEW k,
         \A i \in Window :
           /\ (f[Probe(k, i)].key = k) <=> (g[Probe(k, i)].key = k)
           /\ f[Probe(k, i)].key = k => f[Probe(k, i)].value = g[Probe(k, i)].value
  PROVE  Search(f, k) = Search(g, k)
  <1>1. CASE \A i \in Window : f[Probe(k, i)].key # k
    BY <1>1, SearchNone
  <1>2. CASE \E i \in Window : f[Probe(k, i)].key = k
    <2>1. PICK i \in Window : /\ f[Probe(k, i)].key = k
                              /\ \A j \in 0..(i - 1) : f[Probe(k, j)].key # k
                              /\ 0..(i - 1) \subseteq Window
      BY <1>2, FirstThere
    <2>2. Search(f, k) = f[Probe(k, i)].value
      BY <2>1, SearchFirst
    <2>3. \A j \in 0..(i - 1) : g[Probe(k, j)].key # k
      BY <2>1
    <2>4. Search(g, k) = g[Probe(k, i)].value
      BY <2>1, <2>3, SearchFirst
    <2> QED BY <2>1, <2>2, <2>4
  <1> QED BY <1>1, <1>2

\* Different places of a window that does not wrap are different slots.
LEMMA ProbesDiffer ==
  ASSUME NoWrap, NEW k \in Keys, NEW i \in Window, NEW j \in Window
  PROVE  /\ Probe(k, i) = Probe(k, j) => i = j
         /\ Probe(k, i) < Probe(k, j) <=> i < j
  <1>1. Loc(k) \in Nat /\ i \in Nat /\ j \in Nat
    BY LocType, GeometryAssumption DEF Window
  <1> QED BY <1>1, NoWrapProbe DEF NoWrap

\* A pair put behind a copy of its key is not found.
LEMMA SearchShadowed ==
  ASSUME NEW f, NEW g, NEW k, NEW i \in Window, NEW n \in Window,
         n < i, f[Probe(k, n)].key = k,
         \A j \in Window : j # i => g[Probe(k, j)] = f[Probe(k, j)]
  PROVE  Search(g, k) = Search(f, k)
  <1>1. PICK m \in Window : /\ f[Probe(k, m)].key = k
                            /\ \A j \in 0..(m - 1) : f[Probe(k, j)].key # k
                            /\ 0..(m - 1) \subseteq Window
    BY FirstThere
  <1>2. m \in Nat /\ n \in Nat /\ i \in Nat
    BY DEF Window
  <1>3. m <= n
    <2>1. SUFFICES ASSUME n < m PROVE FALSE
      BY <1>2
    <2>2. n \in 0..(m - 1)
      BY <1>2, <2>1
    <2> QED BY <1>1, <2>2
  <1>4. \A j \in 0..(m - 1) : j \in Window /\ j # i
    BY <1>1, <1>2, <1>3
  <1>5. g[Probe(k, m)] = f[Probe(k, m)] /\ \A j \in 0..(m - 1) : g[Probe(k, j)].key # k
    BY <1>1, <1>2, <1>3, <1>4
  <1>6. Search(f, k) = f[Probe(k, m)].value
    BY <1>1, SearchFirst
  <1>7. Search(g, k) = g[Probe(k, m)].value
    BY <1>1, <1>5, SearchFirst
  <1> QED BY <1>5, <1>6, <1>7

-----------------------------------------------------------------------------
(* MapInv: Init and the steps. *)

LEMMA CopyMap ==
  ASSUME NoWrap, TypeInv, DirInv, DataInv, MapInv, CopyPair
  PROVE  SameAnswer' /\ NoGap'
  <1> DEFINE pair == slot[target][at]
             f == slot[NewSeg]
             g == slot'[NewSeg]
  <1>1. /\ pc = "copy" /\ pc' = "copy" /\ Splitting
        /\ target' = target /\ NewSeg' = NewSeg
        /\ local_depth[target] = OldDepth(target)
    BY DEF CopyPair, Splitting, NewSeg, OldDepth
  <1>2. /\ target \in Segments /\ target # NewSeg /\ NewSeg \in Segments
        /\ at \in Slots
    BY <1>1, SplitFacts, SlotCount DEF CopyPair, Slots, TypeInv, TypeOK
  <1>3. slot \in [Segments -> [Slots -> Pair]] /\ pair \in Pair
    BY <1>2 DEF TypeInv, TypeOK
  <1>4. Skips(pair) \/ \E i \in Window : Moves(pair, i)
    BY CopyStep DEF DataInv, NoWrap, Straight
  <1>5. CASE Skips(pair)
    <2>1. ASSUME NEW k \in Keys, NEW s \in Segments
          PROVE  /\ Search(slot'[s], k) = Search(slot[s], k)
                 /\ (\E i \in Window : slot'[s][Probe(k, i)].key = k) <=> Stored(k, s)
      <3>1. \A i \in Window :
              /\ slot'[s][Probe(k, i)].key = slot[s][Probe(k, i)].key
              /\ slot[s][Probe(k, i)].key = k => slot'[s][Probe(k, i)] = slot[s][Probe(k, i)]
        BY <1>5, ProbeType, ValueAssumption DEF Skips
      <3> QED BY <3>1, SearchSame DEF Stored
    <2>2. SameAnswer'
      BY <1>1, <1>2, <2>1 DEF MapInv, SameAnswer, Stored
    <2>3. NoGap'
      <3>1. SUFFICES ASSUME NEW k \in Keys, NEW i \in Window, NEW j \in 0..(i - 1),
                            g[Probe(k, i)].key = k
                     PROVE  g[Probe(k, j)].key # INVALID
        BY <1>1 DEF NoGap
      <3>2. j \in Window
        BY GeometryAssumption DEF Window
      <3> QED BY <1>1, <1>2, <1>5, <3>1, <3>2, ProbeType DEF Skips, MapInv, NoGap
    <2> QED BY <2>2, <2>3
  <1>6. ASSUME NEW i \in Window, Moves(pair, i)
        PROVE  SameAnswer' /\ NoGap'
    <2> DEFINE q == pair.key
               p == Probe(q, i)
    <2>1. /\ q \in Keys /\ q # INVALID /\ SplitBit(q, OldDepth(target))
          /\ p \in Slots /\ f[p].key = INVALID
          /\ \A j \in 0..(i - 1) : f[Probe(q, j)].key # INVALID
          /\ slot' = [slot EXCEPT ![NewSeg][p] = pair]
      BY <1>1, <1>6, ValueAssumption DEF Moves
    <2>2. slot'[target] = slot[target]
      BY <1>2, <1>3, <2>1
    <2>3. \A j \in Slots : g[j] = IF j = p THEN pair ELSE f[j]
      BY <1>2, <1>3, <2>1
    <2>4. PICK i0 \in Window : at = Probe(q, i0)
      BY <1>2, <2>1 DEF DataInv, InOwnWindow
    <2> HIDE DEF f, g, p
    <2>5. ASSUME NEW k \in Keys, k # q
          PROVE  /\ (\E j \in Window : g[Probe(k, j)].key = k) <=>
                      (\E j \in Window : f[Probe(k, j)].key = k)
                 /\ Search(g, k) = Search(f, k)
      <3>1. \A j \in Window :
              /\ (f[Probe(k, j)].key = k) <=> (g[Probe(k, j)].key = k)
              /\ f[Probe(k, j)].key = k => f[Probe(k, j)].value = g[Probe(k, j)].value
        BY <2>1, <2>3, <2>5, ProbeType, ValueAssumption
      <3> QED BY <3>1, SearchSame
    <2>6. \A j \in Window : j # i => Probe(q, j) # p /\ g[Probe(q, j)] = f[Probe(q, j)]
      BY <2>1, <2>3, ProbesDiffer, ProbeType DEF p
    <2>7. Stored(q, target) /\ Search(g, q) = Search(slot[target], q)
      <3>1. Stored(q, target)
        BY <2>4 DEF Stored
      <3>2. CASE Stored(q, NewSeg)
        <4>1. PICK n \in Window : f[Probe(q, n)].key = q
          BY <3>2 DEF Stored, f
        <4>2. n < i
          <5>1. n # i /\ n \in Nat /\ i \in Nat
            BY <2>1, <4>1 DEF p, Window
          <5>2. ~(i < n)
            <6>1. SUFFICES ASSUME i < n PROVE FALSE
              OBVIOUS
            <6>2. i \in 0..(n - 1)
              BY <5>1, <6>1
            <6> QED BY <1>1, <2>1, <4>1, <6>2 DEF MapInv, NoGap, f, p
          <5> QED BY <5>1, <5>2
        <4>3. Search(g, q) = Search(f, q)
          BY <2>6, <4>1, <4>2, SearchShadowed
        <4> QED BY <1>1, <2>1, <3>1, <3>2, <4>3 DEF MapInv, SameAnswer, f
      <3>3. CASE ~Stored(q, NewSeg)
        <4>1. \A j \in Window : f[Probe(q, j)].key # q
          BY <3>3 DEF Stored, f
        <4>2. Search(g, q) = pair.value
          <5>1. \A j \in 0..(i - 1) : j \in Window
            BY GeometryAssumption DEF Window
          <5>2. g[Probe(q, i)] = pair
            BY <2>1, <2>3 DEF p
          <5>3. i \in Nat
            BY DEF Window
          <5>4. \A j \in 0..(i - 1) : g[Probe(q, j)].key # q
            BY <2>6, <4>1, <5>1, <5>3
          <5> HIDE DEF pair
          <5> QED BY <5>2, <5>4, SearchFirst
        <4>3. \A j \in 0..(i0 - 1) : slot[target][Probe(q, j)].key # q
          <5>1. SUFFICES ASSUME NEW j \in 0..(i0 - 1), slot[target][Probe(q, j)].key = q
                         PROVE  FALSE
            OBVIOUS
          <5>2. j \in Window /\ j < i0
            BY GeometryAssumption DEF Window
          <5>3. Probe(q, j) < at /\ Probe(q, j) \in Slots
            BY <2>1, <2>4, <5>2, ProbesDiffer, ProbeType
          <5>4. Copied(Probe(q, j))
            BY <1>1, <5>3 DEF DataInv, CopyProgress
          <5> QED BY <2>1, <3>3, <5>1, <5>4 DEF Copied
        <4>4. Search(slot[target], q) = pair.value
          BY <2>4, <4>3, SearchFirst
        <4> QED BY <3>1, <4>2, <4>4
      <3> QED BY <3>2, <3>3
    <2>8. SameAnswer'
      <3>1. ASSUME NEW k \in Keys, \E j \in Window : g[Probe(k, j)].key = k
            PROVE  Stored(k, target) /\ Search(g, k) = Search(slot[target], k)
        <4>1. CASE k = q
          BY <2>7, <4>1
        <4>2. CASE k # q
          BY <1>1, <2>5, <3>1, <4>2 DEF MapInv, SameAnswer, Stored, f
        <4> QED BY <4>1, <4>2
      <3> QED BY <1>1, <2>2, <3>1 DEF SameAnswer, Stored, g
    <2>9. NoGap'
      <3>1. SUFFICES ASSUME NEW k \in Keys, NEW n \in Window, NEW j \in 0..(n - 1),
                            g[Probe(k, n)].key = k
                     PROVE  g[Probe(k, j)].key # INVALID
        BY <1>1 DEF NoGap, g
      <3>2. j \in Window /\ j \in Nat /\ n \in Nat
        BY GeometryAssumption DEF Window
      <3>3. f[Probe(k, j)].key # INVALID
        <4>1. CASE Probe(k, n) = p
          <5>1. k = q
            BY <2>1, <2>3, <3>1, <4>1
          <5>2. n = i
            BY <2>6, <4>1, <5>1
          <5> QED BY <2>1, <5>1, <5>2
        <4>2. CASE Probe(k, n) # p
          BY <1>1, <2>3, <3>1, <4>2, ProbeType DEF MapInv, NoGap, f
        <4> QED BY <4>1, <4>2
      <3> QED BY <2>1, <2>3, <3>2, <3>3, ProbeType
    <2> QED BY <2>8, <2>9
  <1> QED BY <1>4, <1>5, <1>6

LEMMA InitMapInv == Init => MapInv
  BY DEF Init, MapInv, SameAnswer, NoGap, ValueStored, Splitting

LEMMA StepMapInv ==
  ASSUME NoWrap
  PROVE  TypeInv /\ DirInv /\ DataInv /\ MapInv /\ [Next]_vars => MapInv'
  <1> SUFFICES ASSUME TypeInv, DirInv, DataInv, MapInv, [Next]_vars PROVE MapInv'
    OBVIOUS
  <1> USE DEF MapInv
  <1>1. CASE pc' \notin {"publish", "copy", "pattern", "directory"}
    BY <1>1 DEF SameAnswer, NoGap, ValueStored, Splitting
  <1>2. CASE StoreValue
    <2>1. PICK i \in Window :
            /\ at' = Probe(op.key, i)
            /\ slot' = [slot EXCEPT ![Target][Probe(op.key, i)].value = op.value]
      BY <1>2 DEF StoreValue
    <2>2. pc = "probe" /\ pc' = "publish" /\ target' = Target /\ op' = op
      BY <1>2 DEF StoreValue
    <2>3. Target \in Segments /\ op.key \in Keys /\ Probe(op.key, i) \in Slots
      BY <2>2, TargetType, OpType, ProbeType DEF TypeInv
    <2>4. slot'[target'][at'].value = op.value
      BY <2>1, <2>2, <2>3 DEF TypeInv, TypeOK, Pair
    <2> QED BY <2>2, <2>4 DEF SameAnswer, NoGap, ValueStored, Splitting
  <1>3. CASE AllocateSibling
    <2>1. /\ pc' = "copy" /\ nseg' = nseg + 1 /\ nseg \in Nat
          /\ slot' = Extend(slot, EmptySlots)
      BY <1>3 DEF AllocateSibling, TypeInv, TypeOK
    <2>2. \A j \in Slots : slot'[NewSeg'][j].key = INVALID
      BY <2>1 DEF Extend, EmptySlots, EmptyPair, NewSeg
    <2>3. \A k \in Keys, i \in Window : slot'[NewSeg'][Probe(k, i)].key # k
      BY <2>2, ProbeType, ValueAssumption
    <2> QED BY <2>1, <2>3 DEF SameAnswer, NoGap, ValueStored, Stored
  <1>4. CASE CopyPair
    BY <1>4, CopyMap DEF CopyPair, ValueStored
  <1>5. CASE /\ pc \in {"copy", "pattern", "directory"} /\ pc' \in {"pattern", "directory"}
             /\ UNCHANGED <<nseg, slot, target>>
    BY <1>5 DEF SameAnswer, NoGap, ValueStored, Splitting, Stored, NewSeg
  <1>6. CASE UNCHANGED vars
    BY <1>6 DEF vars, table, thread, SameAnswer, NoGap, ValueStored, Splitting, Stored, NewSeg
  <1>7. CASE Deepen \/ SetPatterns
    BY <1>5, <1>7 DEF Deepen, SetPatterns
  <1>8. CASE PointChunk
    BY <1>1, <1>5, <1>8 DEF PointChunk, Retry
  <1>9. ASSUME NEW k \in Keys, NEW v \in Values, NEW r \in BOOLEAN, Call(k, v, r)
        PROVE  MapInv'
    BY <1>1, <1>9 DEF Call
  <1>10. CASE StoreKey \/ ReturnFalse \/ PointSibling \/ SwapDirectory \/ DoubleCapacity \/ DeepenGlobal
    BY <1>1, <1>10 DEF StoreKey, ReturnFalse, PointSibling, Retry, SwapDirectory,
                       DoubleCapacity, DeepenGlobal
  <1> QED
    BY <1>2, <1>3, <1>4, <1>6, <1>7, <1>8, <1>9, <1>10 DEF Next, Step, Insert, InsertOnly

\* As a segment is split, the new one answers for every key it has been given as
\* the old one does, at every point of the copying and after it, and a copy put
\* in later stays behind the first.
THEOREM AnswersMoveAlong ==
  ASSUME NoWrap
  PROVE  Spec => []MapInv
  <1>1. TypeInv /\ DirInv /\ DataInv /\ MapInv /\ [Next]_vars => MapInv'
    BY StepMapInv
  <1> QED BY <1>1, InitMapInv, TypeInvHolds, DirectoryAgrees, DataStaysInPlace, PTL DEF Spec

-----------------------------------------------------------------------------
(* The refinement: every step is one of the map's, or none. *)

Home(k) == dir[Prefix(k, IndexDepth)]

LEMMA InitMap == Init => Map!Init
  <1> SUFFICES ASSUME Init PROVE Map!Init
    OBVIOUS
  <1>1. ASSUME NEW k \in Keys
        PROVE  Lookup(k, IndexDepth) = NONE
    <2> DEFINE s == dir[Prefix(k, IndexDepth)]
    <2>1. s \in 0..(InitCap - 1)
      <3>1. s \in Segments
        BY InitTypeInv, HomeType
      <3> QED BY <3>1 DEF Init, Segments
    <2>2. \A i \in Window : slot[s][Probe(k, i)].key # k
      BY <2>1, ProbeType, ValueAssumption DEF Init, EmptySlots, EmptyPair
    <2> QED BY <2>2, SearchNone DEF Lookup
  <1>2. View = [k \in Keys |-> NONE]
    BY <1>1 DEF View
  <1> QED BY <1>2 DEF Map!Init, Init

\* The view changes no more than the answers to its keys do.
LEMMA SameView ==
  ASSUME \A k \in Keys : Search(slot'[Home(k)'], k) = Search(slot[Home(k)], k)
  PROVE  View' = View
  BY DEF View, Lookup, Home

\* Steps that leave every home in place, and what is stored there.
LEMMA FrameView ==
  ASSUME TypeInv, UNCHANGED dir, IndexDepth' = IndexDepth,
         \A s \in Segments : slot'[s] = slot[s] \/ \A k \in Keys : Home(k) # s
  PROVE  View' = View
  <1>1. ASSUME NEW k \in Keys
        PROVE  Search(slot'[Home(k)'], k) = Search(slot[Home(k)], k)
    <2>1. Home(k)' = Home(k) /\ Home(k) \in Segments
      BY HomeType DEF Home
    <2> QED BY <2>1
  <1> QED BY <1>1, SameView

\* The value goes to a slot whose key, if it has one, is looked for elsewhere.
LEMMA StoreValueView ==
  ASSUME TypeInv, DirInv, StoreValue
  PROVE  View' = View
  <1>1. PICK i \in Window :
          /\ FirstInWindow(i, UsableProbe)
          /\ slot' = [slot EXCEPT ![Target][Probe(op.key, i)].value = op.value]
    BY DEF StoreValue
  <1> DEFINE p == Probe(op.key, i)
  <1>2. pc = "probe" /\ pc' = "publish" /\ UNCHANGED <<dir, global_depth>>
    BY DEF StoreValue
  <1>3. Target \in Segments /\ op.key \in Keys /\ p \in Slots /\ ~Splitting
    BY <1>2, TargetType, OpType, ProbeType DEF TypeInv, Splitting
  <1>4. Usable(Target, p)
    BY <1>1 DEF FirstInWindow, UsableProbe
  <1>5. /\ \A s \in Segments, j \in Slots : slot'[s][j].key = slot[s][j].key
        /\ \A s \in Segments, j \in Slots : ~(s = Target /\ j = p) => slot'[s][j] = slot[s][j]
    <2>1. slot \in [Segments -> [Slots -> Pair]]
      BY DEF TypeInv, TypeOK
    <2>2. ASSUME NEW s \in Segments, NEW j \in Slots
          PROVE  slot'[s][j].key = slot[s][j].key
      BY <1>1, <1>3, <2>1 DEF Pair
    <2>3. ASSUME NEW s \in Segments, NEW j \in Slots, ~(s = Target /\ j = p)
          PROVE  slot'[s][j] = slot[s][j]
      BY <1>1, <1>3, <2>1, <2>3
    <2> QED BY <2>2, <2>3
  <1>6. ASSUME NEW k \in Keys
        PROVE  Search(slot'[Home(k)'], k) = Search(slot[Home(k)], k)
    <2>1. Home(k)' = Home(k) /\ Home(k) \in Segments
      BY <1>2, HomeType DEF Home, IndexDepth
    <2>2. ~(Home(k) = Target /\ slot[Target][p].key = k)
      <3>1. Home(k) = Target => Prefix(k, local_depth[Target]) = pattern[Target]
        BY <1>3, KeyHome DEF Home
      <3> QED BY <1>4, <3>1, ValueAssumption DEF Usable
    <2> DEFINE s == Home(k)
    <2> HIDE DEF p
    <2>3. \A j \in Window : slot[s][Probe(k, j)].key = k =>
                              slot'[s][Probe(k, j)] = slot[s][Probe(k, j)]
      BY <1>5, <2>1, <2>2, ProbeType
    <2>4. \A j \in Window : slot'[s][Probe(k, j)].key = slot[s][Probe(k, j)].key
      BY <1>5, <2>1, ProbeType
    <2> HIDE DEF s
    <2>5. Search(slot[s], k) = Search(slot'[s], k)
      BY <2>3, <2>4, SearchSame
    <2> QED BY <2>1, <2>5 DEF s
  <1> QED BY <1>6, SameView

\* What the store of a key does to the segment it is stored in.
LEMMA StoreKeyEffect ==
  ASSUME TypeInv, DirInv, SlotFree, StoreKey
  PROVE  /\ target \in Segments /\ at \in Slots /\ op.key \in Keys
         /\ \A j \in Slots : j # at => slot'[target][j] = slot[target][j]
         /\ slot'[target][at] = [slot[target][at] EXCEPT !.key = op.key]
         /\ \A k \in Keys : Home(k)' = Home(k)
         /\ \A k \in Keys : Home(k) = target => slot[target][at].key # k
         /\ Home(op.key) = target
         /\ \A k \in Keys : k # op.key => View'[k] = View[k]
  <1> DEFINE q == op.key
             f == slot[target]
             g == slot'[target]
  <1>1. /\ pc = "publish" /\ pc' = "idle" /\ ~Splitting
        /\ UNCHANGED <<dir, global_depth>>
        /\ slot' = [slot EXCEPT ![target][at].key = q]
    BY DEF StoreKey, Splitting
  <1>2. /\ target \in Segments /\ at \in Slots /\ q \in Keys
        /\ slot \in [Segments -> [Slots -> Pair]]
    BY <1>1, OpType DEF TypeInv, TypeOK
  <1>3. /\ \A s \in Segments : s # target => slot'[s] = slot[s]
        /\ \A j \in Slots : j # at => g[j] = f[j]
        /\ g[at] = [f[at] EXCEPT !.key = q] /\ f[at] \in Pair
    BY <1>1, <1>2
  <1>4. \A k \in Keys : Home(k)' = Home(k) /\ Home(k) \in Segments
    BY <1>1, HomeType DEF Home, IndexDepth
  <1>5. \A k \in Keys : Home(k) = target => f[at].key # k
    <2>1. \A k \in Keys : Home(k) = target => Prefix(k, local_depth[target]) = pattern[target]
      BY <1>1, <1>2, KeyHome DEF Home
    <2> QED BY <1>1, <2>1, ValueAssumption DEF SlotFree, Usable
  <1>6. Home(q) = target
    <2>1. Prefix(q, local_depth[target]) = pattern[target]
      BY <1>1 DEF DirInv, OldDepth, OldPattern
    <2> QED BY <1>1, <1>2, <2>1, KeyHome DEF Home
  <1> HIDE DEF f, g
  <1>7. ASSUME NEW k \in Keys, k # q
        PROVE  View'[k] = View[k]
    <2>1. CASE Home(k) = target
      <3>1. g[at].key = q
        BY <1>3 DEF Pair
      <3>2. \A j \in Window :
              /\ (f[Probe(k, j)].key = k) <=> (g[Probe(k, j)].key = k)
              /\ f[Probe(k, j)].key = k => f[Probe(k, j)].value = g[Probe(k, j)].value
        BY <1>3, <1>5, <1>7, <2>1, <3>1, ProbeType
      <3>3. Search(f, k) = Search(g, k)
        BY <3>2, SearchSame
      <3> QED BY <1>4, <2>1, <3>3 DEF View, Lookup, Home, f, g
    <2>2. CASE Home(k) # target
      BY <1>3, <1>4, <2>2 DEF View, Lookup, Home
    <2> QED BY <2>1, <2>2
  <1> QED BY <1>2, <1>3, <1>4, <1>5, <1>6, <1>7 DEF f, g

\* The store of the key makes the pair visible, unless an older pair with the
\* same key stands before it.
LEMMA StoreKeyMaps ==
  ASSUME NoWrap, TypeInv, DirInv, DataInv, MapInv, StoreKey
  PROVE  Map!Return \/ Map!ReturnShadowed
  <1> DEFINE q == op.key
             f == slot[target]
             g == slot'[target]
  <1>1. pc = "publish" /\ op' = NoOp /\ op # NoOp
    BY DEF StoreKey, TypeInv, TypeOK
  <1>2. /\ target \in Segments /\ at \in Slots /\ q \in Keys
        /\ \A j \in Slots : j # at => g[j] = f[j]
        /\ g[at] = [f[at] EXCEPT !.key = q]
        /\ Home(q) = target
        /\ \A k \in Keys : Home(k)' = Home(k)
        /\ \A k \in Keys : k # q => View'[k] = View[k]
    BY StoreKeyEffect DEF DataInv
  <1>3. g[at].key = q /\ g[at].value = op.value
    <2>1. f[at] \in Pair /\ f[at].value = op.value
      BY <1>1, <1>2 DEF TypeInv, TypeOK, MapInv, ValueStored
    <2> QED BY <1>2, <2>1 DEF Pair
  <1>4. PICK i \in Window : at = Probe(q, i)
    BY <1>1 DEF DataInv, SlotFree
  <1> HIDE DEF f, g
  <1>5. View[q] = Search(f, q) /\ View'[q] = Search(g, q)
    BY <1>2 DEF View, Lookup, Home, f, g
  <1>6. View = [k \in Keys |-> View[k]] /\ View' = [k \in Keys |-> View'[k]]
    BY DEF View
  <1>7. i \in Nat /\ \A j \in 0..(i - 1) : j \in Window /\ j # i
    BY GeometryAssumption DEF Window
  <1>8. \A j \in Window : j # i => g[Probe(q, j)] = f[Probe(q, j)]
    BY <1>2, <1>4, ProbesDiffer, ProbeType
  <1> HIDE DEF q
  <1>9. CASE \E n \in 0..(i - 1) : f[Probe(q, n)].key = q
    <2>1. PICK n \in 0..(i - 1) : f[Probe(q, n)].key = q
      BY <1>9
    <2>2. Search(g, q) = Search(f, q)
      BY <1>7, <1>8, <2>1, SearchShadowed
    <2>3. View' = View
      BY <1>2, <1>5, <1>6, <2>2
    <2>4. View[q] # NONE
      <3>1. f \in [Slots -> Pair]
        BY <1>2 DEF TypeInv, TypeOK, f
      <3> QED BY <1>2, <1>5, <1>7, <2>1, <3>1, SearchFinds
    <2> QED BY <1>1, <2>3, <2>4 DEF Map!ReturnShadowed, q
  <1>10. CASE \A n \in 0..(i - 1) : f[Probe(q, n)].key # q
    <2>1. \A n \in 0..(i - 1) : g[Probe(q, n)].key # q
      BY <1>7, <1>8, <1>10
    <2>2. Search(g, q) = op.value
      BY <1>3, <1>4, <2>1, SearchFirst
    <2>3. View' = [View EXCEPT ![q] = op.value]
      BY <1>2, <1>5, <1>6, <2>2
    <2> QED BY <1>1, <2>3 DEF Map!Return, q
  <1> QED BY <1>9, <1>10

\* A home that goes to the new segment gives the answer it gave.
LEMMA MovingView ==
  ASSUME TypeInv, DirInv, DataInv, MapInv, pc = "directory", UNCHANGED slot,
         \A k \in Keys : HomeMoves(k)
  PROVE  View' = View
  <1>1. ASSUME NEW k \in Keys
        PROVE  Search(slot'[Home(k)'], k) = Search(slot[Home(k)], k)
    <2>1. CASE Home(k)' = Home(k)
      BY <2>1
    <2>2. CASE Home(k) = target /\ Home(k)' = NewSeg /\ SplitBit(k, OldDepth(target))
      <3>1. Stored(k, NewSeg) => Search(slot[NewSeg], k) = Search(slot[target], k)
        BY DEF MapInv, SameAnswer, Splitting
      <3>2. ~Stored(k, NewSeg) => ~Stored(k, target)
        BY <2>2, MovedWithItsHome DEF DataInv
      <3>3. ~Stored(k, NewSeg) => Search(slot[NewSeg], k) = NONE /\ Search(slot[target], k) = NONE
        BY <3>2, SearchNone DEF Stored
      <3> QED BY <2>2, <3>1, <3>3
    <2> QED BY <2>1, <2>2 DEF HomeMoves, Home
  <1> QED BY <1>1, SameView

\* Outside the directory only the store of a key changes what lookups find.
LEMMA QuietView ==
  ASSUME TypeInv, DirInv, [Next]_vars, pc # "directory", ~StoreKey
  PROVE  View' = View
  <1>1. ASSUME NEW k \in Keys, NEW v \in Values, NEW r \in BOOLEAN, Call(k, v, r)
        PROVE  View' = View
    BY <1>1, FrameView DEF Call, table, IndexDepth
  <1>2. CASE StoreValue
    BY <1>2, StoreValueView
  <1>3. CASE ReturnFalse
    BY <1>3, FrameView DEF ReturnFalse, WindowFull, table, IndexDepth
  <1>4. CASE AllocateSibling
    <2>1. /\ slot' = Extend(slot, EmptySlots) /\ nseg \in Nat
          /\ IndexDepth' = IndexDepth /\ UNCHANGED dir
      BY <1>4 DEF AllocateSibling, WindowFull, TypeInv, TypeOK, IndexDepth
    <2>2. \A s \in Segments : slot'[s] = slot[s]
      BY <2>1 DEF Extend, Segments
    <2> QED BY <2>1, <2>2, FrameView
  <1>5. CASE CopyPair
    <2>1. Splitting /\ IndexDepth' = IndexDepth /\ UNCHANGED dir /\ pc = "copy"
      BY <1>5 DEF CopyPair, Splitting, IndexDepth
    <2>2. NewSeg \in Segments
      BY <2>1, SplitFacts
    <2>3. \A s \in Segments : s # NewSeg => slot'[s] = slot[s]
      BY <1>5, <2>2 DEF CopyPair, Insert4split, TypeInv, TypeOK
    <2>4. \A k \in Keys : Home(k) # NewSeg
      BY <2>1, HomeType DEF DirInv, Moved, Home
    <2> QED BY <2>1, <2>3, <2>4, FrameView
  <1>6. CASE Deepen \/ SetPatterns \/ DoubleCapacity \/ DeepenGlobal
    <2>1. UNCHANGED <<dir, slot>> /\ IndexDepth' = IndexDepth
      BY <1>6 DEF Deepen, SetPatterns, DoubleCapacity, DeepenGlobal, IndexDepth
    <2> QED BY <2>1, FrameView
  <1>7. CASE UNCHANGED vars
    <2>1. UNCHANGED <<dir, slot>> /\ IndexDepth' = IndexDepth
      BY <1>7 DEF vars, table, thread, IndexDepth
    <2> QED BY <2>1, FrameView
  <1> QED
    BY <1>1, <1>2, <1>3, <1>4, <1>5, <1>6, <1>7
    DEF Next, Step, Insert, InsertOnly, PointSibling, PointChunk, SwapDirectory

\* The directory's own steps change homes, and nothing in the segments.
LEMMA DirectoryMoves ==
  ASSUME TypeInv, DirInv, [Next]_vars, pc = "directory"
  PROVE  UNCHANGED <<slot, op>> /\ \A k \in Keys : HomeMoves(k)
  <1>1. CASE PointSibling
    <2>1. /\ pc = "directory" /\ pc' = "probe" /\ local_depth[target] = global_depth
          /\ dir' = [dir EXCEPT ![SiblingIndex] = NewSeg]
          /\ UNCHANGED <<global_depth, slot, op>>
      BY <1>1 DEF PointSibling, Retry
    <2>2. global_depth \in Nat /\ SiblingIndex = UpperHalf + at
      BY <2>1, SiblingIsUpperHalf DEF TypeInv, TypeOK
    <2> QED BY <2>1, <2>2, EntryHome
  <1>2. CASE PointChunk
    <2>1. /\ pc = "directory" /\ pc' \in {"probe", "directory"}
          /\ local_depth[target] < global_depth
          /\ dir' = [dir EXCEPT ![UpperHalf + at] = NewSeg]
          /\ UNCHANGED <<global_depth, slot, op>>
      BY <1>2 DEF PointChunk, Retry
    <2>2. local_depth[target] <= global_depth
      BY <2>1, SplitFacts DEF Splitting, TypeInv, TypeOK
    <2> QED BY <2>1, <2>2, EntryHome
  <1>3. CASE SwapDirectory
    BY <1>3, DoublingHome DEF SwapDirectory
  <1>4. CASE UNCHANGED vars
    BY <1>4 DEF vars, table, thread, HomeMoves, IndexDepth
  <1> QED
    BY <1>1, <1>2, <1>3, <1>4
    DEF Next, Step, Insert, InsertOnly, Call, StoreValue, StoreKey, ReturnFalse, WindowFull,
        AllocateSibling, CopyPair, Deepen, SetPatterns, DoubleCapacity, DeepenGlobal

LEMMA StepMap ==
  ASSUME NoWrap
  PROVE  TypeInv /\ DirInv /\ DataInv /\ MapInv /\ [Next]_vars => [Map!Next]_(Map!mapVars)
  <1> SUFFICES ASSUME TypeInv, DirInv, DataInv, MapInv, [Next]_vars
               PROVE  [Map!Next]_(Map!mapVars)
    OBVIOUS
  <1> USE DEF Map!mapVars
  <1>1. CASE StoreKey
    BY <1>1, StoreKeyMaps DEF Map!Next
  <1>2. CASE pc = "directory"
    BY <1>2, DirectoryMoves, MovingView
  <1>3. CASE ~StoreKey /\ pc # "directory"
    <2>1. View' = View
      BY <1>3, QuietView
    <2>2. ASSUME NEW k \in Keys, NEW v \in Values, NEW r \in BOOLEAN, Call(k, v, r)
          PROVE  Map!Begin
      <3>1. op = NoOp
        BY <2>2 DEF Call, TypeInv, TypeOK
      <3> QED BY <2>1, <2>2, <3>1 DEF Call, Map!Begin, Map!Operations
    <2>3. CASE ReturnFalse
      <3>1. op # NoOp
        BY <2>3 DEF ReturnFalse, WindowFull, TypeInv, TypeOK
      <3> QED BY <2>1, <2>3, <3>1 DEF ReturnFalse, Map!ReturnFull, Map!Next
    <2>4. CASE UNCHANGED op
      BY <2>1, <2>4
    <2> QED
      BY <1>3, <2>2, <2>3, <2>4
      DEF Next, Step, Insert, InsertOnly, Map!Next, StoreValue, AllocateSibling, CopyPair,
          Deepen, SetPatterns, PointSibling, PointChunk, SwapDirectory, DoubleCapacity,
          DeepenGlobal, vars, thread
  <1> QED BY <1>1, <1>2, <1>3

\* Insert and Get are a map from keys to values: of the stores of an insertion
\* only that of the key changes what Get finds, and only for that key; every
\* store of a split and of a doubling leaves all answers as they are.
THEOREM TableImplementsMap ==
  ASSUME NoWrap
  PROVE  Spec => ImplementsMap
  <1>1. TypeInv /\ DirInv /\ DataInv /\ MapInv /\ [Next]_vars => [Map!Next]_(Map!mapVars)
    BY StepMap
  <1> QED BY <1>1, InitMap, TypeInvHolds, DirectoryAgrees, DataStaysInPlace, AnswersMoveAlong, PTL
          DEF Spec, ImplementsMap, Map!Spec

-----------------------------------------------------------------------------
(* Without the assumption on the windows. *)

\* What holds of the pairs even where windows wrap: a split that has put no
\* wrapping pair into the new segment has left none behind.
LossInv ==
  /\ InOwnWindow
  /\ SlotFree
  /\ Splitting /\ Straight => CopyProgress /\ CopyDone

LEMMA StepLossInv == TypeInv /\ DirInv /\ LossInv /\ [Next]_vars => LossInv'
  <1> SUFFICES ASSUME TypeInv, DirInv, LossInv, [Next]_vars PROVE LossInv'
    OBVIOUS
  <1> USE DEF LossInv
  <1>1. ASSUME UNCHANGED <<nseg, slot>>, ~Splitting', pc' # "publish"
        PROVE  LossInv'
    <2>1. InOwnWindow'
      BY <1>1, FrameWindow
    <2> QED BY <1>1, <2>1 DEF SlotFree
  <1>2. ASSUME UNCHANGED <<nseg, slot, target>>, pc' \in {"pattern", "directory"},
               OldDepth(target)' = OldDepth(target), Splitting,
               CopyProgress => \A j \in Slots : pc = "copy" => Copied(j)
        PROVE  LossInv'
    <2>1. InOwnWindow'
      BY <1>2, FrameWindow
    <2>2. NewSeg' = NewSeg /\ (Straight' => Straight)
      BY <1>2 DEF NewSeg, Straight
    <2>3. Straight' => \A j \in Slots : Copied(j)
      BY <1>2, <2>2 DEF CopyDone, Splitting
    <2>4. \A j \in Slots : Copied(j) => Copied(j)'
      BY <1>2, <2>2 DEF Copied, Stored, SplitBit
    <2> QED BY <1>2, <2>1, <2>3, <2>4 DEF SlotFree, CopyProgress, CopyDone
  <1>3. ASSUME NEW k \in Keys, NEW v \in Values, NEW r \in BOOLEAN, Call(k, v, r)
        PROVE  LossInv'
    BY <1>1, <1>3 DEF Call, table, Splitting
  <1>4. CASE StoreValue
    <2>1. PICK i \in Window :
            /\ FirstInWindow(i, UsableProbe)
            /\ at' = Probe(op.key, i)
            /\ slot' = [slot EXCEPT ![Target][Probe(op.key, i)].value = op.value]
      BY <1>4 DEF StoreValue
    <2>2. /\ pc = "probe" /\ pc' = "publish" /\ target' = Target
          /\ UNCHANGED <<nseg, local_depth, pattern, op>>
      BY <1>4 DEF StoreValue
    <2>3. Target \in Segments /\ op.key \in Keys /\ Probe(op.key, i) \in Slots
      BY <2>2, TargetType, OpType, ProbeType DEF TypeInv
    <2>4. \A s \in Segments, j \in Slots : slot'[s][j].key = slot[s][j].key
      <3>1. slot \in [Segments -> [Slots -> Pair]]
        BY DEF TypeInv, TypeOK
      <3>2. ASSUME NEW s \in Segments, NEW j \in Slots
            PROVE  slot'[s][j].key = slot[s][j].key
        BY <2>1, <2>3, <3>1 DEF Pair
      <3> QED BY <3>2
    <2>5. InOwnWindow'
      BY <2>2, <2>4, FrameWindow
    <2>6. Usable(target, at)'
      <3>1. Usable(Target, Probe(op.key, i))
        BY <2>1 DEF FirstInWindow, UsableProbe
      <3> QED BY <2>1, <2>2, <2>3, <2>4, <3>1 DEF Usable
    <2> QED BY <2>1, <2>2, <2>5, <2>6 DEF SlotFree, Splitting
  <1>5. CASE StoreKey
    <2>1. /\ pc = "publish" /\ pc' = "idle" /\ nseg' = nseg
          /\ slot' = [slot EXCEPT ![target][at].key = op.key]
      BY <1>5 DEF StoreKey
    <2>2. /\ target \in Segments /\ at \in Slots /\ op.key \in Keys /\ Segments' = Segments
          /\ slot \in [Segments -> [Slots -> Pair]]
      BY <2>1, OpType DEF TypeInv, TypeOK, Segments
    <2>3. PICK i0 \in Window : at = Probe(op.key, i0)
      BY <2>1 DEF SlotFree
    <2>4. ASSUME NEW s \in Segments, NEW j \in Slots, ~(s = target /\ j = at)
          PROVE  slot'[s][j] = slot[s][j]
      BY <2>1, <2>2, <2>4
    <2>5. slot'[target][at].key = op.key
      BY <2>1, <2>2 DEF Pair
    <2>6. InOwnWindow'
      BY <2>2, <2>3, <2>4, <2>5 DEF InOwnWindow
    <2> QED BY <2>1, <2>6 DEF SlotFree, Splitting
  <1>6. CASE ReturnFalse
    BY <1>1, <1>6 DEF ReturnFalse, WindowFull, table, Splitting
  <1>7. CASE AllocateSibling
    <2>1. /\ pc = "probe" /\ pc' = "copy" /\ nseg' = nseg + 1 /\ at' = 0
          /\ slot' = Extend(slot, EmptySlots) /\ nseg \in Nat
      BY <1>7 DEF AllocateSibling, WindowFull, TypeInv, TypeOK
    <2>2. /\ Segments' = 0..nseg /\ NewSeg' = nseg
          /\ \A s \in Segments' : s = nseg \/ s \in Segments
          /\ \A s \in Segments : slot'[s] = slot[s]
          /\ \A j \in Slots : slot'[nseg][j].key = INVALID
      BY <2>1 DEF Segments, NewSeg, Extend, EmptySlots, EmptyPair
    <2>3. InOwnWindow'
      BY <2>2, ValueAssumption DEF InOwnWindow
    <2>4. CopyProgress'
      BY <2>1, <2>2 DEF CopyProgress, Slots
    <2> QED BY <2>1, <2>3, <2>4 DEF SlotFree, CopyDone
  <1>8. CASE CopyPair
    <2>1. pc = "copy" /\ pc' = "copy" /\ Splitting
      BY <1>8 DEF CopyPair, Splitting
    <2>2. InOwnWindow' /\ (Straight' => Straight)
      BY <1>8, CopyData
    <2>3. Straight' => CopyProgress'
      BY <1>8, <2>1, <2>2, CopyAdvances
    <2> QED BY <2>1, <2>2, <2>3 DEF SlotFree, CopyDone
  <1>9. CASE Deepen
    <2>1. /\ pc = "copy" /\ pc' = "pattern" /\ at = kNumSlot
          /\ local_depth' = [local_depth EXCEPT ![target] = @ + 1]
          /\ UNCHANGED <<nseg, slot, target>>
      BY <1>9 DEF Deepen
    <2>2. OldDepth(target)' = OldDepth(target) /\ Splitting
      BY <2>1, SplitFacts DEF OldDepth, Splitting, TypeInv, TypeOK
    <2>3. CopyProgress => \A j \in Slots : Copied(j)
      BY <2>1, SlotCount DEF CopyProgress, Slots
    <2> QED BY <1>2, <2>1, <2>2, <2>3
  <1>10. CASE SetPatterns
    BY <1>2, <1>10 DEF SetPatterns, OldDepth, Splitting
  <1>11. CASE PointSibling
    BY <1>1, <1>11 DEF PointSibling, Retry, Splitting
  <1>12. CASE PointChunk
    BY <1>1, <1>2, <1>12 DEF PointChunk, Retry, OldDepth, Splitting
  <1>13. CASE SwapDirectory \/ DoubleCapacity \/ DeepenGlobal
    BY <1>1, <1>13 DEF SwapDirectory, DoubleCapacity, DeepenGlobal, Splitting
  <1>14. CASE UNCHANGED vars
    <2>1. UNCHANGED <<nseg, local_depth, pattern, slot, pc, op, target, at>>
      BY <1>14 DEF vars, table, thread
    <2>2. InOwnWindow'
      BY <2>1, FrameWindow
    <2>3. SlotFree'
      BY <2>1 DEF SlotFree, Usable
    <2>4. \A j \in Slots : Copied(j) => Copied(j)'
      BY <2>1 DEF Copied, Stored, NewSeg, OldDepth
    <2> QED BY <2>1, <2>2, <2>3, <2>4 DEF CopyProgress, CopyDone, NewSeg, Straight, Splitting
  <1> QED
    BY <1>3, <1>4, <1>5, <1>6, <1>7, <1>8, <1>9, <1>10, <1>11, <1>12, <1>13, <1>14
    DEF Next, Step, Insert, InsertOnly

LEMMA StepLoss ==
  ASSUME TypeInv, DirInv, LossInv, [Next]_vars, NEW k \in Keys, View[k] # NONE, View'[k] = NONE
  PROVE  /\ pc = "directory"
         /\ \E j \in Slots : LET q == slot[NewSeg][j].key IN q # INVALID /\ Wraps(q)
  <1>1. View[k] = Search(slot[Home(k)], k) /\ View'[k] = Search(slot'[Home(k)'], k)
    BY DEF View, Lookup, Home
  <1>2. CASE StoreKey
    <2>1. PICK i \in Window : at = Probe(op.key, i)
      BY <1>2 DEF LossInv, SlotFree, StoreKey
    <2>2. /\ target \in Segments /\ at \in Slots /\ op.key \in Keys
          /\ slot'[target][at] = [slot[target][at] EXCEPT !.key = op.key]
          /\ \A j \in Slots : j # at => slot'[target][j] = slot[target][j]
          /\ Home(k) = target /\ Home(k)' = target
          /\ k = op.key
      BY <1>2, StoreKeyEffect DEF LossInv
    <2>3. slot[target] \in [Slots -> Pair] /\ slot' = [slot EXCEPT ![target][at].key = op.key]
      BY <1>2, <2>2 DEF StoreKey, TypeInv, TypeOK
    <2>4. slot'[target] \in [Slots -> Pair]
      <3>1. slot \in [Segments -> [Slots -> Pair]]
        BY DEF TypeInv, TypeOK
      <3>2. op.value \in Values
        BY <1>2, OpType DEF StoreKey, TypeInv
      <3>3. [slot EXCEPT ![target][at].key = op.key] \in [Segments -> [Slots -> Pair]]
        BY <2>2, <3>1, <3>2, StoreWordType
      <3> QED BY <2>2, <2>3, <3>3
    <2>5. slot'[target][Probe(k, i)].key = k
      <3>1. slot[target][at] \in Pair
        BY <2>2, <2>3
      <3>2. slot'[target][at].key = op.key
        BY <2>2, <3>1 DEF Pair
      <3> QED BY <2>1, <2>2, <3>2
    <2>6. Search(slot'[target], k) # NONE
      BY <2>4, <2>5, SearchFinds
    <2> QED BY <1>1, <2>2, <2>6
  <1>3. CASE ~StoreKey /\ pc # "directory"
    BY <1>3, QuietView
  <1>4. CASE pc = "directory"
    <2>1. UNCHANGED slot /\ HomeMoves(k)
      BY <1>4, DirectoryMoves
    <2>2. Home(k) = target /\ Home(k)' = NewSeg /\ SplitBit(k, OldDepth(target))
      BY <1>1, <2>1 DEF HomeMoves, Home
    <2>3. Stored(k, target)
      BY <1>1, <2>2, SearchNone DEF Stored
    <2>4. ~Stored(k, NewSeg)
      <3>1. NewSeg \in Segments
        BY <1>4, SplitFacts DEF Splitting
      <3>2. slot[NewSeg] \in [Slots -> Pair]
        BY <3>1 DEF TypeInv, TypeOK
      <3> QED BY <1>1, <2>1, <2>2, <3>2, SearchFinds DEF Stored
    <2>5. ~Straight
      BY <1>4, <2>2, <2>3, <2>4, MovedWithItsHome DEF LossInv, Splitting
    <2> QED BY <1>4, <2>5, ValueAssumption DEF Straight
  <1> QED BY <1>2, <1>3, <1>4

\* For every hash function: an insertion that has returned is undone only by a
\* split that has put a pair whose window wraps around the end into the new
\* segment, and only as the directory comes to point there.
THEOREM LossesAreAroundTheEnd == Spec => LossOnlyAroundTheEnd
  <1>1. Init => LossInv
    BY InitDataInv DEF LossInv, DataInv, Init, Splitting
  <1>2. TypeInv /\ DirInv /\ LossInv /\ [Next]_vars => LossInv'
    BY StepLossInv
  <1>3. TypeInv /\ DirInv /\ LossInv /\ [Next]_vars =>
          [\A k \in Keys : View[k] # NONE /\ View'[k] = NONE =>
             /\ pc = "directory"
             /\ \E j \in Slots : LET q == slot[NewSeg][j].key IN q # INVALID /\ Wraps(q)]_vars
    BY StepLoss
  <1> QED BY <1>1, <1>2, <1>3, TypeInvHolds, DirectoryAgrees, PTL
          DEF Spec, LossOnlyAroundTheEnd

=============================================================================
