--------------------------- MODULE RwLock_proofs ---------------------------
(***************************************************************************)
(* Theorems about RwLock for every number of threads and every width of    *)
(* the word that has room to count them.                                   *)
(***************************************************************************)
EXTENDS RwLock, FiniteSetTheorems, TLAPS

ThreadInv == TypeInv /\ ExclusiveUntilContended /\ LocalInv

-----------------------------------------------------------------------------
(* The word. *)

LEMMA WordSize ==
  ASSUME NEW t \in Thread
  PROVE  kWriteStatus \in Nat /\ kWriteStatus >= 2
  <1>1. IsFiniteSet({t}) /\ Cardinality({t}) = 1
    BY FS_Singleton
  <1>2. Cardinality({t}) <= Cardinality(Thread) /\ Cardinality(Thread) \in Nat
    BY WordAssumption, FS_Subset, FS_CardinalityType
  <1> QED BY <1>1, <1>2, WordAssumption

\* Only zero wraps around.
LEMMA MinusOneType ==
  ASSUME NEW w \in Words, kWriteStatus \in Nat, kWriteStatus >= 2
  PROVE  /\ MinusOne(w) \in Words
         /\ w >= 1 => MinusOne(w) = w - 1
  <1> DEFINE m == 2 * kWriteStatus
  <1>1. m \in Nat /\ m >= 1 /\ w \in Int /\ 0 <= w /\ w < m
    BY DEF Words
  <1> HIDE DEF m
  <1>2. (w - 1) % m \in 0..(m - 1)
    BY <1>1
  <1>3. w >= 1 => (w - 1) % m = w - 1
    BY <1>1
  <1> QED BY <1>2, <1>3 DEF MinusOne, Words, m

\* The readers are finitely many, and fewer than the top bit.
LEMMA ReaderCount ==
  ASSUME NEW R \in SUBSET Thread
  PROVE  /\ IsFiniteSet(R)
         /\ Cardinality(R) \in Nat
         /\ Cardinality(R) < kWriteStatus
  <1>1. IsFiniteSet(R) /\ Cardinality(R) <= Cardinality(Thread)
    BY WordAssumption, FS_Subset
  <1>2. Cardinality(R) \in Nat /\ Cardinality(Thread) \in Nat
    BY <1>1, WordAssumption, FS_CardinalityType
  <1> QED BY <1>1, <1>2, WordAssumption

-----------------------------------------------------------------------------
(* The invariant. *)

LEMMA InitThreadInv == Init => ThreadInv
  <1> SUFFICES ASSUME Init PROVE ThreadInv
    OBVIOUS
  <1>1. 0 \in Words
    <2>1. Cardinality(Thread) \in Nat
      BY WordAssumption, FS_CardinalityType
    <2> QED BY <2>1, WordAssumption DEF Words
  <1>2. TypeInv
    BY <1>1 DEF Init, TypeInv, TypeOK, kInitialValue
  <1>3. Readers = {} /\ Writers = {}
    BY DEF Init, Readers, Writers
  <1>4. ExclusiveUntilContended
    BY <1>3, FS_EmptySet DEF Init, ExclusiveUntilContended, kInitialValue
  <1>5. LocalInv
    BY DEF Init, LocalInv
  <1> QED BY <1>2, <1>4, <1>5 DEF ThreadInv
\* Nobody else's location or local changes when thread t takes a step.
LEMMA GotoFacts ==
  ASSUME TypeOK, NEW t \in Thread, NEW l, Goto(t, l)
  PROVE  /\ pc'[t] = l
         /\ \A u \in Thread : u # t => pc'[u] = pc[u]
  BY DEF TypeOK, Goto

LEMMA LoadFacts ==
  ASSUME TypeOK, NEW t \in Thread, Load(t)
  PROVE  /\ cur_lock'[t] = lock_
         /\ \A u \in Thread : u # t => cur_lock'[u] = cur_lock[u]
         /\ cur_lock' \in [Thread -> Words]
  BY DEF TypeOK, Load

\* A compare-and-swap leaves the word's type, and changes at most t's local.
LEMMA SwapFacts ==
  ASSUME TypeOK, NEW t \in Thread, NEW v \in Words, Swap(t, v)
  PROVE  /\ lock_' \in Words
         /\ cur_lock' \in [Thread -> Words]
         /\ \A u \in Thread : u # t => cur_lock'[u] = cur_lock[u]
         /\ Succeeds(t) => lock_' = v /\ lock_ = cur_lock[t] /\ cur_lock' = cur_lock
         /\ ~Succeeds(t) => lock_' = lock_ /\ cur_lock'[t] = lock_
  BY LoadFacts DEF Swap, Succeeds, TypeOK

\* Who holds the lock depends on where the threads are and nothing else.
LEMMA HoldersSame ==
  ASSUME NEW t \in Thread,
         \A u \in Thread : u # t => pc'[u] = pc[u],
         pc[t] \in {"reading", "readUnlock"} <=> pc'[t] \in {"reading", "readUnlock"},
         pc[t] \in {"writing", "writeUnlock"} <=> pc'[t] \in {"writing", "writeUnlock"}
  PROVE  Readers' = Readers /\ Writers' = Writers
  BY DEF Readers, Writers

LEMMA ReaderEnters ==
  ASSUME NEW t \in Thread,
         \A u \in Thread : u # t => pc'[u] = pc[u],
         pc[t] = "tryRead", pc'[t] = "reading"
  PROVE  /\ Writers' = Writers
         /\ Readers' = Readers \cup {t}
         /\ Cardinality(Readers') = Cardinality(Readers) + 1
         /\ Cardinality(Readers) \in Nat
  <1>1. Writers' = Writers /\ Readers' = Readers \cup {t} /\ t \notin Readers
    BY DEF Readers, Writers
  <1>2. IsFiniteSet(Readers) /\ Cardinality(Readers) \in Nat
    BY ReaderCount DEF Readers
  <1> QED BY <1>1, <1>2, FS_AddElement

LEMMA ReaderLeaves ==
  ASSUME NEW t \in Thread,
         \A u \in Thread : u # t => pc'[u] = pc[u],
         pc[t] = "readUnlock", pc'[t] = "idle"
  PROVE  /\ Writers' = Writers
         /\ Cardinality(Readers') = Cardinality(Readers) - 1
         /\ Cardinality(Readers) \in Nat
         /\ Cardinality(Readers) >= 1
  <1>1. Writers' = Writers /\ Readers' = Readers \ {t} /\ t \in Readers
    BY DEF Readers, Writers
  <1>2. IsFiniteSet(Readers) /\ Cardinality(Readers) \in Nat
    BY ReaderCount DEF Readers
  <1>3. Cardinality(Readers) # 0
    BY <1>1, <1>2, FS_EmptySet
  <1>4. Cardinality(Readers \ {t}) = Cardinality(Readers) - 1
    BY <1>1, <1>2, FS_RemoveElement
  <1> QED BY <1>1, <1>2, <1>3, <1>4

\* The step lemmas for the word: a call that changes neither the word nor
\* who holds it keeps the count right.
LEMMA CountSame ==
  ASSUME ExclusiveUntilContended, lock_' = lock_, ~contended' => ~contended,
         Readers' = Readers, Writers' = Writers
  PROVE  ExclusiveUntilContended'
  BY DEF ExclusiveUntilContended

LEMMA StepThreadInv ==
  ASSUME ThreadInv, [Next]_vars
  PROVE  ThreadInv'
  <1> USE DEF ThreadInv, TypeInv
  <1>w. \A t \in Thread : kWriteStatus \in Nat /\ kWriteStatus >= 2
    BY WordSize
  <1>1. ASSUME NEW t \in Thread, TryReadLoad(t) PROVE ThreadInv'
    <2>1. /\ pc'[t] = "tryRead" /\ pc[t] = "idle"
          /\ \A u \in Thread : u # t => pc'[u] = pc[u]
      BY <1>1, GotoFacts DEF TryReadLoad
    <2>2. /\ cur_lock'[t] = lock_ /\ lock_ < kWriteStatus
          /\ \A u \in Thread : u # t => cur_lock'[u] = cur_lock[u]
          /\ cur_lock' \in [Thread -> Words]
      BY <1>1, LoadFacts DEF TryReadLoad
    <2>3. TypeInv'
      BY <1>1, <2>1, <2>2 DEF TryReadLoad, TypeOK, Goto
    <2>4. ExclusiveUntilContended'
      BY <1>1, <2>1, HoldersSame, CountSame DEF TryReadLoad
    <2>5. LocalInv'
      BY <1>1, <2>1, <2>2 DEF TryReadLoad, LocalInv
    <2> QED BY <2>3, <2>4, <2>5
  <1>2. ASSUME NEW t \in Thread, TryReadCAS(t) PROVE ThreadInv'
    <2>0. cur_lock[t] + 1 \in Words
      BY <1>2, <1>w DEF TryReadCAS, Words, TypeOK
    <2>1. /\ pc'[t] = (IF Succeeds(t) THEN "reading" ELSE "idle") /\ pc[t] = "tryRead"
          /\ \A u \in Thread : u # t => pc'[u] = pc[u]
      BY <1>2, GotoFacts DEF TryReadCAS
    <2>2. /\ lock_' \in Words
          /\ cur_lock' \in [Thread -> Words]
          /\ \A u \in Thread : u # t => cur_lock'[u] = cur_lock[u]
          /\ Succeeds(t) => lock_' = cur_lock[t] + 1 /\ lock_ = cur_lock[t]
          /\ ~Succeeds(t) => lock_' = lock_
      BY <1>2, <2>0, SwapFacts DEF TryReadCAS
    <2>3. TypeInv'
      BY <1>2, <2>1, <2>2 DEF TryReadCAS, TypeOK, Goto
    <2>4. ExclusiveUntilContended'
      <3>1. CASE Succeeds(t)
        <4>1. /\ Writers' = Writers
              /\ Cardinality(Readers') = Cardinality(Readers) + 1
          BY <3>1, <2>1, ReaderEnters
        <4>2. lock_ < kWriteStatus /\ lock_' = lock_ + 1
          BY <1>2, <2>2, <3>1 DEF TryReadCAS
        <4>3. ~contended => Writers = {}
          BY <4>2, <1>w, <2>2 DEF ExclusiveUntilContended, TypeOK, Words
        <4> QED BY <1>2, <4>1, <4>2, <4>3 DEF ExclusiveUntilContended, TryReadCAS
      <3>2. CASE ~Succeeds(t)
        BY <1>2, <3>2, <2>1, <2>2, HoldersSame, CountSame DEF TryReadCAS
      <3> QED BY <3>1, <3>2
    <2>5. LocalInv'
      BY <1>2, <2>1, <2>2 DEF TryReadCAS, LocalInv
    <2> QED BY <2>3, <2>4, <2>5
  <1>3. ASSUME NEW t \in Thread, ReadUnlockLoad(t) PROVE ThreadInv'
    <2>1. /\ pc'[t] = "readUnlock" /\ pc[t] = "reading"
          /\ \A u \in Thread : u # t => pc'[u] = pc[u]
      BY <1>3, GotoFacts DEF ReadUnlockLoad
    <2>2. /\ cur_lock'[t] = lock_
          /\ \A u \in Thread : u # t => cur_lock'[u] = cur_lock[u]
          /\ cur_lock' \in [Thread -> Words]
      BY <1>3, LoadFacts DEF ReadUnlockLoad
    <2>3. TypeInv'
      BY <1>3, <2>1, <2>2 DEF ReadUnlockLoad, TypeOK, Goto
    <2>4. ExclusiveUntilContended'
      BY <1>3, <2>1, HoldersSame, CountSame DEF ReadUnlockLoad
    <2>5. LocalInv'
      BY <1>3, <2>1, <2>2 DEF ReadUnlockLoad, LocalInv
    <2> QED BY <2>3, <2>4, <2>5
  <1>4. ASSUME NEW t \in Thread, ReadUnlockCAS(t) PROVE ThreadInv'
    <2>0. /\ MinusOne(cur_lock[t]) \in Words
          /\ cur_lock[t] >= 1 => MinusOne(cur_lock[t]) = cur_lock[t] - 1
      BY <1>w, MinusOneType DEF TypeOK
    <2>1. /\ pc'[t] = (IF Succeeds(t) THEN "idle" ELSE "reading") /\ pc[t] = "readUnlock"
          /\ \A u \in Thread : u # t => pc'[u] = pc[u]
      BY <1>4, GotoFacts DEF ReadUnlockCAS
    <2>2. /\ lock_' \in Words
          /\ cur_lock' \in [Thread -> Words]
          /\ \A u \in Thread : u # t => cur_lock'[u] = cur_lock[u]
          /\ Succeeds(t) => lock_' = MinusOne(cur_lock[t]) /\ lock_ = cur_lock[t]
          /\ ~Succeeds(t) => lock_' = lock_
      BY <1>4, <2>0, SwapFacts DEF ReadUnlockCAS
    <2>3. TypeInv'
      BY <1>4, <2>1, <2>2 DEF ReadUnlockCAS, TypeOK, Goto
    <2>4. ExclusiveUntilContended'
      <3>1. CASE Succeeds(t)
        <4>1. /\ Writers' = Writers
              /\ Cardinality(Readers') = Cardinality(Readers) - 1
              /\ Cardinality(Readers) \in Nat /\ Cardinality(Readers) >= 1
          BY <3>1, <2>1, ReaderLeaves
        <4>2. ~contended => Writers = {} /\ lock_ = Cardinality(Readers)
          <5>1. t \in Readers
            BY <2>1 DEF Readers
          <5> QED BY <5>1 DEF ExclusiveUntilContended
        <4>3. ~contended => lock_' = lock_ - 1
          BY <2>0, <2>2, <3>1, <4>1, <4>2
        <4> QED BY <1>4, <4>1, <4>2, <4>3 DEF ExclusiveUntilContended, ReadUnlockCAS
      <3>2. CASE ~Succeeds(t)
        BY <1>4, <3>2, <2>1, <2>2, HoldersSame, CountSame DEF ReadUnlockCAS
      <3> QED BY <3>1, <3>2
    <2>5. LocalInv'
      BY <1>4, <2>1, <2>2 DEF ReadUnlockCAS, LocalInv
    <2> QED BY <2>3, <2>4, <2>5
  <1>5. ASSUME NEW t \in Thread, WriteLockEnter(t) PROVE ThreadInv'
    <2>1. /\ pc'[t] = "writeLock" /\ pc[t] = "idle"
          /\ \A u \in Thread : u # t => pc'[u] = pc[u]
      BY <1>5, GotoFacts DEF WriteLockEnter
    <2>2. /\ cur_lock'[t] = kInitialValue
          /\ \A u \in Thread : u # t => cur_lock'[u] = cur_lock[u]
          /\ cur_lock' \in [Thread -> Words]
      <3>1. kInitialValue \in Words
        BY <1>w DEF Words, kInitialValue
      <3> QED BY <1>5, <3>1 DEF WriteLockEnter, TypeOK
    <2>3. TypeInv'
      BY <1>5, <2>1, <2>2 DEF WriteLockEnter, TypeOK, Goto
    <2>4. ExclusiveUntilContended'
      BY <1>5, <2>1, HoldersSame, CountSame DEF WriteLockEnter
    <2>5. LocalInv'
      BY <1>5, <2>1, <2>2 DEF WriteLockEnter, LocalInv
    <2> QED BY <2>3, <2>4, <2>5
  <1>6. ASSUME NEW t \in Thread, WriteLockCAS(t) PROVE ThreadInv'
    <2>0. kWriteStatus + 1 \in Words
      BY <1>w DEF Words
    <2>1. /\ pc'[t] = (IF Succeeds(t) THEN "writing" ELSE "writeLock") /\ pc[t] = "writeLock"
          /\ \A u \in Thread : u # t => pc'[u] = pc[u]
      BY <1>6, GotoFacts DEF WriteLockCAS
    <2>2. /\ lock_' \in Words
          /\ cur_lock' \in [Thread -> Words]
          /\ \A u \in Thread : u # t => cur_lock'[u] = cur_lock[u]
          /\ Succeeds(t) => lock_' = kWriteStatus + 1 /\ lock_ = cur_lock[t]
          /\ ~contended' => ~contended /\ Succeeds(t)
      BY <1>6, <2>0, SwapFacts DEF WriteLockCAS
    <2>3. TypeInv'
      BY <1>6, <2>1, <2>2 DEF WriteLockCAS, TypeOK, Goto
    <2>4. ExclusiveUntilContended'
      <3> SUFFICES ASSUME ~contended' PROVE ExclusiveUntilContended'
        BY DEF ExclusiveUntilContended
      <3>1. Succeeds(t) /\ ~contended /\ lock_ = 0 /\ lock_' = kWriteStatus + 1
        BY <2>1, <2>2 DEF LocalInv, kInitialValue
      <3>2. Writers = {} /\ Readers = {}
        <4>1. IsFiniteSet(Readers)
          BY ReaderCount DEF Readers
        <4>2. Writers = {}
          BY <1>w, <3>1 DEF ExclusiveUntilContended
        <4> QED BY <3>1, <4>1, <4>2, FS_EmptySet DEF ExclusiveUntilContended
      <3>3. Writers' = {t} /\ Readers' = {}
        BY <2>1, <3>1, <3>2 DEF Readers, Writers
      <3> QED BY <3>1, <3>3 DEF ExclusiveUntilContended
    <2>5. LocalInv'
      BY <2>1, <2>2 DEF LocalInv
    <2> QED BY <2>3, <2>4, <2>5
  <1>7. ASSUME NEW t \in Thread, WriteUnlockLoad(t) PROVE ThreadInv'
    <2>1. /\ pc'[t] = "writeUnlock" /\ pc[t] = "writing"
          /\ \A u \in Thread : u # t => pc'[u] = pc[u]
      BY <1>7, GotoFacts DEF WriteUnlockLoad
    <2>2. /\ cur_lock'[t] = lock_
          /\ \A u \in Thread : u # t => cur_lock'[u] = cur_lock[u]
          /\ cur_lock' \in [Thread -> Words]
      BY <1>7, LoadFacts DEF WriteUnlockLoad
    <2>3. TypeInv'
      BY <1>7, <2>1, <2>2 DEF WriteUnlockLoad, TypeOK, Goto
    <2>4. ExclusiveUntilContended'
      BY <1>7, <2>1, HoldersSame, CountSame DEF WriteUnlockLoad
    <2>5. LocalInv'
      <3>1. ~contended => lock_ = kWriteStatus + 1
        <4>1. t \in Writers
          BY <2>1 DEF Writers
        <4> QED BY <4>1 DEF ExclusiveUntilContended
      <3> QED BY <1>7, <2>1, <2>2, <3>1 DEF WriteUnlockLoad, LocalInv
    <2> QED BY <2>3, <2>4, <2>5
  <1>8. ASSUME NEW t \in Thread, WriteUnlockCAS(t) PROVE ThreadInv'
    <2>0. kInitialValue \in Words
      BY <1>w DEF Words, kInitialValue
    <2>1. /\ pc'[t] = "idle" /\ pc[t] = "writeUnlock"
          /\ \A u \in Thread : u # t => pc'[u] = pc[u]
      BY <1>8, GotoFacts DEF WriteUnlockCAS
    <2>2. /\ lock_' \in Words
          /\ cur_lock' \in [Thread -> Words]
          /\ \A u \in Thread : u # t => cur_lock'[u] = cur_lock[u]
          /\ Succeeds(t) => lock_' = kInitialValue
      BY <1>8, <2>0, SwapFacts DEF WriteUnlockCAS
    <2>3. TypeInv'
      BY <1>8, <2>1, <2>2 DEF WriteUnlockCAS, TypeOK, Goto
    <2>4. ExclusiveUntilContended'
      <3> SUFFICES ASSUME ~contended' PROVE ExclusiveUntilContended'
        BY DEF ExclusiveUntilContended
      <3>1. ~contended
        BY <1>8 DEF WriteUnlockCAS
      <3>2. Writers = {t} /\ Readers = {} /\ lock_ = kWriteStatus + 1
        <4>1. t \in Writers
          BY <2>1 DEF Writers
        <4> QED BY <3>1, <4>1 DEF ExclusiveUntilContended
      <3>3. lock_' = 0
        BY <2>1, <2>2, <3>1, <3>2 DEF LocalInv, Succeeds, kInitialValue
      <3>4. Writers' = {} /\ Readers' = {}
        BY <2>1, <3>2 DEF Readers, Writers
      <3> QED BY <3>3, <3>4, FS_EmptySet DEF ExclusiveUntilContended
    <2>5. LocalInv'
      BY <1>8, <2>1, <2>2 DEF WriteUnlockCAS, LocalInv
    <2> QED BY <2>3, <2>4, <2>5
  <1>9. CASE UNCHANGED vars
    BY <1>9 DEF vars, TypeOK, ExclusiveUntilContended, LocalInv, Readers, Writers
  <1> QED BY <1>1, <1>2, <1>3, <1>4, <1>5, <1>6, <1>7, <1>8, <1>9 DEF Next

-----------------------------------------------------------------------------
(* The theorems. *)

LEMMA SpecThreadInv == Spec => []ThreadInv
  BY InitThreadInv, StepThreadInv, PTL DEF Spec

\* The word never leaves its width, whatever a WriteLock does to the count.
THEOREM WordStaysAWord == Spec => []TypeOK
  <1>1. ThreadInv => TypeOK
    BY DEF ThreadInv, TypeInv
  <1> QED BY <1>1, SpecThreadInv, PTL

\* The lock works for any number of threads as long as no WriteLock starts
\* on a lock that is held: the word counts its holders, a writer is alone.
THEOREM ExclusionUntilContended == Spec => []ExclusiveUntilContended
  <1>1. ThreadInv => ExclusiveUntilContended
    BY DEF ThreadInv
  <1> QED BY <1>1, SpecThreadInv, PTL

=============================================================================
