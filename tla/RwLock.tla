------------------------------- MODULE RwLock -------------------------------
(***************************************************************************)
(* The reader/writer spin lock of datastructures/util/rwlock.h.  The lock  *)
(* is one word: the top bit says a writer holds it, the rest counts the    *)
(* holders.  Nothing in the repository uses it; the clients modelled are   *)
(* threads that release what they acquired and nothing else.               *)
(*                                                                         *)
(* One action is one access to the word.  The macro CAS passes the address *)
(* of cur_lock to __atomic_compare_exchange_n, which overwrites cur_lock   *)
(* with the word it found when the comparison fails.                       *)
(***************************************************************************)
EXTENDS Integers, FiniteSets

CONSTANTS
  Thread,
  kWriteStatus   \* the top bit of the word

ASSUME WordAssumption ==
  /\ kWriteStatus \in Nat
  /\ IsFiniteSet(Thread)
  /\ Cardinality(Thread) < kWriteStatus

VARIABLES
  lock_,      \* the word
  pc,         \* where each thread is
  cur_lock,   \* the local of the call each thread is in
  contended   \* history: a WriteLock has met a lock that was held

vars == <<lock_, pc, cur_lock, contended>>

kInitialValue == 0
Words == 0..(2 * kWriteStatus - 1)

Init ==
  /\ lock_ = kInitialValue
  /\ pc = [t \in Thread |-> "idle"]
  /\ cur_lock = [t \in Thread |-> 0]
  /\ contended = FALSE

Goto(t, label) == pc' = [pc EXCEPT ![t] = label]

\* cur_lock = lock_
Load(t) == cur_lock' = [cur_lock EXCEPT ![t] = lock_]

\* CAS(&lock_, &cur_lock, v) stores v if the word is still cur_lock, and
\* copies the word to cur_lock if it is not.
Succeeds(t) == lock_ = cur_lock[t]

\* Mutation: no compare, the value computed from the stale read is stored.
SwapBlindly(t, v) == lock_' = v /\ UNCHANGED cur_lock

Swap(t, v) ==
  IF Succeeds(t) THEN lock_' = v /\ UNCHANGED cur_lock
  ELSE Load(t) /\ UNCHANGED lock_

-----------------------------------------------------------------------------

TryReadLoad(t) ==
  /\ pc[t] = "idle"
  /\ lock_ < kWriteStatus
  /\ Load(t)
  /\ Goto(t, "tryRead")
  /\ UNCHANGED <<lock_, contended>>

\* Returns true and holds the lock, or returns false.
TryReadCAS(t) ==
  /\ pc[t] = "tryRead"
  /\ Swap(t, cur_lock[t] + 1)
  /\ Goto(t, IF Succeeds(t) THEN "reading" ELSE "idle")
  /\ UNCHANGED contended

ReadUnlockLoad(t) ==
  /\ pc[t] = "reading"
  /\ Load(t)
  /\ Goto(t, "readUnlock")
  /\ UNCHANGED <<lock_, contended>>

\* Mutation: the word is signed.
MinusOneSigned(w) == w - 1

\* Unsigned arithmetic: zero wraps around.
MinusOne(w) == (w - 1) % (2 * kWriteStatus)

\* A failed round loads the word again.
ReadUnlockCAS(t) ==
  /\ pc[t] = "readUnlock"
  /\ Swap(t, MinusOne(cur_lock[t]))
  /\ Goto(t, IF Succeeds(t) THEN "idle" ELSE "reading")
  /\ UNCHANGED contended

WriteLockEnter(t) ==
  /\ pc[t] = "idle"
  /\ cur_lock' = [cur_lock EXCEPT ![t] = kInitialValue]
  /\ Goto(t, "writeLock")
  /\ UNCHANGED <<lock_, contended>>

\* A failed round leaves the word it found in cur_lock and compares again.
WriteLockCAS(t) ==
  /\ pc[t] = "writeLock"
  /\ Swap(t, kWriteStatus + 1)
  /\ Goto(t, IF Succeeds(t) THEN "writing" ELSE "writeLock")
  /\ contended' = (contended \/ ~Succeeds(t))

WriteUnlockLoad(t) ==
  /\ pc[t] = "writing"
  /\ Load(t)
  /\ Goto(t, "writeUnlock")
  /\ UNCHANGED <<lock_, contended>>

\* The result is not looked at: the call returns either way.
WriteUnlockCAS(t) ==
  /\ pc[t] = "writeUnlock"
  /\ Swap(t, kInitialValue)
  /\ Goto(t, "idle")
  /\ UNCHANGED contended

Next ==
  \E t \in Thread :
    \/ TryReadLoad(t) \/ TryReadCAS(t) \/ ReadUnlockLoad(t) \/ ReadUnlockCAS(t)
    \/ WriteLockEnter(t) \/ WriteLockCAS(t) \/ WriteUnlockLoad(t) \/ WriteUnlockCAS(t)

Spec == Init /\ [][Next]_vars

-----------------------------------------------------------------------------
(* Correctness *)

Readers == {t \in Thread : pc[t] \in {"reading", "readUnlock"}}
Writers == {t \in Thread : pc[t] \in {"writing", "writeUnlock"}}

TypeOK ==
  /\ lock_ \in Words
  /\ pc \in [Thread -> {"idle", "tryRead", "reading", "readUnlock",
                        "writeLock", "writing", "writeUnlock"}]
  /\ cur_lock \in [Thread -> Words]
  /\ contended \in BOOLEAN

\* As long as no WriteLock has met a held lock, the word counts its holders
\* and a writer is alone: no interleaving of loads and compare-and-swaps
\* loses a reader or lets one in beside a writer.
ExclusiveUntilContended ==
  ~contended =>
    /\ Writers = {} => lock_ = Cardinality(Readers)
    /\ Writers # {} => /\ lock_ = kWriteStatus + 1
                       /\ Readers = {}
                       /\ \A t, u \in Writers : t = u

\* WriteLock "will block": it returns only once nobody holds the lock.
WriteLockBlocks ==
  [][\A t \in Thread :
       t \notin Writers /\ t \in Writers' => Readers = {} /\ Writers = {}]_vars

-----------------------------------------------------------------------------
(* Inductive invariant *)

\* What the locals of the calls in progress rest on.  A reader only ever adds
\* one to a word without a writer, whatever a WriteLock may have done since.
TypeInv ==
  /\ TypeOK
  /\ \A t \in Thread : pc[t] = "tryRead" => cur_lock[t] < kWriteStatus

\* Until a WriteLock meets a held lock, it compares with the initial value,
\* and no word is left for a WriteUnlock to fail on.
LocalInv ==
  ~contended =>
    \A t \in Thread :
      /\ pc[t] = "writeLock" => cur_lock[t] = kInitialValue
      /\ pc[t] = "writeUnlock" => cur_lock[t] = kWriteStatus + 1

=============================================================================
