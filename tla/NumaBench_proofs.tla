------------------------- MODULE NumaBench_proofs -------------------------
(***************************************************************************)
(* The helpers of Prepare share the object without losing a chunk, every   *)
(* chunk is on its thread's node, and the writers overwrite what they were *)
(* asked to: for any number of helpers, rounds, addresses, descriptors and *)
(* blocks, and for helpers that fail or are killed at any point.           *)
(***************************************************************************)
EXTENDS NumaBench, FiniteSetTheorems, TLAPS

InPlace == {"open", "run", "cleanup"}
Critical == {"extend", "fill"}
Addressed == {addrs[t] : t \in DOMAIN addrs}
InHand == {addr[t] : t \in Filling}

OneChunkEach == \A t, u \in DOMAIN addrs : addrs[t] = addrs[u] => t = u

IdleInv ==
  (place \in {"none", "ended"} \/ place = "creat") =>
    DOMAIN preparing = {} /\ DOMAIN addrs = {} /\ DOMAIN descriptors = {}

ObjectInv ==
  /\ Name \in DOMAIN objects
  /\ objects[Name] \in Seq(Addrs)
  /\ OneChunkEach

LockInv ==
  /\ \A t \in DOMAIN preparing : preparing[t] \in Critical => g_mutex
  /\ \A t, u \in DOMAIN preparing :
       preparing[t] \in Critical /\ preparing[u] \in Critical => t = u

HelperInv ==
  /\ ObjectInv
  /\ LockInv
  /\ DOMAIN descriptors # {} /\ \A p \in DOMAIN descriptors : descriptors[p] = Name
  /\ \E k \in Nat : DOMAIN preparing = 0..k - 1
  /\ \A t \in DOMAIN preparing :
       preparing[t] \in {"lock", "extend", "fill", "draw", "done"}
  /\ DOMAIN addrs = {t \in DOMAIN preparing : preparing[t] \in {"draw", "done"}}
  /\ \A t \in Filling : addr[t] \notin Addressed
  /\ Chain = Addressed \cup InHand

MeasuredInv ==
  /\ ObjectInv
  /\ DOMAIN preparing = {}
  /\ DOMAIN addrs = 0..Helpers - 1
  /\ Chain = Addressed

IInv ==
  /\ place \in {"none", "ended", "creat", "prepare"} \cup InPlace
  /\ program = "none" <=> place \in {"none", "ended"}
  /\ IdleInv
  /\ place = "prepare" => HelperInv
  /\ place \in InPlace => MeasuredInv

-----------------------------------------------------------------------------
LEMMA HelpersType == Helpers \in Nat \ {0}
  BY ChunksAssumption, BenchmarkAssumption

LEMMA HowMany ==
  ASSUME NEW k \in Nat, NEW S, S = 0..k - 1
  PROVE  Cardinality(S) = k
  <1>1. Cardinality(0..k - 1) = k
    BY FS_Interval
  <1> QED BY <1>1

LEMMA FreeIsFree ==
  ASSUME FreeAddrs # {}
  PROVE  AnyFree \in Addrs /\ AnyFree \notin InUse
  BY DEF AnyFree, FreeAddrs

-----------------------------------------------------------------------------
(* Steps *)

LEMMA EndingStep ==
  ASSUME NEW where \in {"none", "ended"},
         program' = "none", place' = where, addrs' = Empty, descriptors' = Empty,
         preparing' = Empty
  PROVE  IInv'
  BY DEF IInv, IdleInv, InPlace, Empty

\* Steps that leave the helpers and the object alone
LEMMA MeasuringStep ==
  ASSUME IInv, place \in InPlace, place' \in InPlace,
         UNCHANGED <<objects, program, addrs, preparing>>
  PROVE  IInv'
  <1>1. MeasuredInv /\ program # "none"
    BY DEF IInv, InPlace
  <1>2. Name' = Name
    BY DEF Name
  <1>3. MeasuredInv'
    <2>1. Chain' = Chain /\ Addressed' = Addressed
      BY <1>2 DEF Chain, Addressed
    <2>2. ObjectInv'
      BY <1>1, <1>2 DEF MeasuredInv, ObjectInv, OneChunkEach
    <2> QED BY <1>1, <2>1, <2>2 DEF MeasuredInv
  <1> QED BY <1>1, <1>3 DEF IInv, IdleInv, InPlace

LEMMA LockStep ==
  ASSUME IInv, NEW t \in DOMAIN preparing, Lock(t)
  PROVE  IInv'
  <1>1. place = "prepare" /\ HelperInv /\ program # "none"
    BY DEF IInv, IdleInv, MeasuredInv, InPlace
  <1>2. /\ preparing[t] = "lock" /\ ~g_mutex /\ g_mutex'
        /\ preparing' = [preparing EXCEPT ![t] = "extend"]
        /\ UNCHANGED <<objects, descriptors, program, place, addrs, addr>>
    BY DEF Lock, bench, kernel, process
  <1>3. Filling' = Filling
    BY <1>2 DEF Filling
  <1>4. Name' = Name /\ Chain' = Chain /\ Addressed' = Addressed /\ InHand' = InHand
    BY <1>2, <1>3 DEF Name, Chain, Addressed, InHand
  <1>5. LockInv'
    BY <1>1, <1>2 DEF HelperInv, LockInv, Critical
  <1>6. ObjectInv'
    BY <1>1, <1>2, <1>4 DEF HelperInv, ObjectInv, OneChunkEach
  <1>7. DOMAIN addrs' = {u \in DOMAIN preparing' : preparing'[u] \in {"draw", "done"}}
    BY <1>1, <1>2 DEF HelperInv
  <1>8. \A u \in Filling' : addr'[u] \notin Addressed'
    BY <1>1, <1>2, <1>3, <1>4 DEF HelperInv
  <1>9. \A u \in DOMAIN preparing' :
          preparing'[u] \in {"lock", "extend", "fill", "draw", "done"}
    BY <1>1, <1>2 DEF HelperInv
  <1>10. HelperInv'
    BY <1>1, <1>2, <1>4, <1>5, <1>6, <1>7, <1>8, <1>9 DEF HelperInv
  <1> QED BY <1>1, <1>2, <1>10 DEF IInv, IdleInv, InPlace

LEMMA ExtendStep ==
  ASSUME IInv, NEW t \in DOMAIN preparing, NEW from, Extend(t, from)
  PROVE  IInv'
  <1>1. place = "prepare" /\ HelperInv /\ program # "none"
    BY DEF IInv, IdleInv, MeasuredInv, InPlace
  <1> DEFINE a == AnyFree
  <1>2. /\ preparing[t] = "extend" /\ FreeAddrs # {}
        /\ preparing' = [preparing EXCEPT ![t] = "fill"]
        /\ addr' = With(addr, t, a)
        /\ UNCHANGED <<descriptors, program, place, addrs, g_mutex>>
    BY DEF Extend, process
  <1>3. a \in Addrs /\ a \notin InUse
    BY <1>2, FreeIsFree
  <1>4. objects' = With(objects, Name, Append(objects[Name], a))
    BY <1>1 DEF Extend, po_extend, HelperInv
  <1> HIDE DEF a
  <1>5. Filling = {} /\ Filling' = {t}
    BY <1>1, <1>2 DEF HelperInv, LockInv, Critical, Filling
  <1>6. Name' = Name /\ Addressed' = Addressed
    BY <1>2 DEF Name, Addressed
  <1>7. InHand' = {a}
    BY <1>2, <1>5 DEF InHand, With
  <1>8. Chain' = Chain \cup {a} /\ ObjectInv' /\ a \notin Chain
    <2>1. Name \in DOMAIN objects /\ objects[Name] \in Seq(Addrs)
      BY <1>1 DEF HelperInv, ObjectInv
    <2>2. objects'[Name] = Append(objects[Name], a) /\ Name \in DOMAIN objects'
      BY <1>4, <2>1 DEF With
    <2>3. Chain' = Chain \cup {a}
      BY <1>3, <1>6, <2>1, <2>2 DEF Chain
    <2>4. ObjectInv'
      BY <1>1, <1>2, <1>3, <1>6, <2>1, <2>2 DEF HelperInv, ObjectInv, OneChunkEach
    <2>5. a \notin Chain
      BY <1>3, <2>1 DEF Chain, InUse
    <2> QED BY <2>3, <2>4, <2>5
  <1>9. LockInv'
    BY <1>1, <1>2 DEF HelperInv, LockInv, Critical
  <1>10. \A u \in Filling' : addr'[u] \notin Addressed'
    BY <1>1, <1>2, <1>5, <1>6, <1>8 DEF HelperInv, With
  <1>11. DOMAIN addrs' = {u \in DOMAIN preparing' : preparing'[u] \in {"draw", "done"}}
    BY <1>1, <1>2 DEF HelperInv
  <1>12. \A u \in DOMAIN preparing' :
           preparing'[u] \in {"lock", "extend", "fill", "draw", "done"}
    BY <1>1, <1>2 DEF HelperInv
  <1>13. Chain' = Addressed' \cup InHand'
    BY <1>1, <1>5, <1>6, <1>7, <1>8 DEF HelperInv, InHand
  <1>14. HelperInv'
    BY <1>1, <1>2, <1>6, <1>8, <1>9, <1>10, <1>11, <1>12, <1>13 DEF HelperInv
  <1> QED BY <1>1, <1>2, <1>14 DEF IInv, IdleInv, InPlace

LEMMA FillStep ==
  ASSUME IInv, NEW t \in DOMAIN preparing, NEW then \in {"draw", "done"}, Fill(t, then)
  PROVE  IInv'
  <1>1. place = "prepare" /\ HelperInv /\ program # "none"
    BY DEF IInv, IdleInv, MeasuredInv, InPlace
  <1>2. /\ preparing[t] = "fill"
        /\ preparing' = [preparing EXCEPT ![t] = then]
        /\ addrs' = With(addrs, t, addr[t])
        /\ UNCHANGED <<objects, descriptors, program, place, addr>>
    BY DEF Fill, kernel
  <1>3. Filling = {t} /\ Filling' = {}
    BY <1>1, <1>2 DEF HelperInv, LockInv, Critical, Filling
  <1>4. Name' = Name /\ Chain' = Chain
    BY <1>2 DEF Name, Chain
  <1>5. t \notin DOMAIN addrs /\ addr[t] \notin Addressed
    BY <1>1, <1>2, <1>3 DEF HelperInv
  <1>6. Addressed' = Addressed \cup {addr[t]}
    BY <1>2, <1>5 DEF Addressed, With
  <1>7. Chain' = Addressed' \cup InHand'
    BY <1>1, <1>3, <1>4, <1>6 DEF HelperInv, InHand
  <1>8. OneChunkEach'
    BY <1>1, <1>2, <1>5 DEF HelperInv, ObjectInv, OneChunkEach, With, Addressed
  <1>9. LockInv'
    BY <1>1, <1>2 DEF HelperInv, LockInv, Critical
  <1>10. DOMAIN addrs' = {u \in DOMAIN preparing' : preparing'[u] \in {"draw", "done"}}
    BY <1>1, <1>2 DEF HelperInv, With
  <1>11. \A u \in DOMAIN preparing' :
           preparing'[u] \in {"lock", "extend", "fill", "draw", "done"}
    BY <1>1, <1>2 DEF HelperInv
  <1>12. HelperInv'
    BY <1>1, <1>2, <1>3, <1>4, <1>7, <1>8, <1>9, <1>10, <1>11 DEF HelperInv, ObjectInv
  <1> QED BY <1>1, <1>2, <1>12 DEF IInv, IdleInv, InPlace

LEMMA DrawStep ==
  ASSUME IInv, NEW t \in DOMAIN preparing, Draw(t)
  PROVE  IInv'
  <1>1. place = "prepare" /\ HelperInv /\ program # "none"
    BY DEF IInv, IdleInv, MeasuredInv, InPlace
  <1>2. /\ preparing[t] = "draw"
        /\ preparing' = [preparing EXCEPT ![t] = "done"]
        /\ UNCHANGED <<objects, descriptors, program, place, addrs, g_mutex, addr>>
    BY DEF Draw, kernel
  <1>3. Filling' = Filling
    BY <1>2 DEF Filling
  <1>4. Name' = Name /\ Chain' = Chain /\ Addressed' = Addressed /\ InHand' = InHand
    BY <1>2, <1>3 DEF Name, Chain, Addressed, InHand
  <1>5. LockInv'
    BY <1>1, <1>2 DEF HelperInv, LockInv, Critical
  <1>6. ObjectInv'
    BY <1>1, <1>2, <1>4 DEF HelperInv, ObjectInv, OneChunkEach
  <1>7. DOMAIN addrs' = {u \in DOMAIN preparing' : preparing'[u] \in {"draw", "done"}}
    BY <1>1, <1>2 DEF HelperInv
  <1>8. \A u \in DOMAIN preparing' :
          preparing'[u] \in {"lock", "extend", "fill", "draw", "done"}
    BY <1>1, <1>2 DEF HelperInv
  <1>9. HelperInv'
    BY <1>1, <1>2, <1>3, <1>4, <1>5, <1>6, <1>7, <1>8 DEF HelperInv
  <1> QED BY <1>1, <1>2, <1>9 DEF IInv, IdleInv, InPlace

LEMMA ForkStep ==
  ASSUME IInv, program # "none", Fork
  PROVE  IInv'
  <1>1. place = "prepare" /\ HelperInv
    BY DEF IInv, Fork
  <1> DEFINE n == Cardinality(DOMAIN preparing)
  <1>2. /\ preparing' = With(preparing, n, "lock")
        /\ UNCHANGED <<objects, descriptors, program, place, addrs, g_mutex, addr>>
    BY DEF Fork, bench, kernel, process
  <1>3. n \in Nat /\ DOMAIN preparing = 0..n - 1
    BY <1>1, HowMany DEF HelperInv
  <1> HIDE DEF n
  <1>4. /\ n \notin DOMAIN preparing /\ preparing'[n] = "lock"
        /\ \A t \in DOMAIN preparing : preparing'[t] = preparing[t]
        /\ DOMAIN preparing' = DOMAIN preparing \cup {n}
        /\ DOMAIN preparing' = 0..(n + 1) - 1
    BY <1>2, <1>3 DEF With
  <1>5. Filling' = Filling
    BY <1>4 DEF Filling
  <1>6. Name' = Name /\ Chain' = Chain /\ Addressed' = Addressed /\ InHand' = InHand
    BY <1>2, <1>5 DEF Name, Chain, Addressed, InHand
  <1>7. LockInv'
    BY <1>1, <1>2, <1>4 DEF HelperInv, LockInv, Critical
  <1>8. ObjectInv'
    BY <1>1, <1>2, <1>6 DEF HelperInv, ObjectInv, OneChunkEach
  <1>9. DOMAIN addrs' = {u \in DOMAIN preparing' : preparing'[u] \in {"draw", "done"}}
    BY <1>1, <1>2, <1>4 DEF HelperInv
  <1>10. \A u \in DOMAIN preparing' :
           preparing'[u] \in {"lock", "extend", "fill", "draw", "done"}
    BY <1>1, <1>4 DEF HelperInv
  <1>11. \E k \in Nat : DOMAIN preparing' = 0..k - 1
    <2>1. n + 1 \in Nat
      BY <1>3
    <2> QED BY <1>4, <2>1
  <1>12. HelperInv'
    BY <1>1, <1>2, <1>5, <1>6, <1>7, <1>8, <1>9, <1>10, <1>11 DEF HelperInv
  <1> QED BY <1>1, <1>2, <1>12 DEF IInv, IdleInv, InPlace

\* When every helper has returned there is a chunk for every thread to come.
LEMMA JoinStep ==
  ASSUME IInv, program # "none", JoinHelpers
  PROVE  IInv'
  <1>1. place = "prepare" /\ HelperInv
    BY DEF IInv, JoinHelpers
  <1>2. /\ \A t \in DOMAIN preparing : preparing[t] = "done"
        /\ Cardinality(DOMAIN preparing) = Helpers
        /\ preparing' = Empty /\ place' = "open"
        /\ UNCHANGED <<objects, program, addrs>>
    BY DEF JoinHelpers
  <1>3. DOMAIN addrs = 0..Helpers - 1
    BY <1>1, <1>2, HowMany DEF HelperInv
  <1>4. Filling = {}
    BY <1>2 DEF Filling
  <1>5. Name' = Name /\ Chain' = Chain /\ Addressed' = Addressed
    BY <1>2 DEF Name, Chain, Addressed
  <1>6. Chain = Addressed
    BY <1>1, <1>4 DEF HelperInv, InHand
  <1>7. ObjectInv'
    BY <1>1, <1>2, <1>5 DEF HelperInv, ObjectInv, OneChunkEach
  <1>8. MeasuredInv'
    BY <1>2, <1>3, <1>5, <1>6, <1>7 DEF MeasuredInv, Empty
  <1> QED BY <1>1, <1>2, <1>8 DEF IInv, IdleInv, InPlace

LEMMA CreatStep ==
  ASSUME IInv, program # "none", Creat, UNCHANGED prepare
  PROVE  IInv'
  <1>1. place = "creat" /\ DOMAIN preparing = {} /\ DOMAIN addrs = {}
        /\ DOMAIN descriptors = {}
    BY DEF IInv, IdleInv, Creat
  <1>2. PICK pod \in FreePods : po_creat(Name, pod)
    BY DEF Creat
  <1>3. /\ objects' = With(objects, Name, <<>>)
        /\ descriptors' = With(descriptors, pod, Name)
        /\ place' = "prepare"
        /\ UNCHANGED <<program, addrs, preparing>>
    BY <1>2 DEF Creat, po_creat, prepare
  <1>4. Name' = Name
    BY <1>3 DEF Name
  <1>5. ObjectInv' /\ objects'[Name] = <<>>
    BY <1>1, <1>3, <1>4 DEF ObjectInv, OneChunkEach, With
  <1>6. Chain' = {} /\ Addressed' = {} /\ Filling' = {} /\ InHand' = {}
    BY <1>1, <1>3, <1>4, <1>5 DEF Chain, Addressed, Filling, InHand
  <1>7. DOMAIN descriptors' # {} /\ \A p \in DOMAIN descriptors' : descriptors'[p] = Name
    BY <1>1, <1>3 DEF With
  <1>8. \E k \in Nat : DOMAIN preparing' = 0..k - 1
    <2>1. DOMAIN preparing' = 0..0 - 1
      BY <1>1, <1>3
    <2> QED BY <2>1
  <1>9. HelperInv'
    BY <1>1, <1>3, <1>4, <1>5, <1>6, <1>7, <1>8 DEF HelperInv, LockInv
  <1> QED BY <1>3, <1>9 DEF IInv, IdleInv, InPlace

LEMMA RoundStep ==
  ASSUME IInv, program # "none", Round, UNCHANGED prepare
  PROVE  IInv'
  <1>1. UNCHANGED preparing
    BY DEF prepare
  <1>2. CASE OpenRound
    <2>1. place = "open" /\ place' = "run" /\ UNCHANGED <<program, addrs>>
      BY <1>2 DEF OpenRound
    <2>2. Name \in DOMAIN objects
      BY <2>1 DEF IInv, InPlace, MeasuredInv, ObjectInv
    <2>3. UNCHANGED objects
      BY <1>2, <2>2 DEF OpenRound, Opened, kernel
    <2> QED BY <1>1, <2>1, <2>3, MeasuringStep DEF InPlace
  <1>3. CASE Spawn(Threads)
    <2>1. place = "run" /\ UNCHANGED <<objects, place, program, addrs>>
      BY <1>3 DEF Spawn, kernel
    <2> QED BY <1>1, <2>1, MeasuringStep DEF InPlace
  <1>4. CASE Joined(Threads, BlockNum) /\ NextRound(Len(ThreadNum), "open", "cleanup")
    <2>1. place = "run" /\ place' \in InPlace /\ UNCHANGED <<objects, program, addrs>>
      BY <1>4 DEF Joined, NextRound, InPlace
    <2> QED BY <1>1, <2>1, MeasuringStep DEF InPlace
  <1> QED BY <1>2, <1>3, <1>4 DEF Round

-----------------------------------------------------------------------------
(* The programs *)

LEMMA MainStep ==
  ASSUME IInv, Main
  PROVE  IInv'
  <1>1. program # "none" /\ (main \/ CleanupPo)
    BY DEF Main, Running,
       numa_seqread_main, numa_seqread_Cleanup,
       numa_seqread_aware_main, numa_seqread_aware_Cleanup,
       numa_seqwrite_main, numa_seqwrite_Cleanup,
       numa_seqwrite_aware_main, numa_seqwrite_aware_Cleanup,
       pages_randread_main, pages_randread_Cleanup,
       pages_randread_mul_main, pages_randread_mul_Cleanup,
       pages_randwrite_main, pages_randwrite_Cleanup,
       pages_randwrite_mul_main, pages_randwrite_mul_Cleanup
  <1>2. CASE CleanupPo
    BY <1>2, EndingStep DEF CleanupPo, Ending, Cleanup, Gone
  <1>3. CASE CreatPo
    <2>1. CASE Other(Creat)
      BY <1>1, <2>1, CreatStep DEF Other
    <2>2. CASE Ending(CreatFails)
      BY <2>2, EndingStep DEF Ending, CreatFails, Gone
    <2> QED BY <1>3, <2>1, <2>2 DEF CreatPo
  <1>4. CASE Other(Round)
    BY <1>1, <1>4, RoundStep DEF Other
  <1> QED BY <1>1, <1>2, <1>3, <1>4, ForkStep, JoinStep DEF main

LEMMA HelperStep ==
  ASSUME IInv, NEW t \in DOMAIN preparing, Helper(t)
  PROVE  IInv'
  <1>1. \/ \E from \in 0..2, then \in {"draw", "done"} : Prepare(t, from, then)
        \/ Draw(t)
    BY DEF Helper, Local, Node, Anywhere,
       numa_seqread_Prepare, numa_seqread_aware_Prepare,
       numa_seqwrite_Prepare, numa_seqwrite_aware_Prepare,
       pages_randread_Prepare, pages_randread_mul_Prepare,
       pages_randwrite_Prepare, pages_randwrite_mul_Prepare
  <1>2. CASE Draw(t)
    BY <1>2, DrawStep
  <1>3. ASSUME NEW from \in 0..2, NEW then \in {"draw", "done"}, Prepare(t, from, then)
        PROVE  IInv'
    <2>1. CASE Refused(t)
      BY <2>1, EndingStep DEF Refused, Ending, ExtendFails, Gone
    <2> QED BY <1>3, <2>1, LockStep, ExtendStep, FillStep DEF Prepare
  <1> QED BY <1>1, <1>2, <1>3

LEMMA ThreadStep ==
  ASSUME IInv, NEW t \in DOMAIN moves, Thread(t)
  PROVE  IInv'
  <1>1. \E block : MoveBlock(t, BlockNum, block) /\ UNCHANGED prepare
    BY DEF Thread, Other, ReadBlock, WriteBlock,
       numa_seqread_SeqReadThread, numa_seqread_aware_SeqReadThread,
       numa_seqwrite_SeqWriteThread, numa_seqwrite_aware_SeqWriteThread,
       pages_randread_RandReadThread, pages_randread_mul_RandReadThread,
       pages_randwrite_RandWriteThread, pages_randwrite_mul_RandWriteThread
  <1>2. place = "run" /\ UNCHANGED <<objects, place, program, addrs, preparing>>
    BY <1>1 DEF MoveBlock, kernel, prepare
  <1> QED BY <1>2, MeasuringStep DEF InPlace

LEMMA InitIInv == NumaInit => IInv
  BY DEF NumaInit, Init, IInv, IdleInv, InPlace, Empty

LEMMA NextIInv == IInv /\ [Next]_vars => IInv'
  <1> SUFFICES ASSUME IInv, [Next]_vars PROVE IInv'
    OBVIOUS
  <1>1. ASSUME NEW p \in Programs, Other(Start(p))
        PROVE  IInv'
    <2>1. /\ program = "none" /\ program' = p /\ p # "none" /\ place' = "creat"
          /\ UNCHANGED <<preparing, addrs, descriptors>>
      BY <1>1, BenchmarkAssumption DEF Other, Start, kernel, prepare
    <2> QED BY <2>1 DEF IInv, IdleInv, InPlace
  <1>2. CASE Ending(Die)
    BY <1>2, EndingStep DEF Ending, Die, Gone
  <1>3. CASE Other(DeletePo)
    <2>1. /\ program = "none" /\ program' = "none" /\ place' = "none"
          /\ UNCHANGED <<preparing, addrs, descriptors>>
      BY <1>3 DEF Other, DeletePo, prepare
    <2> QED BY <2>1 DEF IInv, IdleInv, InPlace
  <1>4. CASE UNCHANGED vars
    <2>1. UNCHANGED <<objects, descriptors, program, place, addrs, g_mutex, preparing, addr>>
      BY <1>4 DEF vars, bench, kernel, process, prepare
    <2>2. UNCHANGED <<Name, Filling>>
      BY <2>1 DEF Name, Filling
    <2>3. UNCHANGED <<Chain, Addressed, InHand>>
      BY <2>1, <2>2 DEF Chain, Addressed, InHand
    <2>4. UNCHANGED <<ObjectInv, LockInv>>
      BY <2>1, <2>2 DEF ObjectInv, OneChunkEach, LockInv
    <2>5. UNCHANGED <<HelperInv, MeasuredInv, IdleInv>>
      BY <2>1, <2>2, <2>3, <2>4 DEF HelperInv, MeasuredInv, IdleInv
    <2> QED BY <2>1, <2>5 DEF IInv
  <1> QED BY <1>1, <1>2, <1>3, <1>4, MainStep, HelperStep, ThreadStep DEF Next, Run

-----------------------------------------------------------------------------
LEMMA IInvImplies == IInv => ChunkPerThread
  <1> SUFFICES ASSUME IInv, place \in {"prepare", "open", "run", "cleanup"}
               PROVE  ChunkPerThread
    BY DEF ChunkPerThread
  <1>1. Cardinality({}) = 0 /\ \A t : Cardinality({t}) = 1
    BY FS_EmptySet, FS_Singleton
  <1>2. CASE place = "prepare"
    <2>1. HelperInv
      BY <1>2 DEF IInv
    <2>2. Filling = {} \/ \E t : Filling = {t}
      <3>1. \A t, u \in Filling : t = u
        BY <2>1 DEF HelperInv, LockInv, Critical, Filling
      <3>2. ASSUME NEW t \in Filling
            PROVE  Filling = {t}
        BY <3>1
      <3> QED BY <3>2
    <2>3. Cardinality(Filling) <= 1
      <3>1. CASE Filling = {}
        BY <3>1, <1>1
      <3>2. ASSUME NEW t, Filling = {t}
            PROVE  Cardinality(Filling) <= 1
        <4>1. Cardinality(Filling) = 1
          BY <3>2, <1>1, Zenon
        <4> QED BY <4>1
      <3> QED BY <3>1, <3>2, <2>2
    <2>4. OneChunkEach /\ Chain = Addressed \cup InHand /\ DOMAIN descriptors # {}
      BY <2>1 DEF HelperInv, ObjectInv
    <2> QED BY <1>2, <2>3, <2>4 DEF ChunkPerThread, OneChunkEach, Addressed, InHand
  <1>3. CASE place \in InPlace
    <2>1. MeasuredInv
      BY <1>3 DEF IInv
    <2>2. Filling = {}
      BY <2>1 DEF MeasuredInv, Filling
    <2>3. Cardinality(Filling) <= 1
      BY <1>1, <2>2
    <2> QED BY <2>1, <2>2, <2>3
            DEF ChunkPerThread, MeasuredInv, ObjectInv, OneChunkEach, Addressed
  <1> QED BY <1>2, <1>3 DEF InPlace

\* The chunks are there, one to a thread, whenever a thread can use them.
LEMMA AlwaysIInv == Spec => []IInv
  BY InitIInv, NextIInv, PTL DEF Spec

\* Whatever the order of the helpers, and whoever fails, the chunks of the object
\* are distributed one to a thread before any thread uses them.
THEOREM EveryThreadHasItsChunk == Spec => []ChunkPerThread
  BY AlwaysIInv, IInvImplies, PTL

-----------------------------------------------------------------------------
(* The kinds of steps there are *)

Writers == {"numa_seqwrite", "numa_seqwrite_aware", "pages_randwrite", "pages_randwrite_mul"}

\* Where the block of thread t is that it overwrites as its i-th
Target(t, i) ==
  IF program \in {"numa_seqwrite", "numa_seqwrite_aware"}
  THEN <<addrs[t], i>>
  ELSE <<addrs[t], pattern[t][i]>>

\* The process ends: Die, a call that fails, or the end of main().
Ends ==
  /\ \E where \in {"none", "ended"} : Ending(Gone(where))
  /\ objects' = objects \/ \E n : objects' = Without(objects, n)

Helping(t) ==
  /\ program # "none"
  /\ \/ Lock(t)
     \/ \E from \in 0..2 : Extend(t, from) /\ (program \in Aware => from = Local(t))
     \/ \E then \in {"draw", "done"} : Fill(t, then)
     \/ Draw(t)

Moving(t) ==
  /\ program # "none" /\ UNCHANGED prepare
  /\ \E block : MoveBlock(t, BlockNum, block)
  /\ program \in Writers => written' = written \cup {Target(t, Len(moves[t]))}
  /\ program \notin Writers => UNCHANGED written

LEMMA MainCases ==
  ASSUME Main
  PROVE  \/ Ends
         \/ program # "none" /\ (Other(Creat) \/ Fork \/ JoinHelpers \/ Other(Round))
  <1>1. program # "none" /\ (main \/ CleanupPo)
    BY DEF Main, Running,
       numa_seqread_main, numa_seqread_Cleanup,
       numa_seqread_aware_main, numa_seqread_aware_Cleanup,
       numa_seqwrite_main, numa_seqwrite_Cleanup,
       numa_seqwrite_aware_main, numa_seqwrite_aware_Cleanup,
       pages_randread_main, pages_randread_Cleanup,
       pages_randread_mul_main, pages_randread_mul_Cleanup,
       pages_randwrite_main, pages_randwrite_Cleanup,
       pages_randwrite_mul_main, pages_randwrite_mul_Cleanup
  <1>2. CASE CleanupPo
    BY <1>2 DEF CleanupPo, Ending, Cleanup, Ends, po_unlink
  <1>3. CASE Ending(CreatFails)
    BY <1>3 DEF Ending, CreatFails, Ends
  <1> QED BY <1>1, <1>2, <1>3 DEF main, CreatPo

LEMMA HelperCases ==
  ASSUME NEW t \in DOMAIN preparing, Helper(t)
  PROVE  Ends \/ Helping(t)
  <1>1. /\ program # "none"
        /\ \/ \E from \in 0..2, then \in {"draw", "done"} :
                Prepare(t, from, then) /\ (program \in Aware => from = Local(t))
           \/ Draw(t)
    BY DEF Helper, Running, Local, Node, Anywhere, Aware,
       numa_seqread_Prepare, numa_seqread_aware_Prepare,
       numa_seqwrite_Prepare, numa_seqwrite_aware_Prepare,
       pages_randread_Prepare, pages_randread_mul_Prepare,
       pages_randwrite_Prepare, pages_randwrite_mul_Prepare
  <1>2. CASE Refused(t)
    BY <1>2 DEF Refused, Ending, ExtendFails, Ends
  <1> QED BY <1>1, <1>2 DEF Prepare, Helping

LEMMA ThreadCases ==
  ASSUME NEW t \in DOMAIN moves, Thread(t)
  PROVE  Moving(t)
  <1> DEFINE i == Len(moves[t])
  <1>1. CASE numa_seqread_SeqReadThread(t) \/ numa_seqread_aware_SeqReadThread(t)
             \/ pages_randread_RandReadThread(t) \/ pages_randread_mul_RandReadThread(t)
    <2>1. /\ program \notin Writers /\ program # "none"
          /\ \E block : Other(ReadBlock(t, BlockNum, block))
      BY <1>1 DEF Running, Writers, numa_seqread_SeqReadThread,
         numa_seqread_aware_SeqReadThread, pages_randread_RandReadThread,
         pages_randread_mul_RandReadThread
    <2> QED BY <2>1 DEF Other, ReadBlock, Moving
  <1>2. CASE numa_seqwrite_SeqWriteThread(t) \/ numa_seqwrite_aware_SeqWriteThread(t)
    <2>1. /\ program \in {"numa_seqwrite", "numa_seqwrite_aware"}
          /\ Other(WriteBlock(t, BlockNum, SeqBlock(t)))
      BY <1>2 DEF Running, numa_seqwrite_SeqWriteThread, numa_seqwrite_aware_SeqWriteThread
    <2>2. SeqBlock(t)[1] = t /\ SeqBlock(t)[2] = i
      BY DEF SeqBlock
    <2>3. Target(t, i) = <<addrs[t], i>> /\ program \in Writers /\ program # "none"
      BY <2>1 DEF Target, Writers
    <2> HIDE DEF i
    <2> QED BY <2>1, <2>2, <2>3 DEF Other, WriteBlock, Moving, i
  <1>3. CASE pages_randwrite_RandWriteThread(t) \/ pages_randwrite_mul_RandWriteThread(t)
    <2>1. /\ program \in {"pages_randwrite", "pages_randwrite_mul"}
          /\ Other(WriteBlock(t, BlockNum, RandBlock(t)))
      BY <1>3 DEF Running, pages_randwrite_RandWriteThread,
                  pages_randwrite_mul_RandWriteThread
    <2>2. RandBlock(t)[1] = t /\ RandBlock(t)[2] = pattern[t][i]
      BY DEF RandBlock
    <2>3. Target(t, i) = <<addrs[t], pattern[t][i]>> /\ program \in Writers
          /\ program # "none"
      BY <2>1 DEF Target, Writers
    <2> HIDE DEF i
    <2> QED BY <2>1, <2>2, <2>3 DEF Other, WriteBlock, Moving, i
  <1> QED BY <1>1, <1>2, <1>3 DEF Thread

LEMMA NextCases ==
  ASSUME [Next]_vars
  PROVE  \/ \E p \in Programs : Other(Start(p))
         \/ Ends
         \/ Other(DeletePo)
         \/ program # "none" /\ (Other(Creat) \/ Fork \/ JoinHelpers \/ Other(Round))
         \/ \E t \in DOMAIN preparing : Helping(t)
         \/ \E t \in DOMAIN moves : Moving(t)
         \/ UNCHANGED vars
  <1>1. CASE Ending(Die)
    BY <1>1 DEF Ending, Die, Ends
  <1> QED BY <1>1, MainCases, HelperCases, ThreadCases DEF Next, Run

-----------------------------------------------------------------------------
(* Rounds: never more threads than chunks *)

RoundInv ==
  /\ round \in 1..Len(ThreadNum)
  /\ part \in 1..2 /\ (place # "cleanup" => part = 1)
  /\ place # "run" => DOMAIN moves = {}
  /\ \E k \in Nat : DOMAIN moves = 0..k - 1 /\ k <= Threads
  /\ \A t \in DOMAIN moves : Len(moves[t]) \in 0..BlockNum /\ \E S : moves[t] \in Seq(S)

LEMMA RoundsType ==
  /\ Len(ThreadNum) \in Nat \ {0} /\ Helpers = ThreadNum[Len(ThreadNum)]
  /\ \A r \in 1..Len(ThreadNum) : ThreadNum[r] \in Nat \ {0} /\ ThreadNum[r] <= Helpers
  <1>1. ThreadNum \in Seq(Nat \ {0}) /\ ThreadNum # <<>>
    BY BenchmarkAssumption
  <1>2. Len(ThreadNum) \in Nat \ {0} /\ DOMAIN ThreadNum = 1..Len(ThreadNum)
    BY <1>1
  <1>3. \A r \in 1..Len(ThreadNum) : ThreadNum[r] \in Nat \ {0}
    BY <1>1
  <1> QED BY <1>2, <1>3, RoundsAssumption DEF Helpers, Last

LEMMA RoundEmpty ==
  ASSUME round' \in 1..Len(ThreadNum), part' \in 1..2, place' # "cleanup" => part' = 1,
         DOMAIN moves' = {}
  PROVE  RoundInv'
  <1>1. Threads' \in Nat
    BY RoundsType DEF Threads
  <1>2. DOMAIN moves' = 0..0 - 1 /\ 0 \in Nat /\ 0 <= Threads'
    BY <1>1
  <1> QED BY <1>2 DEF RoundInv

LEMMA RoundSpawn ==
  ASSUME RoundInv, Spawn(Threads)
  PROVE  RoundInv'
  <1>1. PICK k \in Nat : DOMAIN moves = 0..k - 1 /\ k <= Threads
    BY DEF RoundInv
  <1>2. Created = k
    BY <1>1, HowMany DEF Created
  <1>3. /\ moves' = With(moves, k, <<>>) /\ place = "run" /\ k < Threads
        /\ UNCHANGED <<place, part, round>>
    BY <1>2 DEF Spawn
  <1>4. /\ DOMAIN moves' = 0..(k + 1) - 1 /\ k + 1 \in Nat
        /\ moves'[k] = <<>> /\ \A t \in DOMAIN moves : moves'[t] = moves[t]
        /\ \A t \in DOMAIN moves' : t = k \/ t \in DOMAIN moves
    BY <1>1, <1>3 DEF With
  <1>5. Threads' = Threads /\ Threads \in Nat
    BY <1>3, RoundsType DEF RoundInv, Threads
  <1>6. k + 1 <= Threads'
    BY <1>3, <1>5
  <1>7. \A t \in DOMAIN moves' :
          Len(moves'[t]) \in 0..BlockNum /\ \E S : moves'[t] \in Seq(S)
    <2>1. Len(<<>>) \in 0..BlockNum /\ <<>> \in Seq({})
      BY BenchmarkAssumption
    <2> QED BY <1>4, <2>1 DEF RoundInv
  <1> QED BY <1>3, <1>4, <1>6, <1>7 DEF RoundInv

LEMMA RoundMove ==
  ASSUME RoundInv, NEW t \in DOMAIN moves, NEW block, MoveBlock(t, BlockNum, block)
  PROVE  /\ RoundInv' /\ DOMAIN moves' = DOMAIN moves
         /\ Len(moves[t]) \in Blocks /\ Len(moves'[t]) = Len(moves[t]) + 1
         /\ \A u \in DOMAIN moves : u # t => moves'[u] = moves[u]
  <1> DEFINE mine == moves[t]
  <1>1. PICK S : mine \in Seq(S)
    BY DEF RoundInv
  <1>2. /\ UNCHANGED <<place, part, round>> /\ place = "run" /\ Len(mine) < BlockNum
        /\ DOMAIN moves' = DOMAIN moves /\ moves'[t] = Append(mine, block)
        /\ \A u \in DOMAIN moves : u # t => moves'[u] = moves[u]
    BY DEF MoveBlock
  <1>3. /\ Append(mine, block) \in Seq(S \cup {block})
        /\ Len(mine) \in Nat /\ Len(Append(mine, block)) = Len(mine) + 1
    <2> HIDE DEF mine
    <2>1. mine \in Seq(S \cup {block}) /\ block \in S \cup {block}
      BY <1>1
    <2> QED BY <2>1
  <1>4. Len(mine) \in 0..BlockNum - 1 /\ Len(moves'[t]) \in 0..BlockNum
    BY <1>2, <1>3, BenchmarkAssumption
  <1>5. \A u \in DOMAIN moves' :
          Len(moves'[u]) \in 0..BlockNum /\ \E R : moves'[u] \in Seq(R)
    BY <1>2, <1>3, <1>4 DEF RoundInv
  <1>6. Threads' = Threads
    BY <1>2 DEF Threads
  <1>7. RoundInv'
    BY <1>2, <1>5, <1>6 DEF RoundInv
  <1> QED BY <1>2, <1>3, <1>4, <1>7 DEF Blocks

LEMMA NextRoundInv ==
  ASSUME RoundInv, IInv, [Next]_vars
  PROVE  RoundInv'
  <1>0. 1 \in 1..Len(ThreadNum)
    BY RoundsType
  <1>1. CASE Ends
    <2>1. round' = 1 /\ part' = 1 /\ DOMAIN moves' = {}
      BY <1>1 DEF Ends, Ending, Gone, Empty
    <2> QED BY <1>0, <2>1, RoundEmpty
  <1>2. ASSUME place # "run", place # "cleanup", UNCHANGED <<round, part, moves>>
        PROVE  RoundInv'
    BY <1>2, RoundEmpty DEF RoundInv
  <1>3. ASSUME NEW p \in Programs, Other(Start(p))
        PROVE  RoundInv'
    <2>1. place \in {"none", "ended"} /\ UNCHANGED <<round, part, moves>>
      BY <1>3 DEF Other, Start, IInv
    <2> QED BY <1>2, <2>1
  <1>4. CASE Other(DeletePo)
    <2>1. place \in {"none", "ended"} /\ UNCHANGED <<round, part, moves>>
      BY <1>4 DEF Other, DeletePo, IInv
    <2> QED BY <1>2, <2>1
  <1>5. CASE Other(Creat) \/ Fork \/ JoinHelpers \/ OpenRound
    BY <1>2, <1>5 DEF Other, Creat, Fork, JoinHelpers, OpenRound, bench, process
  <1>6. CASE Other(Round) /\ ~OpenRound
    <2>1. CASE Spawn(Threads)
      BY <2>1, RoundSpawn
    <2>2. CASE Joined(Threads, BlockNum) /\ NextRound(Len(ThreadNum), "open", "cleanup")
      <3>1. /\ place = "run" /\ part = 1 /\ DOMAIN moves' = {}
            /\ \/ round < Len(ThreadNum) /\ round' = round + 1 /\ place' = "open"
                  /\ part' = part
               \/ round' = 1 /\ place' = "cleanup" /\ part' = part + 1
        BY <2>2 DEF Joined, NextRound, Empty, RoundInv
      <3>2. round' \in 1..Len(ThreadNum) /\ part' \in 1..2
        BY <1>0, <3>1, RoundsType DEF RoundInv
      <3> QED BY <3>1, <3>2, RoundEmpty
    <2> QED BY <1>6, <2>1, <2>2 DEF Other, Round
  <1>7. ASSUME NEW t \in DOMAIN preparing, Helping(t)
        PROVE  RoundInv'
    <2>1. place = "prepare" /\ UNCHANGED <<round, part, moves>>
      BY <1>7 DEF Helping, Lock, Extend, Fill, Draw, bench, process, IInv, IdleInv,
                  MeasuredInv, InPlace
    <2> QED BY <1>2, <2>1
  <1>8. ASSUME NEW t \in DOMAIN moves, Moving(t)
        PROVE  RoundInv'
    BY <1>8, RoundMove DEF Moving
  <1>9. CASE UNCHANGED vars
    BY <1>9 DEF vars, bench, process, RoundInv, Threads
  <1> QED BY <1>1, <1>3, <1>4, <1>5, <1>6, <1>7, <1>8, <1>9, NextCases DEF Other

LEMMA AlwaysRoundInv == Spec => []RoundInv
  <1>1. NumaInit => RoundInv
    <2> SUFFICES ASSUME NumaInit PROVE RoundInv
      OBVIOUS
    <2>1. round = 1 /\ part = 1 /\ DOMAIN moves = {} /\ place = "none"
      BY DEF NumaInit, Init, Empty
    <2>2. Threads \in Nat /\ 1 \in 1..Len(ThreadNum)
      BY <2>1, RoundsType DEF Threads
    <2>3. DOMAIN moves = 0..0 - 1 /\ 0 \in Nat /\ 0 <= Threads
      BY <2>1, <2>2
    <2> QED BY <2>1, <2>2, <2>3 DEF RoundInv
  <1> QED BY <1>1, NextRoundInv, AlwaysIInv, PTL DEF Spec

\* A thread that runs has a chunk.
LEMMA ThreadsHaveChunks ==
  ASSUME IInv, RoundInv, place \in InPlace
  PROVE  DOMAIN addrs = 0..Helpers - 1 /\ DOMAIN moves \subseteq DOMAIN addrs
  <1>1. DOMAIN addrs = 0..Helpers - 1
    BY DEF IInv, MeasuredInv
  <1>2. PICK k \in Nat : DOMAIN moves = 0..k - 1 /\ k <= Threads
    BY DEF RoundInv
  <1>3. Threads \in Nat /\ Threads <= Helpers /\ Helpers \in Nat
    BY RoundsType, HelpersType DEF RoundInv, Threads
  <1> QED BY <1>1, <1>2, <1>3

-----------------------------------------------------------------------------
(* What the writers have overwritten: the blocks of the threads that are     *)
(* there, up to where each one is, and never anything else                   *)

Targets == UNION {{Target(t, i) : i \in Blocks} : t \in DOMAIN addrs}

WrittenInv ==
  /\ place \notin InPlace => written = {}
  /\ (program \in Writers /\ place \in InPlace) =>
       /\ written \subseteq Targets
       /\ \A t \in DOMAIN moves : \A i \in 0..Len(moves[t]) - 1 : Target(t, i) \in written
       /\ place = "cleanup" => written = Targets

LEMMA WrittenStays ==
  ASSUME WrittenInv, UNCHANGED <<program, addrs, pattern, written>>,
         place' \in InPlace => place \in InPlace \ {"cleanup"},
         place' \notin InPlace => written = {},
         \A t \in DOMAIN moves' : moves'[t] = <<>> \/ (t \in DOMAIN moves /\ moves'[t] = moves[t]),
         (place' = "cleanup" /\ program \in Writers) => Targets \subseteq written
  PROVE  WrittenInv'
  <1>1. Targets' = Targets /\ \A t, i : Target(t, i)' = Target(t, i)
    BY DEF Targets, Target
  <1>2. ASSUME program \in Writers, place' \in InPlace
        PROVE  /\ written' \subseteq Targets'
               /\ place' = "cleanup" => written' = Targets'
    BY <1>1, <1>2 DEF WrittenInv
  <1>3. ASSUME program \in Writers, place' \in InPlace, NEW t \in DOMAIN moves',
               NEW i \in 0..Len(moves'[t]) - 1
        PROVE  Target(t, i)' \in written'
    <2>1. Len(<<>>) = 0
      OBVIOUS
    <2>2. moves'[t] # <<>>
      BY <1>3, <2>1
    <2>3. t \in DOMAIN moves /\ i \in 0..Len(moves[t]) - 1
      BY <1>3, <2>2
    <2>4. Target(t, i) \in written
      BY <1>3, <2>3 DEF WrittenInv
    <2> QED BY <1>1, <2>4
  <1> QED BY <1>2, <1>3 DEF WrittenInv

LEMMA WrittenMove ==
  ASSUME IInv, RoundInv, WrittenInv, NEW t \in DOMAIN moves, Moving(t)
  PROVE  WrittenInv'
  <1>1. PICK block : MoveBlock(t, BlockNum, block)
    BY DEF Moving
  <1>2. place = "run" /\ UNCHANGED <<program, place, addrs, pattern>>
    BY <1>1 DEF MoveBlock
  <1>3. /\ DOMAIN moves' = DOMAIN moves /\ Len(moves[t]) \in Blocks
        /\ Len(moves'[t]) = Len(moves[t]) + 1
        /\ \A u \in DOMAIN moves : u # t => moves'[u] = moves[u]
    BY <1>1, RoundMove
  <1>4. Targets' = Targets /\ \A u, i : Target(u, i)' = Target(u, i)
    BY <1>2 DEF Targets, Target
  <1>5. CASE program \in Writers
    <2>1. written' = written \cup {Target(t, Len(moves[t]))}
      BY <1>5 DEF Moving
    <2>2. Target(t, Len(moves[t])) \in Targets
      <3>1. t \in DOMAIN addrs
        BY <1>2, ThreadsHaveChunks DEF InPlace
      <3> QED BY <1>3, <3>1 DEF Targets
    <2>3. written' \subseteq Targets'
      BY <1>2, <1>4, <1>5, <2>1, <2>2 DEF WrittenInv, InPlace
    <2>4. ASSUME NEW u \in DOMAIN moves', NEW i \in 0..Len(moves'[u]) - 1
          PROVE  Target(u, i)' \in written'
      <3>1. CASE i \in 0..Len(moves[u]) - 1
        <4>1. Target(u, i) \in written
          BY <1>2, <1>3, <1>5, <3>1 DEF WrittenInv, InPlace
        <4> QED BY <1>4, <2>1, <4>1
      <3>2. CASE u = t /\ i = Len(moves[t])
        BY <1>4, <2>1, <3>2
      <3> QED BY <1>3, <2>4, <3>1, <3>2 DEF Blocks
    <2> QED BY <1>2, <1>5, <2>3, <2>4 DEF WrittenInv, InPlace
  <1>6. CASE program \notin Writers
    BY <1>2, <1>6 DEF WrittenInv, InPlace
  <1> QED BY <1>5, <1>6

\* The last round has a thread for every chunk.
LEMMA WrittenJoin ==
  ASSUME IInv, RoundInv, WrittenInv, program # "none",
         Joined(Threads, BlockNum), NextRound(Len(ThreadNum), "open", "cleanup")
  PROVE  WrittenInv'
  <1>1. /\ place = "run" /\ UNCHANGED <<program, addrs, pattern, written>>
        /\ moves' = Empty
        /\ place' = "open" \/ (place' = "cleanup" /\ ~(round < Len(ThreadNum)))
        /\ \A t \in DOMAIN moves : Len(moves[t]) = BlockNum
        /\ Created = Threads
    BY DEF Joined, NextRound
  <1>2. ASSUME place' = "cleanup", program \in Writers
        PROVE  Targets \subseteq written
    <2>1. round = Len(ThreadNum) /\ Threads = Helpers /\ Helpers \in Nat
      BY <1>1, <1>2, RoundsType, HelpersType DEF RoundInv, Threads
    <2>2. PICK k \in Nat : DOMAIN moves = 0..k - 1
      BY DEF RoundInv
    <2>3. k = Helpers
      BY <1>1, <2>1, <2>2, HowMany DEF Created
    <2>4. DOMAIN moves = DOMAIN addrs
      BY <1>1, <2>2, <2>3, ThreadsHaveChunks DEF InPlace
    <2>5. ASSUME NEW t \in DOMAIN addrs, NEW i \in Blocks
          PROVE  Target(t, i) \in written
      <3>1. i \in 0..Len(moves[t]) - 1 /\ t \in DOMAIN moves
        BY <1>1, <2>4 DEF Blocks
      <3> QED BY <1>1, <1>2, <3>1 DEF WrittenInv, InPlace
    <2> QED BY <2>5 DEF Targets
  <1>3. place \in InPlace \ {"cleanup"} /\ place' \in InPlace
        /\ \A t \in DOMAIN moves' : moves'[t] = <<>>
    BY <1>1 DEF InPlace, Empty
  <1> QED BY <1>1, <1>2, <1>3, WrittenStays

LEMMA WrittenOutside ==
  ASSUME WrittenInv, place \notin InPlace, UNCHANGED written,
         place' \notin InPlace \/ (place' = "open" /\ DOMAIN moves' = {})
  PROVE  WrittenInv'
  <1>1. written' = {} /\ "open" # "cleanup"
    BY DEF WrittenInv
  <1> QED BY <1>1 DEF WrittenInv

LEMMA NextWritten ==
  ASSUME WrittenInv, RoundInv, IInv, [Next]_vars
  PROVE  WrittenInv'
  <1>1. CASE Ends
    BY <1>1 DEF Ends, Ending, Gone, WrittenInv, InPlace
  <1>2. ASSUME NEW p \in Programs, Other(Start(p))
        PROVE  WrittenInv'
    <2>1. place \in {"none", "ended"} /\ place' = "creat" /\ UNCHANGED written
      BY <1>2 DEF Other, Start, IInv
    <2> QED BY <2>1, WrittenOutside DEF InPlace
  <1>3. CASE Other(DeletePo)
    <2>1. place \in {"none", "ended"} /\ place' = "none" /\ UNCHANGED written
      BY <1>3 DEF Other, DeletePo, IInv
    <2> QED BY <2>1, WrittenOutside DEF InPlace
  <1>4. CASE Other(Creat) \/ Fork \/ JoinHelpers
    <2>1. /\ place \in {"creat", "prepare"} /\ UNCHANGED <<written, moves>>
          /\ place' \in {"prepare", "open"}
      BY <1>4 DEF Other, Creat, Fork, JoinHelpers, bench, process
    <2>2. DOMAIN moves' = {}
      BY <2>1 DEF RoundInv
    <2> QED BY <2>1, <2>2, WrittenOutside DEF InPlace
  <1>5. CASE program # "none" /\ Other(Round)
    <2>1. CASE OpenRound
      <3>1. /\ UNCHANGED <<program, addrs, pattern, written, moves>>
            /\ place = "open" /\ place' = "run"
        BY <2>1 DEF OpenRound
      <3> QED BY <3>1, WrittenStays DEF InPlace
    <2>2. CASE Spawn(Threads)
      <3>1. /\ UNCHANGED <<program, place, addrs, pattern, written>>
            /\ place = "run" /\ moves' = With(moves, Created, <<>>)
        BY <2>2 DEF Spawn
      <3>2. \A t \in DOMAIN moves' :
              moves'[t] = <<>> \/ (t \in DOMAIN moves /\ moves'[t] = moves[t])
        BY <3>1 DEF With
      <3> QED BY <3>1, <3>2, WrittenStays DEF InPlace
    <2> QED BY <1>5, <2>1, <2>2, WrittenJoin DEF Other, Round
  <1>6. ASSUME NEW t \in DOMAIN preparing, Helping(t)
        PROVE  WrittenInv'
    <2>1. place = "prepare" /\ UNCHANGED <<place, written>>
      BY <1>6 DEF Helping, Lock, Extend, Fill, Draw, bench, process, IInv, IdleInv,
                  MeasuredInv, InPlace
    <2> QED BY <2>1, WrittenOutside DEF InPlace
  <1>7. CASE UNCHANGED vars
    <2>1. UNCHANGED <<program, place, moves, addrs, pattern, written>>
      BY <1>7 DEF vars, bench, process
    <2>2. UNCHANGED Targets /\ \A t, i : Target(t, i)' = Target(t, i)
      BY <2>1 DEF Targets, Target
    <2> QED BY <2>1, <2>2 DEF WrittenInv
  <1> QED BY <1>1, <1>2, <1>3, <1>4, <1>5, <1>6, <1>7, NextCases, WrittenMove

\* sandbox_check would pass after the sequential writers, after any number of
\* rounds of any size; the random ones have written the blocks of their patterns
\* and no other.
THEOREM WritersCoverTheirChunks == Spec => []SandboxCheck
  <1>1. NumaInit => WrittenInv
    BY DEF NumaInit, Init, WrittenInv, InPlace
  <1>2. Spec => []WrittenInv
    BY <1>1, NextWritten, AlwaysRoundInv, AlwaysIInv, PTL DEF Spec
  <1>3. WrittenInv => SandboxCheck
    <2> SUFFICES ASSUME WrittenInv, place = "cleanup", program \in Writers
                 PROVE  SandboxCheck
      BY DEF SandboxCheck, Writers
    <2>1. written = Targets
      BY DEF WrittenInv, InPlace
    <2>2. CASE program \in {"numa_seqwrite", "numa_seqwrite_aware"}
      <3>1. \A t, i : Target(t, i) = <<addrs[t], i>>
        BY <2>2 DEF Target
      <3>2. Targets = {addrs[t] : t \in DOMAIN addrs} \X Blocks
        BY <3>1 DEF Targets
      <3> QED BY <2>1, <2>2, <3>2 DEF SandboxCheck, sandbox_check
    <2>3. CASE program \in {"pages_randwrite", "pages_randwrite_mul"}
      <3>1. \A t, i : Target(t, i) = <<addrs[t], pattern[t][i]>>
        BY <2>3 DEF Target
      <3>2. Targets = UNION {{<<addrs[t], pattern[t][j]>> : j \in Blocks} : t \in DOMAIN addrs}
        BY <3>1 DEF Targets
      <3> QED BY <2>1, <2>3, <3>2 DEF SandboxCheck
    <2> QED BY <2>2, <2>3 DEF Writers
  <1> QED BY <1>2, <1>3, PTL

-----------------------------------------------------------------------------
(* Nodes: the chunk of a helper that asked for it is on the helper's node,   *)
(* and no later chunk changes that, because its address was not in use       *)

NodeInv ==
  (program \in Aware /\ place \in {"prepare"} \cup InPlace) =>
    /\ \A t \in DOMAIN addrs : addrs[t] \in DOMAIN node /\ node[addrs[t]] = Local(t)
    /\ \A t \in Filling : addr[t] \in DOMAIN node /\ node[addr[t]] = Local(t)

LEMMA NodeStays ==
  ASSUME NodeInv, UNCHANGED <<program, addrs, addr, node>>,
         place' \in {"prepare"} \cup InPlace => place \in {"prepare"} \cup InPlace,
         Filling' \subseteq Filling
  PROVE  NodeInv'
  BY DEF NodeInv, Local

LEMMA NodeExtend ==
  ASSUME IInv, NodeInv, NEW t \in DOMAIN preparing, NEW from, Extend(t, from),
         program \in Aware => from = Local(t)
  PROVE  NodeInv'
  <1> DEFINE a == AnyFree
  <1>1. place = "prepare" /\ HelperInv
    BY DEF Extend, IInv, IdleInv, MeasuredInv, InPlace
  <1>2. /\ preparing[t] = "extend" /\ FreeAddrs # {}
        /\ preparing' = [preparing EXCEPT ![t] = "fill"]
        /\ addr' = With(addr, t, a) /\ node' = With(node, a, from)
        /\ UNCHANGED <<program, place, addrs>>
    BY DEF Extend, process
  <1>3. a \notin InUse
    BY <1>2, FreeIsFree
  <1> HIDE DEF a
  <1>4. Filling = {} /\ Filling' = {t}
    BY <1>1, <1>2 DEF HelperInv, LockInv, Critical, Filling
  <1>5. a \notin Chain
    <2>1. Name \in DOMAIN objects /\ objects[Name] \in Seq(Addrs)
      BY <1>1 DEF HelperInv, ObjectInv
    <2> QED BY <1>3, <2>1 DEF Chain, InUse
  <1>6. \A u \in DOMAIN addrs : addrs[u] # a
    BY <1>1, <1>5 DEF HelperInv, Addressed
  <1>7. /\ a \in DOMAIN node' /\ node'[a] = from
        /\ \A b \in DOMAIN node : b \in DOMAIN node' /\ (b # a => node'[b] = node[b])
    BY <1>2 DEF With
  <1>8. addr'[t] = a
    BY <1>2 DEF With
  <1> QED BY <1>1, <1>2, <1>4, <1>6, <1>7, <1>8 DEF NodeInv, Local

LEMMA NodeFill ==
  ASSUME IInv, NodeInv, NEW t \in DOMAIN preparing, NEW then \in {"draw", "done"},
         Fill(t, then)
  PROVE  NodeInv'
  <1>1. /\ preparing[t] = "fill" /\ preparing' = [preparing EXCEPT ![t] = then]
        /\ addrs' = With(addrs, t, addr[t])
        /\ UNCHANGED <<program, place, addr, node>>
    BY DEF Fill
  <1>2. t \in Filling /\ Filling' \subseteq Filling
    BY <1>1 DEF Filling
  <1>3. /\ DOMAIN addrs' = DOMAIN addrs \cup {t} /\ addrs'[t] = addr[t]
        /\ \A u \in DOMAIN addrs : u # t => addrs'[u] = addrs[u]
    BY <1>1 DEF With
  <1> QED BY <1>1, <1>2, <1>3 DEF NodeInv, Local

LEMMA NextNode ==
  ASSUME NodeInv, IInv, [Next]_vars
  PROVE  NodeInv'
  <1>1. CASE Ends
    BY <1>1 DEF Ends, Ending, Gone, NodeInv, InPlace
  <1>2. ASSUME NEW p \in Programs, Other(Start(p))
        PROVE  NodeInv'
    BY <1>2 DEF Other, Start, NodeInv, InPlace
  <1>3. CASE Other(DeletePo)
    BY <1>3 DEF Other, DeletePo, NodeInv, InPlace
  <1>4. CASE Other(Creat)
    <2>1. /\ place = "creat" /\ UNCHANGED <<addrs, preparing>>
      BY <1>4 DEF Other, Creat, prepare
    <2>2. DOMAIN addrs' = {} /\ DOMAIN preparing' = {}
      BY <2>1 DEF IInv, IdleInv
    <2>3. Filling' = {}
      BY <2>2 DEF Filling
    <2> QED BY <2>2, <2>3 DEF NodeInv
  <1>5. CASE program # "none" /\ Fork
    <2>1. place = "prepare" /\ HelperInv
      BY <1>5 DEF Fork, IInv
    <2>2. PICK k \in Nat : DOMAIN preparing = 0..k - 1
      BY <2>1 DEF HelperInv
    <2>3. preparing' = With(preparing, k, "lock")
      BY <1>5, <2>2, HowMany DEF Fork
    <2>4. Filling' \subseteq Filling
      BY <2>2, <2>3 DEF With, Filling
    <2>5. UNCHANGED <<program, place, addrs, addr, node>>
      BY <1>5 DEF Fork, bench, process
    <2> QED BY <2>1, <2>4, <2>5, NodeStays
  <1>6. CASE JoinHelpers
    <2>1. /\ place = "prepare" /\ UNCHANGED <<program, addrs, node>>
          /\ DOMAIN preparing' = {}
      BY <1>6 DEF JoinHelpers, Empty
    <2>2. Filling' = {}
      BY <2>1 DEF Filling
    <2> QED BY <2>1, <2>2 DEF NodeInv, Local
  <1>7. CASE Other(Round) \/ (\E t \in DOMAIN moves : Moving(t))
    <2>1. /\ place \in InPlace /\ UNCHANGED <<program, addrs, preparing, addr, node>>
      BY <1>7 DEF Other, Round, OpenRound, Spawn, Joined, NextRound, Moving, MoveBlock,
                  prepare, InPlace
    <2>2. Filling' = Filling
      BY <2>1 DEF Filling
    <2> QED BY <2>1, <2>2, NodeStays
  <1>8. ASSUME NEW t \in DOMAIN preparing, Helping(t)
        PROVE  NodeInv'
    <2>1. CASE Lock(t) \/ Draw(t)
      <3>1. UNCHANGED <<program, place, addrs, addr, node>>
        BY <2>1 DEF Lock, Draw, bench, process
      <3>2. Filling' \subseteq Filling
        BY <2>1 DEF Lock, Draw, Filling
      <3> QED BY <3>1, <3>2, NodeStays
    <2> QED BY <1>8, <2>1, NodeExtend, NodeFill DEF Helping
  <1>9. CASE UNCHANGED vars
    <2>1. UNCHANGED <<program, place, addrs, preparing, addr, node>>
      BY <1>9 DEF vars, bench, process, prepare
    <2>2. Filling' = Filling
      BY <2>1 DEF Filling
    <2> QED BY <2>1, <2>2, NodeStays
  <1> QED BY <1>1, <1>2, <1>3, <1>4, <1>5, <1>6, <1>7, <1>8, <1>9, NextCases

\* Of two threads 2i and 2i + 1 one is on each node, so an even number of threads
\* is balanced.
LEMMA Balanced ==
  ASSUME NEW n \in Nat, n % 2 = 0, n <= Helpers
  PROVE  Cardinality({t \in 0..n - 1 : Local(t) = 0}) = Cardinality({t \in 0..n - 1 : Local(t) = 1})
  <1> DEFINE S == {t \in 0..n - 1 : Local(t) = 0}
             T == {t \in 0..n - 1 : Local(t) = 1}
             other(t) == IF t % 2 = 0 THEN t + 1 ELSE t - 1
             f == [t \in S |-> other(t)]
  <1>1. \A t \in 0..n - 1 : t < 54
    <2>1. \A t \in 0..n - 1 : Cpu(t) \in 0..71
      BY CpusAssumption, HelpersType
    <2>2. ASSUME NEW t \in 0..n - 1, t >= 54
          PROVE  FALSE
      <3>1. 55 \in 0..n - 1
        BY <2>2
      <3>2. Cpu(55) = 73
        BY DEF Cpu
      <3> QED BY <2>1, <3>1, <3>2
    <2> QED BY <2>2
  <1>2. ASSUME NEW t \in 0..n - 1
        PROVE  /\ other(t) \in 0..n - 1 /\ other(other(t)) = t
               /\ Local(t) = 0 <=> Local(other(t)) = 1
               /\ Local(t) = 1 <=> Local(other(t)) = 0
    <2>1. other(t) \in 0..n - 1 /\ other(other(t)) = t
      OBVIOUS
    <2>2. t < 54 /\ other(t) < 54
      BY <1>1, <2>1
    <2>3. Local(t) = IF t % 2 = 0 THEN (IF t < 18 \/ t \in 36..53 THEN 0 ELSE 1)
                                  ELSE (IF t \in 18..35 THEN 0 ELSE 1)
      BY <2>2 DEF Local, Node, Cpu
    <2>4. Local(other(t)) = IF other(t) % 2 = 0
                            THEN (IF other(t) < 18 \/ other(t) \in 36..53 THEN 0 ELSE 1)
                            ELSE (IF other(t) \in 18..35 THEN 0 ELSE 1)
      BY <2>1, <2>2 DEF Local, Node, Cpu
    <2> QED BY <2>1, <2>2, <2>3, <2>4
  <1>3. f \in Bijection(S, T)
    <2>1. \A t \in S : other(t) \in T
      BY <1>2
    <2>2. f \in [S -> T]
      BY <2>1
    <2>3. \A t, u \in S : f[t] = f[u] => t = u
      BY <1>2
    <2>4. \A u \in T : \E t \in S : f[t] = u
      <3>1. ASSUME NEW u \in T
            PROVE  other(u) \in S /\ f[other(u)] = u
        BY <1>2
      <3> QED BY <3>1
    <2> HIDE DEF S, T, f
    <2>5. f \in Injection(S, T)
      BY <2>2, <2>3 DEF Injection, IsInjective
    <2>6. f \in Surjection(S, T)
      BY <2>2, <2>4 DEF Surjection
    <2> QED BY <2>5, <2>6 DEF Bijection
  <1>4. IsFiniteSet(S)
    <2>1. IsFiniteSet(0..n - 1) /\ S \in SUBSET (0..n - 1)
      BY FS_Interval
    <2> HIDE DEF S
    <2> QED BY <2>1, FS_Subset
  <1> HIDE DEF S, T, f
  <1>5. Cardinality(T) = Cardinality(S)
    BY <1>3, <1>4, FS_Bijection DEF ExistsBijection
  <1> QED BY <1>5 DEF S, T

\* With MAP_NUMA_AWARE a measured thread's chunk is on the node of its CPU, in
\* whatever order the helpers extended the object, and a round of an even number
\* of threads loads both nodes alike.
THEOREM ThreadsAreLocal == Spec => []LocalAndBalanced
  <1>1. NumaInit => NodeInv
    BY DEF NumaInit, Init, NodeInv, InPlace
  <1>2. Spec => []NodeInv
    BY <1>1, NextNode, AlwaysIInv, PTL DEF Spec
  <1>3. NodeInv /\ RoundInv /\ IInv => LocalAndBalanced
    <2> SUFFICES ASSUME NodeInv, RoundInv, IInv, program \in Aware, place = "run"
                 PROVE  LocalAndBalanced
      BY DEF LocalAndBalanced
    <2>1. \A t \in DOMAIN moves : node[addrs[t]] = Local(t)
      BY ThreadsHaveChunks DEF NodeInv, InPlace
    <2>2. ASSUME Created = Threads, Threads % 2 = 0
          PROVE  Cardinality(NodeUsers(0)) = Cardinality(NodeUsers(1))
      <3>1. PICK k \in Nat : DOMAIN moves = 0..k - 1
        BY DEF RoundInv
      <3>2. k = Threads /\ Threads <= Helpers
        BY <2>2, <3>1, HowMany, RoundsType DEF Created, RoundInv, Threads
      <3>3. NodeUsers(0) = {t \in 0..k - 1 : Local(t) = 0}
            /\ NodeUsers(1) = {t \in 0..k - 1 : Local(t) = 1}
        BY <2>1, <3>1 DEF NodeUsers
      <3> QED BY <2>2, <3>2, <3>3, Balanced
    <2> QED BY <2>1, <2>2 DEF LocalAndBalanced, Local
  <1> QED BY <1>2, <1>3, AlwaysRoundInv, AlwaysIInv, PTL

-----------------------------------------------------------------------------
(* Types *)

ObjectsType == DOMAIN objects \subseteq Names /\ \A n \in DOMAIN objects : objects[n] \in Seq(Addrs)
NodeType == DOMAIN node \subseteq Addrs /\ \A a \in DOMAIN node : node[a] \in 0..2

TypeInv ==
  /\ ObjectsType /\ NodeType
  /\ program \in Programs \cup {"none"}
  /\ \A t \in DOMAIN pattern : pattern[t] \in Drawn
  /\ g_mutex \in BOOLEAN
  /\ DOMAIN preparing \subseteq 0..Helpers - 1

LEMMA TypeObjects ==
  ASSUME TypeInv, ObjectsType',
         UNCHANGED <<program, pattern, g_mutex, preparing, node>>
  PROVE  TypeInv'
  BY DEF TypeInv, NodeType

LEMMA TypeWith ==
  ASSUME ObjectsType, NEW n \in Names, NEW v \in Seq(Addrs), objects' = With(objects, n, v)
  PROVE  ObjectsType'
  BY DEF ObjectsType, With

LEMMA TypeWithout ==
  ASSUME ObjectsType, NEW n, objects' = Without(objects, n)
  PROVE  ObjectsType'
  BY DEF ObjectsType, Without

LEMMA NameIs ==
  ASSUME TypeInv, program # "none"
  PROVE  Name \in Names
  BY BenchmarkAssumption DEF TypeInv, Name

LEMMA TypeExtend ==
  ASSUME IInv, TypeInv, program # "none", NEW t \in DOMAIN preparing, NEW from \in 0..2,
         Extend(t, from)
  PROVE  TypeInv'
  <1> DEFINE a == AnyFree
  <1>1. HelperInv
    BY DEF Extend, IInv, IdleInv, MeasuredInv, InPlace
  <1>2. /\ FreeAddrs # {} /\ preparing' = [preparing EXCEPT ![t] = "fill"]
        /\ node' = With(node, a, from)
        /\ UNCHANGED <<program, pattern, g_mutex>>
    BY DEF Extend, process
  <1>3. objects' = With(objects, Name, Append(objects[Name], a))
    BY <1>1 DEF Extend, po_extend, HelperInv
  <1>4. a \in Addrs
    BY <1>2, FreeIsFree
  <1> HIDE DEF a
  <1>5. Append(objects[Name], a) \in Seq(Addrs)
    BY <1>1, <1>4 DEF HelperInv, ObjectInv
  <1>6. ObjectsType'
    BY <1>3, <1>5, NameIs, TypeWith DEF TypeInv
  <1>7. NodeType'
    BY <1>2, <1>4 DEF NodeType, TypeInv, With
  <1>8. DOMAIN preparing' = DOMAIN preparing
    BY <1>2
  <1> QED BY <1>2, <1>6, <1>7, <1>8 DEF TypeInv

LEMMA TypeHelping ==
  ASSUME IInv, TypeInv, NEW t \in DOMAIN preparing, Helping(t)
  PROVE  TypeInv'
  <1>1. program # "none"
    BY DEF Helping
  <1>2. CASE Lock(t)
    <2>1. /\ UNCHANGED <<objects, program, pattern, node>> /\ g_mutex' = TRUE
          /\ DOMAIN preparing' = DOMAIN preparing
      BY <1>2 DEF Lock, bench, kernel, process
    <2> QED BY <2>1 DEF TypeInv, ObjectsType, NodeType
  <1>3. ASSUME NEW then, Fill(t, then)
        PROVE  TypeInv'
    <2>1. /\ UNCHANGED <<objects, program, pattern, node>> /\ g_mutex' = FALSE
          /\ DOMAIN preparing' = DOMAIN preparing
      BY <1>3 DEF Fill, kernel
    <2> QED BY <2>1 DEF TypeInv, ObjectsType, NodeType
  <1>4. CASE Draw(t)
    <2>1. /\ UNCHANGED <<objects, program, node, g_mutex>>
          /\ DOMAIN preparing' = DOMAIN preparing
          /\ \E p \in Drawn : pattern' = With(pattern, t, p)
      BY <1>4 DEF Draw, kernel
    <2>2. \A u \in DOMAIN pattern' : pattern'[u] \in Drawn
      BY <2>1 DEF With, TypeInv
    <2> QED BY <2>1, <2>2 DEF TypeInv, ObjectsType, NodeType
  <1> QED BY <1>1, <1>2, <1>3, <1>4, TypeExtend DEF Helping

LEMMA NextType ==
  ASSUME IInv, TypeInv, [Next]_vars
  PROVE  TypeInv'
  <1>1. CASE Ends
    <2>1. ObjectsType'
      <3>1. CASE objects' = objects
        BY <3>1 DEF TypeInv, ObjectsType
      <3> QED BY <1>1, <3>1, TypeWithout DEF Ends, TypeInv
    <2>2. /\ program' = "none" /\ g_mutex' = FALSE
          /\ DOMAIN pattern' = {} /\ DOMAIN preparing' = {} /\ DOMAIN node' = {}
      BY <1>1 DEF Ends, Ending, Gone, Empty
    <2> QED BY <2>1, <2>2 DEF TypeInv, NodeType
  <1>2. ASSUME NEW p \in Programs, Other(Start(p))
        PROVE  TypeInv'
    BY <1>2 DEF Other, Start, TypeInv, ObjectsType, NodeType, kernel, prepare
  <1>3. CASE Other(DeletePo)
    <2>1. /\ UNCHANGED <<program, pattern, g_mutex, preparing, node>>
          /\ \E name : objects' = Without(objects, name)
      BY <1>3 DEF Other, DeletePo, po_unlink, prepare
    <2>2. ObjectsType'
      BY <2>1, TypeWithout DEF TypeInv
    <2> QED BY <2>1, <2>2, TypeObjects
  <1>4. CASE program # "none" /\ Other(Creat)
    <2>1. /\ UNCHANGED <<program, pattern, g_mutex, preparing, node>>
          /\ objects' = With(objects, Name, <<>>) /\ <<>> \in Seq(Addrs)
      BY <1>4 DEF Other, Creat, po_creat, prepare
    <2>2. ObjectsType'
      BY <1>4, <2>1, NameIs, TypeWith DEF TypeInv
    <2> QED BY <2>1, <2>2, TypeObjects
  <1>5. CASE program # "none" /\ Fork
    <2>1. place = "prepare" /\ HelperInv
      BY <1>5 DEF Fork, IInv
    <2>2. PICK k \in Nat : DOMAIN preparing = 0..k - 1
      BY <2>1 DEF HelperInv
    <2>3. Cardinality(DOMAIN preparing) = k
      BY <2>2, HowMany
    <2>4. preparing' = With(preparing, k, "lock") /\ k < Helpers /\ Helpers \in Nat
      BY <1>5, <2>3, HelpersType DEF Fork
    <2>5. DOMAIN preparing' \subseteq 0..Helpers - 1
      BY <2>2, <2>4 DEF With
    <2>6. UNCHANGED <<objects, program, pattern, g_mutex, node>>
      BY <1>5 DEF Fork, bench, kernel, process
    <2> QED BY <2>5, <2>6 DEF TypeInv, ObjectsType, NodeType
  <1>6. CASE JoinHelpers
    <2>1. UNCHANGED <<objects, program, pattern, g_mutex, node>> /\ DOMAIN preparing' = {}
      BY <1>6 DEF JoinHelpers, Empty
    <2> QED BY <2>1 DEF TypeInv, ObjectsType, NodeType
  <1>7. CASE Other(Round)
    <2>1. UNCHANGED <<program, pattern, g_mutex, preparing, node>>
      BY <1>7 DEF Other, Round, OpenRound, Spawn, Joined, NextRound, prepare
    <2>2. objects' = objects
      <3>1. CASE OpenRound
        <4>1. Name \in DOMAIN objects
          BY <3>1 DEF OpenRound, IInv, InPlace, MeasuredInv, ObjectInv
        <4> QED BY <3>1, <4>1 DEF OpenRound, Opened, kernel
      <3> QED BY <1>7, <3>1 DEF Other, Round, Spawn, NextRound, kernel
    <2> QED BY <2>1, <2>2, TypeObjects DEF TypeInv, ObjectsType
  <1>8. ASSUME NEW t \in DOMAIN moves, Moving(t)
        PROVE  TypeInv'
    <2>1. UNCHANGED <<objects, program, pattern, g_mutex, preparing, node>>
      BY <1>8 DEF Moving, MoveBlock, kernel, prepare
    <2> QED BY <2>1 DEF TypeInv, ObjectsType, NodeType
  <1>9. CASE UNCHANGED vars
    <2>1. UNCHANGED <<objects, program, pattern, g_mutex, preparing, node>>
      BY <1>9 DEF vars, bench, kernel, process, prepare
    <2> QED BY <2>1 DEF TypeInv, ObjectsType, NodeType
  <1> QED BY <1>1, <1>2, <1>3, <1>4, <1>5, <1>6, <1>7, <1>8, <1>9, NextCases, TypeHelping

\* Every variable keeps its type: no round has more threads than there are chunks,
\* and helpers, chunks and threads have the same numbers.
THEOREM TypeCorrect == Spec => []TypeOK
  <1>1. NumaInit => TypeInv
    BY DEF NumaInit, Init, TypeInv, ObjectsType, NodeType, Empty
  <1>2. Spec => []TypeInv
    BY <1>1, NextType, AlwaysIInv, PTL DEF Spec
  <1>3. TypeInv /\ RoundInv /\ IInv => TypeOK
    <2> SUFFICES ASSUME TypeInv, RoundInv, IInv PROVE TypeOK
      OBVIOUS
    <2>1. PICK k \in Nat : DOMAIN moves = 0..k - 1 /\ k <= Threads
      BY DEF RoundInv
    <2>2. Threads \in Nat /\ Threads <= Helpers /\ Helpers \in Nat
      BY RoundsType, HelpersType DEF RoundInv, Threads
    <2>3. DOMAIN moves \subseteq 0..Helpers - 1
      BY <2>1, <2>2
    <2>4. place \in {"none", "creat", "prepare", "open", "run", "cleanup", "ended"}
      BY DEF IInv, InPlace
    <2>5. DOMAIN addrs \subseteq 0..Helpers - 1
      BY DEF IInv, IdleInv, HelperInv, MeasuredInv, TypeInv
    <2>6. \A t \in DOMAIN preparing : preparing[t] \in {"lock", "extend", "fill", "draw", "done"}
      BY DEF IInv, IdleInv, HelperInv, MeasuredInv
    <2>7. \A a \in DOMAIN node : node[a] \in {0, 1, Anywhere}
      BY DEF TypeInv, NodeType, Anywhere
    <2> QED BY <2>3, <2>4, <2>5, <2>6, <2>7
            DEF TypeOK, TypeInv, ObjectsType, NodeType, RoundInv
  <1> QED BY <1>2, <1>3, AlwaysRoundInv, AlwaysIInv, PTL

=============================================================================
