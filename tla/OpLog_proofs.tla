--------------------------- MODULE OpLog_proofs ---------------------------
(***************************************************************************)
(* run_before_crash knows what the kernel holds: theorems for any names,   *)
(* addresses and descriptors, any length of the log, any number of crashes *)
(* and starts, and a kernel that may refuse to extend or lose chunks.      *)
(***************************************************************************)
EXTENDS OpLog, SequenceTheorems, WellFoundedInduction, TLAPS

\* What existing_pos will be once the record that is due is written.
Believed == IF phase = "logging" THEN Remembered(inflight) ELSE existing

Lists == Seq(Addrs \cup {Failed})
Broken(s) == \E i \in 1..Len(s) : s[i] = Failed
Distinct(s) == \A i, j \in 1..Len(s) : s[i] = s[j] => i = j

\* A list in memory is the kernel's as far as no extend of it has failed, which
\* is as far as it is given back, from the front.
Intact(s, i) == \A j \in 1..i : s[j] # Failed

Agree(s, o) ==
  /\ s \in Lists /\ o \in Seq(Addrs) /\ Distinct(o)
  /\ Broken(s) \/ s = o
  /\ \A i \in 1..Len(s) : Intact(s, i) => i <= Len(o) /\ s[i] = o[i]

ObjectsInv ==
  /\ leftover \subseteq DOMAIN objects
  /\ DOMAIN Believed = DOMAIN objects \ leftover
  /\ DOMAIN Believed \subseteq Names
  /\ DOMAIN existing = DOMAIN Believed
  /\ \A n \in DOMAIN Believed : Agree(Believed[n], objects[n])

OpenedInv ==
  /\ DOMAIN opened \subseteq DOMAIN existing
  /\ \A n \in DOMAIN opened :
       opened[n] \in DOMAIN descriptors /\ descriptors[opened[n]] = n
  /\ \A p \in DOMAIN descriptors :
       descriptors[p] \in DOMAIN opened /\ opened[descriptors[p]] = p

IInv == phase \in Before => ObjectsInv /\ OpenedInv

-----------------------------------------------------------------------------
(* Maps and lists *)

LEMMA FirstIsThere ==
  ASSUME NEW f, DOMAIN f \subseteq Names, DOMAIN f # {}
  PROVE  First(f) \in DOMAIN f
  BY NamesAssumption DEF First

LEMMA FirstExtendedIsThere ==
  ASSUME DOMAIN opened \subseteq Names, Extended # {}
  PROVE  FirstExtended \in Extended
  <1>1. Extended \subseteq Names
    BY DEF Extended
  <1> QED BY <1>1, NamesAssumption DEF FirstExtended

LEMMA AgreeEmpty == Agree(<<>>, <<>>)
  BY DEF Agree, Lists, Distinct

LEMMA DistinctAppend ==
  ASSUME NEW o \in Seq(Addrs), Distinct(o), NEW a \in Addrs,
         \A i \in 1..Len(o) : o[i] # a
  PROVE  Distinct(Append(o, a))
  BY DEF Distinct

\* Extending both with a new address, or only the memory with a failure
LEMMA AgreeAppend ==
  ASSUME NEW s, NEW o, Agree(s, o), NEW a \in Addrs,
         \A i \in 1..Len(o) : o[i] # a
  PROVE  Agree(Append(s, a), Append(o, a))
  <1>1. s \in Lists /\ o \in Seq(Addrs)
    BY DEF Agree
  <1>2. Append(s, a) \in Lists /\ Append(o, a) \in Seq(Addrs)
    BY <1>1 DEF Lists
  <1>3. Distinct(Append(o, a))
    BY <1>1, DistinctAppend DEF Agree
  <1>4. Broken(Append(s, a)) \/ Append(s, a) = Append(o, a)
    <2>1. CASE Broken(s)
      <3>1. Broken(Append(s, a))
        BY <1>1, <2>1 DEF Broken, Lists
      <3> QED BY <3>1
    <2>2. CASE s = o
      BY <2>2
    <2> QED BY <2>1, <2>2 DEF Agree
  <1>5. ASSUME NEW i \in 1..Len(Append(s, a)), Intact(Append(s, a), i)
        PROVE  i <= Len(Append(o, a)) /\ Append(s, a)[i] = Append(o, a)[i]
    <2>1. CASE i \in 1..Len(s)
      <3>1. Intact(s, i)
        BY <1>1, <1>5, <2>1 DEF Intact, Lists
      <3>2. i <= Len(o) /\ s[i] = o[i]
        BY <2>1, <3>1 DEF Agree
      <3>3. Append(s, a)[i] = s[i] /\ Append(o, a)[i] = o[i]
        BY <1>1, <2>1, <3>2 DEF Lists
      <3>4. Len(Append(o, a)) = Len(o) + 1 /\ Len(o) \in Nat
        BY <1>1
      <3> QED BY <3>2, <3>3, <3>4
    <2>2. CASE i = Len(s) + 1
      <3>1. ~Broken(s)
        BY <1>1, <1>5, <2>2 DEF Broken, Intact, Lists
      <3>2. s = o
        BY <3>1 DEF Agree
      <3> QED BY <1>1, <2>2, <3>2 DEF Lists
    <2> QED BY <1>1, <2>1, <2>2 DEF Lists
  <1> QED BY <1>2, <1>3, <1>4, <1>5 DEF Agree

LEMMA AgreeFailed ==
  ASSUME NEW s, NEW o, Agree(s, o)
  PROVE  Agree(Append(s, Failed), o)
  <1>1. s \in Lists /\ o \in Seq(Addrs)
    BY DEF Agree
  <1>2. Append(s, Failed) \in Lists
    BY <1>1 DEF Lists
  <1>3. Broken(Append(s, Failed))
    BY <1>1 DEF Broken, Lists
  <1>4. ASSUME NEW i \in 1..Len(Append(s, Failed)), Intact(Append(s, Failed), i)
        PROVE  i <= Len(o) /\ Append(s, Failed)[i] = o[i]
    <2>1. i \in 1..Len(s) /\ Intact(s, i)
      BY <1>1, <1>4 DEF Intact, Lists
    <2>2. i <= Len(o) /\ s[i] = o[i]
      BY <2>1 DEF Agree
    <2> QED BY <1>1, <2>1, <2>2 DEF Lists
  <1> QED BY <1>1, <1>2, <1>3, <1>4 DEF Agree

LEMMA RemovedIsList ==
  ASSUME NEW o \in Seq(Addrs), NEW i \in 1..Len(o)
  PROVE  ChunkRemoved(o, i) \in Seq(Addrs)
  <1>1. SubSeq(o, 1, i - 1) \in Seq(Addrs) /\ SubSeq(o, i + 1, Len(o)) \in Seq(Addrs)
    BY SubSeqProperties
  <1> QED BY <1>1, ConcatProperties DEF ChunkRemoved

LEMMA RemovedFirst ==
  ASSUME NEW o \in Seq(Addrs), o # <<>>
  PROVE  ChunkRemoved(o, 1) = Tail(o)
  <1>1. SubSeq(o, 1, 0) = <<>>
    BY SubSeqEmpty
  <1>2. SubSeq(o, 2, Len(o)) = Tail(o) /\ Tail(o) \in Seq(Addrs)
    BY TailIsSubSeq, HeadTailProperties
  <1>3. <<>> \o Tail(o) = Tail(o)
    BY <1>2, ConcatEmptySeq
  <1> QED BY <1>1, <1>2, <1>3 DEF ChunkRemoved

\* An address the memory has first is the kernel's first...
LEMMA FirstOfBoth ==
  ASSUME NEW s, NEW o, Agree(s, o), s # <<>>,
         NEW i \in 1..Len(o), o[i] = Head(s)
  PROVE  o # <<>> /\ ChunkRemoved(o, i) = Tail(o)
  <1>1. s \in Lists /\ o \in Seq(Addrs) /\ Len(s) \in Nat /\ Len(s) >= 1
    BY DEF Agree, Lists
  <1>2. s[1] # Failed
    <2>1. o[i] \in Addrs
      BY <1>1, ElementOfSeq
    <2> QED BY <2>1, <1>1, OpLogAssumption DEF Lists
  <1>3. 1 <= Len(o) /\ s[1] = o[1]
    BY <1>1, <1>2 DEF Agree, Intact
  <1>4. s[1] = Head(s) /\ 1 \in 1..Len(o)
    BY <1>1, <1>3 DEF Lists
  <1>5. i = 1
    BY <1>3, <1>4 DEF Agree, Distinct
  <1>6. o # <<>>
    BY <1>3
  <1> QED BY <1>1, <1>5, <1>6, RemovedFirst

\* ...so both lists lose their head.
LEMMA AgreeTail ==
  ASSUME NEW s, NEW o, Agree(s, o), s # <<>>, o # <<>>
  PROVE  Head(s) # Failed => Agree(Tail(s), Tail(o))
  <1> SUFFICES ASSUME Head(s) # Failed PROVE Agree(Tail(s), Tail(o))
    OBVIOUS
  <1>1. s \in Lists /\ o \in Seq(Addrs) /\ Len(s) \in Nat /\ Len(s) >= 1
        /\ Len(o) \in Nat /\ Len(o) >= 1
    BY DEF Agree, Lists
  <1>2. Tail(s) \in Lists /\ Len(Tail(s)) = Len(s) - 1
        /\ \A j \in 1..Len(s) - 1 : Tail(s)[j] = s[j + 1]
    BY <1>1 DEF Lists
  <1>3. Tail(o) \in Seq(Addrs) /\ Len(Tail(o)) = Len(o) - 1
        /\ \A j \in 1..Len(o) - 1 : Tail(o)[j] = o[j + 1]
    BY <1>1
  <1>4. s[1] # Failed
    BY <1>1 DEF Lists
  <1>5. Distinct(Tail(o))
    <2>1. Distinct(o)
      BY DEF Agree
    <2> QED BY <1>1, <1>3, <2>1 DEF Distinct
  <1>6. Broken(Tail(s)) \/ Tail(s) = Tail(o)
    <2>1. CASE Broken(s)
      <3>1. PICK j \in 1..Len(s) : s[j] = Failed
        BY <2>1 DEF Broken
      <3>2. j - 1 \in 1..Len(s) - 1 /\ Tail(s)[j - 1] = Failed
        BY <1>1, <1>2, <1>4, <3>1
      <3> QED BY <1>2, <3>2 DEF Broken
    <2> QED BY <2>1 DEF Agree
  <1>7. ASSUME NEW i \in 1..Len(Tail(s)), Intact(Tail(s), i)
        PROVE  i <= Len(Tail(o)) /\ Tail(s)[i] = Tail(o)[i]
    <2>1. i + 1 \in 1..Len(s) /\ Tail(s)[i] = s[i + 1] /\ i \in 1..Len(s) - 1
      BY <1>1, <1>2
    <2>2. Intact(s, i + 1)
      <3> SUFFICES ASSUME NEW j \in 1..(i + 1) PROVE s[j] # Failed
        BY DEF Intact
      <3>1. CASE j = 1
        BY <1>4, <3>1
      <3>2. CASE j # 1
        <4>1. j - 1 \in 1..i /\ j - 1 \in 1..Len(s) - 1
          BY <2>1, <3>2, <1>1
        <4>2. Tail(s)[j - 1] # Failed
          BY <1>7, <4>1 DEF Intact
        <4>3. Tail(s)[j - 1] = s[j]
          BY <1>2, <4>1
        <4> QED BY <4>2, <4>3
      <3> QED BY <3>1, <3>2
    <2>3. i + 1 <= Len(o) /\ s[i + 1] = o[i + 1]
      BY <2>1, <2>2 DEF Agree
    <2>4. i \in 1..Len(o) - 1
      BY <1>1, <2>1, <2>3
    <2> QED BY <1>3, <2>1, <2>3, <2>4
  <1> QED BY <1>2, <1>3, <1>5, <1>6, <1>7 DEF Agree

-----------------------------------------------------------------------------
(* The steps of run_before_crash *)

LEMMA StepCreat ==
  ASSUME IInv, Creat
  PROVE  IInv'
  <1>1. phase = "before" /\ phase' = "logging"
    BY DEF Creat, Ready, Due
  <1>2. ObjectsInv /\ OpenedInv /\ Believed = existing
    BY <1>1 DEF IInv, Before, Believed
  <1>3. PICK name \in Names \ DOMAIN existing, pod \in FreePods :
          /\ po_creat(name, pod)
          /\ existing' = With(existing, name, <<>>)
          /\ opened' = With(opened, name, pod)
          /\ Due(0, name, NoAddr)
    BY DEF Creat, NewNames
  <1>4. /\ name \notin DOMAIN objects /\ pod \notin DOMAIN descriptors
        /\ objects' = With(objects, name, <<>>)
        /\ descriptors' = With(descriptors, pod, name)
        /\ leftover' = leftover
    BY <1>3 DEF po_creat, FreePods, Due, crashes
  <1>5. Believed' = existing'
    BY <1>1, <1>3 DEF Believed, Remembered, Due
  <1>6. ObjectsInv'
    <2>1. DOMAIN existing' = DOMAIN existing \cup {name}
          /\ DOMAIN objects' = DOMAIN objects \cup {name}
      BY <1>3, <1>4 DEF With
    <2>2. ASSUME NEW n \in DOMAIN existing'
          PROVE  Agree(existing'[n], objects'[n])
      <3>1. CASE n = name
        BY <3>1, <1>3, <1>4, AgreeEmpty DEF With
      <3>2. CASE n # name
        <4>1. n \in DOMAIN existing /\ n \in DOMAIN objects
          BY <3>2, <2>1, <1>2 DEF ObjectsInv
        <4>2. existing'[n] = existing[n] /\ objects'[n] = objects[n]
          BY <3>2, <4>1, <1>3, <1>4 DEF With
        <4> QED BY <4>1, <4>2, <1>2 DEF ObjectsInv
      <3> QED BY <3>1, <3>2
    <2> QED BY <2>1, <2>2, <1>2, <1>4, <1>5 DEF ObjectsInv
  <1>7. OpenedInv'
    BY <1>2, <1>3, <1>4 DEF OpenedInv, ObjectsInv, With
  <1> QED BY <1>6, <1>7 DEF IInv

LEMMA StepUnlink ==
  ASSUME IInv, Unlink
  PROVE  IInv'
  <1> DEFINE name == First(existing)
  <1>1. phase = "before" /\ phase' = "logging" /\ DOMAIN existing # {}
    BY DEF Unlink, Ready, Due
  <1>2. ObjectsInv /\ OpenedInv /\ Believed = existing
    BY <1>1 DEF IInv, Before, Believed
  <1>3. name \in DOMAIN existing
    BY <1>1, <1>2, FirstIsThere DEF ObjectsInv
  <1> HIDE DEF name
  <1>4. /\ opened' = Without(opened, name)
        /\ existing' = Without(existing, name)
        /\ objects' = Without(objects, name)
        /\ leftover' = leftover
        /\ inflight' = [op |-> 1, name |-> name, addr |-> NoAddr]
    BY DEF Unlink, po_unlink, Due, crashes, name
  <1>5. Believed' = existing'
    BY <1>1, <1>4 DEF Believed, Remembered
  <1>6. ObjectsInv'
    BY <1>2, <1>3, <1>4, <1>5 DEF ObjectsInv, Without
  <1>7. OpenedInv'
    <2>1. CASE name \in DOMAIN opened
      <3>1. descriptors' = Without(descriptors, opened[name])
        BY <2>1 DEF Unlink, OthersOpen, name
      <3> QED BY <2>1, <3>1, <1>2, <1>4 DEF OpenedInv, Without
    <2>2. CASE name \notin DOMAIN opened
      <3>1. descriptors' = descriptors
        BY <2>2 DEF Unlink, OthersOpen, name
      <3> QED BY <2>2, <3>1, <1>2, <1>4 DEF OpenedInv, Without
    <2> QED BY <2>1, <2>2
  <1> QED BY <1>6, <1>7 DEF IInv

LEMMA StepOpen ==
  ASSUME IInv, Open
  PROVE  IInv'
  <1> DEFINE name == First(existing)
             others == IF name \in DOMAIN opened
                       THEN Without(descriptors, opened[name]) ELSE descriptors
  <1>1. phase = "before" /\ phase' = "before" /\ DOMAIN existing # {}
    BY DEF Open
  <1>2. ObjectsInv /\ OpenedInv /\ Believed = existing
    BY <1>1 DEF IInv, Before, Believed
  <1>3. name \in DOMAIN existing /\ name \in DOMAIN objects
    BY <1>1, <1>2, FirstIsThere DEF ObjectsInv
  <1>4. PICK pod \in Pods \ DOMAIN others :
          /\ objects' = Opened(name)
          /\ descriptors' = With(others, pod, name)
          /\ opened' = With(opened, name, pod)
    BY DEF Open, OthersOpen
  <1> HIDE DEF name
  <1>5. objects' = objects /\ existing' = existing /\ leftover' = leftover
    BY <1>3, <1>4 DEF Opened, Open, crashes
  <1>6. Believed' = existing'
    BY <1>1 DEF Believed
  <1>7. ObjectsInv'
    BY <1>2, <1>5, <1>6 DEF ObjectsInv
  <1>8. /\ DOMAIN others = {p \in DOMAIN descriptors : descriptors[p] # name}
        /\ \A p \in DOMAIN others : others[p] = descriptors[p]
    <2>1. CASE name \in DOMAIN opened
      BY <2>1, <1>2 DEF OpenedInv, Without
    <2>2. CASE name \notin DOMAIN opened
      BY <2>2, <1>2 DEF OpenedInv
    <2> QED BY <2>1, <2>2
  <1> HIDE DEF others
  <1>9. OpenedInv'
    <2>1. /\ DOMAIN opened' = DOMAIN opened \cup {name} /\ opened'[name] = pod
          /\ \A n \in DOMAIN opened : n # name => opened'[n] = opened[n]
      BY <1>4 DEF With
    <2>2. /\ DOMAIN descriptors' = DOMAIN others \cup {pod} /\ descriptors'[pod] = name
          /\ \A p \in DOMAIN others : descriptors'[p] = descriptors[p]
      BY <1>4, <1>8 DEF With
    <2>3. ASSUME NEW n \in DOMAIN opened'
          PROVE  opened'[n] \in DOMAIN descriptors' /\ descriptors'[opened'[n]] = n
      BY <2>1, <2>2, <1>2, <1>8 DEF OpenedInv
    <2>4. ASSUME NEW p \in DOMAIN descriptors'
          PROVE  descriptors'[p] \in DOMAIN opened' /\ opened'[descriptors'[p]] = p
      BY <2>1, <2>2, <1>2, <1>8 DEF OpenedInv
    <2>5. DOMAIN opened' \subseteq DOMAIN existing'
      BY <2>1, <1>2, <1>3, <1>5 DEF OpenedInv
    <2> QED BY <2>3, <2>4, <2>5 DEF OpenedInv
  <1> QED BY <1>7, <1>9 DEF IInv

LEMMA StepClose ==
  ASSUME IInv, Close
  PROVE  IInv'
  <1> DEFINE name == First(opened)
  <1>1. phase = "before" /\ phase' = "before" /\ DOMAIN opened # {}
    BY DEF Close
  <1>2. ObjectsInv /\ OpenedInv /\ Believed = existing
    BY <1>1 DEF IInv, Before, Believed
  <1>3. name \in DOMAIN opened
    BY <1>1, <1>2, FirstIsThere DEF ObjectsInv, OpenedInv
  <1> HIDE DEF name
  <1>4. /\ descriptors' = Without(descriptors, opened[name])
        /\ opened' = Without(opened, name)
        /\ objects' = objects /\ existing' = existing /\ leftover' = leftover
    BY DEF Close, po_close, crashes, name
  <1>5. Believed' = existing'
    BY <1>1 DEF Believed
  <1>6. ObjectsInv'
    BY <1>2, <1>4, <1>5 DEF ObjectsInv
  <1>7. OpenedInv'
    BY <1>2, <1>3, <1>4 DEF OpenedInv, Without
  <1> QED BY <1>6, <1>7 DEF IInv

\* The kernel has the new chunk, the memory will have it with the record.
LEMMA StepExtend ==
  ASSUME IInv, Extend
  PROVE  IInv'
  <1> DEFINE name == First(opened)
  <1>1. phase = "before" /\ phase' = "logging" /\ DOMAIN opened # {}
    BY DEF Extend, Ready, Due
  <1>2. ObjectsInv /\ OpenedInv /\ Believed = existing
    BY <1>1 DEF IInv, Before, Believed
  <1>3. name \in DOMAIN opened /\ name \in DOMAIN existing /\ name \in DOMAIN objects
        /\ descriptors[opened[name]] = name
    BY <1>1, <1>2, FirstIsThere DEF ObjectsInv, OpenedInv
  <1>4. /\ descriptors' = descriptors /\ existing' = existing /\ opened' = opened
        /\ leftover' = leftover
    BY DEF Extend, memory, Due, crashes
  <1>5. OpenedInv'
    BY <1>2, <1>4 DEF OpenedInv
  <1>6. Agree(existing[name], objects[name])
    BY <1>2, <1>3 DEF ObjectsInv
  <1>7. CASE \E addr \in FreeAddrs : po_extend(opened[name], addr) /\ Due(6, name, addr)
    <2>1. PICK addr \in FreeAddrs :
            po_extend(opened[name], addr) /\ Due(6, name, addr)
      BY <1>7
    <2>2. objects' = With(objects, name, Append(objects[name], addr))
      BY <2>1, <1>3 DEF po_extend
    <2>3. Believed' = With(existing, name, Append(existing[name], addr))
      BY <2>1, <1>1, <1>4 DEF Due, Believed, Remembered
    <2>4. addr \in Addrs /\ \A i \in 1..Len(objects[name]) : objects[name][i] # addr
      BY <1>3 DEF FreeAddrs, InUse
    <2>5. Agree(Append(existing[name], addr), Append(objects[name], addr))
      BY <1>6, <2>4, AgreeAppend
    <2> HIDE DEF name
    <2>6. ObjectsInv'
      BY <1>2, <1>3, <1>4, <2>2, <2>3, <2>5 DEF ObjectsInv, With
    <2> QED BY <2>6, <1>5 DEF IInv
  <1>8. CASE UNCHANGED objects /\ Due(6, name, Failed)
    <2>1. Believed' = With(existing, name, Append(existing[name], Failed))
      BY <1>8, <1>1, <1>4 DEF Due, Believed, Remembered
    <2>2. Agree(Append(existing[name], Failed), objects[name])
      BY <1>6, AgreeFailed
    <2> HIDE DEF name
    <2>3. ObjectsInv'
      BY <1>2, <1>3, <1>4, <1>8, <2>1, <2>2 DEF ObjectsInv, With
    <2> QED BY <2>3, <1>5 DEF IInv
  <1> QED BY <1>7, <1>8 DEF Extend

LEMMA StepShrink ==
  ASSUME IInv, Shrink
  PROVE  IInv'
  <1> DEFINE name == FirstExtended
  <1>1. phase = "before" /\ phase' = "logging" /\ Extended # {}
    BY DEF Shrink, Ready, Due
  <1>2. ObjectsInv /\ OpenedInv /\ Believed = existing
    BY <1>1 DEF IInv, Before, Believed
  <1>3. name \in Extended
    BY <1>1, <1>2, FirstExtendedIsThere DEF ObjectsInv, OpenedInv
  <1>4. name \in DOMAIN opened /\ name \in DOMAIN existing /\ name \in DOMAIN objects
        /\ descriptors[opened[name]] = name /\ existing[name] # <<>>
    BY <1>2, <1>3 DEF ObjectsInv, OpenedInv, Extended
  <1>5. /\ descriptors' = descriptors /\ existing' = existing /\ opened' = opened
        /\ leftover' = leftover
        /\ inflight' = [op |-> 7, name |-> name, addr |-> Head(existing[name])]
        /\ po_shrink(opened[name], Head(existing[name]))
    BY DEF Shrink, memory, Due, crashes
  <1> HIDE DEF name
  <1>6. PICK i \in 1..Len(objects[name]) :
          /\ objects[name][i] = Head(existing[name])
          /\ objects' = With(objects, name, ChunkRemoved(objects[name], i))
    BY <1>4, <1>5 DEF po_shrink
  <1>7. Believed' = With(existing, name, Tail(existing[name]))
    BY <1>1, <1>5 DEF Believed, Remembered
  <1>8. Agree(Tail(existing[name]), ChunkRemoved(objects[name], i))
    <2>1. Agree(existing[name], objects[name])
      BY <1>2, <1>4 DEF ObjectsInv
    <2>2. objects[name] # <<>> /\ ChunkRemoved(objects[name], i) = Tail(objects[name])
      BY <2>1, <1>4, <1>6, FirstOfBoth
    <2>3. Head(existing[name]) # Failed
      <3>1. objects[name][i] \in Addrs
        BY <2>1, ElementOfSeq DEF Agree
      <3> QED BY <3>1, <1>6, OpLogAssumption
    <2> QED BY <2>1, <2>2, <2>3, <1>4, AgreeTail
  <1>9. ObjectsInv'
    BY <1>2, <1>4, <1>5, <1>6, <1>7, <1>8 DEF ObjectsInv, With
  <1>10. OpenedInv'
    BY <1>2, <1>5 DEF OpenedInv
  <1> QED BY <1>9, <1>10 DEF IInv

\* The record makes true what was believed.
LEMMA StepWriteRecord ==
  ASSUME IInv, WriteRecord
  PROVE  IInv'
  <1>1. phase = "logging" /\ phase' = "before" /\ existing' = Remembered(inflight)
        /\ UNCHANGED <<objects, descriptors, opened, leftover>>
    BY DEF WriteRecord, kernel, crashes
  <1>2. ObjectsInv /\ OpenedInv /\ Believed = Remembered(inflight)
    BY <1>1 DEF IInv, Before, Believed
  <1>3. Believed' = existing' /\ Believed' = Believed
    BY <1>1, <1>2 DEF Believed
  <1>4. ObjectsInv'
    BY <1>1, <1>2, <1>3 DEF ObjectsInv
  <1>5. OpenedInv'
    BY <1>1, <1>2 DEF OpenedInv, ObjectsInv
  <1> QED BY <1>4, <1>5 DEF IInv

\* A new run of the program starts with nothing of its own.
LEMMA StepRunBefore ==
  ASSUME RunBefore
  PROVE  IInv'
  <1>1. /\ existing' = Empty /\ opened' = Empty /\ descriptors' = Empty
        /\ leftover' = DOMAIN objects /\ objects' = objects /\ phase' = "before"
    BY DEF RunBefore
  <1>2. Believed' = existing'
    BY <1>1 DEF Believed
  <1> QED BY <1>1, <1>2 DEF IInv, ObjectsInv, OpenedInv, Empty

LEMMA InitIInv == Init => IInv
  BY DEF Init, IInv, ObjectsInv, OpenedInv, Believed, Empty

LEMMA NextIInv == IInv /\ [Next]_vars => IInv'
  <1> SUFFICES ASSUME IInv, [Next]_vars PROVE IInv'
    OBVIOUS
  <1>1. CASE Abort \/ Crash \/ RunAfter
    BY <1>1 DEF Abort, Crash, RunAfter, IInv, Before
  <1>2. CASE Replay
    BY <1>2 DEF Replay, ReplayRecord, ReplayTrailing, Spin, ReplayRound, CheckIsOk, IInv, Before
  <1>3. CASE UNCHANGED vars
    <2>1. UNCHANGED <<objects, descriptors, existing, opened, inflight, phase, leftover>>
      BY <1>3 DEF vars, kernel, memory, crashes
    <2> QED BY <2>1 DEF IInv, ObjectsInv, OpenedInv, Believed, Remembered
  <1> QED BY <1>1, <1>2, <1>3, StepCreat, StepUnlink, StepOpen, StepClose, StepExtend,
             StepShrink, StepWriteRecord, StepRunBefore DEF Next

-----------------------------------------------------------------------------
(* What the run checks on a small instance *)

LEMMA IInvImplies == IInv => MemoryIsKernel /\ OpenedAreDescriptors
  <1> SUFFICES ASSUME IInv PROVE MemoryIsKernel /\ OpenedAreDescriptors
    OBVIOUS
  <1>1. MemoryIsKernel
    <2> SUFFICES ASSUME phase = "before"
                 PROVE  /\ DOMAIN existing = DOMAIN Ours
                        /\ \A n \in DOMAIN existing :
                             HasFailure(n) \/ existing[n] = objects[n]
      BY DEF MemoryIsKernel
    <2>1. ObjectsInv /\ Believed = existing
      BY DEF IInv, Before, Believed
    <2> QED BY <2>1 DEF ObjectsInv, Ours, Agree, Broken, HasFailure
  <1>2. OpenedAreDescriptors
    BY DEF IInv, OpenedInv, OpenedAreDescriptors
  <1> QED BY <1>1, <1>2

LEMMA AlwaysIInv == Spec => []IInv
  BY InitIInv, NextIInv, PTL DEF Spec

\* Between two calls of run_before_crash the objects in memory are the kernel's,
\* however often the kernel refused to extend one, and after any restart.
THEOREM MemoryFollowsKernel == Spec => []MemoryIsKernel
  BY AlwaysIInv, IInvImplies, PTL

\* The open descriptors are the ones in opened_pos, each under its own name.
THEOREM NoDescriptorIsLost == Spec => []OpenedAreDescriptors
  BY AlwaysIInv, IInvImplies, PTL

-----------------------------------------------------------------------------
(* What records mean, record by record.  Meaning is a recursive function: it *)
(* has the value its definition gives it because there is such a function,   *)
(* shown here with the least number for which there would be none.           *)

LEMMA LeastExists ==
  ASSUME NEW S \in SUBSET Nat, S # {}
  PROVE  \E i \in S : \A j \in S : i <= j
  <1> DEFINE Less == {p \in Nat \X Nat : p[1] < p[2]}
  <1>1. IsWellFoundedOn(Less, Nat)
    BY NatLessThanWellFounded DEF OpToRel
  <1> HIDE DEF Less
  <1>2. PICK i \in S : \A j \in S : ~(<<j, i>> \in Less)
    BY <1>1, WFMin
  <1>3. ASSUME NEW j \in S
        PROVE  i <= j
    <2>1. CASE j < i
      BY <1>2, <2>1 DEF Less
    <2> QED BY <2>1
  <1> QED BY <1>3

\* g is what the first k records lead to, one after the other.
Reads(g, records, k) ==
  g = [i \in 0..k |-> IF i = 0 THEN Empty ELSE Effect(g[i - 1], records[i])]

LEMMA ReadsExtend ==
  ASSUME NEW s, NEW k \in Nat, NEW g, Reads(g, s, k)
  PROVE  \E h : Reads(h, s, k + 1)
  <1> DEFINE h == [i \in 0..(k + 1) |-> IF i = k + 1 THEN Effect(g[k], s[k + 1]) ELSE g[i]]
             H == [i \in 0..(k + 1) |-> IF i = 0 THEN Empty ELSE Effect(h[i - 1], s[i])]
  <1>1. ASSUME NEW i \in 0..(k + 1)
        PROVE  h[i] = H[i]
    <2>1. CASE i = 0
      <3>1. h[i] = g[i] /\ g[0] = Empty
        BY <2>1 DEF Reads
      <3> QED BY <2>1, <3>1
    <2>2. CASE i = k + 1
      <3>1. h[i] = Effect(g[k], s[k + 1]) /\ h[k] = g[k] /\ i # 0 /\ i - 1 = k
        BY <2>2
      <3> QED BY <2>2, <3>1
    <2>3. CASE i # 0 /\ i # k + 1
      <3>1. h[i] = g[i] /\ h[i - 1] = g[i - 1] /\ i \in 0..k
        BY <2>3
      <3>2. g[i] = Effect(g[i - 1], s[i])
        BY <2>3, <3>1 DEF Reads
      <3> QED BY <2>3, <3>1, <3>2
    <2> QED BY <2>1, <2>2, <2>3
  <1>2. h = H
    BY <1>1
  <1> HIDE DEF h
  <1>3. Reads(h, s, k + 1)
    BY <1>2 DEF Reads
  <1> QED BY <1>3

LEMMA ReadsExists ==
  ASSUME NEW s, NEW k \in Nat
  PROVE  \E g : Reads(g, s, k)
  <1> DEFINE Bad == {n \in Nat : ~ \E g : Reads(g, s, n)}
  <1> SUFFICES ASSUME Bad # {} PROVE FALSE
    OBVIOUS
  <1>1. PICK n \in Bad : \A m \in Bad : n <= m
    BY LeastExists
  <1>2. n # 0
    <2>1. Reads([i \in 0..0 |-> Empty], s, 0)
      BY DEF Reads
    <2> QED BY <1>1, <2>1
  <1>3. n - 1 \in Nat /\ n - 1 \notin Bad
    BY <1>1, <1>2
  <1>4. PICK g : Reads(g, s, n - 1)
    BY <1>3
  <1>5. \E h : Reads(h, s, (n - 1) + 1)
    BY <1>3, <1>4, ReadsExtend
  <1>6. (n - 1) + 1 = n
    BY <1>1
  <1> QED BY <1>1, <1>5, <1>6

LEMMA ReadsAgree ==
  ASSUME NEW s, NEW t, NEW k \in Nat, NEW l \in Nat, k <= l,
         \A i \in 1..k : s[i] = t[i],
         NEW g, Reads(g, s, k), NEW h, Reads(h, t, l)
  PROVE  g[k] = h[k]
  <1> DEFINE Bad == {i \in 0..k : g[i] # h[i]}
  <1>1. ASSUME Bad # {} PROVE FALSE
    <2> Bad \in SUBSET Nat
      OBVIOUS
    <2>1. PICK n \in Bad : \A m \in Bad : n <= m
      BY <1>1, LeastExists
    <2>2. n # 0
      <3>1. g[0] = Empty /\ h[0] = Empty
        BY DEF Reads
      <3> QED BY <2>1, <3>1
    <2>3. n - 1 \in 0..k /\ n - 1 \notin Bad
      BY <2>1, <2>2
    <2>4. g[n] = Effect(g[n - 1], s[n]) /\ h[n] = Effect(h[n - 1], t[n])
      BY <2>1, <2>2 DEF Reads
    <2> QED BY <2>1, <2>2, <2>3, <2>4
  <1> QED BY <1>1

LEMMA MeaningReads ==
  ASSUME NEW s, Len(s) \in Nat, NEW g, Reads(g, s, Len(s))
  PROVE  Meaning(s) = g[Len(s)]
  <1> DEFINE c == CHOOSE f : Reads(f, s, Len(s))
  <1>1. Meaning(s) = c[Len(s)]
    BY DEF Meaning, Reads
  <1>2. Reads(c, s, Len(s))
    BY ReadsExists
  <1> HIDE DEF c
  <1>3. c[Len(s)] = g[Len(s)]
    BY <1>2, ReadsAgree
  <1> QED BY <1>1, <1>3

LEMMA MeaningEmpty == Meaning(<<>>) = Empty
  <1>1. PICK g : Reads(g, <<>>, 0)
    BY ReadsExists
  <1>2. g[0] = Empty
    BY <1>1 DEF Reads
  <1>3. Len(<<>>) = 0
    OBVIOUS
  <1> QED BY <1>1, <1>2, <1>3, MeaningReads

LEMMA MeaningAppend ==
  ASSUME NEW T, NEW s \in Seq(T), NEW r \in T
  PROVE  Meaning(Append(s, r)) = Effect(Meaning(s), r)
  <1> DEFINE t == Append(s, r)
             n == Len(s)
  <1>1. n \in Nat /\ Len(t) = n + 1 /\ t[n + 1] = r /\ \A i \in 1..n : s[i] = t[i]
    OBVIOUS
  <1> HIDE DEF t, n
  <1>2. PICK g : Reads(g, s, n)
    BY <1>1, ReadsExists
  <1>3. PICK h : Reads(h, t, n + 1)
    <2>1. n + 1 \in Nat
      BY <1>1
    <2> QED BY <2>1, ReadsExists
  <1>4. g[n] = h[n]
    BY <1>1, <1>2, <1>3, ReadsAgree
  <1>5. h[n + 1] = Effect(h[n], r)
    <2>1. n + 1 \in 0..(n + 1) /\ n + 1 # 0 /\ (n + 1) - 1 = n
      BY <1>1
    <2> QED BY <1>1, <1>3, <2>1 DEF Reads
  <1>6. Meaning(s) = g[n] /\ Meaning(t) = h[n + 1]
    BY <1>1, <1>2, <1>3, MeaningReads DEF n
  <1>7. Meaning(t) = Effect(Meaning(s), r)
    BY <1>4, <1>5, <1>6
  <1> QED BY <1>7 DEF t

\* What is known of a record by the names there were before it
Sensible(o, r) == r.op = 0 <=> r.name \notin DOMAIN o

Sound(records) ==
  \A i \in 1..Len(records) : Sensible(Meaning(SubSeq(records, 1, i - 1)), records[i])

NamesAfter(S, r) ==
  CASE r.op = 0 -> S \cup {r.name}
    [] r.op = 1 -> S \ {r.name}
    [] OTHER -> S

LEMMA RecordOps ==
  ASSUME NEW r \in Record
  PROVE  r.op \in {0, 1, 6, 7} /\ r.name \in Names /\ r # NoRecord
         /\ (r.op \in {6, 7} => r.addr \in Addrs \cup {Failed})
  BY RecordAssumption DEF Record

LEMMA EffectNames ==
  ASSUME NEW o, NEW r \in Record, Sensible(o, r)
  PROVE  DOMAIN Effect(o, r) = NamesAfter(DOMAIN o, r)
  <1>1. r.op \in {0, 1, 6, 7}
    BY RecordOps
  <1>2. CASE r.op = 0
    BY <1>2 DEF Effect, NamesAfter, With
  <1>3. CASE r.op = 1
    BY <1>3 DEF Effect, NamesAfter, Without
  <1>4. CASE r.op = 6
    BY <1>4 DEF Effect, NamesAfter, With, Sensible
  <1>5. CASE r.op = 7
    <2>1. Effect(o, r) = With(o, r.name, Tail(o[r.name]))
      BY <1>5 DEF Effect
    <2>2. \A v : DOMAIN With(o, r.name, v) = DOMAIN o \cup {r.name}
      BY DEF With
    <2>3. r.name \in DOMAIN o
      BY <1>5 DEF Sensible
    <2> QED BY <1>5, <2>1, <2>2, <2>3 DEF NamesAfter
  <1> QED BY <1>1, <1>2, <1>3, <1>4, <1>5

LEMMA PrefixAppend ==
  ASSUME NEW T, NEW s \in Seq(T), NEW i \in 1..Len(s)
  PROVE  SubSeq(s, 1, i) = Append(SubSeq(s, 1, i - 1), s[i])
         /\ SubSeq(s, 1, i - 1) \in Seq(T) /\ s[i] \in T
  <1>1. i - 1 \in 0..Len(s) /\ i \in 0..Len(s) /\ s[i] \in T
    BY ElementOfSeq
  <1>2. /\ SubSeq(s, 1, i - 1) \in Seq(T) /\ Len(SubSeq(s, 1, i - 1)) = i - 1
        /\ \A j \in 1..(i - 1) : SubSeq(s, 1, i - 1)[j] = s[j]
    BY <1>1, SubSeqProperties
  <1>3. /\ SubSeq(s, 1, i) \in Seq(T) /\ Len(SubSeq(s, 1, i)) = i
        /\ \A j \in 1..i : SubSeq(s, 1, i)[j] = s[j]
    BY <1>1, SubSeqProperties
  <1> DEFINE a == SubSeq(s, 1, i - 1)
             b == SubSeq(s, 1, i)
  <1> HIDE DEF a, b
  <1>4. /\ a \in Seq(T) /\ Len(a) = i - 1 /\ \A j \in 1..(i - 1) : a[j] = s[j]
        /\ b \in Seq(T) /\ Len(b) = i /\ \A j \in 1..i : b[j] = s[j]
    BY <1>2, <1>3 DEF a, b
  <1>5. b = Append(a, s[i])
    <2>1. /\ Append(a, s[i]) \in Seq(T) /\ Len(Append(a, s[i])) = i
          /\ \A j \in 1..(i - 1) : Append(a, s[i])[j] = a[j]
          /\ Append(a, s[i])[i] = s[i]
      BY <1>1, <1>4
    <2>2. \A j \in 1..i : Append(a, s[i])[j] = b[j]
      BY <1>4, <2>1
    <2> QED BY <1>4, <2>1, <2>2, SeqEqual
  <1> QED BY <1>1, <1>4, <1>5 DEF a, b

\* Soundness of a prefix, and with one record more
LEMMA SoundPrefix ==
  ASSUME NEW s \in Seq(Record), Sound(s), NEW n \in 0..Len(s)
  PROVE  SubSeq(s, 1, n) \in Seq(Record) /\ Sound(SubSeq(s, 1, n))
  <1> DEFINE a == SubSeq(s, 1, n)
  <1>1. a \in Seq(Record) /\ Len(a) = n /\ \A j \in 1..n : a[j] = s[j]
    BY SubSeqProperties
  <1>2. ASSUME NEW i \in 1..n
        PROVE  SubSeq(a, 1, i - 1) = SubSeq(s, 1, i - 1) /\ a[i] = s[i] /\ i \in 1..Len(s)
    <2> DEFINE b == SubSeq(a, 1, i - 1)
               c == SubSeq(s, 1, i - 1)
    <2> HIDE DEF a
    <2>1. i - 1 \in 0..Len(a) /\ i - 1 \in 0..Len(s)
      BY <1>1
    <2>2. b \in Seq(Record) /\ Len(b) = i - 1 /\ \A j \in 1..(i - 1) : b[j] = a[j]
      BY <1>1, <2>1, SubSeqProperties
    <2>3. c \in Seq(Record) /\ Len(c) = i - 1 /\ \A j \in 1..(i - 1) : c[j] = s[j]
      BY <2>1, SubSeqProperties
    <2> HIDE DEF b, c
    <2>4. b = c
      BY <1>1, <2>2, <2>3, SeqEqual
    <2> QED BY <1>1, <2>4 DEF b, c
  <1> HIDE DEF a
  <1>3. Sound(a)
    BY <1>1, <1>2 DEF Sound
  <1> QED BY <1>1, <1>3 DEF a

LEMMA WholePrefix ==
  ASSUME NEW T, NEW s \in Seq(T)
  PROVE  SubSeq(s, 1, Len(s)) = s
  <1> DEFINE a == SubSeq(s, 1, Len(s))
  <1>1. a \in Seq(T) /\ Len(a) = Len(s) /\ \A j \in 1..Len(s) : a[j] = s[j]
    BY SubSeqProperties
  <1> HIDE DEF a
  <1>2. a = s
    BY <1>1, SeqEqual
  <1> QED BY <1>2 DEF a

LEMMA SoundAppend ==
  ASSUME NEW s \in Seq(Record), Sound(s), NEW r \in Record, Sensible(Meaning(s), r)
  PROVE  Sound(Append(s, r))
  <1> DEFINE t == Append(s, r)
  <1>1. t \in Seq(Record) /\ Len(t) = Len(s) + 1 /\ t[Len(s) + 1] = r
        /\ Len(s) \in Nat /\ \A j \in 1..Len(s) : t[j] = s[j]
    OBVIOUS
  <1> HIDE DEF t
  <1>2. ASSUME NEW i \in 1..Len(t)
        PROVE  SubSeq(t, 1, i - 1) = SubSeq(s, 1, i - 1)
    <2> DEFINE b == SubSeq(t, 1, i - 1)
               c == SubSeq(s, 1, i - 1)
    <2>1. i - 1 \in 0..Len(t) /\ i - 1 \in 0..Len(s)
      BY <1>1
    <2>2. b \in Seq(Record) /\ Len(b) = i - 1 /\ \A j \in 1..(i - 1) : b[j] = t[j]
      BY <1>1, <2>1, SubSeqProperties
    <2>3. c \in Seq(Record) /\ Len(c) = i - 1 /\ \A j \in 1..(i - 1) : c[j] = s[j]
      BY <2>1, SubSeqProperties
    <2> HIDE DEF b, c
    <2>4. b = c
      BY <1>1, <2>1, <2>2, <2>3, SeqEqual
    <2> QED BY <2>4 DEF b, c
  <1>3. ASSUME NEW i \in 1..Len(t)
        PROVE  Sensible(Meaning(SubSeq(t, 1, i - 1)), t[i])
    <2>1. CASE i \in 1..Len(s)
      BY <1>1, <1>2, <2>1 DEF Sound
    <2>2. CASE i = Len(s) + 1
      <3>1. SubSeq(t, 1, i - 1) = s /\ t[i] = r
        BY <1>1, <1>2, <2>2, WholePrefix
      <3> QED BY <3>1
    <2> QED BY <1>1, <2>1, <2>2
  <1>4. Sound(t)
    BY <1>3 DEF Sound
  <1> QED BY <1>4 DEF t

-----------------------------------------------------------------------------
(* Types *)

Maps(f, K, V) == DOMAIN f \subseteq K /\ \A k \in DOMAIN f : f[k] \in V

LEMMA MapsEmpty ==
  ASSUME NEW K, NEW V
  PROVE  Maps(Empty, K, V)
  BY DEF Maps, Empty

LEMMA MapsWith ==
  ASSUME NEW K, NEW V, NEW f, Maps(f, K, V), NEW k \in K, NEW v \in V
  PROVE  Maps(With(f, k, v), K, V)
  BY DEF Maps, With

LEMMA MapsWithout ==
  ASSUME NEW K, NEW V, NEW f, Maps(f, K, V), NEW k
  PROVE  Maps(Without(f, k), K, V)
  BY DEF Maps, Without

Phases == Before \cup Ended \cup {"down", "replay", "spin", "check"}

KernelType == Maps(objects, Names, Seq(Addrs)) /\ Maps(descriptors, Pods, Names)
MemoryType == Maps(existing, Names, Lists) /\ Maps(opened, Names, Pods)
FileType ==
  /\ log \in Seq(Record) /\ inflight \in Record \cup {NoRecord}
  /\ phase \in Phases /\ next \in Nat
  /\ phase \in Before => (inflight = NoRecord <=> phase = "before")
  /\ phase = "replay" => next \in 1..(Len(log) + 1)
HistoryType ==
  /\ leftover \subseteq Names /\ tailLost \in BOOLEAN /\ chunkLost \in BOOLEAN
  /\ phase \in Before => ~tailLost /\ ~chunkLost

\* TypeOK, and what makes the next record due and the replay stay in the file
Typed == KernelType /\ MemoryType /\ FileType /\ HistoryType

LEMMA TypedImplies == Typed => TypeOK
  BY DEF TypeOK, Typed, KernelType, MemoryType, FileType, HistoryType, Maps, Lists, Phases

LEMMA RecordMade ==
  ASSUME NEW n \in Names
  PROVE  /\ \A op \in {0, 1} : [op |-> op, name |-> n, addr |-> NoAddr] \in Record
         /\ \A op \in {6, 7}, a \in Addrs \cup {Failed} :
              [op |-> op, name |-> n, addr |-> a] \in Record
  BY DEF Record

LEMMA DueTypes ==
  ASSUME FileType, HistoryType, phase = "before", NEW op, NEW n, NEW a, Due(op, n, a),
         [op |-> op, name |-> n, addr |-> a] \in Record
  PROVE  FileType' /\ HistoryType'
  <1>1. inflight' \in Record /\ inflight' # NoRecord /\ phase' = "logging"
        /\ UNCHANGED <<log, next, leftover, tailLost, chunkLost>>
    BY RecordAssumption DEF Due, crashes
  <1>2. FileType'
    BY <1>1 DEF FileType, Phases, Before
  <1>3. HistoryType'
    BY <1>1 DEF HistoryType, Before
  <1> QED BY <1>2, <1>3

LEMMA SameTypes ==
  ASSUME FileType, HistoryType, UNCHANGED <<log, inflight, next, crashes>>,
         phase' = phase \/ phase' \in Ended \cup {"down"}
  PROVE  FileType' /\ HistoryType'
  BY DEF FileType, HistoryType, crashes, Phases, Before, Ended

LEMMA RemovedInList ==
  ASSUME NEW T, NEW s \in Seq(T), NEW i \in 1..Len(s)
  PROVE  ChunkRemoved(s, i) \in Seq(T)
  <1>1. SubSeq(s, 1, i - 1) \in Seq(T) /\ SubSeq(s, i + 1, Len(s)) \in Seq(T)
    BY SubSeqProperties
  <1> QED BY <1>1, ConcatProperties DEF ChunkRemoved

LEMMA IndexInList ==
  ASSUME NEW T, NEW s \in Seq(T), NEW a, IndexOf(s, a) # 0
  PROVE  IndexOf(s, a) \in 1..Len(s)
  <1> DEFINE I == {i \in 1..Len(s) : s[i] = a}
             m == CHOOSE x \in I : \A y \in I : x <= y
  <1>1. IndexOf(s, a) = IF I # {} THEN m ELSE 0
    BY DEF IndexOf, SelectInSeq, Min
  <1>2. I # {} /\ I \in SUBSET Nat
    BY <1>1
  <1>3. m \in I
    BY <1>2, LeastExists
  <1> HIDE DEF m
  <1> QED BY <1>1, <1>2, <1>3

LEMMA InitType == Init => Typed
  <1> SUFFICES ASSUME Init PROVE Typed
    OBVIOUS
  <1>1. KernelType /\ MemoryType
    BY MapsEmpty DEF Init, KernelType, MemoryType
  <1>2. FileType
    BY DEF Init, FileType, Phases, Before
  <1>3. HistoryType
    BY DEF Init, HistoryType
  <1> QED BY <1>1, <1>2, <1>3 DEF Typed

LEMMA CreatType ==
  ASSUME Typed, IInv, Creat
  PROVE  Typed'
  <1>1. KernelType /\ MemoryType /\ FileType /\ HistoryType
    BY DEF Typed
  <1>2. PICK name \in Names \ DOMAIN existing, pod \in FreePods :
          /\ po_creat(name, pod)
          /\ existing' = With(existing, name, <<>>)
          /\ opened' = With(opened, name, pod)
          /\ Due(0, name, NoAddr)
    BY DEF Creat, NewNames
  <1>3. pod \in Pods
    BY DEF FreePods
  <1>4. KernelType'
    <2>1. <<>> \in Seq(Addrs)
      OBVIOUS
    <2> QED BY <1>1, <1>2, <1>3, <2>1, MapsWith DEF KernelType, po_creat
  <1>5. MemoryType'
    <2>1. <<>> \in Lists
      BY DEF Lists
    <2> QED BY <1>1, <1>2, <1>3, <2>1, MapsWith DEF MemoryType
  <1>6. FileType' /\ HistoryType'
    BY <1>1, <1>2, RecordMade, DueTypes DEF Creat, Ready
  <1> QED BY <1>4, <1>5, <1>6 DEF Typed

LEMMA UnlinkType ==
  ASSUME Typed, IInv, Unlink
  PROVE  Typed'
  <1> DEFINE name == First(existing)
  <1>1. KernelType /\ MemoryType /\ FileType /\ HistoryType
    BY DEF Typed
  <1>2. name \in Names
    BY <1>1, FirstIsThere DEF Unlink, MemoryType, Maps
  <1>3. /\ descriptors' = OthersOpen(name) /\ opened' = Without(opened, name)
        /\ existing' = Without(existing, name) /\ objects' = Without(objects, name)
        /\ Due(1, name, NoAddr)
    BY DEF Unlink, po_unlink
  <1> HIDE DEF name
  <1>4. KernelType'
    BY <1>1, <1>3, MapsWithout DEF KernelType, OthersOpen
  <1>5. MemoryType'
    BY <1>1, <1>3, MapsWithout DEF MemoryType
  <1>6. FileType' /\ HistoryType'
    BY <1>1, <1>2, <1>3, RecordMade, DueTypes DEF Unlink, Ready
  <1> QED BY <1>4, <1>5, <1>6 DEF Typed

LEMMA OpenType ==
  ASSUME Typed, IInv, Open
  PROVE  Typed'
  <1> DEFINE name == First(existing)
  <1>1. KernelType /\ MemoryType /\ FileType /\ HistoryType
    BY DEF Typed
  <1>2. name \in Names
    BY <1>1, FirstIsThere DEF Open, MemoryType, Maps
  <1>3. PICK pod \in Pods :
          /\ objects' = Opened(name)
          /\ descriptors' = With(OthersOpen(name), pod, name)
          /\ opened' = With(opened, name, pod)
    BY DEF Open
  <1>4. existing' = existing /\ phase' = phase /\ UNCHANGED <<log, inflight, next, crashes>>
    BY DEF Open
  <1> HIDE DEF name
  <1>5. Maps(OthersOpen(name), Pods, Names)
    BY <1>1, MapsWithout DEF KernelType, OthersOpen
  <1>6. Maps(objects', Names, Seq(Addrs))
    <2>1. <<>> \in Seq(Addrs)
      OBVIOUS
    <2> QED BY <1>1, <1>2, <1>3, <2>1, MapsWith DEF KernelType, Opened
  <1>7. KernelType'
    BY <1>2, <1>3, <1>5, <1>6, MapsWith DEF KernelType
  <1>8. MemoryType'
    BY <1>1, <1>2, <1>3, <1>4, MapsWith DEF MemoryType
  <1>9. FileType' /\ HistoryType'
    BY <1>1, <1>4, SameTypes
  <1> QED BY <1>7, <1>8, <1>9 DEF Typed

LEMMA CloseType ==
  ASSUME Typed, IInv, Close
  PROVE  Typed'
  <1>1. KernelType /\ MemoryType /\ FileType /\ HistoryType
    BY DEF Typed
  <1>2. /\ descriptors' = Without(descriptors, opened[First(opened)])
        /\ opened' = Without(opened, First(opened))
        /\ objects' = objects /\ existing' = existing /\ phase' = phase
        /\ UNCHANGED <<log, inflight, next, crashes>>
    BY DEF Close, po_close
  <1>3. KernelType'
    BY <1>1, <1>2, MapsWithout DEF KernelType
  <1>4. MemoryType'
    BY <1>1, <1>2, MapsWithout DEF MemoryType
  <1>5. FileType' /\ HistoryType'
    BY <1>1, <1>2, SameTypes
  <1> QED BY <1>3, <1>4, <1>5 DEF Typed

LEMMA ExtendType ==
  ASSUME Typed, IInv, Extend
  PROVE  Typed'
  <1> DEFINE name == First(opened)
  <1>1. KernelType /\ MemoryType /\ FileType /\ HistoryType
    BY DEF Typed
  <1>2. ObjectsInv /\ OpenedInv /\ DOMAIN opened # {} /\ Believed = existing
    BY DEF Extend, Ready, IInv, Before, Believed
  <1>3. name \in Names /\ name \in DOMAIN objects /\ descriptors[opened[name]] = name
    BY <1>2, FirstIsThere DEF ObjectsInv, OpenedInv
  <1>4. PICK addr \in Addrs \cup {Failed} :
          /\ Due(6, name, addr)
          /\ \/ UNCHANGED objects
             \/ addr \in Addrs /\ po_extend(opened[name], addr)
    BY DEF Extend, FreeAddrs
  <1>5. UNCHANGED <<descriptors, memory>>
    BY DEF Extend
  <1> HIDE DEF name
  <1>6. Maps(objects', Names, Seq(Addrs))
    <2>1. CASE UNCHANGED objects
      BY <1>1, <2>1 DEF KernelType
    <2>2. CASE addr \in Addrs /\ po_extend(opened[name], addr)
      <3>1. objects' = With(objects, name, Append(objects[name], addr))
        BY <1>3, <2>2 DEF po_extend
      <3>2. Append(objects[name], addr) \in Seq(Addrs)
        BY <1>1, <1>3, <2>2 DEF KernelType, Maps
      <3> QED BY <1>1, <1>3, <3>1, <3>2, MapsWith DEF KernelType
    <2> QED BY <1>4, <2>1, <2>2
  <1>7. KernelType' /\ MemoryType'
    BY <1>1, <1>5, <1>6 DEF KernelType, MemoryType, memory
  <1>8. FileType' /\ HistoryType'
    BY <1>1, <1>3, <1>4, RecordMade, DueTypes DEF Extend, Ready
  <1> QED BY <1>7, <1>8 DEF Typed

LEMMA ShrinkType ==
  ASSUME Typed, IInv, Shrink
  PROVE  Typed'
  <1> DEFINE name == FirstExtended
  <1>1. KernelType /\ MemoryType /\ FileType /\ HistoryType
    BY DEF Typed
  <1>2. ObjectsInv /\ OpenedInv /\ Extended # {} /\ Believed = existing
    BY DEF Shrink, Ready, IInv, Before, Believed
  <1>3. name \in Extended
    BY <1>2, FirstExtendedIsThere DEF ObjectsInv, OpenedInv
  <1>4. name \in Names /\ name \in DOMAIN objects /\ descriptors[opened[name]] = name
        /\ name \in DOMAIN existing /\ existing[name] # <<>>
    BY <1>2, <1>3 DEF ObjectsInv, OpenedInv, Extended
  <1>5. /\ po_shrink(opened[name], Head(existing[name]))
        /\ Due(7, name, Head(existing[name]))
        /\ UNCHANGED <<descriptors, memory>>
    BY DEF Shrink
  <1> HIDE DEF name
  <1>6. PICK i \in 1..Len(objects[name]) :
          objects' = With(objects, name, ChunkRemoved(objects[name], i))
    BY <1>4, <1>5 DEF po_shrink
  <1>7. Maps(objects', Names, Seq(Addrs))
    <2>1. ChunkRemoved(objects[name], i) \in Seq(Addrs)
      BY <1>1, <1>4, RemovedInList DEF KernelType, Maps
    <2> QED BY <1>1, <1>4, <1>6, <2>1, MapsWith DEF KernelType
  <1>8. KernelType' /\ MemoryType'
    BY <1>1, <1>5, <1>7 DEF KernelType, MemoryType, memory
  <1>9. Head(existing[name]) \in Addrs \cup {Failed}
    <2>1. existing[name] \in Seq(Addrs \cup {Failed})
      BY <1>1, <1>4 DEF MemoryType, Maps, Lists
    <2> QED BY <1>4, <2>1
  <1>10. FileType' /\ HistoryType'
    BY <1>1, <1>4, <1>5, <1>9, RecordMade, DueTypes DEF Shrink, Ready
  <1> QED BY <1>8, <1>10 DEF Typed

LEMMA WriteRecordType ==
  ASSUME Typed, IInv, WriteRecord
  PROVE  Typed'
  <1>1. KernelType /\ MemoryType /\ FileType /\ HistoryType
    BY DEF Typed
  <1>2. /\ phase = "logging" /\ phase' = "before" /\ existing' = Remembered(inflight)
        /\ log' = Append(log, inflight) /\ inflight' = NoRecord
        /\ UNCHANGED <<kernel, opened, next, crashes>>
    BY DEF WriteRecord
  <1>3. ObjectsInv /\ Believed = existing'
    BY <1>2 DEF IInv, Before, Believed
  <1>4. MemoryType'
    BY <1>1, <1>2, <1>3 DEF MemoryType, Maps, ObjectsInv, Agree
  <1>5. KernelType'
    BY <1>1, <1>2 DEF KernelType, kernel
  <1>6. inflight \in Record
    BY <1>1, <1>2 DEF FileType, Before
  <1>7. HistoryType'
    BY <1>1, <1>2 DEF HistoryType, crashes, Before
  <1>8. FileType'
    <2>1. log' \in Seq(Record)
      BY <1>1, <1>2, <1>6 DEF FileType
    <2> QED BY <1>1, <1>2, <2>1 DEF FileType, Phases, Before
  <1> QED BY <1>4, <1>5, <1>7, <1>8 DEF Typed

LEMMA DownType ==
  ASSUME Typed, Abort
  PROVE  Typed'
  <1>1. KernelType /\ MemoryType /\ FileType /\ HistoryType
    BY DEF Typed
  <1>2. /\ descriptors' = Empty /\ existing' = Empty /\ opened' = Empty
        /\ phase' = "down" /\ objects' = objects
        /\ UNCHANGED <<log, inflight, next, crashes>>
    BY DEF Abort
  <1>3. KernelType' /\ MemoryType'
    BY <1>1, <1>2, MapsEmpty DEF KernelType, MemoryType
  <1>4. FileType' /\ HistoryType'
    BY <1>1, <1>2, SameTypes
  <1> QED BY <1>3, <1>4 DEF Typed

LEMMA SurvivorsType ==
  ASSUME Maps(objects, Names, Seq(Addrs)), NEW o \in Survivors
  PROVE  Maps(o, Names, Seq(Addrs)) /\ DOMAIN o = DOMAIN objects
  <1>1. CASE o = objects
    BY <1>1
  <1>2. CASE \E n \in DOMAIN objects :
               objects[n] # <<>> /\ o = With(objects, n, Front(objects[n]))
    <2>1. PICK n \in DOMAIN objects :
            objects[n] # <<>> /\ o = With(objects, n, Front(objects[n]))
      BY <1>2
    <2>2. Front(objects[n]) \in Seq(Addrs)
      <3>1. objects[n] \in Seq(Addrs) /\ Len(objects[n]) \in Nat
        BY DEF Maps
      <3>2. \A i \in 1..(Len(objects[n]) - 1) : objects[n][i] \in Addrs
        BY <3>1, ElementOfSeq
      <3> QED BY <3>1, <3>2, SubSeqProperties DEF Front
    <2>3. n \in Names
      BY DEF Maps
    <2>4. DOMAIN o = DOMAIN objects
      BY <2>1 DEF With
    <2> QED BY <2>1, <2>2, <2>3, <2>4, MapsWith
  <1> QED BY <1>1, <1>2 DEF Survivors

LEMMA CrashType ==
  ASSUME Typed, Crash
  PROVE  Typed'
  <1>1. KernelType /\ MemoryType /\ FileType /\ HistoryType
    BY DEF Typed
  <1>2. /\ descriptors' = Empty /\ existing' = Empty /\ opened' = Empty
        /\ phase' = "down" /\ UNCHANGED <<inflight, next, leftover>>
    BY DEF Crash
  <1>3. PICK n \in 0..Len(log) : log' = SubSeq(log, 1, n) /\ tailLost' = (n < Len(log))
    BY DEF Crash
  <1>4. PICK o \in Survivors : objects' = o /\ chunkLost' = (o # objects)
    BY DEF Crash
  <1>5. KernelType' /\ MemoryType'
    BY <1>1, <1>2, <1>4, MapsEmpty, SurvivorsType DEF KernelType, MemoryType
  <1>6. log' \in Seq(Record)
    <2>1. \A i \in 1..n : log[i] \in Record
      BY <1>1, ElementOfSeq DEF FileType
    <2> QED BY <1>3, <2>1, SubSeqProperties
  <1>7. FileType' /\ HistoryType'
    BY <1>1, <1>2, <1>3, <1>4, <1>6 DEF FileType, HistoryType, Phases, Before
  <1> QED BY <1>5, <1>7 DEF Typed

LEMMA RunBeforeType ==
  ASSUME Typed, RunBefore
  PROVE  Typed'
  <1>1. KernelType /\ MemoryType /\ FileType /\ HistoryType
    BY DEF Typed
  <1>2. KernelType' /\ MemoryType'
    BY <1>1, MapsEmpty DEF RunBefore, KernelType, MemoryType
  <1>3. FileType' /\ HistoryType'
    <2>1. /\ log' = <<>> /\ inflight' = NoRecord /\ phase' = "before" /\ next' = next
          /\ leftover' = DOMAIN objects /\ tailLost' = FALSE /\ chunkLost' = FALSE
      BY DEF RunBefore
    <2>2. FileType'
      <3>1. <<>> \in Seq(Record)
        OBVIOUS
      <3> QED BY <1>1, <2>1, <3>1 DEF FileType, Phases, Before
    <2>3. HistoryType'
      BY <1>1, <2>1 DEF HistoryType, KernelType, Maps
    <2> QED BY <2>2, <2>3
  <1> QED BY <1>2, <1>3 DEF Typed

LEMMA RunAfterType ==
  ASSUME Typed, RunAfter
  PROVE  Typed'
  <1>1. KernelType /\ MemoryType /\ FileType /\ HistoryType
    BY DEF Typed
  <1>2. KernelType' /\ MemoryType'
    BY <1>1 DEF RunAfter, KernelType, MemoryType, kernel, memory
  <1>3. FileType' /\ HistoryType'
    <2>1. phase' \in {"replay", "spin"} /\ next' = 1 /\ UNCHANGED <<log, inflight, crashes>>
      BY DEF RunAfter
    <2>2. Len(log) \in Nat
      BY <1>1 DEF FileType
    <2> QED BY <1>1, <2>1, <2>2 DEF FileType, HistoryType, Phases, Before, crashes
  <1> QED BY <1>2, <1>3 DEF Typed

LEMMA ReplayedType ==
  ASSUME Maps(existing, Names, Lists), NEW r \in Record, ~NullVector(r)
  PROVE  Maps(Replayed(r), Names, Lists)
  <1>1. r.op \in {0, 1, 6, 7} /\ r.name \in Names
    BY RecordOps
  <1>2. CASE r.op = 0
    <2>1. Replayed(r) = With(existing, r.name, <<>>) /\ <<>> \in Lists
      BY <1>2 DEF Replayed, Lists
    <2> QED BY <1>1, <2>1, MapsWith
  <1>3. CASE r.op = 1
    <2>1. Replayed(r) = Without(existing, r.name)
      BY <1>3 DEF Replayed
    <2> QED BY <2>1, MapsWithout
  <1>4. CASE r.op = 6
    BY <1>4 DEF Replayed
  <1>5. CASE r.op = 7
    <2> DEFINE s == existing[r.name]
               i == IndexOf(s, r.addr)
    <2>1. s \in Seq(Addrs \cup {Failed})
      BY <1>5 DEF NullVector, Maps, Lists
    <2>2. CASE i # 0
      <3>1. Replayed(r) = With(existing, r.name, ChunkRemoved(s, i))
        BY <1>5, <2>2 DEF Replayed
      <3>2. ChunkRemoved(s, i) \in Lists
        BY <2>1, <2>2, IndexInList, RemovedInList DEF Lists
      <3> HIDE DEF s, i
      <3> QED BY <1>1, <3>1, <3>2, MapsWith
    <2>3. CASE i = 0
      BY <1>5, <2>3 DEF Replayed
    <2> QED BY <2>2, <2>3
  <1> QED BY <1>1, <1>2, <1>3, <1>4, <1>5

LEMMA RoundType ==
  ASSUME Typed, NEW r \in Record, NEW after \in {"replay", "spin", "check"},
         ReplayRound(r, after), next' \in Nat,
         after = "replay" => next' \in 1..(Len(log) + 1)
  PROVE  Typed'
  <1>1. KernelType /\ MemoryType /\ FileType /\ HistoryType
    BY DEF Typed
  <1>2. UNCHANGED <<kernel, opened, log, inflight, crashes>>
    BY DEF ReplayRound
  <1>3. Maps(existing', Names, Lists) /\ phase' \in {"segfault", after}
    <2>1. CASE NullVector(r)
      BY <1>1, <2>1 DEF ReplayRound, MemoryType
    <2>2. CASE ~NullVector(r)
      <3>1. existing' = Replayed(r) /\ phase' = after
        BY <2>2 DEF ReplayRound
      <3>2. Maps(Replayed(r), Names, Lists)
        BY <1>1, <2>2, ReplayedType DEF MemoryType
      <3> QED BY <3>1, <3>2
    <2> QED BY <2>1, <2>2
  <1>4. KernelType' /\ MemoryType'
    BY <1>1, <1>2, <1>3 DEF KernelType, MemoryType, kernel
  <1>5. phase' \in Phases /\ phase' \notin Before /\ (phase' = "replay" => after = "replay")
    BY <1>3 DEF Phases, Before, Ended
  <1>6. FileType' /\ HistoryType'
    BY <1>1, <1>2, <1>5 DEF FileType, HistoryType, crashes
  <1> QED BY <1>4, <1>6 DEF Typed

LEMMA StaleIsRecord ==
  ASSUME log \in Seq(Record), NEW r \in StaleRecords
  PROVE  r \in Record
  <1>1. CASE log = <<>>
    BY <1>1 DEF StaleRecords
  <1>2. CASE log # <<>>
    <2>1. r = log[Len(log)] /\ Len(log) \in 1..Len(log)
      BY <1>2 DEF StaleRecords, Last
    <2> QED BY <2>1, ElementOfSeq
  <1> QED BY <1>1, <1>2

LEMMA ReplayType ==
  ASSUME Typed, Replay
  PROVE  Typed'
  <1>1. KernelType /\ MemoryType /\ FileType /\ HistoryType
    BY DEF Typed
  <1>2. CASE ReplayRecord
    <2>1. next \in 1..Len(log) /\ log \in Seq(Record)
      BY <1>1, <1>2 DEF FileType, ReplayRecord
    <2>2. ReplayRound(log[next], "replay") /\ next' = next + 1
      BY <1>2 DEF ReplayRecord
    <2>3. log[next] \in Record /\ next' \in 1..(Len(log) + 1) /\ next' \in Nat
      BY <2>1, <2>2, ElementOfSeq
    <2> QED BY <2>2, <2>3, RoundType
  <1>3. CASE ReplayTrailing
    <2>1. PICK r \in StaleRecords : ReplayRound(r, "check")
      BY <1>3 DEF ReplayTrailing
    <2>2. next' \in Nat
      BY <1>1, <1>3 DEF ReplayTrailing, FileType
    <2>3. r \in Record
      BY <1>1, <2>1, StaleIsRecord DEF FileType
    <2> QED BY <2>1, <2>2, <2>3, RoundType
  <1>4. CASE CheckIsOk
    <2>1. /\ objects' = [n \in DOMAIN objects \cup Checked |-> Opened(n)[n]]
          /\ phase' \in {"passed", "failed"}
          /\ UNCHANGED <<descriptors, memory, log, inflight, next, crashes>>
      BY <1>4 DEF CheckIsOk
    <2>2. Checked \subseteq Names
      BY <1>1 DEF Checked, MemoryType, Maps
    <2>3. Maps(objects', Names, Seq(Addrs))
      <3>1. ASSUME NEW n \in DOMAIN objects'
            PROVE  n \in Names /\ objects'[n] \in Seq(Addrs)
        <4>1. CASE n \in DOMAIN objects
          BY <1>1, <2>1, <4>1 DEF Opened, KernelType, Maps
        <4>2. CASE n \notin DOMAIN objects
          <5>1. objects'[n] = With(objects, n, <<>>)[n] /\ n \in Names
            BY <2>1, <2>2, <4>2 DEF Opened
          <5>2. With(objects, n, <<>>)[n] = <<>> /\ <<>> \in Seq(Addrs)
            BY DEF With
          <5> QED BY <5>1, <5>2
        <4> QED BY <4>1, <4>2
      <3> QED BY <3>1 DEF Maps
    <2>4. KernelType' /\ MemoryType'
      BY <1>1, <2>1, <2>3 DEF KernelType, MemoryType, memory
    <2>5. FileType' /\ HistoryType'
      BY <1>1, <2>1, SameTypes DEF Ended
    <2> QED BY <2>4, <2>5 DEF Typed
  <1>5. CASE Spin
    <2>1. PICK r \in Record : ReplayRound(r, "spin")
      BY <1>5 DEF Spin
    <2>2. next' \in Nat
      BY <1>1, <1>5 DEF Spin, FileType
    <2> QED BY <2>1, <2>2, RoundType
  <1> QED BY <1>2, <1>3, <1>4, <1>5 DEF Replay

LEMMA NextTyped == Typed /\ IInv /\ [Next]_vars => Typed'
  <1> SUFFICES ASSUME Typed, IInv, [Next]_vars PROVE Typed'
    OBVIOUS
  <1>1. CASE UNCHANGED vars
    <2>1. UNCHANGED <<objects, descriptors, existing, opened, log, inflight, phase, next,
                      leftover, tailLost, chunkLost>>
      BY <1>1 DEF vars, kernel, memory, crashes
    <2>2. KernelType' /\ MemoryType'
      BY <2>1 DEF Typed, KernelType, MemoryType
    <2>3. FileType' /\ HistoryType'
      BY <2>1 DEF Typed, FileType, HistoryType
    <2> QED BY <2>2, <2>3 DEF Typed
  <1> QED BY <1>1, CreatType, UnlinkType, OpenType, CloseType, ExtendType, ShrinkType,
             WriteRecordType, DownType, CrashType, RunBeforeType, RunAfterType,
             ReplayType DEF Next

LEMMA AlwaysTyped == Spec => []Typed
  BY InitType, NextTyped, AlwaysIInv, PTL DEF Spec

\* Every variable keeps its type, whatever the calls, crashes and restarts: the
\* replay too never takes a name or an address from outside the test.
THEOREM TypeCorrect == Spec => []TypeOK
  BY AlwaysTyped, TypedImplies, PTL

-----------------------------------------------------------------------------
(* What earlier runs left *)

Untouched == \A n \in leftover : n \in DOMAIN objects' /\ objects'[n] = objects[n]

\* A call changes the list of one object, which is not one of them.
LEMMA UntouchedWith ==
  ASSUME ObjectsInv, NEW m, m \notin leftover, NEW v,
         objects' = With(objects, m, v) \/ objects' = Without(objects, m)
  PROVE  Untouched
  BY DEF ObjectsInv, Untouched, With, Without

LEMMA UntouchedSame ==
  ASSUME ObjectsInv, objects' = objects
  PROVE  Untouched
  BY DEF ObjectsInv, Untouched

LEMMA NextUntouched ==
  ASSUME IInv, [Next]_vars, phase \in Before, phase' \in Before
  PROVE  Untouched
  <1>1. ObjectsInv /\ OpenedInv
    BY DEF IInv
  <1>2. phase = "before" => Believed = existing
    BY DEF Believed, Before
  <1>3. CASE Creat
    <2>1. PICK name \in Names, pod \in Pods : po_creat(name, pod)
      BY <1>3 DEF Creat, NewNames, FreePods
    <2>2. name \notin leftover /\ objects' = With(objects, name, <<>>)
      BY <1>1, <2>1 DEF po_creat, ObjectsInv
    <2> QED BY <1>1, <2>2, UntouchedWith
  <1>4. CASE Unlink
    <2>1. First(existing) \in DOMAIN existing
      BY <1>1, <1>4, FirstIsThere DEF Unlink, ObjectsInv
    <2>2. First(existing) \notin leftover
      BY <1>1, <2>1 DEF ObjectsInv
    <2>3. objects' = Without(objects, First(existing))
      BY <1>4 DEF Unlink, po_unlink
    <2> QED BY <1>1, <2>2, <2>3, UntouchedWith
  <1>5. CASE Open
    <2>1. First(existing) \in DOMAIN existing
      BY <1>1, <1>5, FirstIsThere DEF Open, ObjectsInv
    <2>2. First(existing) \in DOMAIN objects
      BY <1>1, <2>1 DEF ObjectsInv
    <2>3. objects' = objects
      BY <1>5, <2>2 DEF Open, Opened
    <2> QED BY <1>1, <2>3, UntouchedSame
  <1>6. CASE Close
    BY <1>1, <1>6, UntouchedSame DEF Close
  <1>7. CASE Extend
    <2> DEFINE name == First(opened)
    <2>1. name \in DOMAIN opened
      BY <1>1, <1>7, FirstIsThere DEF Extend, ObjectsInv, OpenedInv
    <2>2. name \notin leftover /\ descriptors[opened[name]] = name
      BY <1>1, <2>1 DEF ObjectsInv, OpenedInv
    <2>3. objects' = objects \/ \E addr : po_extend(opened[name], addr)
      BY <1>7 DEF Extend
    <2> HIDE DEF name
    <2>4. objects' = objects \/ \E addr : objects' = With(objects, name, Append(objects[name], addr))
      BY <2>2, <2>3 DEF po_extend
    <2> QED BY <1>1, <2>2, <2>4, UntouchedWith, UntouchedSame
  <1>8. CASE Shrink
    <2> DEFINE name == FirstExtended
    <2>1. name \in Extended
      BY <1>1, <1>8, FirstExtendedIsThere DEF Shrink, ObjectsInv, OpenedInv
    <2>2. name \notin leftover /\ descriptors[opened[name]] = name
      BY <1>1, <2>1 DEF ObjectsInv, OpenedInv, Extended
    <2>3. po_shrink(opened[name], Head(existing[name]))
      BY <1>8 DEF Shrink
    <2> HIDE DEF name
    <2>4. PICK i \in 1..Len(objects[name]) :
            objects' = With(objects, name, ChunkRemoved(objects[name], i))
      BY <2>2, <2>3 DEF po_shrink
    <2> QED BY <1>1, <2>2, <2>4, UntouchedWith
  <1>9. CASE WriteRecord
    BY <1>1, <1>9, UntouchedSame DEF WriteRecord, kernel
  <1>10. CASE Abort \/ Crash \/ RunAfter \/ RunBefore
    BY <1>10 DEF Abort, Crash, RunAfter, RunBefore, Before, Ended
  <1>11. CASE Replay
    BY <1>11 DEF Replay, ReplayRecord, ReplayTrailing, Spin, CheckIsOk, Before
  <1>12. CASE UNCHANGED vars
    BY <1>1, <1>12, UntouchedSame DEF vars, kernel
  <1> QED BY <1>3, <1>4, <1>5, <1>6, <1>7, <1>8, <1>9, <1>10, <1>11, <1>12 DEF Next

\* run_before_crash never changes an object that was there before it began: it
\* draws names until one is free, and unlinks, extends and shrinks only its own.
THEOREM EarlierObjectsAreSafe == Spec => LeftoversUntouched
  <1>1. IInv /\ [Next]_vars =>
          [(phase \in Before /\ phase' \in Before) =>
             (\A n \in leftover : n \in DOMAIN objects' /\ objects'[n] = objects[n])]_vars
    BY NextUntouched DEF Untouched
  <1> QED BY <1>1, AlwaysIInv, PTL DEF Spec, LeftoversUntouched

-----------------------------------------------------------------------------
(* The file and the objects.  The records are sound: each could be made, by  *)
(* what the ones before it say.  They say what the objects of the run are,   *)
(* with the record that is due, and after the crash at least their names.    *)

Written == IF inflight = NoRecord THEN log ELSE Append(log, inflight)

Pending == phase \in Before \cup {"down", "replay", "check"} /\ ~tailLost

Accounted ==
  /\ Sound(log)
  /\ (phase \in Before \/ (phase = "down" /\ ~tailLost /\ ~chunkLost)) =>
       Ours = Meaning(Written)
  /\ Pending =>
       /\ inflight # NoRecord => Sensible(Meaning(log), inflight)
       /\ DOMAIN Ours = DOMAIN Meaning(Written)

\* A call whose record says what it does
LEMMA DueAccounted ==
  ASSUME Typed, Accounted, phase = "before", NEW r \in Record,
         Due(r.op, r.name, r.addr), r = [op |-> r.op, name |-> r.name, addr |-> r.addr],
         Sensible(Ours, r), Ours' = Effect(Ours, r)
  PROVE  Accounted'
  <1>1. inflight = NoRecord /\ log \in Seq(Record)
    BY DEF Typed, FileType, Before
  <1>2. Ours = Meaning(log)
    BY <1>1 DEF Accounted, Before, Written
  <1>3. inflight' = r /\ log' = log /\ phase' = "logging" /\ r # NoRecord
    BY RecordAssumption DEF Due
  <1>4. Written' = Append(log, r)
    BY <1>3 DEF Written
  <1>5. Ours' = Meaning(Append(log, r))
    BY <1>1, <1>2, MeaningAppend
  <1>6. Sound(log) /\ Sensible(Meaning(log), r)
    BY <1>2 DEF Accounted
  <1> QED BY <1>3, <1>4, <1>5, <1>6 DEF Accounted

LEMMA OursWith ==
  ASSUME NEW m, m \notin leftover, leftover' = leftover, NEW v,
         objects' = With(objects, m, v)
  PROVE  Ours' = With(Ours, m, v)
  BY DEF Ours, With

LEMMA OursWithout ==
  ASSUME NEW m, leftover' = leftover, objects' = Without(objects, m)
  PROVE  Ours' = Without(Ours, m)
  BY DEF Ours, Without

\* A step that leaves file and objects alone
LEMMA SameAccounted ==
  ASSUME Accounted, objects' = objects, log' = log, inflight' = inflight,
         leftover' = leftover, tailLost' = tailLost, chunkLost' = chunkLost,
         \/ phase' = phase
         \/ phase \in Before /\ phase' = "down"
         \/ phase = "down" /\ phase' \in {"replay", "spin"}
         \/ phase = "replay" /\ phase' = "check"
         \/ phase' \in Ended
  PROVE  Accounted'
  <1>1. Ours' = Ours /\ Written' = Written
    BY DEF Ours, Written
  <1>2. Pending' => Pending
    BY DEF Pending, Before, Ended
  <1>3. (phase' \in Before \/ (phase' = "down" /\ ~tailLost' /\ ~chunkLost')) =>
          (phase \in Before \/ (phase = "down" /\ ~tailLost /\ ~chunkLost))
    BY DEF Before, Ended
  <1> QED BY <1>1, <1>2, <1>3 DEF Accounted

LEMMA CreatAccounted ==
  ASSUME Typed, IInv, Accounted, Creat
  PROVE  Accounted'
  <1>1. phase = "before"
    BY DEF Creat, Ready
  <1>2. ObjectsInv
    BY <1>1 DEF IInv, Before
  <1>3. PICK name \in Names, pod \in FreePods :
          po_creat(name, pod) /\ Due(0, name, NoAddr)
    BY DEF Creat, NewNames
  <1> DEFINE r == [op |-> 0, name |-> name, addr |-> NoAddr]
  <1>4. r \in Record
    BY RecordMade
  <1>5. name \notin DOMAIN objects /\ objects' = With(objects, name, <<>>)
        /\ leftover' = leftover
    BY <1>3 DEF po_creat, Due, crashes
  <1>6. Ours' = With(Ours, name, <<>>) /\ name \notin DOMAIN Ours
    <2>1. name \notin leftover
      BY <1>2, <1>5 DEF ObjectsInv
    <2> QED BY <1>5, <2>1, OursWith DEF Ours
  <1>7. Sensible(Ours, r) /\ Ours' = Effect(Ours, r)
    BY <1>6 DEF Sensible, Effect
  <1>8. r.op = 0 /\ r.name = name /\ r.addr = NoAddr
    OBVIOUS
  <1> HIDE DEF r
  <1> QED BY <1>1, <1>3, <1>4, <1>7, <1>8, DueAccounted DEF r

LEMMA UnlinkAccounted ==
  ASSUME Typed, IInv, Accounted, Unlink
  PROVE  Accounted'
  <1> DEFINE name == First(existing)
  <1>1. phase = "before" /\ DOMAIN existing # {}
    BY DEF Unlink, Ready
  <1>2. ObjectsInv
    BY <1>1 DEF IInv, Before
  <1>3. name \in DOMAIN existing
    BY <1>1, <1>2, FirstIsThere DEF ObjectsInv
  <1>4. objects' = Without(objects, name) /\ Due(1, name, NoAddr)
    BY DEF Unlink, po_unlink
  <1> HIDE DEF name
  <1> DEFINE r == [op |-> 1, name |-> name, addr |-> NoAddr]
  <1>5. r \in Record
    BY <1>2, <1>3, RecordMade DEF ObjectsInv
  <1>6. Ours' = Without(Ours, name) /\ name \in DOMAIN Ours
    <2>1. leftover' = leftover
      BY <1>4 DEF Due, crashes
    <2>2. name \in DOMAIN objects \ leftover
      BY <1>2, <1>3 DEF ObjectsInv
    <2> QED BY <1>4, <2>1, <2>2, OursWithout DEF Ours
  <1>7. Sensible(Ours, r) /\ Ours' = Effect(Ours, r)
    BY <1>6 DEF Sensible, Effect
  <1>8. r.op = 1 /\ r.name = name /\ r.addr = NoAddr
    OBVIOUS
  <1> HIDE DEF r
  <1> QED BY <1>1, <1>4, <1>5, <1>7, <1>8, DueAccounted DEF r

LEMMA OpenAccounted ==
  ASSUME Typed, IInv, Accounted, Open
  PROVE  Accounted'
  <1>1. phase = "before" /\ DOMAIN existing # {}
    BY DEF Open
  <1>2. ObjectsInv
    BY <1>1 DEF IInv, Before
  <1>3. First(existing) \in DOMAIN objects
    BY <1>1, <1>2, FirstIsThere DEF ObjectsInv
  <1>4. objects' = objects
    BY <1>3 DEF Open, Opened
  <1>5. UNCHANGED <<log, inflight, phase, leftover, tailLost, chunkLost>>
    BY DEF Open, crashes
  <1> QED BY <1>4, <1>5, SameAccounted

LEMMA ExtendAccounted ==
  ASSUME Typed, IInv, Accounted, Extend
  PROVE  Accounted'
  <1> DEFINE name == First(opened)
  <1>1. phase = "before" /\ DOMAIN opened # {}
    BY DEF Extend, Ready
  <1>2. ObjectsInv /\ OpenedInv
    BY <1>1 DEF IInv, Before
  <1>3. name \in DOMAIN opened
    BY <1>1, <1>2, FirstIsThere DEF ObjectsInv, OpenedInv
  <1>4. name \in Names /\ name \in DOMAIN objects \ leftover /\ descriptors[opened[name]] = name
    BY <1>2, <1>3 DEF ObjectsInv, OpenedInv
  <1>5. PICK addr \in Addrs \cup {Failed} :
          /\ Due(6, name, addr)
          /\ \/ UNCHANGED objects /\ addr = Failed
             \/ addr \in Addrs /\ po_extend(opened[name], addr)
    BY DEF Extend, FreeAddrs
  <1> HIDE DEF name
  <1> DEFINE r == [op |-> 6, name |-> name, addr |-> addr]
  <1>6. r \in Record
    BY <1>4, RecordMade
  <1>7. r.op = 6 /\ r.name = name /\ r.addr = addr
    OBVIOUS
  <1>8. leftover' = leftover
    BY <1>5 DEF Due, crashes
  <1> HIDE DEF r
  <1>9. Sensible(Ours, r)
    BY <1>4, <1>7 DEF Sensible, Ours
  <1>10. Ours' = Effect(Ours, r)
    <2>1. CASE UNCHANGED objects /\ addr = Failed
      <3>1. Ours' = Ours
        BY <1>8, <2>1 DEF Ours
      <3>2. Effect(Ours, r) = Ours
        BY <1>7, <2>1 DEF Effect
      <3> QED BY <3>1, <3>2
    <2>2. CASE addr \in Addrs /\ po_extend(opened[name], addr)
      <3>1. objects' = With(objects, name, Append(objects[name], addr))
        BY <1>4, <2>2 DEF po_extend
      <3>2. Ours' = With(Ours, name, Append(objects[name], addr))
        BY <1>4, <1>8, <3>1, OursWith
      <3>3. objects[name] = Ours[name]
        BY <1>4 DEF Ours
      <3>4. addr # Failed
        BY <2>2, OpLogAssumption
      <3>5. Effect(Ours, r) = With(Ours, name, Append(Ours[name], addr))
        BY <1>7, <3>4 DEF Effect
      <3> QED BY <3>2, <3>3, <3>5
    <2> QED BY <1>5, <2>1, <2>2
  <1> QED BY <1>1, <1>5, <1>6, <1>7, <1>9, <1>10, DueAccounted DEF r

LEMMA ShrinkAccounted ==
  ASSUME Typed, IInv, Accounted, Shrink
  PROVE  Accounted'
  <1> DEFINE name == FirstExtended
             addr == Head(existing[name])
  <1>1. phase = "before" /\ Extended # {}
    BY DEF Shrink, Ready
  <1>2. ObjectsInv /\ OpenedInv /\ Believed = existing
    BY <1>1 DEF IInv, Before, Believed
  <1>3. name \in Extended
    BY <1>1, <1>2, FirstExtendedIsThere DEF ObjectsInv, OpenedInv
  <1>4. /\ name \in Names /\ name \in DOMAIN objects \ leftover
        /\ descriptors[opened[name]] = name
        /\ name \in DOMAIN existing /\ existing[name] # <<>>
    BY <1>2, <1>3 DEF ObjectsInv, OpenedInv, Extended
  <1>5. po_shrink(opened[name], addr) /\ Due(7, name, addr)
    BY DEF Shrink
  <1> HIDE DEF name
  <1>6. PICK i \in 1..Len(objects[name]) :
          /\ objects[name][i] = addr
          /\ objects' = With(objects, name, ChunkRemoved(objects[name], i))
    BY <1>4, <1>5 DEF po_shrink
  <1>7. Agree(existing[name], objects[name])
    BY <1>2, <1>4 DEF ObjectsInv
  <1>8. ChunkRemoved(objects[name], i) = Tail(objects[name])
    BY <1>4, <1>6, <1>7, FirstOfBoth
  <1>9. addr \in Addrs
    BY <1>6, <1>7, ElementOfSeq DEF Agree
  <1> HIDE DEF addr
  <1> DEFINE r == [op |-> 7, name |-> name, addr |-> addr]
  <1>10. r \in Record
    BY <1>4, <1>9, RecordMade
  <1>11. r.op = 7 /\ r.name = name /\ r.addr = addr
    OBVIOUS
  <1>12. leftover' = leftover
    BY <1>5 DEF Due, crashes
  <1> HIDE DEF r
  <1>13. Sensible(Ours, r)
    BY <1>4, <1>11 DEF Sensible, Ours
  <1>14. Ours' = Effect(Ours, r)
    <2>1. Ours' = With(Ours, name, Tail(objects[name]))
      BY <1>4, <1>6, <1>8, <1>12, OursWith
    <2>2. objects[name] = Ours[name]
      BY <1>4 DEF Ours
    <2>3. Effect(Ours, r) = With(Ours, name, Tail(Ours[name]))
      BY <1>11 DEF Effect
    <2> QED BY <2>1, <2>2, <2>3
  <1> QED BY <1>1, <1>5, <1>10, <1>11, <1>13, <1>14, DueAccounted DEF r

LEMMA WriteRecordAccounted ==
  ASSUME Typed, Accounted, WriteRecord
  PROVE  Accounted'
  <1>1. /\ phase = "logging" /\ phase' = "before"
        /\ log' = Append(log, inflight) /\ inflight' = NoRecord
        /\ UNCHANGED <<objects, leftover, tailLost, chunkLost>>
    BY DEF WriteRecord, kernel, crashes
  <1>2. log \in Seq(Record) /\ inflight \in Record /\ inflight # NoRecord /\ ~tailLost
    BY <1>1 DEF Typed, FileType, HistoryType, Before
  <1>3. Sound(log) /\ Sensible(Meaning(log), inflight)
    BY <1>1, <1>2 DEF Accounted, Pending, Before
  <1>4. Sound(log')
    BY <1>1, <1>2, <1>3, SoundAppend
  <1>5. Written' = Written /\ Ours' = Ours
    BY <1>1, <1>2 DEF Written, Ours
  <1>6. Ours = Meaning(Written)
    BY <1>1 DEF Accounted, Before
  <1> QED BY <1>1, <1>4, <1>5, <1>6 DEF Accounted

LEMMA CrashAccounted ==
  ASSUME Typed, Accounted, Crash
  PROVE  Accounted'
  <1>1. phase \in Before /\ phase' = "down" /\ UNCHANGED <<inflight, leftover>>
    BY DEF Crash
  <1>2. log \in Seq(Record) /\ ~tailLost /\ Maps(objects, Names, Seq(Addrs))
    BY <1>1 DEF Typed, FileType, HistoryType, KernelType
  <1>3. PICK n \in 0..Len(log) : log' = SubSeq(log, 1, n) /\ tailLost' = (n < Len(log))
    BY DEF Crash
  <1>4. PICK o \in Survivors : objects' = o /\ chunkLost' = (o # objects)
    BY DEF Crash
  <1>5. Sound(log')
    BY <1>2, <1>3, SoundPrefix DEF Accounted
  <1>6. ~tailLost' => log' = log
    <2> SUFFICES ASSUME ~tailLost' PROVE log' = log
      OBVIOUS
    <2>1. ~(n < Len(log))
      BY <1>3, Zenon
    <2>2. n = Len(log)
      BY <1>2, <2>1
    <2> QED BY <1>2, <1>3, <2>2, WholePrefix
  <1>7. DOMAIN Ours' = DOMAIN Ours
    <2>1. DOMAIN objects' = DOMAIN objects
      BY <1>2, <1>4, SurvivorsType
    <2> QED BY <1>1, <2>1 DEF Ours
  <1>8. ~chunkLost' => Ours' = Ours
    BY <1>1, <1>4 DEF Ours
  <1>9. Ours = Meaning(Written) /\ (inflight # NoRecord => Sensible(Meaning(log), inflight))
    BY <1>1, <1>2 DEF Accounted, Pending
  <1>10. ~tailLost' => Written' = Written
    BY <1>1, <1>6 DEF Written
  <1>11. ~tailLost' /\ ~chunkLost' => Ours' = Meaning(Written')
    BY <1>8, <1>9, <1>10
  <1>12. ~tailLost' => /\ inflight' # NoRecord => Sensible(Meaning(log'), inflight')
                       /\ DOMAIN Ours' = DOMAIN Meaning(Written')
    BY <1>1, <1>6, <1>7, <1>9, <1>10
  <1>13. phase' \notin Before
    BY <1>1 DEF Before
  <1> QED BY <1>5, <1>11, <1>12, <1>13 DEF Accounted, Pending

LEMMA FreshAccounted ==
  ASSUME leftover = DOMAIN objects, log = <<>>, inflight = NoRecord
  PROVE  Accounted
  <1>1. Ours = Empty
    BY DEF Ours, Empty
  <1>2. Written = <<>>
    BY DEF Written
  <1>3. Sound(<<>>)
    BY DEF Sound
  <1> QED BY <1>1, <1>2, <1>3, MeaningEmpty DEF Accounted

LEMMA InitAccounted == Init => Accounted
  BY FreshAccounted DEF Init, Empty

LEMMA RunBeforeAccounted ==
  ASSUME RunBefore
  PROVE  Accounted'
  <1>1. /\ leftover' = DOMAIN objects' /\ log' = <<>> /\ inflight' = NoRecord
    BY DEF RunBefore
  <1>2. Ours' = Empty
    BY <1>1 DEF Ours, Empty
  <1>3. Written' = <<>>
    BY <1>1 DEF Written
  <1>4. Sound(<<>>)
    BY DEF Sound
  <1> QED BY <1>1, <1>2, <1>3, <1>4, MeaningEmpty DEF Accounted

LEMMA ReplayAccounted ==
  ASSUME Accounted, Replay
  PROVE  Accounted'
  <1>1. CASE ReplayRecord
    <2>1. phase = "replay" /\ phase' \in {"replay", "segfault"}
      BY <1>1 DEF ReplayRecord, ReplayRound
    <2>2. UNCHANGED <<objects, log, inflight, leftover, tailLost, chunkLost>>
      BY <1>1 DEF ReplayRecord, ReplayRound, kernel, crashes
    <2> QED BY <2>1, <2>2, SameAccounted DEF Ended
  <1>2. CASE ReplayTrailing
    <2>1. phase = "replay" /\ phase' \in {"check", "segfault"}
      BY <1>2 DEF ReplayTrailing, ReplayRound
    <2>2. UNCHANGED <<objects, log, inflight, leftover, tailLost, chunkLost>>
      BY <1>2 DEF ReplayTrailing, ReplayRound, kernel, crashes
    <2> QED BY <2>1, <2>2, SameAccounted DEF Ended
  <1>3. CASE CheckIsOk
    <2>1. phase' \in {"passed", "failed"} /\ log' = log
      BY <1>3 DEF CheckIsOk
    <2> QED BY <2>1 DEF Accounted, Pending, Before
  <1>4. CASE Spin
    <2>1. phase = "spin" /\ phase' \in {"spin", "segfault"}
      BY <1>4 DEF Spin, ReplayRound
    <2>2. UNCHANGED <<objects, log, inflight, leftover, tailLost, chunkLost>>
      BY <1>4 DEF Spin, ReplayRound, kernel, crashes
    <2> QED BY <2>1, <2>2, SameAccounted DEF Ended
  <1> QED BY <1>1, <1>2, <1>3, <1>4 DEF Replay

LEMMA NextAccounted == Typed /\ IInv /\ Accounted /\ [Next]_vars => Accounted'
  <1> SUFFICES ASSUME Typed, IInv, Accounted, [Next]_vars PROVE Accounted'
    OBVIOUS
  <1>1. CASE UNCHANGED vars
    BY <1>1, SameAccounted DEF vars, kernel, crashes
  <1>2. CASE Close
    BY <1>2, SameAccounted DEF Close, crashes
  <1>3. CASE Abort
    BY <1>3, SameAccounted DEF Abort, crashes, Before
  <1>4. CASE RunAfter
    BY <1>4, SameAccounted DEF RunAfter, kernel, crashes
  <1> QED BY <1>1, <1>2, <1>3, <1>4, CreatAccounted, UnlinkAccounted, OpenAccounted,
             ExtendAccounted, ShrinkAccounted, WriteRecordAccounted, CrashAccounted,
             RunBeforeAccounted, ReplayAccounted DEF Next

LEMMA AlwaysAccounted == Spec => []Accounted
  BY InitAccounted, NextAccounted, AlwaysTyped, AlwaysIInv, PTL DEF Spec

\* The file accounts for the objects of the run, in every list and address, up to
\* the one call that is made but not logged, and still does after a crash that
\* leaves file and kernel intact: for any length of the file and with extends
\* that failed.
THEOREM FileTellsAll == Spec => []LogExplainsObjects
  <1>1. Accounted => LogExplainsObjects
    BY DEF Accounted, LogExplainsObjects, Written
  <1> QED BY <1>1, AlwaysAccounted, PTL

-----------------------------------------------------------------------------
(* The replay: it holds the names the records so far lead to, each with an   *)
(* empty list, because the replay of an extend adds nothing.                 *)

AllEmpty == \A n \in DOMAIN existing : existing[n] = <<>>

Replaying ==
  /\ phase \in {"down", "replay", "check"} => AllEmpty
  /\ phase = "down" => existing = Empty
  /\ phase = "replay" => DOMAIN existing = DOMAIN Meaning(SubSeq(log, 1, next - 1))
  /\ (phase = "check" /\ log # <<>>) => DOMAIN existing = DOMAIN Meaning(log)
  /\ phase \in {"spin", "segfault"} => log = <<>>
  /\ phase # "failed"

LEMMA IndexOfNone ==
  ASSUME NEW a
  PROVE  IndexOf(<<>>, a) = 0
  BY DEF IndexOf, SelectInSeq

LEMMA RoundNames ==
  ASSUME AllEmpty, NEW r \in Record, ~NullVector(r)
  PROVE  /\ DOMAIN Replayed(r) = NamesAfter(DOMAIN existing, r)
         /\ \A n \in DOMAIN Replayed(r) : Replayed(r)[n] = <<>>
  <1>1. r.op \in {0, 1, 6, 7}
    BY RecordOps
  <1>2. CASE r.op = 0
    BY <1>2 DEF Replayed, NamesAfter, With, AllEmpty
  <1>3. CASE r.op = 1
    BY <1>3 DEF Replayed, NamesAfter, Without, AllEmpty
  <1>4. CASE r.op = 6
    BY <1>4 DEF Replayed, NamesAfter, AllEmpty
  <1>5. CASE r.op = 7
    <2>1. existing[r.name] = <<>>
      BY <1>5 DEF NullVector, AllEmpty
    <2>2. IndexOf(existing[r.name], r.addr) = 0
      BY <2>1, IndexOfNone
    <2> QED BY <1>5, <2>2 DEF Replayed, NamesAfter, AllEmpty
  <1> QED BY <1>1, <1>2, <1>3, <1>4, <1>5

\* One record after the other
LEMMA MeaningNext ==
  ASSUME log \in Seq(Record), Sound(log), NEW i \in 1..Len(log)
  PROVE  /\ log[i] \in Record
         /\ Sensible(Meaning(SubSeq(log, 1, i - 1)), log[i])
         /\ DOMAIN Meaning(SubSeq(log, 1, i)) =
              NamesAfter(DOMAIN Meaning(SubSeq(log, 1, i - 1)), log[i])
  <1>1. /\ SubSeq(log, 1, i) = Append(SubSeq(log, 1, i - 1), log[i])
        /\ SubSeq(log, 1, i - 1) \in Seq(Record) /\ log[i] \in Record
    BY PrefixAppend
  <1>2. Meaning(SubSeq(log, 1, i)) = Effect(Meaning(SubSeq(log, 1, i - 1)), log[i])
    BY <1>1, MeaningAppend
  <1>3. Sensible(Meaning(SubSeq(log, 1, i - 1)), log[i])
    BY DEF Sound
  <1> QED BY <1>1, <1>2, <1>3, EffectNames

LEMMA ReplayRecordReplaying ==
  ASSUME Typed, Accounted, Replaying, ReplayRecord
  PROVE  Replaying'
  <1> DEFINE r == log[next]
             o == Meaning(SubSeq(log, 1, next - 1))
             p == Meaning(SubSeq(log, 1, next))
  <1>1. phase = "replay" /\ next \in 1..Len(log) /\ log \in Seq(Record)
    BY DEF ReplayRecord, Typed, FileType
  <1>2. r \in Record /\ Sensible(o, r) /\ DOMAIN p = NamesAfter(DOMAIN o, r)
    BY <1>1, MeaningNext DEF Accounted
  <1>3. AllEmpty /\ DOMAIN existing = DOMAIN o
    BY <1>1 DEF Replaying
  <1>4. ReplayRound(r, "replay") /\ next' = next + 1 /\ log' = log
    BY DEF ReplayRecord, ReplayRound
  <1> HIDE DEF r, o
  <1>5. ~NullVector(r)
    BY <1>2, <1>3 DEF NullVector, Sensible
  <1>6. phase' = "replay" /\ existing' = Replayed(r)
    BY <1>4, <1>5 DEF ReplayRound
  <1>7. DOMAIN existing' = DOMAIN p /\ AllEmpty'
    BY <1>2, <1>3, <1>5, <1>6, RoundNames DEF AllEmpty
  <1>8. next' - 1 = next
    BY <1>1, <1>4
  <1> QED BY <1>4, <1>6, <1>7, <1>8 DEF Replaying

\* The extra round repeats the last record, which changes nothing.
LEMMA ReplayTrailingReplaying ==
  ASSUME Typed, Accounted, Replaying, ReplayTrailing
  PROVE  Replaying'
  <1>1. phase = "replay" /\ next = Len(log) + 1 /\ log \in Seq(Record)
    BY DEF ReplayTrailing, Typed, FileType
  <1>2. AllEmpty /\ DOMAIN existing = DOMAIN Meaning(log)
    <2>1. next - 1 = Len(log)
      BY <1>1
    <2> QED BY <1>1, <2>1, WholePrefix DEF Replaying
  <1>3. PICK r \in StaleRecords : ReplayRound(r, "check")
    BY DEF ReplayTrailing
  <1>4. r \in Record /\ log' = log
    BY <1>1, <1>3, StaleIsRecord DEF ReplayRound
  <1>5. CASE log = <<>>
    <2>1. CASE NullVector(r)
      BY <1>3, <1>4, <1>5, <2>1 DEF ReplayRound, Replaying
    <2>2. CASE ~NullVector(r)
      <3>1. phase' = "check" /\ existing' = Replayed(r)
        BY <1>3, <2>2 DEF ReplayRound
      <3>2. AllEmpty'
        BY <1>2, <1>4, <2>2, <3>1, RoundNames DEF AllEmpty
      <3> QED BY <1>4, <1>5, <3>1, <3>2 DEF Replaying
    <2> QED BY <2>1, <2>2
  <1>6. CASE log # <<>>
    <2> DEFINE o == Meaning(SubSeq(log, 1, Len(log) - 1))
    <2>1. r = log[Len(log)] /\ Len(log) \in 1..Len(log)
      BY <1>1, <1>3, <1>6 DEF StaleRecords, Last
    <2>2. SubSeq(log, 1, Len(log)) = log
      BY <1>1, WholePrefix
    <2>3. Sensible(o, r) /\ DOMAIN Meaning(log) = NamesAfter(DOMAIN o, r)
      BY <1>1, <2>1, <2>2, MeaningNext DEF Accounted
    <2> HIDE DEF o
    <2>4. r.op \in {0, 1, 6, 7}
      BY <1>4, RecordOps
    <2>5. ~NullVector(r)
      BY <1>2, <2>3 DEF NullVector, Sensible, NamesAfter
    <2>6. phase' = "check" /\ existing' = Replayed(r)
      BY <1>3, <2>5 DEF ReplayRound
    <2>7. NamesAfter(NamesAfter(DOMAIN o, r), r) = NamesAfter(DOMAIN o, r)
      BY <2>4 DEF NamesAfter
    <2>8. DOMAIN existing' = DOMAIN Meaning(log) /\ AllEmpty'
      BY <1>2, <1>4, <2>3, <2>5, <2>6, <2>7, RoundNames DEF AllEmpty
    <2> QED BY <1>4, <2>6, <2>8 DEF Replaying
  <1> QED BY <1>5, <1>6

LEMMA CheckReplaying ==
  ASSUME Replaying, CheckIsOk
  PROVE  Replaying'
  <1>1. Checked = {}
    BY DEF CheckIsOk, Replaying, AllEmpty, Checked
  <1>2. phase' = "passed"
    BY <1>1 DEF CheckIsOk
  <1> QED BY <1>2 DEF Replaying

\* Without a file a round can only go on or follow a null vector.
LEMMA SpinReplaying ==
  ASSUME Replaying, Spin
  PROVE  Replaying'
  <1>1. phase' \in {"spin", "segfault"} /\ log' = log /\ log = <<>>
    BY DEF Spin, ReplayRound, Replaying
  <1> QED BY <1>1 DEF Replaying

LEMMA NextReplaying == Typed /\ Accounted /\ Replaying /\ [Next]_vars => Replaying'
  <1> SUFFICES ASSUME Typed, Accounted, Replaying, [Next]_vars PROVE Replaying'
    OBVIOUS
  <1>1. CASE phase' \in Before
    BY <1>1 DEF Replaying, Before
  <1>2. CASE Abort \/ Crash
    <2>1. phase' = "down" /\ existing' = Empty
      BY <1>2 DEF Abort, Crash
    <2> QED BY <2>1 DEF Replaying, AllEmpty, Empty
  <1>3. CASE RunAfter
    <2>1. /\ phase = "down" /\ next' = 1 /\ existing' = existing /\ log' = log
          /\ phase' = "replay" \/ (log = <<>> /\ phase' = "spin")
      BY <1>3 DEF RunAfter, memory
    <2>2. existing = Empty
      BY <2>1 DEF Replaying
    <2>3. SubSeq(log', 1, next' - 1) = <<>>
      BY <2>1, SubSeqEmpty
    <2>4. DOMAIN existing' = DOMAIN Meaning(SubSeq(log', 1, next' - 1))
      BY <2>1, <2>2, <2>3, MeaningEmpty
    <2>5. AllEmpty'
      BY <2>1, <2>2 DEF AllEmpty, Empty
    <2> QED BY <2>1, <2>4, <2>5 DEF Replaying
  <1>4. CASE UNCHANGED vars
    <2>1. UNCHANGED <<existing, log, phase, next>>
      BY <1>4 DEF vars, memory
    <2> QED BY <2>1 DEF Replaying, AllEmpty
  <1>5. CASE Creat \/ Unlink \/ Extend \/ Shrink
    <2>1. phase' = "logging"
      BY <1>5 DEF Creat, Unlink, Extend, Shrink, Due
    <2> QED BY <1>1, <2>1 DEF Before
  <1>6. CASE Open \/ Close \/ WriteRecord \/ RunBefore
    <2>1. phase' = "before"
      BY <1>6 DEF Open, Close, WriteRecord, RunBefore
    <2> QED BY <1>1, <2>1 DEF Before
  <1> QED BY <1>2, <1>3, <1>4, <1>5, <1>6, ReplayRecordReplaying, ReplayTrailingReplaying,
             SpinReplaying, CheckReplaying DEF Next, Replay

LEMMA InitReplaying == Init => Replaying
  BY DEF Init, Replaying

LEMMA AlwaysReplaying == Spec => []Replaying
  BY InitReplaying, NextReplaying, AlwaysTyped, AlwaysAccounted, PTL DEF Spec

\* After a crash that leaves the file intact the replay ends with the names that
\* are there, but for the one whose creation or deletion was not logged.
THEOREM ReplayIsRight == Spec => []ReplayFindsObjects
  <1>1. Typed /\ Accounted /\ Replaying => ReplayFindsObjects
    <2> SUFFICES ASSUME Typed, Accounted, Replaying,
                        phase = "check", log # <<>>, ~tailLost
                 PROVE  IF inflight # NoRecord /\ inflight.op \in {0, 1}
                        THEN DOMAIN existing \ {inflight.name} = DOMAIN Ours \ {inflight.name}
                        ELSE DOMAIN existing = DOMAIN Ours
      BY DEF ReplayFindsObjects
    <2>1. DOMAIN existing = DOMAIN Meaning(log) /\ DOMAIN Ours = DOMAIN Meaning(Written)
      BY DEF Replaying, Accounted, Pending
    <2>2. CASE inflight = NoRecord
      BY <2>1, <2>2 DEF Written
    <2>3. CASE inflight # NoRecord
      <3>1. inflight \in Record /\ log \in Seq(Record) /\ Sensible(Meaning(log), inflight)
        BY <2>3 DEF Typed, FileType, Accounted, Pending
      <3>2. Meaning(Written) = Effect(Meaning(log), inflight)
        BY <2>3, <3>1, MeaningAppend DEF Written
      <3>3. DOMAIN Ours = NamesAfter(DOMAIN existing, inflight)
        BY <2>1, <3>1, <3>2, EffectNames
      <3>4. inflight.op \in {0, 1, 6, 7}
        BY <3>1, RecordOps
      <3> QED BY <2>3, <3>3, <3>4 DEF NamesAfter
    <2> QED BY <2>2, <2>3
  <1> QED BY <1>1, AlwaysTyped, AlwaysAccounted, AlwaysReplaying, PTL

\* The check never fails a kernel that lost nothing: in fact it never fails, as
\* all the lists the replay leaves are empty (run oplog_loss).
THEOREM CheckNeverFails == Spec => []NoFalseAlarm
  <1>1. Replaying => NoFalseAlarm
    BY DEF Replaying, NoFalseAlarm
  <1> QED BY <1>1, AlwaysReplaying, PTL

\* The replay of a file with a record in it follows no null vector, wherever the
\* crash cut the file and whatever the extra round repeats.
THEOREM NullVectorsAreRare == Spec => []NullVectorOnlyWhenEmpty
  <1>1. Replaying => NullVectorOnlyWhenEmpty
    BY DEF Replaying, NullVectorOnlyWhenEmpty
  <1> QED BY <1>1, AlwaysReplaying, PTL

=============================================================================
