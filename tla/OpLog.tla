-------------------------------- MODULE OpLog --------------------------------
(***************************************************************************)
(* The crash consistency test.                                             *)
(*                                                                         *)
(* run_before_crash.cc makes random system calls for ever, keeps in memory *)
(* what the kernel should hold, and appends a record to the file op_log    *)
(* after each call that changes an object.  The machine or the process     *)
(* goes down at some point.  run_after_crash.cc replays the file and       *)
(* compares what it should find with what the kernel holds.                *)
(*                                                                         *)
(* A system call and the record about it are two steps.  po_chunk_mmap,    *)
(* po_chunk_munmap, po_stat, po_fstat and po_chunk_next change nothing     *)
(* that is modelled here; what po_chunk_next asserts is MemoryIsKernel.    *)
(*                                                                         *)
(* Simplification: a record survives a crash whole or not at all.          *)
(***************************************************************************)
EXTENDS Eastlake, SequencesExt

CONSTANTS
  Failed,         \* what a failed po_extend returns: (unsigned long)-1
  NoAddr,         \* the address field of a record that has none
  NoRecord,       \* no record is due
  ExtendMayFail,  \* the kernel may refuse to extend an object
  KernelLoses,    \* the kernel may lose the last chunk of an object in a crash
  MaxLog          \* bound: records of one run of run_before_crash

\* Names are ordered like the keys of a std::map: some of them have a first one.
ASSUME NamesAssumption ==
  /\ Names \subseteq Nat
  /\ \A S \in SUBSET Names : S # {} => \E n \in S : \A m \in S : n <= m

ASSUME OpLogAssumption ==
  /\ Failed \notin Addrs /\ NoAddr \notin Addrs /\ Failed # NoAddr
  /\ ExtendMayFail \in BOOLEAN /\ KernelLoses \in BOOLEAN
  /\ MaxLog \in Nat

Record == [op : {0, 1}, name : Names, addr : {NoAddr}]
            \cup [op : {6, 7}, name : Names, addr : Addrs \cup {Failed}]

ASSUME RecordAssumption == NoRecord \notin Record

VARIABLES
  existing,   \* existing_pos of the program that runs
  opened,     \* opened_pos of run_before_crash
  log,        \* the file op_log
  inflight,   \* the record run_before_crash is about to write; kept in a crash
  phase,      \* which program runs, and where it is
  next,       \* run_after_crash: position in the file
  leftover,   \* history: objects that were there before run_before_crash began
  tailLost,   \* history: the last crash took records with it
  chunkLost   \* history: the last crash took a chunk with it

memory == <<existing, opened>>
crashes == <<leftover, tailLost, chunkLost>>
vars == <<kernel, memory, log, inflight, phase, next, crashes>>

Before == {"before", "logging"}
Ended == {"passed", "failed", "segfault"}

Init ==
  /\ objects = Empty /\ descriptors = Empty
  /\ existing = Empty /\ opened = Empty
  /\ log = <<>> /\ inflight = NoRecord
  /\ phase = "before" /\ next = 1
  /\ leftover = {} /\ tailLost = FALSE /\ chunkLost = FALSE

-----------------------------------------------------------------------------
(* run_before_crash: one call of the switch, then its record. *)

\* begin() of a non-empty map
First(f) == CHOOSE n \in DOMAIN f : \A m \in DOMAIN f : n <= m

Due(op, name, addr) ==
  /\ inflight' = [op |-> op, name |-> name, addr |-> addr]
  /\ phase' = "logging"
  /\ UNCHANGED <<log, next, crashes>>

Ready == phase = "before" /\ Len(log) < MaxLog

\* Mutation: whatever the kernel has under the new name is taken over.
CreatTakesOver ==
  /\ Ready
  /\ \E name \in Names \ DOMAIN existing, pod \in FreePods :
       /\ objects' = With(objects, name, <<>>)
       /\ descriptors' = With(descriptors, pod, name)
       /\ existing' = With(existing, name, <<>>)
       /\ opened' = With(opened, name, pod)
       /\ Due(0, name, NoAddr)

\* generate_po_name
NewNames == Names \ DOMAIN existing

\* Names are drawn until one is neither in memory nor taken in the kernel.
Creat ==
  /\ Ready
  /\ \E name \in NewNames, pod \in FreePods :
       /\ po_creat(name, pod)
       /\ existing' = With(existing, name, <<>>)
       /\ opened' = With(opened, name, pod)
       /\ Due(0, name, NoAddr)

\* The helpers that pick an object to unlink or to open close it if it is open.
OthersOpen(name) ==
  IF name \in DOMAIN opened THEN Without(descriptors, opened[name]) ELSE descriptors

\* The first object, closed when it is open, leaves memory, then the kernel.
Unlink ==
  /\ Ready /\ DOMAIN existing # {}
  /\ LET name == First(existing)
     IN  /\ descriptors' = OthersOpen(name)
         /\ opened' = Without(opened, name)
         /\ existing' = Without(existing, name)
         /\ po_unlink(name)
         /\ Due(1, name, NoAddr)

\* Mutation: an object that is open is opened again without closing it.
OpenTwice ==
  /\ phase = "before" /\ DOMAIN existing # {}
  /\ LET name == First(existing)
     IN  \E pod \in FreePods :
           /\ objects' = Opened(name)
           /\ descriptors' = With(descriptors, pod, name)
           /\ opened' = With(opened, name, pod)
  /\ UNCHANGED <<existing, log, inflight, phase, next, crashes>>

\* get_a_closed_po_from_existing_pos closes the first object if it is open.
Open ==
  /\ phase = "before" /\ DOMAIN existing # {}
  /\ LET name == First(existing)
     IN  \E pod \in Pods \ DOMAIN OthersOpen(name) :
           /\ objects' = Opened(name)
           /\ descriptors' = With(OthersOpen(name), pod, name)
           /\ opened' = With(opened, name, pod)
  /\ UNCHANGED <<existing, log, inflight, phase, next, crashes>>

Close ==
  /\ phase = "before" /\ DOMAIN opened # {}
  /\ po_close(opened[First(opened)])
  /\ opened' = Without(opened, First(opened))
  /\ UNCHANGED <<objects, existing, log, inflight, phase, next, crashes>>

\* Mutation: the record is made before there is an address.
ExtendNoAddr ==
  /\ Ready /\ DOMAIN opened # {}
  /\ LET name == First(opened)
     IN  \E addr \in FreeAddrs :
           po_extend(opened[name], addr) /\ Due(6, name, NoAddr)
  /\ UNCHANGED <<descriptors, memory>>

\* assert(addr >= 0) holds of every unsigned long: a failure goes on like a
\* success.
Extend ==
  /\ Ready /\ DOMAIN opened # {}
  /\ LET name == First(opened)
     IN  \/ \E addr \in FreeAddrs :
              po_extend(opened[name], addr) /\ Due(6, name, addr)
         \/ ExtendMayFail /\ UNCHANGED objects /\ Due(6, name, Failed)
  /\ UNCHANGED <<descriptors, memory>>

Extended == {n \in DOMAIN opened : existing[n] # <<>>}
FirstExtended == CHOOSE n \in Extended : \A m \in Extended : n <= m
HasFailure(n) == \E i \in 1..Len(existing[n]) : existing[n][i] = Failed

\* Mutation: the last chunk of the list is given back.
ShrinkLast ==
  /\ Ready /\ Extended # {}
  /\ LET name == FirstExtended
     IN  /\ po_shrink(opened[name], Last(existing[name]))
         /\ Due(7, name, Last(existing[name]))
  /\ UNCHANGED <<descriptors, memory>>

\* The first open object that has a chunk gives its first one back.
Shrink ==
  /\ Ready /\ Extended # {}
  /\ LET name == FirstExtended
     IN  /\ po_shrink(opened[name], Head(existing[name]))
         /\ Due(7, name, Head(existing[name]))
  /\ UNCHANGED <<descriptors, memory>>

\* A failure that was taken for an address is found out by the assertion of
\* po_chunk_mmap, po_chunk_munmap or po_shrink, which use the first address of
\* an object, or of po_chunk_next, which compares the list.
Abort ==
  /\ phase = "before"
  /\ \/ Extended # {} /\ Head(existing[FirstExtended]) = Failed
     \/ DOMAIN opened # {} /\ HasFailure(First(opened))
  /\ descriptors' = Empty /\ existing' = Empty /\ opened' = Empty
  /\ phase' = "down"
  /\ UNCHANGED <<objects, log, inflight, next, crashes>>

Remembered(r) ==
  CASE r.op = 6 -> With(existing, r.name, Append(existing[r.name], r.addr))
    [] r.op = 7 -> With(existing, r.name, Tail(existing[r.name]))
    [] OTHER -> existing

\* Mutation: creations are not logged.
WriteRecordNoCreat ==
  /\ phase = "logging"
  /\ log' = IF inflight.op = 0 THEN log ELSE Append(log, inflight)
  /\ existing' = Remembered(inflight)
  /\ inflight' = NoRecord
  /\ phase' = "before"
  /\ UNCHANGED <<kernel, opened, next, crashes>>

\* The record, then for extend and shrink the list in memory.
WriteRecord ==
  /\ phase = "logging"
  /\ log' = Append(log, inflight)
  /\ existing' = Remembered(inflight)
  /\ inflight' = NoRecord
  /\ phase' = "before"
  /\ UNCHANGED <<kernel, opened, next, crashes>>

-----------------------------------------------------------------------------
(* The crash, and what is started after it. *)

\* What the kernel may hold after a crash: all there was, or, when KernelLoses,
\* one object without its last chunk.
Survivors ==
  {objects} \cup
    {With(objects, n, Front(objects[n])) :
       n \in {m \in DOMAIN objects : KernelLoses /\ objects[m] # <<>>}}

\* flush() hands the record to the operating system, which may lose it.
Crash ==
  /\ phase \in Before
  /\ \E n \in 0..Len(log) : log' = SubSeq(log, 1, n) /\ tailLost' = (n < Len(log))
  /\ \E o \in Survivors : objects' = o /\ chunkLost' = (o # objects)
  /\ descriptors' = Empty
  /\ existing' = Empty /\ opened' = Empty
  /\ phase' = "down"
  /\ UNCHANGED <<inflight, next, leftover>>

\* run_before_crash starts over, a run_after_crash that does not end is killed: the
\* file is truncated.
RunBefore ==
  /\ phase \in Ended \cup {"down", "spin"}
  /\ existing' = Empty /\ opened' = Empty /\ descriptors' = Empty
  /\ log' = <<>> /\ inflight' = NoRecord
  /\ leftover' = DOMAIN objects /\ tailLost' = FALSE /\ chunkLost' = FALSE
  /\ phase' = "before"
  /\ UNCHANGED <<objects, next>>

\* A crash that takes every record may take the file with them: it is then not
\* there to be opened.
RunAfter ==
  /\ phase = "down"
  /\ next' = 1
  /\ phase' = "replay" \/ (log = <<>> /\ phase' = "spin")
  /\ UNCHANGED <<kernel, memory, log, inflight, crashes>>

-----------------------------------------------------------------------------
(* run_after_crash *)

\* Index of addr in the vector, or 0
IndexOf(chunks, addr) == SelectInSeq(chunks, LAMBDA a : a = addr)

\* Mutation: the replay of an extend keeps the address.
ReplayedWithChunks(r) ==
  CASE r.op = 0 -> With(existing, r.name, <<>>)
    [] r.op = 1 -> Without(existing, r.name)
    [] r.op = 6 /\ r.name \in DOMAIN existing ->
         With(existing, r.name, Append(existing[r.name], r.addr))
    [] r.op = 7 /\ IndexOf(existing[r.name], r.addr) # 0 ->
         With(existing, r.name,
              ChunkRemoved(existing[r.name], IndexOf(existing[r.name], r.addr)))
    [] OTHER -> existing

\* Mutation: the replay of an unlink keeps the object.
ReplayedKeeps(r) == IF r.op = 0 THEN With(existing, r.name, <<>>) ELSE existing

\* One round of the loop.  An extend reads its operands and does nothing.
Replayed(r) ==
  CASE r.op = 0 -> With(existing, r.name, <<>>)
    [] r.op = 1 -> Without(existing, r.name)
    [] r.op = 7 /\ IndexOf(existing[r.name], r.addr) # 0 ->
         With(existing, r.name,
              ChunkRemoved(existing[r.name], IndexOf(existing[r.name], r.addr)))
    [] OTHER -> existing

\* operator[] of a name that is not there makes a null pointer.
NullVector(r) == r.op = 7 /\ r.name \notin DOMAIN existing

ReplayRound(r, after) ==
  /\ IF NullVector(r)
     THEN phase' = "segfault" /\ UNCHANGED existing
     ELSE phase' = after /\ existing' = Replayed(r)
  /\ UNCHANGED <<kernel, opened, log, inflight, crashes>>

\* Mutation: the position in the file does not move.
ReplayStuck ==
  /\ phase = "replay" /\ next <= Len(log)
  /\ ReplayRound(log[next], "replay")
  /\ UNCHANGED next

ReplayRecord ==
  /\ phase = "replay" /\ next <= Len(log)
  /\ ReplayRound(log[next], "replay")
  /\ next' = next + 1

\* The end of the file shows only when a read fails: the loop makes one round
\* more with locals nothing has set, in the build what the last round left
\* there, in an empty file anything (operands included).
StaleRecords == IF log = <<>> THEN Record ELSE {Last(log)}

ReplayTrailing ==
  /\ phase = "replay" /\ next = Len(log) + 1
  /\ \E r \in StaleRecords : ReplayRound(r, "check")
  /\ next' = next + 1

\* A file that could not be opened has failbit set, never eofbit: the loop makes
\* round after round with locals nothing has set.
Spin ==
  /\ phase = "spin"
  /\ \E r \in Record : ReplayRound(r, "spin")
  /\ UNCHANGED next

\* check_is_ok compares the objects whose list is not empty.
Checked == {n \in DOMAIN existing : existing[n] # <<>>}
ChunkNext(name, size) ==
  LET o == Opened(name)[name] IN SubSeq(o, 1, IF size < Len(o) THEN size ELSE Len(o))

CheckIsOk ==
  /\ phase = "check"
  /\ phase' = IF \A n \in Checked : ChunkNext(n, Len(existing[n])) = existing[n]
              THEN "passed" ELSE "failed"
  /\ objects' = [n \in DOMAIN objects \cup Checked |-> Opened(n)[n]]
  /\ UNCHANGED <<descriptors, memory, log, inflight, next, crashes>>

Replay == ReplayRecord \/ ReplayTrailing \/ Spin \/ CheckIsOk

Next ==
  \/ Creat \/ Unlink \/ Open \/ Close \/ Extend \/ Shrink \/ WriteRecord
  \/ Abort \/ Crash \/ RunBefore \/ RunAfter
  \/ Replay

\* run_after_crash runs on by itself; nobody has to start a program or crash.
Spec == Init /\ [][Next]_vars /\ WF_vars(Replay)

-----------------------------------------------------------------------------
TypeOK ==
  /\ DOMAIN objects \subseteq Names
  /\ \A n \in DOMAIN objects : objects[n] \in Seq(Addrs)
  /\ DOMAIN descriptors \subseteq Pods
  /\ \A p \in DOMAIN descriptors : descriptors[p] \in Names
  /\ DOMAIN existing \subseteq Names
  /\ \A n \in DOMAIN existing : existing[n] \in Seq(Addrs \cup {Failed})
  /\ DOMAIN opened \subseteq Names
  /\ \A n \in DOMAIN opened : opened[n] \in Pods
  /\ log \in Seq(Record)
  /\ inflight \in Record \cup {NoRecord}
  /\ phase \in Before \cup Ended \cup {"down", "replay", "spin", "check"}
  /\ next \in Nat
  /\ leftover \subseteq Names
  /\ tailLost \in BOOLEAN /\ chunkLost \in BOOLEAN

\* The objects of this run of run_before_crash
Ours == [n \in DOMAIN objects \ leftover |-> objects[n]]

\* Between two calls the names in memory are the kernel's but for those of earlier
\* runs, and each list is the kernel's, in order, unless an extend of it failed:
\* nothing else can make an assertion of run_before_crash fail.
MemoryIsKernel ==
  phase = "before" =>
    /\ DOMAIN existing = DOMAIN Ours
    /\ \A n \in DOMAIN existing : HasFailure(n) \/ existing[n] = objects[n]

\* No descriptor is lost or used after it is closed: the open ones are the ones
\* in opened_pos, each under its own name.
OpenedAreDescriptors ==
  phase \in Before =>
    /\ DOMAIN opened \subseteq DOMAIN existing
    /\ \A n \in DOMAIN opened :
         opened[n] \in DOMAIN descriptors /\ descriptors[opened[n]] = n
    /\ \A p \in DOMAIN descriptors :
         descriptors[p] \in DOMAIN opened /\ opened[descriptors[p]] = p

\* What the records say, read as the system calls they report; an extend that
\* failed has no effect.
Effect(o, r) ==
  CASE r.op = 0 -> With(o, r.name, <<>>)
    [] r.op = 1 -> Without(o, r.name)
    [] r.op = 6 /\ r.addr # Failed -> With(o, r.name, Append(o[r.name], r.addr))
    [] r.op = 7 -> With(o, r.name, Tail(o[r.name]))
    [] OTHER -> o

Meaning(records) ==
  LET after[i \in 0..Len(records)] ==
        IF i = 0 THEN Empty ELSE Effect(after[i - 1], records[i])
  IN  after[Len(records)]

\* The file accounts for the objects of the run, up to the one call that is made
\* but not yet logged; also after a crash that leaves file and kernel intact.
LogExplainsObjects ==
  (phase \in Before \cup {"down"} /\ ~tailLost /\ ~chunkLost) =>
    Ours = Meaning(IF inflight = NoRecord THEN log ELSE Append(log, inflight))

\* After a crash that leaves the file intact the replay ends with the names of
\* the objects that are there, but for one whose creation or deletion was not
\* logged.  The extra round at the end of the file changes nothing.
ReplayFindsObjects ==
  (phase = "check" /\ log # <<>> /\ ~tailLost) =>
    IF inflight # NoRecord /\ inflight.op \in {0, 1}
    THEN DOMAIN existing \ {inflight.name} = DOMAIN Ours \ {inflight.name}
    ELSE DOMAIN existing = DOMAIN Ours

\* A kernel that loses nothing passes the check, wherever the crash fell and
\* however much of the file it took.
NoFalseAlarm == phase = "failed" => chunkLost

\* The replay follows a null vector only when the file is empty or gone, where what
\* a round does is anybody's guess.
NullVectorOnlyWhenEmpty == phase = "segfault" => log = <<>>

\* Objects an earlier run left behind are never changed.
LeftoversUntouched ==
  [][(phase \in Before /\ phase' \in Before) =>
       (\A n \in leftover : n \in DOMAIN objects' /\ objects'[n] = objects[n])]_vars

\* The replay of a file that could be opened comes to an end; without one the loop
\* never does (Spin).
ReplayEnds == phase = "replay" ~> phase \in Ended

\* run_before_crash.cc:190 asserts that po_extend gave an address.
ExtendGaveAnAddress ==
  phase \in Before =>
    \A n \in DOMAIN existing : \A i \in 1..Len(existing[n]) : existing[n][i] # Failed

\* run_after_crash.cc:34 asserts that every chunk the file tells of is there: with
\* the whole file at hand and no call in flight, a lost chunk is noticed.
LossIsNoticed ==
  (phase = "passed" /\ ~tailLost /\ inflight = NoRecord /\ leftover = {}) => ~chunkLost

=============================================================================
