----------------------------- MODULE Benchmark -----------------------------
(***************************************************************************)
(* What the bandwidth and NUMA benchmarks have in common: one process that *)
(* makes an object, extends it chunk by chunk, and measures rounds.  A     *)
(* round opens the object, creates threads that move blocks between the    *)
(* chunks and a buffer of their own, joins them and closes.  The object is *)
(* unlinked at the end; when the process dies before, it stays.            *)
(*                                                                         *)
(* The actions here are parts of main() and of the threads; the modules    *)
(* that extend this one say which program runs which.                      *)
(***************************************************************************)
EXTENDS Eastlake, Integers, FiniteSets

CONSTANTS
  PO_NAME,    \* the executables, each with the name of its object
  Chunks,     \* PO_SIZE / EXTEND_MAP_SIZE
  BlockNum,   \* EXTEND_MAP_SIZE / BLOCK_SIZE
  ThreadNum,  \* thread_num: how many threads each round has
  MaxObjects  \* bound: objects left behind when a program starts

Programs == DOMAIN PO_NAME

ASSUME BenchmarkAssumption ==
  /\ "none" \notin Programs /\ \A p \in Programs : PO_NAME[p] \in Names
  /\ Chunks \in Nat \ {0} /\ BlockNum \in Nat \ {0}
  /\ ThreadNum \in Seq(Nat \ {0}) /\ ThreadNum # <<>>
  /\ MaxObjects \in Nat

VARIABLES
  program,  \* the executable that runs, or "none"
  place,    \* where its main() is
  part,     \* which of several measurements main() is in
  round,    \* which round of it
  moves,    \* thread -> the <<chunk, block>>s it has moved, for those created
  addrs,    \* address of each chunk
  pattern,  \* access_pattern, or the list of blocks of lat_bw
  written,  \* the <<address, block>>s a thread has overwritten
  before    \* history: the objects there were when the program started

process == <<program, place, part, round, moves, addrs, pattern, written, before>>
bench == <<kernel, process>>

Blocks == 0..BlockNum - 1
Name == PO_NAME[program]

Init ==
  /\ objects = Empty /\ descriptors = Empty
  /\ program = "none" /\ place = "none" /\ part = 1 /\ round = 1
  /\ moves = Empty /\ addrs = Empty /\ pattern = Empty /\ written = {}
  /\ before = Empty

Running(p) == program = p

-----------------------------------------------------------------------------
(* The life of a process *)

\* Descriptors and memory go with the process, objects do not.
Gone(where) ==
  /\ program' = "none" /\ place' = where /\ part' = 1 /\ round' = 1
  /\ moves' = Empty /\ addrs' = Empty /\ pattern' = Empty /\ written' = {}
  /\ descriptors' = Empty

Start(p) ==
  /\ program = "none" /\ Cardinality(DOMAIN objects) <= MaxObjects
  /\ program' = p /\ place' = "creat"
  /\ before' = objects
  /\ UNCHANGED <<kernel, part, round, moves, addrs, pattern, written>>

\* exit(-1), a thread that cannot be created, a signal
Die ==
  /\ program # "none"
  /\ Gone("none") /\ before' = Empty
  /\ UNCHANGED objects

\* tool/delete_po, with the name of any object
DeletePo ==
  /\ program = "none" /\ place' = "none" /\ before' = Empty
  /\ \E name \in DOMAIN objects : po_unlink(name)
  /\ UNCHANGED <<descriptors, program, part, round, moves, addrs, pattern, written>>

\* A name that is taken makes po_creat fail, and Prepare exits.
CreatFails ==
  /\ place = "creat" /\ Name \in DOMAIN objects
  /\ Gone("none") /\ before' = Empty
  /\ UNCHANGED objects

-----------------------------------------------------------------------------
(* Prepare *)

\* Mutation: an object that is there is taken over.
CreatTakesOver ==
  /\ place = "creat"
  /\ \E pod \in FreePods :
       /\ objects' = [n \in DOMAIN objects \cup {Name} |->
                        IF n \in DOMAIN objects THEN objects[n] ELSE <<>>]
       /\ descriptors' = With(descriptors, pod, Name)
  /\ place' = "prepare"
  /\ UNCHANGED <<program, part, round, moves, addrs, pattern, written, before>>

Creat ==
  /\ place = "creat"
  /\ \E pod \in FreePods : po_creat(Name, pod)
  /\ place' = "prepare"
  /\ UNCHANGED <<program, part, round, moves, addrs, pattern, written, before>>

\* The kernel hands out any free address; which one makes no difference.
AnyFree == CHOOSE a \in FreeAddrs : TRUE

\* The chunk is filled, then its address noted.
ExtendChunk(i) ==
  /\ FreeAddrs # {}
  /\ \E pod \in DOMAIN descriptors : po_extend(pod, AnyFree)
  /\ addrs' = With(addrs, i, AnyFree)
  /\ UNCHANGED <<descriptors, program, part, round, moves, pattern, written, before>>

\* po_extend returns NULL, and exit(-1), or -1, which passes for an address: the
\* loop that fills the chunk is killed.
ExtendFails ==
  /\ FreeAddrs = {}
  /\ Gone("none") /\ before' = Empty
  /\ UNCHANGED objects

CloseAll == descriptors' = Empty

-----------------------------------------------------------------------------
(* A round *)

\* The result of po_open is not looked at.
OpenRound ==
  /\ place = "open"
  /\ \/ \E pod \in FreePods :
          objects' = Opened(Name) /\ descriptors' = With(descriptors, pod, Name)
     \/ UNCHANGED kernel
  /\ place' = "run"
  /\ UNCHANGED <<program, part, round, moves, addrs, pattern, written, before>>

Created == Cardinality(DOMAIN moves)

\* Mutation: the identifiers begin at 1.
SpawnFromOne(n) ==
  /\ place = "run" /\ Created < n
  /\ moves' = With(moves, Created + 1, <<>>)
  /\ UNCHANGED <<kernel, program, place, part, round, addrs, pattern, written, before>>

Spawn(n) ==
  /\ place = "run" /\ Created < n
  /\ moves' = With(moves, Created, <<>>)
  /\ UNCHANGED <<kernel, program, place, part, round, addrs, pattern, written, before>>

\* Thread t moves one block; quota is how many it has to move.
MoveBlock(t, quota, block) ==
  /\ place = "run" /\ Len(moves[t]) < quota
  /\ moves' = [moves EXCEPT ![t] = Append(@, block)]
  /\ UNCHANGED <<kernel, program, place, part, round, addrs, pattern, before>>

ReadBlock(t, quota, block) == MoveBlock(t, quota, block) /\ UNCHANGED written
WriteBlock(t, quota, block) ==
  MoveBlock(t, quota, block) /\ written' = written \cup {<<addrs[block[1]], block[2]>>}

\* All n threads have returned.
Joined(n, quota) ==
  /\ place = "run" /\ Created = n
  /\ \A t \in DOMAIN moves : Len(moves[t]) = quota

\* The next round; after the last one the measurement is over.
NextRound(rounds, again, after) ==
  /\ IF round < rounds
     THEN round' = round + 1 /\ place' = again /\ UNCHANGED part
     ELSE round' = 1 /\ place' = after /\ part' = part + 1
  /\ moves' = Empty
  /\ UNCHANGED <<objects, program, addrs, pattern, written, before>>

-----------------------------------------------------------------------------
\* po_unlink, and main() returns; a failure is only printed.
Cleanup ==
  /\ place = "cleanup"
  /\ \/ po_unlink(Name)
     \/ Name \notin DOMAIN objects /\ UNCHANGED objects
  /\ Gone("ended") /\ UNCHANGED before

=============================================================================
