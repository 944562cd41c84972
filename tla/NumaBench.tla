----------------------------- MODULE NumaBench -----------------------------
(***************************************************************************)
(* The programs of numa_test/ and multiple_pages_test/.  The object is     *)
(* prepared by as many threads as the largest round has: each one adds a   *)
(* chunk under g_mutex and notes its address under its own number.  In a   *)
(* round thread t moves the blocks of chunk t only, so a round uses as     *)
(* many chunks as it has threads.                                          *)
(*                                                                         *)
(* Both kinds of thread bind themselves to a CPU by their number.  With    *)
(* MAP_NUMA_AWARE the kernel takes a chunk from the node of the caller.    *)
(***************************************************************************)
EXTENDS Benchmark, SequencesExt

CONSTANT Drawn  \* bound: the access patterns rand() may come out with

ASSUME DrawnAssumption == Drawn # {} /\ Drawn \subseteq [Blocks -> Blocks]

VARIABLES
  g_mutex,    \* is the lock held?
  preparing,  \* thread of Prepare -> where it is, for those created
  addr,       \* thread of Prepare -> its local addr
  node        \* address -> the node its chunk was taken from

prepare == <<g_mutex, preparing, addr, node>>
vars == <<bench, prepare>>

Helpers == Last(ThreadNum)
ASSUME ChunksAssumption == Chunks = Helpers

NumaInit ==
  Init /\ g_mutex = FALSE /\ preparing = Empty /\ addr = Empty /\ node = Empty

\* An action of Benchmark that leaves prepare alone, and one that ends the process
Other(A) == A /\ UNCHANGED prepare
Ending(A) ==
  A /\ g_mutex' = FALSE /\ preparing' = Empty /\ addr' = Empty /\ node' = Empty

\* Mutation: the second half of the CPUs of the same node.
CpuSameNode(idx) == IF idx % 2 # 0 THEN idx + 36 ELSE idx

\* set_affinity, and the nodes as its comment lists them
Cpu(idx) == IF idx % 2 # 0 THEN idx + 18 ELSE idx
Node(cpu) == IF cpu \in 0..17 \cup 36..53 THEN 0 ELSE 1

\* thread_num ends with its largest entry, and every thread's CPU is one of the 72
\* that the comment lists.
ASSUME RoundsAssumption == \A r \in DOMAIN ThreadNum : ThreadNum[r] <= Helpers
ASSUME CpusAssumption == \A t \in 0..Helpers - 1 : Cpu(t) \in 0..71

-----------------------------------------------------------------------------
(* Prepare, in a thread *)

\* Mutation: the lock is not waited for.
NoLock(t) ==
  /\ preparing[t] = "lock"
  /\ g_mutex' = TRUE
  /\ preparing' = [preparing EXCEPT ![t] = "extend"]
  /\ UNCHANGED <<bench, addr, node>>

Lock(t) ==
  /\ preparing[t] = "lock" /\ ~g_mutex
  /\ g_mutex' = TRUE
  /\ preparing' = [preparing EXCEPT ![t] = "extend"]
  /\ UNCHANGED <<bench, addr, node>>

\* po_extend; from is the node the chunk is taken from.
Extend(t, from) ==
  /\ preparing[t] = "extend" /\ FreeAddrs # {}
  /\ \E pod \in DOMAIN descriptors : po_extend(pod, AnyFree)
  /\ addr' = With(addr, t, AnyFree)
  /\ node' = With(node, AnyFree, from)
  /\ preparing' = [preparing EXCEPT ![t] = "fill"]
  /\ UNCHANGED <<descriptors, process, g_mutex>>

\* Mutation: the lock is kept.
FillNoUnlock(t, then) ==
  /\ preparing[t] = "fill"
  /\ addrs' = With(addrs, t, addr[t])
  /\ preparing' = [preparing EXCEPT ![t] = then]
  /\ UNCHANGED <<kernel, program, place, part, round, moves, pattern, written, before,
                 g_mutex, addr, node>>

\* The chunk is filled, its address noted, the lock released.
Fill(t, then) ==
  /\ preparing[t] = "fill"
  /\ addrs' = With(addrs, t, addr[t])
  /\ g_mutex' = FALSE
  /\ preparing' = [preparing EXCEPT ![t] = then]
  /\ UNCHANGED <<kernel, program, place, part, round, moves, pattern, written, before,
                 addr, node>>

\* access_patterns[thread_id], without the lock
Draw(t) ==
  /\ preparing[t] = "draw"
  /\ \E p \in Drawn : pattern' = With(pattern, t, p)
  /\ preparing' = [preparing EXCEPT ![t] = "done"]
  /\ UNCHANGED <<kernel, program, place, part, round, moves, addrs, written, before,
                 g_mutex, addr, node>>

\* The thread that holds the lock exits, and the others with it.
Refused(t) == preparing[t] = "extend" /\ Ending(ExtendFails)

Prepare(t, from, then) ==
  Lock(t) \/ Extend(t, from) \/ Fill(t, then) \/ Refused(t)

\* With MAP_NUMA_AWARE, and without, where the kernel chooses
Local(t) == Node(Cpu(t))
Anywhere == 2

-----------------------------------------------------------------------------
(* main() *)

CreatPo == Other(Creat) \/ Ending(CreatFails)

Fork ==
  /\ place = "prepare" /\ Cardinality(DOMAIN preparing) < Helpers
  /\ preparing' = With(preparing, Cardinality(DOMAIN preparing), "lock")
  /\ UNCHANGED <<bench, g_mutex, addr, node>>

\* Every helper has returned; po_close
JoinHelpers ==
  /\ place = "prepare" /\ Cardinality(DOMAIN preparing) = Helpers
  /\ \A t \in DOMAIN preparing : preparing[t] = "done"
  /\ CloseAll
  /\ preparing' = Empty /\ addr' = Empty /\ place' = "open"
  /\ UNCHANGED <<objects, program, part, round, moves, addrs, pattern, written,
                 before, g_mutex, node>>

Threads == ThreadNum[round]

Round ==
  \/ OpenRound
  \/ Spawn(Threads)
  \/ /\ Joined(Threads, BlockNum)
     /\ CloseAll
     /\ NextRound(Len(ThreadNum), "open", "cleanup")

main == CreatPo \/ Fork \/ JoinHelpers \/ Other(Round)

\* Mutation: the last block of the chunk is taken for the first.
SeqBlockShort(t) == <<t, Len(moves[t]) % (BlockNum - 1)>>

\* The block of its chunk that thread t is at
SeqBlock(t) == <<t, Len(moves[t])>>
RandBlock(t) == <<t, pattern[t][Len(moves[t])]>>

CleanupPo == Ending(Cleanup)

-----------------------------------------------------------------------------
(* numa_test *)

numa_seqread_Prepare(t) == Running("numa_seqread") /\ Prepare(t, Anywhere, "done")
numa_seqread_SeqReadThread(t) ==
  Running("numa_seqread") /\ Other(ReadBlock(t, BlockNum, SeqBlock(t)))
numa_seqread_main == Running("numa_seqread") /\ main
numa_seqread_Cleanup == Running("numa_seqread") /\ CleanupPo

numa_seqread_aware_Prepare(t) ==
  Running("numa_seqread_aware") /\ Prepare(t, Local(t), "done")
numa_seqread_aware_SeqReadThread(t) ==
  Running("numa_seqread_aware") /\ Other(ReadBlock(t, BlockNum, SeqBlock(t)))
numa_seqread_aware_main == Running("numa_seqread_aware") /\ main
numa_seqread_aware_Cleanup == Running("numa_seqread_aware") /\ CleanupPo

numa_seqwrite_Prepare(t) == Running("numa_seqwrite") /\ Prepare(t, Anywhere, "done")
numa_seqwrite_SeqWriteThread(t) ==
  Running("numa_seqwrite") /\ Other(WriteBlock(t, BlockNum, SeqBlock(t)))
numa_seqwrite_main == Running("numa_seqwrite") /\ main
numa_seqwrite_Cleanup == Running("numa_seqwrite") /\ CleanupPo

numa_seqwrite_aware_Prepare(t) ==
  Running("numa_seqwrite_aware") /\ Prepare(t, Local(t), "done")
numa_seqwrite_aware_SeqWriteThread(t) ==
  Running("numa_seqwrite_aware") /\ Other(WriteBlock(t, BlockNum, SeqBlock(t)))
numa_seqwrite_aware_main == Running("numa_seqwrite_aware") /\ main
numa_seqwrite_aware_Cleanup == Running("numa_seqwrite_aware") /\ CleanupPo

-----------------------------------------------------------------------------
(* multiple_pages_test; the four programs use one name.  The _mul programs *)
(* ask for huge pages, which makes no difference here.                     *)

pages_randread_Prepare(t) ==
  Running("pages_randread") /\ (Prepare(t, Local(t), "draw") \/ Draw(t))
pages_randread_RandReadThread(t) ==
  Running("pages_randread") /\ Other(ReadBlock(t, BlockNum, RandBlock(t)))
pages_randread_main == Running("pages_randread") /\ main
pages_randread_Cleanup == Running("pages_randread") /\ CleanupPo

pages_randread_mul_Prepare(t) ==
  Running("pages_randread_mul") /\ (Prepare(t, Local(t), "draw") \/ Draw(t))
pages_randread_mul_RandReadThread(t) ==
  Running("pages_randread_mul") /\ Other(ReadBlock(t, BlockNum, RandBlock(t)))
pages_randread_mul_main == Running("pages_randread_mul") /\ main
pages_randread_mul_Cleanup == Running("pages_randread_mul") /\ CleanupPo

pages_randwrite_Prepare(t) ==
  Running("pages_randwrite") /\ (Prepare(t, Local(t), "draw") \/ Draw(t))
pages_randwrite_RandWriteThread(t) ==
  Running("pages_randwrite") /\ Other(WriteBlock(t, BlockNum, RandBlock(t)))
pages_randwrite_main == Running("pages_randwrite") /\ main
pages_randwrite_Cleanup == Running("pages_randwrite") /\ CleanupPo

pages_randwrite_mul_Prepare(t) ==
  Running("pages_randwrite_mul") /\ (Prepare(t, Local(t), "draw") \/ Draw(t))
pages_randwrite_mul_RandWriteThread(t) ==
  Running("pages_randwrite_mul") /\ Other(WriteBlock(t, BlockNum, RandBlock(t)))
pages_randwrite_mul_main == Running("pages_randwrite_mul") /\ main
pages_randwrite_mul_Cleanup == Running("pages_randwrite_mul") /\ CleanupPo

-----------------------------------------------------------------------------
Main ==
  \/ numa_seqread_main \/ numa_seqread_Cleanup
  \/ numa_seqread_aware_main \/ numa_seqread_aware_Cleanup
  \/ numa_seqwrite_main \/ numa_seqwrite_Cleanup
  \/ numa_seqwrite_aware_main \/ numa_seqwrite_aware_Cleanup
  \/ pages_randread_main \/ pages_randread_Cleanup
  \/ pages_randread_mul_main \/ pages_randread_mul_Cleanup
  \/ pages_randwrite_main \/ pages_randwrite_Cleanup
  \/ pages_randwrite_mul_main \/ pages_randwrite_mul_Cleanup

Helper(t) ==
  \/ numa_seqread_Prepare(t) \/ numa_seqread_aware_Prepare(t)
  \/ numa_seqwrite_Prepare(t) \/ numa_seqwrite_aware_Prepare(t)
  \/ pages_randread_Prepare(t) \/ pages_randread_mul_Prepare(t)
  \/ pages_randwrite_Prepare(t) \/ pages_randwrite_mul_Prepare(t)

Thread(t) ==
  \/ numa_seqread_SeqReadThread(t) \/ numa_seqread_aware_SeqReadThread(t)
  \/ numa_seqwrite_SeqWriteThread(t) \/ numa_seqwrite_aware_SeqWriteThread(t)
  \/ pages_randread_RandReadThread(t) \/ pages_randread_mul_RandReadThread(t)
  \/ pages_randwrite_RandWriteThread(t) \/ pages_randwrite_mul_RandWriteThread(t)

Run ==
  \/ Main
  \/ \E t \in DOMAIN preparing : Helper(t)
  \/ \E t \in DOMAIN moves : Thread(t)

Next ==
  \/ \E p \in Programs : Other(Start(p))
  \/ Ending(Die)
  \/ Other(DeletePo)
  \/ Run

\* A program that runs is scheduled.
Spec == NumaInit /\ [][Next]_vars /\ WF_vars(Run)

-----------------------------------------------------------------------------
TypeOK ==
  /\ DOMAIN objects \subseteq Names
  /\ \A n \in DOMAIN objects : objects[n] \in Seq(Addrs)
  /\ program \in Programs \cup {"none"}
  /\ place \in {"none", "creat", "prepare", "open", "run", "cleanup", "ended"}
  /\ part \in 1..2 /\ round \in 1..Len(ThreadNum)
  /\ DOMAIN moves \subseteq 0..Helpers - 1
  /\ DOMAIN addrs \subseteq 0..Helpers - 1
  /\ \A t \in DOMAIN pattern : pattern[t] \in Drawn
  /\ \A t \in DOMAIN preparing : preparing[t] \in {"lock", "extend", "fill", "draw", "done"}
  /\ g_mutex \in BOOLEAN
  /\ DOMAIN node \subseteq Addrs /\ \A a \in DOMAIN node : node[a] \in {0, 1, Anywhere}

Chain == {objects[Name][i] : i \in 1..Len(objects[Name])}
Filling == {t \in DOMAIN preparing : preparing[t] = "fill"}

\* Whatever the order in which the helpers get the lock, each chunk of the object
\* is one thread's: in addrs once, or in the hands of the one thread that holds
\* the lock.  No measured thread runs, and the descriptor is not closed, before
\* every thread has its chunk.
ChunkPerThread ==
  place \in {"prepare", "open", "run", "cleanup"} =>
    /\ Cardinality(Filling) <= 1
    /\ \A t, u \in DOMAIN addrs : addrs[t] = addrs[u] => t = u
    /\ Chain = {addrs[t] : t \in DOMAIN addrs} \cup {addr[t] : t \in Filling}
    /\ place # "prepare" => DOMAIN addrs = 0..Helpers - 1
    /\ DOMAIN preparing # {} => DOMAIN descriptors # {}

Aware == Programs \ {"numa_seqread", "numa_seqwrite"}
NodeUsers(n) == {t \in DOMAIN moves : node[addrs[t]] = n}

\* In the programs that ask for it a thread's chunk is on the node whose CPU the
\* thread is bound to, and a round with an even number of threads loads both nodes
\* alike.
LocalAndBalanced ==
  (program \in Aware /\ place = "run") =>
    /\ \A t \in DOMAIN moves : node[addrs[t]] = Node(Cpu(t))
    /\ (Created = Threads /\ Threads % 2 = 0) =>
         Cardinality(NodeUsers(0)) = Cardinality(NodeUsers(1))

\* sandbox_check, whose call is commented out, would pass after the sequential
\* writers; after the random ones exactly the blocks of the patterns are written.
sandbox_check == written = {addrs[t] : t \in DOMAIN addrs} \X Blocks
SandboxCheck ==
  place = "cleanup" =>
    /\ program \in {"numa_seqwrite", "numa_seqwrite_aware"} => sandbox_check
    /\ program \in {"pages_randwrite", "pages_randwrite_mul"} =>
         written = UNION {{<<addrs[t], pattern[t][j]>> : j \in Blocks} :
                            t \in DOMAIN addrs}

\* A program that is started ends, though a helper may exit with the lock held
\* while others wait for it.
ProgramEnds == (program # "none") ~> (program = "none")

=============================================================================
