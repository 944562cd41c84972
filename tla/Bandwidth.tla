----------------------------- MODULE Bandwidth -----------------------------
(***************************************************************************)
(* The programs of bandwidth/ and microbenchmarks/, one run after another. *)
(*                                                                         *)
(* In seqread, seqwrite, randread, randwrite and bw main() makes an object *)
(* of Chunks chunks, and every round divides the chunks among its threads. *)
(***************************************************************************)
EXTENDS LatBw, ObjectBench, SequencesExt

\* The chunks can be divided evenly: the programs have sixteen of them and
\* rounds of 1, 2, 4, 8 and 16 threads.
ASSUME SharesAssumption == \A r \in DOMAIN ThreadNum : Chunks % ThreadNum[r] = 0

NoPattern == {Empty}

\* rand() % BLOCK_NUM for every index: any function, repetitions included
Patterns == [Blocks -> Blocks]

Threads == ThreadNum[round]
each_thread_rw_extend_num == Chunks \div Threads
Quota == each_thread_rw_extend_num * BlockNum

\* The chunk thread t is at
Chunk(t) == each_thread_rw_extend_num * t + Len(moves[t]) \div BlockNum

SeqBlock(t) == <<Chunk(t), Len(moves[t]) % BlockNum>>
RandBlock(t) == <<Chunk(t), pattern[Len(moves[t]) % BlockNum]>>

SeqReading(t) == ReadBlock(t, Quota, SeqBlock(t))
SeqWriting(t) == WriteBlock(t, Quota, SeqBlock(t))
RandReading(t) == ReadBlock(t, Quota, RandBlock(t))
RandWriting(t) == WriteBlock(t, Quota, RandBlock(t))

Prepared == Cardinality(DOMAIN addrs)

\* The chunks, then the access pattern of the programs that have one here
Prepare(patterns, after) ==
  \/ Creat
  \/ CreatFails
  \/ place = "prepare" /\ Prepared < Chunks /\ ExtendChunk(Prepared) /\ UNCHANGED place
  \/ place = "prepare" /\ Prepared < Chunks /\ ExtendFails
  \/ /\ place = "prepare" /\ Prepared = Chunks
     /\ CloseAll
     /\ pattern' \in patterns
     /\ place' = after
     /\ UNCHANGED <<objects, program, part, round, moves, addrs, written, before>>

\* Mutation: only the thread created last is joined.
JoinLast(after) ==
  /\ place = "run" /\ Created = Threads
  /\ Len(moves[Threads - 1]) = Quota
  /\ CloseAll
  /\ NextRound(Len(ThreadNum), "open", after)

Join(after) ==
  /\ Joined(Threads, Quota)
  /\ CloseAll
  /\ NextRound(Len(ThreadNum), "open", after)

\* Mutation: one thread is missing.
MeasureOneShort(after) == OpenRound \/ Spawn(Threads - 1) \/ Join(after)

\* The loop over thread_num
Measure(after) == OpenRound \/ Spawn(Threads) \/ Join(after)

\* The beginning of a function of bw, which has its own pattern if any
Begin(patterns) ==
  /\ place = "part"
  /\ pattern' \in patterns
  /\ place' = "open"
  /\ UNCHANGED <<kernel, program, part, round, moves, addrs, written, before>>

-----------------------------------------------------------------------------
seqread_Prepare == Running("seqread") /\ Prepare(NoPattern, "open")
seqread_SeqReadThread(t) == Running("seqread") /\ SeqReading(t)
seqread_main == Running("seqread") /\ Measure("cleanup")
seqread_Cleanup == Running("seqread") /\ Cleanup

seqwrite_Prepare == Running("seqwrite") /\ Prepare(NoPattern, "open")
seqwrite_SeqWriteThread(t) == Running("seqwrite") /\ SeqWriting(t)
seqwrite_main == Running("seqwrite") /\ Measure("cleanup")
seqwrite_Cleanup == Running("seqwrite") /\ Cleanup

randread_Prepare == Running("randread") /\ Prepare(Patterns, "open")
randread_RandReadThread(t) == Running("randread") /\ RandReading(t)
randread_main == Running("randread") /\ Measure("cleanup")
randread_Cleanup == Running("randread") /\ Cleanup

randwrite_Prepare == Running("randwrite") /\ Prepare(Patterns, "open")
randwrite_RandWriteThread(t) == Running("randwrite") /\ RandWriting(t)
randwrite_main == Running("randwrite") /\ Measure("cleanup")
randwrite_Cleanup == Running("randwrite") /\ Cleanup

\* bw: four measurements of one object
bw_Prepare == Running("bw") /\ Prepare(NoPattern, "part")
bw_SeqReadThread(t) == Running("bw") /\ part = 1 /\ SeqReading(t)
bw_SeqRead == Running("bw") /\ part = 1 /\ (Begin({pattern}) \/ Measure("part"))
bw_SeqWriteThread(t) == Running("bw") /\ part = 2 /\ SeqWriting(t)
bw_SeqWrite == Running("bw") /\ part = 2 /\ (Begin({pattern}) \/ Measure("part"))
bw_RandReadThread(t) == Running("bw") /\ part = 3 /\ RandReading(t)
bw_RandRead == Running("bw") /\ part = 3 /\ (Begin(Patterns) \/ Measure("part"))
bw_RandWriteThread(t) == Running("bw") /\ part = 4 /\ RandWriting(t)
bw_RandWrite == Running("bw") /\ part = 4 /\ (Begin(Patterns) \/ Measure("cleanup"))
bw_Cleanup == Running("bw") /\ Cleanup

Thread(t) ==
  \/ seqread_SeqReadThread(t) \/ seqwrite_SeqWriteThread(t)
  \/ randread_RandReadThread(t) \/ randwrite_RandWriteThread(t)
  \/ bw_SeqReadThread(t) \/ bw_SeqWriteThread(t)
  \/ bw_RandReadThread(t) \/ bw_RandWriteThread(t)
  \/ read_thread(t) \/ write_thread(t)

Main ==
  \/ seqread_Prepare \/ seqread_main \/ seqread_Cleanup
  \/ seqwrite_Prepare \/ seqwrite_main \/ seqwrite_Cleanup
  \/ randread_Prepare \/ randread_main \/ randread_Cleanup
  \/ randwrite_Prepare \/ randwrite_main \/ randwrite_Cleanup
  \/ bw_Prepare \/ bw_SeqRead \/ bw_SeqWrite \/ bw_RandRead \/ bw_RandWrite
  \/ bw_Cleanup
  \/ lat_main \/ test_main

Run == Main \/ \E t \in DOMAIN moves : Thread(t)

Next == (\E p \in Programs : Start(p)) \/ Die \/ DeletePo \/ Run

\* A program that runs is scheduled; nobody has to start or to kill one.
Spec == Init /\ [][Next]_bench /\ WF_bench(Run)

-----------------------------------------------------------------------------
TypeOK ==
  /\ DOMAIN objects \subseteq Names
  /\ \A n \in DOMAIN objects : objects[n] \in Seq(Addrs)
  /\ DOMAIN descriptors \subseteq Pods
  /\ program \in Programs \cup {"none"}
  /\ place \in {"none", "creat", "prepare", "part", "shuffle", "open", "run",
                "cleanup", "ended"}
  /\ part \in 1..5 /\ round \in Nat \ {0}
  /\ DOMAIN moves = 0..Created - 1
  /\ \A n \in DOMAIN addrs : addrs[n] \in Addrs
  /\ \A j \in DOMAIN pattern : pattern[j] \in Nat
  /\ written \subseteq Addrs \X Nat

\* A measurement never runs on what an earlier process left behind: from the
\* end of Prepare to Cleanup the kernel holds under the name exactly the chunks
\* in addrs, in their order, whether or not po_open succeeds.
ObjectIsAddrs ==
  (place \in {"part", "shuffle", "open", "run", "cleanup"} /\ program # "test") =>
    /\ Name \in DOMAIN objects
    /\ objects[Name] = [i \in 1..Prepared |-> addrs[i - 1]]

Moved(t) == Range(moves[t])

\* No two threads of a round ever touch the same block, so that the writers need
\* no lock; not even when rand() repeats itself, or when the list of lat_bw is
\* shuffled.
NoBlockShared ==
  \A t, u \in DOMAIN moves : t # u => Moved(t) \cap Moved(u) = {}

Sequential == program \in {"seqread", "seqwrite"} \/ (program = "bw" /\ part < 3)
Overwriting == program = "seqwrite" \/ (program = "bw" /\ part = 2)

\* When the threads are joined the chunk programs have moved every chunk, the
\* sequential ones every block, once: what the printed bandwidth divides by the
\* time is what was moved, and a sequential writer has overwritten all of it.
\* lat_bw leaves out the remainder of the blocks.
RoundMoved ==
  (moves # Empty /\ moves' = Empty /\ program' = program) =>
    LET all == UNION {Moved(t) : t \in DOMAIN moves}
        total == FoldFunction(LAMBDA s, n : Len(s) + n, 0, moves)
    IN  IF program = "lat_bw"
        THEN /\ total = LatBlocks - (LatBlocks % round)
             /\ Cardinality(all) = total
        ELSE /\ total = Chunks * BlockNum
             /\ {b[1] : b \in all} = 0..Chunks - 1
             /\ Sequential => all = (0..Chunks - 1) \X Blocks
             /\ Overwriting => written = Range(addrs) \X Blocks
RoundMovesAll == [][RoundMoved]_bench

\* A program that gets to the end leaves the kernel as it was when it started,
\* also beside objects that others left behind.
RestoresKernel == place = "ended" => objects = before

\* A program that is started ends: no join waits for a thread that was never
\* created or has no block to move.
ProgramEnds == (program # "none") ~> (program = "none")

=============================================================================
