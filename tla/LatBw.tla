------------------------------- MODULE LatBw -------------------------------
(***************************************************************************)
(* bandwidth/lat_bw.c: one object of a single chunk, whose blocks are      *)
(* divided among 1, 2, ... NR_THREAD threads through a list of blocks.     *)
(***************************************************************************)
EXTENDS Benchmark

CONSTANTS
  LatBlocks,  \* MEM_SIZE / BLOCK_SIZE of lat_bw
  NR_THREAD   \* the most threads of lat_bw

ASSUME LatBwAssumption == LatBlocks \in Nat \ {0} /\ NR_THREAD \in Nat \ {0}

Random == {3, 4}   \* the parts randread and randwrite
Writing == {2, 4}  \* the parts seqwrite and randwrite

\* One chunk, filled with zeros.
lat_Prepare ==
  /\ Running("lat_bw")
  /\ \/ Creat
     \/ CreatFails
     \/ place = "prepare" /\ ExtendChunk(0) /\ place' = "part"
     \/ place = "prepare" /\ ExtendFails

\* access_list: every block once, in order
lat_Populate ==
  /\ Running("lat_bw") /\ place = "part"
  /\ pattern' = [j \in 0..LatBlocks - 1 |-> j]
  /\ place' = IF part \in Random THEN "shuffle" ELSE "run"
  /\ UNCHANGED <<kernel, program, part, round, moves, addrs, written, before>>

\* Mutation: the entry at index is overwritten, not exchanged.
lat_ShuffleNoTmp ==
  /\ Running("lat_bw") /\ place = "shuffle"
  /\ \E index \in round - 1..LatBlocks - 1 :
       pattern' = [pattern EXCEPT ![index] = pattern[round - 1]]
  /\ IF round < LatBlocks
     THEN round' = round + 1 /\ UNCHANGED place
     ELSE round' = 1 /\ place' = "run"
  /\ UNCHANGED <<kernel, program, part, moves, addrs, written, before>>

\* Entry j, which is round - 1 here, changes places with one at or behind it.
lat_Shuffle ==
  /\ Running("lat_bw") /\ place = "shuffle"
  /\ \E index \in round - 1..LatBlocks - 1 :
       pattern' = [pattern EXCEPT ![round - 1] = pattern[index],
                                  ![index] = pattern[round - 1]]
  /\ IF round < LatBlocks
     THEN round' = round + 1 /\ UNCHANGED place
     ELSE round' = 1 /\ place' = "run"
  /\ UNCHANGED <<kernel, program, part, moves, addrs, written, before>>

each_thread_access_num == LatBlocks \div round

\* Thread t has a part of the list that begins at t * each_thread_access_num.
lat_Block(t) == <<0, pattern[t * each_thread_access_num + Len(moves[t])]>>

read_thread(t) ==
  /\ Running("lat_bw") /\ part \notin Writing
  /\ ReadBlock(t, each_thread_access_num, lat_Block(t))

write_thread(t) ==
  /\ Running("lat_bw") /\ part \in Writing
  /\ WriteBlock(t, each_thread_access_num, lat_Block(t))

lat_Join(after) ==
  /\ Joined(round, each_thread_access_num)
  /\ NextRound(NR_THREAD, "run", after)
  /\ UNCHANGED descriptors

lat_seqread == Running("lat_bw") /\ part = 1 /\ (Spawn(round) \/ lat_Join("part"))
lat_seqwrite == Running("lat_bw") /\ part = 2 /\ (Spawn(round) \/ lat_Join("part"))
lat_randread == Running("lat_bw") /\ part = 3 /\ (Spawn(round) \/ lat_Join("part"))
lat_randwrite == Running("lat_bw") /\ part = 4 /\ (Spawn(round) \/ lat_Join("cleanup"))

\* The end of main(): po_close, po_unlink
lat_Cleanup == Running("lat_bw") /\ Cleanup

lat_main ==
  \/ lat_Prepare \/ lat_Populate \/ lat_Shuffle
  \/ lat_seqread \/ lat_seqwrite \/ lat_randread \/ lat_randwrite
  \/ lat_Cleanup

=============================================================================
