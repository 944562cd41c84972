------------------------- MODULE Bandwidth_proofs -------------------------
(***************************************************************************)
(* The programs of bandwidth/ and microbenchmarks/, for any number of      *)
(* chunks, blocks, threads and rounds, any access pattern drawn by rand()  *)
(* and any shuffle of the list of lat_bw:                                  *)
(*   - the threads of a round never touch the same block (IInv);           *)
(*   - a measurement runs on the object it has made, and a program that    *)
(*     ends leaves the kernel as it was (KernelInv, TestInv);              *)
(*   - types (DataInv);                                                    *)
(*   - a round moves what its bandwidth is computed from (Placed,          *)
(*     WrittenInv).                                                        *)
(***************************************************************************)
EXTENDS Bandwidth, FiniteSetTheorems, SequenceTheorems, WellFoundedInduction, TLAPS

Lat == program = "lat_bw"
Chunked == program \notin {"none", "lat_bw", "test"}
LatIndex == 0..LatBlocks - 1

\* The indices of the n equal parts that begin at t * n
Share(t, n) == t * n..t * n + n - 1

Shuffled ==
  /\ DOMAIN pattern = LatIndex
  /\ \A j, k \in LatIndex : pattern[j] = pattern[k] => j = k

Control ==
  /\ round \in Nat \ {0}
  /\ Chunked => round \in 1..Len(ThreadNum)
  /\ program = "none" => round = 1 /\ place # "run"
  /\ program = "test" => place # "run"
  /\ Lat /\ place \in {"shuffle", "run"} => Shuffled
  /\ Lat /\ place = "shuffle" => round <= LatBlocks
  /\ Lat /\ place \notin {"shuffle", "run"} => round = 1
  /\ place # "run" => DOMAIN moves = {}

Counted == \E n \in Nat : DOMAIN moves = 0..n - 1 /\ (Lat => n <= round)

ChunkShares ==
  Chunked => \A t \in DOMAIN moves : \A b \in Moved(t) :
               b[1] \in Share(t, each_thread_rw_extend_num)

LatShares ==
  Lat => \A t \in DOMAIN moves : \A b \in Moved(t) :
           \E j \in Share(t, each_thread_access_num) : b[2] = pattern[j]

MovesInv ==
  /\ Counted
  /\ \A t \in DOMAIN moves : \E S : moves[t] \in Seq(S)
  /\ ChunkShares
  /\ LatShares

IInv == Control /\ MovesInv

-----------------------------------------------------------------------------
(* Arithmetic and sequences *)

LEMMA Below ==
  ASSUME NEW h \in Nat, NEW q \in Nat, NEW m \in Nat \ {0}, h < q * m
  PROVE  h \div m \in 0..q - 1
  OBVIOUS

LEMMA Quotient ==
  ASSUME NEW c \in Nat, NEW m \in Nat \ {0}
  PROVE  c \div m \in Nat /\ m * (c \div m) <= c
  OBVIOUS

\* The parts of different threads have no index in common.
LEMMA SharesApart ==
  ASSUME NEW n \in Nat, NEW t \in Nat, NEW u \in Nat, t # u,
         NEW j \in Share(t, n), NEW k \in Share(u, n)
  PROVE  j # k
  <1>1. ASSUME NEW a \in Nat, NEW b \in Nat, a < b
        PROVE  a * n + n <= b * n
    <2>1. (a + 1) * n <= b * n
      BY <1>1
    <2> QED BY <2>1
  <1>2. t * n \in Nat /\ u * n \in Nat
    OBVIOUS
  <1>3. t < u \/ u < t
    OBVIOUS
  <1> QED BY <1>1, <1>2, <1>3 DEF Share

\* The parts of m threads lie within the indices of any c entries they divide.
LEMMA SharesInside ==
  ASSUME NEW c \in Nat, NEW m \in Nat \ {0}, NEW t \in 0..m - 1,
         NEW j \in Share(t, c \div m)
  PROVE  j \in 0..c - 1
  <1> DEFINE n == c \div m
  <1>1. n \in Nat /\ m * n <= c
    BY Quotient
  <1> HIDE DEF n
  <1>2. (t + 1) * n <= m * n
    BY <1>1
  <1>3. t * n \in Nat /\ t * n + n <= c
    BY <1>1, <1>2
  <1>4. j \in Share(t, n)
    BY DEF n
  <1> QED BY <1>1, <1>3, <1>4 DEF Share

LEMMA AppendRange ==
  ASSUME NEW S, NEW s \in Seq(S), NEW e
  PROVE  /\ Append(s, e) \in Seq(S \cup {e})
         /\ Range(Append(s, e)) = Range(s) \cup {e}
  <1> DEFINE r == Append(s, e)
  <1>1. s \in Seq(S \cup {e}) /\ Len(s) \in Nat
    OBVIOUS
  <1>2. r \in Seq(S \cup {e}) /\ Len(r) = Len(s) + 1
    BY <1>1
  <1>3. DOMAIN r = 1..Len(s) + 1 /\ DOMAIN s = 1..Len(s)
    BY <1>1, <1>2
  <1>4. r[Len(s) + 1] = e /\ \A i \in 1..Len(s) : r[i] = s[i]
    BY <1>1
  <1> QED BY <1>1, <1>2, <1>3, <1>4 DEF Range

LEMMA HowMany ==
  ASSUME NEW k \in Nat, NEW S, S = 0..k - 1
  PROVE  Cardinality(S) = k
  BY FS_Interval

-----------------------------------------------------------------------------
(* What the kinds of steps have in common *)

LEMMA NoMoves ==
  ASSUME DOMAIN moves' = {}, round' \in Nat
  PROVE  MovesInv'
  <1>1. DOMAIN moves' = 0..0 - 1 /\ 0 \in Nat
    OBVIOUS
  <1>2. Counted'
    BY <1>1 DEF Counted
  <1> QED BY <1>2 DEF MovesInv, ChunkShares, LatShares

\* A process that ends takes its threads with it.
LEMMA EndingStep ==
  ASSUME NEW where \in {"none", "ended"}, Gone(where)
  PROVE  IInv'
  <1>1. /\ program' = "none" /\ place' \in {"none", "ended"} /\ round' = 1
        /\ DOMAIN moves' = {}
    BY DEF Gone, Empty
  <1>2. Control'
    BY <1>1 DEF Control, Chunked, Lat
  <1> QED BY <1>1, <1>2, NoMoves DEF IInv

\* While no threads are there, main() of one of the chunk programs moves on.
LEMMA ChunkedStep ==
  ASSUME IInv, Chunked, place # "run" \/ moves' = Empty,
         program' = program,
         moves' = Empty \/ moves' = moves,
         round' = round \/ round' \in 1..Len(ThreadNum)
  PROVE  IInv'
  <1>1. DOMAIN moves' = {}
    BY DEF IInv, Control, Empty
  <1>2. round' \in 1..Len(ThreadNum) /\ round' \in Nat \ {0}
    BY DEF IInv, Control
  <1>3. Control'
    BY <1>1, <1>2 DEF Control, Chunked, Lat
  <1> QED BY <1>1, <1>2, <1>3, NoMoves DEF IInv

LEMMA ThreadsType ==
  ASSUME Control, Chunked
  PROVE  Threads \in Nat \ {0} /\ each_thread_rw_extend_num \in Nat /\ Len(ThreadNum) \in Nat
  <1>1. ThreadNum \in Seq(Nat \ {0}) /\ round \in 1..Len(ThreadNum) /\ Chunks \in Nat
    BY BenchmarkAssumption DEF Control
  <1>2. Threads \in Nat \ {0}
    BY <1>1 DEF Threads
  <1> QED BY <1>1, <1>2, Quotient DEF each_thread_rw_extend_num

LEMMA SpawnStep ==
  ASSUME IInv, NEW n, Spawn(n), Lat => n = round
  PROVE  IInv'
  <1>1. PICK k \in Nat : DOMAIN moves = 0..k - 1 /\ (Lat => k <= round)
    BY DEF IInv, MovesInv, Counted
  <1>2. Created = k
    BY <1>1, HowMany DEF Created
  <1>3. /\ moves' = With(moves, k, <<>>)
        /\ UNCHANGED <<program, place, round, pattern>>
        /\ place = "run" /\ k < n
    BY <1>2 DEF Spawn
  <1>4. /\ DOMAIN moves' = 0..k
        /\ \A t \in DOMAIN moves : moves'[t] = moves[t]
        /\ moves'[k] = <<>>
    BY <1>1, <1>3 DEF With
  <1>5. Control'
    BY <1>3 DEF IInv, Control, Chunked, Lat, Shuffled
  <1>6. Counted'
    <2>1. DOMAIN moves' = 0..(k + 1) - 1 /\ k + 1 \in Nat
      BY <1>4
    <2>2. Lat' => k + 1 <= round'
      BY <1>3 DEF Lat, IInv, Control
    <2> QED BY <2>1, <2>2 DEF Counted
  <1>7. Range(moves'[k]) = {} /\ moves'[k] \in Seq({})
    BY <1>4 DEF Range
  <1>8. \A t \in DOMAIN moves' : t = k \/ t \in DOMAIN moves
    BY <1>1, <1>4
  <1>9. \A t \in DOMAIN moves : Moved(t)' = Moved(t)
    BY <1>4 DEF Moved
  <1>10. (\A t \in DOMAIN moves : \E S : moves[t] \in Seq(S))'
    BY <1>4, <1>7, <1>8 DEF IInv, MovesInv
  <1>11. Moved(k)' = {}
    BY <1>7 DEF Moved
  <1>12. ChunkShares'
    <2>1. each_thread_rw_extend_num' = each_thread_rw_extend_num
      BY <1>3 DEF each_thread_rw_extend_num, Threads
    <2> QED BY <1>3, <1>8, <1>9, <1>11, <2>1 DEF IInv, MovesInv, ChunkShares, Chunked
  <1>13. LatShares'
    <2>1. each_thread_access_num' = each_thread_access_num
      BY <1>3 DEF each_thread_access_num
    <2> QED BY <1>3, <1>8, <1>9, <1>11, <2>1 DEF IInv, MovesInv, LatShares, Lat
  <1> QED BY <1>5, <1>6, <1>10, <1>12, <1>13 DEF IInv, MovesInv

\* A thread moves a block of its own share.
LEMMA MoveStep ==
  ASSUME IInv, NEW t \in DOMAIN moves, NEW quota, NEW block, MoveBlock(t, quota, block),
         Chunked => block[1] \in Share(t, each_thread_rw_extend_num),
         Lat => \E j \in Share(t, each_thread_access_num) : block[2] = pattern[j]
  PROVE  IInv'
  <1>1. /\ moves' = [moves EXCEPT ![t] = Append(moves[t], block)]
        /\ UNCHANGED <<program, place, round, pattern>>
        /\ place = "run"
    BY DEF MoveBlock
  <1>2. DOMAIN moves' = DOMAIN moves /\ moves'[t] = Append(moves[t], block)
    BY <1>1
  <1>3. \A u \in DOMAIN moves : u # t => moves'[u] = moves[u]
    BY <1>1
  <1>4. PICK S : moves[t] \in Seq(S)
    BY DEF IInv, MovesInv
  <1>5. Moved(t)' = Moved(t) \cup {block} /\ moves'[t] \in Seq(S \cup {block})
    <2> DEFINE mine == moves[t]
    <2>1. mine \in Seq(S)
      BY <1>4
    <2>2. Append(mine, block) \in Seq(S \cup {block})
          /\ Range(Append(mine, block)) = Range(mine) \cup {block}
      <3> HIDE DEF mine
      <3> QED BY <2>1, AppendRange
    <2>3. moves'[t] = Append(mine, block)
      BY <1>2
    <2> QED BY <2>2, <2>3 DEF Moved
  <1>6. \A u \in DOMAIN moves : u # t => Moved(u)' = Moved(u)
    BY <1>3 DEF Moved
  <1>7. Control'
    BY <1>1 DEF IInv, Control, Chunked, Lat, Shuffled
  <1>8. Counted'
    BY <1>1, <1>2 DEF IInv, MovesInv, Counted, Lat
  <1>9. (\A u \in DOMAIN moves : \E R : moves[u] \in Seq(R))'
    BY <1>2, <1>3, <1>5 DEF IInv, MovesInv
  <1>10. ChunkShares'
    <2>1. each_thread_rw_extend_num' = each_thread_rw_extend_num
      BY <1>1 DEF each_thread_rw_extend_num, Threads
    <2> QED BY <1>1, <1>2, <1>5, <1>6, <2>1 DEF IInv, MovesInv, ChunkShares, Chunked
  <1>11. LatShares'
    <2>1. each_thread_access_num' = each_thread_access_num
      BY <1>1 DEF each_thread_access_num
    <2> SUFFICES ASSUME Lat, NEW u \in DOMAIN moves, NEW b \in Moved(u)'
                 PROVE  \E j \in Share(u, each_thread_access_num) : b[2] = pattern[j]
      BY <1>1, <1>2, <2>1 DEF LatShares, Lat
    <2>2. CASE b \in Moved(u)
      BY <2>2 DEF IInv, MovesInv, LatShares
    <2>3. CASE u = t /\ b = block
      BY <2>3
    <2> QED BY <1>5, <1>6, <2>2, <2>3
  <1> QED BY <1>7, <1>8, <1>9, <1>10, <1>11 DEF IInv, MovesInv

-----------------------------------------------------------------------------
(* The chunk programs *)

\* Whatever it reads or writes, a thread that is not done is at a chunk of its own.
LEMMA ChunkIsOwn ==
  ASSUME IInv, Chunked, NEW t \in DOMAIN moves, Len(moves[t]) < Quota
  PROVE  Chunk(t) \in Share(t, each_thread_rw_extend_num)
  <1>1. each_thread_rw_extend_num \in Nat /\ BlockNum \in Nat \ {0}
    BY ThreadsType, BenchmarkAssumption DEF IInv
  <1>2. PICK k \in Nat : DOMAIN moves = 0..k - 1
    BY DEF IInv, MovesInv, Counted
  <1>3. t \in Nat
    BY <1>2
  <1>4. PICK S : moves[t] \in Seq(S)
    BY DEF IInv, MovesInv
  <1>5. Len(moves[t]) \in Nat
    BY <1>4
  <1>6. Len(moves[t]) \div BlockNum \in 0..each_thread_rw_extend_num - 1
    BY <1>1, <1>5, Below DEF Quota
  <1>7. each_thread_rw_extend_num * t = t * each_thread_rw_extend_num
        /\ t * each_thread_rw_extend_num \in Nat
    BY <1>1, <1>3
  <1> QED BY <1>1, <1>6, <1>7 DEF Chunk, Share

LEMMA ChunkThreadStep ==
  ASSUME IInv, Chunked, NEW t \in DOMAIN moves,
         SeqReading(t) \/ SeqWriting(t) \/ RandReading(t) \/ RandWriting(t)
  PROVE  IInv'
  <1>1. PICK block : MoveBlock(t, Quota, block) /\ block[1] = Chunk(t)
    BY DEF SeqReading, SeqWriting, RandReading, RandWriting, ReadBlock, WriteBlock,
           SeqBlock, RandBlock
  <1>2. block[1] \in Share(t, each_thread_rw_extend_num)
    BY <1>1, ChunkIsOwn DEF MoveBlock
  <1> QED BY <1>1, <1>2, MoveStep DEF Chunked, Lat

LEMMA PrepareStep ==
  ASSUME IInv, Chunked, NEW patterns, NEW after, Prepare(patterns, after)
  PROVE  IInv'
  <1>1. CASE CreatFails \/ ExtendFails
    BY <1>1, EndingStep DEF CreatFails, ExtendFails
  <1>2. CASE ~(CreatFails \/ ExtendFails)
    <2>1. place # "run" /\ UNCHANGED <<program, moves, round>>
      BY <1>2 DEF Prepare, Creat, ExtendChunk
    <2> QED BY <2>1, ChunkedStep
  <1> QED BY <1>1, <1>2

LEMMA BeginStep ==
  ASSUME IInv, Chunked, NEW patterns, Begin(patterns)
  PROVE  IInv'
  BY ChunkedStep DEF Begin

LEMMA MeasureStep ==
  ASSUME IInv, Chunked, NEW after, Measure(after)
  PROVE  IInv'
  <1>1. CASE OpenRound
    BY <1>1, ChunkedStep DEF OpenRound
  <1>2. CASE Spawn(Threads)
    BY <1>2, SpawnStep DEF Chunked, Lat
  <1>3. CASE Join(after)
    <2>1. Len(ThreadNum) \in Nat /\ round \in 1..Len(ThreadNum)
      BY ThreadsType DEF IInv, Control
    <2>2. moves' = Empty /\ program' = program
          /\ (round' = 1 \/ (round < Len(ThreadNum) /\ round' = round + 1))
      BY <1>3 DEF Join, NextRound
    <2>3. round' \in 1..Len(ThreadNum)
      BY <2>1, <2>2
    <2> QED BY <2>2, <2>3, ChunkedStep
  <1> QED BY <1>1, <1>2, <1>3 DEF Measure

LEMMA CleanupStep ==
  ASSUME Cleanup
  PROVE  IInv'
  BY EndingStep DEF Cleanup

-----------------------------------------------------------------------------
(* lat_bw *)

LEMMA LatMainStep ==
  ASSUME IInv, Lat, place # "run", program' = program, UNCHANGED moves,
         round' \in Nat \ {0},
         place' \in {"shuffle", "run"} => Shuffled',
         place' = "shuffle" => round' <= LatBlocks,
         place' \notin {"shuffle", "run"} => round' = 1
  PROVE  IInv'
  <1>1. DOMAIN moves' = {}
    BY DEF IInv, Control
  <1>2. Control'
    BY <1>1 DEF Control, Chunked, Lat
  <1> QED BY <1>1, <1>2, NoMoves DEF IInv

LEMMA ShuffleStep ==
  ASSUME IInv, lat_Shuffle
  PROVE  IInv'
  <1>1. Lat /\ place = "shuffle" /\ Shuffled /\ round \in 1..LatBlocks /\ LatBlocks \in Nat
    BY LatBwAssumption DEF lat_Shuffle, Running, Lat, IInv, Control
  <1>2. PICK index \in round - 1..LatBlocks - 1 :
          pattern' = [pattern EXCEPT ![round - 1] = pattern[index],
                                     ![index] = pattern[round - 1]]
    BY DEF lat_Shuffle
  <1> DEFINE i == round - 1
  <1>3. i \in LatIndex /\ index \in LatIndex
    BY <1>1 DEF LatIndex
  <1>4. Shuffled'
    <2>1. DOMAIN pattern' = LatIndex
      BY <1>1, <1>2 DEF Shuffled
    <2>2. /\ pattern'[index] = pattern[i]
          /\ i # index => pattern'[i] = pattern[index]
          /\ \A j \in LatIndex : j # i /\ j # index => pattern'[j] = pattern[j]
      BY <1>1, <1>2, <1>3 DEF Shuffled
    <2>3. \A j, k \in LatIndex : pattern[j] = pattern[k] => j = k
      BY <1>1 DEF Shuffled
    <2> HIDE DEF i
    <2>4. \A j, k \in LatIndex : pattern'[j] = pattern'[k] => j = k
      BY <1>3, <2>2, <2>3
    <2> QED BY <2>1, <2>4 DEF Shuffled, LatIndex
  <1>5. /\ program' = program /\ UNCHANGED moves
        /\ \/ place' = "shuffle" /\ round < LatBlocks /\ round' = round + 1
           \/ place' = "run" /\ round' = 1
    BY <1>1 DEF lat_Shuffle
  <1> QED BY <1>1, <1>4, <1>5, LatMainStep

LEMMA PopulateStep ==
  ASSUME IInv, lat_Populate
  PROVE  IInv'
  <1>1. Lat /\ place = "part" /\ UNCHANGED <<program, moves, round>>
        /\ pattern' = [j \in LatIndex |-> j]
    BY DEF lat_Populate, Running, Lat, LatIndex
  <1>2. Shuffled'
    BY <1>1 DEF Shuffled, LatIndex
  <1>3. round' = 1 /\ LatBlocks \in Nat \ {0} /\ place' \in {"shuffle", "run"}
    BY <1>1, LatBwAssumption DEF IInv, Control, lat_Populate
  <1>4. round' <= LatBlocks /\ round' \in Nat \ {0}
    BY <1>3
  <1> QED BY <1>1, <1>2, <1>3, <1>4, LatMainStep

LEMMA LatThreadStep ==
  ASSUME IInv, Lat, NEW t \in DOMAIN moves, read_thread(t) \/ write_thread(t)
  PROVE  IInv'
  <1> DEFINE n == each_thread_access_num
  <1>1. MoveBlock(t, n, lat_Block(t))
    BY DEF read_thread, write_thread, ReadBlock, WriteBlock
  <1>2. n \in Nat /\ round \in Nat \ {0}
    BY LatBwAssumption, Quotient DEF each_thread_access_num, IInv, Control
  <1>3. PICK k \in Nat : DOMAIN moves = 0..k - 1
    BY DEF IInv, MovesInv, Counted
  <1>4. PICK S : moves[t] \in Seq(S)
    BY DEF IInv, MovesInv
  <1>5. Len(moves[t]) \in Nat /\ Len(moves[t]) < n
    BY <1>1, <1>4 DEF MoveBlock
  <1> DEFINE j == t * n + Len(moves[t])
  <1>6. j \in Share(t, n)
    <2>1. t \in Nat
      BY <1>3
    <2>2. t * n \in Nat
      BY <1>2, <2>1
    <2> HIDE DEF n
    <2> QED BY <1>2, <1>5, <2>2 DEF Share
  <1>7. lat_Block(t)[2] = pattern[j]
    BY DEF lat_Block
  <1> HIDE DEF j
  <1>8. \E i \in Share(t, each_thread_access_num) : lat_Block(t)[2] = pattern[i]
    BY <1>6, <1>7
  <1> QED BY <1>1, <1>8, MoveStep DEF Chunked, Lat

LEMMA LatMain ==
  ASSUME IInv, lat_main
  PROVE  IInv'
  <1>1. CASE lat_Prepare
    <2>1. CASE CreatFails \/ ExtendFails
      BY <2>1, EndingStep DEF CreatFails, ExtendFails
    <2>2. CASE ~(CreatFails \/ ExtendFails)
      <3>1. /\ Lat /\ place \in {"creat", "prepare"} /\ UNCHANGED <<program, moves, round>>
            /\ place' \in {"prepare", "part"}
        BY <1>1, <2>2 DEF lat_Prepare, Running, Lat, Creat, ExtendChunk
      <3>2. round = 1
        BY <3>1 DEF IInv, Control
      <3> QED BY <3>1, <3>2, LatMainStep
    <2> QED BY <2>1, <2>2
  <1>2. CASE lat_Cleanup
    BY <1>2, EndingStep DEF lat_Cleanup, Cleanup
  <1>3. ASSUME NEW after \in {"part", "cleanup"}, Running("lat_bw"),
               Spawn(round) \/ lat_Join(after)
        PROVE  IInv'
    <2>1. CASE Spawn(round)
      BY <2>1, SpawnStep
    <2>2. CASE lat_Join(after)
      <3>1. /\ Lat /\ moves' = Empty /\ UNCHANGED <<program, pattern>>
            /\ \/ place' = "run" /\ round' = round + 1
               \/ place' = after /\ round' = 1
            /\ place = "run" /\ round \in Nat \ {0}
        BY <1>3, <2>2 DEF lat_Join, NextRound, Joined, Running, Lat, IInv, Control
      <3>2. DOMAIN moves' = {} /\ Lat' /\ round' \in Nat \ {0}
        BY <3>1 DEF Empty, Lat
      <3>3. Shuffled'
        BY <3>1 DEF Shuffled, IInv, Control
      <3>4. Control'
        BY <3>1, <3>2, <3>3 DEF Control, Chunked, Lat
      <3> QED BY <3>2, <3>4, NoMoves DEF IInv
    <2> QED BY <1>3, <2>1, <2>2
  <1> QED BY <1>1, <1>2, <1>3, PopulateStep, ShuffleStep
          DEF lat_main, lat_seqread, lat_seqwrite, lat_randread, lat_randwrite

-----------------------------------------------------------------------------
(* All programs *)

LEMMA TestMain ==
  ASSUME IInv, test_main
  PROVE  IInv'
  <1>1. program = "test" /\ place # "run" /\ round \in Nat \ {0}
    BY DEF test_main, my_create, my_append, my_open_and_close, my_delete, my_exit, Loop,
           Running, IInv, Control
  <1>2. CASE \E where \in {"none", "ended"} : Gone(where)
    BY <1>2, EndingStep
  <1>3. CASE /\ UNCHANGED <<program, place, moves>>
             /\ round' = round + 1 \/ round' = 1
    <2>1. round' \in Nat \ {0}
      BY <1>1, <1>3
    <2>2. DOMAIN moves' = {}
      BY <1>1, <1>3 DEF IInv, Control
    <2>3. Control'
      BY <1>1, <1>3, <2>1, <2>2 DEF Control, Chunked, Lat
    <2> QED BY <2>1, <2>2, <2>3, NoMoves DEF IInv
  <1> QED BY <1>2, <1>3
          DEF test_main, my_create, my_append, my_open_and_close, my_delete, my_exit, NextName

LEMMA MainStep ==
  ASSUME IInv, Main
  PROVE  IInv'
  <1>1. CASE Chunked
    <2>1. \/ \E patterns, after : Prepare(patterns, after)
          \/ \E patterns : Begin(patterns)
          \/ \E after : Measure(after)
          \/ Cleanup
      BY <1>1 DEF Main, Running, Chunked,
         seqread_Prepare, seqread_main, seqread_Cleanup,
         seqwrite_Prepare, seqwrite_main, seqwrite_Cleanup,
         randread_Prepare, randread_main, randread_Cleanup,
         randwrite_Prepare, randwrite_main, randwrite_Cleanup,
         bw_Prepare, bw_SeqRead, bw_SeqWrite, bw_RandRead, bw_RandWrite, bw_Cleanup,
         lat_main, lat_Prepare, lat_Populate, lat_Shuffle, lat_seqread, lat_seqwrite,
         lat_randread, lat_randwrite, lat_Cleanup,
         test_main, my_create, my_append, my_open_and_close, my_delete, my_exit, Loop
    <2> QED BY <1>1, <2>1, PrepareStep, BeginStep, MeasureStep, CleanupStep
  <1>2. CASE ~Chunked
    <2>1. lat_main \/ test_main
      BY <1>2 DEF Main, Running, Chunked,
         seqread_Prepare, seqread_main, seqread_Cleanup,
         seqwrite_Prepare, seqwrite_main, seqwrite_Cleanup,
         randread_Prepare, randread_main, randread_Cleanup,
         randwrite_Prepare, randwrite_main, randwrite_Cleanup,
         bw_Prepare, bw_SeqRead, bw_SeqWrite, bw_RandRead, bw_RandWrite, bw_Cleanup
    <2> QED BY <2>1, LatMain, TestMain
  <1> QED BY <1>1, <1>2

LEMMA ThreadStep ==
  ASSUME IInv, NEW t \in DOMAIN moves, Thread(t)
  PROVE  IInv'
  <1>1. CASE Lat
    <2>1. read_thread(t) \/ write_thread(t)
      BY <1>1 DEF Lat, Thread, Running, seqread_SeqReadThread, seqwrite_SeqWriteThread,
         randread_RandReadThread, randwrite_RandWriteThread, bw_SeqReadThread,
         bw_SeqWriteThread, bw_RandReadThread, bw_RandWriteThread
    <2> QED BY <1>1, <2>1, LatThreadStep
  <1>2. CASE ~Lat
    <2>1. /\ Chunked
          /\ SeqReading(t) \/ SeqWriting(t) \/ RandReading(t) \/ RandWriting(t)
      BY <1>2 DEF Lat, Chunked, Thread, Running, seqread_SeqReadThread,
         seqwrite_SeqWriteThread, randread_RandReadThread, randwrite_RandWriteThread,
         bw_SeqReadThread, bw_SeqWriteThread, bw_RandReadThread, bw_RandWriteThread,
         read_thread, write_thread
    <2> QED BY <2>1, ChunkThreadStep
  <1> QED BY <1>1, <1>2

LEMMA InitIInv == Init => IInv
  <1> SUFFICES ASSUME Init PROVE IInv
    OBVIOUS
  <1>1. program = "none" /\ place = "none" /\ round = 1 /\ DOMAIN moves = {}
    BY DEF Init, Empty
  <1>2. DOMAIN moves = 0..0 - 1 /\ 0 \in Nat
    BY <1>1
  <1>3. Control
    BY <1>1 DEF Control, Chunked, Lat
  <1>4. Counted
    BY <1>1, <1>2 DEF Counted, Lat
  <1> QED BY <1>1, <1>3, <1>4 DEF IInv, MovesInv, ChunkShares, LatShares

LEMMA NextIInv == IInv /\ [Next]_bench => IInv'
  <1> SUFFICES ASSUME IInv, [Next]_bench PROVE IInv'
    OBVIOUS
  <1>1. ASSUME NEW p \in Programs, Start(p)
        PROVE  IInv'
    <2>1. program = "none" /\ place' = "creat" /\ UNCHANGED <<moves, round>>
      BY <1>1 DEF Start
    <2>2. DOMAIN moves' = {} /\ round' = 1
      BY <2>1 DEF IInv, Control
    <2>3. 1 \in 1..Len(ThreadNum)
      <3>1. ThreadNum \in Seq(Nat \ {0}) /\ ThreadNum # <<>>
        BY BenchmarkAssumption
      <3>2. Len(ThreadNum) \in Nat /\ Len(ThreadNum) # 0
        BY <3>1
      <3> QED BY <3>2
    <2>4. program' # "none"
      BY <1>1, BenchmarkAssumption DEF Start
    <2>5. Control'
      BY <2>1, <2>2, <2>3, <2>4 DEF Control, Chunked, Lat
    <2> QED BY <2>2, <2>5, NoMoves DEF IInv
  <1>2. CASE Die
    BY <1>2, EndingStep DEF Die
  <1>3. CASE DeletePo
    <2>1. program = "none" /\ program' = "none" /\ place' = "none" /\ UNCHANGED <<moves, round>>
      BY <1>3 DEF DeletePo
    <2>2. DOMAIN moves' = {} /\ round' = 1
      BY <2>1 DEF IInv, Control
    <2>3. Control'
      BY <2>1, <2>2 DEF Control, Chunked, Lat
    <2> QED BY <2>2, <2>3, NoMoves DEF IInv
  <1>4. CASE UNCHANGED bench
    <2>1. UNCHANGED <<program, place, round, moves, pattern>>
      BY <1>4 DEF bench, process
    <2>2. Control'
      BY <2>1 DEF IInv, Control, Chunked, Lat, Shuffled
    <2>3. Counted'
      BY <2>1 DEF IInv, MovesInv, Counted, Lat
    <2>4. ChunkShares' /\ LatShares'
      BY <2>1 DEF IInv, MovesInv, ChunkShares, LatShares, Chunked, Lat, Moved,
         each_thread_rw_extend_num, each_thread_access_num, Threads
    <2> QED BY <2>1, <2>2, <2>3, <2>4 DEF IInv, MovesInv
  <1> QED BY <1>1, <1>2, <1>3, <1>4, MainStep, ThreadStep DEF Next, Run

LEMMA IInvImplies == IInv => NoBlockShared
  <1> SUFFICES ASSUME IInv, NEW t \in DOMAIN moves, NEW u \in DOMAIN moves, t # u,
                      NEW b, b \in Moved(t), b \in Moved(u)
               PROVE  FALSE
    BY DEF NoBlockShared
  <1>1. PICK k \in Nat : DOMAIN moves = 0..k - 1 /\ (Lat => k <= round)
    BY DEF IInv, MovesInv, Counted
  <1>2. t \in Nat /\ u \in Nat
    BY <1>1
  <1>3. place = "run"
    BY DEF IInv, Control
  <1>4. Chunked \/ Lat
    BY <1>3 DEF IInv, Control, Chunked, Lat
  <1>5. CASE Chunked
    <2>1. each_thread_rw_extend_num \in Nat
      BY <1>5, ThreadsType DEF IInv
    <2>2. /\ b[1] \in Share(t, each_thread_rw_extend_num)
          /\ b[1] \in Share(u, each_thread_rw_extend_num)
      BY <1>5 DEF IInv, MovesInv, ChunkShares
    <2> QED BY <1>2, <2>1, <2>2, SharesApart
  <1>6. CASE Lat
    <2> DEFINE n == each_thread_access_num
    <2>1. round \in Nat \ {0} /\ LatBlocks \in Nat /\ Shuffled
      BY <1>3, <1>6, LatBwAssumption DEF IInv, Control
    <2>2. n = LatBlocks \div round /\ n \in Nat
      BY <2>1, Quotient DEF each_thread_access_num
    <2>3. PICK i \in Share(t, n) : b[2] = pattern[i]
      BY <1>6 DEF IInv, MovesInv, LatShares
    <2>4. PICK j \in Share(u, n) : b[2] = pattern[j]
      BY <1>6 DEF IInv, MovesInv, LatShares
    <2>5. t \in 0..round - 1 /\ u \in 0..round - 1
      BY <1>1, <1>6, <2>1
    <2> HIDE DEF n
    <2>6. i \in LatIndex /\ j \in LatIndex
      BY <2>1, <2>2, <2>5, SharesInside DEF LatIndex
    <2>7. i = j
      BY <2>1, <2>3, <2>4, <2>6 DEF Shuffled
    <2> QED BY <1>2, <2>2, <2>7, SharesApart
  <1> QED BY <1>4, <1>5, <1>6

LEMMA AlwaysIInv == Spec => []IInv
  BY InitIInv, NextIInv, PTL DEF Spec

\* Whatever the sizes, the number of threads and the random choices, no two threads
\* of a round touch the same block.
THEOREM ThreadsStayApart == Spec => []NoBlockShared
  BY AlwaysIInv, IInvImplies, PTL

-----------------------------------------------------------------------------
(* The kernel and the program.  From Creat to Cleanup the object is there,   *)
(* holds the chunks in addrs, and is all that was added.                     *)

IsMap(f) == f = [x \in DOMAIN f |-> f[x]]
Made == {"prepare", "part", "shuffle", "open", "run", "cleanup"}

Laid ==
  /\ Name \in DOMAIN objects
  /\ \E k \in Nat : /\ DOMAIN addrs = 0..k - 1
                    /\ objects[Name] = [i \in 1..k |-> addrs[i - 1]]

Added == Name \notin DOMAIN before /\ before = Without(objects, Name)

KernelInv ==
  /\ IsMap(objects)
  /\ program = "none" <=> place \in {"none", "ended"}
  /\ place \in Made \cup {"none", "ended", "creat"}
  /\ place \notin Made => descriptors = Empty /\ addrs = Empty
  /\ \A p \in DOMAIN descriptors : descriptors[p] = Name
  /\ (place = "creat" /\ program # "test") => objects = before
  /\ place \in Made => Laid /\ Added
  /\ place = "ended" => objects = before
  /\ (Lat /\ place = "prepare") => addrs = Empty
  /\ program = "test" => place = "creat"

\* What main() of the chunk programs does
Preparing ==
  \/ program \in {"seqread", "seqwrite"} /\ Prepare(NoPattern, "open")
  \/ program \in {"randread", "randwrite"} /\ Prepare(Patterns, "open")
  \/ program = "bw" /\ Prepare(NoPattern, "part")

Beginning ==
  /\ program = "bw"
  /\ \/ part \in {1, 2} /\ Begin({pattern})
     \/ part \in {3, 4} /\ Begin(Patterns)

Single == {"seqread", "seqwrite", "randread", "randwrite"}

Measuring ==
  \/ program \in Single /\ Measure("cleanup")
  \/ program = "bw" /\ part \in {1, 2, 3} /\ Measure("part")
  \/ program = "bw" /\ part = 4 /\ Measure("cleanup")

LEMMA MainCases ==
  ASSUME Main
  PROVE  \/ Chunked /\ (Preparing \/ Beginning \/ Measuring \/ Cleanup)
         \/ lat_main \/ test_main
  <1>1. CASE \/ seqread_Prepare \/ seqwrite_Prepare \/ randread_Prepare
             \/ randwrite_Prepare \/ bw_Prepare
    BY <1>1 DEF seqread_Prepare, seqwrite_Prepare, randread_Prepare, randwrite_Prepare,
                bw_Prepare, Running, Chunked, Preparing
  <1>2. CASE \/ seqread_main \/ seqwrite_main \/ randread_main \/ randwrite_main
    BY <1>2 DEF seqread_main, seqwrite_main, randread_main, randwrite_main, Running,
                Chunked, Measuring, Single
  <1>3. CASE \/ seqread_Cleanup \/ seqwrite_Cleanup \/ randread_Cleanup
             \/ randwrite_Cleanup \/ bw_Cleanup
    BY <1>3 DEF seqread_Cleanup, seqwrite_Cleanup, randread_Cleanup, randwrite_Cleanup,
                bw_Cleanup, Running, Chunked
  <1>4. CASE bw_SeqRead \/ bw_SeqWrite \/ bw_RandRead \/ bw_RandWrite
    BY <1>4 DEF bw_SeqRead, bw_SeqWrite, bw_RandRead, bw_RandWrite, Running, Chunked,
                Beginning, Measuring
  <1> QED BY <1>1, <1>2, <1>3, <1>4 DEF Main

LEMMA KernelEnds ==
  ASSUME IsMap(objects'), NEW where \in {"none", "ended"}, Gone(where),
         where = "ended" => objects' = before'
  PROVE  KernelInv'
  <1>1. /\ program' = "none" /\ place' = where /\ descriptors' = Empty /\ addrs' = Empty
        /\ place' \notin Made /\ place' # "creat"
    BY DEF Gone, Made
  <1>2. DOMAIN descriptors' = {}
    BY <1>1 DEF Empty
  <1> QED BY <1>1, <1>2 DEF KernelInv, Lat

LEMMA KernelStays ==
  ASSUME KernelInv, place \in Made, place' \in Made, Lat => place' # "prepare",
         UNCHANGED <<objects, program, addrs, before>>,
         \A p \in DOMAIN descriptors' : descriptors'[p] = Name
  PROVE  KernelInv'
  <1>1. Name' = Name /\ Lat' = Lat
    BY DEF Name, Lat
  <1>2. Laid' /\ Added'
    BY <1>1 DEF KernelInv, Laid, Added
  <1>3. IsMap(objects')
    BY DEF KernelInv
  <1>4. place' \notin {"none", "ended", "creat"} /\ program' # "none" /\ program' # "test"
    BY DEF Made, KernelInv
  <1> QED BY <1>1, <1>2, <1>3, <1>4 DEF KernelInv, Made

LEMMA KernelCreat ==
  ASSUME KernelInv, Creat, program # "test", program # "none"
  PROVE  KernelInv'
  <1>1. PICK pod \in FreePods : po_creat(Name, pod)
    BY DEF Creat
  <1>2. /\ place = "creat" /\ place' = "prepare" /\ UNCHANGED <<program, addrs, before>>
        /\ objects' = With(objects, Name, <<>>) /\ Name \notin DOMAIN objects
        /\ descriptors' = With(descriptors, pod, Name)
    BY <1>1 DEF Creat, po_creat
  <1>3. objects = before /\ descriptors = Empty /\ addrs = Empty
    BY <1>2 DEF KernelInv, Made
  <1>4. Name' = Name
    BY <1>2 DEF Name
  <1>5. IsMap(objects')
    BY <1>2 DEF IsMap, With
  <1>6. Laid'
    <2>1. Name \in DOMAIN objects' /\ objects'[Name] = <<>>
      BY <1>2 DEF With
    <2>2. DOMAIN addrs' = 0..0 - 1 /\ 0 \in Nat
      BY <1>2, <1>3 DEF Empty
    <2>3. <<>> = [i \in 1..0 |-> addrs'[i - 1]]
      OBVIOUS
    <2> QED BY <1>4, <2>1, <2>2, <2>3 DEF Laid
  <1>7. Added'
    <2>1. Without(objects', Name) = [x \in DOMAIN objects |-> objects[x]]
      BY <1>2 DEF With, Without
    <2>2. Without(objects', Name) = before
      BY <1>3, <2>1 DEF KernelInv, IsMap
    <2> QED BY <1>2, <1>3, <1>4, <2>2 DEF Added
  <1>8. \A p \in DOMAIN descriptors' : descriptors'[p] = Name'
    BY <1>2, <1>3, <1>4 DEF With, Empty
  <1> QED BY <1>2, <1>3, <1>5, <1>6, <1>7, <1>8 DEF KernelInv, Made

LEMMA AppendChunk ==
  ASSUME NEW k \in Nat, NEW f, NEW a
  PROVE  Append([i \in 1..k |-> f[i - 1]], a) = [i \in 1..k + 1 |-> With(f, k, a)[i - 1]]
         \/ DOMAIN f # 0..k - 1
  <1> SUFFICES ASSUME DOMAIN f = 0..k - 1
               PROVE  Append([i \in 1..k |-> f[i - 1]], a)
                        = [i \in 1..k + 1 |-> With(f, k, a)[i - 1]]
    OBVIOUS
  <1> DEFINE s == [i \in 1..k |-> f[i - 1]]
             t == [i \in 1..k + 1 |-> With(f, k, a)[i - 1]]
             S == {f[j] : j \in 0..k - 1} \cup {a}
  <1>1. s \in Seq(S) /\ Len(s) = k
    OBVIOUS
  <1>2. \A i \in 1..k : With(f, k, a)[i - 1] = f[i - 1]
    BY DEF With
  <1>3. With(f, k, a)[k] = a
    BY DEF With
  <1>4. \A i \in 1..k + 1 : t[i] = IF i = k + 1 THEN a ELSE s[i]
    BY <1>2, <1>3
  <1>5. ASSUME NEW i \in 1..k + 1
        PROVE  t[i] \in S
    <2>1. CASE i = k + 1
      BY <1>4, <2>1
    <2>2. CASE i # k + 1
      <3>1. i - 1 \in 0..k - 1 /\ i \in 1..k
        BY <2>2
      <3>2. t[i] = f[i - 1]
        BY <1>2, <3>1
      <3> HIDE DEF t
      <3> QED BY <3>1, <3>2
    <2> QED BY <2>1, <2>2
  <1>6. t \in Seq(S) /\ Len(t) = k + 1
    BY <1>5
  <1> HIDE DEF s, t, S
  <1>7. a \in S
    BY DEF S
  <1>8. Append(s, a) \in Seq(S) /\ Len(Append(s, a)) = k + 1
        /\ \A i \in 1..k + 1 : Append(s, a)[i] = IF i = k + 1 THEN a ELSE s[i]
    <2>1. \A i \in 1..k : Append(s, a)[i] = s[i]
      BY <1>1
    <2>2. Append(s, a)[k + 1] = a
      BY <1>1
    <2>3. Append(s, a) \in Seq(S) /\ Len(Append(s, a)) = k + 1
      BY <1>1, <1>7
    <2> QED BY <2>1, <2>2, <2>3
  <1>9. Append(s, a) = t
    BY <1>4, <1>6, <1>8, SeqEqual
  <1> QED BY <1>9 DEF s, t

LEMMA KernelExtend ==
  ASSUME KernelInv, place = "prepare", NEW i \in Nat, ExtendChunk(i), DOMAIN addrs = 0..i - 1,
         place' \in {"prepare", "part"}, Lat => place' = "part"
  PROVE  KernelInv'
  <1>1. /\ UNCHANGED <<descriptors, program, before>>
        /\ addrs' = With(addrs, i, AnyFree)
        /\ Laid /\ Added
    BY DEF ExtendChunk, KernelInv, Made
  <1>2. PICK pod \in DOMAIN descriptors : po_extend(pod, AnyFree)
    BY DEF ExtendChunk
  <1>3. objects' = With(objects, Name, Append(objects[Name], AnyFree))
    BY <1>2 DEF po_extend, KernelInv
  <1>4. Name' = Name
    BY <1>1 DEF Name
  <1>5. PICK k \in Nat : /\ DOMAIN addrs = 0..k - 1
                         /\ objects[Name] = [j \in 1..k |-> addrs[j - 1]]
    BY <1>1 DEF Laid
  <1>6. k = i
    BY <1>5
  <1>7. objects'[Name] = [j \in 1..i + 1 |-> addrs'[j - 1]] /\ Name \in DOMAIN objects'
    <2>1. objects'[Name] = Append(objects[Name], AnyFree)
      BY <1>3 DEF With
    <2> HIDE DEF AnyFree
    <2> QED BY <1>1, <1>3, <1>5, <1>6, <2>1, AppendChunk DEF With
  <1>8. DOMAIN addrs' = 0..(i + 1) - 1 /\ i + 1 \in Nat
    BY <1>1 DEF With
  <1>9. Laid'
    BY <1>4, <1>7, <1>8 DEF Laid
  <1>10. Added'
    <2>1. Without(objects', Name) = Without(objects, Name)
      BY <1>3 DEF With, Without
    <2> QED BY <1>1, <1>4, <2>1 DEF Added
  <1>11. IsMap(objects')
    BY <1>3 DEF IsMap, With
  <1>12. program' # "none" /\ program' # "test"
    BY <1>1 DEF KernelInv
  <1>13. \A p \in DOMAIN descriptors' : descriptors'[p] = Name'
    BY <1>1, <1>4 DEF KernelInv
  <1> QED BY <1>1, <1>9, <1>10, <1>11, <1>12, <1>13 DEF KernelInv, Made, Lat

LEMMA PreparedIs ==
  ASSUME NEW k \in Nat, DOMAIN addrs = 0..k - 1
  PROVE  Prepared = k
  BY HowMany DEF Prepared

LEMMA KernelPrepare ==
  ASSUME KernelInv, Chunked, NEW patterns, NEW after \in {"open", "part"},
         Prepare(patterns, after)
  PROVE  KernelInv'
  <1>1. program \notin {"none", "test"} /\ ~Lat
    BY DEF Chunked, Lat
  <1>2. CASE Creat
    BY <1>1, <1>2, KernelCreat
  <1>3. CASE CreatFails \/ ExtendFails
    BY <1>3, KernelEnds DEF CreatFails, ExtendFails, KernelInv
  <1>4. CASE place = "prepare" /\ ExtendChunk(Prepared) /\ UNCHANGED place
    <2>1. PICK k \in Nat : DOMAIN addrs = 0..k - 1
      BY <1>4 DEF KernelInv, Made, Laid
    <2>2. Prepared = k
      BY <2>1, PreparedIs
    <2> QED BY <1>1, <1>4, <2>1, <2>2, KernelExtend
  <1>5. CASE /\ place = "prepare" /\ CloseAll /\ place' = after
             /\ UNCHANGED <<objects, program, part, round, moves, addrs, written, before>>
    BY <1>1, <1>5, KernelStays DEF Made, CloseAll, Empty
  <1> QED BY <1>2, <1>3, <1>4, <1>5 DEF Prepare

LEMMA KernelCleanup ==
  ASSUME KernelInv, Cleanup
  PROVE  KernelInv'
  <1>1. place = "cleanup" /\ Laid /\ Added /\ before' = before
    BY DEF Cleanup, KernelInv, Made
  <1>2. objects' = Without(objects, Name)
    BY <1>1 DEF Cleanup, po_unlink, Laid
  <1>3. IsMap(objects') /\ objects' = before'
    BY <1>1, <1>2 DEF IsMap, Without, Added
  <1> QED BY <1>3, KernelEnds DEF Cleanup

\* The object is there: opening it changes nothing.
LEMMA KernelMeasure ==
  ASSUME KernelInv, Chunked, NEW after \in {"part", "cleanup"}, Measure(after)
  PROVE  KernelInv'
  <1>1. ~Lat
    BY DEF Chunked, Lat
  <1>2. CASE OpenRound
    <2>1. place \in Made /\ place' \in Made /\ UNCHANGED <<program, addrs, before>>
      BY <1>2 DEF OpenRound, Made
    <2>2. Name \in DOMAIN objects
      BY <2>1 DEF KernelInv, Laid
    <2>3. objects' = objects
      BY <1>2, <2>2 DEF OpenRound, Opened, kernel
    <2>4. \A p \in DOMAIN descriptors' : descriptors'[p] = Name
      <3>1. \/ descriptors' = descriptors
            \/ \E pod : descriptors' = With(descriptors, pod, Name)
        BY <1>2 DEF OpenRound, kernel
      <3>2. \A p \in DOMAIN descriptors : descriptors[p] = Name
        BY DEF KernelInv
      <3> QED BY <3>1, <3>2 DEF With
    <2> QED BY <1>1, <2>1, <2>3, <2>4, KernelStays
  <1>3. CASE Spawn(Threads)
    BY <1>1, <1>3, KernelStays DEF Spawn, Made, kernel, KernelInv
  <1>4. CASE Join(after)
    <2>1. /\ place \in Made /\ place' \in {"open", after}
          /\ UNCHANGED <<objects, program, addrs, before>> /\ descriptors' = Empty
      BY <1>4 DEF Join, Joined, NextRound, Made, CloseAll
    <2> QED BY <1>1, <2>1, KernelStays DEF Made, Empty
  <1> QED BY <1>2, <1>3, <1>4 DEF Measure

LEMMA KernelBegin ==
  ASSUME KernelInv, Chunked, NEW patterns, Begin(patterns)
  PROVE  KernelInv'
  BY KernelStays DEF Begin, Made, kernel, KernelInv, Chunked, Lat

LEMMA KernelMove ==
  ASSUME KernelInv, NEW t, NEW quota, NEW block, MoveBlock(t, quota, block)
  PROVE  KernelInv'
  BY KernelStays DEF MoveBlock, Made, kernel, KernelInv

LEMMA KernelThread ==
  ASSUME KernelInv, NEW t, Thread(t)
  PROVE  KernelInv'
  <1>1. \E quota, block : MoveBlock(t, quota, block)
    BY DEF Thread, seqread_SeqReadThread, seqwrite_SeqWriteThread,
       randread_RandReadThread, randwrite_RandWriteThread, bw_SeqReadThread,
       bw_SeqWriteThread, bw_RandReadThread, bw_RandWriteThread, read_thread, write_thread,
       SeqReading, SeqWriting, RandReading, RandWriting, ReadBlock, WriteBlock
  <1> QED BY <1>1, KernelMove

LEMMA KernelLat ==
  ASSUME KernelInv, lat_main
  PROVE  KernelInv'
  <1>1. Lat /\ program # "none" /\ program # "test"
    BY DEF lat_main, lat_Prepare, lat_Populate, lat_Shuffle, lat_seqread, lat_seqwrite,
       lat_randread, lat_randwrite, lat_Cleanup, Running, Lat
  <1>2. CASE lat_Prepare
    <2>1. CASE Creat
      BY <1>1, <2>1, KernelCreat
    <2>2. CASE CreatFails \/ ExtendFails
      BY <2>2, KernelEnds DEF CreatFails, ExtendFails, KernelInv
    <2>3. CASE place = "prepare" /\ ExtendChunk(0) /\ place' = "part"
      <3>1. DOMAIN addrs = 0..0 - 1 /\ 0 \in Nat
        BY <1>1, <2>3 DEF KernelInv, Empty
      <3> QED BY <2>3, <3>1, KernelExtend
    <2> QED BY <1>2, <2>1, <2>2, <2>3 DEF lat_Prepare
  <1>3. CASE lat_Populate
    BY <1>3, KernelStays DEF lat_Populate, Made, kernel, KernelInv
  <1>4. CASE lat_Shuffle
    <2>1. place \in Made /\ place' \in {"shuffle", "run"}
          /\ UNCHANGED <<objects, descriptors, program, addrs, before>>
      BY <1>4 DEF lat_Shuffle, Made, kernel
    <2> QED BY <2>1, KernelStays DEF Made, KernelInv
  <1>5. ASSUME NEW after \in {"part", "cleanup"}, Spawn(round) \/ lat_Join(after)
        PROVE  KernelInv'
    <2>1. place \in Made /\ place' \in {"run", after}
          /\ UNCHANGED <<objects, descriptors, program, addrs, before>>
      BY <1>5 DEF Spawn, lat_Join, Joined, NextRound, Made, kernel
    <2> QED BY <2>1, KernelStays DEF Made, KernelInv
  <1>6. CASE lat_Cleanup
    BY <1>6, KernelCleanup DEF lat_Cleanup
  <1> QED BY <1>2, <1>3, <1>4, <1>5, <1>6
          DEF lat_main, lat_seqread, lat_seqwrite, lat_randread, lat_randwrite

-----------------------------------------------------------------------------
(* microbenchmarks/test.c takes back what it made: what it has made so far   *)
(* is the names up to round, which are different ones, as each was new.      *)

Passed == IF part = 1 THEN 1..round - 1 ELSE 1..Len(ponames)
Present == IF part = 4 THEN round..Len(ponames) ELSE Passed

TestInv ==
  program = "test" =>
    /\ part \in 1..4 /\ round \in 1..Len(ponames) + 1
    /\ IsMap(before)
    /\ \A i, j \in Passed : ponames[i] = ponames[j] => i = j
    /\ \A i \in Passed : ponames[i] \notin DOMAIN before
    /\ DOMAIN objects = DOMAIN before \cup {ponames[i] : i \in Present}
    /\ \A n \in DOMAIN before : objects[n] = before[n]

LEMMA PonamesLen == Len(ponames) \in Nat \ {0} /\ \A i \in 1..Len(ponames) : ponames[i] \in Names
  <1>1. ponames \in Seq(Names) /\ ponames # <<>>
    BY PonamesAssumption
  <1> QED BY <1>1, ElementOfSeq

LEMMA TestLoop ==
  ASSUME TestInv, KernelInv, Loop(part), NextName, IsMap(objects'),
         \/ part = 1 /\ poname \notin DOMAIN objects /\ objects' = With(objects, poname, <<>>)
         \/ part = 2 /\ poname \in DOMAIN objects
              /\ \E v : objects' = With(objects, poname, v)
         \/ part = 3 /\ objects' = objects
         \/ part = 4 /\ objects' = Without(objects, poname)
  PROVE  TestInv' /\ KernelInv'
  <1>1. /\ program = "test" /\ round \in 1..Len(ponames) /\ round' = round + 1
        /\ UNCHANGED <<descriptors, program, place, part, addrs, before>>
        /\ poname = ponames[round] /\ Len(ponames) \in Nat
    BY PonamesLen DEF Loop, Running, NextName, TestInv, poname
  <1>2. KernelInv'
    <2>1. place = "creat" /\ place \notin Made
      BY <1>1 DEF KernelInv, Made
    <2>2. descriptors = Empty /\ addrs = Empty
      BY <2>1 DEF KernelInv
    <2> QED BY <1>1, <2>1, <2>2 DEF KernelInv, Made, Lat, Empty
  <1>3. part' \in 1..4 /\ round' \in 1..Len(ponames) + 1 /\ IsMap(before')
    BY <1>1 DEF TestInv
  <1>4. CASE part = 1
    <2>1. objects' = With(objects, poname, <<>>) /\ poname \notin DOMAIN objects
      BY <1>4
    <2>2. Passed = 1..round - 1 /\ Passed' = 1..round /\ Present' = Passed' /\ Present = Passed
      BY <1>1, <1>4 DEF Passed, Present
    <2>3. DOMAIN objects = DOMAIN before \cup {ponames[i] : i \in 1..round - 1}
      BY <1>1, <2>2 DEF TestInv
    <2>4. \A i \in 1..round - 1 : ponames[i] # ponames[round]
      BY <1>1, <2>1, <2>3
    <2>5. ponames[round] \notin DOMAIN before
      BY <1>1, <2>1, <2>3
    <2>6. 1..round = 1..round - 1 \cup {round}
      BY <1>1
    <2>7. \A i, j \in Passed' : ponames[i] = ponames[j] => i = j
      BY <1>1, <2>2, <2>4, <2>6 DEF TestInv
    <2>8. \A i \in Passed' : ponames[i] \notin DOMAIN before
      BY <1>1, <2>2, <2>5, <2>6 DEF TestInv
    <2>9. DOMAIN objects' = DOMAIN before \cup {ponames[i] : i \in Present'}
      <3>1. DOMAIN objects' = DOMAIN objects \cup {ponames[round]}
        BY <1>1, <2>1 DEF With
      <3>2. {ponames[i] : i \in 1..round} = {ponames[i] : i \in 1..round - 1} \cup {ponames[round]}
        BY <2>6
      <3> QED BY <2>2, <2>3, <3>1, <3>2
    <2>10. \A n \in DOMAIN before : objects'[n] = before[n]
      BY <1>1, <2>1, <2>3, <2>5 DEF With, TestInv
    <2> QED BY <1>1, <1>2, <1>3, <2>7, <2>8, <2>9, <2>10 DEF TestInv
  <1>5. CASE part \in {2, 3}
    <2>1. Passed = 1..Len(ponames) /\ Passed' = Passed /\ Present' = Passed /\ Present = Passed
      BY <1>1, <1>5 DEF Passed, Present
    <2>2. poname \notin DOMAIN before
      BY <1>1, <2>1 DEF TestInv
    <2>3. /\ DOMAIN objects' = DOMAIN objects
          /\ \A n \in DOMAIN objects : n # poname => objects'[n] = objects[n]
      <3>1. CASE objects' = objects
        BY <3>1
      <3>2. CASE poname \in DOMAIN objects /\ \E v : objects' = With(objects, poname, v)
        BY <3>2 DEF With
      <3> QED BY <1>5, <3>1, <3>2
    <2>4. \A n \in DOMAIN before : objects'[n] = before[n]
      BY <1>1, <2>2, <2>3 DEF TestInv
    <2> QED BY <1>1, <1>2, <1>3, <2>1, <2>3, <2>4 DEF TestInv
  <1>6. CASE part = 4
    <2>1. /\ Passed = 1..Len(ponames) /\ Passed' = Passed
          /\ Present = round..Len(ponames) /\ Present' = round + 1..Len(ponames)
      BY <1>1, <1>6 DEF Passed, Present
    <2>2. poname \notin DOMAIN before /\ objects' = Without(objects, poname)
      BY <1>1, <1>6, <2>1 DEF TestInv
    <2>3. \A i \in round + 1..Len(ponames) : ponames[i] # ponames[round]
      <3>1. ASSUME NEW i \in round + 1..Len(ponames), ponames[i] = ponames[round]
            PROVE  FALSE
        <4>1. i \in 1..Len(ponames) /\ i # round
          BY <1>1
        <4> QED BY <1>1, <2>1, <3>1, <4>1 DEF TestInv
      <3> QED BY <3>1
    <2>4. round..Len(ponames) = {round} \cup (round + 1..Len(ponames))
      BY <1>1
    <2>5. DOMAIN objects' = DOMAIN before \cup {ponames[i] : i \in Present'}
      <3>1. DOMAIN objects = DOMAIN before \cup {ponames[i] : i \in round..Len(ponames)}
        BY <1>1, <2>1 DEF TestInv
      <3>2. DOMAIN objects' = DOMAIN objects \ {ponames[round]}
        BY <1>1, <2>2 DEF Without
      <3> QED BY <1>1, <2>1, <2>2, <2>3, <2>4, <3>1, <3>2
    <2>6. \A n \in DOMAIN before : objects'[n] = before[n]
      BY <1>1, <2>2 DEF Without, TestInv
    <2> QED BY <1>1, <1>2, <1>3, <2>1, <2>5, <2>6 DEF TestInv
  <1>7. part \in 1..4
    BY <1>1 DEF TestInv
  <1> QED BY <1>4, <1>5, <1>6, <1>7

LEMMA MapsAgree ==
  ASSUME NEW f, NEW g, IsMap(f), IsMap(g), DOMAIN f = DOMAIN g,
         \A x \in DOMAIN g : f[x] = g[x]
  PROVE  f = g
  BY DEF IsMap

LEMMA KernelTest ==
  ASSUME TestInv, KernelInv, test_main
  PROVE  TestInv' /\ KernelInv'
  <1>1. program = "test" /\ Len(ponames) \in Nat \ {0}
    BY PonamesLen DEF test_main, my_create, my_append, my_open_and_close, my_delete, my_exit,
                      Loop, Running
  <1>2. IsMap(objects) /\ IsMap(before)
    BY <1>1 DEF KernelInv, TestInv
  <1>3. CASE my_create
    BY <1>3, TestLoop DEF my_create, Loop, IsMap, With
  <1>4. CASE my_append
    BY <1>4, TestLoop DEF my_append, Loop, IsMap, With
  <1>5. CASE my_open_and_close
    BY <1>2, <1>5, TestLoop DEF my_open_and_close, Loop
  <1>6. CASE my_delete
    BY <1>6, TestLoop DEF my_delete, po_unlink, Loop, IsMap, Without
  <1>7. CASE my_exit
    <2>1. Gone("none") /\ objects' = objects
      BY <1>7 DEF my_exit
    <2>2. KernelInv'
      BY <1>2, <2>1, KernelEnds
    <2> QED BY <2>1, <2>2 DEF TestInv, Gone
  <1>8. CASE /\ round > Len(ponames) /\ part < 4
             /\ part' = part + 1 /\ round' = 1
             /\ UNCHANGED <<kernel, program, place, moves, addrs, pattern, written, before>>
    <2>1. /\ part \in {1, 2, 3} /\ round = Len(ponames) + 1 /\ part' \in {2, 3, 4}
          /\ part' \in 1..4 /\ round' \in 1..Len(ponames) + 1 /\ part' # 1
      BY <1>1, <1>8 DEF TestInv
    <2>2. Passed = 1..Len(ponames) /\ Passed' = 1..Len(ponames)
      BY <1>1, <2>1 DEF Passed
    <2>3. Present = 1..Len(ponames)
      BY <2>1, <2>2 DEF Present
    <2>4. Present' = 1..Len(ponames)
      BY <1>8, <2>2 DEF Present
    <2>5. TestInv'
      BY <1>1, <1>2, <1>8, <2>1, <2>2, <2>3, <2>4 DEF TestInv, kernel
    <2>6. UNCHANGED <<objects, descriptors, program, place, addrs, before>>
      BY <1>8 DEF kernel
    <2>7. KernelInv'
      BY <2>6 DEF KernelInv, Laid, Added, Name, Lat
    <2> QED BY <2>5, <2>7
  <1>9. CASE /\ round > Len(ponames) /\ ~(part < 4)
             /\ Gone("ended") /\ UNCHANGED <<objects, before>>
    <2>1. part = 4 /\ round = Len(ponames) + 1
      BY <1>1, <1>9 DEF TestInv
    <2>2. Present = {}
      BY <1>1, <2>1 DEF Present
    <2>3. objects = before
      BY <1>1, <1>2, <2>2, MapsAgree DEF TestInv
    <2>4. KernelInv'
      BY <1>2, <1>9, <2>3, KernelEnds
    <2> QED BY <1>9, <2>4 DEF TestInv, Gone
  <1> QED BY <1>3, <1>4, <1>5, <1>6, <1>7, <1>8, <1>9 DEF test_main

Rested == program = "none" => part = 1

KernelAll == KernelInv /\ TestInv /\ Rested

LEMMA KernelInit == Init => KernelAll
  <1> SUFFICES ASSUME Init PROVE KernelAll
    OBVIOUS
  <1>1. KernelInv
    BY DEF Init, KernelInv, IsMap, Made, Empty, Lat
  <1> QED BY <1>1 DEF Init, KernelAll, TestInv, Rested

LEMMA KernelStart ==
  ASSUME IInv, KernelAll, NEW p \in Programs, Start(p)
  PROVE  KernelAll'
  <1>1. /\ program = "none" /\ program' = p /\ p # "none" /\ place' = "creat"
        /\ before' = objects
        /\ UNCHANGED <<objects, descriptors, part, round, addrs>>
    BY BenchmarkAssumption DEF Start, kernel
  <1>2. round = 1 /\ part = 1 /\ descriptors = Empty /\ addrs = Empty /\ IsMap(objects)
    BY <1>1 DEF IInv, Control, KernelAll, KernelInv, Rested, Made
  <1>3. KernelInv'
    BY <1>1, <1>2 DEF KernelInv, Made, Empty, Lat
  <1>4. TestInv'
    <2>1. Passed' = {} /\ Present' = {}
      BY <1>1, <1>2 DEF Passed, Present
    <2>2. part' \in 1..4 /\ round' \in 1..Len(ponames) + 1
      BY <1>1, <1>2, PonamesLen
    <2> QED BY <1>1, <1>2, <2>1, <2>2 DEF TestInv
  <1> QED BY <1>1, <1>3, <1>4 DEF KernelAll, Rested

LEMMA NextKernel == IInv /\ KernelAll /\ [Next]_bench => KernelAll'
  <1> SUFFICES ASSUME IInv, KernelAll, [Next]_bench PROVE KernelAll'
    OBVIOUS
  <1>1. CASE Die
    <2>1. KernelInv'
      BY <1>1, KernelEnds DEF Die, KernelAll, KernelInv
    <2> QED BY <1>1, <2>1 DEF Die, Gone, KernelAll, TestInv, Rested
  <1>2. CASE DeletePo
    <2>1. /\ program = "none" /\ program' = "none" /\ place' = "none" /\ part' = part
          /\ UNCHANGED <<descriptors, addrs>>
          /\ \E name : objects' = Without(objects, name)
      BY <1>2 DEF DeletePo, po_unlink
    <2>2. IsMap(objects')
      BY <2>1 DEF IsMap, Without
    <2>3. descriptors = Empty /\ addrs = Empty
      BY <2>1 DEF KernelAll, KernelInv, Made
    <2>4. KernelInv'
      BY <2>1, <2>2, <2>3 DEF KernelInv, Made, Empty, Lat
    <2> QED BY <2>1, <2>4 DEF KernelAll, TestInv, Rested
  <1>3. CASE Main
    <2>1. CASE test_main
      <3>1. program' = "none" => part' = 1
        BY <2>1 DEF test_main, my_create, my_append, my_open_and_close, my_delete, my_exit,
                    Loop, Running, NextName, Gone
      <3> QED BY <2>1, <3>1, KernelTest DEF KernelAll, Rested
    <2>2. CASE lat_main
      <3>1. Lat /\ program' \in {program, "none"} /\ (program' = "none" => part' = 1)
        BY <2>2 DEF lat_main, lat_Prepare, lat_Populate, lat_Shuffle, lat_seqread,
           lat_seqwrite, lat_randread, lat_randwrite, lat_Cleanup, Running, Lat, Creat,
           CreatFails, ExtendChunk, ExtendFails, Gone, Spawn, lat_Join, NextRound, Cleanup
      <3> QED BY <2>2, <3>1, KernelLat DEF KernelAll, TestInv, Rested, Lat
    <2>3. CASE Chunked /\ (Preparing \/ Beginning \/ Measuring \/ Cleanup)
      <3>1. program' \in {program, "none"} /\ (program' = "none" => part' = 1)
        BY <2>3 DEF Chunked, Preparing, Beginning, Measuring, Prepare, Begin, Measure, Creat,
           CreatFails, ExtendChunk, ExtendFails, Gone, Spawn, Join, NextRound, OpenRound,
           Cleanup
      <3>2. KernelInv'
        BY <2>3, KernelPrepare, KernelBegin, KernelMeasure, KernelCleanup
           DEF KernelAll, Preparing, Beginning, Measuring
      <3> QED BY <2>3, <3>1, <3>2 DEF KernelAll, TestInv, Rested, Chunked
    <2> QED BY <1>3, <2>1, <2>2, <2>3, MainCases
  <1>4. ASSUME NEW t \in DOMAIN moves, Thread(t)
        PROVE  KernelAll'
    <2>1. program' = program /\ program \notin {"none", "test"}
      BY <1>4 DEF Thread, seqread_SeqReadThread, seqwrite_SeqWriteThread,
         randread_RandReadThread, randwrite_RandWriteThread, bw_SeqReadThread,
         bw_SeqWriteThread, bw_RandReadThread, bw_RandWriteThread, read_thread, write_thread,
         SeqReading, SeqWriting, RandReading, RandWriting, ReadBlock, WriteBlock, MoveBlock,
         Running
    <2> QED BY <1>4, <2>1, KernelThread DEF KernelAll, TestInv, Rested
  <1>5. CASE UNCHANGED bench
    <2>1. UNCHANGED <<objects, descriptors, program, place, part, round, addrs, before>>
      BY <1>5 DEF bench, process, kernel
    <2>2. KernelInv'
      BY <2>1 DEF KernelAll, KernelInv, Laid, Added, Name, Lat
    <2>3. TestInv' /\ Rested'
      BY <2>1 DEF KernelAll, TestInv, Rested, Passed, Present
    <2> QED BY <2>2, <2>3 DEF KernelAll
  <1> QED BY <1>1, <1>2, <1>3, <1>4, <1>5, KernelStart DEF Next, Run

LEMMA AlwaysKernel == Spec => []KernelAll
  BY KernelInit, NextKernel, AlwaysIInv, PTL DEF Spec

\* A measurement never runs on what an earlier process left behind, whether or
\* not po_open succeeds: for any number of chunks, programs and crashes.
THEOREM MeasuresItsOwnObject == Spec => []ObjectIsAddrs
  <1>1. KernelAll => ObjectIsAddrs
    <2> SUFFICES ASSUME KernelInv, place \in {"part", "shuffle", "open", "run", "cleanup"}
                 PROVE  /\ Name \in DOMAIN objects
                        /\ objects[Name] = [i \in 1..Prepared |-> addrs[i - 1]]
      BY DEF KernelAll, ObjectIsAddrs
    <2>1. Laid
      BY DEF KernelInv, Made
    <2>2. PICK k \in Nat : /\ DOMAIN addrs = 0..k - 1
                           /\ objects[Name] = [i \in 1..k |-> addrs[i - 1]]
      BY <2>1 DEF Laid
    <2>3. Prepared = k
      BY <2>2, PreparedIs
    <2> QED BY <2>1, <2>2, <2>3 DEF Laid
  <1> QED BY <1>1, AlwaysKernel, PTL

\* A program that gets to its end leaves the kernel as it was when it started:
\* also the four loops of test.c over any list of names.
THEOREM LeavesNothingBehind == Spec => []RestoresKernel
  <1>1. KernelAll => RestoresKernel
    BY DEF KernelAll, KernelInv, RestoresKernel
  <1> QED BY <1>1, AlwaysKernel, PTL

-----------------------------------------------------------------------------
(* Types.  What is overwritten has an address because the chunks a thread    *)
(* moves are among those in addrs, and a block because the pattern is there. *)

ObjectsType == DOMAIN objects \subseteq Names /\ \A n \in DOMAIN objects : objects[n] \in Seq(Addrs)

NeedsPattern == program \in {"randread", "randwrite"} \/ (program = "bw" /\ part \in {3, 4})

DataInv ==
  /\ ObjectsType /\ DOMAIN descriptors \subseteq Pods
  /\ part \in 1..5 /\ program \in Programs \cup {"none"}
  /\ (program \in Single /\ place # "cleanup") => part = 1
  /\ (NeedsPattern /\ place \in {"open", "run"}) => pattern \in Patterns
  /\ \A j \in DOMAIN pattern : pattern[j] \in Nat
  /\ (Chunked /\ place \in {"part", "open", "run"}) => DOMAIN addrs = 0..Chunks - 1
  /\ (Lat /\ place \in {"part", "shuffle", "run"}) => 0 \in DOMAIN addrs
  /\ \A n \in DOMAIN addrs : addrs[n] \in Addrs
  /\ written \subseteq Addrs \X Nat

LEMMA TypeWith ==
  ASSUME ObjectsType, NEW n \in Names, NEW v \in Seq(Addrs), objects' = With(objects, n, v)
  PROVE  ObjectsType'
  BY DEF ObjectsType, With

LEMMA TypeWithout ==
  ASSUME ObjectsType, NEW n, objects' = Without(objects, n)
  PROVE  ObjectsType'
  BY DEF ObjectsType, Without

LEMMA AnyFreeIs ==
  ASSUME FreeAddrs # {}
  PROVE  AnyFree \in Addrs
  BY DEF AnyFree, FreeAddrs

LEMMA NameIs ==
  ASSUME program \in Programs
  PROVE  Name \in Names
  BY BenchmarkAssumption DEF Name

LEMMA DataEnds ==
  ASSUME ObjectsType', NEW where \in {"none", "ended"}, Gone(where)
  PROVE  DataInv'
  <1>1. /\ program' = "none" /\ part' = 1 /\ written' = {}
        /\ DOMAIN addrs' = {} /\ DOMAIN pattern' = {} /\ DOMAIN descriptors' = {}
    BY DEF Gone, Empty
  <1> QED BY <1>1 DEF DataInv, Single, NeedsPattern, Chunked, Lat

LEMMA DataCreat ==
  ASSUME DataInv, program # "none", Creat
  PROVE  DataInv'
  <1>1. PICK pod \in FreePods : po_creat(Name, pod)
    BY DEF Creat
  <1>2. /\ place = "creat" /\ place' = "prepare"
        /\ UNCHANGED <<program, part, addrs, pattern, written>>
        /\ objects' = With(objects, Name, <<>>) /\ descriptors' = With(descriptors, pod, Name)
    BY <1>1 DEF Creat, po_creat
  <1>3. <<>> \in Seq(Addrs)
    OBVIOUS
  <1>4. ObjectsType'
    BY <1>2, <1>3, NameIs, TypeWith DEF DataInv
  <1>5. DOMAIN descriptors' \subseteq Pods
    BY <1>2 DEF With, FreePods, DataInv
  <1> QED BY <1>2, <1>4, <1>5 DEF DataInv, Single, NeedsPattern, Chunked, Lat

LEMMA DataExtend ==
  ASSUME DataInv, KernelInv, program # "none", place = "prepare", NEW i, ExtendChunk(i),
         \/ place' = "prepare"
         \/ Lat /\ place' = "part" /\ i = 0
  PROVE  DataInv'
  <1>1. /\ UNCHANGED <<descriptors, program, part, pattern, written>>
        /\ addrs' = With(addrs, i, AnyFree) /\ AnyFree \in Addrs
    BY AnyFreeIs DEF ExtendChunk
  <1>2. objects' = With(objects, Name, Append(objects[Name], AnyFree))
    BY DEF ExtendChunk, po_extend, KernelInv
  <1> HIDE DEF AnyFree
  <1>3. Name \in DOMAIN objects
    BY DEF KernelInv, Laid, Made
  <1>4. Append(objects[Name], AnyFree) \in Seq(Addrs)
    BY <1>1, <1>3 DEF DataInv, ObjectsType
  <1>5. ObjectsType'
    BY <1>2, <1>4, NameIs, TypeWith DEF DataInv
  <1>6. (\A n \in DOMAIN addrs : addrs[n] \in Addrs)' /\ i \in DOMAIN addrs'
    BY <1>1 DEF With, DataInv
  <1>7. program' \in Single => part' = 1
    BY <1>1 DEF DataInv
  <1> QED BY <1>1, <1>5, <1>6, <1>7 DEF DataInv, NeedsPattern, Chunked, Lat

\* A step of main() that leaves object and addresses alone
LEMMA DataStays ==
  ASSUME DataInv, ObjectsType', DOMAIN descriptors' \subseteq Pods,
         UNCHANGED <<program, addrs, written>>, part' \in 1..5,
         (program \in Single /\ place' # "cleanup") => part' = 1,
         (NeedsPattern' /\ place' \in {"open", "run"}) => pattern' \in Patterns,
         \A j \in DOMAIN pattern' : pattern'[j] \in Nat,
         (Chunked /\ place' \in {"part", "open", "run"}) => DOMAIN addrs = 0..Chunks - 1,
         (Lat /\ place' \in {"part", "shuffle", "run"}) => 0 \in DOMAIN addrs
  PROVE  DataInv'
  BY DEF DataInv, Chunked, Lat

LEMMA PatternsType ==
  ASSUME NEW f \in Patterns
  PROVE  DOMAIN f = Blocks /\ \A j \in DOMAIN f : f[j] \in Nat
  BY BenchmarkAssumption, SMTT(30) DEF Patterns, Blocks

LEMMA DataPrepare ==
  ASSUME DataInv, KernelInv, Chunked, Preparing
  PROVE  DataInv'
  <1>1. PICK patterns \in {NoPattern, Patterns}, after \in {"open", "part"} :
          /\ Prepare(patterns, after)
          /\ program \in {"randread", "randwrite"} => patterns = Patterns
          /\ program = "bw" => after = "part"
    BY DEF Preparing
  <1>2. CASE Creat
    BY <1>2, DataCreat DEF Chunked
  <1>3. CASE CreatFails \/ ExtendFails
    BY <1>3, DataEnds DEF CreatFails, ExtendFails, DataInv, ObjectsType
  <1>4. CASE place = "prepare" /\ ExtendChunk(Prepared) /\ UNCHANGED place
    BY <1>4, DataExtend DEF Chunked
  <1>5. CASE /\ place = "prepare" /\ Prepared = Chunks /\ CloseAll /\ pattern' \in patterns
             /\ place' = after
             /\ UNCHANGED <<objects, program, part, round, moves, addrs, written, before>>
    <2>1. DOMAIN addrs = 0..Chunks - 1
      <3>1. PICK k \in Nat : DOMAIN addrs = 0..k - 1
        BY <1>5 DEF KernelInv, Made, Laid
      <3> QED BY <1>5, <3>1, PreparedIs
    <2>2. \A j \in DOMAIN pattern' : pattern'[j] \in Nat
      BY <1>5, PatternsType DEF NoPattern, Empty
    <2>3. ObjectsType' /\ DOMAIN descriptors' \subseteq Pods /\ part' \in 1..5
      BY <1>5 DEF DataInv, ObjectsType, CloseAll, Empty
    <2>4. (NeedsPattern' /\ place' \in {"open", "run"}) => pattern' \in Patterns
      BY <1>1, <1>5 DEF NeedsPattern
    <2>5. ~Lat /\ UNCHANGED <<program, addrs, written>>
      BY <1>5 DEF Chunked, Lat
    <2>6. (program \in Single /\ place' # "cleanup") => part' = 1
      BY <1>5 DEF DataInv
    <2> QED BY <2>1, <2>2, <2>3, <2>4, <2>5, <2>6, DataStays
  <1> QED BY <1>1, <1>2, <1>3, <1>4, <1>5 DEF Prepare

LEMMA DataBegin ==
  ASSUME DataInv, KernelInv, Chunked, Beginning
  PROVE  DataInv'
  <1>1. /\ program = "bw" /\ place = "part" /\ place' = "open"
        /\ UNCHANGED <<kernel, program, part, addrs, written>>
        /\ pattern' = pattern \/ pattern' \in Patterns
        /\ part \in {3, 4} => pattern' \in Patterns
    BY DEF Beginning, Begin
  <1>2. DOMAIN addrs = 0..Chunks - 1 /\ ~Lat /\ program \notin Single
    BY <1>1 DEF DataInv, Chunked, Lat, Single
  <1>3. \A j \in DOMAIN pattern' : pattern'[j] \in Nat
    BY <1>1, PatternsType DEF DataInv
  <1>4. ObjectsType' /\ DOMAIN descriptors' \subseteq Pods /\ part' \in 1..5
    BY <1>1 DEF DataInv, ObjectsType, kernel
  <1>5. NeedsPattern' => pattern' \in Patterns
    BY <1>1 DEF NeedsPattern
  <1> QED BY <1>1, <1>2, <1>3, <1>4, <1>5, DataStays

LEMMA DataMeasure ==
  ASSUME DataInv, KernelInv, Chunked, Measuring
  PROVE  DataInv'
  <1>1. PICK after \in {"part", "cleanup"} :
          /\ Measure(after)
          /\ \/ program \in Single /\ after = "cleanup"
             \/ program = "bw" /\ part \in {1, 2, 3} /\ after = "part"
             \/ program = "bw" /\ part = 4 /\ after = "cleanup"
    BY DEF Measuring
  <1>2. place \in {"open", "run"}
    BY <1>1 DEF Measure, OpenRound, Spawn, Join, Joined
  <1>3. /\ DOMAIN addrs = 0..Chunks - 1 /\ ~Lat
        /\ NeedsPattern => pattern \in Patterns
        /\ \A j \in DOMAIN pattern : pattern[j] \in Nat
        /\ program \in Single => part = 1
    BY <1>2 DEF DataInv, Chunked, Lat
  <1>4. UNCHANGED <<program, addrs, written, pattern>>
    BY <1>1 DEF Measure, OpenRound, Spawn, Join, NextRound
  <1>5. part \in 1..4 /\ (program \in Single => program # "bw")
    BY <1>1, <1>3 DEF Single
  <1>6. CASE OpenRound
    <2>1. objects' = objects
      <3>1. Name \in DOMAIN objects
        BY <1>2 DEF KernelInv, Laid, Made
      <3> QED BY <1>6, <3>1 DEF OpenRound, Opened, kernel
    <2>2. DOMAIN descriptors' \subseteq Pods
      <3>1. CASE \E pod \in FreePods : descriptors' = With(descriptors, pod, Name)
        BY <3>1 DEF With, FreePods, DataInv
      <3>2. CASE UNCHANGED kernel
        BY <3>2 DEF kernel, DataInv
      <3> QED BY <1>6, <3>1, <3>2 DEF OpenRound
    <2>3. part' = part /\ place' = "run"
      BY <1>6 DEF OpenRound
    <2>4. NeedsPattern' = NeedsPattern
      BY <1>4, <2>3 DEF NeedsPattern
    <2>5. ObjectsType'
      BY <2>1 DEF DataInv, ObjectsType
    <2> QED BY <1>3, <1>4, <1>5, <2>2, <2>3, <2>4, <2>5, DataStays
  <1>7. CASE Spawn(Threads)
    <2>1. UNCHANGED <<kernel, part, place>>
      BY <1>7 DEF Spawn
    <2>2. NeedsPattern' = NeedsPattern
      BY <1>4, <2>1 DEF NeedsPattern
    <2>3. ObjectsType' /\ DOMAIN descriptors' \subseteq Pods
      BY <2>1 DEF DataInv, ObjectsType, kernel
    <2> QED BY <1>2, <1>3, <1>4, <1>5, <2>1, <2>2, <2>3, DataStays
  <1>8. CASE Join(after)
    <2>1. /\ objects' = objects /\ descriptors' = Empty
          /\ \/ part' = part /\ place' = "open"
             \/ part' = part + 1 /\ place' = after
      BY <1>8 DEF Join, NextRound, CloseAll
    <2>2. part' \in 1..5
      BY <1>5, <2>1
    <2>3. (NeedsPattern' /\ place' \in {"open", "run"}) => pattern' \in Patterns
      BY <1>1, <1>3, <1>4, <2>1 DEF NeedsPattern
    <2>4. (program \in Single /\ place' # "cleanup") => part' = 1
      BY <1>1, <1>3, <1>5, <2>1
    <2>5. ObjectsType' /\ DOMAIN descriptors' \subseteq Pods
      BY <2>1 DEF DataInv, ObjectsType, Empty
    <2> QED BY <1>3, <1>4, <2>2, <2>3, <2>4, <2>5, DataStays
  <1> QED BY <1>1, <1>6, <1>7, <1>8 DEF Measure

LEMMA DataCleanup ==
  ASSUME DataInv, Cleanup
  PROVE  DataInv'
  <1>1. objects' = objects \/ objects' = Without(objects, Name)
    BY DEF Cleanup, po_unlink
  <1>2. ObjectsType'
    BY <1>1, TypeWithout DEF DataInv, ObjectsType
  <1> QED BY <1>2, DataEnds DEF Cleanup

LEMMA DataLat ==
  ASSUME DataInv, KernelInv, IInv, lat_main
  PROVE  DataInv'
  <1>1. Lat /\ program # "none" /\ ~NeedsPattern /\ program \notin Single /\ ~Chunked
    BY DEF lat_main, lat_Prepare, lat_Populate, lat_Shuffle, lat_seqread, lat_seqwrite,
       lat_randread, lat_randwrite, lat_Cleanup, Running, Lat, NeedsPattern, Single, Chunked
  <1>2. CASE lat_Prepare
    <2>1. CASE Creat
      BY <1>1, <2>1, DataCreat
    <2>2. CASE CreatFails \/ ExtendFails
      BY <2>2, DataEnds DEF CreatFails, ExtendFails, DataInv, ObjectsType
    <2>3. CASE place = "prepare" /\ ExtendChunk(0) /\ place' = "part"
      BY <1>1, <2>3, DataExtend
    <2> QED BY <1>2, <2>1, <2>2, <2>3 DEF lat_Prepare
  <1>3. ASSUME UNCHANGED <<objects, program, addrs, written>>, descriptors' = descriptors,
               part' \in 1..5, \A j \in DOMAIN pattern' : pattern'[j] \in Nat,
               place \in {"part", "shuffle", "run"}
        PROVE  DataInv'
    <2>1. ObjectsType' /\ DOMAIN descriptors' \subseteq Pods /\ 0 \in DOMAIN addrs
      BY <1>1, <1>3 DEF DataInv, ObjectsType
    <2>2. ~NeedsPattern'
      BY <1>1, <1>3 DEF NeedsPattern, Lat
    <2> QED BY <1>1, <1>3, <2>1, <2>2, DataStays
  <1>4. CASE lat_Populate
    <2>1. \A j \in DOMAIN pattern' : pattern'[j] \in Nat
      BY <1>4, LatBwAssumption DEF lat_Populate
    <2> QED BY <1>3, <1>4, <2>1 DEF lat_Populate, kernel, DataInv
  <1>5. CASE lat_Shuffle
    <2>1. Shuffled /\ round \in 1..LatBlocks /\ LatBlocks \in Nat
      BY <1>1, <1>5, LatBwAssumption DEF lat_Shuffle, IInv, Control
    <2>2. PICK index \in round - 1..LatBlocks - 1 :
            pattern' = [pattern EXCEPT ![round - 1] = pattern[index],
                                       ![index] = pattern[round - 1]]
      BY <1>5 DEF lat_Shuffle
    <2>3. round - 1 \in DOMAIN pattern /\ index \in DOMAIN pattern
      BY <2>1 DEF Shuffled, LatIndex
    <2>4. \A j \in DOMAIN pattern' : pattern'[j] \in Nat
      BY <2>2, <2>3 DEF DataInv
    <2> QED BY <1>3, <1>5, <2>4 DEF lat_Shuffle, kernel, DataInv
  <1>6. CASE lat_seqread \/ lat_seqwrite \/ lat_randread \/ lat_randwrite
    <2>1. part \in 1..4 /\ place = "run"
      BY <1>6 DEF lat_seqread, lat_seqwrite, lat_randread, lat_randwrite, Spawn, lat_Join,
                  Joined
    <2>2. /\ UNCHANGED <<objects, program, addrs, written, pattern, descriptors>>
          /\ part' = part \/ part' = part + 1
      BY <1>6 DEF lat_seqread, lat_seqwrite, lat_randread, lat_randwrite, Spawn, lat_Join,
                  NextRound, kernel
    <2>3. part' \in 1..5
      BY <2>1, <2>2
    <2> QED BY <1>3, <2>1, <2>2, <2>3 DEF DataInv
  <1>7. CASE lat_Cleanup
    BY <1>7, DataCleanup DEF lat_Cleanup
  <1> QED BY <1>2, <1>4, <1>5, <1>6, <1>7 DEF lat_main

LEMMA DataTest ==
  ASSUME DataInv, IInv, test_main
  PROVE  DataInv'
  <1>1. program = "test" /\ program \notin Single /\ ~Chunked /\ ~Lat /\ ~NeedsPattern
    BY DEF test_main, my_create, my_append, my_open_and_close, my_delete, my_exit, Loop,
           Running, Single, Chunked, Lat, NeedsPattern
  <1>2. ASSUME UNCHANGED <<descriptors, program, addrs, pattern, written>>, part' \in 1..5,
               ObjectsType'
        PROVE  DataInv'
    <2>1. ~NeedsPattern'
      BY <1>1, <1>2 DEF NeedsPattern
    <2> QED BY <1>1, <1>2, <2>1, DataStays DEF DataInv
  <1>3. ASSUME Loop(part) PROVE poname \in Names
    BY <1>3, PonamesLen DEF Loop, poname, IInv, Control
  <1>4. CASE my_create
    <2>1. objects' = With(objects, poname, <<>>) /\ <<>> \in Seq(Addrs) /\ poname \in Names
      BY <1>3, <1>4 DEF my_create, Loop
    <2>2. ObjectsType'
      BY <2>1, TypeWith DEF DataInv
    <2> QED BY <1>2, <1>4, <2>2 DEF my_create, NextName, DataInv
  <1>5. CASE my_append
    <2>1. /\ objects' = With(objects, poname, Append(objects[poname], AnyFree))
          /\ poname \in Names /\ poname \in DOMAIN objects /\ AnyFree \in Addrs
      BY <1>3, <1>5, AnyFreeIs DEF my_append, Loop
    <2>2. objects[poname] \in Seq(Addrs)
      BY <2>1 DEF DataInv, ObjectsType
    <2>3. Append(objects[poname], AnyFree) \in Seq(Addrs)
      BY <2>1, <2>2
    <2>4. ObjectsType'
      BY <2>1, <2>3, TypeWith DEF DataInv
    <2> QED BY <1>2, <1>5, <2>4 DEF my_append, NextName, DataInv
  <1>6. CASE my_open_and_close
    BY <1>2, <1>6 DEF my_open_and_close, NextName, DataInv, ObjectsType
  <1>7. CASE my_delete
    <2>1. ObjectsType'
      BY <1>7, TypeWithout DEF my_delete, po_unlink, DataInv
    <2> QED BY <1>2, <1>7, <2>1 DEF my_delete, NextName, DataInv
  <1>8. CASE my_exit
    BY <1>8, DataEnds DEF my_exit, DataInv, ObjectsType
  <1>9. CASE /\ part < 4 /\ part' = part + 1
             /\ UNCHANGED <<kernel, program, place, moves, addrs, pattern, written, before>>
    <2>1. part' \in 1..5 /\ ObjectsType'
      BY <1>9 DEF DataInv, ObjectsType, kernel
    <2> QED BY <1>2, <1>9, <2>1 DEF kernel
  <1>10. CASE Gone("ended") /\ UNCHANGED <<objects, before>>
    BY <1>10, DataEnds DEF DataInv, ObjectsType
  <1> QED BY <1>4, <1>5, <1>6, <1>7, <1>8, <1>9, <1>10 DEF test_main

\* A round of the chunk programs never has more threads than it asks for.
FewThreads == Chunked => DOMAIN moves \subseteq 0..Threads - 1

LEMMA FewStays ==
  ASSUME FewThreads, DOMAIN moves' = {} \/ UNCHANGED <<program, round, DOMAIN moves>>
  PROVE  FewThreads'
  BY DEF FewThreads, Chunked, Threads

LEMMA FewMain ==
  ASSUME IInv, FewThreads, Main
  PROVE  FewThreads'
  <1>1. CASE Chunked /\ (Preparing \/ Beginning \/ Cleanup)
    <2>1. DOMAIN moves' = {} \/ UNCHANGED <<program, round, DOMAIN moves>>
      BY <1>1 DEF Preparing, Beginning, Prepare, Begin, Creat, CreatFails, ExtendChunk,
                  ExtendFails, Gone, Cleanup, Empty
    <2> QED BY <2>1, FewStays
  <1>2. CASE Chunked /\ Measuring
    <2>1. CASE Spawn(Threads)
      <3>1. PICK k \in Nat : DOMAIN moves = 0..k - 1
        BY DEF IInv, MovesInv, Counted
      <3>2. Created = k
        BY <3>1, HowMany DEF Created
      <3>3. /\ moves' = With(moves, k, <<>>) /\ k < Threads
            /\ UNCHANGED <<program, round>>
        BY <2>1, <3>2 DEF Spawn
      <3>4. Threads' = Threads /\ Threads \in Nat
        BY <1>2, <3>3, ThreadsType DEF Threads, IInv
      <3>5. DOMAIN moves' \subseteq 0..Threads' - 1
        BY <3>1, <3>3, <3>4 DEF With
      <3> QED BY <3>5 DEF FewThreads
    <2>2. CASE ~Spawn(Threads)
      <3>1. DOMAIN moves' = {} \/ UNCHANGED <<program, round, DOMAIN moves>>
        BY <1>2, <2>2 DEF Measuring, Measure, OpenRound, Join, NextRound, Empty
      <3> QED BY <3>1, FewStays
    <2> QED BY <2>1, <2>2
  <1>3. CASE lat_main
    <2>1. Lat /\ program' \in {program, "none"}
      BY <1>3 DEF lat_main, lat_Prepare, lat_Populate, lat_Shuffle, lat_seqread,
         lat_seqwrite, lat_randread, lat_randwrite, lat_Cleanup, Running, Lat, Creat,
         CreatFails, ExtendChunk, ExtendFails, Gone, Spawn, lat_Join, NextRound, Cleanup
    <2> QED BY <2>1 DEF FewThreads, Chunked, Lat
  <1>4. CASE test_main
    <2>1. program' \in {"test", "none"}
      BY <1>4 DEF test_main, my_create, my_append, my_open_and_close, my_delete, my_exit,
                  Loop, Running, NextName, Gone
    <2> QED BY <2>1 DEF FewThreads, Chunked
  <1> QED BY <1>1, <1>2, <1>3, <1>4, MainCases

\* What a thread overwrites has an address and a block.
LEMMA DataMove ==
  ASSUME DataInv, NEW t, NEW quota, NEW block, MoveBlock(t, quota, block),
         \/ UNCHANGED written
         \/ /\ written' = written \cup {<<addrs[block[1]], block[2]>>}
            /\ block[1] \in DOMAIN addrs /\ block[2] \in Nat
  PROVE  DataInv'
  <1>1. UNCHANGED <<kernel, program, place, part, round, addrs, pattern>>
    BY DEF MoveBlock
  <1>2. written' \subseteq Addrs \X Nat
    BY DEF DataInv
  <1>3. NeedsPattern' = NeedsPattern /\ Lat' = Lat /\ Chunked' = Chunked
        /\ ObjectsType' = ObjectsType
    BY <1>1 DEF NeedsPattern, Lat, Chunked, ObjectsType, kernel
  <1> QED BY <1>1, <1>2, <1>3 DEF DataInv, kernel

\* A thread that is not done is at a block of the object.
LEMMA ChunkIsThere ==
  ASSUME DataInv, IInv, FewThreads, Chunked, NEW t \in DOMAIN moves,
         place = "run", Len(moves[t]) < Quota
  PROVE  /\ Chunk(t) \in DOMAIN addrs
         /\ Len(moves[t]) % BlockNum \in Blocks /\ Len(moves[t]) % BlockNum \in Nat
  <1>1. Chunk(t) \in Share(t, Chunks \div Threads)
    BY ChunkIsOwn DEF each_thread_rw_extend_num
  <1>2. Threads \in Nat \ {0} /\ Chunks \in Nat /\ t \in 0..Threads - 1
    BY ThreadsType, BenchmarkAssumption DEF IInv, FewThreads
  <1>3. Chunk(t) \in 0..Chunks - 1
    BY <1>1, <1>2, SharesInside
  <1>4. PICK S : moves[t] \in Seq(S)
    BY DEF IInv, MovesInv
  <1>5. Len(moves[t]) \in Nat
    BY <1>4
  <1> QED BY <1>3, <1>5, BenchmarkAssumption DEF DataInv, Blocks

LEMMA DataChunkWriter ==
  ASSUME DataInv, IInv, FewThreads, Chunked, NEW t \in DOMAIN moves,
         SeqWriting(t) \/ (NeedsPattern /\ RandWriting(t))
  PROVE  DataInv'
  <1> DEFINE b == Len(moves[t]) % BlockNum
  <1>1. PICK block : /\ WriteBlock(t, Quota, block) /\ block[1] = Chunk(t)
                     /\ block[2] = b \/ (NeedsPattern /\ block[2] = pattern[b])
    <2>1. CASE SeqWriting(t)
      <3>1. SeqBlock(t)[1] = Chunk(t) /\ SeqBlock(t)[2] = b
        BY DEF SeqBlock
      <3>2. WriteBlock(t, Quota, SeqBlock(t))
        BY <2>1 DEF SeqWriting
      <3> QED BY <3>1, <3>2
    <2>2. CASE NeedsPattern /\ RandWriting(t)
      <3>1. RandBlock(t)[1] = Chunk(t) /\ RandBlock(t)[2] = pattern[b]
        BY DEF RandBlock
      <3>2. WriteBlock(t, Quota, RandBlock(t))
        BY <2>2 DEF RandWriting
      <3> QED BY <2>2, <3>1, <3>2
    <2> QED BY <2>1, <2>2
  <1>2. place = "run" /\ Len(moves[t]) < Quota
    BY <1>1 DEF WriteBlock, MoveBlock
  <1>3. block[1] \in DOMAIN addrs /\ b \in Blocks /\ b \in Nat
    BY <1>1, <1>2, ChunkIsThere
  <1> HIDE DEF b
  <1>4. block[2] \in Nat
    <2>1. NeedsPattern => pattern[b] \in Nat
      BY <1>2, <1>3, PatternsType DEF DataInv
    <2> QED BY <1>1, <1>3, <2>1
  <1> QED BY <1>1, <1>3, <1>4, DataMove DEF WriteBlock

LEMMA DataLatWriter ==
  ASSUME DataInv, IInv, NEW t \in DOMAIN moves, write_thread(t)
  PROVE  DataInv'
  <1> DEFINE n == each_thread_access_num
             j == t * n + Len(moves[t])
  <1>1. /\ Lat /\ place = "run" /\ MoveBlock(t, n, lat_Block(t))
        /\ written' = written \cup {<<addrs[lat_Block(t)[1]], lat_Block(t)[2]>>}
        /\ Len(moves[t]) < n
    BY DEF write_thread, WriteBlock, MoveBlock, Running, Lat
  <1>2. round \in Nat \ {0} /\ LatBlocks \in Nat /\ DOMAIN pattern = 0..LatBlocks - 1
    BY <1>1, LatBwAssumption DEF IInv, Control, Shuffled, LatIndex
  <1>3. PICK k \in Nat : DOMAIN moves = 0..k - 1 /\ k <= round
    BY <1>1 DEF IInv, MovesInv, Counted
  <1>4. PICK S : moves[t] \in Seq(S)
    BY DEF IInv, MovesInv
  <1>5. Len(moves[t]) \in Nat /\ n \in Nat /\ t \in 0..round - 1
    BY <1>2, <1>3, <1>4, Quotient DEF each_thread_access_num
  <1>6. j \in Share(t, n)
    <2>1. t * n \in Nat
      BY <1>5
    <2> HIDE DEF n
    <2> QED BY <1>1, <1>5, <2>1 DEF Share
  <1>7. j \in DOMAIN pattern
    BY <1>2, <1>5, <1>6, SharesInside DEF each_thread_access_num
  <1>8. lat_Block(t)[1] = 0 /\ lat_Block(t)[2] = pattern[j]
    BY DEF lat_Block
  <1>9. lat_Block(t)[1] \in DOMAIN addrs /\ lat_Block(t)[2] \in Nat
    <2> HIDE DEF j
    <2> QED BY <1>1, <1>7, <1>8 DEF DataInv
  <1> QED BY <1>1, <1>9, DataMove

LEMMA DataThread ==
  ASSUME DataInv, IInv, FewThreads, NEW t \in DOMAIN moves, Thread(t)
  PROVE  DataInv' /\ FewThreads'
  <1>1. \/ \E quota, block : ReadBlock(t, quota, block)
        \/ Chunked /\ SeqWriting(t)
        \/ Chunked /\ NeedsPattern /\ RandWriting(t)
        \/ write_thread(t)
    BY DEF Thread, seqread_SeqReadThread, seqwrite_SeqWriteThread,
       randread_RandReadThread, randwrite_RandWriteThread, bw_SeqReadThread,
       bw_SeqWriteThread, bw_RandReadThread, bw_RandWriteThread, read_thread,
       SeqReading, RandReading, Running, Chunked, NeedsPattern
  <1>2. \E quota, block : MoveBlock(t, quota, block)
    BY <1>1 DEF ReadBlock, SeqWriting, RandWriting, write_thread, WriteBlock
  <1>3. UNCHANGED <<program, round, DOMAIN moves>>
    <2>1. PICK quota, block : MoveBlock(t, quota, block)
      BY <1>2
    <2>2. moves' = [moves EXCEPT ![t] = Append(moves[t], block)]
      BY <2>1 DEF MoveBlock
    <2>3. DOMAIN moves' = DOMAIN moves
      BY <2>2
    <2> QED BY <2>1, <2>3 DEF MoveBlock
  <1>4. ASSUME \E quota, block : ReadBlock(t, quota, block)
        PROVE  DataInv'
    <2>1. PICK quota, block : MoveBlock(t, quota, block) /\ UNCHANGED written
      BY <1>4 DEF ReadBlock
    <2> QED BY <2>1, DataMove
  <1>5. DataInv'
    <2>1. CASE Chunked /\ (SeqWriting(t) \/ (NeedsPattern /\ RandWriting(t)))
      BY <2>1, DataChunkWriter
    <2>2. CASE write_thread(t)
      BY <2>2, DataLatWriter
    <2> QED BY <1>1, <1>4, <2>1, <2>2
  <1>6. FewThreads'
    BY <1>3, FewStays
  <1> QED BY <1>5, <1>6

DataAll == DataInv /\ FewThreads

LEMMA DataInit == Init => DataAll
  BY DEF Init, DataAll, DataInv, FewThreads, ObjectsType, Empty, NeedsPattern, Single,
         Chunked, Lat

LEMMA NextData == DataAll /\ IInv /\ KernelAll /\ [Next]_bench => DataAll'
  <1> SUFFICES ASSUME DataInv, FewThreads, IInv, KernelInv, Rested, [Next]_bench
               PROVE  DataInv' /\ FewThreads'
    BY DEF DataAll, KernelAll
  <1>1. ASSUME NEW p \in Programs, Start(p)
        PROVE  DataInv' /\ FewThreads'
    <2>1. /\ program = "none" /\ program' = p /\ place' = "creat"
          /\ UNCHANGED <<objects, descriptors, part, moves, addrs, pattern, written>>
      BY <1>1 DEF Start, kernel
    <2>2. part = 1 /\ DOMAIN moves' = {}
      BY <2>1 DEF Rested, IInv, Control
    <2>3. ObjectsType'
      BY <2>1 DEF DataInv, ObjectsType
    <2> QED BY <2>1, <2>2, <2>3, FewStays DEF DataInv
  <1>2. CASE Die
    <2>1. Gone("none") /\ ObjectsType' /\ DOMAIN moves' = {}
      BY <1>2 DEF Die, Gone, Empty, DataInv, ObjectsType
    <2> QED BY <2>1, DataEnds, FewStays
  <1>3. CASE DeletePo
    <2>1. /\ program = "none" /\ place' = "none" /\ \E name : objects' = Without(objects, name)
          /\ UNCHANGED <<descriptors, program, part, round, moves, addrs, pattern, written>>
      BY <1>3 DEF DeletePo, po_unlink
    <2>2. ObjectsType'
      BY <2>1, TypeWithout DEF DataInv
    <2>3. DataInv'
      BY <2>1, <2>2 DEF DataInv, NeedsPattern, Single, Chunked, Lat
    <2> QED BY <2>1, <2>3, FewStays
  <1>4. CASE Main
    BY <1>4, MainCases, FewMain, DataPrepare, DataBegin, DataMeasure, DataCleanup, DataLat,
       DataTest
  <1>5. ASSUME NEW t \in DOMAIN moves, Thread(t)
        PROVE  DataInv' /\ FewThreads'
    BY <1>5, DataThread
  <1>6. CASE UNCHANGED bench
    <2>1. UNCHANGED <<objects, descriptors, program, place, part, round, moves, addrs,
                      pattern, written>>
      BY <1>6 DEF bench, process, kernel
    <2> QED BY <2>1 DEF DataInv, FewThreads, ObjectsType, NeedsPattern, Chunked, Lat, Threads
  <1> QED BY <1>1, <1>2, <1>3, <1>4, <1>5, <1>6 DEF Next, Run

LEMMA AlwaysData == Spec => []DataAll
  BY DataInit, NextData, AlwaysIInv, AlwaysKernel, PTL DEF Spec

\* Every variable keeps its type: names, addresses and descriptors are the
\* kernel's, threads are numbered from 0, and whatever a thread overwrites is a
\* block at the address of a chunk, whoever dies and whatever rand() comes out with.
THEOREM TypeCorrect == Spec => []TypeOK
  <1>1. DataAll /\ IInv /\ KernelAll => TypeOK
    <2> SUFFICES ASSUME DataInv, IInv, KernelInv PROVE TypeOK
      BY DEF DataAll, KernelAll
    <2>1. PICK k \in Nat : DOMAIN moves = 0..k - 1
      BY DEF IInv, MovesInv, Counted
    <2>2. Created = k
      BY <2>1, HowMany DEF Created
    <2>3. DOMAIN moves = 0..Created - 1
      BY <2>1, <2>2
    <2>4. place \in {"none", "creat", "prepare", "part", "shuffle", "open", "run",
                     "cleanup", "ended"}
      BY DEF KernelInv, Made
    <2>5. round \in Nat \ {0}
      BY DEF IInv, Control
    <2> QED BY <2>3, <2>4, <2>5 DEF TypeOK, DataInv, ObjectsType
  <1> QED BY <1>1, AlwaysData, AlwaysIInv, AlwaysKernel, PTL

-----------------------------------------------------------------------------
(* What a round moves.  The i-th block of a thread is known by its number,   *)
(* so that together they are the blocks of the parts of all threads.         *)

ChunkOf(t, j) == each_thread_rw_extend_num * t + j \div BlockNum

Placed ==
  \A t \in DOMAIN moves : \A i \in 1..Len(moves[t]) :
    /\ Chunked => moves[t][i][1] = ChunkOf(t, i - 1)
    /\ Sequential => moves[t][i] = <<ChunkOf(t, i - 1), (i - 1) % BlockNum>>
    /\ Lat => moves[t][i] = <<0, pattern[t * each_thread_access_num + (i - 1)]>>

LEMMA Ended ==
  ASSUME NEW where, Gone(where)
  PROVE  DOMAIN moves' = {} /\ program' = "none"
  BY DEF Gone, Empty

\* Outside a round no thread has moved anything.
LEMMA StepShape ==
  ASSUME IInv, [Next]_bench
  PROVE  \/ DOMAIN moves' = {}
         \/ \E n : Spawn(n)
         \/ \E t \in DOMAIN moves : Thread(t)
         \/ UNCHANGED bench
  <1>1. CASE \E p \in Programs : Start(p)
    <2>1. program = "none" /\ moves' = moves
      BY <1>1 DEF Start
    <2> QED BY <2>1 DEF IInv, Control
  <1>2. CASE Die
    BY <1>2, Ended DEF Die
  <1>3. CASE DeletePo
    <2>1. program = "none" /\ moves' = moves
      BY <1>3 DEF DeletePo
    <2> QED BY <2>1 DEF IInv, Control
  <1>4. CASE Main
    <2>1. CASE Preparing
      <3>1. PICK patterns, after : Prepare(patterns, after)
        BY <2>1 DEF Preparing
      <3>2. CASE CreatFails \/ ExtendFails
        BY <3>2, Ended DEF CreatFails, ExtendFails
      <3>3. CASE ~(CreatFails \/ ExtendFails)
        <4>1. place # "run" /\ moves' = moves
          BY <3>1, <3>3 DEF Prepare, Creat, ExtendChunk
        <4> QED BY <4>1 DEF IInv, Control
      <3> QED BY <3>2, <3>3
    <2>2. CASE Beginning
      <3>1. place # "run" /\ moves' = moves
        BY <2>2 DEF Beginning, Begin
      <3> QED BY <3>1 DEF IInv, Control
    <2>3. CASE Measuring
      <3>1. PICK after : Measure(after)
        BY <2>3 DEF Measuring
      <3>2. CASE OpenRound
        <4>1. place # "run" /\ moves' = moves
          BY <3>2 DEF OpenRound
        <4> QED BY <4>1 DEF IInv, Control
      <3>3. CASE Join(after)
        BY <3>3 DEF Join, NextRound, Empty
      <3> QED BY <3>1, <3>2, <3>3 DEF Measure
    <2>4. CASE Cleanup
      BY <2>4, Ended DEF Cleanup
    <2>5. CASE lat_main
      <3>1. CASE lat_Prepare \/ lat_Populate \/ lat_Shuffle
        <4>1. CASE CreatFails \/ ExtendFails
          BY <4>1, Ended DEF CreatFails, ExtendFails
        <4>2. CASE ~(CreatFails \/ ExtendFails)
          <5>1. place # "run" /\ moves' = moves
            BY <3>1, <4>2 DEF lat_Prepare, lat_Populate, lat_Shuffle, Creat, ExtendChunk
          <5> QED BY <5>1 DEF IInv, Control
        <4> QED BY <4>1, <4>2
      <3>2. CASE lat_Cleanup
        BY <3>2, Ended DEF lat_Cleanup, Cleanup
      <3>3. CASE \E after : lat_Join(after)
        BY <3>3 DEF lat_Join, NextRound, Empty
      <3> QED BY <2>5, <3>1, <3>2, <3>3
              DEF lat_main, lat_seqread, lat_seqwrite, lat_randread, lat_randwrite
    <2>6. CASE test_main
      <3>1. CASE \E where : Gone(where)
        BY <3>1, Ended
      <3>2. CASE UNCHANGED <<program, moves>>
        <4>1. program = "test"
          BY <2>6 DEF test_main, my_create, my_append, my_open_and_close, my_delete, my_exit,
                      Loop, Running
        <4> QED BY <3>2, <4>1 DEF IInv, Control
      <3> QED BY <2>6, <3>1, <3>2 DEF test_main, my_create, my_append, my_open_and_close,
                                      my_delete, my_exit, NextName
    <2> QED BY <1>4, <2>1, <2>2, <2>3, <2>4, <2>5, <2>6, MainCases
  <1> QED BY <1>1, <1>2, <1>3, <1>4 DEF Next, Run

LEMMA PlacedStays ==
  ASSUME Placed, DOMAIN moves' = {} \/ UNCHANGED <<program, part, round, moves, pattern>>
  PROVE  Placed'
  BY DEF Placed, Chunked, Sequential, Lat, ChunkOf, each_thread_rw_extend_num, Threads,
         each_thread_access_num

LEMMA PlacedSpawn ==
  ASSUME IInv, Placed, NEW n, Spawn(n)
  PROVE  Placed'
  <1>1. PICK k \in Nat : DOMAIN moves = 0..k - 1
    BY DEF IInv, MovesInv, Counted
  <1>2. Created = k
    BY <1>1, HowMany DEF Created
  <1>3. moves' = With(moves, k, <<>>) /\ UNCHANGED <<program, part, round, pattern>>
    BY <1>2 DEF Spawn
  <1>4. /\ moves'[k] = <<>>
        /\ \A t \in DOMAIN moves' : t = k \/ (t \in DOMAIN moves /\ moves'[t] = moves[t])
    BY <1>1, <1>3 DEF With
  <1>5. /\ Chunked' = Chunked /\ Sequential' = Sequential /\ Lat' = Lat
        /\ each_thread_access_num' = each_thread_access_num
        /\ \A t, j : ChunkOf(t, j)' = ChunkOf(t, j)
    BY <1>3 DEF Chunked, Sequential, Lat, ChunkOf, each_thread_rw_extend_num, Threads,
                each_thread_access_num
  <1>6. Len(moves'[k]) = 0
    BY <1>4
  <1> QED BY <1>3, <1>4, <1>5, <1>6 DEF Placed

LEMMA PlacedMove ==
  ASSUME IInv, Placed, NEW t \in DOMAIN moves, NEW quota, NEW block,
         MoveBlock(t, quota, block),
         Chunked => block[1] = ChunkOf(t, Len(moves[t])),
         Sequential => block = <<ChunkOf(t, Len(moves[t])), Len(moves[t]) % BlockNum>>,
         Lat => block = <<0, pattern[t * each_thread_access_num + Len(moves[t])]>>
  PROVE  Placed'
  <1>1. PICK S : moves[t] \in Seq(S)
    BY DEF IInv, MovesInv
  <1> DEFINE mine == moves[t]
             l == Len(mine)
  <1>2. /\ moves' = [moves EXCEPT ![t] = Append(mine, block)]
        /\ UNCHANGED <<program, part, round, pattern>>
    BY DEF MoveBlock
  <1>3. DOMAIN moves' = DOMAIN moves
    BY <1>2
  <1>4. moves'[t] = Append(mine, block)
        /\ \A u \in DOMAIN moves : u # t => moves'[u] = moves[u]
    BY <1>2
  <1>5. l \in Nat /\ Len(Append(mine, block)) = l + 1
        /\ Append(mine, block)[l + 1] = block
        /\ \A i \in 1..l : Append(mine, block)[i] = mine[i]
    <2>1. mine \in Seq(S)
      BY <1>1
    <2>2. mine \in Seq(S \cup {block}) /\ block \in S \cup {block} /\ l \in Nat
      BY <2>1
    <2> HIDE DEF mine
    <2> QED BY <2>2
  <1>6. /\ Chunked' = Chunked /\ Sequential' = Sequential /\ Lat' = Lat
        /\ each_thread_access_num' = each_thread_access_num
        /\ \A u, j : ChunkOf(u, j)' = ChunkOf(u, j)
    BY <1>2 DEF Chunked, Sequential, Lat, ChunkOf, each_thread_rw_extend_num, Threads,
                each_thread_access_num
  <1> DEFINE Good(u, i, b) ==
               /\ Chunked => b[1] = ChunkOf(u, i - 1)
               /\ Sequential => b = <<ChunkOf(u, i - 1), (i - 1) % BlockNum>>
               /\ Lat => b = <<0, pattern[u * each_thread_access_num + (i - 1)]>>
  <1>7. \A u \in DOMAIN moves : \A i \in 1..Len(moves[u]) : Good(u, i, moves[u][i])
    BY DEF Placed
  <1>8. Good(t, l + 1, block)
    <2>1. (l + 1) - 1 = l
      BY <1>5
    <2> QED BY <2>1
  <1>9. \A u \in DOMAIN moves' : \A i \in 1..Len(moves'[u]) : Good(u, i, moves'[u][i])
    <2> HIDE DEF Good
    <2>1. ASSUME NEW i \in 1..l + 1
          PROVE  Good(t, i, Append(mine, block)[i])
      <3>1. CASE i = l + 1
        BY <1>5, <1>8, <3>1
      <3>2. CASE i # l + 1
        <4>1. i \in 1..l
          BY <1>5, <3>2
        <4> QED BY <1>5, <1>7, <4>1
      <3> QED BY <3>1, <3>2
    <2> HIDE DEF l
    <2>2. \A i \in 1..Len(moves'[t]) : Good(t, i, moves'[t][i])
      BY <1>4, <1>5, <2>1
    <2> HIDE DEF mine
    <2> QED BY <1>3, <1>4, <1>7, <2>2
  <1> QED BY <1>2, <1>6, <1>9 DEF Placed

LEMMA PlacedThread ==
  ASSUME IInv, Placed, NEW t \in DOMAIN moves, Thread(t)
  PROVE  Placed'
  <1>1. CASE Lat
    <2>1. MoveBlock(t, each_thread_access_num, lat_Block(t))
      BY <1>1 DEF Lat, Thread, Running, seqread_SeqReadThread, seqwrite_SeqWriteThread,
         randread_RandReadThread, randwrite_RandWriteThread, bw_SeqReadThread,
         bw_SeqWriteThread, bw_RandReadThread, bw_RandWriteThread,
         read_thread, write_thread, ReadBlock, WriteBlock
    <2> QED BY <1>1, <2>1, PlacedMove DEF Chunked, Sequential, Lat, lat_Block
  <1>2. CASE ~Lat
    <2>1. \/ SeqReading(t) \/ SeqWriting(t)
          \/ (RandReading(t) \/ RandWriting(t)) /\ ~Sequential
      BY <1>2 DEF Lat, Thread, Running, Sequential, seqread_SeqReadThread,
         seqwrite_SeqWriteThread, randread_RandReadThread, randwrite_RandWriteThread,
         bw_SeqReadThread, bw_SeqWriteThread, bw_RandReadThread, bw_RandWriteThread,
         read_thread, write_thread
    <2>2. PICK block : /\ MoveBlock(t, Quota, block) /\ block[1] = Chunk(t)
                       /\ Sequential => block = SeqBlock(t)
      <3>1. CASE SeqReading(t) \/ SeqWriting(t)
        <4>1. MoveBlock(t, Quota, SeqBlock(t)) /\ SeqBlock(t)[1] = Chunk(t)
          BY <3>1 DEF SeqReading, SeqWriting, ReadBlock, WriteBlock, SeqBlock
        <4> QED BY <4>1
      <3>2. CASE (RandReading(t) \/ RandWriting(t)) /\ ~Sequential
        <4>1. MoveBlock(t, Quota, RandBlock(t)) /\ RandBlock(t)[1] = Chunk(t)
          BY <3>2 DEF RandReading, RandWriting, ReadBlock, WriteBlock, RandBlock
        <4> QED BY <3>2, <4>1
      <3> QED BY <2>1, <3>1, <3>2
    <2>3. Chunk(t) = ChunkOf(t, Len(moves[t]))
      BY DEF Chunk, ChunkOf
    <2> QED BY <1>2, <2>2, <2>3, PlacedMove DEF SeqBlock
  <1> QED BY <1>1, <1>2

LEMMA AlwaysPlaced == Spec => []Placed
  <1>1. Init => Placed
    BY DEF Init, Placed, Empty
  <1>2. IInv /\ Placed /\ [Next]_bench => Placed'
    <2>1. ASSUME Placed, UNCHANGED bench
          PROVE  Placed'
      BY <2>1, PlacedStays DEF bench, process
    <2> QED BY <2>1, StepShape, PlacedStays, PlacedSpawn, PlacedThread
  <1> QED BY <1>1, <1>2, AlwaysIInv, PTL DEF Spec

-----------------------------------------------------------------------------
(* What the sequential writers have overwritten, over all rounds *)

WrittenInv ==
  /\ program = "none" => written = {}
  /\ (Chunked /\ place \in {"creat", "prepare"}) => written = {}
  /\ (program = "bw" /\ part = 1) => written = {}
  /\ Overwriting =>
       /\ written \subseteq Range(addrs) \X Blocks
       /\ \A t \in DOMAIN moves : \A b \in Moved(t) : <<addrs[b[1]], b[2]>> \in written

LEMMA MovedAppend ==
  ASSUME IInv, NEW t \in DOMAIN moves, NEW quota, NEW block, MoveBlock(t, quota, block)
  PROVE  /\ DOMAIN moves' = DOMAIN moves
         /\ Moved(t)' = Moved(t) \cup {block}
         /\ \A u \in DOMAIN moves : u # t => Moved(u)' = Moved(u)
  <1>1. moves' = [moves EXCEPT ![t] = Append(moves[t], block)]
    BY DEF MoveBlock
  <1>2. DOMAIN moves' = DOMAIN moves
    BY <1>1
  <1>3. moves'[t] = Append(moves[t], block)
        /\ \A u \in DOMAIN moves : u # t => moves'[u] = moves[u]
    BY <1>1
  <1> DEFINE mine == moves[t]
  <1>4. PICK S : mine \in Seq(S)
    BY DEF IInv, MovesInv
  <1>5. Range(Append(mine, block)) = Range(mine) \cup {block}
    <2> HIDE DEF mine
    <2> QED BY <1>4, AppendRange
  <1> QED BY <1>2, <1>3, <1>5 DEF Moved

LEMMA WrittenEnds ==
  ASSUME NEW where, Gone(where)
  PROVE  WrittenInv'
  BY DEF Gone, WrittenInv, Chunked, Overwriting

\* Nothing is overwritten, and the threads are the same or there are none.
LEMMA WrittenStays ==
  ASSUME WrittenInv, UNCHANGED <<program, written>>,
         (Chunked /\ place' \in {"creat", "prepare"}) => place \in {"creat", "prepare"},
         part' = 1 => part = 1,
         \/ written = {} /\ DOMAIN moves' = {}
         \/ /\ Overwriting' => Overwriting /\ addrs' = addrs
            /\ DOMAIN moves' = {} \/ moves' = moves
  PROVE  WrittenInv'
  <1>1. Chunked' = Chunked
    BY DEF Chunked
  <1>2. (program = "none" => written = {})'
        /\ (Chunked /\ place \in {"creat", "prepare"} => written = {})'
        /\ (program = "bw" /\ part = 1 => written = {})'
    BY <1>1 DEF WrittenInv
  <1>3. CASE written = {} /\ DOMAIN moves' = {}
    BY <1>2, <1>3 DEF WrittenInv
  <1>4. CASE /\ Overwriting' => Overwriting /\ addrs' = addrs
             /\ DOMAIN moves' = {} \/ moves' = moves
    <2> SUFFICES ASSUME Overwriting'
                 PROVE  /\ written' \subseteq Range(addrs') \X Blocks
                        /\ \A t \in DOMAIN moves' : \A b \in Moved(t)' :
                             <<addrs'[b[1]], b[2]>> \in written'
      BY <1>2 DEF WrittenInv
    <2> QED BY <1>4 DEF WrittenInv, Moved
  <1> QED BY <1>3, <1>4

LEMMA WrittenSpawn ==
  ASSUME IInv, WrittenInv, NEW n, Spawn(n)
  PROVE  WrittenInv'
  <1>1. PICK k \in Nat : DOMAIN moves = 0..k - 1
    BY DEF IInv, MovesInv, Counted
  <1>2. Created = k
    BY <1>1, HowMany DEF Created
  <1>3. moves' = With(moves, k, <<>>) /\ UNCHANGED <<program, place, part, addrs, written>>
    BY <1>2 DEF Spawn
  <1>4. /\ moves'[k] = <<>>
        /\ \A t \in DOMAIN moves' : t = k \/ (t \in DOMAIN moves /\ moves'[t] = moves[t])
    BY <1>1, <1>3 DEF With
  <1>5. Moved(k)' = {}
    BY <1>4 DEF Moved, Range
  <1>6. \A t \in DOMAIN moves' : Moved(t)' # {} => t \in DOMAIN moves /\ Moved(t)' = Moved(t)
    BY <1>4, <1>5 DEF Moved
  <1>7. Chunked' = Chunked /\ Overwriting' = Overwriting
    BY <1>3 DEF Chunked, Overwriting
  <1> QED BY <1>3, <1>6, <1>7 DEF WrittenInv

LEMMA WrittenThread ==
  ASSUME IInv, DataInv, FewThreads, WrittenInv, NEW t \in DOMAIN moves, Thread(t)
  PROVE  WrittenInv'
  <1>1. ASSUME NEW quota, NEW block, MoveBlock(t, quota, block), program # "bw" \/ part # 1,
               ~Overwriting
        PROVE  WrittenInv'
    <2>1. UNCHANGED <<program, place, part>> /\ place = "run"
      BY <1>1 DEF MoveBlock
    <2>2. program # "none"
      BY <2>1 DEF IInv, Control
    <2> QED BY <1>1, <2>1, <2>2 DEF WrittenInv, Overwriting
  <1>2. CASE bw_SeqReadThread(t)
    <2>1. /\ UNCHANGED <<program, place, part, written>> /\ place = "run"
          /\ program = "bw" /\ part = 1
      BY <1>2 DEF bw_SeqReadThread, Running, SeqReading, ReadBlock, MoveBlock
    <2> QED BY <2>1 DEF WrittenInv, Overwriting, Chunked
  <1>3. CASE seqwrite_SeqWriteThread(t) \/ bw_SeqWriteThread(t)
    <2> DEFINE b == SeqBlock(t)
    <2>1. /\ Overwriting /\ Chunked /\ program # "none" /\ (program # "bw" \/ part # 1)
          /\ MoveBlock(t, Quota, b)
          /\ written' = written \cup {<<addrs[b[1]], b[2]>>}
      BY <1>3 DEF seqwrite_SeqWriteThread, bw_SeqWriteThread, Running, SeqWriting,
                  WriteBlock, Overwriting, Chunked
    <2>2. /\ UNCHANGED <<program, place, part, addrs>> /\ place = "run"
          /\ Len(moves[t]) < Quota
      BY <2>1 DEF MoveBlock
    <2>3. b[1] \in DOMAIN addrs /\ b[2] \in Blocks
      BY <2>1, <2>2, ChunkIsThere DEF SeqBlock
    <2>4. /\ DOMAIN moves' = DOMAIN moves
          /\ Moved(t)' = Moved(t) \cup {b}
          /\ \A u \in DOMAIN moves : u # t => Moved(u)' = Moved(u)
      BY <2>1, MovedAppend
    <2> HIDE DEF b
    <2>5. written' \subseteq Range(addrs') \X Blocks
      BY <2>1, <2>2, <2>3 DEF WrittenInv, Range
    <2>6. \A u \in DOMAIN moves' : \A c \in Moved(u)' : <<addrs'[c[1]], c[2]>> \in written'
      <3>1. \A u \in DOMAIN moves : \A c \in Moved(u) : <<addrs[c[1]], c[2]>> \in written
        BY <2>1 DEF WrittenInv
      <3> QED BY <2>1, <2>2, <2>4, <3>1
    <2> QED BY <2>1, <2>2, <2>5, <2>6 DEF WrittenInv, Overwriting
  <1>4. CASE ~(\/ bw_SeqReadThread(t) \/ seqwrite_SeqWriteThread(t) \/ bw_SeqWriteThread(t)
               \/ seqread_SeqReadThread(t) \/ read_thread(t))
    <2>1. /\ \E quota, block : MoveBlock(t, quota, block)
          /\ program # "bw" \/ part # 1
          /\ ~Overwriting
      BY <1>4 DEF Thread, randread_RandReadThread, randwrite_RandWriteThread,
         bw_RandReadThread, bw_RandWriteThread, write_thread, RandReading, RandWriting,
         ReadBlock, WriteBlock, Running, Overwriting
    <2> QED BY <1>1, <2>1
  <1>5. CASE seqread_SeqReadThread(t) \/ read_thread(t)
    <2>1. /\ \E quota, block : MoveBlock(t, quota, block)
          /\ program # "bw" \/ part # 1
          /\ ~Overwriting
      BY <1>5 DEF seqread_SeqReadThread, SeqReading, read_thread, ReadBlock, Running,
                  Overwriting
    <2> QED BY <1>1, <2>1
  <1> QED BY <1>2, <1>3, <1>4, <1>5

LEMMA WrittenChunked ==
  ASSUME IInv, DataInv, WrittenInv, Chunked, Preparing \/ Beginning \/ Measuring \/ Cleanup
  PROVE  WrittenInv'
  <1>1. CASE Preparing
    <2>1. PICK patterns, after : Prepare(patterns, after)
      BY <1>1 DEF Preparing
    <2>2. CASE CreatFails \/ ExtendFails
      BY <2>2, WrittenEnds DEF CreatFails, ExtendFails
    <2>3. CASE ~(CreatFails \/ ExtendFails)
      <3>1. /\ place \in {"creat", "prepare"}
            /\ UNCHANGED <<program, part, moves, written>>
        BY <2>1, <2>3 DEF Prepare, Creat, ExtendChunk
      <3>2. written = {} /\ DOMAIN moves' = {}
        BY <3>1 DEF WrittenInv, IInv, Control
      <3> QED BY <3>1, <3>2, WrittenStays
    <2> QED BY <2>2, <2>3
  <1>2. CASE Beginning
    <2>1. UNCHANGED <<program, part, moves, addrs, written>> /\ place' = "open"
      BY <1>2 DEF Beginning, Begin
    <2> QED BY <2>1, WrittenStays DEF Overwriting
  <1>3. CASE Measuring
    <2>1. PICK after \in {"part", "cleanup"} :
            /\ Measure(after)
            /\ program \in Single \/ program = "bw"
      BY <1>3 DEF Measuring
    <2>2. CASE OpenRound
      <3>1. UNCHANGED <<program, part, moves, addrs, written>> /\ place' = "run"
        BY <2>2 DEF OpenRound
      <3> QED BY <3>1, WrittenStays DEF Overwriting
    <2>3. CASE Spawn(Threads)
      BY <2>3, WrittenSpawn
    <2>4. CASE Join(after)
      <3>1. /\ UNCHANGED <<program, addrs, written>> /\ DOMAIN moves' = {}
            /\ place' \in {"open", after}
            /\ part' = part \/ part' = part + 1
        BY <2>4 DEF Join, NextRound, Empty
      <3>2. part \in 1..5
        BY DEF DataInv
      <3>3. part' = 1 => part = 1
        BY <3>1, <3>2
      <3>4. written = {} \/ (Overwriting' => Overwriting)
        BY <3>1, <3>2 DEF WrittenInv, Overwriting
      <3>5. place' \notin {"creat", "prepare"}
        BY <3>1
      <3> QED BY <3>1, <3>3, <3>4, <3>5, WrittenStays
    <2> QED BY <2>1, <2>2, <2>3, <2>4 DEF Measure
  <1>4. CASE Cleanup
    BY <1>4, WrittenEnds DEF Cleanup
  <1> QED BY <1>1, <1>2, <1>3, <1>4

\* The other programs have no sequential writers that all of the object is asked of.
LEMMA WrittenOthers ==
  ASSUME lat_main \/ test_main
  PROVE  WrittenInv'
  <1>1. CASE \E where : Gone(where)
    BY <1>1, WrittenEnds
  <1>2. CASE ~\E where : Gone(where)
    <2>1. program' \in {"lat_bw", "test"}
      <3>1. CASE lat_main
        BY <1>2, <3>1 DEF lat_main, lat_Prepare, lat_Populate, lat_Shuffle, lat_seqread,
           lat_seqwrite, lat_randread, lat_randwrite, lat_Cleanup, Running, Creat,
           CreatFails, ExtendChunk, ExtendFails, Spawn, lat_Join, NextRound, Cleanup
      <3>2. CASE test_main
        BY <1>2, <3>2 DEF test_main, my_create, my_append, my_open_and_close, my_delete,
           my_exit, Loop, Running, NextName
      <3> QED BY <3>1, <3>2
    <2> QED BY <2>1 DEF WrittenInv, Chunked, Overwriting
  <1> QED BY <1>1, <1>2

LEMMA AlwaysWritten == Spec => []WrittenInv
  <1>1. Init => WrittenInv
    BY DEF Init, WrittenInv, Chunked, Overwriting
  <1>2. IInv /\ DataAll /\ KernelAll /\ WrittenInv /\ [Next]_bench => WrittenInv'
    <2> SUFFICES ASSUME IInv, DataInv, FewThreads, Rested, WrittenInv, [Next]_bench
                 PROVE  WrittenInv'
      BY DEF DataAll, KernelAll
    <2>1. ASSUME NEW p \in Programs, Start(p)
          PROVE  WrittenInv'
      <3>1. program = "none" /\ UNCHANGED <<moves, written>>
        BY <2>1 DEF Start
      <3>2. DOMAIN moves' = {} /\ written' = {}
        BY <3>1 DEF WrittenInv, IInv, Control
      <3> QED BY <3>2 DEF WrittenInv
    <2>2. CASE Die
      BY <2>2, WrittenEnds DEF Die
    <2>3. CASE DeletePo
      <3>1. program' = "none" /\ written' = {}
        BY <2>3 DEF DeletePo, WrittenInv
      <3> QED BY <3>1 DEF WrittenInv, Chunked, Overwriting
    <2>4. CASE UNCHANGED bench
      <3>1. UNCHANGED <<program, place, part, moves, addrs, written>>
        BY <2>4 DEF bench, process
      <3> QED BY <3>1, WrittenStays DEF Overwriting
    <2>5. CASE Main
      BY <2>5, MainCases, WrittenChunked, WrittenOthers
    <2> QED BY <2>1, <2>2, <2>3, <2>4, <2>5, WrittenThread DEF Next, Run
  <1> QED BY <1>1, <1>2, AlwaysIInv, AlwaysData, AlwaysKernel, PTL DEF Spec

-----------------------------------------------------------------------------
(* The join of a round *)

LEMMA LeastExists ==
  ASSUME NEW S \in SUBSET Nat, S # {}
  PROVE  \E m \in S : \A n \in S : m <= n
  <1>1. PICK m \in S : \A n \in S : ~(<<n, m>> \in OpToRel(<, Nat))
    BY WFMin, NatLessThanWellFounded
  <1>2. \A n \in S : ~(n < m)
    BY <1>1 DEF OpToRel
  <1> QED BY <1>2

LEMMA TotalIs ==
  ASSUME NEW f, NEW q \in Nat, IsFiniteSet(DOMAIN f), \A x \in DOMAIN f : Len(f[x]) = q
  PROVE  FoldFunction(LAMBDA s, n : Len(s) + n, 0, f) = q * Cardinality(DOMAIN f)
  <1> DEFINE D == DOMAIN f
             first(s) == CHOOSE x \in s : TRUE
             Def(it) == it = [s \in SUBSET D |->
                               IF s = {} THEN 0 ELSE Len(f[first(s)]) + it[s \ {first(s)}]]
             iter == CHOOSE it : Def(it)
             g == [s \in SUBSET D |-> q * Cardinality(s)]
  <1>1. FoldFunction(LAMBDA s, n : Len(s) + n, 0, f) = iter[D]
    BY DEF FoldFunction, FoldFunctionOnSet, MapThenFoldSet
  <1>2. \A s \in SUBSET D : s # {} =>
          /\ first(s) \in s
          /\ IsFiniteSet(s) /\ Cardinality(s) \in Nat \ {0}
          /\ Cardinality(s \ {first(s)}) = Cardinality(s) - 1
    <2> SUFFICES ASSUME NEW s \in SUBSET D, s # {}
                 PROVE  /\ first(s) \in s
                        /\ IsFiniteSet(s) /\ Cardinality(s) \in Nat \ {0}
                        /\ Cardinality(s \ {first(s)}) = Cardinality(s) - 1
      OBVIOUS
    <2>1. first(s) \in s
      OBVIOUS
    <2>2. IsFiniteSet(s)
      BY FS_Subset
    <2>3. Cardinality(s) \in Nat /\ Cardinality(s) # 0
      BY <2>2, FS_CardinalityType, FS_EmptySet
    <2>4. Cardinality(s \ {first(s)}) = Cardinality(s) - 1
      <3> DEFINE x == first(s)
      <3>1. x \in s
        BY <2>1
      <3> HIDE DEF x
      <3>2. Cardinality(s \ {x}) = Cardinality(s) - 1
        BY <2>2, <3>1, FS_RemoveElement
      <3> QED BY <3>2 DEF x
    <2> QED BY <2>1, <2>2, <2>3, <2>4
  <1>3. Def(g)
    <2>1. ASSUME NEW s \in SUBSET D
          PROVE  g[s] = IF s = {} THEN 0 ELSE Len(f[first(s)]) + g[s \ {first(s)}]
      <3>1. CASE s = {}
        <4>1. Cardinality({}) = 0
          BY FS_EmptySet
        <4> QED BY <3>1, <4>1
      <3>2. CASE s # {}
        <4> DEFINE x == first(s)
                   c == Cardinality(s)
        <4>1. x \in s /\ c \in Nat \ {0} /\ Cardinality(s \ {x}) = c - 1
          BY <1>2, <3>2
        <4>2. Len(f[x]) = q /\ s \ {x} \in SUBSET D
          BY <4>1
        <4>3. g[s] = q * c /\ g[s \ {x}] = q * Cardinality(s \ {x})
          BY <4>2
        <4> HIDE DEF x, c, g
        <4>4. q * c = q + q * (c - 1)
          BY <4>1
        <4>5. g[s] = Len(f[x]) + g[s \ {x}]
          BY <4>1, <4>2, <4>3, <4>4
        <4> QED BY <3>2, <4>5 DEF x
      <3> QED BY <3>1, <3>2
    <2> HIDE DEF first
    <2> QED BY <2>1
  <1>4. Def(iter)
    <2> HIDE DEF Def
    <2> QED BY <1>3
  <1>5. \A s \in SUBSET D : iter[s] = q * Cardinality(s)
    <2> HIDE DEF iter
    <2> DEFINE Bad == {n \in Nat : \E s \in SUBSET D : Cardinality(s) = n /\ iter[s] # q * n}
    <2>1. ASSUME Bad # {} PROVE FALSE
      <3>1. Bad \in SUBSET Nat
        OBVIOUS
      <3>2. PICK m \in Bad : \A n \in Bad : m <= n
        <4> HIDE DEF Bad
        <4> QED BY <2>1, <3>1, LeastExists
      <3>3. PICK s \in SUBSET D : Cardinality(s) = m /\ iter[s] # q * m
        BY <3>2
      <3>4. m \in Nat
        BY <3>2
      <3>5. CASE s = {}
        <4>1. iter[s] = 0 /\ m = 0
          BY <1>4, <3>3, <3>5, FS_EmptySet
        <4> QED BY <3>3, <4>1
      <3>6. CASE s # {}
        <4> DEFINE x == first(s)
        <4>1. x \in s /\ m # 0 /\ Cardinality(s \ {x}) = m - 1
          BY <1>2, <3>3, <3>6
        <4>2. iter[s] = Len(f[x]) + iter[s \ {x}]
          BY <1>4, <3>6
        <4> HIDE DEF x
        <4>3. s \ {x} \in SUBSET D /\ Len(f[x]) = q
          BY <4>1
        <4>4. m - 1 \notin Bad /\ m - 1 \in Nat
          <5>1. ~(m <= m - 1)
            BY <3>4
          <5>2. m - 1 \notin Bad
            <6> HIDE DEF Bad
            <6> QED BY <3>2, <5>1
          <5> QED BY <3>4, <4>1, <5>2
        <4>5. iter[s \ {x}] = q * (m - 1)
          BY <4>1, <4>3, <4>4
        <4>6. q + q * (m - 1) = q * m
          BY <3>4
        <4> QED BY <3>3, <4>2, <4>3, <4>5, <4>6
      <3> QED BY <3>5, <3>6
    <2>2. ASSUME NEW s \in SUBSET D
          PROVE  iter[s] = q * Cardinality(s)
      <3>1. Cardinality(s) \in Nat
        BY FS_Subset, FS_CardinalityType
      <3> QED BY <2>1, <3>1
    <2> QED BY <2>2
  <1> HIDE DEF iter
  <1> QED BY <1>1, <1>5

LEMMA TimesMonotone ==
  ASSUME NEW a \in Nat, NEW b \in Nat, NEW n \in Nat, a <= b
  PROVE  a * n <= b * n
  <1>1. b - a \in Nat /\ b = a + (b - a)
    OBVIOUS
  <1> DEFINE d == b - a
  <1> HIDE DEF d
  <1>2. d \in Nat /\ b = a + d
    BY <1>1 DEF d
  <1>3. (a + d) * n = a * n + d * n /\ d * n \in Nat /\ a * n \in Nat
    BY <1>2
  <1> QED BY <1>2, <1>3

LEMMA Split ==
  ASSUME NEW m \in Nat \ {0}, NEW q \in Nat, NEW r \in 0..m - 1
  PROVE  (q * m + r) \div m = q /\ (q * m + r) % m = r
  <1> DEFINE h == q * m + r
  <1>1. q * m \in Nat /\ m * q = q * m
    OBVIOUS
  <1>2. h \in Nat /\ q * m <= h /\ h < q * m + m
    BY <1>1
  <1> HIDE DEF h
  <1> DEFINE d == h \div m
  <1>3. d \in Nat /\ m * d <= h /\ h < m * d + m /\ h = m * d + (h % m)
    BY <1>2
  <1> HIDE DEF d
  <1>4. ~(d > q)
    <2>1. d > q => m * d >= m * (q + 1)
      BY <1>3
    <2> QED BY <1>1, <1>2, <1>3, <2>1
  <1>5. ~(d < q)
    <2>1. d < q => m * q >= m * (d + 1)
      BY <1>3
    <2> QED BY <1>1, <1>2, <1>3, <2>1
  <1>6. d = q
    BY <1>3, <1>4, <1>5
  <1>7. h % m = r
    <2>1. h % m = h - m * q /\ h = q * m + r
      BY <1>2, <1>3, <1>6 DEF h
    <2> QED BY <1>1, <2>1
  <1> QED BY <1>6, <1>7 DEF d, h

LEMMA Divided ==
  ASSUME NEW c \in Nat, NEW m \in Nat \ {0}
  PROVE  /\ c \div m \in Nat /\ c % m \in 0..m - 1
         /\ (c \div m) * m = c - (c % m) /\ m * (c \div m) = c - (c % m)
  OBVIOUS

\* Between two steps of main() a round ends by its join and not otherwise.
LEMMA JoinOnly ==
  ASSUME IInv, [Next]_bench, moves # Empty, moves' = Empty, program' = program
  PROVE  \/ Chunked /\ Joined(Threads, Quota)
         \/ Lat /\ Joined(round, each_thread_access_num)
  <1>1. DOMAIN moves' = {} /\ ~UNCHANGED moves
    BY DEF Empty
  <1>2. ~\E n : Spawn(n)
    <2>1. ASSUME NEW n, Spawn(n)
          PROVE  Created \in DOMAIN moves'
      BY <2>1 DEF Spawn, With
    <2> QED BY <1>1, <2>1
  <1>3. ~\E t \in DOMAIN moves : Thread(t)
    <2>1. ASSUME NEW t \in DOMAIN moves, Thread(t)
          PROVE  FALSE
      <3>1. PICK quota, block : MoveBlock(t, quota, block)
        BY <2>1 DEF Thread, seqread_SeqReadThread, seqwrite_SeqWriteThread,
           randread_RandReadThread, randwrite_RandWriteThread, bw_SeqReadThread,
           bw_SeqWriteThread, bw_RandReadThread, bw_RandWriteThread, read_thread,
           write_thread, SeqReading, SeqWriting, RandReading, RandWriting, ReadBlock,
           WriteBlock
      <3>2. moves' = [moves EXCEPT ![t] = Append(moves[t], block)]
        BY <3>1 DEF MoveBlock
      <3>3. DOMAIN moves' = DOMAIN moves
        BY <3>2
      <3> QED BY <1>1, <3>3
    <2> QED BY <2>1
  <1>4. ~UNCHANGED bench /\ ~DeletePo /\ ~\E p \in Programs : Start(p)
    BY <1>1 DEF bench, process, DeletePo, Start
  <1>5. ~Die
    BY DEF Die, Gone
  <1>6. Main
    BY <1>3, <1>4, <1>5 DEF Next, Run
  <1>7. CASE Chunked
    <2>1. program' # "none"
      BY <1>7 DEF Chunked
    <2>2. ~Cleanup /\ ~Preparing /\ ~Beginning
      BY <1>1, <2>1 DEF Cleanup, Preparing, Prepare, Creat, CreatFails, ExtendChunk,
                        ExtendFails, Gone, Beginning, Begin
    <2>3. ~lat_main /\ ~test_main
      BY <1>7 DEF Chunked, Running, lat_main, lat_Prepare, lat_Populate, lat_Shuffle,
         lat_seqread, lat_seqwrite, lat_randread, lat_randwrite, lat_Cleanup,
         test_main, my_create, my_append, my_open_and_close, my_delete, my_exit, Loop
    <2>4. Measuring
      BY <1>6, <2>2, <2>3, MainCases
    <2> QED BY <1>1, <1>2, <1>7, <2>4 DEF Measuring, Measure, OpenRound, Join
  <1>8. CASE ~Chunked
    <2>1. CASE lat_main
      <3>1. Lat /\ program' # "none"
        BY <2>1 DEF Lat, Running, lat_main, lat_Prepare, lat_Populate, lat_Shuffle,
           lat_seqread, lat_seqwrite, lat_randread, lat_randwrite, lat_Cleanup
      <3>2. ~lat_Cleanup /\ ~lat_Prepare /\ ~lat_Populate /\ ~lat_Shuffle
        BY <1>1, <3>1 DEF lat_Cleanup, Cleanup, lat_Prepare, lat_Populate, lat_Shuffle,
                          Creat, CreatFails, ExtendChunk, ExtendFails, Gone
      <3>3. \E after : lat_Join(after)
        BY <1>2, <2>1, <3>2 DEF lat_main, lat_seqread, lat_seqwrite, lat_randread,
                                lat_randwrite
      <3> QED BY <3>1, <3>3 DEF lat_Join
    <2>2. CASE test_main
      <3>1. program = "test"
        BY <2>2 DEF test_main, my_create, my_append, my_open_and_close, my_delete, my_exit,
                    Loop, Running
      <3> QED BY <1>1, <2>2, <3>1 DEF test_main, my_create, my_append, my_open_and_close,
                                      my_delete, my_exit, NextName, Gone
    <2> QED BY <1>6, <1>8, <2>1, <2>2, MainCases
  <1> QED BY <1>7, <1>8

All == UNION {Moved(t) : t \in DOMAIN moves}
Total == FoldFunction(LAMBDA s, n : Len(s) + n, 0, moves)

\* A block of the round is the i-th of some thread, and every such block is one.
LEMMA AllAre ==
  ASSUME IInv
  PROVE  \A b : b \in All <=> \E t \in DOMAIN moves : \E i \in 1..Len(moves[t]) :
                                b = moves[t][i]
  <1>1. ASSUME NEW t \in DOMAIN moves
        PROVE  \A b : b \in Moved(t) <=> \E i \in 1..Len(moves[t]) : b = moves[t][i]
    <2>1. PICK S : moves[t] \in Seq(S)
      BY DEF IInv, MovesInv
    <2>2. DOMAIN moves[t] = 1..Len(moves[t])
      BY <2>1
    <2> QED BY <2>2 DEF Moved, Range
  <1> QED BY <1>1 DEF All

LEMMA TotalOf ==
  ASSUME IInv, NEW n \in Nat, NEW quota \in Nat, Joined(n, quota)
  PROVE  /\ DOMAIN moves = 0..n - 1
         /\ Total = quota * n
  <1>1. PICK k \in Nat : DOMAIN moves = 0..k - 1
    BY DEF IInv, MovesInv, Counted
  <1>2. k = n /\ Cardinality(DOMAIN moves) = n
    BY <1>1, HowMany DEF Joined, Created
  <1>3. IsFiniteSet(DOMAIN moves)
    BY <1>1, FS_Interval
  <1>4. Total = quota * Cardinality(DOMAIN moves)
    BY <1>3, TotalIs DEF Joined, Total
  <1> QED BY <1>1, <1>2, <1>4

\* The chunk programs: every chunk has its thread, and every block of it its turn.
LEMMA ChunksJoined ==
  ASSUME IInv, DataInv, Placed, WrittenInv, Chunked, Joined(Threads, Quota)
  PROVE  /\ Total = Chunks * BlockNum
         /\ {b[1] : b \in All} = 0..Chunks - 1
         /\ Sequential => All = (0..Chunks - 1) \X Blocks
         /\ Overwriting => written = Range(addrs) \X Blocks
  <1> DEFINE n == each_thread_rw_extend_num
             m == BlockNum
             T == Threads
  <1>1. /\ T \in Nat \ {0} /\ m \in Nat \ {0} /\ Chunks \in Nat \ {0}
        /\ n = Chunks \div T /\ n \in Nat /\ Quota = n * m
        /\ T * n = Chunks /\ n * T = Chunks
    <2>1. T \in Nat \ {0} /\ m \in Nat \ {0} /\ Chunks \in Nat \ {0}
      BY ThreadsType, BenchmarkAssumption DEF IInv
    <2>2. Chunks % T = 0
      <3>1. round \in DOMAIN ThreadNum
        BY BenchmarkAssumption DEF IInv, Control
      <3> QED BY <3>1, SharesAssumption DEF Threads
    <2>3. (Chunks \div T) * T = Chunks /\ T * (Chunks \div T) = Chunks
      <3> HIDE DEF T
      <3> QED BY <2>1, <2>2, Divided
    <2> QED BY <2>1, <2>3, Divided DEF each_thread_rw_extend_num, Quota
  <1> HIDE DEF n, m, T
  <1>2. n > 0
    <2>1. n = 0 => n * T = 0
      BY <1>1
    <2> QED BY <1>1, <2>1
  <1>3. /\ DOMAIN moves = 0..T - 1 /\ \A t \in DOMAIN moves : Len(moves[t]) = n * m
        /\ Total = (n * m) * T
    <2>1. n * m \in Nat
      BY <1>1
    <2>2. Joined(T, n * m)
      BY <1>1 DEF T
    <2> QED BY <1>1, <2>1, <2>2, TotalOf DEF Joined
  <1>4. Total = Chunks * m
    <2>1. (n * m) * T = (n * T) * m
      BY <1>1
    <2>2. (n * T) * m = Chunks * m
      BY <1>1
    <2>3. Total = (n * m) * T
      BY <1>3
    <2> QED BY <2>1, <2>2, <2>3, Zenon
  <1>5. ASSUME NEW c \in 0..Chunks - 1, NEW r \in 0..m - 1
        PROVE  \E t \in DOMAIN moves : \E i \in 1..Len(moves[t]) :
                 moves[t][i] \in All /\ ChunkOf(t, i - 1) = c /\ (i - 1) % m = r
    <2> DEFINE t == c \div n
               q == c % n
               j == q * m + r
    <2>1. t \in DOMAIN moves /\ t \in Nat
      <3>1. c < T * n /\ c \in Nat /\ n \in Nat \ {0} /\ T \in Nat
        BY <1>1, <1>2
      <3>2. t \in 0..T - 1
        BY <3>1, Below
      <3> QED BY <1>3, <3>1, <3>2
    <2>2. q \in 0..n - 1 /\ n * t = c - q
      <3>1. c \in Nat /\ n \in Nat \ {0}
        BY <1>1, <1>2
      <3> QED BY <3>1, Divided
    <2> HIDE DEF t, q
    <2>3. j \in Nat /\ j + 1 \in 1..n * m
      <3>1. q * m \in Nat /\ (q + 1) * m = q * m + m
        BY <1>1, <2>2
      <3>2. (q + 1) * m <= n * m
        BY <1>1, <2>2
      <3>3. n * m \in Nat
        BY <1>1
      <3> QED BY <1>1, <3>1, <3>2, <3>3
    <2>4. j \div m = q /\ j % m = r
      <3>1. m \in Nat \ {0} /\ q \in Nat /\ r \in 0..m - 1
        BY <1>1, <2>2
      <3>2. (q * m + r) \div m = q /\ (q * m + r) % m = r
        BY <3>1, Split, Zenon
      <3> QED BY <3>2, Zenon
    <2> HIDE DEF j
    <2>5. (j + 1) - 1 = j
      BY <2>3
    <2>6. ChunkOf(t, j) = c
      <3>1. n * t + q = c
        BY <1>1, <2>1, <2>2
      <3> QED BY <2>4, <3>1 DEF ChunkOf, n, m
    <2>7. j + 1 \in 1..Len(moves[t])
      BY <1>3, <2>1, <2>3
    <2>8. moves[t][j + 1] \in All
      BY <2>1, <2>7, AllAre
    <2> QED BY <2>1, <2>4, <2>5, <2>6, <2>7, <2>8
  <1>6. ASSUME NEW b \in All
        PROVE  \E t \in DOMAIN moves : \E i \in 1..Len(moves[t]) :
                 /\ b = moves[t][i] /\ b[1] \in 0..Chunks - 1
                 /\ (i - 1) % m \in 0..m - 1
    <2>1. PICK t \in DOMAIN moves : \E i \in 1..Len(moves[t]) : b = moves[t][i]
      BY AllAre
    <2>2. PICK i \in 1..Len(moves[t]) : b = moves[t][i]
      BY <2>1
    <2>3. b \in Moved(t)
      <3>1. PICK S : moves[t] \in Seq(S)
        BY DEF IInv, MovesInv
      <3> QED BY <2>2, <3>1 DEF Moved, Range
    <2>4. b[1] \in Share(t, n)
      BY <2>3 DEF IInv, MovesInv, ChunkShares, n
    <2>5. b[1] \in 0..Chunks - 1
      BY <1>1, <1>3, <2>4, SharesInside
    <2>6. i - 1 \in Nat
      <3>1. Len(moves[t]) = n * m /\ n * m \in Nat
        BY <1>1, <1>3
      <3> QED BY <3>1
    <2>7. (i - 1) % m \in 0..m - 1
      BY <1>1, <2>6, Divided
    <2> QED BY <2>2, <2>5, <2>7
  <1>7. {b[1] : b \in All} = 0..Chunks - 1
    <2>1. ASSUME NEW c \in 0..Chunks - 1
          PROVE  \E b \in All : b[1] = c
      <3>1. 0 \in 0..m - 1
        BY <1>1
      <3>2. PICK t \in DOMAIN moves : \E i \in 1..Len(moves[t]) :
              moves[t][i] \in All /\ ChunkOf(t, i - 1) = c
        BY <1>5, <3>1
      <3>3. PICK i \in 1..Len(moves[t]) : moves[t][i] \in All /\ ChunkOf(t, i - 1) = c
        BY <3>2
      <3>4. moves[t][i][1] = c
        BY <3>3 DEF Placed
      <3> QED BY <3>3, <3>4
    <2> QED BY <1>6, <2>1
  <1>8. Blocks = 0..m - 1
    BY DEF Blocks, m
  <1>9. ASSUME Sequential
        PROVE  All = (0..Chunks - 1) \X Blocks
    <2>1. ASSUME NEW t \in DOMAIN moves, NEW i \in 1..Len(moves[t])
          PROVE  moves[t][i] = <<ChunkOf(t, i - 1), (i - 1) % m>>
      BY <1>9 DEF Placed, m
    <2>2. ASSUME NEW b \in All
          PROVE  b \in (0..Chunks - 1) \X Blocks
      <3>1. PICK t \in DOMAIN moves : \E i \in 1..Len(moves[t]) :
              /\ b = moves[t][i] /\ b[1] \in 0..Chunks - 1
              /\ (i - 1) % m \in 0..m - 1
        BY <1>6
      <3>2. PICK i \in 1..Len(moves[t]) : /\ b = moves[t][i] /\ b[1] \in 0..Chunks - 1
                                          /\ (i - 1) % m \in 0..m - 1
        BY <3>1
      <3>3. b = <<ChunkOf(t, i - 1), (i - 1) % m>>
        BY <2>1, <3>2
      <3>4. b[1] = ChunkOf(t, i - 1)
        BY <3>3
      <3> QED BY <1>8, <3>2, <3>3, <3>4
    <2>3. ASSUME NEW c \in 0..Chunks - 1, NEW r \in Blocks
          PROVE  <<c, r>> \in All
      <3>1. PICK t \in DOMAIN moves : \E i \in 1..Len(moves[t]) :
              moves[t][i] \in All /\ ChunkOf(t, i - 1) = c /\ (i - 1) % m = r
        BY <1>5, <1>8
      <3> QED BY <2>1, <3>1
    <2> QED BY <2>2, <2>3
  <1>10. ASSUME Overwriting
         PROVE  written = Range(addrs) \X Blocks
    <2>1. Sequential
      BY <1>10 DEF Overwriting, Sequential
    <2>2. DOMAIN addrs = 0..Chunks - 1
      BY DEF Joined, DataInv
    <2>3. written \subseteq Range(addrs) \X Blocks
      BY <1>10 DEF WrittenInv
    <2>4. ASSUME NEW c \in 0..Chunks - 1, NEW r \in Blocks
          PROVE  <<addrs[c], r>> \in written
      <3>1. <<c, r>> \in All
        BY <1>9, <2>1
      <3>2. PICK t \in DOMAIN moves : <<c, r>> \in Moved(t)
        BY <3>1 DEF All
      <3> QED BY <1>10, <3>2 DEF WrittenInv
    <2> QED BY <2>2, <2>3, <2>4 DEF Range
  <1> QED BY <1>4, <1>7, <1>9, <1>10 DEF m

\* lat_bw: every thread has its part of the list, which has no block twice.
LEMMA LatJoined ==
  ASSUME IInv, Placed, Lat, Joined(round, each_thread_access_num)
  PROVE  /\ Total = LatBlocks - (LatBlocks % round)
         /\ Cardinality(All) = Total
  <1> DEFINE n == each_thread_access_num
             l == n * round
  <1>1. /\ round \in Nat \ {0} /\ LatBlocks \in Nat \ {0}
        /\ n = LatBlocks \div round /\ n \in Nat
    BY LatBwAssumption, Divided DEF IInv, Control, each_thread_access_num
  <1>2. l = LatBlocks - (LatBlocks % round) /\ LatBlocks % round \in 0..round - 1
    BY <1>1, Divided
  <1>3. /\ DOMAIN moves = 0..round - 1 /\ \A t \in DOMAIN moves : Len(moves[t]) = n
        /\ Total = l
    BY <1>1, TotalOf DEF Joined
  <1> HIDE DEF n
  <1>4. l \in 0..LatBlocks
    <2>1. l \in Nat
      BY <1>1
    <2> QED BY <1>1, <1>2, <2>1
  <1> HIDE DEF l
  <1> DEFINE f == [j \in 0..l - 1 |-> <<0, pattern[j]>>]
  <1>5. \A j, k \in 0..l - 1 : pattern[j] = pattern[k] => j = k
    <2>1. Shuffled
      BY DEF Joined, IInv, Control
    <2> QED BY <1>1, <1>4, <2>1 DEF Shuffled, LatIndex
  <1>6. ASSUME NEW t \in DOMAIN moves, NEW i \in 1..Len(moves[t])
        PROVE  /\ moves[t][i] = <<0, pattern[t * n + (i - 1)]>>
               /\ t * n + (i - 1) \in 0..l - 1
    <2>1. moves[t][i] = <<0, pattern[t * n + (i - 1)]>>
      BY DEF Placed, n
    <2>2. t \in 0..round - 1 /\ i \in 1..n
      BY <1>3
    <2>3. t * n \in Nat /\ (t + 1) * n = t * n + n /\ (t + 1) * n <= round * n /\ round * n = l
      <3>1. t \in Nat /\ t + 1 \in Nat /\ round \in Nat /\ t + 1 <= round /\ n \in Nat
        BY <1>1, <2>2
      <3>2. (t + 1) * n <= round * n
        BY <3>1, TimesMonotone
      <3>3. t * n \in Nat /\ (t + 1) * n = t * n + n
        BY <3>1, SMTT(30)
      <3> QED BY <3>1, <3>2, <3>3 DEF l
    <2>4. t * n + n <= l
      BY <2>3
    <2> DEFINE b == t * n
    <2>5. b \in Nat /\ b + n <= l /\ l \in Nat /\ n \in Nat
      BY <1>1, <1>4, <2>3, <2>4
    <2> HIDE DEF b
    <2>6. b + (i - 1) \in 0..l - 1
      BY <2>2, <2>5
    <2> QED BY <2>1, <2>6 DEF b
  <1>7. ASSUME NEW j \in 0..l - 1
        PROVE  f[j] \in All
    <2>1. n # 0
      <3>1. n = 0 => l = 0
        BY <1>1 DEF l
      <3> QED BY <3>1
    <2> DEFINE t == j \div n
               q == j % n
    <2>2. j < round * n /\ j \in Nat
      BY <1>1, <1>4 DEF l
    <2>3. t \in 0..round - 1 /\ q \in 0..n - 1 /\ t * n = j - q
      BY <1>1, <2>1, <2>2, Below, Divided
    <2> HIDE DEF t, q
    <2>4. t \in DOMAIN moves /\ q + 1 \in 1..Len(moves[t])
      BY <1>1, <1>3, <2>3
    <2>5. t * n + ((q + 1) - 1) = j
      BY <1>1, <2>2, <2>3
    <2>6. moves[t][q + 1] = <<0, pattern[j]>>
      BY <1>6, <2>4, <2>5
    <2>7. moves[t][q + 1] \in All
      BY <2>4, AllAre
    <2> QED BY <2>6, <2>7
  <1>8. f \in Bijection(0..l - 1, All)
    <2>1. f \in [0..l - 1 -> All]
      BY <1>7
    <2>2. \A j, k \in 0..l - 1 : f[j] = f[k] => j = k
      <3>1. ASSUME NEW j \in 0..l - 1, NEW k \in 0..l - 1, f[j] = f[k]
            PROVE  j = k
        <4>1. <<0, pattern[j]>> = <<0, pattern[k]>>
          BY <3>1
        <4> QED BY <1>5, <4>1
      <3> QED BY <3>1
    <2>3. \A b \in All : \E j \in 0..l - 1 : f[j] = b
      <3>1. ASSUME NEW b \in All
            PROVE  \E j \in 0..l - 1 : f[j] = b
        <4>1. PICK t \in DOMAIN moves : \E i \in 1..Len(moves[t]) : b = moves[t][i]
          BY AllAre
        <4>2. PICK i \in 1..Len(moves[t]) : b = moves[t][i]
          BY <4>1
        <4> DEFINE j == t * n + (i - 1)
        <4>3. j \in 0..l - 1 /\ b = <<0, pattern[j]>>
          BY <1>6, <4>2
        <4> HIDE DEF j
        <4> QED BY <4>3
      <3> QED BY <3>1
    <2> HIDE DEF f
    <2> QED BY <2>1, <2>2, <2>3 DEF Bijection, Injection, IsInjective, Surjection
  <1>9. Cardinality(All) = l
    <2>1. IsFiniteSet(0..l - 1) /\ Cardinality(0..l - 1) = l
      BY <1>4, FS_Interval
    <2>2. ExistsBijection(0..l - 1, All)
      BY <1>8 DEF ExistsBijection
    <2> QED BY <2>1, <2>2, FS_Bijection
  <1> QED BY <1>2, <1>3, <1>9

\* What the bandwidth is computed from is what was moved: when the threads of a
\* round are joined they have moved the size of the object, each chunk in it,
\* and one after the other all blocks, each once, over which a writer has written;
\* the threads of lat_bw as many different blocks as can be shared evenly.
THEOREM MovesWhatIsMeasured == Spec => RoundMovesAll
  <1>1. IInv /\ DataAll /\ Placed /\ WrittenInv /\ [Next]_bench => [RoundMoved]_bench
    <2> SUFFICES ASSUME IInv, DataInv, Placed, WrittenInv, [Next]_bench,
                        moves # Empty, moves' = Empty, program' = program
                 PROVE  IF program = "lat_bw"
                        THEN /\ Total = LatBlocks - (LatBlocks % round)
                             /\ Cardinality(All) = Total
                        ELSE /\ Total = Chunks * BlockNum
                             /\ {b[1] : b \in All} = 0..Chunks - 1
                             /\ Sequential => All = (0..Chunks - 1) \X Blocks
                             /\ Overwriting => written = Range(addrs) \X Blocks
      BY DEF RoundMoved, DataAll, All, Total
    <2> QED BY JoinOnly, ChunksJoined, LatJoined DEF Lat, Chunked
  <1> QED BY <1>1, AlwaysIInv, AlwaysData, AlwaysPlaced, AlwaysWritten, PTL
          DEF Spec, RoundMovesAll

=============================================================================
