------------------------------ MODULE CCEHCrash ------------------------------
(***************************************************************************)
(* The table of CCEH with a crash between any two of its stores, and       *)
(* CCEH::Recovery run on what is found.                                    *)
(*                                                                         *)
(* Every store is taken to be durable once made, in program order.  That   *)
(* is the best case: util/persist.h flushes nothing (the loop is commented *)
(* out), clflush is two fences.  Where a crash loses data here, it does so *)
(* whatever the caches do.                                                 *)
(*                                                                         *)
(* Recovery has no caller in the repository; it is run once after a crash, *)
(* before the next call.                                                   *)
(***************************************************************************)
EXTENDS CCEH

VARIABLES
  crashed,  \* history: where the crash fell, "no" before it
  leaked    \* history: the segment a crash inside the copying left unreachable

history == <<crashed, leaked>>
crashVars == <<vars, history>>

CrashInit == Init /\ crashed = "no" /\ leaked = {}

\* Locals and the call in progress are gone.  One crash per behaviour.
Crash ==
  /\ crashed = "no"
  /\ crashed' = pc
  /\ leaked' = IF pc = "copy" THEN {NewSeg} ELSE {}
  /\ pc' = "recovery"
  /\ op' = NoOp
  /\ target' = 0
  /\ at' = 0
  /\ UNCHANGED <<table, acked>>

-----------------------------------------------------------------------------
(* CCEH::Recovery: at is i, the first entry of a group. *)

Group == dir[at]
DepthCur == local_depth[Group]

\* Mutation: the group is taken to be as wide as before its last split.
BuddyWide == at + 2 * Pow2[global_depth - DepthCur]

Buddy == at + Pow2[global_depth - DepthCur]

Return == pc' = "idle" /\ at' = 0

\* Entries of the group with another depth are reset; the last group is
\* skipped.  recovered stays false, so nothing is flushed.
RecoverGroup ==
  /\ pc = "recovery"
  /\ DepthCur <= global_depth
  /\ IF Buddy = capacity
     THEN Return /\ UNCHANGED dir
     ELSE /\ dir' = [j \in DOMAIN dir |->
                       IF at < j /\ j < Buddy /\ local_depth[dir[j]] # DepthCur
                       THEN Group ELSE dir[j]]
          /\ IF Buddy < capacity THEN at' = Buddy /\ UNCHANGED pc ELSE Return
  /\ UNCHANGED <<capacity, global_depth, nseg, local_depth, pattern, slot,
                 op, target, acked, history>>

\* A segment deeper than the table: global_depth - depth_cur wraps around, pow
\* gives infinity, and its conversion to size_t is undefined: 0 or 2^63.  j is an
\* int, and comes out as i - 1 with either.
TooDeep == pc = "recovery" /\ DepthCur > global_depth

\* From i > 0 there is no entry between j and i.  With a stride of 0 i never moves,
\* with 2^63 the outer loop ends.
RecoverOverflow ==
  /\ TooDeep /\ at > 0
  /\ Return \/ (pc' = "stuck" /\ UNCHANGED at)
  /\ UNCHANGED <<table, op, target, acked, history>>

\* At i = 0 j is -1, which i < j compares as SIZE_MAX: the loop takes the words
\* below the array for segments, may store dir._[0] over them, and goes on down
\* until one of them faults.  What memory holds by then the code does not say:
\* "wild" is an end, and no property speaks of the table in it.
RecoverBelow ==
  /\ TooDeep /\ at = 0
  /\ pc' = "wild"
  /\ UNCHANGED <<table, op, target, at, acked, history>>

CrashNext ==
  \/ Next /\ UNCHANGED history
  \/ Crash
  \/ RecoverGroup
  \/ RecoverOverflow
  \/ RecoverBelow

CrashSpec == CrashInit /\ [][CrashNext]_crashVars

-----------------------------------------------------------------------------
Restarted == pc = "recovery" /\ at = 0

\* Before Recovery runs, an acknowledged key can be missing only because the
\* crash fell between the stores of a doubling, which the comment in
\* CCEH_MSB.cpp wants to be atomic: the new array is in place and global_depth
\* still counts the bits of the old one.
RestartLosesOnlyInDoubling ==
  (Restarted /\ crashed \notin {"capacity", "depth"}) =>
    \A k \in Keys : acked[k] > 0 => Get(k) # NONE

\* A crash up to the end of the copying of a split costs nothing but the new
\* segment, then or later: no key is lost, and the directory stays coherent for
\* every other segment and leads nowhere to that one.
EarlyCrashIsHarmless ==
  (crashed \in {"idle", "probe", "publish", "copy"} /\ pc # "recovery") =>
    /\ NothingLost
    /\ pc \in {"idle", "probe", "publish"} =>
         \A i \in 0..(Pow2[global_depth] - 1), s \in Segments :
           (dir[i] = s) <=> /\ s \notin leaked
                            /\ local_depth[s] <= global_depth
                            /\ Shr(i, global_depth - local_depth[s]) = pattern[s]

\* As long as it stays inside the array Recovery never changes the directory:
\* both halves of a split segment have the new depth before the directory is
\* touched, so that what it looks for, an entry whose depth differs from its
\* group's, does not occur.
RecoveryRepairsNothing ==
  [][pc = "recovery" /\ pc' # "wild" => dir' = dir]_crashVars

\* Recovery runs for ever, or out of the array, only after a crash inside a split
\* that deepens a segment beyond the table.
RecoveryFailsOnlyInDeepening ==
  pc \in {"stuck", "wild"} =>
    crashed \in {"pattern", "directory", "capacity", "depth"}

=============================================================================
