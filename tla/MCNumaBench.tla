---------------------------- MODULE MCNumaBench ----------------------------
EXTENDS NumaBench

CONSTANTS a1, a2, a3, d1

MCPO_NAME == [numa_seqread |-> "numa_seqread",
              numa_seqread_aware |-> "numa_aware_seqread",
              numa_seqwrite |-> "numa_seqwrite",
              numa_seqwrite_aware |-> "numa_aware_seqwrite",
              pages_randread |-> "multiple_pages_seqwrite",
              pages_randread_mul |-> "multiple_pages_seqwrite",
              pages_randwrite |-> "multiple_pages_seqwrite",
              pages_randwrite_mul |-> "multiple_pages_seqwrite"]
MCNames == {MCPO_NAME[p] : p \in DOMAIN MCPO_NAME}
MCThreadNum == <<1, 2, 3>>

\* One pattern that reaches every block and one that repeats a block
MCDrawn == {[b \in Blocks |-> b], [b \in Blocks |-> 0]}
=============================================================================
