---------------------------- MODULE MCCCEHCrash ----------------------------
EXTENDS CCEHCrash, TLC

CONSTANTS k1, k2, k3, k4, k5, k6

MCPow2 == [n \in 0..HashBits |-> 2^n]

\* A hash from its leading part and its trailing two bits.
HashOf(lead, start) == 4 * lead + start

Hashes ==
  k1 :> HashOf(0, 1) @@ k2 :> HashOf(1, 1) @@ k3 :> HashOf(2, 1) @@
  k4 :> HashOf(16, 1) @@ k5 :> HashOf(22, 1) @@ k6 :> HashOf(30, 1) @@
  INVALID :> HashOf(31, 3)

MCHash == [k \in Keys \cup {INVALID} |-> Hashes[k]]
=============================================================================
