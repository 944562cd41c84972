------------------------------ MODULE MCCCEH ------------------------------
(***************************************************************************)
(* Small instances of CCEH for TLC: hashes of six or seven bits, segments *)
(* of four slots and windows of two, so that three keys are enough to      *)
(* overflow a window.                                                      *)
(***************************************************************************)
EXTENDS CCEH, TLC

CONSTANTS k1, k2, k3, k4, k5, k6, k7, k8

MCPow2 == [n \in 0..HashBits |-> 2^n]

\* A hash from its leading part (directory index) and its trailing two bits
\* (start slot).
HashOf(lead, start) == 4 * lead + start

\* Windows that end inside the segment: start slots 1 and 2 of four.  Keys 1 to
\* 3 crowd one corner of the table and take the directory to depth four, with
\* key 5 only to depth three; key 4 is left behind by one split and found again
\* by the next; keys 6 to 8 split a segment of depth one late, when it owns four
\* or eight entries.
InnerHashes ==
  k1 :> HashOf(0, 1) @@ k2 :> HashOf(1, 1) @@ k3 :> HashOf(2, 1) @@
  k4 :> HashOf(12, 2) @@ k5 :> HashOf(6, 1) @@
  k6 :> HashOf(16, 1) @@ k7 :> HashOf(26, 1) @@ k8 :> HashOf(30, 2) @@
  INVALID :> HashOf(31, 3)

\* Two keys that start at slot 2 fill the end of the segment, the third goes
\* around it, the fourth splits: the split meets the third pair first, at slot
\* 0, and moves it to slot 3.
WrapHashes ==
  k1 :> HashOf(4, 2) @@ k2 :> HashOf(5, 2) @@ k3 :> HashOf(6, 3) @@
  k4 :> HashOf(7, 2) @@ k5 :> HashOf(2, 2) @@ INVALID :> HashOf(15, 3)

MCInnerHash == [k \in Keys \cup {INVALID} |-> InnerHashes[k]]
MCWrapHash == [k \in Keys \cup {INVALID} |-> WrapHashes[k]]

=============================================================================
