------------------------------ MODULE HashMap ------------------------------
(***************************************************************************)
(* What the Hash interface (datastructures/hash.h) promises to its only    *)
(* client, the driver CCEH_MSB_test.cc: a map from keys to values, one     *)
(* operation at a time.  A key that has been inserted stays findable, and  *)
(* Get returns a value that was inserted for it.                           *)
(*                                                                         *)
(* Insert does not look for an older pair with the same key, so inserting  *)
(* a key again may or may not change what Get returns; the interface       *)
(* promises only that one of the two values is there.                      *)
(***************************************************************************)

CONSTANTS
  Keys,    \* keys a client may insert
  Values,  \* values a client may insert
  NONE,    \* what Get returns for a key that is not there
  NoOp     \* no operation in progress

VARIABLES
  map,     \* what Get returns for each key
  pending  \* the operation in progress, or NoOp

mapVars == <<map, pending>>

Operations == [key : Keys, value : Values, resize : BOOLEAN]

Init ==
  /\ map = [k \in Keys |-> NONE]
  /\ pending = NoOp

Begin ==
  /\ pending = NoOp
  /\ pending' \in Operations
  /\ UNCHANGED map

\* The pair becomes visible, in one step, as the operation returns.
Return ==
  /\ pending # NoOp
  /\ map' = [map EXCEPT ![pending.key] = pending.value]
  /\ pending' = NoOp

\* A second insertion of a key that leaves the older pair in front.
ReturnShadowed ==
  /\ pending # NoOp
  /\ map[pending.key] # NONE
  /\ pending' = NoOp
  /\ UNCHANGED map

\* InsertOnly returns false; Insert never does.
ReturnFull ==
  /\ pending # NoOp
  /\ ~pending.resize
  /\ pending' = NoOp
  /\ UNCHANGED map

Next == Begin \/ Return \/ ReturnShadowed \/ ReturnFull

Spec == Init /\ [][Next]_mapVars

=============================================================================
