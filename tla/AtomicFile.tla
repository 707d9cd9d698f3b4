---------------------------- MODULE AtomicFile ----------------------------
(***************************************************************************)
(* The promise of ADR 0001: the database file always is one complete version, *)
(* a write replaces it in one step, and a power loss brings back a complete   *)
(* version too, the last one or, until the directory has been synced, one     *)
(* that it replaced.                                                         *)
(***************************************************************************)
CONSTANT Versions

VARIABLES
  value,        \* the version the database path names
  survivors     \* the versions a power loss now may leave there

Put(v) == value' = v /\ survivors' = survivors \cup {v}
Settle == value' = value /\ survivors' = {value}
PowerLoss == value' \in survivors /\ survivors' = {value'}

Init == value \in Versions /\ survivors = {value}
Next == (\E v \in Versions : Put(v)) \/ Settle \/ PowerLoss
Spec == Init /\ [][Next]_<<value, survivors>>
=============================================================================
