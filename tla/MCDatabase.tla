----------------------------- MODULE MCDatabase -----------------------------
(* Two Database objects, one with two Transaction objects. *)
EXTENDS Database
CONSTANTS d1, d2, t1, t2, t3, filled

MCDatabases == {d1, d2}
MCTransactions == {t1, t2, t3}
MCDatabaseOf == [t \in MCTransactions |-> IF t = t3 THEN d2 ELSE d1]
MCStates == {Empty, filled}
=============================================================================
