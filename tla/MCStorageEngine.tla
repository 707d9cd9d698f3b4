-------------------------- MODULE MCStorageEngine --------------------------
(* Three clients on one file, of which two states can be told apart. *)
EXTENDS StorageEngine
CONSTANTS c1, c2, c3, filled

MCClients == {c1, c2, c3}
MCStates == {Empty, filled}
=============================================================================
