---------------------------- MODULE MCFileLock ----------------------------
(* Three FileLock objects race for one lock file. *)
EXTENDS FileLock
CONSTANTS a1, a2, a3, i1, i2

MCAcquirers == {a1, a2, a3}
MCInodes == {i1, i2}
=============================================================================
