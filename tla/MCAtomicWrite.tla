--------------------------- MODULE MCAtomicWrite ---------------------------
(* Three writes, each of which may fail anywhere, and a reader. *)
EXTENDS AtomicWrite
CONSTANTS r1

MCReaders == {r1}
=============================================================================
