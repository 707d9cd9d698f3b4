---------------------------- MODULE SerialStore ----------------------------
(***************************************************************************)
(* What the database promises its clients, with no lock and no pc: a        *)
(* transaction works on a private copy of the store and is published in one  *)
(* step, in which the store must still be the one it was copied from.  Every *)
(* behaviour is therefore a serial execution in the order of the commits,    *)
(* and a transaction that ends in any other way leaves no trace.             *)
(***************************************************************************)
CONSTANTS
  Clients,
  States,       \* database states
  Empty,        \* the state of a database nobody has written to
  NoFile,       \* there is no database file
  None          \* no answer yet

VARIABLES
  store,        \* the committed state
  active,       \* the clients with a transaction in progress
  base,         \* base[c]: the store that c's transaction was copied from
  work,         \* work[c]: c's private copy
  answer        \* answer[c]: what c's last read returned

svars == <<store, active, base, work, answer>>

Content(s) == IF s = NoFile THEN Empty ELSE s

Init ==
  /\ store = NoFile
  /\ active = {}
  /\ base = [c \in Clients |-> NoFile]
  /\ work = [c \in Clients |-> Empty]
  /\ answer = [c \in Clients |-> None]

Forget(c) ==
  /\ base' = [base EXCEPT ![c] = NoFile]
  /\ work' = [work EXCEPT ![c] = Empty]

Begin(c) ==
  /\ c \notin active
  /\ active' = active \cup {c}
  /\ base' = [base EXCEPT ![c] = store]
  /\ work' = [work EXCEPT ![c] = Content(store)]
  /\ UNCHANGED <<store, answer>>

Edit(c) ==
  /\ c \in active
  /\ \E s \in States : work' = [work EXCEPT ![c] = s]
  /\ UNCHANGED <<store, active, base, answer>>

Commit(c) ==
  /\ c \in active
  /\ store = base[c]
  /\ store' = work[c]
  /\ active' = active \ {c}
  /\ Forget(c)
  /\ UNCHANGED answer

Abort(c) ==
  /\ c \in active
  /\ active' = active \ {c}
  /\ Forget(c)
  /\ UNCHANGED <<store, answer>>

\* init(): the store becomes the empty one.
Reset(c) ==
  /\ c \notin active
  /\ store' = Empty
  /\ UNCHANGED <<active, base, work, answer>>

\* A client that asks anew has no answer; a read then answers with the content of
\* the committed state, an integrity check with that state or with its absence.
Ask(c) ==
  /\ c \notin active
  /\ answer' = [answer EXCEPT ![c] = None]
  /\ UNCHANGED <<store, active, base, work>>

Read(c) ==
  /\ c \notin active
  /\ answer' \in {[answer EXCEPT ![c] = Content(store)], [answer EXCEPT ![c] = store]}
  /\ UNCHANGED <<store, active, base, work>>

Next ==
  \E c \in Clients :
    Begin(c) \/ Edit(c) \/ Commit(c) \/ Abort(c) \/ Reset(c) \/ Ask(c) \/ Read(c)

Spec == Init /\ [][Next]_svars
=============================================================================
