-------------------------------- MODULE Load --------------------------------
(***************************************************************************)
(* What becomes of the database file when others than the library write to    *)
(* it: load() and check_integrity() of storage.py, the checksum, the checks    *)
(* that a write makes on its document and on the whole state, and the exit     *)
(* codes of cli.py.  The database has one collection and documents with one    *)
(* field; what the library stores is followed as Python values, what the file  *)
(* holds as JSON values (module Serializer).                                 *)
(***************************************************************************)
EXTENDS Naturals, Serializer

CONSTANTS
  Ids,          \* document ids that callers use
  Values,       \* field values that callers pass
  Edited(_),    \* what others may make of a JSON value by one edit
  MaxEdits      \* edits of one committed file

ASSUME ValuesAssumption ==
  /\ Ids \subseteq STRING \ {""}
  /\ \A v \in Values : IsPython(v) /\ Checksums(v) = {}

VARIABLES
  file,         \* the database file: a JSON value, or one of NotJson
  committed,    \* history: the state last committed, as a reader should see it
  edits,        \* history: edits of the file since then
  answer        \* the last command and its exit code

vars == <<file, committed, edits, answer>>

Missing == [missing |-> TRUE]
NotJson == {Missing, [unreadable |-> TRUE], [empty |-> TRUE], [text |-> TRUE]}

None == [k \in {} |-> Null]
ValidName(n) == n = "c"

-----------------------------------------------------------------------------
\* The checksum

WithChecksum(state, c) == [state EXCEPT !.dict["meta"].dict = Put(@, "content_sha256", c)]

\* Variant of Checksum: it covers the collections only.
ChecksumOfCollections(state) == [sha |-> Encode(state.dict["collections"])]

\* compute_checksum(): SHA-256 tells all canonical forms apart.
Checksum(state) == [sha |-> Encode(WithChecksum(state, Null))]

EmptyState ==
  LET meta == [format |-> [str |-> "json_database"], version |-> [num |-> "1"], updated_at |-> [datetime |-> "t"]]
      state == Dict([meta |-> Dict(meta), collections |-> Dict(None)])
  IN  WithChecksum(state, Checksum(state))

\* Variant of ChecksumAgrees: the stored checksum is not looked at.
ChecksumIgnored(state) == TRUE

\* _verify_checksum()
ChecksumAgrees(state) == state.dict["meta"].dict["content_sha256"] = Checksum(state)

-----------------------------------------------------------------------------
\* load() and its checks

RawDocumentAccepts(d) ==
  Is(d, "dict") =>
    /\ Field(d, "id") # [str |-> ""]
    /\ ~IsTagged(d)
    /\ \A c \in Children(d) : TagsAlone(c)

\* _validate_raw_document_fields()
RawAccepts(j) ==
  Is(j, "dict") /\ Is(Field(j, "collections"), "dict") =>
    \A n \in DOMAIN j.dict["collections"].dict :
      LET documents == j.dict["collections"].dict[n]
      IN  /\ ValidName(n)
          /\ Is(documents, "dict") =>
               \A i \in DOMAIN documents.dict : i # "" /\ RawDocumentAccepts(documents.dict[i])

\* _validate_state_shape()
ShapeAccepts(s, checksum) ==
  /\ Is(s, "dict")
  /\ LET meta == Field(s, "meta")  collections == Field(s, "collections")
     IN  /\ Is(meta, "dict")
         /\ Field(meta, "format") = [str |-> "json_database"]
         /\ Field(meta, "version") = [num |-> "1"]
         /\ checksum => DOMAIN Field(meta, "content_sha256") \subseteq {"str", "sha"}
         /\ Is(collections, "dict")
         /\ \A n \in DOMAIN collections.dict :
              /\ ValidName(n)
              /\ Is(collections.dict[n], "dict")
              /\ \A i \in DOMAIN collections.dict[n].dict :
                   LET document == collections.dict[n].dict[i]
                   IN  i # "" /\ Is(document, "dict") /\ Field(document, "id") = [str |-> i]

\* Variant of LoadError: an error of _decode() is passed on as it is.
LoadErrorUnwrapped ==
  IF file = Missing THEN "ok"
  ELSE IF Is(file, "unreadable") THEN "StorageError"
  ELSE IF file \in NotJson THEN "DatabaseFormatError"
  ELSE IF ~Fits(file) THEN "RecursionError"
  ELSE IF Huge \in Parts(file) THEN "ValueError"
  ELSE IF ~RawAccepts(file) THEN "DatabaseFormatError"
  ELSE LET state == Decode(file)
       IN  IF state = Raised THEN "SerializationError"
           ELSE IF ~ShapeAccepts(state, TRUE) THEN "DatabaseFormatError"
           ELSE IF DumpsRaises(state) THEN "SerializationError"
           ELSE IF ~ChecksumAgrees(state) THEN "IntegrityError" ELSE "ok"

\* What load() raises.  json.loads() takes NaN and lone surrogates, and its ValueError
\* for a huge number is not a JSONDecodeError; the checksum needs what can be written.
LoadError ==
  IF file = Missing THEN "ok"
  ELSE IF Is(file, "unreadable") THEN "StorageError"
  ELSE IF file \in NotJson THEN "DatabaseFormatError"
  ELSE IF ~Fits(file) THEN "RecursionError"
  ELSE IF Huge \in Parts(file) THEN "ValueError"
  ELSE IF ~RawAccepts(file) THEN "DatabaseFormatError"
  ELSE LET state == Decode(file)
       IN  IF state = Raised \/ ~ShapeAccepts(state, TRUE) THEN "DatabaseFormatError"
           ELSE IF DumpsRaises(state) THEN "SerializationError"
           ELSE IF ~ChecksumAgrees(state) THEN "IntegrityError" ELSE "ok"

Loaded == IF file = Missing THEN EmptyState ELSE Decode(file)

Statuses ==
  [ok |-> "ok", IntegrityError |-> "corrupt", DatabaseFormatError |-> "format", StorageError |-> "storage"]

\* check_integrity(): a status, or the exception that it does not catch.
Report ==
  LET error == LoadError
  IN  IF file = Missing THEN "missing"
      ELSE IF error \in DOMAIN Statuses THEN Statuses[error] ELSE error

-----------------------------------------------------------------------------
\* What a write does to the state

\* Variant of ValidateError: reserved keys are looked for in the document itself only.
ValidateErrorAtTop(body) ==
  IF ~Fits(body) THEN "RecursionError"
  ELSE IF IsTagged(body) \/ EncodeRaises(body) THEN "ValidationError"
  ELSE IF EncodeCrashes(body) THEN "ValueError" ELSE "ok"

\* validate_document().  No value of Values has two faults.
ValidateError(body) ==
  IF ~Fits(body) THEN "RecursionError"
  ELSE IF (\E p \in Parts(body) : IsTagged(p)) \/ EncodeRaises(body) THEN "ValidationError"
  ELSE IF EncodeCrashes(body) THEN "ValueError" ELSE "ok"

Body(v) == Dict([f |-> v])
Documents(state) ==
  LET collections == state.dict["collections"].dict
  IN  IF "c" \in DOMAIN collections THEN collections["c"].dict ELSE None

SetDocuments(state, documents) == [state EXCEPT !.dict["collections"].dict = Put(@, "c", Dict(documents))]

Prepared(state) == WithChecksum(state, Checksum(state))

\* _commit_unlocked() and _prepare_for_commit().  All commits are made at one time.
\* The state is checked, copied and encoded, and what it is encoded as is printed.
CommitError(state) ==
  IF ~ShapeAccepts(state, FALSE) THEN "DatabaseFormatError"
  ELSE IF ~Fits(state) THEN "RecursionError"
  ELSE IF DumpsRaises(state) THEN "SerializationError"
  ELSE IF ~Fits(Encode(Prepared(state))) THEN "RecursionError" ELSE "ok"

-----------------------------------------------------------------------------
\* Commands

\* Variant of ExitCode: a damaged file is a storage failure like others.
ExitCodeByBase(r) ==
  CASE r = "ok" -> 0
    [] r \in {"ValidationError", "SerializationError", "QueryError"} -> 2
    [] r = "LockError" -> 3
    [] r \in {"IntegrityError", "DatabaseFormatError", "StorageError"} -> 5
    [] OTHER -> 1

\* The except clauses of main(); the interpreter exits with 1 for what none catches.
ExitCode(r) ==
  CASE r = "ok" -> 0
    [] r = "NotFoundError" -> 1
    [] r \in {"ValidationError", "SerializationError", "QueryError"} -> 2
    [] r = "LockError" -> 3
    [] r \in {"IntegrityError", "DatabaseFormatError"} -> 4
    [] r = "StorageError" -> 5
    [] OTHER -> 1

Answer(command, exit) == answer' = [command |-> command, exit |-> exit]
Fails(command, r) == Answer(command, ExitCode(r)) /\ UNCHANGED <<file, committed, edits>>

\* acquire(): a timeout, or an OSError of the lock file itself.  release() may raise one
\* too, in place of the exception that it finds.
LockFailures == {"LockError", "OSError"}
\* atomic_write(): a failing step, or an OSError of making the directory.
WriteFailures == {"StorageError", "OSError"}
\* After the replacement: closing the directory (atomic.py:130), and release().
LateFailures == {"StorageError", "OSError"}
Ends(command) == \E r \in {"ok"} \cup LateFailures : Answer(command, ExitCode(r))

Commit(command, state) ==
  /\ file' = Encode(Prepared(state))
  /\ committed' = Normal(Prepared(state))
  /\ edits' = 0
  /\ Ends(command)

\* create_empty()
InitCommand ==
  \E command \in {"init", "init --force"} :
    LET exists == command = "init" /\ file # Missing
    IN  \/ \E r \in LockFailures : Fails(command, r)
        \/ exists /\ Fails(command, "StorageError")
        \/ ~exists /\ \E r \in WriteFailures : Fails(command, r)
        \/ ~exists /\ Commit(command, EmptyState)

\* StorageEngine.update(): lock and load, then an operation, then the commit.
Begin(command, loading) ==
  \/ \E r \in LockFailures : Fails(command, r)
  \/ loading # "ok" /\ Fails(command, loading)

Finish(command, error, state) ==
  LET failure == IF error # "ok" THEN error ELSE CommitError(state)
  IN  \/ failure # "ok" /\ Fails(command, failure)
      \/ failure = "ok" /\ \E r \in WriteFailures : Fails(command, r)
      \/ failure = "ok" /\ Commit(command, state)

\* insert and upsert make a document, update and replace need one.
WriteCommand ==
  LET loading == LoadError
  IN  \/ Begin("write", loading)
      \/ /\ loading = "ok"
         /\ LET documents == Documents(Loaded)
            IN  \E needed \in BOOLEAN, i \in Ids, v \in Values :
                  Finish("write",
                         IF ValidateError(Body(v)) # "ok" THEN ValidateError(Body(v))
                         ELSE IF needed /\ i \notin DOMAIN documents THEN "NotFoundError" ELSE "ok",
                         SetDocuments(Loaded, Put(documents, i, Dict([id |-> [str |-> i], f |-> v]))))

DeleteCommand ==
  LET loading == LoadError
  IN  \/ Begin("delete", loading)
      \/ /\ loading = "ok"
         /\ LET documents == Documents(Loaded)
            IN  \E i \in Ids :
                  Finish("delete", IF i \in DOMAIN documents THEN "ok" ELSE "NotFoundError",
                         SetDocuments(Loaded, Restrict(documents, DOMAIN documents \ {i})))

\* get, query, dump and collections: reads take no lock, and print what dumps() can print.
ReadCommand ==
  LET loading == LoadError
  IN  \/ loading # "ok" /\ Fails("read", loading)
      \/ loading = "ok" /\ \E r \in {"ok", "QueryError"} : Fails("read", r)
      \/ /\ loading = "ok"
         /\ \E i \in Ids : i \notin DOMAIN Documents(Loaded) /\ Fails("read", "NotFoundError")

\* A JSON argument or a collection name that is not one is refused before anything is read.
RefusedCommand == \E r \in {"SerializationError", "ValidationError"} : Fails("refused", r)

CheckCommand ==
  LET report == Report
  IN  /\ Answer("check", IF report = "ok" THEN 0
                         ELSE IF report \in {"missing", "corrupt", "format", "storage"} THEN 4
                         ELSE ExitCode(report))
      /\ UNCHANGED <<file, committed, edits>>

-----------------------------------------------------------------------------
\* Others make any JSON of the file, but they do not compute a checksum.
Edit ==
  /\ edits < MaxEdits
  /\ file' \in NotJson
       \cup (IF file \in NotJson THEN {}
             ELSE {j \in Edited(file) : IsJson(j) /\ Checksums(j) \subseteq Checksums(file)})
  /\ edits' = edits + 1
  /\ answer' = [command |-> "none", exit |-> 0]
  /\ UNCHANGED committed

Init ==
  /\ file = Missing
  /\ committed = EmptyState
  /\ edits = 0
  /\ answer = [command |-> "none", exit |-> 0]

Next == InitCommand \/ WriteCommand \/ DeleteCommand \/ ReadCommand \/ RefusedCommand \/ CheckCommand \/ Edit

Spec == Init /\ [][Next]_vars

-----------------------------------------------------------------------------
\* A file that only the library wrote can be loaded, and holds what was committed:
\* every value that a write accepts, sets and tuples in whatever nesting included.
LoadsBack == edits = 0 => LoadError = "ok" /\ Loaded = committed

\* Whether the file says what was committed, however it is written.
SameContent ==
  /\ file \notin NotJson
  /\ Fits(file)
  /\ Decode(file) # Raised
  /\ ShapeAccepts(Decode(file), TRUE)
  /\ WithChecksum(Decode(file), Null) = WithChecksum(committed, Null)

\* check passes no file that says anything but what was committed.
DamageIsSeen == Report = "ok" => SameContent

\* No command but init --force replaces a damaged file, whether it succeeds or fails
\* late, so that damage is never given a valid checksum.
DamageStays ==
  [][answer'.command # "none" /\ file' # file =>
       answer'.command = "init --force" \/ file = Missing \/ SameContent]_vars

\* The file holds something that json.loads() or _decode() reads and the library cannot
\* write: a strange atom, the NaN of Decimal, or too much nesting.
Strange ==
  \/ ~Fits(file)
  \/ {NaN, Huge, Surrogate} \cap Parts(file) # {}
  \/ \E p \in Parts(file) :
       IsTagged(p) /\ p.dict[TypeKey] = [str |-> "decimal"] /\ Field(p, "value") = [str |-> "nan"]

\* A readable file that does not say what was committed.
Damaged == file # Missing /\ ~Is(file, "unreadable") /\ ~SameContent

\* A damaged file gives exit code 4 whatever the command, unless the lock fails or the
\* arguments are refused first; only an edited file, or check on a missing one, gives 4;
\* and check has no other codes than 0 and 4.
ExitCodes ==
  [][answer'.command # "none" =>
       LET command == answer'.command  exit == answer'.exit
       IN  \/ /\ command \in {"read", "check"} /\ exit # 4 => ~Damaged
              /\ command \in {"write", "delete"} /\ exit \notin {ExitCode(r) : r \in LockFailures} \cup {4}
                 => ~Damaged
              /\ exit = 4 => edits > 0 \/ (command = "check" /\ file = Missing)
              /\ command = "check" => exit \in {0, 4}
           \/ Strange]_vars
=============================================================================
