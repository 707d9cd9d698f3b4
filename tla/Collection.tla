----------------------------- MODULE Collection -----------------------------
(***************************************************************************)
(* The operations of collection.py on the in-memory state that an autocommit  *)
(* write or a transaction edits, and the shape check of storage.py that the    *)
(* commit makes on the result.  Each operation is a function from the state    *)
(* to its outcome: the state it leaves and what it returns or raises.         *)
(*                                                                         *)
(* A document is its id and its other fields; a body is what a caller passes,  *)
(* which may lack an id, have a wrong one, or fail validate_document().        *)
(*                                                                         *)
(* copy.deepcopy() takes more of the stack than validate_document(): a value    *)
(* in Deep passes the one, and the other raises RecursionError for it unless   *)
(* the caller has left room.                                                 *)
(***************************************************************************)
EXTENDS Naturals, Sequences, SequencesExt, FiniteSets

CONSTANTS
  Names,        \* valid collection names
  BadName,      \* a name that validate_collection_name() refuses
  Ids,          \* non-empty strings
  BadId,        \* an empty or non-string id
  NoId,         \* a body without an id field
  Bodies,       \* the bodies callers pass: records [id, fields]
  Deep,         \* values of fields that copy.deepcopy() needs room for
  Invalid,      \* a body that validate_document() refuses
  Malformed,    \* an entry of bulk_update() that is not a pair
  MaxBulk       \* entries in the list of a bulk operation

ASSUME CollectionAssumption ==
  /\ BadName \notin Names
  /\ {BadId, NoId} \cap Ids = {}
  /\ BadId # NoId
  /\ MaxBulk \in Nat
  /\ \A b \in Bodies :
       /\ DOMAIN b = {"id", "fields"}
       /\ b.id \in Ids \cup {BadId, NoId} /\ IsFiniteSet(DOMAIN b.fields)

VARIABLES
  collections,  \* state["collections"]
  result        \* how the last operation ended

vars == <<collections, result>>

AnyName == Names \cup {BadName}
AnyId == Ids \cup {BadId}
AnyBody == Bodies \cup {Invalid}

Init ==
  /\ collections = [n \in {} |-> {}]
  /\ result = "ok"

-----------------------------------------------------------------------------
\* Looking things up

\* _get_collection_ref(), without missing_ok
Documents(n) == IF n \in DOMAIN collections THEN collections[n] ELSE [i \in {} |-> {}]

CollectionError(n) ==
  IF n = BadName THEN "ValidationError"
  ELSE IF n \notin DOMAIN collections THEN "NotFoundError" ELSE "ok"

\* _get_document_ref()
DocumentError(n, i) ==
  IF i = BadId \/ n = BadName THEN "ValidationError"
  ELSE IF i \notin DOMAIN Documents(n) THEN "NotFoundError" ELSE "ok"

\* insert(), update() and their bulk forms refuse a body with an id of its own.
BodyError(b) == IF b = Invalid \/ b.id # NoId THEN "ValidationError" ELSE "ok"

\* copy.deepcopy() of a body or a document
CopyError(b, room) ==
  IF b # Invalid /\ ~room /\ \E x \in DOMAIN b.fields : b.fields[x] \in Deep
  THEN "RecursionError" ELSE "ok"

\* replace() and upsert() validate, copy, and accept the document's own id.
StoredError(i, b, room) ==
  IF b = Invalid THEN "ValidationError"
  ELSE IF CopyError(b, room) # "ok" THEN CopyError(b, room)
  ELSE IF b.id \notin {NoId, i} THEN "ValidationError" ELSE "ok"

FirstError(errors) ==
  LET raised == {k \in DOMAIN errors : errors[k] # "ok"}
  IN  IF raised = {} THEN "ok" ELSE errors[CHOOSE k \in raised : \A l \in raised : k <= l]

-----------------------------------------------------------------------------
\* Changing the state

\* dict.update(): new over old.  These are @@ and :> of module TLC, which the prover
\* cannot expand.
Over(new, old) ==
  [x \in DOMAIN new \cup DOMAIN old |-> IF x \in DOMAIN new THEN new[x] ELSE old[x]]
Only(x, value) == [y \in {x} |-> value]

\* _ensure_collection(state, n)[i] = document
Put(state, n, i, document) ==
  LET documents == IF n \in DOMAIN state THEN state[n] ELSE [j \in {} |-> {}]
  IN  Over(Only(n, Over(Only(i, document), documents)), state)

\* Variant of Stored: the body is stored under the id without being given it.
StoredAsGiven(i, b) == b

\* stored = deepcopy(document); stored["id"] = document_id
Stored(i, b) == [b EXCEPT !.id = i]

\* Variant of Merged: update() replaces all fields.
MergedAsReplaced(document, b) == [document EXCEPT !.fields = b.fields]

\* document.update(updates), whatever the updates hold
Merged(document, b) ==
  [id |-> IF b.id = NoId THEN document.id ELSE b.id, fields |-> Over(b.fields, document.fields)]

Outcome(r, state) == [result |-> r, state |-> IF r = "ok" THEN state ELSE collections]

\* Variant of Insert: the collection is made without a look at its name.
InsertAnywhere(n, i, b, room) == Outcome(BodyError(b), Put(collections, n, i, Stored(i, b)))

\* The id is a fresh uuid4, checked against nothing.
Insert(n, i, b, room) ==
  LET r == FirstError(<<BodyError(b), CopyError(b, room),
                        IF n = BadName THEN "ValidationError" ELSE "ok">>)
  IN  Outcome(r, Put(collections, n, i, Stored(i, b)))

\* The document is changed before the copy of it that is returned is made.
Update(n, i, b, room) ==
  LET r == FirstError(<<BodyError(b), DocumentError(n, i), CopyError(b, room)>>)
      document == Merged(Documents(n)[i], b)
  IN  IF r # "ok" THEN Outcome(r, collections)
      ELSE [result |-> CopyError(document, room), state |-> Put(collections, n, i, document)]

\* Variant of Replace: it does not look the document up first.
ReplaceWithoutLookup(n, i, b, room) ==
  Outcome(FirstError(<<StoredError(i, b, room),
                       IF i = BadId \/ n = BadName THEN "ValidationError" ELSE "ok">>),
          Put(collections, n, i, Stored(i, b)))

Replace(n, i, b, room) ==
  Outcome(FirstError(<<StoredError(i, b, room), DocumentError(n, i)>>),
          Put(collections, n, i, Stored(i, b)))

\* The collection stays when its last document goes.
Delete(n, i) ==
  LET r == FirstError(<<IF i = BadId THEN "ValidationError" ELSE "ok", CollectionError(n),
                        DocumentError(n, i)>>)
  IN  Outcome(r, [collections EXCEPT ![n] = [j \in DOMAIN @ \ {i} |-> @[j]]])

Upsert(n, i, b, room) ==
  LET r == FirstError(<<IF i = BadId THEN "ValidationError" ELSE "ok", StoredError(i, b, room),
                        IF n = BadName THEN "ValidationError" ELSE "ok">>)
  IN  Outcome(r, Put(collections, n, i, Stored(i, b)))

\* How many of the bodies a loop copies: those before the first that does not fit.
Copied(bodies, room) ==
  CHOOSE m \in 0..Len(bodies) :
    /\ \A k \in 1..m : CopyError(bodies[k], room) = "ok"
    /\ m < Len(bodies) => CopyError(bodies[m + 1], room) # "ok"

\* The outcome of a bulk operation that makes all checks, then m steps of its N.
Loop(r, m, N, state) ==
  IF r # "ok" THEN Outcome(r, collections)
  ELSE [result |-> IF m = N THEN "ok" ELSE "RecursionError", state |-> state]

\* All bodies are validated before the first is stored; an empty list still makes
\* the collection.
BulkInsert(n, ids, bodies, room) ==
  LET r == FirstError([k \in DOMAIN bodies |-> BodyError(bodies[k])]
                      \o <<IF n = BadName THEN "ValidationError" ELSE "ok">>)
      m == Copied(bodies, room)
      stored == [i \in {ids[k] : k \in 1..m} |->
                   Stored(i, bodies[CHOOSE k \in 1..m : ids[k] = i])]
  IN  Loop(r, m, Len(bodies), Over(Only(n, Over(stored, Documents(n))), collections))

\* The checks of one entry, in the order they are made.
EntryError(n, e) ==
  IF e = Malformed THEN "ValidationError"
  ELSE FirstError(<<DocumentError(n, e.id), BodyError(e.body)>>)

ChecksOf(n, entries) ==
  FirstError(<<CollectionError(n)>> \o [k \in DOMAIN entries |-> EntryError(n, entries[k])])

Apply(n, state, e) == Put(state, n, e.id, Merged(state[n][e.id], e.body))

\* The states after each of the entries.
Applied(n, entries) ==
  LET after[k \in 0..Len(entries)] ==
        IF k = 0 THEN collections ELSE Apply(n, after[k - 1], entries[k])
  IN  after

\* Variant of BulkUpdate: each entry is applied as soon as it has been checked.
BulkUpdateAsItGoes(n, entries, room) ==
  LET good == SelectSeq(entries, LAMBDA e : EntryError(n, e) = "ok")
  IN  [result |-> ChecksOf(n, entries), state |-> Applied(n, good)[Len(good)]]

\* Variant of BulkUpdate: the entries are merged into the documents read before.
BulkUpdateFromSnapshot(n, entries, room) ==
  LET apply(state, e) == Put(state, n, e.id, Merged(collections[n][e.id], e.body))
  IN  Outcome(ChecksOf(n, entries), FoldLeft(apply, collections, entries))

\* Every entry is checked before the first is applied; then they apply in order, each
\* when its updates have been copied.
BulkUpdate(n, entries, room) ==
  LET r == ChecksOf(n, entries)
      m == Copied([k \in DOMAIN entries |-> entries[k].body], room)
  IN  Loop(r, m, Len(entries), Applied(n, entries)[m])

-----------------------------------------------------------------------------
\* What _validate_state_shape() asks of collections: their names, the ids and id fields.
ShapeAccepts(state) ==
  \A n \in DOMAIN state :
    /\ n # BadName
    /\ \A i \in DOMAIN state[n] : i # BadId /\ state[n][i].id = i

-----------------------------------------------------------------------------
Lists(S) == UNION {[1..k -> S] : k \in 0..MaxBulk}
Entries == [id : AnyId, body : AnyBody] \cup {Malformed}

\* uuid4 makes ids that the collection does not have yet.
Fresh(n, ids) ==
  /\ \A k \in DOMAIN ids : ids[k] \notin DOMAIN Documents(n)
  /\ \A k, l \in DOMAIN ids : ids[k] = ids[l] => k = l

Do(outcome) == collections' = outcome.state /\ result' = outcome.result

InsertStep ==
  \E n \in AnyName, i \in Ids, b \in AnyBody, room \in BOOLEAN :
    Fresh(n, <<i>>) /\ Do(Insert(n, i, b, room))
UpdateStep ==
  \E n \in AnyName, i \in AnyId, b \in AnyBody, room \in BOOLEAN : Do(Update(n, i, b, room))
ReplaceStep ==
  \E n \in AnyName, i \in AnyId, b \in AnyBody, room \in BOOLEAN : Do(Replace(n, i, b, room))
DeleteStep == \E n \in AnyName, i \in AnyId : Do(Delete(n, i))
UpsertStep ==
  \E n \in AnyName, i \in AnyId, b \in AnyBody, room \in BOOLEAN : Do(Upsert(n, i, b, room))
BulkInsertStep ==
  \E n \in AnyName, bodies \in Lists(AnyBody), room \in BOOLEAN :
    \E ids \in [DOMAIN bodies -> Ids] : Fresh(n, ids) /\ Do(BulkInsert(n, ids, bodies, room))
BulkUpdateStep ==
  \E n \in AnyName, entries \in Lists(Entries), room \in BOOLEAN : Do(BulkUpdate(n, entries, room))
\* bulk_insert() or bulk_update() of something that is not a list
NotListStep == Do(Outcome("ValidationError", collections))

Next ==
  \/ InsertStep \/ UpdateStep \/ ReplaceStep \/ DeleteStep \/ UpsertStep
  \/ BulkInsertStep \/ BulkUpdateStep \/ NotListStep

Spec == Init /\ [][Next]_vars

-----------------------------------------------------------------------------
TypeOK ==
  /\ DOMAIN collections \subseteq Names
  /\ \A n \in DOMAIN collections :
       /\ DOMAIN collections[n] \subseteq Ids
       /\ \A i \in DOMAIN collections[n] : DOMAIN collections[n][i] = {"id", "fields"}
  /\ result \in {"ok", "ValidationError", "NotFoundError", "RecursionError"}

\* No sequence of operations, with those that raised half-way among them, builds a state
\* whose names, ids and id fields the commit then refuses.  What the encoder and load()
\* refuse besides is in Load.
CommitAcceptsShape == ShapeAccepts(collections)

\* No collection, document or field is gone.
NothingLost(old, new) ==
  \A n \in DOMAIN old :
    /\ n \in DOMAIN new
    /\ \A i \in DOMAIN old[n] :
         i \in DOMAIN new[n] /\ DOMAIN old[n][i].fields \subseteq DOMAIN new[n][i].fields

\* An operation that finds fault with its arguments leaves the state as it was, so a body
\* that catches the exception may go on and commit.  One that runs out of stack in a copy
\* may leave a part of its work behind, but takes nothing away.
RaisingKeepsState ==
  [][/\ result' \in {"ValidationError", "NotFoundError"} => collections' = collections
     /\ result' = "RecursionError" => NothingLost(collections, collections')]_vars

\* The updates of a list, each an update() of its own with the checks in its order; the
\* first that raises is the last.
UpdateEntry(o, n, e) ==
  IF o.result # "ok" THEN o
  ELSE LET document == IF e.id = BadId THEN "ValidationError"
                       ELSE IF e.id \notin DOMAIN o.state[n] THEN "NotFoundError" ELSE "ok"
           r == IF e = Malformed THEN "ValidationError"
                ELSE FirstError(<<BodyError(e.body), document>>)
       IN  [result |-> r, state |-> IF r = "ok" THEN Apply(n, o.state, e) ELSE o.state]

Sequential(n, entries) ==
  LET after[k \in 0..Len(entries)] ==
        IF k = 0 THEN [result |-> "ok", state |-> collections]
        ELSE UpdateEntry(after[k - 1], n, entries[k])
  IN  after

\* With room on the stack a bulk update returns if and only if all of its updates, one
\* after the other, would, and then builds what they build, also when they name one
\* document twice.
BulkUpdateIsSequential ==
  \A n \in DOMAIN collections, entries \in Lists(Entries) :
    LET one == Sequential(n, entries)[Len(entries)]
        bulk == BulkUpdate(n, entries, TRUE)
    IN  (bulk.result = "ok" <=> one.result = "ok") /\ (one.result = "ok" => bulk.state = one.state)

\* With room on the stack, upsert() and replace() are two ways to one result on a document
\* that exists, and on a missing one replace() refuses what upsert() creates, with the
\* same checks.
UpsertAgreesWithReplace ==
  \A n \in AnyName, i \in AnyId, b \in AnyBody :
    LET upsert == Upsert(n, i, b, TRUE)  replace == Replace(n, i, b, TRUE)
    IN  IF DocumentError(n, i) = "NotFoundError" /\ upsert.result = "ok"
        THEN replace.result = "NotFoundError"
        ELSE replace = upsert

\* A document can be read back under the id its writer got, with what was written
\* and, after update(), with every other field as it was.
ReadsBack ==
  \A n \in Names, i \in Ids, b \in Bodies, room \in BOOLEAN :
    LET stored == Upsert(n, i, b, room)  merged == Update(n, i, b, room)
    IN  /\ stored.result = "ok" => stored.state[n][i] = [id |-> i, fields |-> b.fields]
        /\ merged.result = "ok" =>
             \A f \in DOMAIN Documents(n)[i].fields \cup DOMAIN b.fields :
               /\ f \in DOMAIN merged.state[n][i].fields
               /\ merged.state[n][i].fields[f] =
                    IF f \in DOMAIN b.fields THEN b.fields[f] ELSE Documents(n)[i].fields[f]
=============================================================================
