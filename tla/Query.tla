-------------------------------- MODULE Query --------------------------------
(***************************************************************************)
(* query.py on the documents of one collection: find() and where().          *)
(*                                                                         *)
(* A value is a record with one field named for its type: [const |-> c],       *)
(* [num |-> n], [str |-> sequence of character codes], [list |-> seq],         *)
(* [keys |-> the keys of a dictionary].  Only numbers and strings are ordered   *)
(* here.  A document is a function from the names of its fields to values.     *)
(* Criteria are a list of [field, expected], in the order of the dictionary;   *)
(* expected is [is |-> value] or [ops |-> list of [op, arg]], where some op     *)
(* starts with $.  None is the empty list; criteria that are no dictionary are  *)
(* one field that is no string, as both are refused at once.                  *)
(***************************************************************************)
EXTENDS Integers, Sequences, SequencesExt

CONSTANTS
  Docs,         \* the documents that are inserted
  Queries,      \* the criteria of find()
  Predicates,   \* of where(): functions from documents to yes, no or raises
  NotText,      \* a field of criteria that is not a string
  NotCallable,  \* a predicate that cannot be called
  MaxDocs       \* documents in the collection

ASSUME QueryAssumption ==
  \A query \in Queries : \A k \in DOMAIN query :
    DOMAIN query[k].expected \in {{"is"}, {"ops"}}

ASSUME DocumentAssumption ==
  \A d \in Docs : NotText \notin DOMAIN d /\ \A f \in DOMAIN d :
    d[f] \in [num : Int] \cup [str : Seq(Int)] \/ DOMAIN d[f] \cap {"num", "str"} = {}

VARIABLES
  documents,    \* the documents, in the order of their insertion
  last          \* the last query and its outcome

vars == <<documents, last>>

OPERATORS == {"$eq", "$ne", "$gt", "$gte", "$lt", "$lte", "$in", "$nin", "$contains", "$exists"}
IsOperator(op) == op \in OPERATORS \cup {"$unknown"}     \* starts with $

-----------------------------------------------------------------------------
\* Python's operations on the values of the documents

Is(v, type) == type \in DOMAIN v
Comparable(a, b) == \E type \in {"num", "str"} : Is(a, type) /\ Is(b, type)
TextLess(s, t) ==
  \E k \in 1..Len(t) :
    /\ \A j \in 1..(k - 1) : j <= Len(s) /\ s[j] = t[j]
    /\ k <= Len(s) => s[k] < t[k]
Less(a, b) == IF Is(a, "num") THEN a.num < b.num ELSE TextLess(a.str, b.str)
Truthy(v) == v \notin {[const |-> "null"], [num |-> 0], [str |-> <<>>], [list |-> <<>>], [keys |-> {}]}

\* "expected in actual"; anything but a container raises a TypeError.
Holds(actual, expected) ==
  \/ Is(actual, "list") /\ \E k \in DOMAIN actual.list : actual.list[k] = expected
  \/ Is(actual, "keys") /\ Is(expected, "str") /\ expected.str \in actual.keys
  \/ /\ Is(actual, "str") /\ Is(expected, "str")
     /\ \E k \in 0..Len(actual.str) : IsPrefix(expected.str, SubSeq(actual.str, k + 1, Len(actual.str)))

-----------------------------------------------------------------------------
YesNo(b) == IF b THEN "yes" ELSE "no"

\* A loop that returns or raises at the first outcome other than yes.
FirstOther(outcomes) ==
  IF \A k \in DOMAIN outcomes : outcomes[k] = "yes" THEN "yes"
  ELSE IF \E k \in DOMAIN outcomes :
            outcomes[k] = "QueryError" /\ \A j \in 1..(k - 1) : outcomes[j] = "yes"
  THEN "QueryError" ELSE "no"

\* Variant of Differs: a missing field differs from nothing.
DiffersWhenPresent(exists, same) == exists /\ ~same

\* $ne and $nin
Differs(exists, same) == ~(exists /\ same)

\* One turn of the loop of _matches_operators().  "$in" looks at the type of its
\* argument only when the field exists.
MatchesOperator(actual, exists, op, arg) ==
  LET ordered == Comparable(actual, arg)
  IN  CASE op \notin OPERATORS -> "QueryError"
        [] op = "$exists" -> YesNo(Truthy(arg) = exists)
        [] op = "$ne" -> YesNo(Differs(exists, actual = arg))
        [] op = "$nin" -> IF Is(arg, "list") THEN YesNo(Differs(exists, Holds(arg, actual))) ELSE "QueryError"
        [] op = "$in" -> IF exists /\ ~Is(arg, "list") THEN "QueryError" ELSE YesNo(exists /\ Holds(arg, actual))
        [] op = "$eq" -> YesNo(exists /\ actual = arg)
        [] op = "$gt" -> YesNo(exists /\ ordered /\ Less(arg, actual))
        [] op = "$gte" -> YesNo(exists /\ ordered /\ ~Less(actual, arg))
        [] op = "$lt" -> YesNo(exists /\ ordered /\ Less(actual, arg))
        [] op = "$lte" -> YesNo(exists /\ ordered /\ ~Less(arg, actual))
        [] op = "$contains" -> YesNo(exists /\ Holds(actual, arg))

\* document.get(field)
Actual(d, field) == IF field \in DOMAIN d THEN d[field] ELSE [const |-> "null"]

\* Variant of MatchesValue: a missing field is taken for null.
MatchesValueOrNull(d, field, value) == YesNo(Actual(d, field) = value)

MatchesValue(d, field, value) == YesNo(field \in DOMAIN d /\ d[field] = value)

\* One field of the criteria: a value, or an expression whose keys are all operators.
MatchesClause(d, clause) ==
  LET field == clause.field  ops == clause.expected.ops
  IN  IF field = NotText THEN "QueryError"
      ELSE IF Is(clause.expected, "is") THEN MatchesValue(d, field, clause.expected.is)
      ELSE IF \E k \in DOMAIN ops : ~IsOperator(ops[k].op) THEN "QueryError"
      ELSE FirstOther([k \in DOMAIN ops |->
                         MatchesOperator(Actual(d, field), field \in DOMAIN d, ops[k].op, ops[k].arg)])

\* matches()
Matches(d, query) == FirstOther([k \in DOMAIN query |-> MatchesClause(d, query[k])])

NoFields == [f \in {} |-> [const |-> "null"]]

\* filter_documents(): the criteria are tried on an empty document first.  What is found
\* is given by its positions; it keeps its order.
Find(query) ==
  IF \E d \in {NoFields} \cup ToSet(documents) : Matches(d, query) = "QueryError"
  THEN [result |-> "QueryError", found |-> {}]
  ELSE [result |-> "ok", found |-> {k \in DOMAIN documents : Matches(documents[k], query) = "yes"}]

\* run_predicate()
Where(predicate) ==
  IF predicate = NotCallable \/ \E d \in ToSet(documents) : predicate[d] = "raises"
  THEN [result |-> "QueryError", found |-> {}]
  ELSE [result |-> "ok", found |-> {k \in DOMAIN documents : predicate[documents[k]] = "yes"}]

-----------------------------------------------------------------------------
Idle == [query |-> <<>>, outcome |-> [result |-> "none", found |-> {}]]

Insert ==
  /\ Len(documents) < MaxDocs
  /\ \E d \in Docs : documents' = Append(documents, d)
  /\ last' = Idle

Delete ==
  /\ \E k \in DOMAIN documents : documents' = RemoveAt(documents, k)
  /\ last' = Idle

\* Queries change nothing, so one is made at a time.
FindStep ==
  /\ last = Idle
  /\ \E query \in Queries : last' = [query |-> query, outcome |-> Find(query)]
  /\ UNCHANGED documents

WhereStep ==
  /\ last = Idle
  /\ \E p \in Predicates \cup {NotCallable} : last' = [where |-> p, outcome |-> Where(p)]
  /\ UNCHANGED documents

Init == documents = <<>> /\ last = Idle
Next == Insert \/ Delete \/ FindStep \/ WhereStep
Spec == Init /\ [][Next]_vars

-----------------------------------------------------------------------------
\* What is wrong with criteria, wherever it stands.
Malformed(query) ==
  \E k \in DOMAIN query :
    LET expected == query[k].expected
    IN  \/ query[k].field = NotText
        \/ Is(expected, "ops") /\ \E n \in DOMAIN expected.ops :
             \/ expected.ops[n].op \notin OPERATORS
             \/ expected.ops[n].op \in {"$in", "$nin"} /\ ~Is(expected.ops[n].arg, "list")

\* All fields and all operators must hold.
Selected(d, query) ==
  \A k \in DOMAIN query :
    LET field == query[k].field  expected == query[k].expected
    IN  /\ field # NotText
        /\ IF Is(expected, "is") THEN field \in DOMAIN d /\ d[field] = expected.is
           ELSE \A n \in DOMAIN expected.ops :
                  MatchesOperator(Actual(d, field), field \in DOMAIN d,
                                  expected.ops[n].op, expected.ops[n].arg) = "yes"

\* find() returns exactly the documents for which all of its criteria hold, whatever
\* the order of fields and operators.  Only malformed criteria raise; they may go
\* unreported, as the loops stop early, but then they select nothing.
FindMeans ==
  "where" \notin DOMAIN last =>
    LET query == last.query  outcome == last.outcome
    IN  /\ outcome.result = "QueryError" => Malformed(query)
        /\ outcome.result = "ok" =>
             /\ outcome.found = {k \in DOMAIN documents : Selected(documents[k], query)}
             /\ Malformed(query) => outcome.found = {}

Ask(field, op, arg) == <<[field |-> field, expected |-> [ops |-> <<[op |-> op, arg |-> arg]>>]]>>
Fields == UNION {DOMAIN d : d \in Docs}
Arguments == UNION {{d[f] : f \in DOMAIN d} : d \in Docs}

\* The laws between the operators that the README gives: $ne and $nin are the opposites
\* of $eq and $in also for missing fields and null, a plain value is $eq, and $gte and
\* $lte divide the values that can be compared.
OperatorLaws ==
  \A field \in Fields, arg \in Arguments :
    LET by(op) == {d \in ToSet(documents) : Matches(d, Ask(field, op, arg)) = "yes"}
        in(op) == {d \in ToSet(documents) : Matches(d, Ask(field, op, [list |-> <<arg>>])) = "yes"}
        plain == {d \in ToSet(documents) : Matches(d, <<[field |-> field, expected |-> [is |-> arg]]>>) = "yes"}
    IN  /\ by("$eq") = plain
        /\ by("$ne") = ToSet(documents) \ by("$eq")
        /\ in("$in") = by("$eq")
        /\ in("$nin") = by("$ne")
        /\ DOMAIN arg \cap {"num", "str"} # {} =>
             /\ by("$gte") \cap by("$lte") \subseteq by("$eq")
             /\ by("$gt") = by("$gte") \ by("$eq")
             /\ by("$lt") = by("$lte") \ by("$eq")
             /\ by("$gt") \cup by("$lte") = by("$lt") \cup by("$gte")
=============================================================================
