---------------------------- MODULE QueryProofs ----------------------------
(***************************************************************************)
(* find() means what it should, for any documents and criteria: its loops,     *)
(* which end at the first outcome that is not yes, select as a conjunction     *)
(* without order would, and raise for malformed criteria only.               *)
(***************************************************************************)
EXTENDS Query, FiniteSetTheorems, SequenceTheorems, TLAPS

\* Every non-empty set of natural numbers has a least element: the sets 1..n of its
\* elements n have one that contains no other, as strict inclusion is well founded.
LEMMA LeastNumber ==
  ASSUME NEW S \in SUBSET Nat, S # {}
  PROVE  \E x \in S : \A y \in S : x <= y
<1> DEFINE T == {1..n : n \in S}
<1>1. T \subseteq FiniteSubsetsOf(Nat)
  BY FS_Interval DEF FiniteSubsetsOf
<1>2. IsWellFoundedOn(StrictSubsetOrdering(Nat), FiniteSubsetsOf(Nat))
  BY FS_StrictSubsetOrderingWellFounded
<1>3. T # {}
  OBVIOUS
<1> HIDE DEF T
<1>4. \E x \in T : \A y \in T : ~ (<<y, x>> \in StrictSubsetOrdering(Nat))
  BY <1>1, <1>2, <1>3, WFMin
<1> USE DEF T
<1>5. PICK x \in S : \A y \in S : ~ (<<1..y, 1..x>> \in StrictSubsetOrdering(Nat))
  BY <1>4
<1>6. ASSUME NEW y \in S, y < x PROVE FALSE
  <2>1. /\ 1..y \in SUBSET Nat /\ 1..x \in SUBSET Nat /\ 1..y \subseteq 1..x
        /\ x \in 1..x /\ x \notin 1..y
    BY <1>6
  <2>. QED
    BY <1>5, <2>1 DEF StrictSubsetOrdering
<1>. QED
  BY <1>6

LEMMA FirstOtherOutcome ==
  ASSUME NEW outcomes
  PROVE  /\ FirstOther(outcomes) = "yes" <=> \A k \in DOMAIN outcomes : outcomes[k] = "yes"
         /\ FirstOther(outcomes) = "QueryError" => \E k \in DOMAIN outcomes : outcomes[k] = "QueryError"
BY DEF FirstOther

\* What is wrong with one operator and its argument.
Wrong(op, arg) == op \notin OPERATORS \/ (op \in {"$in", "$nin"} /\ ~Is(arg, "list"))

LEMMA OperatorOutcome ==
  ASSUME NEW actual, NEW exists, NEW op, NEW arg
  PROVE  LET outcome == MatchesOperator(actual, exists, op, arg)
         IN  /\ outcome = "QueryError" => Wrong(op, arg)
             /\ Wrong(op, arg) => outcome # "yes"
<1> DEFINE outcome == MatchesOperator(actual, exists, op, arg)
<1>2. CASE op \notin OPERATORS
  <2>1. outcome = "QueryError"
    BY <1>2 DEF MatchesOperator, OPERATORS, YesNo
  <2> QED BY <1>2, <2>1 DEF Wrong
<1>3. CASE op = "$in"
  <2>1. outcome = IF exists /\ ~Is(arg, "list") THEN "QueryError"
                  ELSE IF exists /\ Holds(arg, actual) THEN "yes" ELSE "no"
    BY <1>3 DEF MatchesOperator, OPERATORS, YesNo
  <2> QED BY <1>3, <2>1 DEF Wrong, OPERATORS
<1>4. CASE op = "$nin"
  <2>1. outcome = IF ~Is(arg, "list") THEN "QueryError"
                  ELSE IF Differs(exists, Holds(arg, actual)) THEN "yes" ELSE "no"
    BY <1>4 DEF MatchesOperator, OPERATORS, YesNo
  <2> QED BY <1>4, <2>1 DEF Wrong, OPERATORS
<1>5. CASE op \in OPERATORS \ {"$in", "$nin"}
  <2>1. outcome \in {"yes", "no"}
    BY <1>5 DEF MatchesOperator, OPERATORS, YesNo
  <2>2. ~Wrong(op, arg)
    BY <1>5 DEF Wrong
  <2> QED BY <2>1, <2>2
<1> QED BY <1>2, <1>3, <1>4, <1>5

\* One field of the criteria.
ClauseHolds(d, clause) ==
  LET field == clause.field  expected == clause.expected
  IN  /\ field # NotText
      /\ IF Is(expected, "is") THEN field \in DOMAIN d /\ d[field] = expected.is
         ELSE \A n \in DOMAIN expected.ops :
                MatchesOperator(Actual(d, field), field \in DOMAIN d,
                                expected.ops[n].op, expected.ops[n].arg) = "yes"

ClauseWrong(clause) ==
  \/ clause.field = NotText
  \/ Is(clause.expected, "ops") /\ \E n \in DOMAIN clause.expected.ops :
       Wrong(clause.expected.ops[n].op, clause.expected.ops[n].arg)

LEMMA ClauseOutcome ==
  ASSUME NEW d, NEW clause, DOMAIN clause.expected \in {{"is"}, {"ops"}}
  PROVE  /\ MatchesClause(d, clause) = "yes" <=> ClauseHolds(d, clause)
         /\ MatchesClause(d, clause) = "QueryError" => ClauseWrong(clause)
         /\ ClauseWrong(clause) => ~ClauseHolds(d, clause)
<1> DEFINE field == clause.field
           ops == clause.expected.ops
           outcomes == [k \in DOMAIN ops |->
                          MatchesOperator(Actual(d, field), field \in DOMAIN d, ops[k].op, ops[k].arg)]
<1>0. CASE field = NotText
  BY <1>0 DEF MatchesClause, ClauseHolds, ClauseWrong
<1>1. CASE field # NotText /\ Is(clause.expected, "is")
  <2>1. ~Is(clause.expected, "ops")
    BY <1>1 DEF Is
  <2>2. MatchesClause(d, clause) = MatchesValue(d, field, clause.expected.is)
    BY <1>1 DEF MatchesClause
  <2> QED BY <1>1, <2>1, <2>2 DEF MatchesValue, YesNo, ClauseHolds, ClauseWrong
<1>2. CASE field # NotText /\ ~Is(clause.expected, "is")
  <2>1. Is(clause.expected, "ops")
    BY <1>2 DEF Is
  <2>2. MatchesClause(d, clause) =
          IF \E k \in DOMAIN ops : ~IsOperator(ops[k].op) THEN "QueryError" ELSE FirstOther(outcomes)
    BY <1>2 DEF MatchesClause
  <2>3. DOMAIN outcomes = DOMAIN ops
    OBVIOUS
  <2>4. \A k \in DOMAIN ops : /\ outcomes[k] = "QueryError" => Wrong(ops[k].op, ops[k].arg)
                              /\ Wrong(ops[k].op, ops[k].arg) => outcomes[k] # "yes"
    BY OperatorOutcome
  <2>5. ClauseHolds(d, clause) <=> \A k \in DOMAIN ops : outcomes[k] = "yes"
    BY <1>2 DEF ClauseHolds
  <2>6. ClauseWrong(clause) <=> \E k \in DOMAIN ops : Wrong(ops[k].op, ops[k].arg)
    BY <1>2, <2>1 DEF ClauseWrong
  <2>7. \A k \in DOMAIN ops : ~IsOperator(ops[k].op) => Wrong(ops[k].op, ops[k].arg)
    BY DEF IsOperator, Wrong
  <2> HIDE DEF outcomes, ops
  <2> QED BY <2>2, <2>3, <2>4, <2>5, <2>6, <2>7, FirstOtherOutcome
<1> QED BY <1>0, <1>1, <1>2

\* All criteria.
LEMMA MatchesOutcome ==
  ASSUME NEW d, NEW query \in Queries
  PROVE  /\ Matches(d, query) = "yes" <=> Selected(d, query)
         /\ Matches(d, query) = "QueryError" => Malformed(query)
         /\ Malformed(query) => ~Selected(d, query)
<1> DEFINE outcomes == [k \in DOMAIN query |-> MatchesClause(d, query[k])]
<1>1. \A k \in DOMAIN query :
        /\ outcomes[k] = "yes" <=> ClauseHolds(d, query[k])
        /\ outcomes[k] = "QueryError" => ClauseWrong(query[k])
        /\ ClauseWrong(query[k]) => ~ClauseHolds(d, query[k])
  BY ClauseOutcome, QueryAssumption
<1>2. Selected(d, query) <=> \A k \in DOMAIN query : ClauseHolds(d, query[k])
  BY DEF Selected, ClauseHolds
<1>3. Malformed(query) <=> \E k \in DOMAIN query : ClauseWrong(query[k])
  BY DEF Malformed, ClauseWrong, Wrong
<1>4. Matches(d, query) = FirstOther(outcomes) /\ DOMAIN outcomes = DOMAIN query
  BY DEF Matches
<1> HIDE DEF outcomes
<1> QED BY <1>1, <1>2, <1>3, <1>4, FirstOtherOutcome

-----------------------------------------------------------------------------
\* The last query was answered from the documents as they are.
LastIsCurrent ==
  \/ last = Idle
  \/ \E query \in Queries : last = [query |-> query, outcome |-> Find(query)]
  \/ "where" \in DOMAIN last

LEMMA LastStaysCurrent == Spec => []LastIsCurrent
<1>1. Init => LastIsCurrent
  BY DEF Init, LastIsCurrent
<1>2. LastIsCurrent /\ [Next]_vars => LastIsCurrent'
  <2> SUFFICES ASSUME LastIsCurrent, [Next]_vars PROVE LastIsCurrent'
    OBVIOUS
  <2>1. CASE Insert \/ Delete
    BY <2>1 DEF Insert, Delete, LastIsCurrent, Idle
  <2>2. CASE FindStep
    BY <2>2 DEF FindStep, LastIsCurrent, Find
  <2>3. CASE WhereStep
    BY <2>3 DEF WhereStep, LastIsCurrent
  <2>4. CASE UNCHANGED vars
    BY <2>4 DEF vars, LastIsCurrent, Find, Idle
  <2> QED BY <2>1, <2>2, <2>3, <2>4 DEF Next
<1> QED BY <1>1, <1>2, PTL DEF Spec

LEMMA CurrentMeans == LastIsCurrent => FindMeans
<1> SUFFICES ASSUME LastIsCurrent, "where" \notin DOMAIN last PROVE FindMeans
  BY DEF FindMeans
<1>1. CASE last = Idle
  <2>1. last.outcome.result = "none"
    BY <1>1 DEF Idle
  <2> QED BY <2>1 DEF FindMeans
<1>2. CASE \E query \in Queries : last = [query |-> query, outcome |-> Find(query)]
  <2>1. PICK query \in Queries : last = [query |-> query, outcome |-> Find(query)]
    BY <1>2
  <2> DEFINE outcome == Find(query)
  <2>2. last.query = query /\ last.outcome = outcome
    BY <2>1
  <2>3. ASSUME outcome.result = "QueryError"
        PROVE  Malformed(query)
    <3>1. \E d \in {NoFields} \cup ToSet(documents) : Matches(d, query) = "QueryError"
      BY <2>3 DEF Find
    <3> QED BY <3>1, MatchesOutcome
  <2>4. ASSUME outcome.result = "ok"
        PROVE  outcome.found = {k \in DOMAIN documents : Selected(documents[k], query)}
    <3>1. outcome.found = {k \in DOMAIN documents : Matches(documents[k], query) = "yes"}
      BY <2>4 DEF Find
    <3> HIDE DEF outcome
    <3> QED BY <3>1, MatchesOutcome
  <2>5. Malformed(query) => \A k \in DOMAIN documents : ~Selected(documents[k], query)
    BY MatchesOutcome
  <2> HIDE DEF outcome
  <2> QED BY <2>2, <2>3, <2>4, <2>5 DEF FindMeans
<1> QED BY <1>1, <1>2 DEF LastIsCurrent

\* find() returns the documents for which all criteria hold, and raises for malformed
\* criteria only, which never select anything (filter_documents() in query.py).
THEOREM FindMeansHolds == Spec => []FindMeans
BY LastStaysCurrent, CurrentMeans, PTL

-----------------------------------------------------------------------------
\* The order of texts is total: the first place where two of them differ decides.
LEMMA TextOrder ==
  ASSUME NEW s \in Seq(Int), NEW t \in Seq(Int)
  PROVE  /\ ~(TextLess(s, t) /\ TextLess(t, s))
         /\ TextLess(s, t) \/ TextLess(t, s) \/ s = t
         /\ ~TextLess(s, s)
<1>1. ASSUME NEW x \in Seq(Int), NEW y \in Seq(Int), TextLess(x, y), TextLess(y, x)
      PROVE  FALSE
  <2>1. PICK k \in 1..Len(y) : /\ \A j \in 1..(k - 1) : j <= Len(x) /\ x[j] = y[j]
                               /\ k <= Len(x) => x[k] < y[k]
    BY <1>1 DEF TextLess
  <2>2. PICK l \in 1..Len(x) : /\ \A j \in 1..(l - 1) : j <= Len(y) /\ y[j] = x[j]
                               /\ l <= Len(y) => y[l] < x[l]
    BY <1>1 DEF TextLess
  <2>3. k \in Nat /\ l \in Nat /\ Len(x) \in Nat /\ Len(y) \in Nat
    OBVIOUS
  <2>4. CASE k < l
    <3>1. k \in 1..(l - 1) /\ k <= Len(x)
      BY <2>3, <2>4
    <3>2. x[k] = y[k] /\ x[k] < y[k] /\ x[k] \in Int
      BY <2>1, <2>2, <3>1
    <3> QED BY <3>2
  <2>5. CASE l < k
    <3>1. l \in 1..(k - 1) /\ l <= Len(y)
      BY <2>3, <2>5
    <3>2. x[l] = y[l] /\ y[l] < x[l] /\ x[l] \in Int
      BY <2>1, <2>2, <3>1
    <3> QED BY <3>2
  <2>6. CASE k = l
    <3>1. x[k] < y[k] /\ y[k] < x[k] /\ x[k] \in Int /\ y[k] \in Int
      BY <2>1, <2>2, <2>6
    <3> QED BY <3>1
  <2> QED BY <2>3, <2>4, <2>5, <2>6
<1>2. ASSUME s # t
      PROVE  TextLess(s, t) \/ TextLess(t, s)
  <2> DEFINE D == {k \in Nat \ {0} : k > Len(s) \/ k > Len(t) \/ s[k] # t[k]}
  <2>1. Len(s) \in Nat /\ Len(t) \in Nat
    OBVIOUS
  <2>2. Len(s) + 1 \in D
    BY <2>1
  <2>3. PICK m \in D : \A y \in D : m <= y
    <3>1. D \in SUBSET Nat /\ D # {}
      BY <2>2
    <3> HIDE DEF D
    <3> QED BY <3>1, LeastNumber
  <2>4. m \in Nat \ {0} /\ (m > Len(s) \/ m > Len(t) \/ s[m] # t[m])
    OBVIOUS
  <2>5. \A j \in 1..(m - 1) : j <= Len(s) /\ j <= Len(t) /\ s[j] = t[j]
    <3> TAKE j \in 1..(m - 1)
    <3>1. j \in Nat \ {0} /\ j < m
      BY <2>4
    <3>2. j \notin D
      BY <2>3, <2>4, <3>1
    <3> QED BY <2>1, <3>1, <3>2
  <2> HIDE DEF D
  <2>6. CASE m > Len(s) /\ m > Len(t)
    <3>1. Len(s) = Len(t)
      <4>1. CASE Len(s) < Len(t)
        <5>1. Len(t) \in 1..(m - 1)
          BY <2>1, <2>4, <2>6, <4>1
        <5> QED BY <2>1, <2>5, <4>1, <5>1
      <4>2. CASE Len(t) < Len(s)
        <5>1. Len(s) \in 1..(m - 1)
          BY <2>1, <2>4, <2>6, <4>2
        <5> QED BY <2>1, <2>5, <4>2, <5>1
      <4> QED BY <2>1, <4>1, <4>2
    <3>2. \A j \in 1..Len(s) : s[j] = t[j]
      BY <2>1, <2>4, <2>5, <2>6
    <3>3. s = t
      BY <3>1, <3>2, SeqEqual
    <3> QED BY <1>2, <3>3
  <2>7. CASE m <= Len(t) /\ (m > Len(s) \/ s[m] < t[m])
    <3>1. m \in 1..Len(t)
      BY <2>1, <2>4, <2>7
    <3>2. m <= Len(s) => s[m] < t[m]
      BY <2>1, <2>4, <2>7
    <3> QED BY <2>5, <3>1, <3>2 DEF TextLess
  <2>8. CASE m <= Len(s) /\ (m > Len(t) \/ t[m] < s[m])
    <3>1. m \in 1..Len(s)
      BY <2>1, <2>4, <2>8
    <3>2. m <= Len(t) => t[m] < s[m]
      BY <2>1, <2>4, <2>8
    <3> QED BY <2>5, <3>1, <3>2 DEF TextLess
  <2>9. m <= Len(s) /\ m <= Len(t) => s[m] \in Int /\ t[m] \in Int
    BY <2>1, <2>4
  <2> QED BY <2>1, <2>4, <2>6, <2>7, <2>8, <2>9
<1> QED BY <1>1, <1>2

\* So is the order of the values of documents that can be compared.
Ordered == [num : Int] \cup [str : Seq(Int)]

LEMMA ValueOrder ==
  ASSUME NEW a \in Ordered, NEW b \in Ordered, Comparable(a, b)
  PROVE  /\ Comparable(b, a)
         /\ ~(Less(a, b) /\ Less(b, a))
         /\ Less(a, b) \/ Less(b, a) \/ a = b
         /\ ~Less(a, a)
<1>1. CASE a \in [num : Int]
  <2>1. b \in [num : Int]
    BY <1>1 DEF Ordered, Comparable, Is
  <2> QED BY <1>1, <2>1 DEF Less, Comparable, Is
<1>2. CASE a \in [str : Seq(Int)]
  <2>1. b \in [str : Seq(Int)]
    BY <1>2 DEF Ordered, Comparable, Is
  <2>2. /\ Less(a, b) <=> TextLess(a.str, b.str)
        /\ Less(b, a) <=> TextLess(b.str, a.str)
        /\ Less(a, a) <=> TextLess(a.str, a.str)
    BY <1>2, <2>1 DEF Less, Is
  <2>3. a.str = b.str => a = b
    BY <1>2, <2>1
  <2>4. Comparable(b, a)
    BY <1>2, <2>1 DEF Comparable, Is
  <2>5. a.str \in Seq(Int) /\ b.str \in Seq(Int)
    BY <1>2, <2>1
  <2> QED BY <2>2, <2>3, <2>4, <2>5, TextOrder
<1> QED BY <1>1, <1>2 DEF Ordered

-----------------------------------------------------------------------------
\* Criteria of one field with one operator hold if the operator does.
LEMMA AskOutcome ==
  ASSUME NEW d, NEW field, field # NotText, NEW op \in OPERATORS, NEW arg
  PROVE  Matches(d, Ask(field, op, arg)) = "yes" <=>
           MatchesOperator(Actual(d, field), field \in DOMAIN d, op, arg) = "yes"
<1> DEFINE clause == [field |-> field, expected |-> [ops |-> <<[op |-> op, arg |-> arg]>>]]
           query == Ask(field, op, arg)
<1>1. DOMAIN query = {1} /\ query[1] = clause
  BY DEF Ask
<1>2. MatchesClause(d, clause) = "yes" <=> ClauseHolds(d, clause)
  <2>1. DOMAIN clause.expected = {"ops"}
    OBVIOUS
  <2> HIDE DEF clause
  <2> QED BY <2>1, ClauseOutcome
<1>3. ClauseHolds(d, clause) <=>
        MatchesOperator(Actual(d, field), field \in DOMAIN d, op, arg) = "yes"
  BY DEF ClauseHolds, Is
<1>4. Matches(d, query) = "yes" <=> MatchesClause(d, clause) = "yes"
  <2> DEFINE outcomes == [k \in DOMAIN query |-> MatchesClause(d, query[k])]
  <2>1. Matches(d, query) = FirstOther(outcomes)
    BY DEF Matches
  <2>2. DOMAIN outcomes = {1} /\ outcomes[1] = MatchesClause(d, clause)
    BY <1>1
  <2> HIDE DEF outcomes
  <2> QED BY <2>1, <2>2, FirstOtherOutcome
<1> QED BY <1>2, <1>3, <1>4

LEMMA PlainOutcome ==
  ASSUME NEW d, NEW field, field # NotText, NEW value
  PROVE  Matches(d, <<[field |-> field, expected |-> [is |-> value]]>>) = "yes" <=>
           field \in DOMAIN d /\ d[field] = value
<1> DEFINE clause == [field |-> field, expected |-> [is |-> value]]
           outcomes == [k \in DOMAIN <<clause>> |-> MatchesClause(d, <<clause>>[k])]
<1>1. MatchesClause(d, clause) = "yes" <=> field \in DOMAIN d /\ d[field] = value
  BY DEF MatchesClause, MatchesValue, YesNo, Is
<1>2. Matches(d, <<clause>>) = FirstOther(outcomes)
  BY DEF Matches
<1>3. DOMAIN outcomes = {1} /\ outcomes[1] = MatchesClause(d, clause)
  OBVIOUS
<1> HIDE DEF outcomes, clause
<1>4. FirstOther(outcomes) = "yes" <=> MatchesClause(d, clause) = "yes"
  BY <1>3, FirstOtherOutcome
<1> QED BY <1>1, <1>2, <1>4 DEF clause

\* What one operator asks of one document.
LEMMA AskMeans ==
  ASSUME NEW d, NEW field, field # NotText, NEW arg
  PROVE  LET yes(op) == Matches(d, Ask(field, op, arg)) = "yes"
             has == field \in DOMAIN d
             ordered == has /\ Comparable(d[field], arg)
         IN  /\ yes("$eq") <=> has /\ d[field] = arg
             /\ yes("$ne") <=> ~(has /\ d[field] = arg)
             /\ yes("$gt") <=> ordered /\ Less(arg, d[field])
             /\ yes("$gte") <=> ordered /\ ~Less(d[field], arg)
             /\ yes("$lt") <=> ordered /\ Less(d[field], arg)
             /\ yes("$lte") <=> ordered /\ ~Less(arg, d[field])
<1> DEFINE yes(op) == Matches(d, Ask(field, op, arg)) = "yes"
           has == field \in DOMAIN d
           outcome(op) == MatchesOperator(Actual(d, field), has, op, arg)
<1>1. \A op \in OPERATORS : yes(op) <=> outcome(op) = "yes"
  BY AskOutcome
<1>2. {"$eq", "$ne", "$gt", "$gte", "$lt", "$lte"} \subseteq OPERATORS
  BY DEF OPERATORS
<1>3. has => Actual(d, field) = d[field]
  BY DEF Actual
<1>4. outcome("$eq") = "yes" <=> has /\ d[field] = arg
  BY <1>3 DEF MatchesOperator, OPERATORS, YesNo
<1>5. outcome("$ne") = "yes" <=> ~(has /\ d[field] = arg)
  BY <1>3 DEF MatchesOperator, OPERATORS, YesNo, Differs
<1>6. outcome("$gt") = "yes" <=> has /\ Comparable(d[field], arg) /\ Less(arg, d[field])
  BY <1>3 DEF MatchesOperator, OPERATORS, YesNo
<1>7. outcome("$gte") = "yes" <=> has /\ Comparable(d[field], arg) /\ ~Less(d[field], arg)
  BY <1>3 DEF MatchesOperator, OPERATORS, YesNo
<1>8. outcome("$lt") = "yes" <=> has /\ Comparable(d[field], arg) /\ Less(d[field], arg)
  BY <1>3 DEF MatchesOperator, OPERATORS, YesNo
<1>9. outcome("$lte") = "yes" <=> has /\ Comparable(d[field], arg) /\ ~Less(arg, d[field])
  BY <1>3 DEF MatchesOperator, OPERATORS, YesNo
<1> HIDE DEF outcome, yes
<1>10. /\ yes("$eq") <=> has /\ d[field] = arg
       /\ yes("$ne") <=> ~(has /\ d[field] = arg)
       /\ yes("$gt") <=> has /\ Comparable(d[field], arg) /\ Less(arg, d[field])
       /\ yes("$gte") <=> has /\ Comparable(d[field], arg) /\ ~Less(d[field], arg)
       /\ yes("$lt") <=> has /\ Comparable(d[field], arg) /\ Less(d[field], arg)
       /\ yes("$lte") <=> has /\ Comparable(d[field], arg) /\ ~Less(arg, d[field])
  BY <1>1, <1>2, <1>4, <1>5, <1>6, <1>7, <1>8, <1>9
<1> QED BY <1>10 DEF yes

\* A list of one value asks for that value.
LEMMA AskInMeans ==
  ASSUME NEW d, NEW field, field # NotText, NEW arg
  PROVE  LET yes(op) == Matches(d, Ask(field, op, [list |-> <<arg>>])) = "yes"
             same == field \in DOMAIN d /\ d[field] = arg
         IN  (yes("$in") <=> same) /\ (yes("$nin") <=> ~same)
<1> DEFINE list == [list |-> <<arg>>]
           has == field \in DOMAIN d
           outcome(op) == MatchesOperator(Actual(d, field), has, op, list)
<1>1. "$in" \in OPERATORS /\ "$nin" \in OPERATORS
  BY DEF OPERATORS
<1>2. Is(list, "list") /\ \A v : Holds(list, v) <=> v = arg
  BY DEF Is, Holds
<1>3. has => Actual(d, field) = d[field]
  BY DEF Actual
<1> HIDE DEF list
<1>4. outcome("$in") = "yes" <=> has /\ d[field] = arg
  BY <1>2, <1>3 DEF MatchesOperator, OPERATORS, YesNo
<1>5. outcome("$nin") = "yes" <=> ~(has /\ d[field] = arg)
  BY <1>2, <1>3 DEF MatchesOperator, OPERATORS, YesNo, Differs
<1>6. /\ Matches(d, Ask(field, "$in", list)) = "yes" <=> outcome("$in") = "yes"
      /\ Matches(d, Ask(field, "$nin", list)) = "yes" <=> outcome("$nin") = "yes"
  BY <1>1, AskOutcome
<1> HIDE DEF outcome
<1> QED BY <1>4, <1>5, <1>6 DEF list

-----------------------------------------------------------------------------
DocumentsFromDocs == documents \in Seq(Docs)

LEMMA DocumentsStay == Spec => []DocumentsFromDocs
<1>1. Init => DocumentsFromDocs
  BY DEF Init, DocumentsFromDocs
<1>2. DocumentsFromDocs /\ [Next]_vars => DocumentsFromDocs'
  <2> SUFFICES ASSUME documents \in Seq(Docs), [Next]_vars PROVE documents' \in Seq(Docs)
    BY DEF DocumentsFromDocs
  <2>1. CASE Insert
    BY <2>1 DEF Insert
  <2>2. CASE Delete
    <3>1. PICK k \in DOMAIN documents : documents' = RemoveAt(documents, k)
      BY <2>2 DEF Delete
    <3>2. k \in 1..Len(documents) /\ Len(documents) \in Nat
      OBVIOUS
    <3>3. /\ SubSeq(documents, 1, k - 1) \in Seq(Docs)
          /\ SubSeq(documents, k + 1, Len(documents)) \in Seq(Docs)
      BY <3>2, SubSeqProperties
    <3> QED BY <3>1, <3>3, ConcatProperties DEF RemoveAt
  <2>3. CASE FindStep \/ WhereStep \/ UNCHANGED vars
    BY <2>3 DEF FindStep, WhereStep, vars
  <2> QED BY <2>1, <2>2, <2>3 DEF Next
<1> QED BY <1>1, <1>2, PTL DEF Spec

\* Documents and arguments that can be compared are ordered.
LEMMA ArgumentsOrdered ==
  ASSUME NEW d \in Docs, NEW field \in DOMAIN d, NEW arg \in Arguments,
         DOMAIN arg \cap {"num", "str"} # {}
  PROVE  /\ arg \in Ordered
         /\ Comparable(d[field], arg) => d[field] \in Ordered
         /\ d[field] = arg => Comparable(d[field], arg)
<1>1. PICK e \in Docs : \E f \in DOMAIN e : arg = e[f]
  BY DEF Arguments
<1>2. arg \in Ordered
  BY <1>1, DocumentAssumption DEF Ordered
<1>3. d[field] \in Ordered \/ DOMAIN d[field] \cap {"num", "str"} = {}
  BY DocumentAssumption DEF Ordered
<1> QED BY <1>2, <1>3 DEF Comparable, Is

LEMMA LawsHold == DocumentsFromDocs => OperatorLaws
<1> SUFFICES ASSUME documents \in Seq(Docs), NEW field \in Fields, NEW arg \in Arguments
             PROVE  LET by(op) == {d \in ToSet(documents) : Matches(d, Ask(field, op, arg)) = "yes"}
                        in(op) == {d \in ToSet(documents) :
                                     Matches(d, Ask(field, op, [list |-> <<arg>>])) = "yes"}
                        plain == {d \in ToSet(documents) :
                                    Matches(d, <<[field |-> field, expected |-> [is |-> arg]]>>) = "yes"}
                    IN  /\ by("$eq") = plain
                        /\ by("$ne") = ToSet(documents) \ by("$eq")
                        /\ in("$in") = by("$eq")
                        /\ in("$nin") = by("$ne")
                        /\ DOMAIN arg \cap {"num", "str"} # {} =>
                             /\ by("$gte") \cap by("$lte") \subseteq by("$eq")
                             /\ by("$gt") = by("$gte") \ by("$eq")
                             /\ by("$lt") = by("$lte") \ by("$eq")
                             /\ by("$gt") \cup by("$lte") = by("$lt") \cup by("$gte")
  BY DEF OperatorLaws, DocumentsFromDocs
<1> DEFINE all == ToSet(documents)
           yes(d, op) == Matches(d, Ask(field, op, arg)) = "yes"
           inYes(d, op) == Matches(d, Ask(field, op, [list |-> <<arg>>])) = "yes"
           plainYes(d) == Matches(d, <<[field |-> field, expected |-> [is |-> arg]]>>) = "yes"
<1>1. all \subseteq Docs /\ field # NotText
  BY DocumentAssumption DEF ToSet, Fields
<1>2. \A d \in all : /\ yes(d, "$eq") <=> plainYes(d)
                     /\ yes(d, "$ne") <=> ~yes(d, "$eq")
                     /\ inYes(d, "$in") <=> yes(d, "$eq")
                     /\ inYes(d, "$nin") <=> yes(d, "$ne")
  <2> TAKE d \in all
  <2>1. /\ yes(d, "$eq") <=> field \in DOMAIN d /\ d[field] = arg
        /\ yes(d, "$ne") <=> ~(field \in DOMAIN d /\ d[field] = arg)
    BY <1>1, AskMeans
  <2>2. /\ inYes(d, "$in") <=> field \in DOMAIN d /\ d[field] = arg
        /\ inYes(d, "$nin") <=> ~(field \in DOMAIN d /\ d[field] = arg)
    BY <1>1, AskInMeans
  <2>3. plainYes(d) <=> field \in DOMAIN d /\ d[field] = arg
    BY <1>1, PlainOutcome
  <2> HIDE DEF yes, inYes, plainYes
  <2> QED BY <2>1, <2>2, <2>3
<1>3. ASSUME DOMAIN arg \cap {"num", "str"} # {}, NEW d \in all
      PROVE  /\ yes(d, "$gte") /\ yes(d, "$lte") => yes(d, "$eq")
             /\ yes(d, "$gt") <=> yes(d, "$gte") /\ ~yes(d, "$eq")
             /\ yes(d, "$lt") <=> yes(d, "$lte") /\ ~yes(d, "$eq")
             /\ yes(d, "$gt") \/ yes(d, "$lte") <=> yes(d, "$lt") \/ yes(d, "$gte")
  <2> DEFINE v == d[field]
             ordered == field \in DOMAIN d /\ Comparable(v, arg)
  <2>1. /\ yes(d, "$eq") <=> field \in DOMAIN d /\ v = arg
        /\ yes(d, "$gt") <=> ordered /\ Less(arg, v)
        /\ yes(d, "$gte") <=> ordered /\ ~Less(v, arg)
        /\ yes(d, "$lt") <=> ordered /\ Less(v, arg)
        /\ yes(d, "$lte") <=> ordered /\ ~Less(arg, v)
    BY <1>1, AskMeans
  <2>2. ordered => /\ ~(Less(v, arg) /\ Less(arg, v))
                   /\ Less(v, arg) \/ Less(arg, v) \/ v = arg
                   /\ ~Less(arg, arg)
    BY <1>1, <1>3, ArgumentsOrdered, ValueOrder
  <2> HIDE DEF yes
  <2> QED BY <2>1, <2>2
<1> HIDE DEF yes, inYes, plainYes, all
<1>4. /\ {d \in all : yes(d, "$eq")} = {d \in all : plainYes(d)}
      /\ {d \in all : yes(d, "$ne")} = all \ {d \in all : yes(d, "$eq")}
      /\ {d \in all : inYes(d, "$in")} = {d \in all : yes(d, "$eq")}
      /\ {d \in all : inYes(d, "$nin")} = {d \in all : yes(d, "$ne")}
  BY <1>2
<1>5. DOMAIN arg \cap {"num", "str"} # {} =>
        /\ {d \in all : yes(d, "$gte")} \cap {d \in all : yes(d, "$lte")} \subseteq {d \in all : yes(d, "$eq")}
        /\ {d \in all : yes(d, "$gt")} = {d \in all : yes(d, "$gte")} \ {d \in all : yes(d, "$eq")}
        /\ {d \in all : yes(d, "$lt")} = {d \in all : yes(d, "$lte")} \ {d \in all : yes(d, "$eq")}
        /\ {d \in all : yes(d, "$gt")} \cup {d \in all : yes(d, "$lte")} =
             {d \in all : yes(d, "$lt")} \cup {d \in all : yes(d, "$gte")}
  BY <1>3
<1> QED BY <1>4, <1>5 DEF yes, inYes, plainYes, all

\* The operators keep the laws of the README for documents without the field, with null
\* in it, and with values of any two types, texts of any length among them.
THEOREM OperatorLawsHolds == Spec => []OperatorLaws
BY DocumentsStay, LawsHold, PTL
=============================================================================
