-------------------------- MODULE CollectionProofs --------------------------
(***************************************************************************)
(* Whatever operations a transaction makes, however long its bulk updates are   *)
(* and wherever they run out of stack, its state keeps the shape that the      *)
(* commit asks for, and an operation that raises takes nothing away.  The loop  *)
(* of bulk_update() needs an induction over its entries, which rests on the    *)
(* least-number principle (LeastNumber).                                     *)
(***************************************************************************)
EXTENDS Collection, FiniteSetTheorems, TLAPS

\* Every non-empty set of natural numbers has a least element: the sets 1..n of its
\* elements n have one that contains no other, as strict inclusion is well founded.
LEMMA LeastNumber ==
  ASSUME NEW S \in SUBSET Nat, S # {}
  PROVE  \E x \in S : \A y \in S : x <= y
<1> DEFINE T == {1..n : n \in S}
<1>1. T \subseteq FiniteSubsetsOf(Nat)
  BY FS_Interval DEF FiniteSubsetsOf
<1>2. IsWellFoundedOn(StrictSubsetOrdering(Nat), FiniteSubsetsOf(Nat))
  BY FS_StrictSubsetOrderingWellFounded
<1>3. T # {}
  OBVIOUS
<1> HIDE DEF T
<1>4. \E x \in T : \A y \in T : ~ (<<y, x>> \in StrictSubsetOrdering(Nat))
  BY <1>1, <1>2, <1>3, WFMin
<1> USE DEF T
<1>5. PICK x \in S : \A y \in S : ~ (<<1..y, 1..x>> \in StrictSubsetOrdering(Nat))
  BY <1>4
<1>6. ASSUME NEW y \in S, y < x PROVE FALSE
  <2>1. /\ 1..y \in SUBSET Nat /\ 1..x \in SUBSET Nat /\ 1..y \subseteq 1..x
        /\ x \in 1..x /\ x \notin 1..y
    BY <1>6
  <2>. QED
    BY <1>5, <2>1 DEF StrictSubsetOrdering
<1>. QED
  BY <1>6

Errors == {"ok", "ValidationError", "NotFoundError", "RecursionError"}

\* The inductive invariant: what makes a state acceptable, of any state.
Sound(state) ==
  /\ DOMAIN state \subseteq Names
  /\ \A n \in DOMAIN state :
       /\ DOMAIN state[n] \subseteq Ids
       /\ \A i \in DOMAIN state[n] : DOMAIN state[n][i] = {"id", "fields"} /\ state[n][i].id = i

IInv == Sound(collections) /\ result \in Errors

-----------------------------------------------------------------------------
\* FirstError() is "ok" only when every check is.
LEMMA FirstErrorFacts ==
  ASSUME NEW errors, DOMAIN errors \in SUBSET Nat, \A k \in DOMAIN errors : errors[k] \in Errors
  PROVE  /\ FirstError(errors) \in Errors
         /\ FirstError(errors) = "ok" => \A k \in DOMAIN errors : errors[k] = "ok"
<1> DEFINE raised == {k \in DOMAIN errors : errors[k] # "ok"}
<1>1. CASE raised = {}
  BY <1>1 DEF FirstError, Errors
<1>2. CASE raised # {}
  <2>1. \E k \in raised : \A l \in raised : k <= l
    BY <1>2, LeastNumber
  <2>. QED
    BY <1>2, <2>1 DEF FirstError, Errors
<1>. QED
  BY <1>1, <1>2

\* The checks of one body, one document and one entry.
LEMMA ErrorFacts ==
  ASSUME NEW n \in AnyName, NEW i \in AnyId, NEW b \in AnyBody
  PROVE  /\ BodyError(b) \in Errors /\ (BodyError(b) = "ok" => b \in Bodies /\ b.id = NoId)
         /\ CollectionError(n) \in Errors
         /\ CollectionError(n) = "ok" => n \in Names /\ n \in DOMAIN collections
         /\ DocumentError(n, i) \in Errors
         /\ DocumentError(n, i) = "ok" => n \in Names /\ i \in Ids /\ i \in DOMAIN Documents(n)
  BY DEF BodyError, CollectionError, DocumentError, AnyName, AnyId, AnyBody, Errors

LEMMA CopyFacts ==
  ASSUME NEW i, NEW b, NEW room \in BOOLEAN
  PROVE  /\ CopyError(b, room) \in {"ok", "RecursionError"}
         /\ CopyError(b, room) \in Errors
         /\ room => CopyError(b, room) = "ok"
         /\ StoredError(i, b, room) \in Errors
         /\ b \in AnyBody /\ StoredError(i, b, room) = "ok" => b \in Bodies
  BY DEF CopyError, StoredError, AnyBody, Errors

\* A loop copies the bodies before the first that does not fit, with room all of them.
LEMMA CopiedFacts ==
  ASSUME NEW bodies, Len(bodies) \in Nat, NEW room \in BOOLEAN
  PROVE  Copied(bodies, room) \in 0..Len(bodies) /\ (room => Copied(bodies, room) = Len(bodies))
<1> DEFINE N == Len(bodies)
           Fits(k) == CopyError(bodies[k], room) = "ok"
           Is(m) == (\A k \in 1..m : Fits(k)) /\ (m < N => ~ Fits(m + 1))
           deep == {k \in 1..N : ~ Fits(k)}
<1>1. \E m \in 0..N : Is(m)
  <2>1. CASE deep = {}
    <3>1. N \in 0..N /\ Is(N)
      BY <2>1
    <3>. QED
      BY <3>1
  <2>2. CASE deep # {}
    <3>1. PICK x \in deep : \A y \in deep : x <= y
      <4>1. deep \in SUBSET Nat
        OBVIOUS
      <4>. HIDE DEF deep
      <4>. QED
        BY <2>2, <4>1, LeastNumber
    <3>2. x \in 1..N /\ ~ Fits(x) /\ x - 1 \in 0..N /\ (x - 1) + 1 = x
      OBVIOUS
    <3>3. ASSUME NEW k \in 1..(x - 1) PROVE Fits(k)
      <4>1. k \in 1..N /\ ~ (x <= k)
        BY <3>2
      <4>2. k \notin deep
        <5>. HIDE DEF deep
        <5>. QED
          BY <3>1, <4>1
      <4>. QED
        BY <4>1, <4>2
    <3>. HIDE DEF Fits, deep
    <3>. QED
      BY <3>2, <3>3
  <2>. QED
    BY <2>1, <2>2
<1>2. Copied(bodies, room) = CHOOSE m \in 0..N : Is(m)
  BY DEF Copied
<1>3. Copied(bodies, room) \in 0..N /\ Is(Copied(bodies, room))
  <2>. HIDE DEF Is, N
  <2>. QED
    BY <1>1, <1>2
<1>4. ASSUME room PROVE Copied(bodies, room) = N
  <2>1. Fits(Copied(bodies, room) + 1)
    BY <1>4, CopyFacts
  <2>. HIDE DEF Fits
  <2>. QED
    BY <1>3, <2>1
<1>. QED
  BY <1>3, <1>4

LEMMA EntryFacts ==
  ASSUME NEW n \in AnyName, NEW e \in Entries
  PROVE  /\ EntryError(n, e) \in Errors
         /\ EntryError(n, e) = "ok" =>
              e.id \in DOMAIN Documents(n) /\ e.id \in Ids /\ e.body \in Bodies /\ e.body.id = NoId
<1>1. CASE e = Malformed
  BY <1>1 DEF EntryError, Errors
<1>2. CASE e # Malformed
  <2>1. e.id \in AnyId /\ e.body \in AnyBody
    BY <1>2 DEF Entries
  <2> DEFINE checks == <<DocumentError(n, e.id), BodyError(e.body)>>
  <2>2. /\ DOMAIN checks = 1..2
        /\ \A k \in DOMAIN checks : checks[k] \in Errors
    BY <2>1, ErrorFacts
  <2>3. /\ FirstError(checks) \in Errors
        /\ FirstError(checks) = "ok" => checks[1] = "ok" /\ checks[2] = "ok"
    BY <2>2, FirstErrorFacts
  <2>. QED
    BY <1>2, <2>1, <2>3, ErrorFacts DEF EntryError
<1>. QED
  BY <1>1, <1>2

-----------------------------------------------------------------------------
\* What the operations store is a document with its own id.
LEMMA StoredFacts ==
  ASSUME NEW b \in Bodies, NEW i
  PROVE  DOMAIN Stored(i, b) = {"id", "fields"} /\ Stored(i, b).id = i
  BY CollectionAssumption DEF Stored

LEMMA MergedFacts ==
  ASSUME NEW document, NEW b, b.id = NoId
  PROVE  DOMAIN Merged(document, b) = {"id", "fields"} /\ Merged(document, b).id = document.id
  BY DEF Merged

\* The new documents of a collection, put over the old ones, keep a state sound.
LEMMA ExtendSound ==
  ASSUME NEW state, Sound(state), NEW n \in Names, NEW old, NEW new,
         n \in DOMAIN state => old = state[n],
         n \notin DOMAIN state => DOMAIN old = {},
         DOMAIN new \subseteq Ids,
         \A i \in DOMAIN new : DOMAIN new[i] = {"id", "fields"} /\ new[i].id = i
  PROVE  Sound(Over(Only(n, Over(new, old)), state))
  BY DEF Sound, Over, Only

LEMMA PutSound ==
  ASSUME NEW state, Sound(state), NEW n \in Names, NEW i \in Ids,
         NEW document, DOMAIN document = {"id", "fields"}, document.id = i
  PROVE  /\ Sound(Put(state, n, i, document))
         /\ n \in DOMAIN Put(state, n, i, document)
         /\ DOMAIN Put(state, n, i, document)[n] =
              {i} \cup (IF n \in DOMAIN state THEN DOMAIN state[n] ELSE {})
<1> DEFINE old == IF n \in DOMAIN state THEN state[n] ELSE [j \in {} |-> {}]
           new == Only(i, document)
<1>1. DOMAIN new = {i} /\ new[i] = document
  BY DEF Only
<1>2. Put(state, n, i, document) = Over(Only(n, Over(new, old)), state)
  BY DEF Put
<1>3. Sound(Over(Only(n, Over(new, old)), state))
  <2> HIDE DEF new
  <2>1. /\ n \in DOMAIN state => old = state[n]
        /\ n \notin DOMAIN state => DOMAIN old = {}
    OBVIOUS
  <2>. QED
    BY <1>1, <2>1, ExtendSound
<1>4. /\ n \in DOMAIN Over(Only(n, Over(new, old)), state)
      /\ DOMAIN Over(Only(n, Over(new, old)), state)[n] = {i} \cup DOMAIN old
  BY <1>1 DEF Over, Only
<1>. QED
  BY <1>2, <1>3, <1>4

\* What an operation puts in loses nothing, if a document that it changes keeps its fields.
LEMMA ExtendLosesNothing ==
  ASSUME NEW state, NEW n, NEW old, NEW new,
         n \in DOMAIN state => old = state[n],
         \A i \in DOMAIN new \cap DOMAIN old : DOMAIN old[i].fields \subseteq DOMAIN new[i].fields
  PROVE  NothingLost(state, Over(Only(n, Over(new, old)), state))
  BY DEF NothingLost, Over, Only

LEMMA MergedLosesNothing ==
  ASSUME NEW state, NEW n \in DOMAIN state, NEW i \in DOMAIN state[n], NEW b
  PROVE  NothingLost(state, Put(state, n, i, Merged(state[n][i], b)))
<1> DEFINE document == Merged(state[n][i], b)
           new == Only(i, document)
<1>1. DOMAIN state[n][i].fields \subseteq DOMAIN document.fields
  BY DEF Merged, Over
<1> HIDE DEF document
<1>2. DOMAIN new = {i} /\ new[i] = document
  BY DEF Only
<1>3. Put(state, n, i, document) = Over(Only(n, Over(new, state[n])), state)
  BY DEF Put
<1> HIDE DEF new
<1>4. NothingLost(state, Over(Only(n, Over(new, state[n])), state))
  BY <1>1, <1>2, ExtendLosesNothing
<1>. QED
  BY <1>3, <1>4 DEF document

LEMMA NothingLostTransitive ==
  ASSUME NEW s, NEW t, NEW u, NothingLost(s, t), NothingLost(t, u)
  PROVE  NothingLost(s, u)
  BY DEF NothingLost

-----------------------------------------------------------------------------
\* The loop of bulk_update()

\* Applied() is the function that its definition describes.
LEMMA AppliedFacts ==
  ASSUME NEW n, NEW entries, Len(entries) \in Nat
  PROVE  /\ Applied(n, entries)[0] = collections
         /\ \A k \in 1..Len(entries) :
              Applied(n, entries)[k] = Apply(n, Applied(n, entries)[k - 1], entries[k])
<1> DEFINE N == Len(entries)
           Def(g, m) == [k \in 0..m |-> IF k = 0 THEN collections ELSE Apply(n, g[k - 1], entries[k])]
           Bad == {m \in 0..N : ~ \E g : g = Def(g, m)}
<1>1. Bad = {}
  <2> SUFFICES ASSUME Bad # {} PROVE FALSE
    OBVIOUS
  <2>1. PICK m \in Bad : \A l \in Bad : m <= l
    <3>1. Bad \in SUBSET Nat
      OBVIOUS
    <3>. HIDE DEF Bad
    <3>. QED
      BY <3>1, LeastNumber
  <2>2. CASE m = 0
    <3> DEFINE g == [k \in 0..0 |-> collections]
    <3>1. g = Def(g, 0)
      OBVIOUS
    <3>. QED
      BY <2>1, <2>2, <3>1
  <2>3. CASE m # 0
    <3>1. m - 1 \in 0..N /\ m - 1 \notin Bad
      <4>1. m \in 0..N
        OBVIOUS
      <4>. HIDE DEF Bad
      <4>. QED
        BY <2>1, <2>3, <4>1
    <3>2. PICK g : g = Def(g, m - 1)
      BY <3>1
    <3> DEFINE h == [k \in 0..m |-> IF k = m THEN Apply(n, g[m - 1], entries[m]) ELSE g[k]]
    <3>3. h = Def(h, m)
      <4>1. ASSUME NEW k \in 0..m PROVE h[k] = Def(h, m)[k]
        <5>1. CASE k = m
          BY <2>1, <2>3, <5>1
        <5>2. CASE k # m
          <6>1. g[k] = IF k = 0 THEN collections ELSE Apply(n, g[k - 1], entries[k])
            BY <2>1, <2>3, <3>2, <5>2
          <6>. QED
            BY <2>1, <2>3, <5>2, <6>1
        <5>. QED
          BY <5>1, <5>2
      <4>. QED
        BY <4>1
    <3>. QED
      BY <2>1, <3>3
  <2>. QED
    BY <2>2, <2>3
<1>2. \E g : g = Def(g, N)
  BY <1>1
<1>3. Applied(n, entries) = Def(Applied(n, entries), N)
  BY <1>2 DEF Applied
<1>. QED
  BY <1>3

\* An entry whose checks passed updates a document that is there, and adds none.
LEMMA ApplySound ==
  ASSUME NEW state, Sound(state), NEW n \in DOMAIN state, NEW e, e.id \in DOMAIN state[n],
         e.body.id = NoId
  PROVE  /\ Sound(Apply(n, state, e))
         /\ n \in DOMAIN Apply(n, state, e)
         /\ DOMAIN Apply(n, state, e)[n] = DOMAIN state[n]
         /\ NothingLost(state, Apply(n, state, e))
<1> DEFINE document == Merged(state[n][e.id], e.body)
<1>1. n \in Names /\ e.id \in Ids /\ state[n][e.id].id = e.id
  BY DEF Sound
<1>2. DOMAIN document = {"id", "fields"} /\ document.id = e.id
  BY <1>1, MergedFacts
<1> HIDE DEF document
<1>3. /\ Sound(Put(state, n, e.id, document))
      /\ n \in DOMAIN Put(state, n, e.id, document)
      /\ DOMAIN Put(state, n, e.id, document)[n] = {e.id} \cup DOMAIN state[n]
  BY <1>1, <1>2, PutSound
<1>4. NothingLost(state, Put(state, n, e.id, document))
  BY MergedLosesNothing DEF document
<1>. QED
  BY <1>3, <1>4 DEF Apply, document

\* By induction, every state of the loop up to which all entries passed their checks is
\* sound, has the documents of the first and has lost nothing.
Passed(n, e) == e.id \in DOMAIN collections[n] /\ e.body.id = NoId

LEMMA AppliedSound ==
  ASSUME Sound(collections), NEW n \in DOMAIN collections,
         NEW entries, Len(entries) \in Nat
  PROVE  \A k \in 0..Len(entries) :
           (\A j \in 1..k : Passed(n, entries[j])) =>
             /\ Sound(Applied(n, entries)[k])
             /\ n \in DOMAIN Applied(n, entries)[k]
             /\ DOMAIN Applied(n, entries)[k][n] = DOMAIN collections[n]
             /\ NothingLost(collections, Applied(n, entries)[k])
<1> DEFINE N == Len(entries)
           after == Applied(n, entries)
           Good(k) == /\ Sound(after[k]) /\ n \in DOMAIN after[k]
                      /\ DOMAIN after[k][n] = DOMAIN collections[n]
                      /\ NothingLost(collections, after[k])
           Bad == {k \in 0..N : (\A j \in 1..k : Passed(n, entries[j])) /\ ~ Good(k)}
<1>1. /\ after[0] = collections
      /\ \A k \in 1..N : after[k] = Apply(n, after[k - 1], entries[k])
  BY AppliedFacts
<1> HIDE DEF after
<1>2. Bad = {}
  <2> SUFFICES ASSUME Bad # {} PROVE FALSE
    OBVIOUS
  <2>1. PICK m \in Bad : \A l \in Bad : m <= l
    <3>1. Bad \in SUBSET Nat
      OBVIOUS
    <3>. HIDE DEF Bad
    <3>. QED
      BY <3>1, LeastNumber
  <2>2. m \in 0..N /\ ~ Good(m) /\ \A j \in 1..m : Passed(n, entries[j])
    OBVIOUS
  <2>3. m # 0
    BY <1>1, <2>2 DEF NothingLost
  <2>4. Good(m - 1)
    <3>1. m - 1 \in 0..N /\ m - 1 \notin Bad
      <4>. HIDE DEF Bad
      <4>. QED
        BY <2>1, <2>2, <2>3
    <3>2. \A j \in 1..(m - 1) : j \in 1..m
      BY <2>2
    <3>. QED
      BY <2>2, <3>1, <3>2
  <2>5. after[m] = Apply(n, after[m - 1], entries[m])
    BY <1>1, <2>2, <2>3
  <2>6. entries[m].id \in DOMAIN after[m - 1][n] /\ entries[m].body.id = NoId
    <3>1. m \in 1..m
      BY <2>2, <2>3
    <3>. QED
      BY <2>2, <2>4, <3>1 DEF Passed
  <2>7. Good(m)
    BY <2>4, <2>5, <2>6, ApplySound, NothingLostTransitive
  <2>. QED
    BY <2>2, <2>7
<1>. QED
  BY <1>2 DEF after

\* What the checks of a whole bulk operation establish: those of its collection and of
\* each of its bodies or entries.
LEMMA ChecksFacts ==
  ASSUME NEW N \in Nat, NEW each \in [1..N -> Errors], NEW one \in Errors
  PROVE  /\ FirstError(<<one>> \o each) \in Errors
         /\ FirstError(<<one>> \o each) = "ok" => one = "ok" /\ \A k \in 1..N : each[k] = "ok"
         /\ FirstError(each \o <<one>>) \in Errors
         /\ FirstError(each \o <<one>>) = "ok" => one = "ok" /\ \A k \in 1..N : each[k] = "ok"
<1>1. /\ each \in Seq(Errors) /\ Len(each) = N
      /\ <<one>> \in Seq(Errors) /\ Len(<<one>>) = 1 /\ <<one>>[1] = one
  OBVIOUS
<1> DEFINE before == <<one>> \o each
           behind == each \o <<one>>
<1>2. /\ before \in Seq(Errors) /\ Len(before) = N + 1
      /\ before[1] = one /\ \A k \in 1..N : before[k + 1] = each[k]
  BY <1>1
<1>3. /\ behind \in Seq(Errors) /\ Len(behind) = N + 1
      /\ behind[N + 1] = one /\ \A k \in 1..N : behind[k] = each[k]
  BY <1>1
<1> HIDE DEF before, behind
<1>4. /\ DOMAIN before = 1..(N + 1) /\ \A k \in 1..(N + 1) : before[k] \in Errors
      /\ DOMAIN behind = 1..(N + 1) /\ \A k \in 1..(N + 1) : behind[k] \in Errors
  BY <1>2, <1>3
<1>5. /\ FirstError(before) \in Errors
      /\ FirstError(before) = "ok" => \A k \in 1..(N + 1) : before[k] = "ok"
  BY <1>4, FirstErrorFacts
<1>6. /\ FirstError(behind) \in Errors
      /\ FirstError(behind) = "ok" => \A k \in 1..(N + 1) : behind[k] = "ok"
  BY <1>4, FirstErrorFacts
<1>7. /\ 1 \in 1..(N + 1) /\ N + 1 \in 1..(N + 1)
      /\ \A k \in 1..N : k \in 1..(N + 1) /\ k + 1 \in 1..(N + 1)
  OBVIOUS
<1>8. FirstError(before) = "ok" => one = "ok" /\ \A k \in 1..N : each[k] = "ok"
  BY <1>2, <1>5, <1>7
<1>9. FirstError(behind) = "ok" => one = "ok" /\ \A k \in 1..N : each[k] = "ok"
  BY <1>3, <1>6, <1>7
<1>. QED
  BY <1>5, <1>6, <1>8, <1>9 DEF before, behind

-----------------------------------------------------------------------------
\* The operations, one by one: each leaves a sound state, the same if it finds fault with
\* its arguments and one that has lost nothing if it runs out of stack.

Keeps(outcome) ==
  /\ Sound(outcome.state) /\ outcome.result \in Errors
  /\ outcome.result \in {"ValidationError", "NotFoundError"} => outcome.state = collections
  /\ outcome.result = "RecursionError" => NothingLost(collections, outcome.state)

\* Most operations make two or three checks.
LEMMA TwoChecks ==
  ASSUME NEW a \in Errors, NEW b \in Errors
  PROVE  FirstError(<<a, b>>) = IF a # "ok" THEN a ELSE b
<1> DEFINE raised == {k \in DOMAIN <<a, b>> : <<a, b>>[k] # "ok"}
<1>1. CASE a # "ok"
  BY <1>1 DEF FirstError
<1>2. CASE a = "ok" /\ b # "ok"
  <2>1. raised = {2}
    BY <1>2
  <2>. QED
    BY <1>2, <2>1 DEF FirstError
<1>3. CASE a = "ok" /\ b = "ok"
  BY <1>3 DEF FirstError
<1>. QED
  BY <1>1, <1>2, <1>3

LEMMA ThreeChecks ==
  ASSUME NEW a \in Errors, NEW b \in Errors, NEW c \in Errors
  PROVE  FirstError(<<a, b, c>>) = IF a # "ok" THEN a ELSE IF b # "ok" THEN b ELSE c
<1> DEFINE raised == {k \in DOMAIN <<a, b, c>> : <<a, b, c>>[k] # "ok"}
<1>1. CASE a # "ok"
  BY <1>1 DEF FirstError
<1>2. CASE a = "ok" /\ b # "ok"
  BY <1>2 DEF FirstError
<1>3. CASE a = "ok" /\ b = "ok" /\ c # "ok"
  <2>1. raised = {3}
    BY <1>3
  <2>. QED
    BY <1>3, <2>1 DEF FirstError
<1>4. CASE a = "ok" /\ b = "ok" /\ c = "ok"
  BY <1>4 DEF FirstError
<1>. QED
  BY <1>1, <1>2, <1>3, <1>4

\* An outcome is the unchanged state, or what the operation built after its checks.
LEMMA OutcomeKeeps ==
  ASSUME IInv, NEW r \in Errors, NEW state, r = "ok" => Sound(state)
  PROVE  Keeps(Outcome(r, state))
  BY DEF IInv, Keeps, Outcome, NothingLost, Errors

LEMMA InsertKeeps ==
  ASSUME IInv, NEW n \in AnyName, NEW i \in Ids, NEW b \in AnyBody, NEW room \in BOOLEAN
  PROVE  Keeps(Insert(n, i, b, room))
<1> DEFINE name == IF n = BadName THEN "ValidationError" ELSE "ok"
           r == FirstError(<<BodyError(b), CopyError(b, room), name>>)
<1>1. name \in Errors /\ BodyError(b) \in Errors /\ CopyError(b, room) \in Errors
  BY ErrorFacts, CopyFacts DEF Errors, AnyId
<1>2. r \in Errors /\ (r = "ok" => BodyError(b) = "ok" /\ name = "ok")
  BY <1>1, ThreeChecks
<1>3. ASSUME r = "ok" PROVE Sound(Put(collections, n, i, Stored(i, b)))
  <2>1. n \in Names /\ b \in Bodies
    BY <1>2, <1>3, ErrorFacts DEF AnyName, AnyId
  <2>. QED
    BY <2>1, StoredFacts, PutSound DEF IInv
<1>. QED
  BY <1>2, <1>3, OutcomeKeeps DEF Insert

\* The copy that update() returns may fail when the document has been changed.
LEMMA UpdateKeeps ==
  ASSUME IInv, NEW n \in AnyName, NEW i \in AnyId, NEW b \in AnyBody, NEW room \in BOOLEAN
  PROVE  Keeps(Update(n, i, b, room))
<1> DEFINE r == FirstError(<<BodyError(b), DocumentError(n, i), CopyError(b, room)>>)
           document == Merged(Documents(n)[i], b)
           after == Put(collections, n, i, document)
<1>1. r \in Errors /\ (r = "ok" => BodyError(b) = "ok" /\ DocumentError(n, i) = "ok")
  <2>1. BodyError(b) \in Errors /\ DocumentError(n, i) \in Errors /\ CopyError(b, room) \in Errors
    BY ErrorFacts, CopyFacts
  <2>. QED
    BY <2>1, ThreeChecks
<1>2. ASSUME r = "ok" PROVE Sound(after) /\ NothingLost(collections, after)
  <2>1. /\ n \in Names /\ i \in Ids /\ n \in DOMAIN collections
        /\ Documents(n) = collections[n] /\ i \in DOMAIN collections[n] /\ b.id = NoId
    BY <1>1, <1>2, ErrorFacts DEF Documents
  <2>2. collections[n][i].id = i
    BY <2>1 DEF IInv, Sound
  <2>3. Sound(after)
    BY <2>1, <2>2, MergedFacts, PutSound DEF IInv
  <2>4. NothingLost(collections, after)
    BY <2>1, MergedLosesNothing
  <2>. QED
    BY <2>3, <2>4
<1>3. CopyError(document, room) \in {"ok", "RecursionError"}
  BY CopyFacts
<1>4. Update(n, i, b, room) = IF r # "ok" THEN Outcome(r, collections)
                              ELSE [result |-> CopyError(document, room), state |-> after]
  BY DEF Update
<1> HIDE DEF r, document, after
<1>5. CASE r # "ok"
  BY <1>1, <1>4, <1>5, OutcomeKeeps
<1>6. CASE r = "ok"
  BY <1>2, <1>3, <1>4, <1>6 DEF Keeps, Errors
<1>. QED
  BY <1>5, <1>6

LEMMA ReplaceKeeps ==
  ASSUME IInv, NEW n \in AnyName, NEW i \in AnyId, NEW b \in AnyBody, NEW room \in BOOLEAN
  PROVE  Keeps(Replace(n, i, b, room))
<1> DEFINE r == FirstError(<<StoredError(i, b, room), DocumentError(n, i)>>)
<1>1. r \in Errors /\ (r = "ok" => StoredError(i, b, room) = "ok" /\ DocumentError(n, i) = "ok")
  <2>1. StoredError(i, b, room) \in Errors /\ DocumentError(n, i) \in Errors
    BY ErrorFacts, CopyFacts
  <2>. QED
    BY <2>1, TwoChecks
<1>2. ASSUME r = "ok" PROVE Sound(Put(collections, n, i, Stored(i, b)))
  <2>1. n \in Names /\ i \in Ids /\ b \in Bodies
    BY <1>1, <1>2, ErrorFacts, CopyFacts
  <2>. QED
    BY <2>1, StoredFacts, PutSound DEF IInv
<1>. QED
  BY <1>1, <1>2, OutcomeKeeps DEF Replace

LEMMA DeleteKeeps ==
  ASSUME IInv, NEW n \in AnyName, NEW i \in AnyId
  PROVE  Keeps(Delete(n, i))
<1> DEFINE id == IF i = BadId THEN "ValidationError" ELSE "ok"
           r == FirstError(<<id, CollectionError(n), DocumentError(n, i)>>)
           left == [collections EXCEPT ![n] = [j \in DOMAIN @ \ {i} |-> @[j]]]
<1>1. id \in Errors /\ CollectionError(n) \in Errors /\ DocumentError(n, i) \in Errors
  BY DEF CollectionError, DocumentError, Errors
<1>2. r \in Errors
  BY <1>1, ThreeChecks
<1>3. Sound(left)
  BY DEF IInv, Sound
<1>. QED
  BY <1>2, <1>3, OutcomeKeeps DEF Delete

LEMMA UpsertKeeps ==
  ASSUME IInv, NEW n \in AnyName, NEW i \in AnyId, NEW b \in AnyBody, NEW room \in BOOLEAN
  PROVE  Keeps(Upsert(n, i, b, room))
<1> DEFINE id == IF i = BadId THEN "ValidationError" ELSE "ok"
           name == IF n = BadName THEN "ValidationError" ELSE "ok"
           r == FirstError(<<id, StoredError(i, b, room), name>>)
<1>1. id \in Errors /\ name \in Errors /\ StoredError(i, b, room) \in Errors
  BY CopyFacts DEF Errors
<1>2. r \in Errors /\ (r = "ok" => id = "ok" /\ StoredError(i, b, room) = "ok" /\ name = "ok")
  BY <1>1, ThreeChecks
<1>3. ASSUME r = "ok" PROVE Sound(Put(collections, n, i, Stored(i, b)))
  <2>1. n \in Names /\ i \in Ids /\ b \in Bodies
    BY <1>2, <1>3, CopyFacts DEF AnyName, AnyId
  <2>. QED
    BY <2>1, StoredFacts, PutSound DEF IInv
<1>. QED
  BY <1>2, <1>3, OutcomeKeeps DEF Upsert

LEMMA ListFacts ==
  ASSUME NEW S, NEW list \in Lists(S)
  PROVE  Len(list) \in Nat /\ DOMAIN list = 1..Len(list) /\ list \in [1..Len(list) -> S]
<1>1. PICK k \in 0..MaxBulk : list \in [1..k -> S]
  BY DEF Lists
<1>2. Len(list) = k
  BY <1>1, CollectionAssumption
<1>. QED
  BY <1>1, <1>2, CollectionAssumption

LEMMA LoopKeeps ==
  ASSUME IInv, NEW r \in Errors, NEW m, NEW N, NEW state,
         r = "ok" => Sound(state) /\ NothingLost(collections, state)
  PROVE  Keeps(Loop(r, m, N, state))
<1>1. CASE r # "ok"
  BY <1>1, OutcomeKeeps DEF Loop
<1>2. CASE r = "ok"
  BY <1>2 DEF Loop, Keeps, Errors
<1>. QED
  BY <1>1, <1>2

LEMMA BulkInsertKeeps ==
  ASSUME IInv, NEW n \in AnyName, NEW bodies \in Lists(AnyBody), NEW ids \in [DOMAIN bodies -> Ids],
         Fresh(n, ids), NEW room \in BOOLEAN
  PROVE  Keeps(BulkInsert(n, ids, bodies, room))
<1> DEFINE name == IF n = BadName THEN "ValidationError" ELSE "ok"
           each == [k \in DOMAIN bodies |-> BodyError(bodies[k])]
           r == FirstError(each \o <<name>>)
           m == Copied(bodies, room)
           stored == [i \in {ids[k] : k \in 1..m} |->
                        Stored(i, bodies[CHOOSE k \in 1..m : ids[k] = i])]
           after == Over(Only(n, Over(stored, Documents(n))), collections)
           N == Len(bodies)
<1>1. N \in Nat /\ DOMAIN bodies = 1..N /\ bodies \in [1..N -> AnyBody]
  BY ListFacts
<1>2. each \in [1..N -> Errors] /\ name \in Errors
  <2>1. \A b \in AnyBody : BodyError(b) \in Errors
    BY DEF BodyError, Errors
  <2>. QED
    BY <1>1, <2>1 DEF Errors
<1>3. r \in Errors /\ (r = "ok" => name = "ok" /\ \A k \in 1..N : each[k] = "ok")
  <2>. HIDE DEF each, name
  <2>. QED
    BY <1>1, <1>2, ChecksFacts
<1>4. m \in 0..N
  BY <1>1, CopiedFacts
<1>5. ASSUME r = "ok" PROVE Sound(after) /\ NothingLost(collections, after)
  <2>1. n \in Names
    BY <1>3, <1>5 DEF AnyName
  <2>2. \A k \in 1..N : bodies[k] \in Bodies
    <3>1. ASSUME NEW k \in 1..N PROVE bodies[k] \in Bodies
      <4>1. each[k] = "ok" /\ each[k] = BodyError(bodies[k]) /\ bodies[k] \in AnyBody
        BY <1>1, <1>3, <1>5
      <4>. HIDE DEF each
      <4>. QED
        BY <4>1 DEF BodyError, AnyBody
    <3>. QED
      BY <3>1
  <2>3. \A k \in 1..m : k \in 1..N /\ ids[k] \in Ids /\ ids[k] \notin DOMAIN Documents(n)
    <3>. HIDE DEF m
    <3>. QED
      BY <1>1, <1>4 DEF Fresh
  <2>4. DOMAIN stored \subseteq Ids /\ DOMAIN stored \cap DOMAIN Documents(n) = {}
    <3>. HIDE DEF m
    <3>. QED
      BY <2>3
  <2>5. ASSUME NEW i \in DOMAIN stored
        PROVE  DOMAIN stored[i] = {"id", "fields"} /\ stored[i].id = i
    <3>1. (CHOOSE k \in 1..m : ids[k] = i) \in 1..N
      <4>. HIDE DEF m
      <4>. QED
        BY <2>3
    <3>. QED
      BY <2>2, <3>1, StoredFacts
  <2>6. /\ n \in DOMAIN collections => Documents(n) = collections[n]
        /\ n \notin DOMAIN collections => DOMAIN Documents(n) = {}
    BY DEF Documents
  <2>. HIDE DEF stored
  <2>7. Sound(after)
    BY <2>1, <2>4, <2>5, <2>6, ExtendSound DEF IInv
  <2>8. NothingLost(collections, after)
    BY <2>4, <2>6, ExtendLosesNothing
  <2>. QED
    BY <2>7, <2>8
<1>6. BulkInsert(n, ids, bodies, room) = Loop(r, m, N, after)
  BY DEF BulkInsert
<1>. HIDE DEF r, m, after, N
<1>. QED
  BY <1>3, <1>5, <1>6, LoopKeeps

LEMMA BulkUpdateKeeps ==
  ASSUME IInv, NEW n \in AnyName, NEW entries \in Lists(Entries), NEW room \in BOOLEAN
  PROVE  Keeps(BulkUpdate(n, entries, room))
<1> DEFINE each == [k \in DOMAIN entries |-> EntryError(n, entries[k])]
           bodies == [k \in DOMAIN entries |-> entries[k].body]
           r == ChecksOf(n, entries)
           m == Copied(bodies, room)
           after == Applied(n, entries)[m]
           N == Len(entries)
<1>1. N \in Nat /\ DOMAIN entries = 1..N /\ entries \in [1..N -> Entries]
  BY ListFacts
<1>2. each \in [1..N -> Errors] /\ CollectionError(n) \in Errors
  <2>1. \A e \in Entries : EntryError(n, e) \in Errors
    BY EntryFacts
  <2>. QED
    BY <1>1, <2>1 DEF CollectionError, Errors
<1>3. r \in Errors /\ (r = "ok" => CollectionError(n) = "ok" /\ \A k \in 1..N : each[k] = "ok")
  <2>1. r = FirstError(<<CollectionError(n)>> \o each)
    BY DEF ChecksOf
  <2>. HIDE DEF each, r
  <2>. QED
    BY <1>1, <1>2, <2>1, ChecksFacts
<1>4. Len(bodies) = N /\ m \in 0..N
  <2>1. Len(bodies) = N
    BY <1>1
  <2>. HIDE DEF bodies
  <2>. QED
    BY <1>1, <2>1, CopiedFacts
<1>5. ASSUME r = "ok" PROVE Sound(after) /\ NothingLost(collections, after)
  <2>1. n \in DOMAIN collections /\ Documents(n) = collections[n]
    BY <1>3, <1>5 DEF CollectionError, AnyName, Documents
  <2>2. \A k \in 1..N : Passed(n, entries[k])
    BY <1>1, <1>3, <1>5, <2>1, EntryFacts DEF Passed
  <2>3. \A k \in 1..m : k \in 1..N
    <3>. HIDE DEF m
    <3>. QED
      BY <1>1, <1>4
  <2>. HIDE DEF m
  <2>. QED
    BY <1>1, <1>4, <2>1, <2>2, <2>3, AppliedSound DEF IInv
<1>6. BulkUpdate(n, entries, room) = Loop(r, m, N, after)
  BY DEF BulkUpdate
<1>. HIDE DEF r, m, after, N
<1>. QED
  BY <1>3, <1>5, <1>6, LoopKeeps

\* Every step does what one of the operations does.
LEMMA StepKeeps == IInv /\ Next => \E outcome : Keeps(outcome) /\ Do(outcome)
<1> SUFFICES ASSUME IInv, Next PROVE \E outcome : Keeps(outcome) /\ Do(outcome)
  OBVIOUS
<1>1. CASE InsertStep
  BY <1>1, InsertKeeps DEF InsertStep
<1>2. CASE UpdateStep
  BY <1>2, UpdateKeeps DEF UpdateStep
<1>3. CASE ReplaceStep
  BY <1>3, ReplaceKeeps DEF ReplaceStep
<1>4. CASE DeleteStep
  BY <1>4, DeleteKeeps DEF DeleteStep
<1>5. CASE UpsertStep
  BY <1>5, UpsertKeeps DEF UpsertStep
<1>6. CASE BulkInsertStep
  BY <1>6, BulkInsertKeeps DEF BulkInsertStep
<1>7. CASE BulkUpdateStep
  BY <1>7, BulkUpdateKeeps DEF BulkUpdateStep
<1>8. CASE NotListStep
  <2>1. Keeps(Outcome("ValidationError", collections))
    BY OutcomeKeeps DEF Errors
  <2>. QED
    BY <1>8, <2>1 DEF NotListStep
<1>. QED
  BY <1>1, <1>2, <1>3, <1>4, <1>5, <1>6, <1>7, <1>8 DEF Next

LEMMA NextKeeps == IInv /\ [Next]_vars => IInv'
<1>1. ASSUME IInv, UNCHANGED vars PROVE IInv'
  BY <1>1 DEF vars, IInv
<1>2. ASSUME IInv, NEW outcome, Keeps(outcome), Do(outcome) PROVE IInv'
  BY <1>2 DEF Keeps, Do, IInv
<1>. QED
  BY <1>1, <1>2, StepKeeps

LEMMA Invariance == Spec => []IInv
<1>1. Init => IInv
  BY DEF Init, IInv, Sound, Errors
<1>. QED
  BY <1>1, NextKeeps, PTL DEF Spec

\* Type correctness, for any names, ids, bodies and lengths of bulk operations.
THEOREM TypeCorrect == Spec => []TypeOK
<1>1. IInv => TypeOK
  BY DEF IInv, Sound, TypeOK, Errors
<1>. QED
  BY <1>1, Invariance, PTL

\* What any operations have built, those that raised among them, has the names, ids and
\* id fields that the commit asks for.
THEOREM CommitAcceptsShapeHolds == Spec => []CommitAcceptsShape
<1>1. IInv => CommitAcceptsShape
  BY CollectionAssumption DEF IInv, Sound, CommitAcceptsShape, ShapeAccepts
<1>. QED
  BY <1>1, Invariance, PTL

\* An operation that finds fault with its arguments leaves the state as it was, and one
\* that runs out of stack half-way takes nothing away from it.
THEOREM RaisingKeepsStateHolds == Spec => RaisingKeepsState
<1> DEFINE Kept == /\ result' \in {"ValidationError", "NotFoundError"} => collections' = collections
                   /\ result' = "RecursionError" => NothingLost(collections, collections')
<1>1. IInv /\ [Next]_vars => [Kept]_vars
  <2>1. ASSUME NEW outcome, Keeps(outcome), Do(outcome) PROVE Kept
    BY <2>1 DEF Keeps, Do
  <2>. QED
    BY <2>1, StepKeeps
<1>. QED
  BY <1>1, Invariance, PTL DEF Spec, RaisingKeepsState

-----------------------------------------------------------------------------
\* What the operations agree on

\* With room on the stack, upsert() and replace() accept the same input on a document that
\* exists and store the same; on a missing one replace() refuses what upsert() creates.
THEOREM UpsertAgreesWithReplaceHolds == Spec => []UpsertAgreesWithReplace
<1>1. ASSUME NEW n \in AnyName, NEW i \in AnyId, NEW b \in AnyBody
      PROVE  IF DocumentError(n, i) = "NotFoundError" /\ Upsert(n, i, b, TRUE).result = "ok"
             THEN Replace(n, i, b, TRUE).result = "NotFoundError"
             ELSE Replace(n, i, b, TRUE) = Upsert(n, i, b, TRUE)
  <2> DEFINE id == IF i = BadId THEN "ValidationError" ELSE "ok"
             name == IF n = BadName THEN "ValidationError" ELSE "ok"
             stored == StoredError(i, b, TRUE)
             put == Put(collections, n, i, Stored(i, b))
  <2>1. id \in Errors /\ name \in Errors
    BY DEF Errors
  <2>2. stored \in Errors /\ stored \in {"ok", "ValidationError"}
    <3>1. CopyError(b, TRUE) = "ok"
      BY DEF CopyError
    <3>. QED
      BY <3>1 DEF Errors, StoredError
  <2>3. DocumentError(n, i) \in Errors
    BY ErrorFacts
  <2>4. Upsert(n, i, b, TRUE) = Outcome(FirstError(<<id, stored, name>>), put)
    BY DEF Upsert
  <2>5. Replace(n, i, b, TRUE) = Outcome(FirstError(<<stored, DocumentError(n, i)>>), put)
    BY DEF Replace
  <2>6. DocumentError(n, i) = IF id # "ok" \/ name # "ok" THEN "ValidationError"
                              ELSE IF i \in DOMAIN Documents(n) THEN "ok" ELSE "NotFoundError"
    BY DEF DocumentError
  <2>. HIDE DEF stored, put
  <2>7. FirstError(<<id, stored, name>>) = IF id # "ok" THEN id ELSE IF stored # "ok" THEN stored ELSE name
    BY <2>1, <2>2, ThreeChecks
  <2>8. FirstError(<<stored, DocumentError(n, i)>>) = IF stored # "ok" THEN stored ELSE DocumentError(n, i)
    BY <2>2, <2>3, TwoChecks
  <2>9. \A r : Outcome(r, put).result = r
    BY DEF Outcome
  <2>10. CASE DocumentError(n, i) = "NotFoundError" /\ FirstError(<<id, stored, name>>) = "ok"
    <3>1. FirstError(<<stored, DocumentError(n, i)>>) = "NotFoundError"
      BY <2>7, <2>8, <2>10
    <3>. QED
      BY <2>4, <2>5, <2>9, <2>10, <3>1
  <2>11. CASE ~ (DocumentError(n, i) = "NotFoundError" /\ FirstError(<<id, stored, name>>) = "ok")
    <3>1. FirstError(<<stored, DocumentError(n, i)>>) = FirstError(<<id, stored, name>>)
      BY <2>2, <2>6, <2>7, <2>8, <2>11
    <3>. QED
      BY <2>4, <2>5, <2>9, <2>11, <3>1
  <2>. QED
    BY <2>10, <2>11
<1>2. UpsertAgreesWithReplace
  BY <1>1 DEF UpsertAgreesWithReplace
<1>. QED
  BY <1>2, PTL

\* What was written is read back under its id, and update() keeps the other fields.
THEOREM ReadsBackHolds == Spec => []ReadsBack
<1>1. ASSUME NEW n \in Names, NEW i \in Ids, NEW b \in Bodies, NEW room \in BOOLEAN,
             Upsert(n, i, b, room).result = "ok"
      PROVE  Upsert(n, i, b, room).state[n][i] = [id |-> i, fields |-> b.fields]
  <2>1. Upsert(n, i, b, room).state = Put(collections, n, i, Stored(i, b))
    BY <1>1 DEF Upsert, Outcome
  <2>2. Put(collections, n, i, Stored(i, b))[n][i] = Stored(i, b)
    BY DEF Put, Over, Only
  <2>3. Stored(i, b) = [id |-> i, fields |-> b.fields]
    BY CollectionAssumption DEF Stored
  <2>. QED
    BY <2>1, <2>2, <2>3
<1>2. ASSUME NEW n \in Names, NEW i \in Ids, NEW b \in Bodies, NEW room \in BOOLEAN,
             Update(n, i, b, room).result = "ok",
             NEW f \in DOMAIN Documents(n)[i].fields \cup DOMAIN b.fields
      PROVE  /\ f \in DOMAIN Update(n, i, b, room).state[n][i].fields
             /\ Update(n, i, b, room).state[n][i].fields[f] =
                  IF f \in DOMAIN b.fields THEN b.fields[f] ELSE Documents(n)[i].fields[f]
  <2>1. Update(n, i, b, room).state = Put(collections, n, i, Merged(Documents(n)[i], b))
    BY <1>2 DEF Update, Outcome
  <2>2. Put(collections, n, i, Merged(Documents(n)[i], b))[n][i] = Merged(Documents(n)[i], b)
    BY DEF Put, Over, Only
  <2>. QED
    BY <2>1, <2>2 DEF Merged, Over
<1>3. ReadsBack
  <2> SUFFICES ASSUME NEW n \in Names, NEW i \in Ids, NEW b \in Bodies, NEW room \in BOOLEAN
               PROVE  LET stored == Upsert(n, i, b, room)  merged == Update(n, i, b, room)
                      IN  /\ stored.result = "ok" => stored.state[n][i] = [id |-> i, fields |-> b.fields]
                          /\ merged.result = "ok" =>
                               \A f \in DOMAIN Documents(n)[i].fields \cup DOMAIN b.fields :
                                 /\ f \in DOMAIN merged.state[n][i].fields
                                 /\ merged.state[n][i].fields[f] =
                                      IF f \in DOMAIN b.fields THEN b.fields[f]
                                      ELSE Documents(n)[i].fields[f]
    BY Zenon DEF ReadsBack
  <2>. QED
    BY <1>1, <1>2
<1>. QED
  BY <1>3, PTL

-----------------------------------------------------------------------------
\* bulk_update() and the updates one by one

\* Sequential() is the function that its definition describes.
LEMMA SequentialFacts ==
  ASSUME NEW n, NEW entries, Len(entries) \in Nat
  PROVE  /\ Sequential(n, entries)[0] = [result |-> "ok", state |-> collections]
         /\ \A k \in 1..Len(entries) :
              Sequential(n, entries)[k] = UpdateEntry(Sequential(n, entries)[k - 1], n, entries[k])
<1> DEFINE N == Len(entries)
           start == [result |-> "ok", state |-> collections]
           Def(g, m) == [k \in 0..m |-> IF k = 0 THEN start ELSE UpdateEntry(g[k - 1], n, entries[k])]
           Bad == {m \in 0..N : ~ \E g : g = Def(g, m)}
<1>0. Sequential(n, entries) = CHOOSE g : g = Def(g, N)
  BY DEF Sequential
<1> HIDE DEF start
<1>1. Bad = {}
  <2> SUFFICES ASSUME Bad # {} PROVE FALSE
    OBVIOUS
  <2>1. PICK m \in Bad : \A l \in Bad : m <= l
    <3>1. Bad \in SUBSET Nat
      OBVIOUS
    <3>. HIDE DEF Bad
    <3>. QED
      BY <3>1, LeastNumber
  <2>2. CASE m = 0
    <3> DEFINE g == [k \in 0..0 |-> start]
    <3>1. g = Def(g, 0)
      OBVIOUS
    <3>. QED
      BY <2>1, <2>2, <3>1
  <2>3. CASE m # 0
    <3>1. m - 1 \in 0..N /\ m - 1 \notin Bad
      <4>1. m \in 0..N
        OBVIOUS
      <4>. HIDE DEF Bad
      <4>. QED
        BY <2>1, <2>3, <4>1
    <3>2. PICK g : g = Def(g, m - 1)
      BY <3>1
    <3> DEFINE h == [k \in 0..m |-> IF k = m THEN UpdateEntry(g[m - 1], n, entries[m]) ELSE g[k]]
    <3>3. h = Def(h, m)
      <4>1. ASSUME NEW k \in 0..m PROVE h[k] = Def(h, m)[k]
        <5>1. CASE k = m
          BY <2>1, <2>3, <5>1
        <5>2. CASE k # m
          <6>1. g[k] = IF k = 0 THEN start ELSE UpdateEntry(g[k - 1], n, entries[k])
            BY <2>1, <2>3, <3>2, <5>2
          <6>. QED
            BY <2>1, <2>3, <5>2, <6>1
        <5>. QED
          BY <5>1, <5>2
      <4>. QED
        BY <4>1
    <3>. QED
      BY <2>1, <3>3
  <2>. QED
    BY <2>2, <2>3
<1>2. \E g : g = Def(g, N)
  BY <1>1
<1>3. Sequential(n, entries) = Def(Sequential(n, entries), N)
  BY <1>0, <1>2
<1>. QED
  BY <1>3 DEF start

\* One entry of the loop and one update() are the same step, and refuse the same.
LEMMA UpdateEntryFacts ==
  ASSUME NEW n \in DOMAIN collections, n \in Names, NEW e \in Entries,
         NEW state, DOMAIN state[n] = DOMAIN collections[n],
         NEW o, o = [result |-> "ok", state |-> state]
  PROVE  /\ UpdateEntry(o, n, e).result = "ok" <=> EntryError(n, e) = "ok"
         /\ EntryError(n, e) = "ok" =>
              UpdateEntry(o, n, e) = [result |-> "ok", state |-> Apply(n, state, e)]
<1> DEFINE document == IF e.id = BadId THEN "ValidationError"
                       ELSE IF e.id \notin DOMAIN state[n] THEN "NotFoundError" ELSE "ok"
           body == BodyError(e.body)
           r == IF e = Malformed THEN "ValidationError" ELSE FirstError(<<body, document>>)
<1>1. UpdateEntry(o, n, e) = [result |-> r, state |-> IF r = "ok" THEN Apply(n, state, e) ELSE state]
  BY DEF UpdateEntry
<1>2. r = "ok" <=> EntryError(n, e) = "ok"
  <2>1. CASE e = Malformed
    BY <2>1 DEF EntryError
  <2>2. CASE e # Malformed
    <3>1. document = DocumentError(n, e.id)
      BY CollectionAssumption DEF DocumentError, Documents
    <3>2. document \in Errors /\ body \in Errors
      BY DEF BodyError, Errors
    <3> HIDE DEF document, body
    <3>3. FirstError(<<body, document>>) = IF body # "ok" THEN body ELSE document
      BY <3>2, TwoChecks
    <3>4. FirstError(<<document, body>>) = IF document # "ok" THEN document ELSE body
      BY <3>2, TwoChecks
    <3>5. EntryError(n, e) = FirstError(<<document, body>>)
      BY <2>2, <3>1 DEF EntryError, body
    <3>. QED
      BY <2>2, <3>3, <3>4, <3>5
  <2>. QED
    BY <2>1, <2>2
<1>. HIDE DEF r
<1>. QED
  BY <1>1, <1>2

\* By induction, up to the first entry that fails its checks the updates one by one build
\* what the loop builds, and from there on they have raised.
LEMMA SequentialFollows ==
  ASSUME Sound(collections), NEW n \in DOMAIN collections, n \in Names,
         NEW entries \in Lists(Entries)
  PROVE  \A k \in 0..Len(entries) :
           IF \A j \in 1..k : EntryError(n, entries[j]) = "ok"
           THEN Sequential(n, entries)[k] = [result |-> "ok", state |-> Applied(n, entries)[k]]
           ELSE Sequential(n, entries)[k].result # "ok"
<1> DEFINE N == Len(entries)
           Error(k) == EntryError(n, entries[k])
           Fine(k) == \A j \in 1..k : Error(j) = "ok"
           after == Applied(n, entries)
           one == Sequential(n, entries)
           Good(k) == IF Fine(k) THEN one[k] = [result |-> "ok", state |-> after[k]]
                      ELSE one[k].result # "ok"
           Bad == {k \in 0..N : ~ Good(k)}
<1>1. N \in Nat /\ \A k \in 1..N : entries[k] \in Entries
  BY ListFacts
<1>2. /\ after[0] = collections /\ \A k \in 1..N : after[k] = Apply(n, after[k - 1], entries[k])
      /\ one[0] = [result |-> "ok", state |-> collections]
      /\ \A k \in 1..N : one[k] = UpdateEntry(one[k - 1], n, entries[k])
  BY <1>1, AppliedFacts, SequentialFacts
<1>3. ASSUME NEW k \in 0..N, Fine(k) PROVE DOMAIN after[k][n] = DOMAIN collections[n]
  <2>1. ASSUME NEW j \in 1..k PROVE Passed(n, entries[j])
    <3>1. entries[j] \in Entries /\ EntryError(n, entries[j]) = "ok"
      BY <1>1, <1>3
    <3>2. n \in AnyName /\ Documents(n) = collections[n]
      BY DEF AnyName, Documents
    <3>. QED
      BY <3>1, <3>2, EntryFacts DEF Passed
  <2>. QED
    BY <1>1, <2>1, AppliedSound
<1> HIDE DEF after, one, Error
<1>4. Bad = {}
  <2> SUFFICES ASSUME Bad # {} PROVE FALSE
    OBVIOUS
  <2>1. PICK k \in Bad : \A l \in Bad : k <= l
    <3>1. Bad \in SUBSET Nat
      OBVIOUS
    <3>. HIDE DEF Bad
    <3>. QED
      BY <3>1, LeastNumber
  <2>2. k \in 0..N /\ ~ Good(k)
    OBVIOUS
  <2>3. k # 0
    BY <1>2, <2>2
  <2>4. k \in 1..N /\ k - 1 \in 0..N
    BY <1>1, <2>2, <2>3
  <2>5. Good(k - 1)
    <3>1. k - 1 \notin Bad
      <4>. HIDE DEF Bad
      <4>. QED
        BY <1>1, <2>1, <2>4
    <3>. QED
      BY <2>4, <3>1
  <2>6. one[k] = UpdateEntry(one[k - 1], n, entries[k]) /\ after[k] = Apply(n, after[k - 1], entries[k])
    BY <1>2, <2>4
  <2>7. Fine(k) <=> Fine(k - 1) /\ Error(k) = "ok"
    BY <1>1, <2>4
  <2>8. CASE Fine(k - 1)
    <3>1. one[k - 1] = [result |-> "ok", state |-> after[k - 1]]
      BY <2>5, <2>8
    <3>2. DOMAIN after[k - 1][n] = DOMAIN collections[n]
      BY <1>3, <2>4, <2>8
    <3>3. entries[k] \in Entries
      BY <1>1, <2>4
    <3>4. /\ one[k].result = "ok" <=> Error(k) = "ok"
          /\ Error(k) = "ok" => one[k] = [result |-> "ok", state |-> after[k]]
      BY <2>6, <3>1, <3>2, <3>3, UpdateEntryFacts DEF Error
    <3>. HIDE DEF Fine
    <3>. QED
      BY <2>2, <2>7, <2>8, <3>4
  <2>9. CASE ~ Fine(k - 1)
    <3>1. one[k - 1].result # "ok" /\ ~ Fine(k)
      <4>. HIDE DEF Fine
      <4>. QED
        BY <2>5, <2>7, <2>9
    <3>2. one[k] = one[k - 1]
      BY <2>6, <3>1 DEF UpdateEntry
    <3>. QED
      BY <2>2, <3>1, <3>2
  <2>. QED
    BY <2>8, <2>9
<1>. QED
  BY <1>4 DEF after, one, Error

\* With room on the stack a bulk update returns if and only if its updates, one after the
\* other, would, and builds the same, for lists of any length that name documents in any
\* order and any number of times.
THEOREM BulkUpdateIsSequentialHolds == Spec => []BulkUpdateIsSequential
<1>1. ASSUME IInv, NEW n \in DOMAIN collections, NEW entries \in Lists(Entries)
      PROVE  LET one == Sequential(n, entries)[Len(entries)]
                 bulk == BulkUpdate(n, entries, TRUE)
             IN  /\ bulk.result = "ok" <=> one.result = "ok"
                 /\ one.result = "ok" => bulk.state = one.state
  <2> DEFINE N == Len(entries)
             each == [k \in DOMAIN entries |-> EntryError(n, entries[k])]
             bodies == [k \in DOMAIN entries |-> entries[k].body]
             checks == <<CollectionError(n)>> \o each
             one == Sequential(n, entries)[N]
  <2>1. N \in Nat /\ DOMAIN entries = 1..N /\ entries \in [1..N -> Entries]
    BY ListFacts
  <2>2. n \in Names /\ n \in AnyName /\ CollectionError(n) = "ok"
    BY <1>1, CollectionAssumption DEF IInv, Sound, AnyName, CollectionError
  <2>3. each \in [1..N -> Errors]
    BY <2>1, <2>2, EntryFacts
  <2>4. DOMAIN checks = 1..(N + 1) /\ checks[1] = "ok" /\ \A k \in 1..N : checks[k + 1] = each[k]
    <3>. HIDE DEF each
    <3>1. each \in Seq(Errors) /\ Len(each) = N
      BY <2>1, <2>3
    <3>. QED
      BY <2>1, <2>2, <3>1 DEF Errors
  <2>5. BulkUpdate(n, entries, TRUE) = Loop(FirstError(checks), N, N, Applied(n, entries)[N])
    <3>1. Len(bodies) = N
      BY <2>1
    <3>2. Copied(bodies, TRUE) = N
      <4>. HIDE DEF bodies
      <4>. QED
        BY <2>1, <3>1, CopiedFacts
    <3>. QED
      BY <3>2 DEF BulkUpdate, ChecksOf
  <2>6. CASE \A k \in 1..N : each[k] = "ok"
    <3>1. one = [result |-> "ok", state |-> Applied(n, entries)[N]]
      <4>1. \A j \in 1..N : EntryError(n, entries[j]) = "ok"
        BY <2>1, <2>6
      <4>2. N \in 0..N
        BY <2>1
      <4>. QED
        BY <1>1, <2>1, <2>2, <4>1, <4>2, SequentialFollows DEF IInv
    <3>2. \A k \in 1..(N + 1) : checks[k] = "ok"
      <4>1. ASSUME NEW k \in 1..(N + 1), k # 1 PROVE checks[k] = "ok"
        <5>1. k - 1 \in 1..N /\ (k - 1) + 1 = k
          BY <2>1, <4>1
        <5>. HIDE DEF checks, each
        <5>. QED
          BY <2>4, <2>6, <5>1
      <4>. HIDE DEF checks
      <4>. QED
        BY <2>4, <4>1
    <3>3. FirstError(checks) = "ok"
      <4>. HIDE DEF checks
      <4>. QED
        BY <2>4, <3>2 DEF FirstError
    <3>4. BulkUpdate(n, entries, TRUE) = [result |-> "ok", state |-> Applied(n, entries)[N]]
      BY <2>5, <3>3 DEF Loop
    <3>. HIDE DEF one
    <3>. QED
      BY <3>1, <3>4 DEF one
  <2>7. CASE \E k \in 1..N : each[k] # "ok"
    <3>1. FirstError(checks) # "ok"
      <4>1. CollectionError(n) \in Errors
        BY <2>2 DEF Errors
      <4>. HIDE DEF each
      <4>. QED
        BY <2>1, <2>3, <2>7, <4>1, ChecksFacts
    <3>2. BulkUpdate(n, entries, TRUE).result # "ok"
      <4>1. Loop(FirstError(checks), N, N, Applied(n, entries)[N]) = Outcome(FirstError(checks), collections)
        BY <3>1 DEF Loop
      <4>. HIDE DEF checks, N
      <4>2. Outcome(FirstError(checks), collections).result = FirstError(checks)
        BY DEF Outcome
      <4>. QED
        BY <2>5, <3>1, <4>1, <4>2
    <3>3. one.result # "ok"
      <4>1. ~ \A j \in 1..N : EntryError(n, entries[j]) = "ok"
        BY <2>1, <2>7
      <4>2. N \in 0..N
        BY <2>1
      <4>. QED
        BY <1>1, <2>1, <2>2, <4>1, <4>2, SequentialFollows DEF IInv
    <3>. QED
      BY <3>2, <3>3
  <2>. QED
    BY <2>6, <2>7
<1>2. IInv => BulkUpdateIsSequential
  BY <1>1 DEF BulkUpdateIsSequential
<1>. QED
  BY <1>2, Invariance, PTL
=============================================================================
