-------------------------- MODULE OwnershipProofs --------------------------
(***************************************************************************)
(* The working state of a transaction is what its operations were given, for   *)
(* any documents, variables and fields.  The invariant behind it: the list at   *)
(* a place of a stored document is at no place of another document.           *)
(***************************************************************************)
EXTENDS Ownership, TLAPS

USE OwnershipAssumption

Clean(h) ==
  /\ DOMAIN h.value \subseteq (Ids \cup Hands) \X Fields
  /\ \A p \in DOMAIN h.value : p[1] \in Ids => \A q \in h.alias[p] : q[1] = p[1]

IInv == Clean(Heap) /\ StateIsWhatWasWritten

-----------------------------------------------------------------------------
\* What the operations on heaps do to the documents

\* The places and contents after deep copies were given to the documents of S.
LEMMA GivenPlaces ==
  ASSUME NEW h, NEW from, NEW S, NEW kept \in SUBSET DOMAIN h.value,
         NEW d, NEW f \in Fields
  PROVE  LET g == Given(h, from, S, kept)
             new == d \in S /\ f \in FieldsOf(h, from)
         IN  /\ <<d, f>> \in DOMAIN g.value <=> new \/ <<d, f>> \in kept
             /\ new => g.value[<<d, f>>] = h.value[<<from, f>>]
             /\ ~new /\ <<d, f>> \in kept => g.value[<<d, f>>] = h.value[<<d, f>>]
<1>1. FieldsOf(h, from) \subseteq Fields
  BY DEF FieldsOf
<1> QED BY <1>1 DEF Given, Rebind, Kept

LEMMA RebindAlias ==
  ASSUME NEW h, NEW source, NEW p \in DOMAIN source, NEW q
  PROVE  q \in Rebind(h, source).alias[p] <=>
           /\ q \in DOMAIN source
           /\ source[q].copy = source[p].copy
           /\ source[q].of \in h.alias[source[p].of]
BY DEF Rebind

\* Deep copies share lists within one document only.
LEMMA GivenClean ==
  ASSUME NEW h, Clean(h), NEW from, NEW S \in SUBSET (Ids \cup Hands),
         NEW kept \in SUBSET DOMAIN h.value
  PROVE  Clean(Given(h, from, S, kept))
<1> DEFINE new == S \X FieldsOf(h, from)
           g == Given(h, from, S, kept)
           source == [p \in kept \cup new |->
                        IF p \in new THEN [copy |-> DeepCopy(p[1]), of |-> <<from, p[2]>>] ELSE Kept(p)]
<1>1. g = Rebind(h, source)
  BY DEF Given
<1>2. new \subseteq (Ids \cup Hands) \X Fields
  BY DEF FieldsOf
<1>3. DOMAIN g.value = kept \cup new
  BY <1>1 DEF Rebind
<1>4. DOMAIN g.value \subseteq (Ids \cup Hands) \X Fields
  BY <1>2, <1>3 DEF Clean
<1>5. ASSUME NEW p \in DOMAIN g.value, p[1] \in Ids, NEW q \in g.alias[p]
      PROVE  q[1] = p[1]
  <2>0. p \in DOMAIN source /\ q \in Rebind(h, source).alias[p]
    BY <1>1, <1>3, <1>5
  <2>1. q \in kept \cup new /\ p \in kept \cup new
    <3>1. q \in DOMAIN source
      <4> HIDE DEF source
      <4> QED BY <2>0, RebindAlias
    <3> QED BY <2>0, <3>1
  <2>2. source[q].copy = source[p].copy /\ source[q].of \in h.alias[source[p].of]
    <3> HIDE DEF source
    <3> QED BY <2>0, RebindAlias
  <2>3. ASSUME NEW x \in kept \cup new
        PROVE  source[x].copy = IF x \in new THEN x[1] ELSE Itself
    BY <2>3 DEF DeepCopy, Kept
  <2>4. ASSUME NEW x \in new
        PROVE  x[1] # Itself
    BY <1>2, <2>4
  <2>5. CASE p \in new
    BY <2>1, <2>2, <2>3, <2>4, <2>5
  <2>6. CASE p \notin new
    <3>1. q \notin new
      BY <2>1, <2>2, <2>3, <2>4, <2>6
    <3>2. source[p].of = p /\ source[q].of = q
      BY <2>1, <2>6, <3>1 DEF Kept
    <3>3. q \in h.alias[p] /\ p \in DOMAIN h.value
      BY <2>1, <2>2, <2>6, <3>2
    <3> QED BY <1>5, <3>3 DEF Clean
  <2> QED BY <2>5, <2>6
<1> QED BY <1>4, <1>5 DEF Clean

\* A copy has the value of its original, and no other document changes.
LEMMA CopyValues ==
  ASSUME NEW h, NEW from, NEW to
  PROVE  /\ Value(Copy(h, from, to), to) = Value(h, from)
         /\ \A d : d # to => Value(Copy(h, from, to), d) = Value(h, d)
<1> DEFINE c == Copy(h, from, to)
           kept == Others(h, to)
<1>1. c = Given(h, from, {to}, kept) /\ kept \in SUBSET DOMAIN h.value
  BY DEF Copy, Others
<1>2. \A d, f : <<d, f>> \in kept <=> d # to /\ <<d, f>> \in DOMAIN h.value
  BY DEF Others
<1>3. ASSUME NEW d, NEW f \in Fields
      PROVE  LET new == d = to /\ f \in FieldsOf(h, from)
             IN  /\ <<d, f>> \in DOMAIN c.value <=> new \/ <<d, f>> \in kept
                 /\ new => c.value[<<d, f>>] = h.value[<<from, f>>]
                 /\ ~new /\ <<d, f>> \in kept => c.value[<<d, f>>] = h.value[<<d, f>>]
  <2> DEFINE S == {to}
  <2>1. d \in S <=> d = to
    OBVIOUS
  <2> HIDE DEF S, kept
  <2>2. LET g == Given(h, from, S, kept)
            new == d \in S /\ f \in FieldsOf(h, from)
        IN  /\ <<d, f>> \in DOMAIN g.value <=> new \/ <<d, f>> \in kept
            /\ new => g.value[<<d, f>>] = h.value[<<from, f>>]
            /\ ~new /\ <<d, f>> \in kept => g.value[<<d, f>>] = h.value[<<d, f>>]
    BY <1>1, GivenPlaces
  <2> QED BY <1>1, <2>1, <2>2 DEF S
<1> HIDE DEF c, kept
<1>4. Value(c, to) = Value(h, from)
  <2>1. FieldsOf(c, to) = FieldsOf(h, from)
    BY <1>2, <1>3 DEF FieldsOf
  <2>2. \A f \in FieldsOf(h, from) : c.value[<<to, f>>] = h.value[<<from, f>>]
    BY <1>3 DEF FieldsOf
  <2> QED BY <2>1, <2>2 DEF Value
<1>5. ASSUME NEW d, d # to
      PROVE  Value(c, d) = Value(h, d)
  <2>1. FieldsOf(c, d) = FieldsOf(h, d)
    BY <1>2, <1>3, <1>5 DEF FieldsOf
  <2>2. \A f \in FieldsOf(h, d) : c.value[<<d, f>>] = h.value[<<d, f>>]
    BY <1>2, <1>3, <1>5 DEF FieldsOf
  <2> QED BY <2>1, <2>2 DEF Value
<1> QED BY <1>4, <1>5 DEF c

LEMMA CopyClean ==
  ASSUME NEW h, Clean(h), NEW from, NEW to \in Ids \cup Hands
  PROVE  Clean(Copy(h, from, to))
<1>1. Others(h, to) \in SUBSET DOMAIN h.value
  BY DEF Others
<1> QED BY <1>1, GivenClean DEF Copy

\* An update changes the fields that it names in the documents that it names.
LEMMA MergeValues ==
  ASSUME NEW h, NEW from, NEW S
  PROVE  /\ \A d \in S : Value(Merge(h, from, S), d) = Over(Value(h, from), Value(h, d))
         /\ \A d : d \notin S => Value(Merge(h, from, S), d) = Value(h, d)
<1> DEFINE m == Merge(h, from, S)
<1>1. \A d : \A f \in Fields :
        LET new == d \in S /\ f \in FieldsOf(h, from)
        IN  /\ <<d, f>> \in DOMAIN m.value <=> new \/ <<d, f>> \in DOMAIN h.value
            /\ new => m.value[<<d, f>>] = h.value[<<from, f>>]
            /\ ~new /\ <<d, f>> \in DOMAIN h.value => m.value[<<d, f>>] = h.value[<<d, f>>]
  <2> TAKE d
  <2> TAKE f \in Fields
  <2>1. m = Given(h, from, S, DOMAIN h.value) /\ DOMAIN h.value \in SUBSET DOMAIN h.value
    BY DEF Merge
  <2> HIDE DEF m
  <2> QED BY <2>1, GivenPlaces
<1>2. ASSUME NEW d \in S
      PROVE  Value(m, d) = Over(Value(h, from), Value(h, d))
  <2>1. FieldsOf(m, d) = FieldsOf(h, from) \cup FieldsOf(h, d)
    BY <1>1 DEF FieldsOf
  <2>2. ASSUME NEW f \in FieldsOf(m, d)
        PROVE  m.value[<<d, f>>] = IF f \in FieldsOf(h, from) THEN h.value[<<from, f>>] ELSE h.value[<<d, f>>]
    BY <1>1, <2>1, <2>2 DEF FieldsOf
  <2> QED BY <2>1, <2>2 DEF Value, Over
<1>3. ASSUME NEW d, d \notin S
      PROVE  Value(m, d) = Value(h, d)
  <2>1. FieldsOf(m, d) = FieldsOf(h, d)
    BY <1>1, <1>3 DEF FieldsOf
  <2>2. \A f \in FieldsOf(h, d) : m.value[<<d, f>>] = h.value[<<d, f>>]
    BY <1>1, <1>3 DEF FieldsOf
  <2> QED BY <2>1, <2>2 DEF Value
<1> QED BY <1>2, <1>3

LEMMA MergeClean ==
  ASSUME NEW h, Clean(h), NEW from, NEW S \in SUBSET (Ids \cup Hands)
  PROVE  Clean(Merge(h, from, S))
<1>1. DOMAIN h.value \in SUBSET DOMAIN h.value
  OBVIOUS
<1> QED BY <1>1, GivenClean DEF Merge

\* A document that is dropped takes its places along, and nothing else changes.
LEMMA DroppedValues ==
  ASSUME NEW h, NEW d
  PROVE  /\ FieldsOf(Dropped(h, d), d) = {}
         /\ \A e : e # d => Value(Dropped(h, d), e) = Value(h, e)
<1> DEFINE n == Dropped(h, d)
<1>1. /\ DOMAIN n.value = Others(h, d)
      /\ \A p \in Others(h, d) : n.value[p] = h.value[p]
  BY DEF Dropped, Rebind, Kept
<1>2. \A e, f : <<e, f>> \in Others(h, d) <=> e # d /\ <<e, f>> \in DOMAIN h.value
  BY DEF Others
<1> HIDE DEF n
<1>3. FieldsOf(n, d) = {}
  BY <1>1, <1>2 DEF FieldsOf
<1>4. \A e : e # d => Value(n, e) = Value(h, e)
  BY <1>1, <1>2 DEF Value, FieldsOf
<1> QED BY <1>3, <1>4 DEF n

LEMMA DroppedClean ==
  ASSUME NEW h, Clean(h), NEW d
  PROVE  Clean(Dropped(h, d))
<1> DEFINE source == [p \in Others(h, d) |-> Kept(p)]
           n == Dropped(h, d)
<1>1. n = Rebind(h, source) /\ DOMAIN n.value = Others(h, d) /\ DOMAIN source = Others(h, d)
  BY DEF Dropped, Rebind
<1>2. \A p \in Others(h, d) : source[p].of = p
  BY DEF Kept
<1>3. ASSUME NEW p \in DOMAIN n.value, NEW q \in n.alias[p]
      PROVE  q \in h.alias[p] /\ p \in DOMAIN h.value
  <2> HIDE DEF source
  <2>1. p \in DOMAIN source /\ q \in Rebind(h, source).alias[p]
    BY <1>1, <1>3
  <2>2. q \in DOMAIN source /\ source[q].of \in h.alias[source[p].of]
    BY <2>1, RebindAlias
  <2> QED BY <1>1, <1>2, <2>1, <2>2 DEF Others
<1>4. DOMAIN n.value \subseteq (Ids \cup Hands) \X Fields
  BY <1>1 DEF Others, Clean
<1> HIDE DEF n
<1>5. Clean(n)
  BY <1>3, <1>4 DEF Clean
<1> QED BY <1>5 DEF n

-----------------------------------------------------------------------------
\* What an operation returns disturbs nothing in the state.
LEMMA Returning ==
  ASSUME NEW h, Clean(h), NEW i, BecomeReturning(h, i)
  PROVE  Clean(Heap)' /\ \A d \in Ids : Value(Heap, d)' = Value(h, d)
<1>1. CASE Become(h)
  <2>1. value' = h.value /\ alias' = h.alias
    BY <1>1 DEF Become
  <2> QED BY <2>1 DEF Clean, Heap, Value, FieldsOf
<1>2. CASE \E r \in Hands : Become(Copy(h, i, r))
  <2>1. PICK r \in Hands : Become(Copy(h, i, r))
    BY <1>2
  <2> DEFINE c == Copy(h, i, r)
  <2>2. Clean(c) /\ \A d \in Ids : Value(c, d) = Value(h, d)
    BY CopyClean, CopyValues
  <2>3. value' = c.value /\ alias' = c.alias
    BY <2>1 DEF Become
  <2> HIDE DEF c
  <2>4. Clean(Heap)' /\ \A d \in Ids : Value(Heap, d)' = Value(c, d)
    BY <2>2, <2>3 DEF Clean, Heap, Value, FieldsOf
  <2> QED BY <2>2, <2>4
<1> QED BY <1>1, <1>2 DEF BecomeReturning

LEMMA Becoming ==
  ASSUME NEW h, Clean(h), Become(h)
  PROVE  Clean(Heap)' /\ \A d \in Ids : Value(Heap, d)' = Value(h, d)
BY Returning DEF BecomeReturning

\* The state is what was written, before a step and after it.
LEMMA StateByValues ==
  ASSUME StateIsWhatWasWritten
  PROVE  /\ DOMAIN written \subseteq Ids
         /\ \A i \in Ids : i \in DOMAIN written <=> DOMAIN Value(Heap, i) # {}
         /\ \A i \in DOMAIN written : Value(Heap, i) = written[i]
<1>1. \A i : DOMAIN Value(Heap, i) = FieldsOf(Heap, i)
  BY DEF Value
<1> QED BY <1>1 DEF StateIsWhatWasWritten, Stored

LEMMA WrittenNext ==
  ASSUME NEW h,
         \A d \in Ids : Value(Heap, d)' = Value(h, d),
         DOMAIN written' \subseteq Ids,
         \A i \in Ids : i \in DOMAIN written' <=> DOMAIN Value(h, i) # {},
         \A i \in DOMAIN written' : Value(h, i) = written'[i]
  PROVE  StateIsWhatWasWritten'
<1>1. \A i : DOMAIN Value(Heap, i)' = FieldsOf(Heap, i)'
  BY DEF Value
<1> QED BY <1>1 DEF StateIsWhatWasWritten, Stored

LEMMA HeldValue ==
  ASSUME NEW d \in Held
  PROVE  d \in Hands /\ DOMAIN Value(Heap, d) # {}
BY DEF Held, Value

-----------------------------------------------------------------------------
LEMMA InitHolds == Init => IInv
<1> SUFFICES ASSUME Init PROVE IInv
  OBVIOUS
<1>1. DOMAIN value = {} /\ DOMAIN written = {}
  BY DEF Init, Empty
<1>2. Clean(Heap)
  BY <1>1 DEF Clean, Heap
<1>3. Stored = {}
  BY <1>1 DEF Stored, FieldsOf, Heap
<1> QED BY <1>1, <1>2, <1>3 DEF IInv, StateIsWhatWasWritten

LEMMA StoreKeeps ==
  ASSUME IInv, Store
  PROVE  IInv'
<1>1. PICK i \in Ids, d \in Held :
        /\ written' = [j \in DOMAIN written \cup {i} |-> IF j = i THEN Value(Heap, d) ELSE written[j]]
        /\ BecomeReturning(Copy(Heap, d, i), i)
  BY DEF Store
<1> DEFINE h == Copy(Heap, d, i)
<1>2. Clean(h)
  BY CopyClean DEF IInv
<1>3. Value(h, i) = Value(Heap, d) /\ \A e : e # i => Value(h, e) = Value(Heap, e)
  BY CopyValues
<1>4. DOMAIN Value(Heap, d) # {}
  BY HeldValue
<1> HIDE DEF h
<1>5. Clean(Heap)' /\ \A e \in Ids : Value(Heap, e)' = Value(h, e)
  BY <1>1, <1>2, Returning DEF h
<1>6. StateIsWhatWasWritten'
  BY <1>1, <1>3, <1>4, <1>5, StateByValues, WrittenNext DEF IInv
<1> QED BY <1>5, <1>6 DEF IInv

LEMMA StoreTwoKeeps ==
  ASSUME IInv, StoreTwo
  PROVE  IInv'
<1>1. PICK i, j \in Ids, d, e \in Held :
        /\ i # j
        /\ written' = [k \in DOMAIN written \cup {i, j} |->
                         IF k = i THEN Value(Heap, d) ELSE IF k = j THEN Value(Heap, e) ELSE written[k]]
        /\ Become(Copy(Copy(Heap, d, i), e, j))
  BY DEF StoreTwo
<1> DEFINE g == Copy(Heap, d, i)
           h == Copy(g, e, j)
<1>2. Clean(g) /\ Clean(h)
  BY CopyClean DEF IInv
<1>3. /\ Value(g, i) = Value(Heap, d)
      /\ \A k : k # i => Value(g, k) = Value(Heap, k)
  BY CopyValues
<1> HIDE DEF g
<1>4. /\ Value(h, j) = Value(g, e)
      /\ \A k : k # j => Value(h, k) = Value(g, k)
  BY CopyValues
<1> HIDE DEF h
<1>5. /\ DOMAIN Value(Heap, d) # {} /\ DOMAIN Value(Heap, e) # {}
      /\ e # i
  BY HeldValue
<1>6. /\ Value(h, i) = Value(Heap, d) /\ Value(h, j) = Value(Heap, e)
      /\ \A k : k \notin {i, j} => Value(h, k) = Value(Heap, k)
  BY <1>1, <1>3, <1>4, <1>5
<1>7. Clean(Heap)' /\ \A k \in Ids : Value(Heap, k)' = Value(h, k)
  BY <1>1, <1>2, Becoming DEF g, h
<1>8. StateIsWhatWasWritten'
  BY <1>1, <1>5, <1>6, <1>7, StateByValues, WrittenNext DEF IInv
<1> QED BY <1>7, <1>8 DEF IInv

LEMMA UpdateKeeps ==
  ASSUME IInv, Update
  PROVE  IInv'
<1>1. PICK S \in SUBSET Stored, i \in Stored, d \in Held :
        /\ written' = [j \in DOMAIN written |->
                         IF j \in S THEN Over(Value(Heap, d), written[j]) ELSE written[j]]
        /\ BecomeReturning(Merge(Heap, d, S), i)
  BY DEF Update
<1> DEFINE h == Merge(Heap, d, S)
<1>2. S \in SUBSET (Ids \cup Hands) /\ S \subseteq DOMAIN written
  BY DEF IInv, StateIsWhatWasWritten, Stored
<1>3. Clean(h)
  BY <1>2, MergeClean DEF IInv
<1>4. /\ \A j \in S : Value(h, j) = Over(Value(Heap, d), Value(Heap, j))
      /\ \A j : j \notin S => Value(h, j) = Value(Heap, j)
  BY MergeValues
<1> HIDE DEF h
<1>5. Clean(Heap)' /\ \A j \in Ids : Value(Heap, j)' = Value(h, j)
  BY <1>1, <1>3, Returning DEF h
<1>6. \A j \in S : DOMAIN Value(h, j) # {}
  BY <1>4, HeldValue DEF Over
<1>7. StateIsWhatWasWritten'
  BY <1>1, <1>2, <1>4, <1>5, <1>6, StateByValues, WrittenNext DEF IInv
<1> QED BY <1>5, <1>7 DEF IInv

LEMMA ReadKeeps ==
  ASSUME IInv, Read
  PROVE  IInv'
<1>1. PICK i \in Stored, r \in Hands : Become(Copy(Heap, i, r)) /\ UNCHANGED written
  BY DEF Read
<1> DEFINE h == Copy(Heap, i, r)
<1>2. Clean(h)
  BY CopyClean DEF IInv
<1>3. \A e \in Ids : Value(h, e) = Value(Heap, e)
  BY CopyValues
<1> HIDE DEF h
<1>4. Clean(Heap)' /\ \A e \in Ids : Value(Heap, e)' = Value(h, e)
  BY <1>1, <1>2, Becoming DEF h
<1>5. StateIsWhatWasWritten'
  BY <1>1, <1>3, <1>4, StateByValues, WrittenNext DEF IInv
<1> QED BY <1>4, <1>5 DEF IInv

LEMMA DeleteKeeps ==
  ASSUME IInv, Delete
  PROVE  IInv'
<1>1. PICK i \in Stored : /\ Become(Dropped(Heap, i))
                          /\ written' = [j \in DOMAIN written \ {i} |-> written[j]]
  BY DEF Delete
<1> DEFINE h == Dropped(Heap, i)
<1>2. Clean(h)
  BY DroppedClean DEF IInv
<1>3. FieldsOf(h, i) = {} /\ \A e : e # i => Value(h, e) = Value(Heap, e)
  BY DroppedValues
<1> HIDE DEF h
<1>4. DOMAIN Value(h, i) = {}
  BY <1>3 DEF Value
<1>5. Clean(Heap)' /\ \A e \in Ids : Value(Heap, e)' = Value(h, e)
  BY <1>1, <1>2, Becoming DEF h
<1>6. StateIsWhatWasWritten'
  BY <1>1, <1>3, <1>4, <1>5, StateByValues, WrittenNext DEF IInv
<1> QED BY <1>5, <1>6 DEF IInv

\* A list that the caller makes.
LEMMA NewListKeeps ==
  ASSUME NEW h, Clean(h), NEW r \in Hands, NEW f \in Fields, NEW c
  PROVE  /\ Clean(NewList(h, <<r, f>>, c))
         /\ \A d \in Ids : Value(NewList(h, <<r, f>>, c), d) = Value(h, d)
<1> DEFINE n == NewList(h, <<r, f>>, c)
<1>1. /\ DOMAIN n.value = DOMAIN h.value \cup {<<r, f>>}
      /\ \A p \in DOMAIN h.value : p # <<r, f>> => n.value[p] = h.value[p] /\ n.alias[p] \subseteq h.alias[p]
  BY DEF NewList
<1> HIDE DEF n
<1>2. \A d \in Ids : d # r
  OBVIOUS
<1>3. Clean(n)
  <2>1. <<r, f>>[1] \notin Ids
    BY <1>2
  <2> QED BY <1>1, <2>1 DEF Clean
<1>4. \A d \in Ids : Value(n, d) = Value(h, d)
  <2> TAKE d \in Ids
  <2>1. \A g : <<d, g>> # <<r, f>>
    BY <1>2
  <2> QED BY <1>1, <2>1 DEF Value, FieldsOf
<1> QED BY <1>3, <1>4 DEF n

LEMMA MakeKeeps ==
  ASSUME IInv, Make
  PROVE  IInv'
<1>1. PICK r \in Hands, f \in Fields, c \in Contents : \E h \in {Heap, Dropped(Heap, r)} :
        Become(NewList(h, <<r, f>>, c)) /\ UNCHANGED written
  BY DEF Make
<1>2. PICK h \in {Heap, Dropped(Heap, r)} : Become(NewList(h, <<r, f>>, c)) /\ UNCHANGED written
  BY <1>1
<1>3. Clean(h) /\ \A d \in Ids : Value(h, d) = Value(Heap, d)
  <2>1. \A d \in Ids : d # r
    OBVIOUS
  <2> QED BY <2>1, DroppedClean, DroppedValues DEF IInv
<1> DEFINE n == NewList(h, <<r, f>>, c)
<1>4. Clean(n) /\ \A d \in Ids : Value(n, d) = Value(Heap, d)
  BY <1>3, NewListKeeps
<1> HIDE DEF n
<1>5. Clean(Heap)' /\ \A d \in Ids : Value(Heap, d)' = Value(n, d)
  BY <1>2, <1>4, Becoming DEF n
<1>6. StateIsWhatWasWritten'
  BY <1>2, <1>4, <1>5, StateByValues, WrittenNext DEF IInv
<1> QED BY <1>5, <1>6 DEF IInv

\* A list of the caller is at no place of the state, so changing it there shows nothing.
LEMMA ListChangedKeeps ==
  ASSUME NEW h, Clean(h), h = [value |-> h.value, alias |-> h.alias],
         NEW r \in Hands, NEW f, NEW c
  PROVE  /\ Clean(ListChanged(h, <<r, f>>, c))
         /\ \A d \in Ids : Value(ListChanged(h, <<r, f>>, c), d) = Value(h, d)
<1> DEFINE n == ListChanged(h, <<r, f>>, c)
<1>1. /\ DOMAIN n.value = DOMAIN h.value
      /\ n.alias = h.alias
      /\ \A p \in DOMAIN h.value : <<r, f>> \notin h.alias[p] => n.value[p] = h.value[p]
  BY DEF ListChanged
<1> HIDE DEF n
<1>2. Clean(n)
  BY <1>1 DEF Clean
<1>3. ASSUME NEW d \in Ids
      PROVE  Value(n, d) = Value(h, d)
  <2>1. ASSUME NEW g \in FieldsOf(h, d)
        PROVE  n.value[<<d, g>>] = h.value[<<d, g>>]
    <3>1. <<d, g>> \in DOMAIN h.value /\ <<d, g>>[1] = d /\ <<r, f>>[1] = r /\ d # r
      BY <2>1 DEF FieldsOf
    <3>2. <<r, f>> \notin h.alias[<<d, g>>]
      BY <3>1 DEF Clean
    <3> QED BY <1>1, <3>1, <3>2
  <2>2. FieldsOf(n, d) = FieldsOf(h, d)
    BY <1>1 DEF FieldsOf
  <2> QED BY <2>1, <2>2 DEF Value
<1> QED BY <1>2, <1>3 DEF n

\* Nor does another reference of the caller to it.
LEMMA LinkedKeeps ==
  ASSUME NEW h, Clean(h), NEW r \in Hands, NEW f, NEW e \in Hands, NEW g \in Fields
  PROVE  /\ Clean(Linked(h, <<r, f>>, <<e, g>>))
         /\ \A d \in Ids : Value(Linked(h, <<r, f>>, <<e, g>>), d) = Value(h, d)
<1> DEFINE to == <<e, g>>
           source == [q \in DOMAIN h.value \cup {to} |-> IF q = to THEN Kept(<<r, f>>) ELSE Kept(q)]
           n == Linked(h, <<r, f>>, to)
<1>1. /\ n = Rebind(h, source)
      /\ DOMAIN source = DOMAIN h.value \cup {to} /\ DOMAIN n.value = DOMAIN source
  BY DEF Linked, Rebind
<1>2. /\ source[to].of = <<r, f>>
      /\ \A q \in DOMAIN h.value : q # to => source[q].of = q /\ n.value[q] = h.value[q]
  BY DEF Linked, Rebind, Kept
<1>3. \A d \in Ids : d # r /\ d # e
  OBVIOUS
<1>4. to[1] = e /\ <<r, f>>[1] = r
  OBVIOUS
<1>5. ASSUME NEW p \in DOMAIN n.value, p[1] \in Ids, NEW q \in n.alias[p]
      PROVE  q[1] = p[1]
  <2> HIDE DEF source, to, n
  <2>1. p \in DOMAIN source /\ q \in Rebind(h, source).alias[p]
    BY <1>1, <1>5
  <2>2. q \in DOMAIN source /\ source[q].of \in h.alias[source[p].of]
    BY <2>1, RebindAlias
  <2>3. p # to /\ p \in DOMAIN h.value /\ source[p].of = p
    BY <1>1, <1>2, <1>3, <1>4, <1>5
  <2>4. source[q].of[1] = p[1]
    BY <1>5, <2>2, <2>3 DEF Clean
  <2>5. q # to
    BY <1>2, <1>3, <1>4, <1>5, <2>4
  <2> QED BY <1>1, <1>2, <2>2, <2>4, <2>5
<1>6. DOMAIN n.value \subseteq (Ids \cup Hands) \X Fields
  BY <1>1 DEF Clean
<1>7. ASSUME NEW d \in Ids
      PROVE  Value(n, d) = Value(h, d)
  <2>1. \A k : <<d, k>> # to
    BY <1>3
  <2> HIDE DEF source, to, n
  <2>2. FieldsOf(n, d) = FieldsOf(h, d)
    BY <1>1, <2>1 DEF FieldsOf
  <2> QED BY <1>2, <2>1, <2>2 DEF Value, FieldsOf
<1> HIDE DEF n
<1>8. Clean(n)
  BY <1>5, <1>6 DEF Clean
<1> QED BY <1>7, <1>8 DEF n

LEMMA ChangeKeeps ==
  ASSUME IInv, Change
  PROVE  IInv'
<1>1. PICK d \in Held : \E f \in FieldsOf(Heap, d) :
        /\ \/ \E c \in Contents : Become(ListChanged(Heap, <<d, f>>, c))
           \/ \E e \in Hands, g \in Fields : Become(Linked(Heap, <<d, f>>, <<e, g>>))
        /\ UNCHANGED written
  BY DEF Change
<1>2. PICK f \in FieldsOf(Heap, d) :
        /\ \/ \E c \in Contents : Become(ListChanged(Heap, <<d, f>>, c))
           \/ \E e \in Hands, g \in Fields : Become(Linked(Heap, <<d, f>>, <<e, g>>))
        /\ UNCHANGED written
  BY <1>1
<1>3. d \in Hands /\ Clean(Heap) /\ Heap = [value |-> Heap.value, alias |-> Heap.alias]
  BY HeldValue DEF IInv, Heap
<1>4. Clean(Heap)' /\ \A k \in Ids : Value(Heap, k)' = Value(Heap, k)
  <2>1. CASE \E c \in Contents : Become(ListChanged(Heap, <<d, f>>, c))
    <3>1. PICK c \in Contents : Become(ListChanged(Heap, <<d, f>>, c))
      BY <2>1
    <3> QED BY <1>3, <3>1, ListChangedKeeps, Becoming
  <2>2. CASE \E e \in Hands, g \in Fields : Become(Linked(Heap, <<d, f>>, <<e, g>>))
    <3>1. PICK e \in Hands, g \in Fields : Become(Linked(Heap, <<d, f>>, <<e, g>>))
      BY <2>2
    <3> QED BY <1>3, <3>1, LinkedKeeps, Becoming
  <2> QED BY <1>2, <2>1, <2>2
<1>5. StateIsWhatWasWritten'
  BY <1>2, <1>4, StateByValues, WrittenNext DEF IInv
<1> QED BY <1>4, <1>5 DEF IInv

-----------------------------------------------------------------------------
\* The invariant holds throughout.
LEMMA Inductive == Spec => []IInv
<1>1. IInv /\ [Next]_vars => IInv'
  <2> SUFFICES ASSUME IInv, [Next]_vars PROVE IInv'
    OBVIOUS
  <2>1. CASE UNCHANGED vars
    BY <2>1 DEF IInv, Clean, StateIsWhatWasWritten, Stored, Value, FieldsOf, Heap, vars
  <2> QED BY <2>1, StoreKeeps, StoreTwoKeeps, UpdateKeeps, ReadKeeps, DeleteKeeps, MakeKeeps,
             ChangeKeeps DEF Next
<1> QED BY <1>1, InitHolds, PTL DEF Spec

\* The working state of a transaction is what its operations were given, whatever its
\* caller does to its own objects in between (collection.py).
THEOREM StateIsWhatWasWrittenHolds == Spec => []StateIsWhatWasWritten
<1>1. IInv => StateIsWhatWasWritten
  BY DEF IInv
<1> QED BY <1>1, Inductive, PTL
=============================================================================
