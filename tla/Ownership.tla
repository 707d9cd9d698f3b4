----------------------------- MODULE Ownership -----------------------------
(***************************************************************************)
(* Who shares mutable objects with whom: a caller, and the working state of    *)
(* its transaction.  Collection speaks of values; here a document is a         *)
(* dictionary whose fields refer to list objects, and whoever refers to a      *)
(* list can change it.  Each operation of collection.py that takes a document  *)
(* or gives one back is an action with its deep copies.  A dictionary that is   *)
(* itself shared shows in the lists that its fields share.                    *)
(*                                                                         *)
(* A place is <<document, field>>.  Lists have no names: a heap says what is    *)
(* in the list of each place, and which places refer to the same list.         *)
(***************************************************************************)
CONSTANTS
  Ids,          \* document ids of the transaction
  Hands,        \* the caller's variables
  Fields,       \* names of fields
  Contents,     \* contents of a list
  Itself        \* no copy

ASSUME OwnershipAssumption ==
  /\ Ids \cap Hands = {}
  /\ Itself \notin Ids \cup Hands

VARIABLES
  value,        \* the contents of the list at each place
  alias,        \* the places that refer to the list of a place
  written       \* history: the documents as the operations were given them

vars == <<value, alias, written>>

Heap == [value |-> value, alias |-> alias]

\* A document as its reader sees it; one that exists has some field.
FieldsOf(h, d) == {f \in Fields : <<d, f>> \in DOMAIN h.value}
Value(h, d) == [f \in FieldsOf(h, d) |-> h.value[<<d, f>>]]
Stored == {i \in Ids : FieldsOf(Heap, i) # {}}
Held == {r \in Hands : FieldsOf(Heap, r) # {}}

-----------------------------------------------------------------------------
\* Changing a heap

\* source says of each place that there is afterwards which list it refers to: the list
\* of an old place itself, or its copy in one of the deep copies that are made.
Rebind(h, source) ==
  [value |-> [p \in DOMAIN source |-> h.value[source[p].of]],
   alias |-> [p \in DOMAIN source |->
                {q \in DOMAIN source :
                   source[q].copy = source[p].copy /\ source[q].of \in h.alias[source[p].of]}]]

Kept(p) == [copy |-> Itself, of |-> p]
Others(h, d) == {p \in DOMAIN h.value : p[1] # d}
Dropped(h, d) == Rebind(h, [p \in Others(h, d) |-> Kept(p)])

\* copy.deepcopy(), named for the document that it is made for: a list that is held
\* twice stays one list, shared with no other copy.
DeepCopy(to) == to

\* Each document of S gets deep copies of the fields of one document; the lists at the
\* places in kept stay where they are not replaced.
Given(h, from, S, kept) ==
  LET new == S \X FieldsOf(h, from)
  IN  Rebind(h, [p \in kept \cup new |->
                   IF p \in new THEN [copy |-> DeepCopy(p[1]), of |-> <<from, p[2]>>] ELSE Kept(p)])

\* Variant of Merge: the same lists for all documents, and for the one who gives them.
MergeAsGiven(h, from, S) ==
  LET new == S \X FieldsOf(h, from)
  IN  Rebind(h, [p \in DOMAIN h.value \cup new |-> IF p \in new THEN Kept(<<from, p[2]>>) ELSE Kept(p)])

\* document.update(copy.deepcopy(updates)) for each document of S
Merge(h, from, S) == Given(h, from, S, DOMAIN h.value)

\* A deep copy that becomes document to.
Copy(h, from, to) == Given(h, from, {to}, Others(h, to))

\* A new list, in a document of the caller.
NewList(h, p, c) ==
  [value |-> [q \in DOMAIN h.value \cup {p} |-> IF q = p THEN c ELSE h.value[q]],
   alias |-> [q \in DOMAIN h.value \cup {p} |-> IF q = p THEN {p} ELSE h.alias[q] \ {p}]]

\* A list that is changed in place, for all that refer to it.
ListChanged(h, p, c) == [h EXCEPT !.value = [q \in DOMAIN @ |-> IF p \in h.alias[q] THEN c ELSE @[q]]]

Linked(h, p, to) == Rebind(h, [q \in DOMAIN h.value \cup {to} |-> IF q = to THEN Kept(p) ELSE Kept(q)])

Become(h) == value' = h.value /\ alias' = h.alias
\* What an operation does, and maybe what it returns: a copy of document i.
BecomeReturning(h, i) == Become(h) \/ \E r \in Hands : Become(Copy(h, i, r))

\* The fields of new over those of old, as dict.update() puts them.
Over(new, old) ==
  [f \in DOMAIN new \cup DOMAIN old |-> IF f \in DOMAIN new THEN new[f] ELSE old[f]]

-----------------------------------------------------------------------------
\* The operations of a transaction on what the caller holds

\* insert(), upsert(), and replace(), which returns a copy of what it stored.
Store ==
  \E i \in Ids, d \in Held :
    /\ written' = [j \in DOMAIN written \cup {i} |-> IF j = i THEN Value(Heap, d) ELSE written[j]]
    /\ BecomeReturning(Copy(Heap, d, i), i)

\* bulk_insert(), maybe of one dictionary twice.
StoreTwo ==
  \E i, j \in Ids, d, e \in Held :
    /\ i # j
    /\ written' = [k \in DOMAIN written \cup {i, j} |->
                     IF k = i THEN Value(Heap, d) ELSE IF k = j THEN Value(Heap, e) ELSE written[k]]
    /\ Become(Copy(Copy(Heap, d, i), e, j))

\* update(), which returns a copy, and bulk_update() with one dictionary for several documents.
Update ==
  \E S \in SUBSET Stored, i \in Stored, d \in Held :
    /\ i \in S
    /\ written' = [j \in DOMAIN written |->
                     IF j \in S THEN Over(Value(Heap, d), written[j]) ELSE written[j]]
    /\ BecomeReturning(Merge(Heap, d, S), i)

\* Variant of Read: the lists of the document itself are handed out.
ReadReference ==
  \E i \in Stored, r \in Hands :
    /\ Become(Rebind(Heap, [p \in Others(Heap, r) \cup ({r} \X FieldsOf(Heap, i)) |->
                              IF p[1] = r THEN Kept(<<i, p[2]>>) ELSE Kept(p)]))
    /\ UNCHANGED written

\* get(), one document of all(), find(), dump() or tx.state, or what a predicate of
\* where() is given and may keep.
Read == \E i \in Stored, r \in Hands : Become(Copy(Heap, i, r)) /\ UNCHANGED written

Delete ==
  \E i \in Stored :
    /\ Become(Dropped(Heap, i))
    /\ written' = [j \in DOMAIN written \ {i} |-> written[j]]

-----------------------------------------------------------------------------
\* What the caller does with its own objects

\* A list in a new dictionary, or in one that it has.
Make ==
  \E r \in Hands, f \in Fields, c \in Contents : \E h \in {Heap, Dropped(Heap, r)} :
    Become(NewList(h, <<r, f>>, c)) /\ UNCHANGED written

\* A list is changed in place, or put into a document or under another name.
Change ==
  \E d \in Held : \E f \in FieldsOf(Heap, d) :
    /\ \/ \E c \in Contents : Become(ListChanged(Heap, <<d, f>>, c))
       \/ \E e \in Hands, g \in Fields : Become(Linked(Heap, <<d, f>>, <<e, g>>))
    /\ UNCHANGED written

Empty == [p \in {} |-> Itself]
Init == value = Empty /\ alias = Empty /\ written = Empty

Next == Store \/ StoreTwo \/ Update \/ Read \/ Delete \/ Make \/ Change

Spec == Init /\ [][Next]_vars

-----------------------------------------------------------------------------
\* A transaction commits what its operations were given, at the time they were called:
\* nothing that a caller does later to a document that it passed in or got back changes
\* the working state, and no operation on one document changes another.
StateIsWhatWasWritten ==
  /\ Stored = DOMAIN written
  /\ \A i \in Stored : Value(Heap, i) = written[i]
=============================================================================
