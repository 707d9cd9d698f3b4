----------------------------- MODULE LoadProofs -----------------------------
(***************************************************************************)
(* Proofs about module Load and the walks of module Serializer, for every      *)
(* nesting of values: what was stored is loaded again, damage is seen and      *)
(* stays, and the exit codes tell it.                                        *)
(***************************************************************************)
EXTENDS Load, FiniteSetTheorems, TLAPS

\* Every non-empty set of natural numbers has a least element: the sets 1..n of its
\* elements n have one that contains no other, as strict inclusion is well founded.
LEMMA LeastNumber ==
  ASSUME NEW S \in SUBSET Nat, S # {}
  PROVE  \E x \in S : \A y \in S : x <= y
<1> DEFINE T == {1..n : n \in S}
<1>1. T \subseteq FiniteSubsetsOf(Nat)
  BY FS_Interval DEF FiniteSubsetsOf
<1>2. IsWellFoundedOn(StrictSubsetOrdering(Nat), FiniteSubsetsOf(Nat))
  BY FS_StrictSubsetOrderingWellFounded
<1>3. T # {}
  OBVIOUS
<1> HIDE DEF T
<1>4. \E x \in T : \A y \in T : ~ (<<y, x>> \in StrictSubsetOrdering(Nat))
  BY <1>1, <1>2, <1>3, WFMin
<1> USE DEF T
<1>5. PICK x \in S : \A y \in S : ~ (<<1..y, 1..x>> \in StrictSubsetOrdering(Nat))
  BY <1>4
<1>6. ASSUME NEW y \in S, y < x PROVE FALSE
  <2>1. /\ 1..y \in SUBSET Nat /\ 1..x \in SUBSET Nat /\ 1..y \subseteq 1..x
        /\ x \in 1..x /\ x \notin 1..y
    BY <1>6
  <2>. QED
    BY <1>5, <2>1 DEF StrictSubsetOrdering
<1>. QED
  BY <1>6

-----------------------------------------------------------------------------
\* The depths and the parts of a value, and induction over them

\* The layers of a value, as a function, are the ones that its recursion says.
LEMMA LayersUnfold ==
  ASSUME NEW v, NEW D, NEW g, g = [n \in D |-> IF n = 0 THEN {v} ELSE Inside(g[n - 1])]
  PROVE  \A k \in D : g[k] = IF k = 0 THEN {v} ELSE Inside(g[k - 1])
  BY Zenon

\* Below() is the function that its definition says, and depth n + 1 of a value is depth n
\* of its children.
LEMMA BelowFacts ==
  ASSUME NEW v
  PROVE  /\ Below(v)[0] = {v}
         /\ \A n \in 0..MaxNesting : Below(v)[n + 1] = UNION {Children(p) : p \in Below(v)[n]}
<1> USE NestingAssumption
<1> DEFINE N == MaxNesting + 1
           Def(g, m) == [n \in 0..m |-> IF n = 0 THEN {v} ELSE Inside(g[n - 1])]
           Bad == {m \in 0..N : ~ \E g : g = Def(g, m)}
<1>1. Bad = {}
  <2> SUFFICES ASSUME Bad # {} PROVE FALSE
    OBVIOUS
  <2>1. PICK m \in Bad : \A l \in Bad : m <= l
    <3>1. Bad \in SUBSET Nat
      OBVIOUS
    <3>. HIDE DEF Bad
    <3>. QED
      BY <3>1, LeastNumber
  <2>2. CASE m = 0
    <3> DEFINE g == [n \in 0..0 |-> {v}]
    <3>1. g = Def(g, 0)
      OBVIOUS
    <3>. QED
      BY <2>1, <2>2, <3>1
  <2>3. CASE m # 0
    <3>1. m - 1 \in 0..N /\ m - 1 \notin Bad
      <4>1. m \in 0..N
        OBVIOUS
      <4>. HIDE DEF Bad
      <4>. QED
        BY <2>1, <2>3, <4>1
    <3>2. PICK g : g = Def(g, m - 1)
      BY <3>1
    <3> DEFINE last == Inside(g[m - 1])
               h == [n \in 0..m |-> IF n = m THEN last ELSE g[n]]
    <3>3. h = Def(h, m)
      <4>0. m \in 0..N
        OBVIOUS
      <4>1. ASSUME NEW n \in 0..m PROVE h[n] = Def(h, m)[n]
        <5>1. CASE n = m
          <6>1. h[n - 1] = g[n - 1]
            BY <2>3, <4>0, <5>1
          <6>. QED
            BY <2>3, <4>0, <5>1, <6>1
        <5>2. CASE n # m
          <6>0. \A k \in 0..(m - 1) : g[k] = IF k = 0 THEN {v} ELSE Inside(g[k - 1])
            <7>1. g = [k \in 0..(m - 1) |-> IF k = 0 THEN {v} ELSE Inside(g[k - 1])]
              BY <3>2, Zenon
            <7>. HIDE <3>2
            <7>. QED
              BY <7>1, LayersUnfold, Zenon
          <6>1. g[n] = IF n = 0 THEN {v} ELSE Inside(g[n - 1])
            <7>1. n \in 0..(m - 1)
              BY <2>3, <4>0, <5>2
            <7>. QED
              BY <6>0, <7>1, Zenon
          <6>2. n # 0 => h[n - 1] = g[n - 1]
            BY <4>0, <5>2
          <6>. QED
            BY <2>3, <4>0, <5>2, <6>1, <6>2
        <5>. QED
          BY <5>1, <5>2
      <4>. QED
        BY <4>1
    <3>. QED
      BY <2>1, <3>3
  <2>. QED
    BY <2>2, <2>3
<1>2. \E g : g = Def(g, N)
  <2>1. N \in 0..N
    OBVIOUS
  <2>. QED
    BY <1>1, <2>1
<1>3. Below(v) = Def(Below(v), N)
  BY <1>2 DEF Below
<1>4. \A n \in 0..N : Below(v)[n] = IF n = 0 THEN {v} ELSE Inside(Below(v)[n - 1])
  <2>1. Below(v) = [n \in 0..N |-> IF n = 0 THEN {v} ELSE Inside(Below(v)[n - 1])]
    BY <1>3, Zenon
  <2> HIDE DEF N
  <2>. QED
    BY <2>1, LayersUnfold, Zenon
<1>5. 0 \in 0..N /\ Below(v)[0] = {v}
  BY <1>4
<1>6. ASSUME NEW n \in 0..MaxNesting PROVE Below(v)[n + 1] = Inside(Below(v)[n])
  <2>1. n + 1 \in 0..N /\ n + 1 # 0 /\ (n + 1) - 1 = n
    OBVIOUS
  <2>. QED
    BY <1>4, <2>1
<1>. QED
  BY <1>5, <1>6 DEF Inside

\* Nothing of a value is at depth n or deeper.
Shallow(n, v) == Below(v)[n] = {}
\* The depths at which a value that fits may have parts, and one more.
Depths == 0..(MaxNesting + 1)

\* What is at depth n + 1 of a value is at depth n of its children.
LEMMA BelowOfChildren ==
  ASSUME NEW v, NEW n \in 0..MaxNesting
  PROVE  Below(v)[n + 1] = UNION {Below(c)[n] : c \in Children(v)}
<1> USE NestingAssumption
<1> DEFINE Bad == {m \in 0..MaxNesting : Below(v)[m + 1] # UNION {Below(c)[m] : c \in Children(v)}}
<1>1. Bad = {}
  <2> SUFFICES ASSUME Bad # {} PROVE FALSE
    OBVIOUS
  <2>1. PICK m \in Bad : \A l \in Bad : m <= l
    <3>1. Bad \in SUBSET Nat
      OBVIOUS
    <3>. HIDE DEF Bad
    <3>. QED
      BY <3>1, LeastNumber
  <2>0. m \in 0..MaxNesting
    OBVIOUS
  <2>2. CASE m = 0
    <3>1. Below(v)[1] = Children(v)
      <4>1. Below(v)[0] = {v} /\ Below(v)[0 + 1] = UNION {Children(p) : p \in Below(v)[0]}
        BY BelowFacts
      <4>. QED
        BY <4>1
    <3>2. \A c \in Children(v) : Below(c)[0] = {c}
      BY BelowFacts
    <3>. QED
      BY <2>1, <2>2, <3>1, <3>2
  <2>3. CASE m # 0
    <3>1. m - 1 \in 0..MaxNesting /\ m - 1 \notin Bad
      <4>. HIDE DEF Bad
      <4>. QED
        BY <2>0, <2>1, <2>3
    <3>2. Below(v)[m] = UNION {Below(c)[m - 1] : c \in Children(v)}
      BY <2>0, <3>1
    <3>3. Below(v)[m + 1] = UNION {Children(p) : p \in Below(v)[m]}
      BY <2>0, BelowFacts
    <3>4. \A c \in Children(v) : Below(c)[m] = UNION {Children(p) : p \in Below(c)[m - 1]}
      <4>1. m - 1 \in 0..MaxNesting /\ (m - 1) + 1 = m
        BY <2>0, <3>1
      <4>. QED
        BY <4>1, BelowFacts
    <3>5. Below(v)[m + 1] = UNION {Below(c)[m] : c \in Children(v)}
      BY <3>2, <3>3, <3>4
    <3>. QED
      BY <3>5
  <2>. QED
    BY <2>2, <2>3
<1>. QED
  BY <1>1

\* A value is at most as deep as n + 1 when its children are at most as deep as n.
LEMMA ShallowFacts ==
  ASSUME NEW v
  PROVE  /\ ~ Shallow(0, v)
         /\ \A n \in 0..MaxNesting : Shallow(n + 1, v) <=> \A c \in Children(v) : Shallow(n, c)
         /\ \A n \in 0..MaxNesting : Shallow(n, v) => Shallow(n + 1, v)
<1>1. ~ Shallow(0, v)
  BY BelowFacts DEF Shallow
<1>2. ASSUME NEW n \in 0..MaxNesting
      PROVE  Shallow(n + 1, v) <=> \A c \in Children(v) : Shallow(n, c)
  BY BelowOfChildren DEF Shallow
<1>3. ASSUME NEW n \in 0..MaxNesting, Shallow(n, v) PROVE Shallow(n + 1, v)
  BY <1>3, BelowFacts DEF Shallow
<1>. QED
  BY <1>1, <1>2, <1>3

\* The parts of a value are itself and those of its children, and they fit as well.
LEMMA PartsFacts ==
  ASSUME NEW v, Fits(v)
  PROVE  /\ Parts(v) = {v} \cup UNION {Parts(c) : c \in Children(v)}
         /\ \A c \in Children(v) : Fits(c)
<1> USE NestingAssumption
<1>1. \A c \in Children(v) : Shallow(MaxNesting, c)
  BY ShallowFacts DEF Fits, Shallow
<1>2. ASSUME NEW c \in Children(v) PROVE Fits(c)
  <2>1. Shallow(MaxNesting, c) /\ MaxNesting \in 0..MaxNesting
    BY <1>1
  <2>2. Shallow(MaxNesting + 1, c)
    BY <2>1, ShallowFacts
  <2>. QED
    BY <2>2 DEF Fits, Shallow
<1>3. Parts(v) \subseteq {v} \cup UNION {Parts(c) : c \in Children(v)}
  <2> SUFFICES ASSUME NEW n \in 0..MaxNesting, NEW p \in Below(v)[n], p # v
               PROVE  \E c \in Children(v) : p \in Parts(c)
    BY DEF Parts
  <2>1. n # 0
    BY BelowFacts
  <2>2. n - 1 \in 0..MaxNesting /\ (n - 1) + 1 = n
    BY <2>1
  <2>3. p \in UNION {Below(c)[n - 1] : c \in Children(v)}
    BY <2>2, BelowOfChildren
  <2>. QED
    BY <2>2, <2>3 DEF Parts
<1>4. v \in Parts(v)
  <2>1. 0 \in 0..MaxNesting /\ v \in Below(v)[0]
    BY BelowFacts
  <2>. QED
    BY <2>1 DEF Parts
<1>5. ASSUME NEW c \in Children(v) PROVE Parts(c) \subseteq Parts(v)
  <2> SUFFICES ASSUME NEW n \in 0..MaxNesting, NEW p \in Below(c)[n] PROVE p \in Parts(v)
    BY DEF Parts
  <2>1. n # MaxNesting
    BY <1>1 DEF Shallow
  <2>2. n + 1 \in 0..MaxNesting /\ p \in Below(v)[n + 1]
    BY <2>1, BelowOfChildren
  <2>. QED
    BY <2>2 DEF Parts
<1>. QED
  BY <1>2, <1>3, <1>4, <1>5

\* Induction over the parts of a value.
LEMMA PartsInduction ==
  ASSUME NEW v, Fits(v), NEW G,
         \A p \in Parts(v) : Fits(p) /\ Parts(p) \subseteq Parts(v) /\ Children(p) \subseteq G => p \in G
  PROVE  Parts(v) \subseteq G
<1> USE NestingAssumption
<1> DEFINE Bad == {n \in Depths : \E p \in Parts(v) :
                     Shallow(n, p) /\ Fits(p) /\ Parts(p) \subseteq Parts(v) /\ ~ Parts(p) \subseteq G}
<1>1. Bad = {}
  <2> SUFFICES ASSUME Bad # {} PROVE FALSE
    OBVIOUS
  <2>1. PICK n \in Bad : \A l \in Bad : n <= l
    <3>1. Bad \in SUBSET Nat
      BY DEF Depths
    <3>. HIDE DEF Bad
    <3>. QED
      BY <3>1, LeastNumber
  <2>2. PICK p \in Parts(v) :
          Shallow(n, p) /\ Fits(p) /\ Parts(p) \subseteq Parts(v) /\ ~ Parts(p) \subseteq G
    OBVIOUS
  <2>3. n \in Depths
    OBVIOUS
  <2>4. n # 0
    BY <2>2, ShallowFacts
  <2>5. n - 1 \in 0..MaxNesting /\ (n - 1) + 1 = n /\ n - 1 \in Depths /\ n - 1 \notin Bad
    <3>. HIDE DEF Bad
    <3>. QED
      BY <2>1, <2>3, <2>4 DEF Depths
  <2>6. ASSUME NEW c \in Children(p) PROVE Parts(c) \subseteq G /\ c \in G
    <3>1. Shallow(n - 1, c)
      BY <2>2, <2>5, ShallowFacts
    <3>2. Fits(c) /\ Parts(c) \subseteq Parts(p)
      BY <2>2, PartsFacts
    <3>3. c \in Parts(c)
      BY <3>2, PartsFacts
    <3>. QED
      BY <2>2, <2>5, <3>1, <3>2, <3>3
  <2>7. p \in G
    BY <2>2, <2>6
  <2>. QED
    BY <2>2, <2>6, <2>7, PartsFacts
<1>2. Shallow(MaxNesting + 1, v) /\ MaxNesting + 1 \in Depths /\ v \in Parts(v)
  BY PartsFacts DEF Depths, Fits, Shallow
<1>. QED
  BY <1>1, <1>2

\* The parts of a part are parts, and all of them fit.
LEMMA PartFacts ==
  ASSUME NEW v, Fits(v)
  PROVE  /\ v \in Parts(v)
         /\ \A p \in Parts(v) : Fits(p) /\ p \in Parts(p) /\ Parts(p) \subseteq Parts(v) /\ Children(p) \subseteq Parts(v)
<1> DEFINE G == {p \in Parts(v) : Fits(p) /\ Parts(p) \subseteq Parts(v)}
<1>1. \A p \in Parts(v) : Fits(p) /\ Parts(p) \subseteq Parts(v) /\ Children(p) \subseteq G => p \in G
  OBVIOUS
<1> HIDE DEF G
<1>2. Parts(v) \subseteq G
  BY <1>1, PartsInduction
<1> USE DEF G
<1>3. ASSUME NEW p \in Parts(v) PROVE Fits(p) /\ p \in Parts(p) /\ Parts(p) \subseteq Parts(v) /\ Children(p) \subseteq Parts(v)
  <2>1. Fits(p) /\ Parts(p) \subseteq Parts(v)
    BY <1>2
  <2>2. p \in Parts(p)
    BY <2>1, PartsFacts
  <2>3. ASSUME NEW c \in Children(p) PROVE c \in Parts(v)
    <3>1. Fits(c) /\ Parts(c) \subseteq Parts(p)
      BY <2>1, PartsFacts
    <3>2. c \in Parts(c)
      BY <3>1, PartsFacts
    <3>. QED
      BY <2>1, <3>1, <3>2
  <2>. QED
    BY <2>1, <2>2, <2>3
<1>. QED
  BY <1>3, PartsFacts
-----------------------------------------------------------------------------
\* A walk is determined by its step

\* What a container holds are its children.
LEMMA ChildFacts ==
  ASSUME NEW v
  PROVE  /\ Is(v, "list") => \A k \in DOMAIN v.list : v.list[k] \in Children(v)
         /\ Is(v, "tuple") => \A k \in DOMAIN v.tuple : v.tuple[k] \in Children(v)
         /\ Is(v, "dict") => \A k \in DOMAIN v.dict : v.dict[k] \in Children(v)
         /\ Is(v, "set") => \A c \in v.set : c \in Children(v)
<1>1. ASSUME NEW kind \in DOMAIN v \cap {"list", "tuple", "dict"}, NEW k \in DOMAIN v[kind]
      PROVE  v[kind][k] \in Children(v)
  <2>1. v[kind][k] \in Range(v[kind])
    BY Zenon DEF Range
  <2>. QED
    BY <2>1 DEF Children
<1>2. Is(v, "set") => v.set \subseteq Children(v)
  BY DEF Children
<1>3. ASSUME NEW kind \in {"list", "tuple", "dict"}, Is(v, kind)
      PROVE  \A k \in DOMAIN v[kind] : v[kind][k] \in Children(v)
  BY <1>1, <1>3 DEF Is
<1>4. /\ Is(v, "list") => \A k \in DOMAIN v["list"] : v["list"][k] \in Children(v)
      /\ Is(v, "tuple") => \A k \in DOMAIN v["tuple"] : v["tuple"][k] \in Children(v)
      /\ Is(v, "dict") => \A k \in DOMAIN v["dict"] : v["dict"][k] \in Children(v)
  BY <1>3
<1>. QED
  BY <1>2, <1>4

\* What f and g say of the values in a value, two levels deep.
Agree(f, g, v) ==
  \A w \in Ways, c \in Children(v) :
    f[<<w, c>>] = g[<<w, c>>] /\ \A d \in Children(c) : f[<<w, d>>] = g[<<w, d>>]

\* _encode() of a value depends on what it makes of the values in it only.
LEMMA EncodeDepends ==
  ASSUME NEW v, NEW f, NEW g, Agree(f, g, v)
  PROVE  EncodeStep(v, f) = EncodeStep(v, g)
<1>1. \A c \in Children(v) : f[<<"encode", c>>] = g[<<"encode", c>>]
  BY DEF Agree, Ways
<1>2. CASE Is(v, "set")
  <2>1. {f[<<"encode", c>>] : c \in v.set} = {g[<<"encode", c>>] : c \in v.set}
    BY <1>1, <1>2, ChildFacts
  <2>. QED
    BY <1>2, <2>1, Zenon DEF EncodeStep
<1>3. CASE ~ Is(v, "set") /\ Is(v, "list")
  BY <1>1, <1>3, ChildFacts, Zenon DEF EncodeStep
<1>4. CASE ~ Is(v, "set") /\ ~ Is(v, "list") /\ Is(v, "tuple")
  BY <1>1, <1>4, ChildFacts, Zenon DEF EncodeStep
<1>5. CASE ~ Is(v, "set") /\ ~ Is(v, "list") /\ ~ Is(v, "tuple") /\ Is(v, "dict")
  BY <1>1, <1>5, ChildFacts, Zenon DEF EncodeStep
<1>6. CASE ~ Is(v, "set") /\ ~ Is(v, "list") /\ ~ Is(v, "tuple") /\ ~ Is(v, "dict")
  BY <1>6 DEF EncodeStep
<1>. QED
  BY <1>2, <1>3, <1>4, <1>5, <1>6

\* _decode() and _decode_tagged() look at two levels of the value: a tag and its members.
LEMMA DecodeDepends ==
  ASSUME NEW j, NEW f, NEW g, Agree(f, g, j)
  PROVE  DecodeStep(j, f) = DecodeStep(j, g)
<1>1. \A c \in Children(j) : f[<<"decode", c>>] = g[<<"decode", c>>]
  BY DEF Agree, Ways
<1>2. \A c \in Children(j) : \A d : d \in Children(c) => f[<<"member", d>>] = g[<<"member", d>>]
  BY DEF Agree, Ways
<1>3. CASE Is(j, "list")
  BY <1>1, <1>3, ChildFacts, Zenon DEF DecodeStep
<1>4. CASE ~ Is(j, "list") /\ ~ Is(j, "dict")
  BY <1>4, Zenon DEF DecodeStep
<1>5. CASE ~ Is(j, "list") /\ Is(j, "dict") /\ ~ IsTagged(j)
  BY <1>1, <1>5, ChildFacts, Zenon DEF DecodeStep
<1>6. CASE ~ Is(j, "list") /\ Is(j, "dict") /\ IsTagged(j)
  <2> DEFINE raw == Field(j, "value")
  <2>1. ASSUME Is(raw, "list"), NEW k \in DOMAIN raw.list
        PROVE  f[<<"member", raw.list[k]>>] = g[<<"member", raw.list[k]>>]
    <3>1. raw \in Children(j)
      <4>1. "value" \in DOMAIN j.dict
        BY <2>1 DEF Field, Null, Is
      <4>. QED
        BY <1>6, <4>1, ChildFacts DEF Field
    <3>2. raw.list[k] \in Children(raw)
      BY <2>1, ChildFacts
    <3>. QED
      BY <1>2, <3>1, <3>2
  <2> HIDE DEF raw
  <2>2. DecodeTagged(j.dict[TypeKey], raw, f) = DecodeTagged(j.dict[TypeKey], raw, g)
    BY <2>1, Zenon DEF DecodeTagged
  <2>. QED
    BY <1>6, <2>2, Zenon DEF DecodeStep, raw
<1>. QED
  BY <1>3, <1>4, <1>5, <1>6

\* Every step depends on what the walk says of the two levels below only.
LEMMA StepDepends ==
  ASSUME NEW way \in Ways, NEW v, NEW f, NEW g, Agree(f, g, v)
  PROVE  Step(way, v, f) = Step(way, v, g)
<1>1. \A w \in Ways, c \in Children(v) : f[<<w, c>>] = g[<<w, c>>]
  BY DEF Agree
<1>2. MemberStep(v, f) = MemberStep(v, g)
  <2>1. DecodeStep(v, f) = DecodeStep(v, g)
    BY DecodeDepends
  <2>2. \A c \in Children(v) : f[<<"member", c>>] = g[<<"member", c>>]
    BY <1>1 DEF Ways
  <2>. QED
    BY <2>1, <2>2, ChildFacts, Zenon DEF MemberStep
<1>3. NormalStep(v, f) = NormalStep(v, g)
  <2>1. \A c \in Children(v) : f[<<"normal", c>>] = g[<<"normal", c>>]
    BY <1>1 DEF Ways
  <2>2. CASE Is(v, "list")
    BY <2>1, <2>2, ChildFacts, Zenon DEF NormalStep
  <2>3. CASE ~ Is(v, "list") /\ Is(v, "tuple")
    BY <2>1, <2>3, ChildFacts, Zenon DEF NormalStep
  <2>4. CASE ~ Is(v, "list") /\ ~ Is(v, "tuple") /\ Is(v, "dict")
    BY <2>1, <2>4, ChildFacts, Zenon DEF NormalStep
  <2>5. CASE ~ Is(v, "list") /\ ~ Is(v, "tuple") /\ ~ Is(v, "dict")
    BY <2>5, Zenon DEF NormalStep
  <2>. QED
    BY <2>2, <2>3, <2>4, <2>5
<1>4. LooseStep(v, f) = LooseStep(v, g)
  <2>1. \A c \in Children(v) : f[<<"loose", c>>] = g[<<"loose", c>>]
    BY <1>1 DEF Ways
  <2>2. {f[<<"loose", c>>] : c \in Children(v)} = {g[<<"loose", c>>] : c \in Children(v)}
    BY <2>1
  <2>. QED
    BY <2>2, Zenon DEF LooseStep
<1>5. EncodeStep(v, f) = EncodeStep(v, g) /\ DecodeStep(v, f) = DecodeStep(v, g)
  BY EncodeDepends, DecodeDepends
<1>. QED
  BY <1>2, <1>3, <1>4, <1>5 DEF Step, Ways

\* f says of every part of a value what a step says, given f.
Solves(f, v) == \A w \in Ways, p \in Parts(v) : f[<<w, p>>] = Step(w, p, f)
\* The parts of a value but itself.
Proper(v) == UNION {Parts(c) : c \in Children(v)}

\* The parts of a value but itself.
LEMMA ProperFacts ==
  ASSUME NEW v, Fits(v)
  PROVE  /\ Parts(v) = {v} \cup Proper(v)
         /\ Children(v) \subseteq Proper(v)
         /\ \A c \in Children(v) : Children(c) \subseteq Proper(v)
         /\ \A p \in Parts(v) : Fits(p) /\ Proper(p) \subseteq Proper(v)
         /\ \A p \in Proper(v) : Parts(p) \subseteq Proper(v)
<1>1. Parts(v) = {v} \cup Proper(v)
  BY PartsFacts DEF Proper
<1>2. \A c \in Children(v) : Fits(c) /\ c \in Parts(c) /\ Children(c) \subseteq Parts(c)
  <2> SUFFICES ASSUME NEW c \in Children(v) PROVE Fits(c) /\ c \in Parts(c) /\ Children(c) \subseteq Parts(c)
    OBVIOUS
  <2>1. Fits(c)
    BY PartsFacts
  <2>. QED
    BY <2>1, PartFacts
<1>3. \A p \in Proper(v) : Parts(p) \subseteq Proper(v)
  <2> SUFFICES ASSUME NEW c \in Children(v), NEW p \in Parts(c) PROVE Parts(p) \subseteq Proper(v)
    BY DEF Proper
  <2>1. Parts(p) \subseteq Parts(c)
    BY <1>2, PartFacts
  <2>. QED
    BY <2>1 DEF Proper
<1>4. ASSUME NEW p \in Parts(v) PROVE Fits(p) /\ Proper(p) \subseteq Proper(v)
  <2>1. Fits(p)
    BY PartFacts
  <2>2. CASE p # v
    <3>1. Parts(p) \subseteq Proper(v)
      BY <1>1, <1>3, <2>2
    <3>2. Proper(p) \subseteq Parts(p)
      BY <2>1, PartsFacts DEF Proper
    <3>. QED
      BY <2>1, <3>1, <3>2
  <2>. QED
    BY <2>1, <2>2
<1>. QED
  BY <1>1, <1>2, <1>3, <1>4 DEF Proper

\* Two functions that are walks of a value say the same of each of its parts.
LEMMA SolutionsAgree ==
  ASSUME NEW v, Fits(v), NEW f, NEW g, Solves(f, v), Solves(g, v)
  PROVE  \A w \in Ways, p \in Parts(v) : f[<<w, p>>] = g[<<w, p>>]
<1> DEFINE G == {p \in Parts(v) : \A q \in Parts(p), w \in Ways : f[<<w, q>>] = g[<<w, q>>]}
<1>1. ASSUME NEW p \in Parts(v), Fits(p), Parts(p) \subseteq Parts(v), Children(p) \subseteq G
      PROVE  p \in G
  <2>1. \A q \in Proper(p), w \in Ways : f[<<w, q>>] = g[<<w, q>>]
    BY <1>1 DEF Proper
  <2>2. Agree(f, g, p)
    BY <1>1, <2>1, ProperFacts DEF Agree
  <2>3. \A w \in Ways : f[<<w, p>>] = g[<<w, p>>]
    BY <2>2, StepDepends DEF Solves
  <2>. QED
    BY <1>1, <2>1, <2>3, ProperFacts
<1> HIDE DEF G
<1>2. Parts(v) \subseteq G
  BY <1>1, PartsInduction
<1> USE DEF G
<1>. QED
  BY <1>2, PartFacts

\* The recursion of Walk() ends: there is a function that is a walk, for every value that fits.
\* It is put together from the walks of the children.
LEMMA WalkExists ==
  ASSUME NEW v, Fits(v)
  PROVE  Solves(Walk(v), v)
<1> DEFINE G == {p \in Parts(v) : \A q \in Parts(p) : Solves(Walk(q), q)}
<1>1. ASSUME NEW p \in Parts(v), Fits(p), Parts(p) \subseteq Parts(v), Children(p) \subseteq G
      PROVE  p \in G
  <2>1. \A q \in Proper(p) : Solves(Walk(q), q) /\ Fits(q)
    BY <1>1, ProperFacts DEF Proper
  <2> DEFINE W == [x \in Ways \X Parts(p) |-> Walk(x[2])[x]]
             F == [x \in Ways \X Parts(p) |-> Step(x[1], x[2], W)]
  <2>2. \A w \in Ways, q \in Parts(p) : W[<<w, q>>] = Walk(q)[<<w, q>>]
    OBVIOUS
  <2>3. \A w \in Ways, q \in Parts(p) : F[<<w, q>>] = Step(w, q, W)
    OBVIOUS
  <2> HIDE DEF W, F
  <2>4. ASSUME NEW q \in Proper(p), NEW w \in Ways PROVE F[<<w, q>>] = W[<<w, q>>]
    <3>1. \A r \in Parts(q) : r \in Proper(p) /\ r \in Parts(p) /\ Parts(r) \subseteq Parts(q)
      BY <1>1, <2>1, ProperFacts, PartFacts
    <3>2. ASSUME NEW u \in Ways, NEW r \in Parts(q) PROVE W[<<u, r>>] = Walk(q)[<<u, r>>]
      <4>1. Solves(Walk(r), r) /\ Fits(r)
        BY <2>1, <3>1
      <4>2. Solves(Walk(q), r)
        BY <2>1, <3>1 DEF Solves
      <4>3. Walk(r)[<<u, r>>] = Walk(q)[<<u, r>>]
        BY <4>1, <4>2, SolutionsAgree, PartFacts
      <4>. QED
        BY <2>2, <3>1, <4>3
    <3>3. Agree(W, Walk(q), q)
      BY <2>1, <3>2, ProperFacts DEF Agree
    <3>4. Step(w, q, W) = Step(w, q, Walk(q))
      BY <3>3, StepDepends
    <3>5. q \in Parts(q) /\ q \in Parts(p)
      BY <2>1, <3>1, PartFacts
    <3>. QED
      BY <2>1, <2>2, <2>3, <3>4, <3>5 DEF Solves
  <2>5. ASSUME NEW w \in Ways, NEW q \in Parts(p) PROVE F[<<w, q>>] = Step(w, q, F)
    <3>1. Fits(q) /\ Proper(q) \subseteq Proper(p)
      BY <1>1, ProperFacts
    <3>2. Agree(F, W, q)
      BY <2>4, <3>1, ProperFacts DEF Agree
    <3>. QED
      BY <2>3, <3>2, StepDepends
  <2>6. F = [x \in Ways \X Parts(p) |-> Step(x[1], x[2], F)]
    <3>1. \A x \in Ways \X Parts(p) : F[x] = Step(x[1], x[2], F)
      BY <2>5
    <3>. QED
      BY <3>1, Zenon DEF F
  <2>7. Walk(p) = [x \in Ways \X Parts(p) |-> Step(x[1], x[2], Walk(p))]
    BY <2>6, Zenon DEF Walk
  <2>8. Solves(Walk(p), p)
    BY <2>7 DEF Solves
  <2>. QED
    BY <1>1, <2>1, <2>8, ProperFacts
<1> HIDE DEF G
<1>2. Parts(v) \subseteq G
  BY <1>1, PartsInduction
<1> USE DEF G
<1>. QED
  BY <1>2, PartFacts

\* A walk says of a part what a walk of that part says.
LEMMA WalkFacts ==
  ASSUME NEW v, Fits(v)
  PROVE  /\ Solves(Walk(v), v)
         /\ \A w \in Ways, p \in Parts(v) : Walk(v)[<<w, p>>] = Walk(p)[<<w, p>>]
<1>1. ASSUME NEW w \in Ways, NEW p \in Parts(v) PROVE Walk(v)[<<w, p>>] = Walk(p)[<<w, p>>]
  <2>1. Fits(p) /\ p \in Parts(p) /\ Parts(p) \subseteq Parts(v)
    BY PartFacts
  <2>2. Solves(Walk(p), p) /\ Solves(Walk(v), p)
    BY <2>1, WalkExists DEF Solves
  <2>. QED
    BY <2>1, <2>2, SolutionsAgree
<1>. QED
  BY <1>1, WalkExists
-----------------------------------------------------------------------------
\* What each walk does, as equations

\* What _coerce_set_member() makes of a JSON value.
Member(j) == Walk(j)[<<"member", j>>]
\* The tags with keys beside them in a JSON value.
Loose(v) == Walk(v)[<<"loose", v>>]

\* The types that all walks leave alone.
Atoms == {{"const"}, {"num"}, {"str"}, {"sha"}, {"other"}}

\* The walks of a value, in terms of the walks of its children.
LEMMA StepAt ==
  ASSUME NEW v, Fits(v)
  PROVE  /\ Encode(v) = EncodeStep(v, Walk(v))
         /\ Decode(v) = DecodeStep(v, Walk(v))
         /\ Member(v) = MemberStep(v, Walk(v))
         /\ Normal(v) = NormalStep(v, Walk(v))
         /\ Loose(v) = LooseStep(v, Walk(v))
         /\ \A c \in Children(v) :
              /\ Walk(v)[<<"encode", c>>] = Encode(c)
              /\ Walk(v)[<<"decode", c>>] = Decode(c)
              /\ Walk(v)[<<"member", c>>] = Member(c)
              /\ Walk(v)[<<"normal", c>>] = Normal(c)
              /\ Walk(v)[<<"loose", c>>] = Loose(c)
              /\ \A d \in Children(c) : Walk(v)[<<"member", d>>] = Member(d)
<1>1. \A w \in Ways : Walk(v)[<<w, v>>] = Step(w, v, Walk(v))
  BY WalkFacts, PartFacts DEF Solves
<1>2. \A w \in Ways, p \in Parts(v) : Walk(v)[<<w, p>>] = Walk(p)[<<w, p>>]
  BY WalkFacts
<1>3. \A c \in Children(v) : c \in Parts(v) /\ Children(c) \subseteq Parts(v)
  BY ProperFacts
<1>4. /\ Walk(v)[<<"encode", v>>] = EncodeStep(v, Walk(v))
      /\ Walk(v)[<<"decode", v>>] = DecodeStep(v, Walk(v))
      /\ Walk(v)[<<"member", v>>] = MemberStep(v, Walk(v))
      /\ Walk(v)[<<"normal", v>>] = NormalStep(v, Walk(v))
      /\ Walk(v)[<<"loose", v>>] = LooseStep(v, Walk(v))
  BY <1>1 DEF Step, Ways
<1>5. ASSUME NEW p \in Parts(v)
      PROVE  /\ Walk(v)[<<"encode", p>>] = Encode(p)
             /\ Walk(v)[<<"decode", p>>] = Decode(p)
             /\ Walk(v)[<<"member", p>>] = Member(p)
             /\ Walk(v)[<<"normal", p>>] = Normal(p)
             /\ Walk(v)[<<"loose", p>>] = Loose(p)
  <2>1. \A w \in {"encode", "decode", "member", "normal", "loose"} :
          Walk(v)[<<w, p>>] = Walk(p)[<<w, p>>]
    BY <1>2 DEF Ways
  <2>. QED
    BY <2>1 DEF Encode, Decode, Member, Normal, Loose
<1>6. /\ Encode(v) = EncodeStep(v, Walk(v))
      /\ Decode(v) = DecodeStep(v, Walk(v))
      /\ Member(v) = MemberStep(v, Walk(v))
      /\ Normal(v) = NormalStep(v, Walk(v))
      /\ Loose(v) = LooseStep(v, Walk(v))
  BY <1>4 DEF Encode, Decode, Member, Normal, Loose
<1>. QED
  BY <1>3, <1>5, <1>6

\* _encode() by the type of a value.
LEMMA EncodeRules ==
  ASSUME NEW v, Fits(v)
  PROVE  /\ DOMAIN v = {"list"} => Encode(v) = [list |-> [k \in DOMAIN v.list |-> Encode(v.list[k])]]
         /\ DOMAIN v = {"tuple"} => Encode(v) = [list |-> [k \in DOMAIN v.tuple |-> Encode(v.tuple[k])]]
         /\ DOMAIN v = {"dict"} => Encode(v) = Dict([k \in DOMAIN v.dict |-> Encode(v.dict[k])])
         /\ DOMAIN v = {"set"} => Encode(v) = Tagged("set", [list |-> SetToSeq({Encode(c) : c \in v.set})])
         /\ \A kind \in Scalars : DOMAIN v = {kind} => Encode(v) = Tagged(kind, [str |-> v[kind]])
         /\ DOMAIN v \in Atoms => Encode(v) = v
<1> DEFINE new == Walk(v)
<1>0. Encode(v) = EncodeStep(v, new) /\ \A c \in Children(v) : new[<<"encode", c>>] = Encode(c)
  BY StepAt
<1> HIDE DEF new
<1>1. ASSUME DOMAIN v = {"list"}
      PROVE  Encode(v) = [list |-> [k \in DOMAIN v.list |-> Encode(v.list[k])]]
  <2>1. Is(v, "list") /\ ~ Is(v, "set")
    BY <1>1 DEF Is
  <2>2. EncodeStep(v, new) = [list |-> [k \in DOMAIN v.list |-> new[<<"encode", v.list[k]>>]]]
    BY <2>1, Zenon DEF EncodeStep
  <2>. QED
    BY <1>0, <2>1, <2>2, ChildFacts, Zenon
<1>2. ASSUME DOMAIN v = {"tuple"}
      PROVE  Encode(v) = [list |-> [k \in DOMAIN v.tuple |-> Encode(v.tuple[k])]]
  <2>1. Is(v, "tuple") /\ ~ Is(v, "set") /\ ~ Is(v, "list")
    BY <1>2 DEF Is
  <2>2. EncodeStep(v, new) = [list |-> [k \in DOMAIN v.tuple |-> new[<<"encode", v.tuple[k]>>]]]
    BY <2>1, Zenon DEF EncodeStep
  <2>. QED
    BY <1>0, <2>1, <2>2, ChildFacts, Zenon
<1>3. ASSUME DOMAIN v = {"dict"}
      PROVE  Encode(v) = Dict([k \in DOMAIN v.dict |-> Encode(v.dict[k])])
  <2>1. Is(v, "dict") /\ ~ Is(v, "set") /\ ~ Is(v, "list") /\ ~ Is(v, "tuple")
    BY <1>3 DEF Is
  <2>2. EncodeStep(v, new) = Dict([k \in DOMAIN v.dict |-> new[<<"encode", v.dict[k]>>]])
    BY <2>1, Zenon DEF EncodeStep
  <2>. QED
    BY <1>0, <2>1, <2>2, ChildFacts, Zenon
<1>4. ASSUME DOMAIN v = {"set"}
      PROVE  Encode(v) = Tagged("set", [list |-> SetToSeq({Encode(c) : c \in v.set})])
  <2>1. Is(v, "set")
    BY <1>4 DEF Is
  <2>2. EncodeStep(v, new) = Tagged("set", [list |-> SetToSeq({new[<<"encode", c>>] : c \in v.set})])
    BY <2>1, Zenon DEF EncodeStep
  <2>3. {new[<<"encode", c>>] : c \in v.set} = {Encode(c) : c \in v.set}
    BY <1>0, <2>1, ChildFacts
  <2>. QED
    BY <1>0, <2>2, <2>3
<1>5. ASSUME NEW kind \in Scalars, DOMAIN v = {kind}
      PROVE  Encode(v) = Tagged(kind, [str |-> v[kind]])
  <2>1. ~ Is(v, "set") /\ ~ Is(v, "list") /\ ~ Is(v, "tuple") /\ ~ Is(v, "dict") /\ DOMAIN v \subseteq Scalars
    BY <1>5 DEF Is, Scalars
  <2>2. (CHOOSE k \in DOMAIN v : TRUE) = kind
    BY <1>5
  <2>3. EncodeStep(v, new) = LET tag == CHOOSE k \in DOMAIN v : TRUE IN Tagged(tag, [str |-> v[tag]])
    BY <2>1 DEF EncodeStep
  <2>. QED
    BY <1>0, <2>2, <2>3
<1>6. ASSUME DOMAIN v \in Atoms PROVE Encode(v) = v
  <2>1. ~ Is(v, "set") /\ ~ Is(v, "list") /\ ~ Is(v, "tuple") /\ ~ Is(v, "dict") /\ ~ (DOMAIN v \subseteq Scalars)
    BY <1>6 DEF Is, Scalars, Atoms
  <2>. QED
    BY <1>0, <2>1 DEF EncodeStep
<1>. QED
  BY <1>1, <1>2, <1>3, <1>4, <1>5, <1>6

\* Normal() by the type of a value.
LEMMA NormalRules ==
  ASSUME NEW v, Fits(v)
  PROVE  /\ DOMAIN v = {"list"} => Normal(v) = [list |-> [k \in DOMAIN v.list |-> Normal(v.list[k])]]
         /\ DOMAIN v = {"tuple"} => Normal(v) = [list |-> [k \in DOMAIN v.tuple |-> Normal(v.tuple[k])]]
         /\ DOMAIN v = {"dict"} => Normal(v) = Dict([k \in DOMAIN v.dict |-> Normal(v.dict[k])])
         /\ DOMAIN v \cap {"list", "tuple", "dict"} = {} => Normal(v) = v
<1> DEFINE new == Walk(v)
<1>0. Normal(v) = NormalStep(v, new) /\ \A c \in Children(v) : new[<<"normal", c>>] = Normal(c)
  BY StepAt
<1> HIDE DEF new
<1>1. ASSUME DOMAIN v = {"list"}
      PROVE  Normal(v) = [list |-> [k \in DOMAIN v.list |-> Normal(v.list[k])]]
  <2>1. Is(v, "list")
    BY <1>1 DEF Is
  <2>2. NormalStep(v, new) = [list |-> [k \in DOMAIN v.list |-> new[<<"normal", v.list[k]>>]]]
    BY <2>1, Zenon DEF NormalStep
  <2>. QED
    BY <1>0, <2>1, <2>2, ChildFacts, Zenon
<1>2. ASSUME DOMAIN v = {"tuple"}
      PROVE  Normal(v) = [list |-> [k \in DOMAIN v.tuple |-> Normal(v.tuple[k])]]
  <2>1. Is(v, "tuple") /\ ~ Is(v, "list")
    BY <1>2 DEF Is
  <2>2. NormalStep(v, new) = [list |-> [k \in DOMAIN v.tuple |-> new[<<"normal", v.tuple[k]>>]]]
    BY <2>1, Zenon DEF NormalStep
  <2>. QED
    BY <1>0, <2>1, <2>2, ChildFacts, Zenon
<1>3. ASSUME DOMAIN v = {"dict"}
      PROVE  Normal(v) = Dict([k \in DOMAIN v.dict |-> Normal(v.dict[k])])
  <2>1. Is(v, "dict") /\ ~ Is(v, "list") /\ ~ Is(v, "tuple")
    BY <1>3 DEF Is
  <2>2. NormalStep(v, new) = Dict([k \in DOMAIN v.dict |-> new[<<"normal", v.dict[k]>>]])
    BY <2>1, Zenon DEF NormalStep
  <2>. QED
    BY <1>0, <2>1, <2>2, ChildFacts, Zenon
<1>4. ASSUME DOMAIN v \cap {"list", "tuple", "dict"} = {} PROVE Normal(v) = v
  <2>1. ~ Is(v, "list") /\ ~ Is(v, "tuple") /\ ~ Is(v, "dict")
    BY <1>4 DEF Is
  <2>. QED
    BY <1>0, <2>1, Zenon DEF NormalStep
<1>. QED
  BY <1>1, <1>2, <1>3, <1>4

\* The raw check stops at a tag and goes through everything else.
LEMMA LooseRules ==
  ASSUME NEW v, Fits(v)
  PROVE  /\ IsTagged(v) /\ DOMAIN v.dict = {TypeKey, "value"} => Loose(v) = {}
         /\ ~ IsTagged(v) => Loose(v) = UNION {Loose(c) : c \in Children(v)}
<1> DEFINE new == Walk(v)
<1>0. Loose(v) = LooseStep(v, new) /\ \A c \in Children(v) : new[<<"loose", c>>] = Loose(c)
  BY StepAt
<1> HIDE DEF new
<1>1. {new[<<"loose", c>>] : c \in Children(v)} = {Loose(c) : c \in Children(v)}
  BY <1>0
<1>. QED
  BY <1>0, <1>1 DEF LooseStep

\* What _decode() makes of the items of an array or an object.
Decoded(s) == [k \in DOMAIN s |-> Decode(s[k])]
\* What _coerce_set_member() makes of the items of an array.
Members(s) == [k \in DOMAIN s |-> Member(s[k])]

\* _decode() and _decode_tagged() by the type of a JSON value.
LEMMA DecodeRules ==
  ASSUME NEW j, Fits(j)
  PROVE  /\ DOMAIN j = {"list"} => Decode(j) = Unless(Decoded(j.list), [list |-> Decoded(j.list)])
         /\ DOMAIN j \cap {"list", "dict"} = {} => Decode(j) = j
         /\ DOMAIN j = {"dict"} /\ ~ IsTagged(j) => Decode(j) = Unless(Decoded(j.dict), Dict(Decoded(j.dict)))
         /\ DOMAIN j = {"dict"} /\ IsTagged(j) =>
              LET tag == j.dict[TypeKey]  raw == Field(j, "value")
              IN  Decode(j) =
                    IF Is(tag, "str") /\ tag.str \in Scalars /\ Is(raw, "str") /\ raw.str \in DOMAIN Spelled(tag.str)
                    THEN [kind \in {tag.str} |-> Spelled(tag.str)[raw.str]]
                    ELSE IF tag = [str |-> "set"] /\ Is(raw, "list")
                    THEN Unless(Members(raw.list), [set |-> Range(Members(raw.list))])
                    ELSE Raised
<1> DEFINE new == Walk(j)
<1>0. /\ Decode(j) = DecodeStep(j, new)
      /\ \A c \in Children(j) : new[<<"decode", c>>] = Decode(c)
      /\ \A c \in Children(j) : \A d \in Children(c) : new[<<"member", d>>] = Member(d)
  BY StepAt
<1> HIDE DEF new
<1>1. ASSUME DOMAIN j = {"list"}
      PROVE  Decode(j) = Unless(Decoded(j.list), [list |-> Decoded(j.list)])
  <2>1. Is(j, "list")
    BY <1>1 DEF Is
  <2>2. [k \in DOMAIN j.list |-> new[<<"decode", j.list[k]>>]] = Decoded(j.list)
    BY <1>0, <2>1, ChildFacts, Zenon DEF Decoded
  <2>. QED
    BY <1>0, <2>1, <2>2, Zenon DEF DecodeStep
<1>2. ASSUME DOMAIN j \cap {"list", "dict"} = {} PROVE Decode(j) = j
  <2>1. ~ Is(j, "list") /\ ~ Is(j, "dict")
    BY <1>2 DEF Is
  <2>. QED
    BY <1>0, <2>1, Zenon DEF DecodeStep
<1>3. ASSUME DOMAIN j = {"dict"}, ~ IsTagged(j)
      PROVE  Decode(j) = Unless(Decoded(j.dict), Dict(Decoded(j.dict)))
  <2>1. Is(j, "dict") /\ ~ Is(j, "list")
    BY <1>3 DEF Is
  <2>2. [k \in DOMAIN j.dict |-> new[<<"decode", j.dict[k]>>]] = Decoded(j.dict)
    BY <1>0, <2>1, ChildFacts, Zenon DEF Decoded
  <2>. QED
    BY <1>0, <1>3, <2>1, <2>2, Zenon DEF DecodeStep
<1>4. ASSUME DOMAIN j = {"dict"}, IsTagged(j)
      PROVE  LET tag == j.dict[TypeKey]  raw == Field(j, "value")
             IN  Decode(j) =
                   IF Is(tag, "str") /\ tag.str \in Scalars /\ Is(raw, "str") /\ raw.str \in DOMAIN Spelled(tag.str)
                   THEN [kind \in {tag.str} |-> Spelled(tag.str)[raw.str]]
                   ELSE IF tag = [str |-> "set"] /\ Is(raw, "list")
                   THEN Unless(Members(raw.list), [set |-> Range(Members(raw.list))])
                   ELSE Raised
  <2> DEFINE tag == j.dict[TypeKey]
             raw == Field(j, "value")
  <2>1. Is(j, "dict") /\ ~ Is(j, "list")
    BY <1>4 DEF Is
  <2>2. Is(raw, "list") => raw \in Children(j)
    <3>1. Is(raw, "list") => "value" \in DOMAIN j.dict
      BY DEF Field, Null, Is
    <3>. QED
      BY <2>1, <3>1, ChildFacts DEF Field
  <2>3. Decode(j) = DecodeTagged(tag, raw, new)
    BY <1>0, <1>4, <2>1, Zenon DEF DecodeStep
  <2> HIDE DEF raw, tag
  <2>4. Is(raw, "list") => [k \in DOMAIN raw.list |-> new[<<"member", raw.list[k]>>]] = Members(raw.list)
    BY <1>0, <2>2, ChildFacts, Zenon DEF Members
  <2>5. Decode(j) =
          IF Is(tag, "str") /\ tag.str \in Scalars /\ Is(raw, "str") /\ raw.str \in DOMAIN Spelled(tag.str)
          THEN [kind \in {tag.str} |-> Spelled(tag.str)[raw.str]]
          ELSE IF tag = [str |-> "set"] /\ Is(raw, "list")
          THEN Unless(Members(raw.list), [set |-> Range(Members(raw.list))])
          ELSE Raised
    BY <2>3, <2>4, Zenon DEF DecodeTagged
  <2>. QED
    BY <2>5, Zenon DEF tag, raw
<1>. QED
  BY <1>1, <1>2, <1>3, <1>4

\* _coerce_set_member() by the type of a JSON value.
LEMMA MemberRules ==
  ASSUME NEW j, Fits(j)
  PROVE  /\ DOMAIN j = {"list"} => Member(j) = Unless(Members(j.list), [tuple |-> Members(j.list)])
         /\ "list" \notin DOMAIN j =>
              Member(j) = IF Is(Decode(j), "dict") \/ Is(Decode(j), "set") THEN Raised ELSE Decode(j)
<1> DEFINE new == Walk(j)
<1>0. /\ Member(j) = MemberStep(j, new)
      /\ Decode(j) = DecodeStep(j, new)
      /\ \A c \in Children(j) : new[<<"member", c>>] = Member(c)
  BY StepAt
<1> HIDE DEF new
<1>1. ASSUME DOMAIN j = {"list"}
      PROVE  Member(j) = Unless(Members(j.list), [tuple |-> Members(j.list)])
  <2>1. Is(j, "list")
    BY <1>1 DEF Is
  <2>2. [k \in DOMAIN j.list |-> new[<<"member", j.list[k]>>]] = Members(j.list)
    BY <1>0, <2>1, ChildFacts, Zenon DEF Members
  <2>. QED
    BY <1>0, <2>1, <2>2, Zenon DEF MemberStep
<1>2. ASSUME "list" \notin DOMAIN j
      PROVE  Member(j) = IF Is(Decode(j), "dict") \/ Is(Decode(j), "set") THEN Raised ELSE Decode(j)
  <2>1. ~ Is(j, "list")
    BY <1>2 DEF Is
  <2>. QED
    BY <1>0, <2>1, Zenon DEF MemberStep
<1>. QED
  BY <1>1, <1>2
-----------------------------------------------------------------------------
\* Kinds of values

\* A finite set has a sequence of its members.
LEMMA SetToSeqFacts ==
  ASSUME NEW S, IsFiniteSet(S)
  PROVE  /\ Cardinality(S) \in Nat
         /\ SetToSeq(S) \in [1..Cardinality(S) -> S]
         /\ Range(SetToSeq(S)) = S
<1>1. Cardinality(S) \in Nat /\ ExistsBijection(1..Cardinality(S), S)
  BY FS_CardinalityType
<1>2. \E f \in [1..Cardinality(S) -> S] : IsInjective(f)
  BY <1>1 DEF ExistsBijection, Bijection, Injection
<1>3. SetToSeq(S) \in [1..Cardinality(S) -> S] /\ IsInjective(SetToSeq(S))
  BY <1>2, Zenon DEF SetToSeq
<1>4. SetToSeq(S) \in Injection(1..Cardinality(S), S)
  BY <1>3 DEF Injection
<1>5. Cardinality(1..Cardinality(S)) = Cardinality(S)
  BY <1>1, FS_Interval
<1>6. SetToSeq(S) \in Surjection(1..Cardinality(S), S)
  BY <1>4, <1>5, FS_Injection
<1>7. Range(SetToSeq(S)) = S
  BY <1>3, <1>6 DEF Surjection, Range
<1>. QED
  BY <1>1, <1>3, <1>7

\* A function of a finite domain has finitely many values.
LEMMA FiniteRange ==
  ASSUME NEW f, IsFiniteSet(DOMAIN f)
  PROVE  IsFiniteSet(Range(f))
<1> DEFINE g == [x \in DOMAIN f |-> f[x]]
<1>1. g \in Surjection(DOMAIN f, Range(f))
  BY DEF Surjection, Range
<1>. QED
  BY <1>1, FS_Surjection

\* The children of a value by its type.
LEMMA ChildrenOf ==
  ASSUME NEW v
  PROVE  /\ DOMAIN v = {"list"} => Children(v) = Range(v.list)
         /\ DOMAIN v = {"tuple"} => Children(v) = Range(v.tuple)
         /\ DOMAIN v = {"dict"} => Children(v) = Range(v.dict)
         /\ DOMAIN v = {"set"} => Children(v) = v.set
         /\ DOMAIN v \cap {"list", "tuple", "dict", "set"} = {} => Children(v) = {}
<1>1. ASSUME NEW kind \in {"list", "tuple", "dict"}, DOMAIN v = {kind} PROVE Children(v) = Range(v[kind])
  <2>1. DOMAIN v \cap {"list", "tuple", "dict"} = {kind} /\ ~ Is(v, "set")
    BY <1>1 DEF Is
  <2>2. {Range(v[k]) : k \in {kind}} = {Range(v[kind])}
    OBVIOUS
  <2>. QED
    BY <2>1, <2>2, Zenon DEF Children
<1>2. ASSUME DOMAIN v \cap {"list", "tuple", "dict"} = {}
      PROVE  Children(v) = IF Is(v, "set") THEN v.set ELSE {}
  BY <1>2 DEF Children
<1>3. /\ DOMAIN v = {"list"} => Children(v) = Range(v["list"])
      /\ DOMAIN v = {"tuple"} => Children(v) = Range(v["tuple"])
      /\ DOMAIN v = {"dict"} => Children(v) = Range(v["dict"])
  BY <1>1
<1>4. DOMAIN v = {"set"} => Children(v) = v.set
  BY <1>2 DEF Is
<1>5. DOMAIN v \cap {"list", "tuple", "dict", "set"} = {} => Children(v) = {}
  BY <1>2 DEF Is
<1>. QED
  BY <1>3, <1>4, <1>5

\* The dictionary that _encode() makes for a type that JSON lacks.
LEMMA TaggedFacts ==
  ASSUME NEW tag, NEW x
  PROVE  /\ DOMAIN Tagged(tag, x) = {"dict"}
         /\ DOMAIN Tagged(tag, x).dict = {TypeKey, "value"}
         /\ Tagged(tag, x).dict[TypeKey] = [str |-> tag]
         /\ Field(Tagged(tag, x), "value") = x
         /\ Tagged(tag, x).dict["value"] = x
         /\ IsTagged(Tagged(tag, x))
         /\ Children(Tagged(tag, x)) = {[str |-> tag], x}
<1> DEFINE f == [__jsondb_type__ |-> [str |-> tag], value |-> x]
<1>1. /\ DOMAIN f = {TypeKey, "value"} /\ f[TypeKey] = [str |-> tag] /\ f["value"] = x
  BY DEF TypeKey
<1>2. Tagged(tag, x) = [dict |-> f]
  BY DEF Tagged, Dict
<1> HIDE DEF f
<1>3. Range(f) = {[str |-> tag], x}
  BY <1>1 DEF Range
<1>4. DOMAIN Tagged(tag, x) = {"dict"} /\ Tagged(tag, x).dict = f
  BY <1>2
<1>5. Children(Tagged(tag, x)) = {[str |-> tag], x}
  BY <1>3, <1>4, ChildrenOf
<1>. QED
  BY <1>1, <1>4, <1>5 DEF Field, IsTagged, Is

\* A value without children fits anywhere.
LEMMA ChildlessFacts ==
  ASSUME NEW v, Children(v) = {}
  PROVE  /\ Fits(v) /\ Parts(v) = {v}
         /\ \A n \in Depths : n # 0 => Shallow(n, v)
<1> USE NestingAssumption
<1>1. ASSUME NEW n \in Depths, n # 0 PROVE Shallow(n, v)
  <2>1. n - 1 \in 0..MaxNesting /\ (n - 1) + 1 = n
    BY <1>1 DEF Depths
  <2>. QED
    BY <2>1, ShallowFacts
<1>2. Fits(v)
  BY <1>1 DEF Fits, Shallow, Depths
<1>. QED
  BY <1>1, <1>2, PartsFacts

\* The cases of a Python value.
LEMMA PythonCases ==
  ASSUME NEW v, PythonPart(v)
  PROVE  \/ DOMAIN v \in Atoms
         \/ \E kind \in Scalars : /\ DOMAIN v = {kind} /\ v = [k \in {kind} |-> v[kind]]
                                  /\ v[kind] \in DOMAIN Spelled(kind) /\ Spelled(kind)[v[kind]] = v[kind]
         \/ DOMAIN v = {"list"} /\ v = [list |-> v.list] /\ v.list = [k \in DOMAIN v.list |-> v.list[k]]
         \/ DOMAIN v = {"tuple"} /\ v = [tuple |-> v.tuple] /\ v.tuple = [k \in DOMAIN v.tuple |-> v.tuple[k]]
         \/ DOMAIN v = {"dict"} /\ v = [dict |-> v.dict] /\ v.dict = [k \in DOMAIN v.dict |-> v.dict[k]]
         \/ DOMAIN v = {"set"} /\ v = [set |-> v.set] /\ IsFiniteSet(v.set) /\ \A c \in v.set : Hashable(c)
<1>1. v = [x \in DOMAIN v |-> v[x]]
  BY DEF PythonPart, IsFunction
<1>2. CASE DOMAIN v \in Atoms
  BY <1>2
<1>3. ASSUME NEW kind \in Scalars, DOMAIN v = {kind}, v[kind] \in DOMAIN Spelled(kind), Spelled(kind)[v[kind]] = v[kind]
      PROVE  v = [k \in {kind} |-> v[kind]]
  BY <1>1, <1>3
<1>4. ASSUME NEW kind \in {"list", "tuple", "dict"}, DOMAIN v = {kind}, IsFunction(v[kind])
      PROVE  \/ DOMAIN v = {"list"} /\ v = [list |-> v.list] /\ v.list = [k \in DOMAIN v.list |-> v.list[k]]
             \/ DOMAIN v = {"tuple"} /\ v = [tuple |-> v.tuple] /\ v.tuple = [k \in DOMAIN v.tuple |-> v.tuple[k]]
             \/ DOMAIN v = {"dict"} /\ v = [dict |-> v.dict] /\ v.dict = [k \in DOMAIN v.dict |-> v.dict[k]]
  <2>1. CASE kind = "list"
    BY <1>1, <1>4, <2>1 DEF IsFunction
  <2>2. CASE kind = "tuple"
    BY <1>1, <1>4, <2>2 DEF IsFunction
  <2>3. CASE kind = "dict"
    BY <1>1, <1>4, <2>3 DEF IsFunction
  <2>. QED
    BY <2>1, <2>2, <2>3
<1>5. ASSUME DOMAIN v = {"set"}, IsFiniteSet(v.set), \A c \in v.set : Hashable(c)
      PROVE  v = [set |-> v.set]
  BY <1>1, <1>5
<1>6. \/ DOMAIN v \in Atoms
      \/ \E kind \in Scalars : DOMAIN v = {kind} /\ v[kind] \in DOMAIN Spelled(kind) /\ Spelled(kind)[v[kind]] = v[kind]
      \/ \E kind \in {"list", "tuple", "dict"} : DOMAIN v = {kind} /\ IsFunction(v[kind])
      \/ DOMAIN v = {"set"} /\ IsFiniteSet(v.set) /\ \A c \in v.set : Hashable(c)
  BY DEF PythonPart, Atoms
<1>. QED
  BY <1>2, <1>3, <1>4, <1>5, <1>6
-----------------------------------------------------------------------------
\* The normal form of a value

\* A value fits when nothing is deeper than MaxNesting.
LEMMA FitsIsShallow ==
  ASSUME NEW v
  PROVE  MaxNesting + 1 \in Depths /\ (Fits(v) <=> Shallow(MaxNesting + 1, v))
  BY NestingAssumption DEF Fits, Shallow, Depths

\* A value whose children are as deep as those of another is as deep as it.
LEMMA DepthOfImage ==
  ASSUME NEW v, NEW w, \A d \in Children(w) : \E c \in Children(v) :
           \A n \in Depths : Shallow(n, c) => Shallow(n, d),
         NEW n \in Depths, Shallow(n, v)
  PROVE  Shallow(n, w)
<1>1. n # 0
  BY ShallowFacts
<1>2. n - 1 \in 0..MaxNesting /\ (n - 1) + 1 = n /\ n - 1 \in Depths
  BY <1>1, NestingAssumption DEF Depths
<1>3. \A c \in Children(v) : Shallow(n - 1, c)
  BY <1>2, ShallowFacts
<1>4. \A d \in Children(w) : Shallow(n - 1, d)
  BY <1>2, <1>3
<1>. QED
  BY <1>2, <1>4, ShallowFacts

\* What Normal() makes of a value.
LEMMA NormalCases ==
  ASSUME NEW v, Fits(v), PythonPart(v)
  PROVE  \/ Normal(v) = v /\ DOMAIN v \cap {"list", "tuple", "dict"} = {}
         \/ /\ DOMAIN v \in {{"list"}, {"tuple"}, {"dict"}}
            /\ DOMAIN Normal(v) = IF DOMAIN v = {"dict"} THEN {"dict"} ELSE {"list"}
            /\ IsFunction(Normal(v))
            /\ DOMAIN v = {"dict"} => /\ DOMAIN Normal(v).dict = DOMAIN v.dict
                                      /\ \A k \in DOMAIN v.dict : Normal(v).dict[k] = Normal(v.dict[k])
                                      /\ IsFunction(Normal(v).dict)
            /\ DOMAIN v = {"list"} => /\ DOMAIN Normal(v).list = DOMAIN v.list
                                      /\ \A k \in DOMAIN v.list : Normal(v).list[k] = Normal(v.list[k])
                                      /\ IsFunction(Normal(v).list)
            /\ DOMAIN v = {"tuple"} => /\ DOMAIN Normal(v).list = DOMAIN v.tuple
                                       /\ \A k \in DOMAIN v.tuple : Normal(v).list[k] = Normal(v.tuple[k])
                                       /\ IsFunction(Normal(v).list)
            /\ Children(Normal(v)) = {Normal(c) : c \in Children(v)}
<1>1. CASE DOMAIN v \in Atoms
  BY <1>1, NormalRules DEF Atoms
<1>2. CASE \E kind \in Scalars : DOMAIN v = {kind}
  BY <1>2, NormalRules DEF Scalars
<1>3. CASE DOMAIN v = {"list"}
  <2> DEFINE s == [k \in DOMAIN v.list |-> Normal(v.list[k])]
  <2>1. Normal(v) = [list |-> s]
    BY <1>3, NormalRules
  <2>2. DOMAIN s = DOMAIN v.list /\ (\A k \in DOMAIN v.list : s[k] = Normal(v.list[k])) /\ IsFunction(s)
    BY DEF IsFunction
  <2> HIDE DEF s
  <2>3. DOMAIN Normal(v) = {"list"} /\ Normal(v).list = s /\ IsFunction(Normal(v))
    BY <2>1 DEF IsFunction
  <2>4. Children(Normal(v)) = Range(s) /\ Children(v) = Range(v.list)
    BY <1>3, <2>3, ChildrenOf
  <2>5. Range(s) = {Normal(c) : c \in Range(v.list)}
    BY <2>2 DEF Range
  <2>. QED
    BY <1>3, <2>2, <2>3, <2>4, <2>5
<1>4. CASE DOMAIN v = {"tuple"}
  <2> DEFINE s == [k \in DOMAIN v.tuple |-> Normal(v.tuple[k])]
  <2>1. Normal(v) = [list |-> s]
    BY <1>4, NormalRules
  <2>2. DOMAIN s = DOMAIN v.tuple /\ (\A k \in DOMAIN v.tuple : s[k] = Normal(v.tuple[k])) /\ IsFunction(s)
    BY DEF IsFunction
  <2> HIDE DEF s
  <2>3. DOMAIN Normal(v) = {"list"} /\ Normal(v).list = s /\ IsFunction(Normal(v))
    BY <2>1 DEF IsFunction
  <2>4. Children(Normal(v)) = Range(s) /\ Children(v) = Range(v.tuple)
    BY <1>4, <2>3, ChildrenOf
  <2>5. Range(s) = {Normal(c) : c \in Range(v.tuple)}
    BY <2>2 DEF Range
  <2>. QED
    BY <1>4, <2>2, <2>3, <2>4, <2>5
<1>5. CASE DOMAIN v = {"dict"}
  <2> DEFINE s == [k \in DOMAIN v.dict |-> Normal(v.dict[k])]
  <2>1. Normal(v) = [dict |-> s]
    BY <1>5, NormalRules DEF Dict
  <2>2. DOMAIN s = DOMAIN v.dict /\ (\A k \in DOMAIN v.dict : s[k] = Normal(v.dict[k])) /\ IsFunction(s)
    BY DEF IsFunction
  <2> HIDE DEF s
  <2>3. DOMAIN Normal(v) = {"dict"} /\ Normal(v).dict = s /\ IsFunction(Normal(v))
    BY <2>1 DEF IsFunction
  <2>4. Children(Normal(v)) = Range(s) /\ Children(v) = Range(v.dict)
    BY <1>5, <2>3, ChildrenOf
  <2>5. Range(s) = {Normal(c) : c \in Range(v.dict)}
    BY <2>2 DEF Range
  <2>. QED
    BY <1>5, <2>2, <2>3, <2>4, <2>5
<1>6. CASE DOMAIN v = {"set"}
  BY <1>6, NormalRules
<1>. QED
  BY <1>1, <1>2, <1>3, <1>4, <1>5, <1>6, PythonCases

\* A normal value is as deep, has the parts that Normal() makes of parts, is its own normal
\* form and has the same encoding.
NormalGood(v) ==
  /\ \A n \in Depths : Shallow(n, v) => Shallow(n, Normal(v))
  /\ \A q \in Parts(Normal(v)) : q \in Parts(v) \/ \E r \in Parts(v) : q = Normal(r)
  /\ Normal(Normal(v)) = Normal(v)
  /\ Encode(Normal(v)) = Encode(v)

\* A normal form is good when those of the children are.
LEMMA NormalGoodStep ==
  ASSUME NEW v, Fits(v), PythonPart(v), \A c \in Children(v) : NormalGood(c)
  PROVE  NormalGood(v)
<1>1. CASE Normal(v) = v
  BY <1>1 DEF NormalGood
<1>2. CASE DOMAIN v \in {{"list"}, {"tuple"}, {"dict"}} /\ Children(Normal(v)) = {Normal(c) : c \in Children(v)}
  <2>1. \A n \in Depths : Shallow(n, v) => Shallow(n, Normal(v))
    <3>1. \A d \in Children(Normal(v)) : \E c \in Children(v) : \A n \in Depths : Shallow(n, c) => Shallow(n, d)
      BY <1>2 DEF NormalGood
    <3>. QED
      BY <3>1, DepthOfImage
  <2>2. Fits(Normal(v))
    BY <2>1, FitsIsShallow
  <2>3. ASSUME NEW q \in Parts(Normal(v)) PROVE q \in Parts(v) \/ \E r \in Parts(v) : q = Normal(r)
    <3>1. v \in Parts(v) /\ \A c \in Children(v) : Parts(c) \subseteq Parts(v)
      BY PartsFacts
    <3>2. CASE q = Normal(v)
      BY <3>1, <3>2
    <3>3. CASE q # Normal(v)
      <4>1. PICK d \in Children(Normal(v)) : q \in Parts(d)
        BY <2>2, <3>3, PartsFacts
      <4>2. PICK c \in Children(v) : d = Normal(c)
        BY <1>2
      <4>. QED
        BY <3>1, <4>1, <4>2 DEF NormalGood
    <3>. QED
      BY <3>2, <3>3
  <2>4. \A c \in Children(v) : Normal(Normal(c)) = Normal(c) /\ Encode(Normal(c)) = Encode(c)
    BY DEF NormalGood
  <2>5. Normal(Normal(v)) = Normal(v) /\ Encode(Normal(v)) = Encode(v)
    <3>1. CASE DOMAIN v = {"list"}
      <4> DEFINE s == [k \in DOMAIN v.list |-> Normal(v.list[k])]
                 t == [k \in DOMAIN s |-> Normal(s[k])]
      <4>0. \A k \in DOMAIN v.list : v.list[k] \in Children(v)
        BY <3>1, ChildFacts DEF Is
      <4>1. Normal(v) = [list |-> s] /\ DOMAIN Normal(v) = {"list"} /\ Normal(v).list = s
        <5>1. Normal(v) = [list |-> s]
          BY <3>1, NormalRules
        <5> HIDE DEF s
        <5>. QED
          BY <5>1
      <4>2. Normal(Normal(v)) = [list |-> t]
        BY <2>2, <4>1, NormalRules
      <4>3. t = s
        BY <2>4, <4>0, Zenon
      <4>4. Encode(Normal(v)) = [list |-> [k \in DOMAIN s |-> Encode(s[k])]]
        <5> HIDE DEF s
        <5>1. Encode(Normal(v)) = [list |-> [k \in DOMAIN Normal(v).list |-> Encode(Normal(v).list[k])]]
          BY <2>2, <4>1, EncodeRules
        <5>. QED
          BY <4>1, <5>1
      <4>5. [k \in DOMAIN s |-> Encode(s[k])] = [k \in DOMAIN v.list |-> Encode(v.list[k])]
        BY <2>4, <4>0, Zenon
      <4>6. Encode(v) = [list |-> [k \in DOMAIN v.list |-> Encode(v.list[k])]]
        BY <3>1, EncodeRules
      <4>. QED
        BY <4>1, <4>2, <4>3, <4>4, <4>5, <4>6
    <3>2. CASE DOMAIN v = {"tuple"}
      <4> DEFINE s == [k \in DOMAIN v.tuple |-> Normal(v.tuple[k])]
                 t == [k \in DOMAIN s |-> Normal(s[k])]
      <4>0. \A k \in DOMAIN v.tuple : v.tuple[k] \in Children(v)
        BY <3>2, ChildFacts DEF Is
      <4>1. Normal(v) = [list |-> s] /\ DOMAIN Normal(v) = {"list"} /\ Normal(v).list = s
        <5>1. Normal(v) = [list |-> s]
          BY <3>2, NormalRules
        <5> HIDE DEF s
        <5>. QED
          BY <5>1
      <4>2. Normal(Normal(v)) = [list |-> t]
        BY <2>2, <4>1, NormalRules
      <4>3. t = s
        BY <2>4, <4>0, Zenon
      <4>4. Encode(Normal(v)) = [list |-> [k \in DOMAIN s |-> Encode(s[k])]]
        <5> HIDE DEF s
        <5>1. Encode(Normal(v)) = [list |-> [k \in DOMAIN Normal(v).list |-> Encode(Normal(v).list[k])]]
          BY <2>2, <4>1, EncodeRules
        <5>. QED
          BY <4>1, <5>1
      <4>5. [k \in DOMAIN s |-> Encode(s[k])] = [k \in DOMAIN v.tuple |-> Encode(v.tuple[k])]
        BY <2>4, <4>0, Zenon
      <4>6. Encode(v) = [list |-> [k \in DOMAIN v.tuple |-> Encode(v.tuple[k])]]
        BY <3>2, EncodeRules
      <4>. QED
        BY <4>1, <4>2, <4>3, <4>4, <4>5, <4>6
    <3>3. CASE DOMAIN v = {"dict"}
      <4> DEFINE s == [k \in DOMAIN v.dict |-> Normal(v.dict[k])]
                 t == [k \in DOMAIN s |-> Normal(s[k])]
      <4>0. \A k \in DOMAIN v.dict : v.dict[k] \in Children(v)
        BY <3>3, ChildFacts DEF Is
      <4>1. Normal(v) = Dict(s) /\ DOMAIN Normal(v) = {"dict"} /\ Normal(v).dict = s
        BY <3>3, NormalRules DEF Dict
      <4>2. Normal(Normal(v)) = Dict(t)
        BY <2>2, <4>1, NormalRules
      <4>3. t = s
        BY <2>4, <4>0, Zenon
      <4>4. Encode(Normal(v)) = Dict([k \in DOMAIN s |-> Encode(s[k])])
        <5> HIDE DEF s
        <5>1. Encode(Normal(v)) = Dict([k \in DOMAIN Normal(v).dict |-> Encode(Normal(v).dict[k])])
          BY <2>2, <4>1, EncodeRules
        <5>. QED
          BY <4>1, <5>1
      <4>5. [k \in DOMAIN s |-> Encode(s[k])] = [k \in DOMAIN v.dict |-> Encode(v.dict[k])]
        BY <2>4, <4>0, Zenon
      <4>6. Encode(v) = Dict([k \in DOMAIN v.dict |-> Encode(v.dict[k])])
        BY <3>3, EncodeRules
      <4>. QED
        BY <4>1, <4>2, <4>3, <4>4, <4>5, <4>6
    <3>. QED
      BY <1>2, <3>1, <3>2, <3>3
  <2>. QED
    BY <2>1, <2>3, <2>5 DEF NormalGood
<1>. QED
  BY <1>1, <1>2, NormalCases

\* A Python value that a write accepts, or that load() returns.
Plain(v) == Fits(v) /\ IsPython(v) /\ \A p \in Parts(v) : ~ IsTagged(p)

\* The types of what has no parts, and of sets.
Basic(v) == DOMAIN v \cap {"list", "tuple", "dict"} = {}

\* The parts of a plain value are plain.
LEMMA PlainParts ==
  ASSUME NEW v, Plain(v), NEW p \in Parts(v)
  PROVE  Plain(p) /\ PythonPart(p) /\ ~ IsTagged(p)
  BY PartFacts DEF Plain, IsPython

\* The normal form of a plain value is plain, no deeper, normal, and encoded in the same way.
LEMMA NormalFacts ==
  ASSUME NEW v, Plain(v)
  PROVE  /\ Plain(Normal(v))
         /\ \A n \in Depths : Shallow(n, v) => Shallow(n, Normal(v))
         /\ Normal(Normal(v)) = Normal(v)
         /\ Encode(Normal(v)) = Encode(v)
         /\ \A q \in Parts(Normal(v)) : Basic(q) => q \in Parts(v)
<1> DEFINE G == {p \in Parts(v) : NormalGood(p)}
<1>0. Fits(v)
  BY DEF Plain
<1>1. ASSUME NEW p \in Parts(v), Fits(p), Parts(p) \subseteq Parts(v), Children(p) \subseteq G
      PROVE  p \in G
  <2>1. PythonPart(p)
    BY PlainParts
  <2>2. NormalGood(p)
    BY <1>1, <2>1, NormalGoodStep
  <2>. QED
    BY <2>2
<1> HIDE DEF G
<1>2. v \in Parts(v) /\ Parts(v) \subseteq G
  BY <1>0, <1>1, PartsInduction, PartFacts
<1> USE DEF G
<1>3. NormalGood(v)
  BY <1>2
<1>4. Fits(Normal(v))
  BY <1>0, <1>3, FitsIsShallow DEF NormalGood
<1>5. ASSUME NEW q \in Parts(Normal(v))
      PROVE  PythonPart(q) /\ ~ IsTagged(q) /\ (Basic(q) => q \in Parts(v))
  <2>1. CASE q \in Parts(v)
    BY <2>1, PlainParts
  <2>2. ASSUME NEW r \in Parts(v), q = Normal(r), q # r PROVE PythonPart(q) /\ ~ IsTagged(q) /\ ~ Basic(q)
    <3>1. Fits(r) /\ PythonPart(r) /\ ~ IsTagged(r)
      BY PlainParts DEF Plain
    <3>2. DOMAIN r \in {{"list"}, {"tuple"}, {"dict"}} /\ IsFunction(q)
      BY <2>2, <3>1, NormalCases
    <3>3. CASE DOMAIN r = {"dict"}
      <4>1. DOMAIN q = {"dict"} /\ IsFunction(q.dict) /\ DOMAIN q.dict = DOMAIN r.dict
        BY <2>2, <3>1, <3>3, NormalCases
      <4>2. TypeKey \notin DOMAIN r.dict
        BY <3>1, <3>3 DEF IsTagged, Is
      <4>. QED
        BY <3>2, <4>1, <4>2 DEF PythonPart, IsTagged, Basic
    <3>4. CASE DOMAIN r # {"dict"}
      <4>1. DOMAIN q = {"list"} /\ IsFunction(q.list)
        <5>1. CASE DOMAIN r = {"list"}
          BY <2>2, <3>1, <5>1, NormalCases
        <5>2. CASE DOMAIN r = {"tuple"}
          BY <2>2, <3>1, <5>2, NormalCases
        <5>. QED
          BY <3>2, <3>4, <5>1, <5>2
      <4>. QED
        BY <3>2, <4>1 DEF PythonPart, IsTagged, Is, Basic
    <3>. QED
      BY <3>3, <3>4
  <2>. QED
    BY <1>3, <2>1, <2>2 DEF NormalGood
<1>6. Plain(Normal(v))
  BY <1>4, <1>5 DEF Plain, IsPython
<1>. QED
  BY <1>3, <1>5, <1>6 DEF NormalGood

\* The value under a tag is a child of the tag.
LEMMA TaggedValue ==
  ASSUME NEW tag, NEW x
  PROVE  Field(Tagged(tag, x), "value") = x /\ x \in Children(Tagged(tag, x))
<1>1. Children(Tagged(tag, x)) = {[str |-> tag], x}
  BY TaggedFacts, Zenon
<1>2. Field(Tagged(tag, x), "value") = x
  BY TaggedFacts, Zenon
<1>. QED
  BY <1>1, <1>2, Zenon

-----------------------------------------------------------------------------
\* The encoding of a value tells what it is.

\* What encodings look like, by type.
LEMMA EncodeCases ==
  ASSUME NEW v, Plain(v)
  PROVE  /\ DOMAIN v \in Atoms => Encode(v) = v
         /\ DOMAIN v \in {{"list"}, {"tuple"}} => DOMAIN Encode(v) = {"list"}
         /\ DOMAIN v = {"dict"} => DOMAIN Encode(v) = {"dict"} /\ ~ IsTagged(Encode(v)) /\ DOMAIN Encode(v).dict = DOMAIN v.dict
         /\ DOMAIN v = {"set"} => /\ DOMAIN Encode(v) = {"dict"} /\ IsTagged(Encode(v))
                                  /\ Encode(v).dict[TypeKey] = [str |-> "set"]
         /\ \A kind \in Scalars : DOMAIN v = {kind} =>
              /\ DOMAIN Encode(v) = {"dict"} /\ IsTagged(Encode(v))
              /\ Encode(v).dict[TypeKey] = [str |-> kind]
<1>0. Fits(v) /\ v \in Parts(v) /\ ~ IsTagged(v)
  BY PartFacts DEF Plain
<1>1. DOMAIN v \in Atoms => Encode(v) = v
  BY <1>0, EncodeRules
<1>2. ASSUME DOMAIN v = {"list"} PROVE DOMAIN Encode(v) = {"list"}
  <2> DEFINE s == [k \in DOMAIN v.list |-> Encode(v.list[k])]
  <2>1. Encode(v) = [list |-> s]
    BY <1>0, <1>2, EncodeRules
  <2> HIDE DEF s
  <2>. QED
    BY <2>1
<1>3. ASSUME DOMAIN v = {"tuple"} PROVE DOMAIN Encode(v) = {"list"}
  <2> DEFINE s == [k \in DOMAIN v.tuple |-> Encode(v.tuple[k])]
  <2>1. Encode(v) = [list |-> s]
    BY <1>0, <1>3, EncodeRules
  <2> HIDE DEF s
  <2>. QED
    BY <2>1
<1>4. ASSUME DOMAIN v = {"dict"}
      PROVE  DOMAIN Encode(v) = {"dict"} /\ ~ IsTagged(Encode(v)) /\ DOMAIN Encode(v).dict = DOMAIN v.dict
  <2> DEFINE s == [k \in DOMAIN v.dict |-> Encode(v.dict[k])]
  <2>1. Encode(v) = [dict |-> s]
    BY <1>0, <1>4, EncodeRules DEF Dict
  <2>2. DOMAIN s = DOMAIN v.dict
    OBVIOUS
  <2> HIDE DEF s
  <2>. QED
    BY <1>0, <1>4, <2>1, <2>2 DEF IsTagged, Is
<1>5. ASSUME DOMAIN v = {"set"}
      PROVE  DOMAIN Encode(v) = {"dict"} /\ IsTagged(Encode(v)) /\ Encode(v).dict[TypeKey] = [str |-> "set"]
  <2> DEFINE x == [list |-> SetToSeq({Encode(c) : c \in v.set})]
  <2>1. Encode(v) = Tagged("set", x)
    BY <1>0, <1>5, EncodeRules
  <2> HIDE DEF x
  <2>. QED
    BY <2>1, TaggedFacts
<1>6. ASSUME NEW kind \in Scalars, DOMAIN v = {kind}
      PROVE  /\ DOMAIN Encode(v) = {"dict"} /\ IsTagged(Encode(v))
             /\ Encode(v).dict[TypeKey] = [str |-> kind]
  <2>1. Encode(v) = Tagged(kind, [str |-> v[kind]])
    BY <1>0, <1>6, EncodeRules
  <2>. QED
    BY <2>1, TaggedFacts
<1>. QED
  BY <1>1, <1>2, <1>3, <1>4, <1>5, <1>6
-----------------------------------------------------------------------------
\* The encoding tells values apart

\* Records of one field are equal when the fields are.
LEMMA FieldsTell ==
  ASSUME NEW s, NEW t
  PROVE  /\ [list |-> s] = [list |-> t] => s = t
         /\ [dict |-> s] = [dict |-> t] => s = t
         /\ [str |-> s] = [str |-> t] => s = t
<1>1. [list |-> s].list = s /\ [list |-> t].list = t
  OBVIOUS
<1>2. [dict |-> s].dict = s /\ [dict |-> t].dict = t
  OBVIOUS
<1>3. [str |-> s].str = s /\ [str |-> t].str = t
  OBVIOUS
<1>4. [list |-> s] = [list |-> t] => s = t
  BY <1>1, Zenon
<1>5. [dict |-> s] = [dict |-> t] => s = t
  BY <1>2, Zenon
<1>6. [str |-> s] = [str |-> t] => s = t
  BY <1>3, Zenon
<1>. QED
  BY <1>4, <1>5, <1>6

\* The encoding tells the type, up to lists and tuples.
LEMMA EncodeTellsType ==
  ASSUME NEW v, Plain(v)
  PROVE  /\ DOMAIN Encode(v) \in Atoms => DOMAIN v \in Atoms
         /\ DOMAIN Encode(v) = {"list"} => DOMAIN v \in {{"list"}, {"tuple"}}
         /\ DOMAIN Encode(v) = {"dict"} /\ ~ IsTagged(Encode(v)) => DOMAIN v = {"dict"}
         /\ IsTagged(Encode(v)) /\ Encode(v).dict[TypeKey] = [str |-> "set"] => DOMAIN v = {"set"}
         /\ \A kind \in Scalars :
              IsTagged(Encode(v)) /\ Encode(v).dict[TypeKey] = [str |-> kind] => DOMAIN v = {kind}
<1>0. PythonPart(v)
  BY PartFacts DEF Plain, IsPython
<1>1. CASE DOMAIN v \in Atoms
  <2>1. Encode(v) = v
    BY <1>1, EncodeCases
  <2>. QED
    BY <1>1, <2>1 DEF Atoms, IsTagged, Is
<1>2. CASE DOMAIN v \in {{"list"}, {"tuple"}}
  <2>1. DOMAIN Encode(v) = {"list"}
    BY <1>2, EncodeCases
  <2>. QED
    BY <1>2, <2>1 DEF Atoms, IsTagged, Is
<1>3. CASE DOMAIN v = {"dict"}
  <2>1. DOMAIN Encode(v) = {"dict"} /\ ~ IsTagged(Encode(v))
    BY <1>3, EncodeCases
  <2>. QED
    BY <1>3, <2>1 DEF Atoms
<1>4. CASE DOMAIN v = {"set"}
  <2>1. DOMAIN Encode(v) = {"dict"} /\ IsTagged(Encode(v)) /\ Encode(v).dict[TypeKey] = [str |-> "set"]
    BY <1>4, EncodeCases
  <2>2. \A kind \in Scalars : [str |-> kind] # [str |-> "set"]
    BY FieldsTell DEF Scalars
  <2>. QED
    BY <1>4, <2>1, <2>2 DEF Atoms
<1>5. ASSUME NEW kind \in Scalars, DOMAIN v = {kind}
      PROVE  /\ DOMAIN Encode(v) \notin Atoms
             /\ DOMAIN Encode(v) # {"list"} /\ IsTagged(Encode(v))
             /\ Encode(v).dict[TypeKey] # [str |-> "set"]
             /\ \A other \in Scalars : Encode(v).dict[TypeKey] = [str |-> other] => DOMAIN v = {other}
  <2>1. DOMAIN Encode(v) = {"dict"} /\ IsTagged(Encode(v)) /\ Encode(v).dict[TypeKey] = [str |-> kind]
    BY <1>5, EncodeCases
  <2>2. \A other : [str |-> kind] = [str |-> other] => kind = other
    BY FieldsTell
  <2>3. kind # "set"
    BY DEF Scalars
  <2>. QED
    BY <1>5, <2>1, <2>2, <2>3 DEF Atoms
<1>6. CASE \E kind \in Scalars : DOMAIN v = {kind}
  BY <1>5, <1>6
<1>7. \/ DOMAIN v \in Atoms \/ DOMAIN v \in {{"list"}, {"tuple"}} \/ DOMAIN v = {"dict"} \/ DOMAIN v = {"set"}
      \/ \E kind \in Scalars : DOMAIN v = {kind}
  BY <1>0, PythonCases
<1>. QED
  BY <1>1, <1>2, <1>3, <1>4, <1>6, <1>7

\* Two values with one encoding have one normal form, and hashable ones are equal.
Same(v, w) ==
  Encode(v) = Encode(w) => Normal(v) = Normal(w) /\ (Hashable(v) /\ Hashable(w) => v = w)

\* The items of a list or a tuple.
Items(v) == IF DOMAIN v = {"list"} THEN v.list ELSE v.tuple

\* Lists and tuples are encoded item by item.
LEMMA ItemsFacts ==
  ASSUME NEW v, Fits(v), DOMAIN v \in {{"list"}, {"tuple"}}
  PROVE  /\ Encode(v) = [list |-> [k \in DOMAIN Items(v) |-> Encode(Items(v)[k])]]
         /\ Normal(v) = [list |-> [k \in DOMAIN Items(v) |-> Normal(Items(v)[k])]]
         /\ \A k \in DOMAIN Items(v) : Items(v)[k] \in Children(v)
         /\ PythonPart(v) => Items(v) = [k \in DOMAIN Items(v) |-> Items(v)[k]]
<1>1. CASE DOMAIN v = {"list"}
  <2>1. Items(v) = v.list
    BY <1>1 DEF Items
  <2>2. \A k \in DOMAIN v.list : v.list[k] \in Children(v)
    BY <1>1, ChildFacts DEF Is
  <2>3. /\ Encode(v) = [list |-> [k \in DOMAIN v.list |-> Encode(v.list[k])]]
        /\ Normal(v) = [list |-> [k \in DOMAIN v.list |-> Normal(v.list[k])]]
    BY <1>1, EncodeRules, NormalRules
  <2>4. PythonPart(v) => v.list = [k \in DOMAIN v.list |-> v.list[k]]
    BY <1>1, PythonCases DEF Atoms, Scalars
  <2>. QED
    BY <2>1, <2>2, <2>3, <2>4
<1>2. CASE DOMAIN v = {"tuple"}
  <2>1. Items(v) = v.tuple
    BY <1>2 DEF Items
  <2>2. \A k \in DOMAIN v.tuple : v.tuple[k] \in Children(v)
    BY <1>2, ChildFacts DEF Is
  <2>3. /\ Encode(v) = [list |-> [k \in DOMAIN v.tuple |-> Encode(v.tuple[k])]]
        /\ Normal(v) = [list |-> [k \in DOMAIN v.tuple |-> Normal(v.tuple[k])]]
    BY <1>2, EncodeRules, NormalRules
  <2>4. PythonPart(v) => v.tuple = [k \in DOMAIN v.tuple |-> v.tuple[k]]
    BY <1>2, PythonCases DEF Atoms, Scalars
  <2>. QED
    BY <2>1, <2>2, <2>3, <2>4
<1>. QED
  BY <1>1, <1>2

\* A hashable value holds hashable values.
LEMMA HashableFacts ==
  ASSUME NEW v, Fits(v), Hashable(v)
  PROVE  /\ DOMAIN v \cap {"list", "dict", "set"} = {}
         /\ \A c \in Children(v) : Hashable(c)
<1>1. v \in Parts(v) /\ \A c \in Children(v) : Parts(c) \subseteq Parts(v)
  BY PartsFacts
<1>. QED
  BY <1>1 DEF Hashable

\* Two values with one encoding have one normal form, when this holds of their children.
LEMMA SameStep ==
  ASSUME NEW v, NEW w, Plain(v), Plain(w), \A c \in Children(v), d \in Children(w) : Same(c, d)
  PROVE  Same(v, w)
<1> SUFFICES ASSUME Encode(v) = Encode(w)
             PROVE  Normal(v) = Normal(w) /\ (Hashable(v) /\ Hashable(w) => v = w)
  BY DEF Same
<1>0. /\ Fits(v) /\ Fits(w) /\ PythonPart(v) /\ PythonPart(w)
      /\ v \in Parts(v) /\ w \in Parts(w)
  BY PartFacts DEF Plain, IsPython
<1>1. CASE DOMAIN v \in Atoms
  <2>1. Encode(v) = v
    BY <1>1, EncodeCases
  <2>2. DOMAIN w \in Atoms
    BY <1>1, <2>1, EncodeTellsType
  <2>. QED
    BY <2>1, <2>2, EncodeCases
<1>2. CASE DOMAIN v \in {{"list"}, {"tuple"}}
  <2>1. DOMAIN Encode(v) = {"list"}
    BY <1>2, EncodeCases
  <2>2. DOMAIN w \in {{"list"}, {"tuple"}}
    BY <2>1, EncodeTellsType
  <2> DEFINE s == [k \in DOMAIN Items(v) |-> Encode(Items(v)[k])]
             t == [k \in DOMAIN Items(w) |-> Encode(Items(w)[k])]
  <2>3. Encode(v) = [list |-> s] /\ Encode(w) = [list |-> t]
    BY <1>0, <1>2, <2>2, ItemsFacts
  <2>4. s = t
    <3> HIDE DEF s, t
    <3>. QED
      BY <2>3, FieldsTell
  <2>5. DOMAIN Items(v) = DOMAIN Items(w) /\ \A k \in DOMAIN Items(v) : Encode(Items(v)[k]) = Encode(Items(w)[k])
    BY <2>4
  <2> HIDE DEF s, t
  <2>6. \A k \in DOMAIN Items(v) : Same(Items(v)[k], Items(w)[k])
    BY <1>0, <1>2, <2>2, <2>5, ItemsFacts
  <2>7. Normal(v) = Normal(w)
    <3>1. \A k \in DOMAIN Items(v) : Normal(Items(v)[k]) = Normal(Items(w)[k])
      BY <2>5, <2>6 DEF Same
    <3>2. [k \in DOMAIN Items(v) |-> Normal(Items(v)[k])] = [k \in DOMAIN Items(w) |-> Normal(Items(w)[k])]
      BY <2>5, <3>1
    <3>. QED
      BY <1>0, <1>2, <2>2, <3>2, ItemsFacts
  <2>8. ASSUME Hashable(v), Hashable(w) PROVE v = w
    <3>1. DOMAIN v = {"tuple"} /\ DOMAIN w = {"tuple"}
      BY <1>0, <1>2, <2>2, <2>8, HashableFacts
    <3>2. \A k \in DOMAIN Items(v) : Hashable(Items(v)[k]) /\ Hashable(Items(w)[k])
      BY <1>0, <1>2, <2>2, <2>5, <2>8, HashableFacts, ItemsFacts
    <3>3. \A k \in DOMAIN Items(v) : Items(v)[k] = Items(w)[k]
      BY <2>5, <2>6, <3>2 DEF Same
    <3>4. Items(v) = [k \in DOMAIN Items(v) |-> Items(v)[k]] /\ Items(w) = [k \in DOMAIN Items(w) |-> Items(w)[k]]
      BY <1>0, <1>2, <2>2, ItemsFacts
    <3>5. Items(v) = Items(w)
      BY <2>5, <3>3, <3>4, Zenon
    <3>6. v = [tuple |-> v.tuple] /\ w = [tuple |-> w.tuple]
      BY <1>0, <3>1, PythonCases DEF Atoms, Scalars
    <3>. QED
      BY <3>1, <3>5, <3>6 DEF Items
  <2>. QED
    BY <2>7, <2>8
<1>3. CASE DOMAIN v = {"dict"}
  <2>1. DOMAIN Encode(v) = {"dict"} /\ ~ IsTagged(Encode(v))
    BY <1>3, EncodeCases
  <2>2. DOMAIN w = {"dict"}
    BY <2>1, EncodeTellsType
  <2> DEFINE s == [k \in DOMAIN v.dict |-> Encode(v.dict[k])]
             t == [k \in DOMAIN w.dict |-> Encode(w.dict[k])]
  <2>3. Encode(v) = [dict |-> s] /\ Encode(w) = [dict |-> t]
    BY <1>0, <1>3, <2>2, EncodeRules DEF Dict
  <2>4. s = t
    <3> HIDE DEF s, t
    <3>. QED
      BY <2>3, FieldsTell
  <2>5. DOMAIN v.dict = DOMAIN w.dict /\ \A k \in DOMAIN v.dict : Encode(v.dict[k]) = Encode(w.dict[k])
    BY <2>4
  <2> HIDE DEF s, t
  <2>6. \A k \in DOMAIN v.dict : Same(v.dict[k], w.dict[k])
    BY <1>3, <2>2, <2>5, ChildFacts DEF Is
  <2>7. \A k \in DOMAIN v.dict : Normal(v.dict[k]) = Normal(w.dict[k])
    BY <2>5, <2>6 DEF Same
  <2>8. [k \in DOMAIN v.dict |-> Normal(v.dict[k])] = [k \in DOMAIN w.dict |-> Normal(w.dict[k])]
    BY <2>5, <2>7
  <2>9. Normal(v) = Normal(w)
    BY <1>0, <1>3, <2>2, <2>8, NormalRules
  <2>. QED
    BY <1>0, <1>3, <2>9, HashableFacts
<1>4. CASE DOMAIN v = {"set"}
  <2>1. DOMAIN Encode(v) = {"dict"} /\ IsTagged(Encode(v)) /\ Encode(v).dict[TypeKey] = [str |-> "set"]
    BY <1>4, EncodeCases
  <2>3. DOMAIN w = {"set"}
    BY <2>1, EncodeTellsType
  <2> DEFINE A == {Encode(c) : c \in v.set}
             B == {Encode(c) : c \in w.set}
  <2>4. Encode(v) = Tagged("set", [list |-> SetToSeq(A)]) /\ Encode(w) = Tagged("set", [list |-> SetToSeq(B)])
    BY <1>0, <1>4, <2>3, EncodeRules
  <2>5. /\ IsFiniteSet(v.set) /\ (\A c \in v.set : Hashable(c)) /\ v = [set |-> v.set]
        /\ IsFiniteSet(w.set) /\ (\A c \in w.set : Hashable(c)) /\ w = [set |-> w.set]
    BY <1>0, <1>4, <2>3, PythonCases DEF Atoms, Scalars
  <2>6. IsFiniteSet(A) /\ IsFiniteSet(B)
    <3> DEFINE f == [c \in v.set |-> Encode(c)]
               g == [c \in w.set |-> Encode(c)]
    <3>1. DOMAIN f = v.set /\ DOMAIN g = w.set /\ Range(f) = A /\ Range(g) = B
      BY DEF Range
    <3> HIDE DEF f, g, A, B
    <3>. QED
      BY <2>5, <3>1, FiniteRange
  <2>7. A = B
    <3> HIDE DEF A, B
    <3>1. /\ Field(Encode(v), "value") = [list |-> SetToSeq(A)]
          /\ Field(Encode(w), "value") = [list |-> SetToSeq(B)]
      BY <2>4, TaggedValue, Zenon
    <3>2. SetToSeq(A) = SetToSeq(B)
      BY <3>1, FieldsTell
    <3>. QED
      BY <2>6, <3>2, SetToSeqFacts
  <2>8. v.set = w.set
    <3>1. \A c \in v.set, d \in w.set : Encode(c) = Encode(d) => c = d
      BY <1>4, <2>3, <2>5, ChildFacts DEF Same, Is
    <3>2. \A c \in v.set : \E d \in w.set : Encode(c) = Encode(d)
      BY <2>7
    <3>3. \A d \in w.set : \E c \in v.set : Encode(c) = Encode(d)
      BY <2>7
    <3>. QED
      BY <3>1, <3>2, <3>3
  <2>. QED
    BY <2>5, <2>8
<1>5. ASSUME NEW kind \in Scalars, DOMAIN v = {kind} PROVE v = w
  <2>1. DOMAIN Encode(v) = {"dict"} /\ IsTagged(Encode(v)) /\ Encode(v).dict[TypeKey] = [str |-> kind]
    BY <1>5, EncodeCases
  <2>3. DOMAIN w = {kind}
    BY <2>1, EncodeTellsType
  <2>4. Encode(v) = Tagged(kind, [str |-> v[kind]]) /\ Encode(w) = Tagged(kind, [str |-> w[kind]])
    BY <1>0, <1>5, <2>3, EncodeRules
  <2>5. /\ Field(Encode(v), "value") = [str |-> v[kind]]
        /\ Field(Encode(w), "value") = [str |-> w[kind]]
    BY <2>4, TaggedValue, Zenon
  <2>6. v[kind] = w[kind]
    BY <2>5, FieldsTell
  <2>7. v = [x \in DOMAIN v |-> v[x]] /\ w = [x \in DOMAIN w |-> w[x]]
    BY <1>0 DEF PythonPart, IsFunction
  <2>. QED
    BY <1>5, <2>3, <2>6, <2>7
<1>6. CASE \E kind \in Scalars : DOMAIN v = {kind}
  BY <1>5, <1>6
<1>. QED
  BY <1>0, <1>1, <1>2, <1>3, <1>4, <1>6, PythonCases

\* Values with one encoding differ at most in tuples that are lists in the other.
THEOREM EncodeTells ==
  ASSUME NEW v, NEW w, Plain(v), Plain(w), Encode(v) = Encode(w)
  PROVE  Normal(v) = Normal(w)
<1> DEFINE G == {p \in Parts(v) : \A q \in Parts(w) : Same(p, q)}
<1>0. Fits(v) /\ Fits(w) /\ v \in Parts(v) /\ w \in Parts(w)
  BY PartFacts DEF Plain
<1>1. ASSUME NEW p \in Parts(v), Fits(p), Parts(p) \subseteq Parts(v), Children(p) \subseteq G
      PROVE  p \in G
  <2>1. ASSUME NEW q \in Parts(w) PROVE Same(p, q)
    <3>1. Plain(p) /\ Plain(q)
      BY PlainParts
    <3>2. Children(q) \subseteq Parts(w)
      BY <1>0, PartFacts
    <3>3. \A c \in Children(p), d \in Children(q) : Same(c, d)
      BY <1>1, <3>2
    <3>. QED
      BY <3>1, <3>3, SameStep
  <2>. QED
    BY <2>1
<1> HIDE DEF G
<1>2. Parts(v) \subseteq G
  BY <1>0, <1>1, PartsInduction
<1> USE DEF G
<1>. QED
  BY <1>0, <1>2 DEF Same
-----------------------------------------------------------------------------
\* What is encoded is decoded to its normal form

\* No Python value is the mark of an exception.
LEMMA NotRaised ==
  ASSUME NEW v, PythonPart(v)
  PROVE  v # Raised
<1>1. DOMAIN Raised = {"raised"}
  BY DEF Raised
<1>2. DOMAIN v # {"raised"}
  BY DEF PythonPart, Scalars
<1>. QED
  BY <1>1, <1>2

\* What is decoded from the encoding of a value is its normal form; in a set, it is the
\* value itself.
Back(v) ==
  Fits(Encode(v)) => Decode(Encode(v)) = Normal(v) /\ (Hashable(v) => Member(Encode(v)) = v)

\* A value comes back when its children do.
LEMMA BackStep ==
  ASSUME NEW v, Plain(v), \A c \in Children(v) : Plain(c) /\ Back(c)
  PROVE  Back(v)
<1> SUFFICES ASSUME Fits(Encode(v))
             PROVE  Decode(Encode(v)) = Normal(v) /\ (Hashable(v) => Member(Encode(v)) = v)
  BY DEF Back
<1>0. Fits(v) /\ PythonPart(v) /\ v \in Parts(v)
  BY PartFacts DEF Plain, IsPython
<1>1. CASE DOMAIN v \in Atoms
  <2>1. Encode(v) = v
    BY <1>1, EncodeCases
  <2>2. Decode(v) = v /\ Normal(v) = v
    BY <1>0, <1>1, DecodeRules, NormalRules DEF Atoms
  <2>3. Member(v) = v
    <3>1. "list" \notin DOMAIN v /\ ~ Is(v, "dict") /\ ~ Is(v, "set")
      BY <1>1 DEF Atoms, Is
    <3>2. Member(v) = IF Is(Decode(v), "dict") \/ Is(Decode(v), "set") THEN Raised ELSE Decode(v)
      BY <1>0, <3>1, MemberRules
    <3>. QED
      BY <2>2, <3>1, <3>2
  <2>. QED
    BY <2>1, <2>2, <2>3
<1>2. CASE DOMAIN v \in {{"list"}, {"tuple"}}
  <2> DEFINE s == [k \in DOMAIN Items(v) |-> Encode(Items(v)[k])]
  <2>1. Encode(v) = [list |-> s]
    BY <1>0, <1>2, ItemsFacts
  <2>2. DOMAIN s = DOMAIN Items(v) /\ \A k \in DOMAIN s : s[k] = Encode(Items(v)[k])
    OBVIOUS
  <2> HIDE DEF s
  <2>3. DOMAIN Encode(v) = {"list"} /\ Encode(v).list = s
    BY <2>1
  <2>4. \A k \in DOMAIN s : Fits(s[k])
    <3>1. \A k \in DOMAIN s : s[k] \in Children(Encode(v))
      BY <2>3, ChildFacts DEF Is
    <3>. QED
      BY <3>1, PartsFacts
  <2>5. ASSUME NEW k \in DOMAIN s
        PROVE  /\ Decode(s[k]) = Normal(Items(v)[k]) /\ Normal(Items(v)[k]) # Raised
               /\ Hashable(Items(v)[k]) => Member(s[k]) = Items(v)[k] /\ Items(v)[k] # Raised
    <3>1. Plain(Items(v)[k]) /\ Back(Items(v)[k])
      BY <1>0, <1>2, <2>2, ItemsFacts
    <3>2. PythonPart(Items(v)[k]) /\ PythonPart(Normal(Items(v)[k]))
      <4>1. Plain(Normal(Items(v)[k]))
        BY <3>1, NormalFacts
      <4>. QED
        BY <3>1, <4>1, PartFacts DEF Plain, IsPython
    <3>. QED
      BY <2>2, <2>4, <3>1, <3>2, NotRaised DEF Back
  <2>6. Decode(Encode(v)) = Normal(v)
    <3>1. Decode(Encode(v)) = Unless(Decoded(s), [list |-> Decoded(s)])
      BY <2>3, DecodeRules
    <3>2. Decoded(s) = [k \in DOMAIN Items(v) |-> Normal(Items(v)[k])]
      BY <2>2, <2>5, Zenon DEF Decoded
    <3>3. Raised \notin Range(Decoded(s))
      BY <2>2, <2>5, <3>2 DEF Range
    <3>. QED
      BY <1>0, <1>2, <3>1, <3>2, <3>3, ItemsFacts DEF Unless
  <2>7. ASSUME Hashable(v) PROVE Member(Encode(v)) = v
    <3>1. DOMAIN v = {"tuple"} /\ \A k \in DOMAIN s : Hashable(Items(v)[k])
      BY <1>0, <1>2, <2>2, <2>7, HashableFacts, ItemsFacts
    <3>2. Member(Encode(v)) = Unless(Members(s), [tuple |-> Members(s)])
      BY <2>3, MemberRules
    <3>3. \A k \in DOMAIN s : Member(s[k]) = Items(v)[k] /\ Items(v)[k] # Raised
      BY <2>5, <3>1
    <3>4. Items(v) = [k \in DOMAIN Items(v) |-> Items(v)[k]]
      BY <1>0, <1>2, ItemsFacts
    <3>5. Members(s) = [k \in DOMAIN Items(v) |-> Items(v)[k]]
      BY <2>2, <3>3, Zenon DEF Members
    <3>6. Raised \notin Range(Members(s))
      BY <2>2, <3>3, <3>5 DEF Range
    <3>7. v = [tuple |-> v.tuple] /\ Items(v) = v.tuple
      BY <1>0, <3>1, PythonCases DEF Atoms, Scalars, Items
    <3>. QED
      BY <3>2, <3>4, <3>5, <3>6, <3>7 DEF Unless
  <2>. QED
    BY <2>6, <2>7
<1>3. CASE DOMAIN v = {"dict"}
  <2> DEFINE s == [k \in DOMAIN v.dict |-> Encode(v.dict[k])]
  <2>1. Encode(v) = [dict |-> s]
    BY <1>0, <1>3, EncodeRules DEF Dict
  <2>2. DOMAIN s = DOMAIN v.dict /\ \A k \in DOMAIN s : s[k] = Encode(v.dict[k])
    OBVIOUS
  <2> HIDE DEF s
  <2>3. DOMAIN Encode(v) = {"dict"} /\ Encode(v).dict = s
    BY <2>1
  <2>4. \A k \in DOMAIN s : Fits(s[k])
    <3>1. \A k \in DOMAIN s : s[k] \in Children(Encode(v))
      BY <2>3, ChildFacts DEF Is
    <3>. QED
      BY <3>1, PartsFacts
  <2>5. ASSUME NEW k \in DOMAIN s PROVE Decode(s[k]) = Normal(v.dict[k]) /\ Normal(v.dict[k]) # Raised
    <3>1. Plain(v.dict[k]) /\ Back(v.dict[k])
      BY <1>3, <2>2, ChildFacts DEF Is
    <3>2. PythonPart(Normal(v.dict[k]))
      <4>1. Plain(Normal(v.dict[k]))
        BY <3>1, NormalFacts
      <4>. QED
        BY <4>1, PartFacts DEF Plain, IsPython
    <3>. QED
      BY <2>2, <2>4, <3>1, <3>2, NotRaised DEF Back
  <2>6. Decode(Encode(v)) = Normal(v)
    <3>0. ~ IsTagged(Encode(v))
      BY <1>3, EncodeCases
    <3>1. Decode(Encode(v)) = Unless(Decoded(s), Dict(Decoded(s)))
      BY <2>3, <3>0, DecodeRules
    <3>2. Decoded(s) = [k \in DOMAIN v.dict |-> Normal(v.dict[k])]
      BY <2>2, <2>5, Zenon DEF Decoded
    <3>3. Raised \notin Range(Decoded(s))
      BY <2>2, <2>5, <3>2 DEF Range
    <3>. QED
      BY <1>0, <1>3, <3>1, <3>2, <3>3, NormalRules DEF Unless
  <2>. QED
    BY <1>0, <1>3, <2>6, HashableFacts
<1>4. CASE DOMAIN v = {"set"}
  <2> DEFINE A == {Encode(c) : c \in v.set}
             q == SetToSeq(A)
             raw == [list |-> q]
  <2>1. Encode(v) = Tagged("set", raw)
    BY <1>0, <1>4, EncodeRules
  <2>2. IsFiniteSet(v.set) /\ (\A c \in v.set : Hashable(c)) /\ v = [set |-> v.set]
    BY <1>0, <1>4, PythonCases DEF Atoms, Scalars
  <2>3. IsFiniteSet(A)
    <3> DEFINE f == [c \in v.set |-> Encode(c)]
    <3>1. DOMAIN f = v.set /\ Range(f) = A
      BY DEF Range
    <3> HIDE DEF f, A
    <3>. QED
      BY <2>2, <3>1, FiniteRange
  <2>4. Range(q) = A
    <3> HIDE DEF A
    <3>. QED
      BY <2>3, SetToSeqFacts
  <2> HIDE DEF q
  <2>5. DOMAIN raw = {"list"} /\ raw.list = q /\ Is(raw, "list")
    BY DEF Is
  <2> HIDE DEF raw
  <2>6. Fits(raw) /\ \A k \in DOMAIN q : Fits(q[k])
    <3>1. raw \in Children(Encode(v))
      BY <2>1, TaggedValue, Zenon
    <3>2. Fits(raw)
      BY <3>1, PartsFacts
    <3>3. \A k \in DOMAIN q : q[k] \in Children(raw)
      BY <2>5, ChildFacts
    <3>. QED
      BY <3>2, <3>3, PartsFacts
  <2>7. ASSUME NEW k \in DOMAIN q PROVE \E c \in v.set : q[k] = Encode(c) /\ Member(q[k]) = c /\ c # Raised
    <3>1. PICK c \in v.set : q[k] = Encode(c)
      <4>1. q[k] \in Range(q)
        BY DEF Range
      <4>. QED
        BY <2>4, <4>1
    <3>2. Plain(c) /\ Back(c) /\ Hashable(c)
      BY <1>4, <2>2, ChildFacts DEF Is
    <3>3. Member(q[k]) = c
      BY <2>6, <3>1, <3>2 DEF Back
    <3>4. PythonPart(c)
      BY <3>2, PartFacts DEF Plain, IsPython
    <3>. QED
      BY <3>1, <3>3, <3>4, NotRaised
  <2>8. Range(Members(q)) = v.set
    <3>1. DOMAIN Members(q) = DOMAIN q /\ \A k \in DOMAIN q : Members(q)[k] = Member(q[k])
      BY DEF Members
    <3>2. Range(Members(q)) \subseteq v.set
      BY <2>7, <3>1 DEF Range
    <3>3. ASSUME NEW c \in v.set PROVE c \in Range(Members(q))
      <4>1. Encode(c) \in Range(q)
        BY <2>4
      <4>2. PICK k \in DOMAIN q : q[k] = Encode(c)
        BY <4>1 DEF Range
      <4>3. Plain(c) /\ Back(c) /\ Hashable(c)
        BY <1>4, <2>2, ChildFacts DEF Is
      <4>4. Member(q[k]) = c
        BY <2>6, <4>2, <4>3 DEF Back
      <4>. QED
        BY <3>1, <4>2, <4>4 DEF Range
    <3>. QED
      BY <3>2, <3>3
  <2>9. Raised \notin Range(Members(q))
    <3>1. \A c \in v.set : c # Raised
      <4>1. \A c \in v.set : Plain(c)
        BY <1>4, ChildFacts DEF Is
      <4>2. \A c \in v.set : PythonPart(c)
        BY <4>1, PartFacts DEF Plain, IsPython
      <4>. QED
        BY <4>2, NotRaised
    <3>. QED
      BY <2>8, <3>1
  <2>10. Decode(Encode(v)) = Unless(Members(q), [set |-> Range(Members(q))])
    <3>1. /\ DOMAIN Encode(v) = {"dict"} /\ IsTagged(Encode(v))
          /\ Encode(v).dict[TypeKey] = [str |-> "set"] /\ Field(Encode(v), "value") = raw
      BY <2>1, TaggedFacts
    <3>2. [str |-> "set"].str \notin Scalars
      BY DEF Scalars
    <3>. QED
      BY <2>5, <3>1, <3>2, DecodeRules
  <2>11. Decode(Encode(v)) = v
    BY <2>2, <2>8, <2>9, <2>10 DEF Unless
  <2>12. Normal(v) = v
    BY <1>0, <1>4, NormalRules
  <2>. QED
    BY <1>0, <1>4, <2>11, <2>12, HashableFacts
<1>5. ASSUME NEW kind \in Scalars, DOMAIN v = {kind}
      PROVE  Decode(Encode(v)) = v /\ Normal(v) = v /\ Member(Encode(v)) = v
  <2>1. Encode(v) = Tagged(kind, [str |-> v[kind]])
    BY <1>0, <1>5, EncodeRules
  <2>2. v[kind] \in DOMAIN Spelled(kind) /\ Spelled(kind)[v[kind]] = v[kind]
    BY <1>0, <1>5 DEF PythonPart, Scalars
  <2>3. v = [k \in {kind} |-> v[kind]]
    <3>1. v = [k \in DOMAIN v |-> v[k]]
      BY <1>0 DEF PythonPart, IsFunction
    <3>. QED
      BY <1>5, <3>1
  <2> DEFINE tag == [str |-> kind]
             raw == [str |-> v[kind]]
  <2>4. Is(tag, "str") /\ tag.str = kind /\ Is(raw, "str") /\ raw.str = v[kind]
    BY DEF Is
  <2> HIDE DEF tag, raw
  <2>5. /\ DOMAIN Encode(v) = {"dict"} /\ IsTagged(Encode(v))
        /\ Encode(v).dict[TypeKey] = tag /\ Field(Encode(v), "value") = raw
    BY <2>1, TaggedFacts DEF tag, raw
  <2>6. Decode(Encode(v)) = [k \in {tag.str} |-> Spelled(tag.str)[raw.str]]
    <3>1. Is(tag, "str") /\ tag.str \in Scalars /\ Is(raw, "str") /\ raw.str \in DOMAIN Spelled(tag.str)
      BY <2>2, <2>4
    <3>. QED
      BY <2>5, <3>1, DecodeRules
  <2>7. Decode(Encode(v)) = v
    BY <2>2, <2>3, <2>4, <2>6
  <2>8. Normal(v) = v
    BY <1>0, <1>5, NormalRules DEF Scalars
  <2>9. Member(Encode(v)) = v
    <3>1. ~ Is(v, "dict") /\ ~ Is(v, "set")
      BY <1>5 DEF Is, Scalars
    <3>. QED
      BY <2>5, <2>7, <3>1, MemberRules
  <2>. QED
    BY <2>7, <2>8, <2>9
<1>6. CASE \E kind \in Scalars : DOMAIN v = {kind}
  BY <1>5, <1>6
<1>. QED
  BY <1>0, <1>1, <1>2, <1>3, <1>4, <1>6, PythonCases

\* loads(dumps(v)) is v, with tuples turned into lists outside of sets: for every value of the
\* supported types without reserved keys, whatever its nesting.
THEOREM RoundTrip ==
  ASSUME NEW v, Plain(v), Fits(Encode(v))
  PROVE  Decode(Encode(v)) = Normal(v)
<1> DEFINE G == {p \in Parts(v) : Back(p)}
<1>0. Fits(v) /\ v \in Parts(v)
  BY PartFacts DEF Plain
<1>1. ASSUME NEW p \in Parts(v), Fits(p), Parts(p) \subseteq Parts(v), Children(p) \subseteq G
      PROVE  p \in G
  <2>1. Plain(p) /\ \A c \in Children(p) : Plain(c) /\ Back(c)
    BY <1>1, PlainParts
  <2>. QED
    BY <2>1, BackStep
<1> HIDE DEF G
<1>2. Parts(v) \subseteq G
  BY <1>0, <1>1, PartsInduction
<1> USE DEF G
<1>. QED
  BY <1>0, <1>2 DEF Back
-----------------------------------------------------------------------------
\* What is decoded from a file that anyone may have written

\* The atoms of JSON.
Letters == {{"const"}, {"num"}, {"str"}, {"sha"}}

\* What a part of the value that was decoded from j is: atoms are those of j, except that
\* a tagged "nan" gives the NaN of Decimal.
FromFile(q, j) ==
  /\ PythonPart(q) /\ ~ IsTagged(q) /\ ~ Is(q, "other")
  /\ DOMAIN q \in Letters => q \in Parts(j)
  /\ q = [decimal |-> "nan"] =>
       \E p \in Parts(j) : /\ IsTagged(p) /\ p.dict[TypeKey] = [str |-> "decimal"]
                           /\ Field(p, "value") = [str |-> "nan"]

\* w is no deeper than v.
NoDeeper(v, w) == \A n \in Depths : Shallow(n, v) => Shallow(n, w)

\* What is decoded from j is no deeper, comes from j, and is normal; in a set, it is hashable.
DecodeGood(j) ==
  /\ Decode(j) # Raised =>
       /\ NoDeeper(j, Decode(j))
       /\ \A q \in Parts(Decode(j)) : FromFile(q, j)
       /\ Normal(Decode(j)) = Decode(j)
  /\ Member(j) # Raised =>
       /\ NoDeeper(j, Member(j))
       /\ \A q \in Parts(Member(j)) : FromFile(q, j)
       /\ Hashable(Member(j))

\* A text that _decode_tagged() accepts is written in one way.
LEMMA SpelledFacts ==
  ASSUME NEW tag \in Scalars, NEW text \in DOMAIN Spelled(tag)
  PROVE  /\ Spelled(tag)[text] \in DOMAIN Spelled(tag)
         /\ Spelled(tag)[Spelled(tag)[text]] = Spelled(tag)[text]
         /\ tag = "decimal" /\ Spelled(tag)[text] = "nan" => text = "nan"
<1> DEFINE texts == {"t", "t+", "u"} \cup (CASE tag = "bytes" -> {""} [] tag = "decimal" -> {"nan"} [] OTHER -> {})
<1>1. Spelled(tag) = [s \in texts |-> IF s = "t+" THEN "t" ELSE s]
  BY DEF Spelled
<1>2. "t" \in texts
  OBVIOUS
<1> HIDE DEF texts
<1>3. text \in texts /\ Spelled(tag)[text] = IF text = "t+" THEN "t" ELSE text
  BY <1>1
<1>. QED
  BY <1>1, <1>2, <1>3

\* What comes from a part of a file comes from the file.
LEMMA FromFileOfPart ==
  ASSUME NEW j, NEW c, Parts(c) \subseteq Parts(j), NEW q, FromFile(q, c)
  PROVE  FromFile(q, j)
  BY DEF FromFile

\* A composed value is as good as what it is composed of.
LEMMA Composed ==
  ASSUME NEW j, Fits(j), NEW w, PythonPart(w), ~ IsTagged(w),
         DOMAIN w \in {{"list"}, {"tuple"}, {"dict"}, {"set"}},
         \A d \in Children(w) : \E c \in Children(j) :
           NoDeeper(c, d) /\ \A q \in Parts(d) : FromFile(q, j)
  PROVE  NoDeeper(j, w) /\ Fits(w) /\ \A q \in Parts(w) : FromFile(q, j)
<1>1. NoDeeper(j, w)
  BY DepthOfImage DEF NoDeeper
<1>2. Fits(w)
  BY <1>1, FitsIsShallow DEF NoDeeper
<1>3. FromFile(w, j)
  <2>1. ~ Is(w, "other") /\ DOMAIN w \notin Letters
    BY DEF Is, Letters
  <2>2. w # [decimal |-> "nan"]
    <3>1. DOMAIN [decimal |-> "nan"] = {"decimal"}
      OBVIOUS
    <3>. QED
      BY <3>1
  <2>. QED
    BY <2>1, <2>2 DEF FromFile
<1>4. \A q \in Parts(w) : FromFile(q, j)
  BY <1>2, <1>3, PartsFacts
<1>. QED
  BY <1>1, <1>2, <1>4

\* A value without parts.
LEMMA Simple ==
  ASSUME NEW j, Fits(j), NEW w, Children(w) = {}, FromFile(w, j)
  PROVE  NoDeeper(j, w) /\ (\A q \in Parts(w) : FromFile(q, j))
<1>1. NoDeeper(j, w)
  BY ChildlessFacts, ShallowFacts DEF NoDeeper
<1>. QED
  BY <1>1, ChildlessFacts

\* The case of a JSON array.
LEMMA DecodeListGood ==
  ASSUME NEW j, Fits(j), JsonPart(j), DOMAIN j = {"list"},
         \A c \in Children(j) : DecodeGood(c)
  PROVE  DecodeGood(j)
<1> DEFINE D == Decoded(j.list)
           M == Members(j.list)
<1>0. /\ \A k \in DOMAIN j.list : j.list[k] \in Children(j)
      /\ \A c \in Children(j) : Parts(c) \subseteq Parts(j)
  BY ChildFacts, PartsFacts DEF Is
<1>1. ASSUME Decode(j) # Raised
      PROVE  /\ NoDeeper(j, Decode(j)) /\ (\A q \in Parts(Decode(j)) : FromFile(q, j))
             /\ Normal(Decode(j)) = Decode(j)
  <2>1. Decode(j) = [list |-> D] /\ Raised \notin Range(D)
    BY <1>1, DecodeRules DEF Unless
  <2>2. DOMAIN D = DOMAIN j.list /\ (\A k \in DOMAIN D : D[k] = Decode(j.list[k])) /\ IsFunction(D)
    BY DEF Decoded, IsFunction
  <2> HIDE DEF D
  <2>3. DOMAIN Decode(j) = {"list"} /\ Decode(j).list = D /\ IsFunction(Decode(j))
    BY <2>1 DEF IsFunction
  <2>4. \A k \in DOMAIN D : D[k] # Raised
    BY <2>1 DEF Range
  <2>5. Children(Decode(j)) = Range(D)
    BY <2>3, ChildrenOf
  <2>6. ASSUME NEW d \in Children(Decode(j))
        PROVE  \E c \in Children(j) : NoDeeper(c, d) /\ \A q \in Parts(d) : FromFile(q, j)
    <3>1. PICK k \in DOMAIN D : d = D[k]
      BY <2>5 DEF Range
    <3>2. DecodeGood(j.list[k]) /\ d = Decode(j.list[k]) /\ d # Raised
      BY <1>0, <2>2, <2>4, <3>1
    <3>. QED
      BY <1>0, <2>2, <3>2, FromFileOfPart DEF DecodeGood
  <2>7. PythonPart(Decode(j)) /\ ~ IsTagged(Decode(j))
    BY <2>2, <2>3 DEF PythonPart, IsTagged, Is
  <2>8. NoDeeper(j, Decode(j)) /\ Fits(Decode(j)) /\ \A q \in Parts(Decode(j)) : FromFile(q, j)
    BY <2>3, <2>6, <2>7, Composed
  <2>9. Normal(Decode(j)) = Decode(j)
    <3>1. Normal(Decode(j)) = [list |-> [k \in DOMAIN D |-> Normal(D[k])]]
      BY <2>3, <2>8, NormalRules
    <3>2. \A k \in DOMAIN D : Normal(D[k]) = D[k]
      BY <1>0, <2>2, <2>4 DEF DecodeGood
    <3>3. [k \in DOMAIN D |-> Normal(D[k])] = D
      BY <2>2, <3>2, Zenon DEF IsFunction
    <3>. QED
      BY <2>1, <3>1, <3>3
  <2>. QED
    BY <2>8, <2>9
<1>2. ASSUME Member(j) # Raised
      PROVE  /\ NoDeeper(j, Member(j)) /\ (\A q \in Parts(Member(j)) : FromFile(q, j))
             /\ Hashable(Member(j))
  <2>1. Member(j) = [tuple |-> M] /\ Raised \notin Range(M)
    BY <1>2, MemberRules DEF Unless
  <2>2. DOMAIN M = DOMAIN j.list /\ (\A k \in DOMAIN M : M[k] = Member(j.list[k])) /\ IsFunction(M)
    BY DEF Members, IsFunction
  <2> HIDE DEF M
  <2>3. DOMAIN Member(j) = {"tuple"} /\ Member(j).tuple = M /\ IsFunction(Member(j))
    BY <2>1 DEF IsFunction
  <2>4. \A k \in DOMAIN M : M[k] # Raised
    BY <2>1 DEF Range
  <2>5. Children(Member(j)) = Range(M)
    BY <2>3, ChildrenOf
  <2>6. ASSUME NEW d \in Children(Member(j))
        PROVE  /\ \E c \in Children(j) : NoDeeper(c, d) /\ \A q \in Parts(d) : FromFile(q, j)
               /\ Hashable(d)
    <3>1. PICK k \in DOMAIN M : d = M[k]
      BY <2>5 DEF Range
    <3>2. DecodeGood(j.list[k]) /\ d = Member(j.list[k]) /\ d # Raised
      BY <1>0, <2>2, <2>4, <3>1
    <3>. QED
      BY <1>0, <2>2, <3>2, FromFileOfPart DEF DecodeGood
  <2>7. PythonPart(Member(j)) /\ ~ IsTagged(Member(j))
    BY <2>2, <2>3 DEF PythonPart, IsTagged, Is
  <2>8. NoDeeper(j, Member(j)) /\ Fits(Member(j)) /\ \A q \in Parts(Member(j)) : FromFile(q, j)
    BY <2>3, <2>6, <2>7, Composed
  <2>9. Hashable(Member(j))
    BY <2>3, <2>6, <2>8, PartsFacts DEF Hashable
  <2>. QED
    BY <2>8, <2>9
<1>. QED
  BY <1>1, <1>2 DEF DecodeGood

\* The case of a JSON object without the reserved key.
LEMMA DecodeDictGood ==
  ASSUME NEW j, Fits(j), JsonPart(j), DOMAIN j = {"dict"}, ~ IsTagged(j),
         \A c \in Children(j) : DecodeGood(c)
  PROVE  DecodeGood(j)
<1> DEFINE D == Decoded(j.dict)
<1>0. /\ \A k \in DOMAIN j.dict : j.dict[k] \in Children(j)
      /\ \A c \in Children(j) : Parts(c) \subseteq Parts(j)
  BY ChildFacts, PartsFacts DEF Is
<1>1. ASSUME Decode(j) # Raised
      PROVE  /\ NoDeeper(j, Decode(j)) /\ (\A q \in Parts(Decode(j)) : FromFile(q, j))
             /\ Normal(Decode(j)) = Decode(j) /\ Is(Decode(j), "dict")
  <2>1. Decode(j) = [dict |-> D] /\ Raised \notin Range(D)
    BY <1>1, DecodeRules DEF Unless, Dict
  <2>2. DOMAIN D = DOMAIN j.dict /\ (\A k \in DOMAIN D : D[k] = Decode(j.dict[k])) /\ IsFunction(D)
    BY DEF Decoded, IsFunction
  <2> HIDE DEF D
  <2>3. DOMAIN Decode(j) = {"dict"} /\ Decode(j).dict = D /\ IsFunction(Decode(j))
    BY <2>1 DEF IsFunction
  <2>4. \A k \in DOMAIN D : D[k] # Raised
    BY <2>1 DEF Range
  <2>5. Children(Decode(j)) = Range(D)
    BY <2>3, ChildrenOf
  <2>6. ASSUME NEW d \in Children(Decode(j))
        PROVE  \E c \in Children(j) : NoDeeper(c, d) /\ \A q \in Parts(d) : FromFile(q, j)
    <3>1. PICK k \in DOMAIN D : d = D[k]
      BY <2>5 DEF Range
    <3>2. DecodeGood(j.dict[k]) /\ d = Decode(j.dict[k]) /\ d # Raised
      BY <1>0, <2>2, <2>4, <3>1
    <3>. QED
      BY <1>0, <2>2, <3>2, FromFileOfPart DEF DecodeGood
  <2>7. PythonPart(Decode(j)) /\ ~ IsTagged(Decode(j))
    <3>1. TypeKey \notin DOMAIN D
      BY <2>2 DEF IsTagged, Is
    <3>. QED
      BY <2>2, <2>3, <3>1 DEF PythonPart, IsTagged, Is
  <2>8. NoDeeper(j, Decode(j)) /\ Fits(Decode(j)) /\ \A q \in Parts(Decode(j)) : FromFile(q, j)
    BY <2>3, <2>6, <2>7, Composed
  <2>9. Normal(Decode(j)) = Decode(j)
    <3>1. Normal(Decode(j)) = [dict |-> [k \in DOMAIN D |-> Normal(D[k])]]
      BY <2>3, <2>8, NormalRules DEF Dict
    <3>2. \A k \in DOMAIN D : Normal(D[k]) = D[k]
      BY <1>0, <2>2, <2>4 DEF DecodeGood
    <3>3. [k \in DOMAIN D |-> Normal(D[k])] = D
      BY <2>2, <3>2, Zenon DEF IsFunction
    <3>. QED
      BY <2>1, <3>1, <3>3
  <2>. QED
    BY <2>3, <2>8, <2>9 DEF Is
<1>2. Member(j) = Raised
  <2>1. Member(j) = IF Is(Decode(j), "dict") \/ Is(Decode(j), "set") THEN Raised ELSE Decode(j)
    BY MemberRules
  <2>. QED
    BY <1>1, <2>1
<1>. QED
  BY <1>1, <1>2 DEF DecodeGood

\* The case of a JSON value that is not a container.
LEMMA DecodeAtomGood ==
  ASSUME NEW j, Fits(j), JsonPart(j), DOMAIN j \in Letters
  PROVE  DecodeGood(j)
<1>1. Decode(j) = j /\ Normal(j) = j /\ Children(j) = {}
  BY DecodeRules, NormalRules, ChildrenOf DEF Letters
<1>2. Member(j) = j
  <2>1. "list" \notin DOMAIN j /\ ~ Is(j, "dict") /\ ~ Is(j, "set")
    BY DEF Letters, Is
  <2>2. Member(j) = IF Is(Decode(j), "dict") \/ Is(Decode(j), "set") THEN Raised ELSE Decode(j)
    BY <2>1, MemberRules
  <2>. QED
    BY <1>1, <2>1, <2>2
<1>3. FromFile(j, j)
  <2>1. PythonPart(j)
    BY DEF PythonPart, JsonPart, Letters
  <2>2. ~ IsTagged(j) /\ ~ Is(j, "other")
    BY DEF Letters, IsTagged, Is
  <2>3. j # [decimal |-> "nan"]
    <3>1. DOMAIN [decimal |-> "nan"] = {"decimal"}
      OBVIOUS
    <3>. QED
      BY <3>1 DEF Letters
  <2>4. j \in Parts(j)
    BY PartFacts
  <2>. QED
    BY <2>1, <2>2, <2>3, <2>4 DEF FromFile
<1>4. NoDeeper(j, j) /\ \A q \in Parts(j) : FromFile(q, j)
  BY <1>1, <1>3, Simple
<1>5. Hashable(j)
  BY <1>1, ChildlessFacts DEF Hashable, Letters
<1>. QED
  BY <1>1, <1>2, <1>4, <1>5 DEF DecodeGood

\* The case of a JSON object with the reserved key.
LEMMA DecodeTaggedGood ==
  ASSUME NEW j, Fits(j), JsonPart(j), DOMAIN j = {"dict"}, IsTagged(j),
         \A c \in Children(j) : JsonPart(c) /\ \A d \in Children(c) : DecodeGood(d)
  PROVE  DecodeGood(j)
<1> DEFINE tag == j.dict[TypeKey]
           raw == Field(j, "value")
           isScalar == Is(tag, "str") /\ tag.str \in Scalars /\ Is(raw, "str") /\ raw.str \in DOMAIN Spelled(tag.str)
           isSet == tag = [str |-> "set"] /\ Is(raw, "list")
           M == Members(raw.list)
<1>1. Decode(j) = IF isScalar THEN [kind \in {tag.str} |-> Spelled(tag.str)[raw.str]]
                  ELSE IF isSet THEN Unless(M, [set |-> Range(M)]) ELSE Raised
  BY DecodeRules
<1>2. Member(j) = IF Is(Decode(j), "dict") \/ Is(Decode(j), "set") THEN Raised ELSE Decode(j)
  BY MemberRules
<1>3. CASE isScalar
  <2> DEFINE kind == tag.str
             w == [k \in {kind} |-> Spelled(kind)[raw.str]]
  <2>1. Decode(j) = w
    BY <1>1, <1>3
  <2>2. kind \in Scalars /\ raw.str \in DOMAIN Spelled(kind)
    BY <1>3
  <2>3. DOMAIN w = {kind} /\ w[kind] = Spelled(kind)[raw.str] /\ IsFunction(w)
    BY DEF IsFunction
  <2>4. /\ w[kind] \in DOMAIN Spelled(kind) /\ Spelled(kind)[w[kind]] = w[kind]
        /\ kind = "decimal" /\ w[kind] = "nan" => raw.str = "nan"
    BY <2>2, <2>3, SpelledFacts
  <2>5. w = [decimal |-> "nan"] => tag = [str |-> "decimal"] /\ raw = [str |-> "nan"]
    <3> SUFFICES ASSUME w = [decimal |-> "nan"] PROVE tag = [str |-> "decimal"] /\ raw = [str |-> "nan"]
      OBVIOUS
    <3>1. DOMAIN [decimal |-> "nan"] = {"decimal"} /\ [decimal |-> "nan"]["decimal"] = "nan"
      OBVIOUS
    <3>2. kind = "decimal" /\ w[kind] = "nan"
      <4> HIDE DEF kind, w
      <4>. QED
        BY <2>3, <3>1
    <3>3. JsonPart(tag) /\ JsonPart(raw)
      <4>1. tag \in Children(j)
        BY ChildFacts DEF IsTagged, Is
      <4>2. "value" \in DOMAIN j.dict
        BY <1>3 DEF Field, Null, Is
      <4>3. raw \in Children(j)
        BY <4>2, ChildFacts DEF Field, Is
      <4>. QED
        BY <4>1, <4>3
    <3>4. DOMAIN tag = {"str"} /\ DOMAIN raw = {"str"}
      BY <1>3, <3>3 DEF JsonPart, Is
    <3>5. tag = [str |-> tag.str] /\ raw = [str |-> raw.str]
      BY <3>3, <3>4 DEF JsonPart, IsFunction
    <3>. QED
      BY <2>4, <3>2, <3>5
  <2> HIDE DEF w, kind
  <2>6. FromFile(w, j)
    <3>1. PythonPart(w)
      BY <2>2, <2>3, <2>4 DEF PythonPart
    <3>2. ~ IsTagged(w) /\ ~ Is(w, "other") /\ DOMAIN w \notin Letters
      BY <2>2, <2>3 DEF Scalars, Letters, IsTagged, Is
    <3>3. w = [decimal |-> "nan"] =>
            \E p \in Parts(j) : /\ IsTagged(p) /\ p.dict[TypeKey] = [str |-> "decimal"]
                                /\ Field(p, "value") = [str |-> "nan"]
      BY <2>5, PartFacts
    <3>. QED
      BY <3>1, <3>2, <3>3 DEF FromFile
  <2>7. Children(w) = {} /\ DOMAIN w \cap {"list", "tuple", "dict", "set"} = {}
    <3>1. DOMAIN w \cap {"list", "tuple", "dict", "set"} = {}
      BY <2>2, <2>3 DEF Scalars
    <3>. QED
      BY <3>1, ChildrenOf
  <2>8. NoDeeper(j, w) /\ (\A q \in Parts(w) : FromFile(q, j))
    BY <2>6, <2>7, Simple
  <2>9. Normal(w) = w /\ Hashable(w)
    <3>1. Fits(w) /\ Parts(w) = {w}
      BY <2>7, ChildlessFacts
    <3>2. DOMAIN w \cap {"list", "tuple", "dict"} = {} /\ DOMAIN w \cap {"list", "dict", "set"} = {}
      BY <2>7
    <3>. QED
      BY <3>1, <3>2, NormalRules DEF Hashable
  <2>10. Member(j) = w
    BY <1>2, <2>1, <2>7 DEF Is
  <2>. QED
    BY <2>1, <2>8, <2>9, <2>10 DEF DecodeGood
<1>4. CASE ~ isScalar /\ ~ isSet
  <2>1. Decode(j) = Raised
    BY <1>1, <1>4
  <2>2. Member(j) = Raised
    BY <1>2, <2>1
  <2>. QED
    BY <2>1, <2>2 DEF DecodeGood
<1>5. CASE ~ isScalar /\ isSet
  <2>1. Decode(j) = Unless(M, [set |-> Range(M)])
    BY <1>1, <1>5
  <2>2. raw \in Children(j) /\ JsonPart(raw) /\ Fits(raw) /\ Parts(raw) \subseteq Parts(j)
    <3>1. "value" \in DOMAIN j.dict
      BY <1>5 DEF Field, Null, Is
    <3>2. raw \in Children(j)
      BY <3>1, ChildFacts DEF Field, Is
    <3>. QED
      BY <3>2, PartsFacts
  <2>3. DOMAIN raw = {"list"} /\ raw.list \in Seq(Range(raw.list))
    BY <1>5, <2>2 DEF JsonPart, Is
  <2>4. \A k \in DOMAIN raw.list : /\ raw.list[k] \in Children(raw) /\ DecodeGood(raw.list[k])
                                   /\ Parts(raw.list[k]) \subseteq Parts(j)
    <3>1. \A k \in DOMAIN raw.list : raw.list[k] \in Children(raw)
      BY <2>3, ChildFacts DEF Is
    <3>2. \A c \in Children(raw) : Parts(c) \subseteq Parts(raw)
      BY <2>2, PartsFacts
    <3>. QED
      BY <2>2, <3>1, <3>2
  <2>5. DOMAIN M = DOMAIN raw.list /\ (\A k \in DOMAIN M : M[k] = Member(raw.list[k]))
    BY DEF Members
  <2>6. IsFiniteSet(Range(M))
    <3>1. DOMAIN raw.list = 1..Len(raw.list) /\ Len(raw.list) \in Nat
      BY <2>3
    <3> HIDE DEF M
    <3>2. IsFiniteSet(DOMAIN M)
      <4>1. 1 \in Int /\ Len(raw.list) \in Int
        BY <3>1
      <4>2. IsFiniteSet(1..Len(raw.list))
        BY <4>1, FS_Interval
      <4>. QED
        BY <2>5, <3>1, <4>2
    <3>. QED
      BY <3>2, FiniteRange
  <2> HIDE DEF M
  <2>7. Is(Decode(j), "set") \/ Decode(j) = Raised
    BY <2>1 DEF Unless, Is
  <2>8. Member(j) = Raised
    BY <1>2, <2>7
  <2>9. ASSUME Decode(j) # Raised
        PROVE  /\ NoDeeper(j, Decode(j)) /\ (\A q \in Parts(Decode(j)) : FromFile(q, j))
               /\ Normal(Decode(j)) = Decode(j)
    <3>1. Decode(j) = [set |-> Range(M)] /\ Raised \notin Range(M)
      BY <2>1, <2>9 DEF Unless
    <3>2. DOMAIN Decode(j) = {"set"} /\ Decode(j).set = Range(M) /\ IsFunction(Decode(j))
      BY <3>1 DEF IsFunction
    <3>3. ASSUME NEW d \in Range(M)
          PROVE  /\ \E c \in Children(j) : NoDeeper(c, d) /\ \A q \in Parts(d) : FromFile(q, j)
                 /\ Hashable(d)
      <4>1. PICK k \in DOMAIN M : d = M[k]
        BY DEF Range
      <4>2. DecodeGood(raw.list[k]) /\ d = Member(raw.list[k]) /\ d # Raised
        BY <2>4, <2>5, <3>1, <4>1
      <4>3. NoDeeper(raw.list[k], d) /\ (\A q \in Parts(d) : FromFile(q, j)) /\ Hashable(d)
        BY <2>4, <2>5, <4>1, <4>2, FromFileOfPart DEF DecodeGood
      <4>4. NoDeeper(raw, raw.list[k])
        <5> SUFFICES ASSUME NEW n \in Depths, Shallow(n, raw) PROVE Shallow(n, raw.list[k])
          BY DEF NoDeeper
        <5>1. n # 0
          BY ShallowFacts
        <5>2. n - 1 \in 0..MaxNesting /\ (n - 1) + 1 = n
          BY <5>1, NestingAssumption DEF Depths
        <5>3. raw.list[k] \in Children(raw)
          BY <2>4, <2>5, <4>1
        <5>4. Shallow(n - 1, raw.list[k])
          BY <5>2, <5>3, ShallowFacts
        <5>. QED
          BY <5>2, <5>4, ShallowFacts
      <4>5. NoDeeper(raw, d)
        BY <4>3, <4>4 DEF NoDeeper
      <4>. QED
        BY <2>2, <4>3, <4>5
    <3>4. Children(Decode(j)) = Range(M)
      BY <3>2, ChildrenOf
    <3>5. PythonPart(Decode(j)) /\ ~ IsTagged(Decode(j))
      BY <2>6, <3>2, <3>3 DEF PythonPart, IsTagged, Is
    <3>6. NoDeeper(j, Decode(j)) /\ Fits(Decode(j)) /\ \A q \in Parts(Decode(j)) : FromFile(q, j)
      BY <3>2, <3>3, <3>4, <3>5, Composed
    <3>7. Normal(Decode(j)) = Decode(j)
      BY <3>2, <3>6, NormalRules
    <3>. QED
      BY <3>6, <3>7
  <2>. QED
    BY <2>8, <2>9 DEF DecodeGood
<1>. QED
  BY <1>3, <1>4, <1>5

\* What load() decodes is a plain value in its normal form, with the atoms of the file.
THEOREM DecodeFacts ==
  ASSUME NEW j, Fits(j), IsJson(j), Decode(j) # Raised
  PROVE  /\ Plain(Decode(j))
         /\ Normal(Decode(j)) = Decode(j)
         /\ \A q \in Parts(Decode(j)) : FromFile(q, j)
<1> DEFINE G == {p \in Parts(j) : \A q \in Parts(p) : DecodeGood(q)}
<1>0. j \in Parts(j)
  BY PartFacts
<1>1. ASSUME NEW p \in Parts(j), Fits(p), Parts(p) \subseteq Parts(j), Children(p) \subseteq G
      PROVE  p \in G
  <2>1. JsonPart(p)
    BY DEF IsJson
  <2>2. \A c \in Children(p) : c \in Parts(c) /\ Children(c) \subseteq Parts(c) /\ JsonPart(c)
    <3>1. \A c \in Children(p) : Fits(c) /\ c \in Parts(j)
      BY <1>1, PartsFacts
    <3>. QED
      BY <3>1, PartFacts DEF IsJson
  <2>3. \A c \in Children(p) : DecodeGood(c) /\ \A d \in Children(c) : DecodeGood(d)
    BY <1>1, <2>2
  <2>4. DecodeGood(p)
    <3>1. \/ DOMAIN p \in Letters \/ DOMAIN p = {"list"} \/ DOMAIN p = {"dict"}
      BY <2>1 DEF JsonPart, Letters
    <3>2. CASE DOMAIN p \in Letters
      BY <1>1, <2>1, <3>2, DecodeAtomGood
    <3>3. CASE DOMAIN p = {"list"}
      BY <1>1, <2>1, <2>3, <3>3, DecodeListGood
    <3>4. CASE DOMAIN p = {"dict"} /\ ~ IsTagged(p)
      BY <1>1, <2>1, <2>3, <3>4, DecodeDictGood
    <3>5. CASE DOMAIN p = {"dict"} /\ IsTagged(p)
      BY <1>1, <2>1, <2>2, <2>3, <3>5, DecodeTaggedGood
    <3>. QED
      BY <3>1, <3>2, <3>3, <3>4, <3>5
  <2>5. \A q \in Parts(p) : DecodeGood(q)
    BY <1>1, <2>4, PartsFacts
  <2>. QED
    BY <2>5
<1> HIDE DEF G
<1>2. Parts(j) \subseteq G
  BY <1>0, <1>1, PartsInduction
<1> USE DEF G
<1>3. DecodeGood(j)
  BY <1>0, <1>2
<1>4. Fits(Decode(j))
  BY <1>3, FitsIsShallow DEF DecodeGood, NoDeeper
<1>. QED
  BY <1>3, <1>4 DEF DecodeGood, FromFile, Plain, IsPython
-----------------------------------------------------------------------------
\* What is encoded has nothing of its own

\* What is encoded has only the numbers and checksums of the value, and tags only as the
\* encoder writes them.
EncodeGood(v) ==
  Fits(Encode(v)) =>
    /\ \A q \in Parts(Encode(v)) : Is(q, "num") \/ Is(q, "sha") => q \in Parts(v)
    /\ Loose(Encode(v)) = {}

\* The case of values whose encoding has the encodings of their children.
LEMMA EncodeGoodContainer ==
  ASSUME NEW v, Plain(v), \A c \in Children(v) : EncodeGood(c),
         DOMAIN Encode(v) \in {{"list"}, {"dict"}}, ~ IsTagged(Encode(v)),
         \A d \in Children(Encode(v)) : \E c \in Children(v) : d = Encode(c)
  PROVE  EncodeGood(v)
<1> SUFFICES ASSUME Fits(Encode(v))
             PROVE  /\ \A q \in Parts(Encode(v)) : Is(q, "num") \/ Is(q, "sha") => q \in Parts(v)
                    /\ Loose(Encode(v)) = {}
  BY DEF EncodeGood
<1>0. Fits(v) /\ \A c \in Children(v) : Parts(c) \subseteq Parts(v)
  BY PartsFacts DEF Plain
<1>1. \A d \in Children(Encode(v)) : Fits(d)
  BY PartsFacts
<1>2. ASSUME NEW q \in Parts(Encode(v)), Is(q, "num") \/ Is(q, "sha") PROVE q \in Parts(v)
  <2>1. q # Encode(v)
    BY <1>2 DEF Is
  <2>2. PICK d \in Children(Encode(v)) : q \in Parts(d)
    BY <2>1, PartsFacts
  <2>3. PICK c \in Children(v) : d = Encode(c)
    OBVIOUS
  <2>. QED
    BY <1>0, <1>1, <1>2, <2>2, <2>3 DEF EncodeGood
<1>3. \A d \in Children(Encode(v)) : Loose(d) = {}
  BY <1>1 DEF EncodeGood
<1>4. Loose(Encode(v)) = {}
  BY <1>3, LooseRules
<1>. QED
  BY <1>2, <1>4

\* An encoding is good when those of the children are.
LEMMA EncodeGoodStep ==
  ASSUME NEW v, Plain(v), \A c \in Children(v) : EncodeGood(c)
  PROVE  EncodeGood(v)
<1>0. Fits(v) /\ PythonPart(v) /\ ~ IsTagged(v) /\ v \in Parts(v) /\ \A c \in Children(v) : Parts(c) \subseteq Parts(v)
  BY PartFacts, PartsFacts DEF Plain, IsPython
<1>1. CASE DOMAIN v \in Atoms
  <2>1. Encode(v) = v /\ Children(v) = {}
    BY <1>1, EncodeCases, ChildrenOf DEF Atoms
  <2>2. Loose(v) = {}
    BY <1>0, <2>1, LooseRules
  <2>. QED
    BY <2>1, <2>2 DEF EncodeGood
<1>2. CASE DOMAIN v \in {{"list"}, {"tuple"}}
  <2> DEFINE s == [k \in DOMAIN Items(v) |-> Encode(Items(v)[k])]
  <2>1. Encode(v) = [list |-> s]
    BY <1>0, <1>2, ItemsFacts
  <2>2. \A d \in Range(s) : \E c \in Children(v) : d = Encode(c)
    BY <1>0, <1>2, ItemsFacts DEF Range
  <2> HIDE DEF s
  <2>3. DOMAIN Encode(v) = {"list"} /\ Children(Encode(v)) = Range(s)
    <3>1. DOMAIN Encode(v) = {"list"} /\ Encode(v).list = s
      BY <2>1
    <3>. QED
      BY <3>1, ChildrenOf
  <2>. QED
    BY <2>2, <2>3, EncodeGoodContainer DEF IsTagged, Is
<1>3. CASE DOMAIN v = {"dict"}
  <2> DEFINE s == [k \in DOMAIN v.dict |-> Encode(v.dict[k])]
  <2>1. Encode(v) = [dict |-> s]
    BY <1>0, <1>3, EncodeRules DEF Dict
  <2>2. \A d \in Range(s) : \E c \in Children(v) : d = Encode(c)
    BY <1>3, ChildFacts DEF Range, Is
  <2> HIDE DEF s
  <2>3. DOMAIN Encode(v) = {"dict"} /\ Children(Encode(v)) = Range(s)
    <3>1. DOMAIN Encode(v) = {"dict"} /\ Encode(v).dict = s
      BY <2>1
    <3>. QED
      BY <3>1, ChildrenOf
  <2>4. ~ IsTagged(Encode(v))
    BY <1>3, EncodeCases
  <2>. QED
    BY <2>2, <2>3, <2>4, EncodeGoodContainer
<1>4. ASSUME NEW tag, NEW x, Encode(v) = Tagged(tag, x), Fits(x) => \A q \in Parts(x) : Is(q, "num") \/ Is(q, "sha") => q \in Parts(v)
      PROVE  EncodeGood(v)
  <2> SUFFICES ASSUME Fits(Encode(v))
               PROVE  /\ \A q \in Parts(Encode(v)) : Is(q, "num") \/ Is(q, "sha") => q \in Parts(v)
                      /\ Loose(Encode(v)) = {}
    BY DEF EncodeGood
  <2>0. /\ Children(Tagged(tag, x)) = {[str |-> tag], x} /\ DOMAIN Tagged(tag, x) = {"dict"}
        /\ IsTagged(Tagged(tag, x)) /\ DOMAIN Tagged(tag, x).dict = {TypeKey, "value"}
    BY TaggedFacts, Zenon
  <2>1. Children(Encode(v)) = {[str |-> tag], x} /\ DOMAIN Encode(v) = {"dict"}
    BY <1>4, <2>0
  <2>2. Fits(x)
    BY <2>1, PartsFacts
  <2>3. IsTagged(Encode(v)) /\ DOMAIN Encode(v).dict = {TypeKey, "value"}
    BY <1>4, <2>0
  <2>4. Loose(Encode(v)) = {}
    BY <2>3, LooseRules
  <2>5. DOMAIN [str |-> tag] = {"str"} /\ Parts([str |-> tag]) = {[str |-> tag]}
    <3>1. DOMAIN [str |-> tag] = {"str"}
      OBVIOUS
    <3>2. Children([str |-> tag]) = {}
      BY <3>1, ChildrenOf
    <3>. QED
      BY <3>1, <3>2, ChildlessFacts
  <2>6. ASSUME NEW q \in Parts(Encode(v)), Is(q, "num") \/ Is(q, "sha") PROVE q \in Parts(v)
    <3>1. q # Encode(v) /\ q # [str |-> tag]
      BY <2>1, <2>5, <2>6 DEF Is
    <3>2. PICK d \in Children(Encode(v)) : q \in Parts(d)
      BY <3>1, PartsFacts
    <3>3. d = x
      BY <2>1, <2>5, <3>1, <3>2
    <3>. QED
      BY <1>4, <2>2, <2>6, <3>2, <3>3
  <2>. QED
    BY <2>4, <2>6
<1>5. CASE DOMAIN v = {"set"}
  <2> DEFINE A == {Encode(c) : c \in v.set}
             q == SetToSeq(A)
             raw == [list |-> q]
  <2>1. Encode(v) = Tagged("set", raw)
    BY <1>0, <1>5, EncodeRules
  <2>2. IsFiniteSet(v.set)
    BY <1>0, <1>5, PythonCases DEF Atoms, Scalars
  <2>3. IsFiniteSet(A)
    <3> DEFINE f == [c \in v.set |-> Encode(c)]
    <3>1. DOMAIN f = v.set /\ Range(f) = A
      BY DEF Range
    <3> HIDE DEF f, A
    <3>. QED
      BY <2>2, <3>1, FiniteRange
  <2>4. Range(q) = A
    <3> HIDE DEF A
    <3>. QED
      BY <2>3, SetToSeqFacts
  <2> HIDE DEF q
  <2>5. DOMAIN raw = {"list"} /\ Children(raw) = Range(q)
    <3>1. DOMAIN raw = {"list"} /\ raw.list = q
      OBVIOUS
    <3>. QED
      BY <3>1, ChildrenOf
  <2> HIDE DEF raw
  <2>6. ASSUME Fits(raw), NEW p \in Parts(raw), Is(p, "num") \/ Is(p, "sha") PROVE p \in Parts(v)
    <3>1. p # raw
      BY <2>5, <2>6 DEF Is
    <3>2. PICK d \in Children(raw) : p \in Parts(d)
      BY <2>6, <3>1, PartsFacts
    <3>3. PICK c \in v.set : d = Encode(c)
      BY <2>4, <2>5
    <3>4. c \in Children(v) /\ Fits(d)
      BY <1>5, <2>6, PartsFacts, ChildFacts DEF Is
    <3>. QED
      BY <1>0, <2>6, <3>2, <3>3, <3>4 DEF EncodeGood
  <2>. QED
    BY <1>4, <2>1, <2>6
<1>6. ASSUME NEW kind \in Scalars, DOMAIN v = {kind} PROVE EncodeGood(v)
  <2> DEFINE x == [str |-> v[kind]]
  <2>1. Encode(v) = Tagged(kind, x)
    BY <1>0, <1>6, EncodeRules
  <2>2. DOMAIN x = {"str"}
    OBVIOUS
  <2> HIDE DEF x
  <2>3. Parts(x) = {x}
    BY <2>2, ChildrenOf, ChildlessFacts
  <2>. QED
    BY <1>4, <2>1, <2>2, <2>3 DEF Is
<1>7. CASE \E kind \in Scalars : DOMAIN v = {kind}
  BY <1>6, <1>7
<1>. QED
  BY <1>0, <1>1, <1>2, <1>3, <1>5, <1>7, PythonCases

\* The encoding of a plain value passes the check on reserved keys, and has no numbers or checksums
\* but those of the value.
LEMMA EncodeFacts ==
  ASSUME NEW v, Plain(v), Fits(Encode(v))
  PROVE  /\ \A q \in Parts(Encode(v)) : Is(q, "num") \/ Is(q, "sha") => q \in Parts(v)
         /\ TagsAlone(Encode(v))
<1> DEFINE G == {p \in Parts(v) : EncodeGood(p)}
<1>0. Fits(v) /\ v \in Parts(v)
  BY PartFacts DEF Plain
<1>1. ASSUME NEW p \in Parts(v), Fits(p), Parts(p) \subseteq Parts(v), Children(p) \subseteq G
      PROVE  p \in G
  <2>1. Plain(p) /\ \A c \in Children(p) : EncodeGood(c)
    BY <1>1, PlainParts
  <2>. QED
    BY <2>1, EncodeGoodStep
<1> HIDE DEF G
<1>2. Parts(v) \subseteq G
  BY <1>0, <1>1, PartsInduction
<1> USE DEF G
<1>. QED
  BY <1>0, <1>2 DEF EncodeGood, TagsAlone, Loose
-----------------------------------------------------------------------------
\* States and their checksums

\* A dictionary, and a state whose metadata and collections are dictionaries.
IsDict(v) == DOMAIN v = {"dict"} /\ v = [dict |-> v.dict] /\ IsFunction(v.dict)

Shaped(s) ==
  /\ IsDict(s)
  /\ {"meta", "collections"} \subseteq DOMAIN s.dict
  /\ IsDict(s.dict["meta"])
  /\ IsDict(s.dict["collections"])

\* Values without a checksum in them.
Clean(v) == Plain(v) /\ Checksums(v) = {}

\* Dictionaries and their items.
LEMMA DictFacts ==
  ASSUME NEW f
  PROVE  /\ DOMAIN Dict(f) = {"dict"} /\ Dict(f).dict = f
         /\ IsFunction(f) => IsDict(Dict(f))
         /\ Children(Dict(f)) = Range(f)
<1>1. DOMAIN Dict(f) = {"dict"} /\ Dict(f).dict = f
  BY DEF Dict
<1>2. IsFunction(f) => IsDict(Dict(f))
  BY DEF Dict, IsDict
<1>3. Children(Dict(f)) = Range(f)
  BY <1>1, ChildrenOf
<1>. QED
  BY <1>1, <1>2, <1>3

\* An assignment adds its key.
LEMMA PutDomain ==
  ASSUME NEW f, NEW k, NEW x
  PROVE  DOMAIN Put(f, k, x) = DOMAIN f \cup {k} /\ IsFunction(Put(f, k, x))
  BY DEF Put, IsFunction

\* An assignment changes the item of its key only.
LEMMA PutEntries ==
  ASSUME NEW f, NEW k, NEW x
  PROVE  Put(f, k, x)[k] = x /\ \A y \in DOMAIN f \ {k} : Put(f, k, x)[y] = f[y]
  BY DEF Put

\* The second of two assignments to a key counts.
LEMMA PutTwice ==
  ASSUME NEW f, NEW k, NEW x, NEW y
  PROVE  Put(Put(f, k, x), k, y) = Put(f, k, y)
<1>1. DOMAIN Put(f, k, x) \cup {k} = DOMAIN f \cup {k}
  BY PutDomain
<1>2. \A z \in DOMAIN f \cup {k} : (IF z = k THEN y ELSE Put(f, k, x)[z]) = (IF z = k THEN y ELSE f[z])
  BY PutEntries
<1>3. Put(Put(f, k, x), k, y) = [z \in DOMAIN f \cup {k} |-> IF z = k THEN y ELSE Put(f, k, x)[z]]
  BY <1>1 DEF Put
<1>4. Put(f, k, y) = [z \in DOMAIN f \cup {k} |-> IF z = k THEN y ELSE f[z]]
  BY DEF Put
<1>. QED
  BY <1>2, <1>3, <1>4

\* Assigning what is there changes nothing.
LEMMA PutBack ==
  ASSUME NEW f, IsFunction(f), NEW k \in DOMAIN f
  PROVE  Put(f, k, f[k]) = f
<1>1. DOMAIN f \cup {k} = DOMAIN f
  OBVIOUS
<1>2. Put(f, k, f[k]) = [z \in DOMAIN f |-> IF z = k THEN f[k] ELSE f[z]]
  BY <1>1 DEF Put
<1>3. Put(f, k, f[k]) = [z \in DOMAIN f |-> f[z]]
  BY <1>2
<1>. QED
  BY <1>3 DEF IsFunction

\* A change of one entry of the metadata or of the collections.
LEMMA ChangedEntry ==
  ASSUME NEW s, Shaped(s), NEW key \in {"meta", "collections"}, NEW k, NEW x,
         NEW t, t = [s EXCEPT !.dict[key].dict = Put(@, k, x)]
  PROVE  /\ t = Dict([y \in DOMAIN s.dict |-> IF y = key THEN Dict(Put(s.dict[key].dict, k, x)) ELSE s.dict[y]])
         /\ DOMAIN t = {"dict"}
         /\ DOMAIN t.dict = DOMAIN s.dict
         /\ t.dict[key] = Dict(Put(s.dict[key].dict, k, x))
         /\ \A y \in DOMAIN s.dict \ {key} : t.dict[y] = s.dict[y]
         /\ Shaped(t)
<1> DEFINE new == Put(s.dict[key].dict, k, x)
           f == [y \in DOMAIN s.dict |-> IF y = key THEN Dict(new) ELSE s.dict[y]]
<1>1. DOMAIN s = {"dict"} /\ DOMAIN s.dict[key] = {"dict"} /\ key \in DOMAIN s.dict
  BY DEF Shaped, IsDict
<1>2. [s.dict[key] EXCEPT !.dict = new] = Dict(new)
  <2>1. DOMAIN [s.dict[key] EXCEPT !.dict = new] = {"dict"}
    BY <1>1
  <2> HIDE DEF new
  <2>. QED
    BY <1>1 DEF Dict
<1>3. t = [s EXCEPT !.dict = [s.dict EXCEPT ![key] = [s.dict[key] EXCEPT !.dict = new]]]
  OBVIOUS
<1>4. [s.dict EXCEPT ![key] = Dict(new)] = f
  <2> HIDE DEF new
  <2>. QED
    BY <1>1
<1>5. t = Dict(f)
  <2> HIDE DEF f, new
  <2>1. t = [s EXCEPT !.dict = f]
    BY <1>2, <1>3, <1>4
  <2>. QED
    BY <1>1, <2>1 DEF Dict
<1>6. f[key] = Dict(new) /\ \A y \in DOMAIN s.dict \ {key} : f[y] = s.dict[y]
  BY <1>1
<1>7. DOMAIN f = DOMAIN s.dict /\ IsFunction(f)
  BY DEF IsFunction
<1>8. IsDict(Dict(new))
  <2>1. IsFunction(new)
    BY PutDomain
  <2>. QED
    BY <2>1, DictFacts
<1>9. t.dict = f /\ IsDict(t)
  <2> HIDE DEF f
  <2>. QED
    BY <1>5, <1>7, DictFacts
<1>10. Shaped(t)
  <2> HIDE DEF f, new
  <2>1. /\ {"meta", "collections"} \subseteq DOMAIN s.dict
        /\ \A y \in {"meta", "collections"} : IsDict(s.dict[y])
    BY DEF Shaped
  <2>2. \A y \in {"meta", "collections"} : IsDict(t.dict[y])
    BY <1>6, <1>8, <1>9, <2>1
  <2>. QED
    BY <1>7, <1>9, <2>1, <2>2 DEF Shaped
<1>11. DOMAIN t = {"dict"}
  BY <1>9 DEF IsDict
<1>. QED
  BY <1>5, <1>6, <1>7, <1>9, <1>10, <1>11

\* WithChecksum() changes one entry of the metadata.
LEMMA WithChecksumIs ==
  ASSUME NEW s, Shaped(s), NEW c
  PROVE  /\ WithChecksum(s, c) = Dict([k \in DOMAIN s.dict |->
              IF k = "meta" THEN Dict(Put(s.dict["meta"].dict, "content_sha256", c)) ELSE s.dict[k]])
         /\ DOMAIN WithChecksum(s, c) = {"dict"}
         /\ DOMAIN WithChecksum(s, c).dict = DOMAIN s.dict
         /\ WithChecksum(s, c).dict["meta"] = Dict(Put(s.dict["meta"].dict, "content_sha256", c))
         /\ \A k \in DOMAIN s.dict \ {"meta"} : WithChecksum(s, c).dict[k] = s.dict[k]
         /\ Shaped(WithChecksum(s, c))
  BY ChangedEntry DEF WithChecksum

\* The checksum that is stored does not matter for a state with another.
LEMMA WithChecksumTwice ==
  ASSUME NEW s, Shaped(s), NEW c
  PROVE  /\ \A d : WithChecksum(WithChecksum(s, c), d) = WithChecksum(s, d)
         /\ WithChecksum(s, c).dict["meta"].dict["content_sha256"] = c
         /\ "content_sha256" \in DOMAIN s.dict["meta"].dict /\ s.dict["meta"].dict["content_sha256"] = c
              => WithChecksum(s, c) = s
<1> DEFINE m == s.dict["meta"].dict
           t == WithChecksum(s, c)
           W(g, x) == [k \in DOMAIN s.dict |-> IF k = "meta" THEN Dict(x) ELSE g[k]]
<1>1. /\ Shaped(t) /\ DOMAIN t.dict = DOMAIN s.dict /\ t.dict["meta"] = Dict(Put(m, "content_sha256", c))
      /\ \A k \in DOMAIN s.dict \ {"meta"} : t.dict[k] = s.dict[k]
  BY WithChecksumIs
<1>2. t.dict["meta"].dict = Put(m, "content_sha256", c)
  BY <1>1, DictFacts
<1>3. ASSUME NEW d PROVE WithChecksum(t, d) = WithChecksum(s, d)
  <2> DEFINE x == Put(m, "content_sha256", d)
  <2>1. Put(Put(m, "content_sha256", c), "content_sha256", d) = x
    BY PutTwice
  <2> HIDE DEF t, m, x
  <2>2. WithChecksum(t, d) = Dict(W(t.dict, x))
    <3>1. WithChecksum(t, d) = Dict([k \in DOMAIN t.dict |->
              IF k = "meta" THEN Dict(Put(t.dict["meta"].dict, "content_sha256", d)) ELSE t.dict[k]])
      BY <1>1, WithChecksumIs
    <3>2. Put(t.dict["meta"].dict, "content_sha256", d) = x
      BY <1>2, <2>1
    <3>3. \A k \in DOMAIN s.dict :
            (IF k = "meta" THEN Dict(Put(t.dict["meta"].dict, "content_sha256", d)) ELSE t.dict[k])
            = (IF k = "meta" THEN Dict(x) ELSE t.dict[k])
      BY <3>2
    <3>4. DOMAIN t.dict = DOMAIN s.dict
      BY <1>1
    <3>. QED
      BY <3>1, <3>3, <3>4, Zenon
  <2>3. WithChecksum(s, d) = Dict(W(s.dict, x))
    BY WithChecksumIs DEF x, m
  <2>4. W(t.dict, x) = W(s.dict, x)
    BY <1>1
  <2>. QED
    BY <2>2, <2>3, <2>4
<1>4. t.dict["meta"].dict["content_sha256"] = c
  BY <1>2, PutEntries
<1>5. ASSUME "content_sha256" \in DOMAIN m, m["content_sha256"] = c PROVE t = s
  <2>1. IsFunction(m) /\ s.dict["meta"] = [dict |-> m] /\ s = [dict |-> s.dict] /\ IsFunction(s.dict)
    BY DEF Shaped, IsDict
  <2>2. Put(m, "content_sha256", c) = m
    <3>1. "content_sha256" \in DOMAIN m /\ m["content_sha256"] = c
      BY <1>5
    <3> HIDE DEF m
    <3>. QED
      BY <2>1, <3>1, PutBack
  <2>3. t = Dict(W(s.dict, m))
    BY <2>2, WithChecksumIs
  <2> HIDE DEF t, m
  <2>4. W(s.dict, m) = [k \in DOMAIN s.dict |-> s.dict[k]]
    <3>0. Dict(m) = s.dict["meta"]
      BY <2>1 DEF Dict
    <3>1. \A k \in DOMAIN s.dict : (IF k = "meta" THEN Dict(m) ELSE s.dict[k]) = s.dict[k]
      BY <3>0
    <3>. QED
      BY <3>1, Zenon
  <2>5. W(s.dict, m) = s.dict
    BY <2>1, <2>4 DEF IsFunction
  <2>. QED
    BY <2>1, <2>3, <2>5 DEF Dict
<1>. QED
  BY <1>3, <1>4, <1>5

\* What is stored as a checksum.
Stamp(c) == c = Null \/ \E j : c = [sha |-> j]

\* A stamp is an atom.
LEMMA StampFacts ==
  ASSUME NEW c, Stamp(c)
  PROVE  /\ DOMAIN c \in {{"const"}, {"sha"}}
         /\ Children(c) = {} /\ Fits(c) /\ Parts(c) = {c}
         /\ PythonPart(c) /\ ~ IsTagged(c) /\ Normal(c) = c
<1>1. DOMAIN c \in {{"const"}, {"sha"}} /\ IsFunction(c)
  <2>1. CASE c = Null
    BY <2>1 DEF Null, IsFunction
  <2>2. ASSUME NEW j, c = [sha |-> j] PROVE DOMAIN c = {"sha"} /\ IsFunction(c)
    BY <2>2 DEF IsFunction
  <2>. QED
    BY <2>1, <2>2 DEF Stamp, Null
<1>2. Children(c) = {}
  BY <1>1, ChildrenOf
<1>3. Fits(c) /\ Parts(c) = {c}
  BY <1>2, ChildlessFacts
<1>4. PythonPart(c) /\ ~ IsTagged(c)
  BY <1>1 DEF PythonPart, IsTagged, Is
<1>5. Normal(c) = c
  BY <1>1, <1>3, NormalRules
<1>. QED
  BY <1>1, <1>2, <1>3, <1>4, <1>5

\* A plain dictionary has plain items and no reserved key.
LEMMA PlainDict ==
  ASSUME NEW v, Plain(v), Is(v, "dict")
  PROVE  IsDict(v) /\ TypeKey \notin DOMAIN v.dict /\ \A k \in DOMAIN v.dict : Plain(v.dict[k])
<1>1. PythonPart(v) /\ ~ IsTagged(v)
  BY PartFacts, PlainParts DEF Plain
<1>2. IsDict(v)
  <2>1. DOMAIN v = {"dict"} /\ v = [dict |-> v.dict] /\ v.dict = [k \in DOMAIN v.dict |-> v.dict[k]]
    <3>1. DOMAIN v \notin Atoms /\ \A kind \in Scalars : DOMAIN v # {kind}
      BY DEF Is, Atoms, Scalars
    <3>2. DOMAIN v \notin {{"list"}, {"tuple"}, {"set"}}
      BY DEF Is
    <3>. QED
      BY <1>1, <3>1, <3>2, PythonCases
  <2>. QED
    BY <2>1 DEF IsDict, IsFunction
<1>3. \A k \in DOMAIN v.dict : v.dict[k] \in Children(v) /\ v.dict[k] \in Parts(v)
  BY ChildFacts, PartFacts DEF Plain
<1>. QED
  BY <1>1, <1>2, <1>3, PlainParts DEF IsTagged

\* A state that _validate_state_shape() accepts has its two dictionaries.
LEMMA ShapedByShape ==
  ASSUME NEW s, Plain(s), NEW b, ShapeAccepts(s, b)
  PROVE  /\ Shaped(s) /\ Plain(s.dict["meta"]) /\ Plain(s.dict["collections"])
         /\ TypeKey \notin DOMAIN s.dict /\ TypeKey \notin DOMAIN s.dict["meta"].dict
<1>1. Is(s, "dict") /\ Is(Field(s, "meta"), "dict") /\ Is(Field(s, "collections"), "dict")
  BY DEF ShapeAccepts
<1>2. ~ Is(Null, "dict")
  BY DEF Null, Is
<1>3. /\ "meta" \in DOMAIN s.dict /\ Is(s.dict["meta"], "dict")
      /\ "collections" \in DOMAIN s.dict /\ Is(s.dict["collections"], "dict")
  BY <1>1, <1>2 DEF Field
<1>. QED
  BY <1>1, <1>3, PlainDict DEF Shaped

\* The parts of a state with another checksum.
LEMMA WithChecksumParts ==
  ASSUME NEW s, Shaped(s), Fits(s), NEW c, Stamp(c)
  PROVE  /\ Fits(WithChecksum(s, c))
         /\ Parts(WithChecksum(s, c)) \subseteq {WithChecksum(s, c), WithChecksum(s, c).dict["meta"], c} \cup Parts(s)
<1> DEFINE t == WithChecksum(s, c)
           m == s.dict["meta"].dict
           new == Put(m, "content_sha256", c)
<1>0. MaxNesting \in 0..MaxNesting /\ MaxNesting - 1 \in 0..MaxNesting /\ MaxNesting - 1 # 0 /\ (MaxNesting - 1) + 1 = MaxNesting
  BY NestingAssumption
<1>1. /\ DOMAIN t = {"dict"} /\ DOMAIN t.dict = DOMAIN s.dict /\ t.dict["meta"] = Dict(new)
      /\ \A k \in DOMAIN s.dict \ {"meta"} : t.dict[k] = s.dict[k]
  BY WithChecksumIs
<1>2. DOMAIN s = {"dict"} /\ DOMAIN s.dict["meta"] = {"dict"} /\ "meta" \in DOMAIN s.dict
  BY DEF Shaped, IsDict
<1>3. /\ \A k \in DOMAIN s.dict : s.dict[k] \in Children(s)
      /\ \A k \in DOMAIN m : m[k] \in Children(s.dict["meta"])
  BY <1>2, ChildFacts DEF Is
<1>4. Children(Dict(new)) \subseteq Children(s.dict["meta"]) \cup {c}
  <2>1. Children(Dict(new)) = Range(new)
    BY DictFacts
  <2>2. DOMAIN new = DOMAIN m \cup {"content_sha256"}
    BY PutDomain
  <2>3. new["content_sha256"] = c /\ \A y \in DOMAIN m \ {"content_sha256"} : new[y] = m[y]
    BY PutEntries
  <2> HIDE DEF new
  <2>. QED
    BY <1>3, <2>1, <2>2, <2>3 DEF Range
<1>5. Children(t) \subseteq Children(s) \cup {Dict(new)}
  <2>1. Children(t) = Range(t.dict)
    BY <1>1, ChildrenOf
  <2> HIDE DEF t, new
  <2>. QED
    BY <1>1, <1>3, <2>1 DEF Range
<1>6. Shallow(MaxNesting, Dict(new))
  <2>1. \A x \in Children(s) : Shallow(MaxNesting, x)
    BY <1>0, FitsIsShallow, ShallowFacts
  <2>2. Shallow(MaxNesting, s.dict["meta"])
    BY <1>2, <1>3, <2>1
  <2>3. \A x \in Children(s.dict["meta"]) : Shallow(MaxNesting - 1, x)
    BY <1>0, <2>2, ShallowFacts
  <2>4. Shallow(MaxNesting - 1, c)
    BY <1>0, StampFacts, ChildlessFacts DEF Depths
  <2>5. \A x \in Children(Dict(new)) : Shallow(MaxNesting - 1, x)
    BY <1>4, <2>3, <2>4
  <2> HIDE DEF new
  <2>. QED
    BY <1>0, <2>5, ShallowFacts
<1>7. Fits(t)
  <2>1. \A x \in Children(s) : Shallow(MaxNesting, x)
    BY <1>0, FitsIsShallow, ShallowFacts
  <2>2. \A x \in Children(t) : Shallow(MaxNesting, x)
    BY <1>5, <1>6, <2>1
  <2> HIDE DEF t, new
  <2>. QED
    BY <1>0, <2>2, FitsIsShallow, ShallowFacts
<1>8. ASSUME Fits(Dict(new)), NEW q \in Parts(Dict(new)) PROVE q \in {Dict(new), c} \cup Parts(s)
  <2> HIDE DEF new
  <2>1. CASE q = Dict(new)
    BY <2>1
  <2>2. CASE q # Dict(new)
    <3>1. PICK x \in Children(Dict(new)) : q \in Parts(x)
      BY <1>8, <2>2, PartsFacts
    <3>2. CASE x = c
      BY <3>1, <3>2, StampFacts
    <3>3. CASE x \in Children(s.dict["meta"])
      <4>1. s.dict["meta"] \in Parts(s) /\ Parts(s.dict["meta"]) \subseteq Parts(s) /\ Fits(s.dict["meta"])
        BY <1>2, <1>3, PartFacts
      <4>2. x \in Parts(s.dict["meta"]) /\ Parts(x) \subseteq Parts(s.dict["meta"])
        BY <3>3, <4>1, PartFacts
      <4>. QED
        BY <3>1, <4>1, <4>2
    <3>. QED
      BY <1>4, <3>1, <3>2, <3>3
  <2>. QED
    BY <2>1, <2>2
<1>9. ASSUME NEW q \in Parts(t) PROVE q \in {t, Dict(new), c} \cup Parts(s)
  <2> HIDE DEF t, new
  <2>1. CASE q = t
    BY <2>1
  <2>2. CASE q # t
    <3>1. PICK x \in Children(t) : q \in Parts(x) /\ Fits(x)
      BY <1>7, <1>9, <2>2, PartsFacts
    <3>2. CASE x = Dict(new)
      BY <1>8, <3>1, <3>2
    <3>3. CASE x \in Children(s)
      BY <3>1, <3>3, PartFacts
    <3>. QED
      BY <1>5, <3>1, <3>2, <3>3
  <2>. QED
    BY <2>1, <2>2
<1>. QED
  BY <1>1, <1>7, <1>9

\* A state with another checksum is plain, and has the same atoms but for that checksum.
LEMMA WithChecksumPlain ==
  ASSUME NEW s, Plain(s), Shaped(s), NEW c, Stamp(c)
  PROVE  /\ Plain(WithChecksum(s, c))
         /\ \A q \in Parts(WithChecksum(s, c)) : DOMAIN q = {"dict"} \/ q = c \/ q \in Parts(s)
<1> DEFINE t == WithChecksum(s, c)
<1>1. Fits(t) /\ Parts(t) \subseteq {t, t.dict["meta"], c} \cup Parts(s)
  BY WithChecksumParts DEF Plain
<1>2. IsDict(t) /\ IsDict(t.dict["meta"]) /\ DOMAIN t.dict = DOMAIN s.dict
  BY WithChecksumIs DEF Shaped
<1>3. TypeKey \notin DOMAIN s.dict /\ TypeKey \notin DOMAIN s.dict["meta"].dict
  <2>1. s \in Parts(s) /\ s.dict["meta"] \in Parts(s)
    BY PartFacts, ChildFacts DEF Plain, Shaped, IsDict, Is
  <2>2. ~ IsTagged(s) /\ ~ IsTagged(s.dict["meta"])
    BY <2>1 DEF Plain
  <2>3. Is(s, "dict") /\ Is(s.dict["meta"], "dict")
    BY DEF Shaped, IsDict, Is
  <2>. QED
    BY <2>2, <2>3 DEF IsTagged
<1>4. TypeKey \notin DOMAIN t.dict["meta"].dict
  <2>1. t.dict["meta"].dict = Put(s.dict["meta"].dict, "content_sha256", c)
    <3>1. t.dict["meta"] = Dict(Put(s.dict["meta"].dict, "content_sha256", c))
      BY WithChecksumIs
    <3> HIDE DEF t
    <3>. QED
      BY <3>1, DictFacts
  <2>2. DOMAIN t.dict["meta"].dict = DOMAIN s.dict["meta"].dict \cup {"content_sha256"}
    BY <2>1, PutDomain
  <2>. QED
    BY <1>3, <2>2 DEF TypeKey
<1>5. ASSUME NEW q, IsDict(q), TypeKey \notin DOMAIN q.dict PROVE PythonPart(q) /\ ~ IsTagged(q)
  BY <1>5 DEF IsDict, PythonPart, IsTagged, IsFunction
<1>6. ASSUME NEW q \in Parts(t) PROVE PythonPart(q) /\ ~ IsTagged(q)
  <2> HIDE DEF t
  <2>1. CASE q \in {t, t.dict["meta"]}
    BY <1>2, <1>3, <1>4, <1>5, <2>1
  <2>2. CASE q = c
    BY <2>2, StampFacts
  <2>3. CASE q \in Parts(s)
    BY <2>3, PlainParts
  <2>. QED
    BY <1>1, <1>6, <2>1, <2>2, <2>3
<1>. QED
  BY <1>1, <1>2, <1>6 DEF Plain, IsPython, IsDict

\* What can be printed is still printable with other dictionaries and checksums.
LEMMA StillPrints ==
  ASSUME NEW v, NEW w, ~ DumpsRaises(v),
         \A q \in Parts(w) : DOMAIN q \in {{"dict"}, {"list"}, {"sha"}, {"const"}} \/ q \in Parts(v)
  PROVE  ~ DumpsRaises(w)
  BY DEF DumpsRaises, EncodeRaises, NaN, Huge, Surrogate, Is

\* A state that can be printed can be printed with any checksum.
LEMMA StampPrints ==
  ASSUME NEW s, Plain(s), Shaped(s), ~ DumpsRaises(s), NEW c, Stamp(c)
  PROVE  ~ DumpsRaises(WithChecksum(s, c))
<1>1. \A q \in Parts(WithChecksum(s, c)) : DOMAIN q \in {{"dict"}, {"list"}, {"sha"}, {"const"}} \/ q \in Parts(s)
  BY WithChecksumPlain, StampFacts
<1>. QED
  BY <1>1, StillPrints

\* The normal form of a dictionary.
LEMMA NormalDict ==
  ASSUME NEW v, Plain(v), IsDict(v)
  PROVE  /\ Normal(v) = Dict([k \in DOMAIN v.dict |-> Normal(v.dict[k])])
         /\ IsDict(Normal(v)) /\ DOMAIN Normal(v).dict = DOMAIN v.dict
         /\ \A k \in DOMAIN v.dict : Normal(v).dict[k] = Normal(v.dict[k])
         /\ \A k : Field(Normal(v), k) = Normal(Field(v, k))
<1> DEFINE f == [k \in DOMAIN v.dict |-> Normal(v.dict[k])]
<1>1. Normal(v) = Dict(f)
  BY NormalRules DEF Plain, IsDict
<1>2. IsFunction(f) /\ DOMAIN f = DOMAIN v.dict /\ \A k \in DOMAIN v.dict : f[k] = Normal(v.dict[k])
  BY DEF IsFunction
<1>3. IsDict(Normal(v)) /\ Normal(v).dict = f
  <2> HIDE DEF f
  <2>. QED
    BY <1>1, <1>2, DictFacts
<1>4. Normal(Null) = Null
  BY StampFacts DEF Stamp
<1>5. \A k : Field(Normal(v), k) = Normal(Field(v, k))
  <2> HIDE DEF f
  <2>. QED
    BY <1>2, <1>3, <1>4 DEF Field
<1>. QED
  BY <1>1, <1>2, <1>3, <1>5

\* The checksum can be put in before or after tuples become lists.
LEMMA NormalOfWithChecksum ==
  ASSUME NEW s, Plain(s), Shaped(s), NEW c, Stamp(c)
  PROVE  Shaped(Normal(s)) /\ Normal(WithChecksum(s, c)) = WithChecksum(Normal(s), c)
<1> DEFINE t == WithChecksum(s, c)
           n == Normal(s)
           m == s.dict["meta"].dict
           new == Put(m, "content_sha256", c)
<1>1. IsDict(s) /\ "meta" \in DOMAIN s.dict /\ "collections" \in DOMAIN s.dict /\ IsDict(s.dict["meta"]) /\ IsDict(s.dict["collections"])
  BY DEF Shaped
<1>2. Plain(s.dict["meta"]) /\ Plain(s.dict["collections"])
  <2>1. s.dict["meta"] \in Parts(s) /\ s.dict["collections"] \in Parts(s)
    BY <1>1, PartFacts, ChildFacts DEF Plain, IsDict, Is
  <2>. QED
    BY <2>1, PlainParts
<1>3. /\ IsDict(n) /\ DOMAIN n.dict = DOMAIN s.dict
      /\ \A k \in DOMAIN s.dict : n.dict[k] = Normal(s.dict[k])
  BY <1>1, NormalDict
<1>4. /\ IsDict(Normal(s.dict["meta"])) /\ IsDict(Normal(s.dict["collections"]))
      /\ Normal(s.dict["meta"]).dict = [k \in DOMAIN m |-> Normal(m[k])]
  BY <1>1, <1>2, NormalDict, DictFacts
<1>5. Shaped(n)
  <2> HIDE DEF n
  <2>. QED
    BY <1>1, <1>3, <1>4 DEF Shaped
<1>6. /\ Plain(t) /\ IsDict(t) /\ DOMAIN t.dict = DOMAIN s.dict /\ t.dict["meta"] = Dict(new)
      /\ \A k \in DOMAIN s.dict \ {"meta"} : t.dict[k] = s.dict[k]
  BY WithChecksumIs, WithChecksumPlain DEF Shaped
<1>7. Normal(t) = Dict([k \in DOMAIN s.dict |-> Normal(t.dict[k])])
  <2> HIDE DEF t
  <2>. QED
    BY <1>6, NormalDict
<1>8. Normal(Dict(new)) = Dict(Put([k \in DOMAIN m |-> Normal(m[k])], "content_sha256", c))
  <2> DEFINE g == [k \in DOMAIN m |-> Normal(m[k])]
  <2>1. Plain(Dict(new))
    <3>1. t.dict["meta"] \in Parts(t)
      <4> HIDE DEF t
      <4>. QED
        BY <1>1, <1>6, PartFacts, ChildFacts DEF Plain, IsDict, Is
    <3> HIDE DEF t, new
    <3>. QED
      BY <1>6, <3>1, PlainParts
  <2>2. IsDict(Dict(new)) /\ Dict(new).dict = new
    BY PutDomain, DictFacts
  <2>3. Normal(Dict(new)) = Dict([k \in DOMAIN new |-> Normal(new[k])])
    <3> HIDE DEF new
    <3>. QED
      BY <2>1, <2>2, NormalDict
  <2>4. DOMAIN new = DOMAIN m \cup {"content_sha256"}
    BY PutDomain
  <2>5. new["content_sha256"] = c /\ \A k \in DOMAIN m \ {"content_sha256"} : new[k] = m[k]
    BY PutEntries
  <2>6. DOMAIN g = DOMAIN m /\ \A k \in DOMAIN m : g[k] = Normal(m[k])
    OBVIOUS
  <2>7. Put(g, "content_sha256", c) = [k \in DOMAIN m \cup {"content_sha256"} |-> IF k = "content_sha256" THEN c ELSE g[k]]
    BY <2>6 DEF Put
  <2>8. \A k \in DOMAIN m \cup {"content_sha256"} : Normal(new[k]) = IF k = "content_sha256" THEN c ELSE g[k]
    <3> HIDE DEF new, g, m
    <3>. QED
      BY <2>5, <2>6, StampFacts
  <2>9. [k \in DOMAIN new |-> Normal(new[k])] = Put(g, "content_sha256", c)
    <3> HIDE DEF new, g, m
    <3>. QED
      BY <2>4, <2>7, <2>8
  <2>. QED
    BY <2>3, <2>9
<1>9. WithChecksum(n, c) = Dict([k \in DOMAIN s.dict |->
              IF k = "meta" THEN Dict(Put([y \in DOMAIN m |-> Normal(m[y])], "content_sha256", c)) ELSE n.dict[k]])
  <2> DEFINE g == [y \in DOMAIN m |-> Normal(m[y])]
  <2>1. n.dict["meta"].dict = g
    BY <1>1, <1>3, <1>4
  <2> HIDE DEF n, g
  <2>2. WithChecksum(n, c) = Dict([k \in DOMAIN n.dict |->
              IF k = "meta" THEN Dict(Put(n.dict["meta"].dict, "content_sha256", c)) ELSE n.dict[k]])
    BY <1>5, WithChecksumIs
  <2>. QED
    BY <1>3, <2>1, <2>2 DEF g
<1>10. \A k \in DOMAIN s.dict : Normal(t.dict[k]) =
          IF k = "meta" THEN Dict(Put([y \in DOMAIN m |-> Normal(m[y])], "content_sha256", c)) ELSE n.dict[k]
  <2> DEFINE x == Dict(Put([y \in DOMAIN m |-> Normal(m[y])], "content_sha256", c))
  <2> HIDE DEF t, n, new, x
  <2>1. Normal(Dict(new)) = x
    BY <1>8 DEF x
  <2>2. \A k \in DOMAIN s.dict : Normal(t.dict[k]) = IF k = "meta" THEN x ELSE n.dict[k]
    BY <1>3, <1>6, <2>1
  <2>. QED
    BY <2>2 DEF x
<1>11. Normal(t) = WithChecksum(n, c)
  <2> HIDE DEF t, n
  <2>. QED
    BY <1>7, <1>9, <1>10
<1>. QED
  BY <1>5, <1>11
-----------------------------------------------------------------------------
\* Commits

\* What holds of every state that was committed.
StateOK(s) ==
  /\ Plain(s)
  /\ ShapeAccepts(s, TRUE)
  /\ ~ DumpsRaises(s)
  /\ Normal(s) = s
  /\ ChecksumAgrees(s)
  /\ Checksums(WithChecksum(s, Null)) = {}

\* A state is committed when its shape is right, it can be printed and it has no checksums
\* but its own.
Ready(s) ==
  /\ Plain(s)
  /\ ShapeAccepts(s, FALSE)
  /\ ~ DumpsRaises(s)
  /\ Checksums(WithChecksum(s, Null)) = {}

\* What ShapeAccepts() asks of the collections.
ShapedDocuments(d) ==
  Is(d, "dict") /\ \A i \in DOMAIN d.dict : i # "" /\ Is(d.dict[i], "dict") /\ Field(d.dict[i], "id") = [str |-> i]

ShapedCollections(c) ==
  Is(c, "dict") /\ \A n \in DOMAIN c.dict : ValidName(n) /\ ShapedDocuments(c.dict[n])

\* What it asks of the metadata.
ShapedMeta(m, checksum) ==
  /\ Is(m, "dict")
  /\ Field(m, "format") = [str |-> "json_database"]
  /\ Field(m, "version") = [num |-> "1"]
  /\ checksum => DOMAIN Field(m, "content_sha256") \subseteq {"str", "sha"}

\* The parts of _validate_state_shape().
LEMMA ShapeIs ==
  ASSUME NEW s, NEW b
  PROVE  ShapeAccepts(s, b) <=>
           Is(s, "dict") /\ ShapedMeta(Field(s, "meta"), b) /\ ShapedCollections(Field(s, "collections"))
  BY Zenon DEF ShapeAccepts, ShapedMeta, ShapedCollections, ShapedDocuments

\* Strings and numbers are normal.
LEMMA NormalAtoms ==
  ASSUME NEW x
  PROVE  Normal([str |-> x]) = [str |-> x] /\ Normal([num |-> x]) = [num |-> x]
<1>1. ASSUME NEW v, DOMAIN v \in {{"str"}, {"num"}} PROVE Normal(v) = v
  <2>1. Children(v) = {}
    BY <1>1, ChildrenOf
  <2>2. Fits(v)
    BY <2>1, ChildlessFacts
  <2>. QED
    BY <1>1, <2>2, NormalRules
<1>. QED
  BY <1>1

\* The shape does not depend on what tuples have become.
LEMMA ShapeOfNormal ==
  ASSUME NEW s, Plain(s), ShapeAccepts(s, FALSE)
  PROVE  ShapeAccepts(Normal(s), FALSE)
<1>1. /\ IsDict(s) /\ IsDict(s.dict["meta"]) /\ IsDict(s.dict["collections"])
      /\ "meta" \in DOMAIN s.dict /\ "collections" \in DOMAIN s.dict
      /\ Plain(s.dict["meta"]) /\ Plain(s.dict["collections"])
  BY ShapedByShape DEF Shaped
<1> DEFINE m == s.dict["meta"]
           c == s.dict["collections"]
<1>2. Field(s, "meta") = m /\ Field(s, "collections") = c
  BY <1>1 DEF Field
<1>3. ShapedMeta(m, FALSE) /\ ShapedCollections(c)
  BY <1>2, ShapeIs
<1>4. /\ IsDict(Normal(s)) /\ IsDict(Normal(m)) /\ IsDict(Normal(c))
      /\ Field(Normal(s), "meta") = Normal(m) /\ Field(Normal(s), "collections") = Normal(c)
  <2>1. \A k : Field(Normal(s), k) = Normal(Field(s, k))
    BY <1>1, NormalDict
  <2>. QED
    BY <1>1, <1>2, <2>1, NormalDict
<1>5. ShapedMeta(Normal(m), FALSE)
  <2>1. Field(Normal(m), "format") = Normal(Field(m, "format")) /\ Field(Normal(m), "version") = Normal(Field(m, "version"))
    BY <1>1, NormalDict
  <2>. QED
    BY <1>3, <1>4, <2>1, NormalAtoms DEF ShapedMeta, IsDict, Is
<1>6. ShapedCollections(Normal(c))
  <2>1. DOMAIN Normal(c).dict = DOMAIN c.dict /\ \A n \in DOMAIN c.dict : Normal(c).dict[n] = Normal(c.dict[n]) /\ Plain(c.dict[n])
    BY <1>1, NormalDict, PlainDict DEF IsDict, Is
  <2>2. ASSUME NEW n \in DOMAIN c.dict
        PROVE  ShapedDocuments(Normal(c.dict[n]))
    <3> DEFINE d == c.dict[n]
    <3>1. /\ Plain(d) /\ Is(d, "dict")
          /\ \A i \in DOMAIN d.dict : i # "" /\ Is(d.dict[i], "dict") /\ Field(d.dict[i], "id") = [str |-> i]
      BY <1>3, <2>1 DEF ShapedCollections, ShapedDocuments
    <3> HIDE DEF d
    <3>2. IsDict(d) /\ \A i \in DOMAIN d.dict : Plain(d.dict[i])
      BY <3>1, PlainDict
    <3>3. IsDict(Normal(d)) /\ DOMAIN Normal(d).dict = DOMAIN d.dict /\ \A i \in DOMAIN d.dict : Normal(d).dict[i] = Normal(d.dict[i])
      BY <3>1, <3>2, NormalDict
    <3>4. ASSUME NEW i \in DOMAIN d.dict
          PROVE  Is(Normal(d.dict[i]), "dict") /\ Field(Normal(d.dict[i]), "id") = [str |-> i]
      <4>1. Plain(d.dict[i]) /\ IsDict(d.dict[i])
        BY <3>1, <3>2, PlainDict
      <4>2. IsDict(Normal(d.dict[i])) /\ Field(Normal(d.dict[i]), "id") = Normal([str |-> i])
        <5>1. IsDict(Normal(d.dict[i])) /\ Field(Normal(d.dict[i]), "id") = Normal(Field(d.dict[i], "id"))
          <6>1. \A k : Field(Normal(d.dict[i]), k) = Normal(Field(d.dict[i], k))
            BY <4>1, NormalDict
          <6>. QED
            BY <4>1, <6>1, NormalDict
        <5>. QED
          BY <3>1, <5>1
      <4>. QED
        BY <4>2, NormalAtoms DEF IsDict, Is
    <3>5. Is(Normal(d), "dict")
      BY <3>3 DEF IsDict, Is
    <3>6. \A i \in DOMAIN Normal(d).dict :
            i # "" /\ Is(Normal(d).dict[i], "dict") /\ Field(Normal(d).dict[i], "id") = [str |-> i]
      BY <3>1, <3>3, <3>4
    <3>. QED
      BY <3>5, <3>6 DEF d, ShapedDocuments
  <2>3. Is(Normal(c), "dict") /\ \A n \in DOMAIN c.dict : ValidName(n)
    BY <1>3, <1>4 DEF ShapedCollections, IsDict, Is
  <2> HIDE DEF c
  <2>. QED
    BY <2>1, <2>2, <2>3 DEF ShapedCollections
<1>. QED
  BY <1>4, <1>5, <1>6, ShapeIs DEF IsDict, Is

\* The shape with another checksum.
LEMMA ShapeWithChecksum ==
  ASSUME NEW s, Shaped(s), ShapeAccepts(s, FALSE), NEW c, Stamp(c), c # Null
  PROVE  ShapeAccepts(WithChecksum(s, c), TRUE)
<1> DEFINE t == WithChecksum(s, c)
           m == s.dict["meta"].dict
           new == Put(m, "content_sha256", c)
<1>1. /\ Shaped(t) /\ t.dict["meta"] = Dict(new) /\ t.dict["collections"] = s.dict["collections"]
  <2>1. "collections" \in DOMAIN s.dict \ {"meta"}
    BY DEF Shaped
  <2>2. Shaped(t) /\ t.dict["meta"] = Dict(new)
    BY WithChecksumIs
  <2>3. \A k \in DOMAIN s.dict \ {"meta"} : t.dict[k] = s.dict[k]
    BY WithChecksumIs
  <2> HIDE DEF t, new
  <2>. QED
    BY <2>1, <2>2, <2>3
<1>2. /\ IsDict(s) /\ {"meta", "collections"} \subseteq DOMAIN s.dict /\ IsDict(s.dict["meta"])
      /\ IsDict(t) /\ {"meta", "collections"} \subseteq DOMAIN t.dict
  BY <1>1 DEF Shaped
<1>3. ShapedMeta(s.dict["meta"], FALSE) /\ ShapedCollections(s.dict["collections"])
  BY <1>2, ShapeIs DEF Field
<1>4. Field(t, "meta") = Dict(new) /\ Field(t, "collections") = s.dict["collections"] /\ Is(t, "dict")
  BY <1>1, <1>2 DEF Field, IsDict, Is
<1>5. ShapedMeta(Dict(new), TRUE)
  <2>1. DOMAIN new = DOMAIN m \cup {"content_sha256"}
    BY PutDomain
  <2>2. new["content_sha256"] = c /\ \A y \in DOMAIN m \ {"content_sha256"} : new[y] = m[y]
    BY PutEntries
  <2>3. Dict(new).dict = new /\ Is(Dict(new), "dict")
    BY DictFacts DEF Is
  <2> HIDE DEF new
  <2>4. \A k : k # "content_sha256" => Field(Dict(new), k) = Field(s.dict["meta"], k)
    BY <2>1, <2>2, <2>3 DEF Field
  <2>5. Field(Dict(new), "content_sha256") = c
    BY <2>1, <2>2, <2>3 DEF Field
  <2>6. DOMAIN c \subseteq {"str", "sha"}
    BY DEF Stamp
  <2>. QED
    BY <1>3, <2>3, <2>4, <2>5, <2>6 DEF ShapedMeta
<1>. QED
  BY <1>3, <1>4, <1>5, ShapeIs

\* What compute_checksum() returns is a stamp.
LEMMA ChecksumIsStamp ==
  ASSUME NEW s
  PROVE  Stamp(Checksum(s)) /\ Checksum(s) # Null /\ Stamp(Null) /\ DOMAIN Checksum(s) = {"sha"}
<1>1. Checksum(s) = [sha |-> Encode(WithChecksum(s, Null))]
  BY DEF Checksum
<1>2. DOMAIN Checksum(s) = {"sha"}
  BY <1>1
<1>3. DOMAIN Null = {"const"}
  BY DEF Null
<1>. QED
  BY <1>1, <1>2, <1>3 DEF Stamp

\* The checksums in a state are those that it has without its own, and its own.
LEMMA OnlyChecksum ==
  ASSUME NEW s, Plain(s), Shaped(s), Checksums(WithChecksum(s, Null)) = {}, NEW c, Stamp(c)
  PROVE  \A q \in Parts(WithChecksum(s, c)) : Is(q, "sha") => q = c
<1> DEFINE t == WithChecksum(s, Null)
<1>1. Plain(t) /\ Shaped(t) /\ WithChecksum(t, c) = WithChecksum(s, c)
  BY ChecksumIsStamp, WithChecksumPlain, WithChecksumIs, WithChecksumTwice
<1>2. \A q \in Parts(t) : ~ Is(q, "sha")
  BY DEF Checksums
<1> HIDE DEF t
<1>3. \A q \in Parts(WithChecksum(s, c)) : DOMAIN q = {"dict"} \/ q = c \/ q \in Parts(t)
  BY <1>1, WithChecksumPlain
<1>. QED
  BY <1>2, <1>3 DEF Is

\* What a commit makes of a state.
LEMMA CommitGood ==
  ASSUME NEW s, Ready(s)
  PROVE  /\ StateOK(Normal(Prepared(s)))
         /\ Encode(Normal(Prepared(s))) = Encode(Prepared(s))
         /\ Checksum(Normal(Prepared(s))) = Checksum(s)
<1> DEFINE c == Checksum(s)
           n == Normal(s)
           t == WithChecksum(s, Null)
<1>1. Plain(s) /\ Shaped(s) /\ Stamp(c) /\ c # Null /\ Stamp(Null)
  BY ShapedByShape, ChecksumIsStamp DEF Ready
<1>2. Prepared(s) = WithChecksum(s, c)
  BY DEF Prepared
<1>3. Shaped(n) /\ Normal(WithChecksum(s, c)) = WithChecksum(n, c) /\ Normal(t) = WithChecksum(n, Null)
  BY <1>1, NormalOfWithChecksum
<1>4. Plain(WithChecksum(s, c)) /\ Plain(t) /\ ~ DumpsRaises(WithChecksum(s, c))
  BY <1>1, WithChecksumPlain, StampPrints DEF Ready
<1> DEFINE new == WithChecksum(n, c)
<1>5. /\ Plain(new) /\ Normal(new) = new /\ Encode(new) = Encode(WithChecksum(s, c))
      /\ \A q \in Parts(new) : Basic(q) => q \in Parts(WithChecksum(s, c))
  <2> HIDE DEF c, n
  <2>. QED
    BY <1>3, <1>4, NormalFacts
<1>6. WithChecksum(new, Null) = Normal(t)
  BY <1>3, WithChecksumTwice
<1>7. Checksum(new) = c
  <2>1. Encode(Normal(t)) = Encode(t)
    <3> HIDE DEF t
    <3>. QED
      BY <1>4, NormalFacts
  <2> HIDE DEF new
  <2>. QED
    BY <1>6, <2>1 DEF Checksum
<1>8. ChecksumAgrees(new)
  <2>1. new.dict["meta"].dict["content_sha256"] = c
    BY <1>3, WithChecksumTwice
  <2> HIDE DEF new, c
  <2>. QED
    BY <1>7, <2>1 DEF ChecksumAgrees
<1>9. ~ DumpsRaises(new)
  <2> HIDE DEF new, c
  <2>1. ASSUME NEW q \in Parts(new)
        PROVE  DOMAIN q \in {{"dict"}, {"list"}, {"sha"}, {"const"}} \/ q \in Parts(WithChecksum(s, c)) \/ DOMAIN q = {"tuple"}
    <3>1. PythonPart(q)
      BY <1>5, PlainParts
    <3>2. CASE Basic(q)
      BY <1>5, <3>2
    <3>3. CASE ~ Basic(q)
      BY <3>1, <3>3 DEF PythonPart, Basic, Scalars
    <3>. QED
      BY <3>2, <3>3
  <2>. QED
    BY <1>4, <2>1 DEF DumpsRaises, EncodeRaises, NaN, Huge, Surrogate, Is
<1>10. Checksums(WithChecksum(new, Null)) = {}
  <2>1. \A q \in Parts(t) : ~ Is(q, "sha")
    <3>1. Checksums(t) = {}
      BY DEF Ready
    <3> HIDE DEF t
    <3>. QED
      BY <3>1 DEF Checksums
  <2> HIDE DEF t, new
  <2>2. \A q \in Parts(Normal(t)) : Basic(q) => q \in Parts(t)
    BY <1>4, NormalFacts
  <2>3. Plain(Normal(t))
    BY <1>4, NormalFacts
  <2>4. ASSUME NEW q \in Parts(Normal(t)), Is(q, "sha") PROVE FALSE
    <3>1. PythonPart(q)
      BY <2>3, PlainParts
    <3>2. Basic(q)
      BY <2>4, <3>1 DEF PythonPart, Basic, Is, Scalars
    <3>. QED
      BY <2>1, <2>2, <2>4, <3>2
  <2>. QED
    BY <1>6, <2>4 DEF Checksums
<1>11. ShapeAccepts(new, TRUE)
  <2>1. ShapeAccepts(n, FALSE)
    BY <1>1, ShapeOfNormal DEF Ready
  <2> HIDE DEF n, c
  <2>. QED
    BY <1>1, <1>3, <2>1, ShapeWithChecksum
<1>12. StateOK(new)
  <2> HIDE DEF new
  <2>. QED
    BY <1>5, <1>8, <1>9, <1>10, <1>11 DEF StateOK
<1>. QED
  BY <1>2, <1>3, <1>5, <1>7, <1>12

\* What is stored has the checksum of the state, and no other.
LEMMA StoredChecksum ==
  ASSUME NEW s, StateOK(s), Fits(Encode(s))
  PROVE  Checksums(Encode(s)) \subseteq {Checksum(s)}
<1>1. /\ Plain(s) /\ Shaped(s) /\ Stamp(Checksum(s))
      /\ s.dict["meta"].dict["content_sha256"] = Checksum(s)
  BY ShapedByShape, ChecksumIsStamp DEF StateOK, ChecksumAgrees
<1>2. WithChecksum(s, Checksum(s)) = s
  <2>1. "content_sha256" \in DOMAIN s.dict["meta"].dict
    <3>1. ShapedMeta(Field(s, "meta"), TRUE)
      BY ShapeIs DEF StateOK
    <3>2. Field(s, "meta") = s.dict["meta"]
      BY <1>1 DEF Shaped, Field
    <3>3. DOMAIN Null = {"const"}
      BY DEF Null
    <3>. QED
      BY <3>1, <3>2, <3>3 DEF ShapedMeta, Field
  <2>. QED
    BY <1>1, <2>1, WithChecksumTwice
<1>3. \A q \in Parts(s) : Is(q, "sha") => q = Checksum(s)
  <2>1. \A q \in Parts(WithChecksum(s, Checksum(s))) : Is(q, "sha") => q = Checksum(s)
    BY <1>1, OnlyChecksum DEF StateOK
  <2>. QED
    BY <1>2, <2>1
<1>4. \A q \in Parts(Encode(s)) : Is(q, "sha") => q \in Parts(s)
  BY <1>1, EncodeFacts
<1>. QED
  BY <1>3, <1>4 DEF Checksums
-----------------------------------------------------------------------------
\* The state of a new database

\* The depth of a dictionary.
LEMMA DictShallow ==
  ASSUME NEW f, NEW n \in 0..MaxNesting, \A k \in DOMAIN f : Shallow(n, f[k])
  PROVE  Shallow(n + 1, Dict(f))
<1>1. Children(Dict(f)) = Range(f)
  BY DictFacts
<1>2. \A c \in Children(Dict(f)) : Shallow(n, c)
  BY <1>1 DEF Range
<1>. QED
  BY <1>2, ShallowFacts

\* Atoms have no parts and stay what they are.
LEMMA LeafFacts ==
  ASSUME NEW v, DOMAIN v \in {{"const"}, {"num"}, {"str"}, {"sha"}, {"datetime"}}
  PROVE  Children(v) = {} /\ Fits(v) /\ Parts(v) = {v} /\ Normal(v) = v /\ \A n \in Depths : n # 0 => Shallow(n, v)
<1>1. Children(v) = {}
  BY ChildrenOf
<1>2. Fits(v) /\ Parts(v) = {v} /\ \A n \in Depths : n # 0 => Shallow(n, v)
  BY <1>1, ChildlessFacts
<1>. QED
  BY <1>1, <1>2, NormalRules

\* The encoding of a dictionary.
LEMMA EncodeDict ==
  ASSUME NEW v, Fits(v), IsDict(v)
  PROVE  /\ Encode(v) = Dict([k \in DOMAIN v.dict |-> Encode(v.dict[k])])
         /\ IsDict(Encode(v)) /\ DOMAIN Encode(v).dict = DOMAIN v.dict
         /\ \A k \in DOMAIN v.dict : Encode(v).dict[k] = Encode(v.dict[k])
<1> DEFINE f == [k \in DOMAIN v.dict |-> Encode(v.dict[k])]
<1>1. Encode(v) = Dict(f)
  BY EncodeRules DEF IsDict
<1>2. IsFunction(f) /\ DOMAIN f = DOMAIN v.dict /\ \A k \in DOMAIN v.dict : f[k] = Encode(v.dict[k])
  BY DEF IsFunction
<1>3. IsDict(Encode(v)) /\ Encode(v).dict = f
  <2> HIDE DEF f
  <2>. QED
    BY <1>1, <1>2, DictFacts
<1>. QED
  BY <1>1, <1>2, <1>3

\* The state of a new database, before it has a checksum.
BlankMeta == [format |-> [str |-> "json_database"], version |-> [num |-> "1"], updated_at |-> [datetime |-> "t"]]
Blank == Dict([meta |-> Dict(BlankMeta), collections |-> Dict(None)])
\* The atoms of the blank state.
BlankLeaves == {[str |-> "json_database"], [num |-> "1"], [datetime |-> "t"]}

\* create_empty() gives the blank state a checksum.
LEMMA EmptyStateIs == EmptyState = Prepared(Blank)
  BY DEF EmptyState, Prepared, Blank, BlankMeta

\* The items of the blank state.
LEMMA BlankFields ==
  /\ IsDict(Blank) /\ DOMAIN Blank.dict = {"meta", "collections"}
  /\ Blank.dict["meta"] = Dict(BlankMeta) /\ Blank.dict["collections"] = Dict(None)
  /\ IsDict(Dict(BlankMeta)) /\ Dict(BlankMeta).dict = BlankMeta
  /\ DOMAIN BlankMeta = {"format", "version", "updated_at"}
  /\ \A k \in DOMAIN BlankMeta : BlankMeta[k] \in BlankLeaves
  /\ BlankMeta["format"] = [str |-> "json_database"] /\ BlankMeta["version"] = [num |-> "1"]
  /\ IsDict(Dict(None)) /\ DOMAIN Dict(None).dict = {}
  /\ Shaped(Blank)
<1> DEFINE f == [meta |-> Dict(BlankMeta), collections |-> Dict(None)]
<1>1. /\ DOMAIN f = {"meta", "collections"} /\ IsFunction(f)
      /\ f["meta"] = Dict(BlankMeta) /\ f["collections"] = Dict(None)
  <2> DEFINE a == Dict(BlankMeta)  b == Dict(None)
  <2> HIDE DEF a, b
  <2>1. DOMAIN [meta |-> a, collections |-> b] = {"meta", "collections"} /\ IsFunction([meta |-> a, collections |-> b])
    BY DEF IsFunction
  <2>2. [meta |-> a, collections |-> b]["meta"] = a /\ [meta |-> a, collections |-> b]["collections"] = b
    OBVIOUS
  <2>. QED
    BY <2>1, <2>2 DEF a, b
<1>2. Blank = Dict(f)
  BY DEF Blank
<1>3. IsDict(Blank) /\ Blank.dict = f
  <2> HIDE DEF f
  <2>. QED
    BY <1>1, <1>2, DictFacts
<1>4. DOMAIN BlankMeta = {"format", "version", "updated_at"} /\ IsFunction(BlankMeta)
  BY DEF BlankMeta, IsFunction
<1>5. IsDict(Dict(BlankMeta)) /\ Dict(BlankMeta).dict = BlankMeta
  BY <1>4, DictFacts
<1>6. /\ \A k \in DOMAIN BlankMeta : BlankMeta[k] \in BlankLeaves
      /\ BlankMeta["format"] = [str |-> "json_database"] /\ BlankMeta["version"] = [num |-> "1"]
  BY DEF BlankMeta, BlankLeaves
<1>7. DOMAIN None = {} /\ IsFunction(None)
  BY DEF None, IsFunction
<1>8. IsDict(Dict(None)) /\ DOMAIN Dict(None).dict = {}
  BY <1>7, DictFacts
<1>9. Shaped(Blank)
  BY <1>1, <1>3, <1>5, <1>8 DEF Shaped
<1>. QED
  BY <1>1, <1>3, <1>4, <1>5, <1>6, <1>8, <1>9

\* The parts of the blank state.
LEMMA BlankParts ==
  /\ Fits(Blank)
  /\ \A q \in Parts(Blank) : q \in {Blank, Dict(BlankMeta), Dict(None)} \cup BlankLeaves
<1>0. /\ MaxNesting \in 0..MaxNesting /\ MaxNesting - 1 \in 0..MaxNesting /\ MaxNesting - 1 # 0
      /\ (MaxNesting - 1) + 1 = MaxNesting /\ MaxNesting \in Depths /\ MaxNesting - 1 \in Depths /\ MaxNesting # 0
  BY NestingAssumption DEF Depths
<1>1. \A q \in BlankLeaves : DOMAIN q \in {{"num"}, {"str"}, {"datetime"}}
  BY DEF BlankLeaves
<1>2. Shallow(MaxNesting, Dict(BlankMeta))
  BY <1>0, <1>1, BlankFields, LeafFacts, DictShallow
<1>3. Children(Dict(None)) = {}
  BY BlankFields, ChildrenOf DEF IsDict, Range
<1>4. Shallow(MaxNesting, Dict(None)) /\ Parts(Dict(None)) = {Dict(None)}
  BY <1>0, <1>3, ChildlessFacts
<1>5. Children(Blank) = {Dict(BlankMeta), Dict(None)}
  <2>1. Children(Blank) = Range(Blank.dict)
    BY BlankFields, ChildrenOf DEF IsDict
  <2>. QED
    BY <2>1, BlankFields DEF Range
<1>6. Fits(Blank)
  <2>1. \A c \in Children(Blank) : Shallow(MaxNesting, c)
    BY <1>2, <1>4, <1>5
  <2>. QED
    BY <1>0, <2>1, ShallowFacts, FitsIsShallow
<1>7. Children(Dict(BlankMeta)) \subseteq BlankLeaves
  BY BlankFields, DictFacts DEF Range
<1>8. ASSUME NEW q \in Parts(Dict(BlankMeta)) PROVE q \in {Dict(BlankMeta)} \cup BlankLeaves
  <2>1. Fits(Dict(BlankMeta))
    BY <1>5, <1>6, PartsFacts
  <2>2. CASE q # Dict(BlankMeta)
    <3>1. PICK c \in Children(Dict(BlankMeta)) : q \in Parts(c)
      BY <1>8, <2>1, <2>2, PartsFacts
    <3>2. Parts(c) = {c}
      BY <1>1, <1>7, LeafFacts
    <3>. QED
      BY <1>7, <3>1, <3>2
  <2>. QED
    BY <2>2
<1>9. ASSUME NEW q \in Parts(Blank), q # Blank PROVE q \in {Dict(BlankMeta), Dict(None)} \cup BlankLeaves
  <2>1. PICK c \in Children(Blank) : q \in Parts(c)
    BY <1>6, <1>9, PartsFacts
  <2>. QED
    BY <1>4, <1>5, <1>8, <2>1
<1>. QED
  BY <1>6, <1>9

\* The blank state can be committed.
LEMMA BlankReady == Ready(Blank) /\ Normal(Blank) = Blank
<1>1. ASSUME NEW q \in BlankLeaves
      PROVE  /\ PythonPart(q) /\ ~ IsTagged(q) /\ DOMAIN q \in {{"num"}, {"str"}, {"datetime"}}
             /\ q \notin {NaN, Huge, Surrogate}
  <2>1. CASE q = [str |-> "json_database"]
    BY <2>1 DEF PythonPart, IsFunction, IsTagged, Is, NaN, Huge, Surrogate
  <2>2. CASE q = [num |-> "1"]
    BY <2>2 DEF PythonPart, IsFunction, IsTagged, Is, NaN, Huge, Surrogate
  <2>3. CASE q = [datetime |-> "t"]
    <3>1. "t" \in DOMAIN Spelled("datetime") /\ Spelled("datetime")["t"] = "t"
      BY DEF Spelled
    <3>2. DOMAIN q = {"datetime"} /\ q["datetime"] = "t" /\ IsFunction(q)
      BY <2>3 DEF IsFunction
    <3>3. "datetime" \in Scalars
      BY DEF Scalars
    <3>4. PythonPart(q)
      BY <3>1, <3>2, <3>3 DEF PythonPart
    <3>. QED
      BY <3>2, <3>4 DEF IsTagged, Is, NaN, Huge, Surrogate
  <2>. QED
    BY <2>1, <2>2, <2>3 DEF BlankLeaves
<1>2. ASSUME NEW q \in {Blank, Dict(BlankMeta), Dict(None)}
      PROVE  PythonPart(q) /\ ~ IsTagged(q) /\ DOMAIN q = {"dict"}
  <2>1. IsDict(q) /\ TypeKey \notin DOMAIN q.dict
    BY BlankFields DEF TypeKey
  <2>. QED
    BY <2>1 DEF IsDict, PythonPart, IsTagged, IsFunction
<1>3. Plain(Blank)
  BY <1>1, <1>2, BlankParts DEF Plain, IsPython
<1>4. ~ DumpsRaises(Blank)
  BY <1>1, <1>2, BlankParts DEF DumpsRaises, EncodeRaises, NaN, Huge, Surrogate, Is
<1>5. ShapeAccepts(Blank, FALSE)
  <2>1. Field(Blank, "meta") = Dict(BlankMeta) /\ Field(Blank, "collections") = Dict(None)
    BY BlankFields DEF Field
  <2>2. ShapedMeta(Dict(BlankMeta), FALSE)
    BY BlankFields DEF ShapedMeta, Field, IsDict, Is
  <2>3. ShapedCollections(Dict(None))
    BY BlankFields DEF ShapedCollections, IsDict, Is
  <2>. QED
    BY <2>1, <2>2, <2>3, BlankFields, ShapeIs DEF IsDict, Is
<1>6. Checksums(WithChecksum(Blank, Null)) = {}
  <2>1. \A q \in Parts(WithChecksum(Blank, Null)) : DOMAIN q = {"dict"} \/ q = Null \/ q \in Parts(Blank)
    BY <1>3, BlankFields, ChecksumIsStamp, WithChecksumPlain
  <2>2. \A q \in Parts(Blank) : ~ Is(q, "sha")
    BY <1>1, <1>2, BlankParts DEF Is
  <2>. QED
    BY <2>1, <2>2 DEF Checksums, Is, Null
<1>7. Normal(Blank) = Blank
  <2>1. Plain(Dict(BlankMeta)) /\ Plain(Dict(None))
    BY <1>3, <1>5, BlankFields, ShapedByShape
  <2>2. Normal(Dict(None)) = Dict(None)
    <3>1. Normal(Dict(None)) = Dict([k \in DOMAIN Dict(None).dict |-> Normal(Dict(None).dict[k])])
      BY <2>1, BlankFields, NormalDict
    <3>2. [k \in DOMAIN Dict(None).dict |-> Normal(Dict(None).dict[k])] = None
      BY BlankFields DEF None
    <3>. QED
      BY <3>1, <3>2
  <2>3. Normal(Dict(BlankMeta)) = Dict(BlankMeta)
    <3>1. Normal(Dict(BlankMeta)) = Dict([k \in DOMAIN BlankMeta |-> Normal(BlankMeta[k])])
      BY <2>1, BlankFields, NormalDict
    <3>2. \A k \in DOMAIN BlankMeta : Normal(BlankMeta[k]) = BlankMeta[k]
      BY <1>1, BlankFields, LeafFacts
    <3>3. [k \in DOMAIN BlankMeta |-> Normal(BlankMeta[k])] = [k \in DOMAIN BlankMeta |-> BlankMeta[k]]
      BY <3>2, Zenon
    <3>4. BlankMeta = [k \in DOMAIN BlankMeta |-> BlankMeta[k]]
      BY DEF BlankMeta
    <3>. QED
      BY <3>1, <3>3, <3>4
  <2>4. Normal(Blank) = Dict([k \in DOMAIN Blank.dict |-> Normal(Blank.dict[k])])
    BY <1>3, BlankFields, NormalDict
  <2>5. \A k \in DOMAIN Blank.dict : Normal(Blank.dict[k]) = Blank.dict[k]
    BY <2>2, <2>3, BlankFields
  <2>6. [k \in DOMAIN Blank.dict |-> Normal(Blank.dict[k])] = [k \in DOMAIN Blank.dict |-> Blank.dict[k]]
    BY <2>5, Zenon
  <2>7. Blank = Dict([k \in DOMAIN Blank.dict |-> Blank.dict[k]])
    BY BlankFields, Zenon DEF IsDict, IsFunction, Dict
  <2>. QED
    BY <2>4, <2>6, <2>7
<1>. QED
  BY <1>3, <1>4, <1>5, <1>6, <1>7 DEF Ready

\* The state of a new database is one that a commit may store.
LEMMA EmptyStateGood ==
  /\ StateOK(EmptyState) /\ Prepared(EmptyState) = EmptyState /\ Normal(EmptyState) = EmptyState
  /\ Fits(Encode(EmptyState))
<1> DEFINE c == Checksum(Blank)
<1>1. EmptyState = WithChecksum(Blank, c) /\ Stamp(c) /\ Shaped(Blank) /\ Plain(Blank)
  BY EmptyStateIs, ChecksumIsStamp, BlankFields, BlankReady DEF Prepared, Ready
<1>2. Normal(EmptyState) = EmptyState
  BY <1>1, BlankReady, NormalOfWithChecksum
<1>3. StateOK(EmptyState)
  BY <1>2, EmptyStateIs, BlankReady, CommitGood
<1>4. Checksum(EmptyState) = c
  BY <1>2, EmptyStateIs, BlankReady, CommitGood
<1>5. Prepared(EmptyState) = EmptyState
  BY <1>1, <1>4, WithChecksumTwice DEF Prepared
<1> DEFINE new == Put(BlankMeta, "content_sha256", c)
<1>6. /\ IsDict(EmptyState) /\ DOMAIN EmptyState.dict = {"meta", "collections"}
      /\ EmptyState.dict["meta"] = Dict(new) /\ EmptyState.dict["collections"] = Dict(None)
  <2>1. "collections" \in DOMAIN Blank.dict \ {"meta"}
    BY BlankFields
  <2>2. \A k \in DOMAIN Blank.dict \ {"meta"} : WithChecksum(Blank, c).dict[k] = Blank.dict[k]
    BY <1>1, WithChecksumIs
  <2>3. /\ Shaped(WithChecksum(Blank, c)) /\ DOMAIN WithChecksum(Blank, c).dict = DOMAIN Blank.dict
        /\ WithChecksum(Blank, c).dict["meta"] = Dict(Put(Blank.dict["meta"].dict, "content_sha256", c))
    BY <1>1, WithChecksumIs
  <2>4. Blank.dict["meta"].dict = BlankMeta
    BY BlankFields
  <2> HIDE DEF c
  <2>. QED
    BY <1>1, <2>1, <2>2, <2>3, <2>4, BlankFields DEF Shaped
<1> HIDE DEF c
<1>7. IsDict(Dict(new)) /\ Dict(new).dict = new
  <2>1. IsFunction(new)
    BY PutDomain
  <2> HIDE DEF new
  <2>. QED
    BY <2>1, DictFacts
<1>8. \A k \in DOMAIN new : new[k] = c \/ new[k] \in BlankLeaves
  <2>1. DOMAIN new = DOMAIN BlankMeta \cup {"content_sha256"}
    BY PutDomain
  <2>2. new["content_sha256"] = c /\ \A y \in DOMAIN BlankMeta \ {"content_sha256"} : new[y] = BlankMeta[y]
    BY PutEntries
  <2>3. \A k \in DOMAIN BlankMeta : BlankMeta[k] \in BlankLeaves
    BY BlankFields
  <2> HIDE DEF new
  <2>. QED
    BY <2>1, <2>2, <2>3
<1> HIDE DEF new
<1>9. Fits(EmptyState) /\ Plain(EmptyState)
  BY <1>3 DEF StateOK, Plain
<1>10. Fits(Dict(new)) /\ Fits(Dict(None))
  <2>1. Dict(new) \in Children(EmptyState) /\ Dict(None) \in Children(EmptyState)
    BY <1>6, ChildFacts DEF IsDict, Is
  <2>. QED
    BY <1>9, <2>1, PartsFacts
<1>11. /\ MaxNesting \in 0..MaxNesting /\ MaxNesting - 1 \in 0..MaxNesting /\ MaxNesting - 2 \in 0..MaxNesting
       /\ (MaxNesting - 1) + 1 = MaxNesting /\ (MaxNesting - 2) + 1 = MaxNesting - 1
       /\ {MaxNesting, MaxNesting - 1, MaxNesting - 2} \subseteq Depths \ {0}
  BY NestingAssumption DEF Depths
<1>12. ASSUME NEW x, x = c \/ x \in BlankLeaves PROVE Shallow(MaxNesting - 1, Encode(x))
  <2>1. DOMAIN x \in {{"sha"}, {"num"}, {"str"}, {"datetime"}}
    BY <1>12, ChecksumIsStamp DEF BlankLeaves, c
  <2>2. Fits(x)
    BY <2>1, LeafFacts
  <2>3. CASE DOMAIN x = {"datetime"}
    <3>1. Encode(x) = Tagged("datetime", [str |-> x["datetime"]])
      BY <2>2, <2>3, EncodeRules DEF Scalars
    <3>2. Children(Encode(x)) = {[str |-> "datetime"], [str |-> x["datetime"]]}
      <4>1. \A y : Children(Tagged("datetime", y)) = {[str |-> "datetime"], y}
        BY TaggedFacts, Zenon
      <4>. QED
        BY <3>1, <4>1
    <3>3. \A y \in Children(Encode(x)) : Shallow(MaxNesting - 2, y)
      BY <1>11, <3>2, LeafFacts
    <3>. QED
      BY <1>11, <3>3, ShallowFacts
  <2>4. CASE DOMAIN x # {"datetime"}
    <3>1. Encode(x) = x
      BY <2>1, <2>2, <2>4, EncodeRules DEF Atoms
    <3>. QED
      BY <1>11, <2>1, <3>1, LeafFacts
  <2>. QED
    BY <2>3, <2>4
<1>13. Shallow(MaxNesting, Encode(Dict(new)))
  <2> DEFINE g == [k \in DOMAIN new |-> Encode(new[k])]
  <2>1. Encode(Dict(new)) = Dict(g)
    BY <1>7, <1>10, EncodeDict
  <2>2. \A k \in DOMAIN g : Shallow(MaxNesting - 1, g[k])
    BY <1>8, <1>12
  <2> HIDE DEF g
  <2>. QED
    BY <1>11, <2>1, <2>2, DictShallow
<1>14. Shallow(MaxNesting, Encode(Dict(None)))
  <2>1. IsDict(Encode(Dict(None))) /\ DOMAIN Encode(Dict(None)).dict = {}
    BY <1>10, BlankFields, EncodeDict
  <2>2. Children(Encode(Dict(None))) = {}
    BY <2>1, ChildrenOf DEF IsDict, Range
  <2>. QED
    BY <1>11, <2>2, ChildlessFacts
<1>15. Fits(Encode(EmptyState))
  <2> DEFINE g == [k \in DOMAIN EmptyState.dict |-> Encode(EmptyState.dict[k])]
  <2>1. Encode(EmptyState) = Dict(g)
    BY <1>6, <1>9, EncodeDict
  <2>2. \A k \in DOMAIN g : Shallow(MaxNesting, g[k])
    BY <1>6, <1>13, <1>14
  <2> HIDE DEF g
  <2>3. Shallow(MaxNesting + 1, Dict(g))
    BY <1>11, <2>2, DictShallow
  <2>. QED
    BY <2>1, <2>3, FitsIsShallow
<1>. QED
  BY <1>2, <1>3, <1>5, <1>15

\* A dictionary of clean values is clean.
LEMMA CleanDict ==
  ASSUME NEW f, IsFunction(f), Fits(Dict(f)), TypeKey \notin DOMAIN f,
         \A k \in DOMAIN f : Fits(f[k]) => Clean(f[k])
  PROVE  Clean(Dict(f))
<1>1. IsDict(Dict(f)) /\ Dict(f).dict = f /\ Children(Dict(f)) = Range(f)
  BY DictFacts
<1>2. PythonPart(Dict(f)) /\ ~ IsTagged(Dict(f)) /\ ~ Is(Dict(f), "sha")
  BY <1>1 DEF IsDict, PythonPart, IsTagged, IsFunction, Is
<1>3. ASSUME NEW q \in Parts(Dict(f)) PROVE PythonPart(q) /\ ~ IsTagged(q) /\ ~ Is(q, "sha")
  <2>1. CASE q # Dict(f)
    <3>1. PICK c \in Children(Dict(f)) : q \in Parts(c) /\ Fits(c)
      BY <1>3, <2>1, PartsFacts
    <3>2. Clean(c)
      BY <1>1, <3>1 DEF Range
    <3>. QED
      BY <3>1, <3>2 DEF Clean, Plain, IsPython, Checksums
  <2>. QED
    BY <1>2, <2>1
<1>. QED
  BY <1>3 DEF Clean, Plain, IsPython, Checksums

\* The parts of a clean value are clean.
LEMMA CleanParts ==
  ASSUME NEW v, Clean(v), NEW p \in Parts(v)
  PROVE  Clean(p)
<1>1. Plain(p) /\ Parts(p) \subseteq Parts(v)
  BY PlainParts, PartFacts DEF Clean, Plain
<1>. QED
  BY <1>1 DEF Clean, Checksums
-----------------------------------------------------------------------------
\* The documents that a command stores

\* The documents of a collection: each is a dictionary with its id.
GoodDocuments(d) ==
  /\ IsFunction(d)
  /\ TypeKey \notin DOMAIN d
  /\ \A i \in DOMAIN d : i # "" /\ Is(d[i], "dict") /\ Field(d[i], "id") = [str |-> i]
  /\ \A i \in DOMAIN d : Fits(d[i]) => Clean(d[i])

\* The documents of a committed state are good.
LEMMA DocumentsGood ==
  ASSUME NEW s, StateOK(s)
  PROVE  GoodDocuments(Documents(s))
<1> DEFINE c == s.dict["collections"]
           t == WithChecksum(s, Null)
<1>1. Shaped(s) /\ Plain(s) /\ Stamp(Null)
  BY ShapedByShape, ChecksumIsStamp DEF StateOK
<1>2. ShapedCollections(c) /\ IsDict(c)
  BY <1>1, ShapeIs DEF StateOK, Shaped, Field
<1>3. t.dict["collections"] = c /\ IsDict(t) /\ "collections" \in DOMAIN t.dict /\ Plain(t)
  <2>1. "collections" \in DOMAIN s.dict \ {"meta"}
    BY <1>1 DEF Shaped
  <2>2. /\ Shaped(t) /\ DOMAIN t.dict = DOMAIN s.dict
        /\ \A k \in DOMAIN s.dict \ {"meta"} : t.dict[k] = s.dict[k]
    BY <1>1, WithChecksumIs
  <2>3. Plain(t)
    BY <1>1, WithChecksumPlain
  <2> HIDE DEF t
  <2>. QED
    BY <2>1, <2>2, <2>3 DEF Shaped
<1>4. Clean(t)
  BY <1>3 DEF StateOK, Clean
<1>5. Clean(c)
  <2> HIDE DEF t
  <2>1. c \in Parts(t)
    BY <1>3, PartFacts, ChildFacts DEF Plain, IsDict, Is
  <2>. QED
    BY <1>4, <2>1, CleanParts
<1>6. CASE "c" \notin DOMAIN c.dict
  <2>1. Documents(s) = None
    BY <1>6 DEF Documents
  <2>. QED
    BY <2>1 DEF GoodDocuments, None, IsFunction
<1>7. CASE "c" \in DOMAIN c.dict
  <2> DEFINE d == c.dict["c"]
  <2>1. Documents(s) = d.dict
    BY <1>7 DEF Documents
  <2> HIDE DEF c
  <2>2. ShapedDocuments(d)
    BY <1>2, <1>7 DEF ShapedCollections
  <2>3. Clean(d)
    <3>1. d \in Parts(c)
      BY <1>2, <1>5, <1>7, PartFacts, ChildFacts DEF Clean, Plain, IsDict, Is
    <3>. QED
      BY <1>5, <3>1, CleanParts
  <2> HIDE DEF d
  <2>4. IsDict(d) /\ TypeKey \notin DOMAIN d.dict
    BY <2>2, <2>3, PlainDict DEF Clean, ShapedDocuments
  <2>5. \A i \in DOMAIN d.dict : Clean(d.dict[i])
    <3>1. \A i \in DOMAIN d.dict : d.dict[i] \in Parts(d)
      BY <2>3, <2>4, PartFacts, ChildFacts DEF Clean, Plain, IsDict, Is
    <3>. QED
      BY <2>3, <3>1, CleanParts
  <2>6. GoodDocuments(d.dict)
    BY <2>2, <2>4, <2>5 DEF GoodDocuments, ShapedDocuments, IsDict
  <2>. QED
    BY <2>1, <2>6
<1>. QED
  BY <1>6, <1>7

\* The document that a write stores.
LEMMA NewDocument ==
  ASSUME NEW i \in Ids, NEW v \in Values, ValidateError(Body(v)) = "ok"
  PROVE  LET d == Dict([id |-> [str |-> i], f |-> v])
         IN  i # "" /\ Is(d, "dict") /\ Field(d, "id") = [str |-> i] /\ (Fits(d) => Clean(d))
<1> DEFINE x == [str |-> i]
           e == [id |-> x, f |-> v]
<1>1. i # "" /\ IsPython(v) /\ Checksums(v) = {}
  BY ValuesAssumption
<1>2. Fits(Body(v)) /\ \A p \in Parts(Body(v)) : ~ IsTagged(p)
  BY DEF ValidateError
<1>3. Fits(v) /\ Parts(v) \subseteq Parts(Body(v))
  <2>1. Children(Body(v)) = Range([f |-> v])
    BY DictFacts DEF Body
  <2>2. v \in Children(Body(v))
    BY <2>1 DEF Range
  <2>. QED
    BY <1>2, <2>2, PartsFacts
<1>4. Clean(v)
  BY <1>1, <1>2, <1>3 DEF Clean, Plain
<1>5. Clean(x)
  <2>1. DOMAIN x = {"str"} /\ IsFunction(x)
    BY DEF IsFunction
  <2> HIDE DEF x
  <2>2. Fits(x) /\ Parts(x) = {x}
    BY <2>1, LeafFacts
  <2>. QED
    BY <2>1, <2>2 DEF Clean, Plain, IsPython, PythonPart, IsTagged, Is, Checksums
<1> HIDE DEF x
<1>6. DOMAIN e = {"id", "f"} /\ e["id"] = x /\ e["f"] = v /\ IsFunction(e)
  BY DEF IsFunction
<1> HIDE DEF e
<1>7. Dict(e).dict = e /\ Is(Dict(e), "dict")
  BY DictFacts DEF Is
<1>8. Field(Dict(e), "id") = x
  BY <1>6, <1>7 DEF Field
<1>9. Fits(Dict(e)) => Clean(Dict(e))
  <2>1. TypeKey \notin DOMAIN e
    BY <1>6 DEF TypeKey
  <2>2. \A k \in DOMAIN e : Clean(e[k])
    BY <1>4, <1>5, <1>6
  <2>. QED
    BY <1>6, <2>1, <2>2, CleanDict
<1>. QED
  BY <1>1, <1>7, <1>8, <1>9 DEF e, x

\* A write and a delete leave good documents.
LEMMA PutGood ==
  ASSUME TypeKey \notin Ids, NEW d, GoodDocuments(d),
         NEW i \in Ids, NEW v \in Values, ValidateError(Body(v)) = "ok"
  PROVE  GoodDocuments(Put(d, i, Dict([id |-> [str |-> i], f |-> v])))
<1> DEFINE x == Dict([id |-> [str |-> i], f |-> v])
           new == Put(d, i, x)
<1>1. i # "" /\ Is(x, "dict") /\ Field(x, "id") = [str |-> i] /\ (Fits(x) => Clean(x))
  BY NewDocument
<1> HIDE DEF x
<1>2. DOMAIN new = DOMAIN d \cup {i} /\ IsFunction(new)
  BY PutDomain
<1>3. new[i] = x /\ \A y \in DOMAIN d \ {i} : new[y] = d[y]
  BY PutEntries
<1> HIDE DEF new
<1>4. \A y \in DOMAIN new : y = i \/ y \in DOMAIN d \ {i}
  BY <1>2
<1>5. \A y \in DOMAIN new : y # "" /\ Is(new[y], "dict") /\ Field(new[y], "id") = [str |-> y]
  BY <1>1, <1>3, <1>4 DEF GoodDocuments
<1>6. \A y \in DOMAIN new : Fits(new[y]) => Clean(new[y])
  BY <1>1, <1>3, <1>4 DEF GoodDocuments
<1>7. TypeKey \notin DOMAIN new
  BY <1>2 DEF GoodDocuments
<1>. QED
  BY <1>2, <1>5, <1>6, <1>7 DEF GoodDocuments, new, x

\* Removing a document leaves the others good.
LEMMA RestrictGood ==
  ASSUME NEW d, GoodDocuments(d), NEW i
  PROVE  GoodDocuments(Restrict(d, DOMAIN d \ {i}))
<1> DEFINE new == Restrict(d, DOMAIN d \ {i})
<1>1. DOMAIN new = DOMAIN d \ {i} /\ IsFunction(new) /\ \A y \in DOMAIN new : new[y] = d[y]
  BY DEF Restrict, IsFunction
<1> HIDE DEF new
<1>. QED
  BY <1>1 DEF GoodDocuments, new

\* SetDocuments() changes one entry of the collections.
LEMMA SetDocumentsIs ==
  ASSUME NEW s, Shaped(s), NEW d
  PROVE  /\ SetDocuments(s, d) = Dict([k \in DOMAIN s.dict |->
              IF k = "collections" THEN Dict(Put(s.dict["collections"].dict, "c", Dict(d))) ELSE s.dict[k]])
         /\ DOMAIN SetDocuments(s, d) = {"dict"}
         /\ DOMAIN SetDocuments(s, d).dict = DOMAIN s.dict
         /\ SetDocuments(s, d).dict["collections"] = Dict(Put(s.dict["collections"].dict, "c", Dict(d)))
         /\ \A k \in DOMAIN s.dict \ {"collections"} : SetDocuments(s, d).dict[k] = s.dict[k]
         /\ Shaped(SetDocuments(s, d))
  BY ChangedEntry DEF SetDocuments

\* A state with other documents that a commit accepts can be committed.
LEMMA SetDocumentsGood ==
  ASSUME NEW s, StateOK(s), NEW d, GoodDocuments(d)
  PROVE  /\ ShapeAccepts(SetDocuments(s, d), FALSE)
         /\ CommitError(SetDocuments(s, d)) = "ok" => Ready(SetDocuments(s, d))
<1> DEFINE t == SetDocuments(s, d)
           c == s.dict["collections"]
           new == Put(c.dict, "c", Dict(d))
<1>1. /\ Shaped(s) /\ Plain(s) /\ TypeKey \notin DOMAIN s.dict
      /\ ShapedMeta(Field(s, "meta"), FALSE) /\ ShapedCollections(Field(s, "collections"))
  <2>1. ShapedMeta(Field(s, "meta"), TRUE) /\ ShapedCollections(Field(s, "collections"))
    BY ShapeIs DEF StateOK
  <2>. QED
    BY <2>1, ShapedByShape DEF StateOK, ShapedMeta
<1>2. /\ Shaped(t) /\ DOMAIN t.dict = DOMAIN s.dict
      /\ t.dict["collections"] = Dict(new)
      /\ \A k \in DOMAIN s.dict \ {"collections"} : t.dict[k] = s.dict[k]
  BY <1>1, SetDocumentsIs
<1> HIDE DEF t
<1>3. /\ IsDict(s) /\ IsDict(c) /\ IsDict(t) /\ {"meta", "collections"} \subseteq DOMAIN s.dict
      /\ t.dict["meta"] = s.dict["meta"]
  BY <1>1, <1>2 DEF Shaped
<1>4. DOMAIN new = DOMAIN c.dict \cup {"c"} /\ IsFunction(new)
  BY PutDomain
<1>5. new["c"] = Dict(d) /\ \A y \in DOMAIN c.dict \ {"c"} : new[y] = c.dict[y]
  BY PutEntries
<1> HIDE DEF new
<1>6. Dict(new).dict = new /\ IsDict(Dict(new)) /\ Is(Dict(new), "dict") /\ Dict(d).dict = d /\ Is(Dict(d), "dict")
  BY <1>4, DictFacts DEF Is
<1>7. ShapeAccepts(t, FALSE)
  <2>1. ShapedDocuments(Dict(d))
    BY <1>6 DEF ShapedDocuments, GoodDocuments
  <2>2. ShapedCollections(c)
    BY <1>1, <1>3 DEF Field
  <2>3. \A n \in DOMAIN new : ValidName(n) /\ ShapedDocuments(new[n])
    BY <1>4, <1>5, <2>1, <2>2 DEF ShapedCollections, ValidName
  <2>4. ShapedCollections(Dict(new))
    BY <1>6, <2>3 DEF ShapedCollections
  <2>5. Field(t, "meta") = Field(s, "meta") /\ Field(t, "collections") = Dict(new) /\ Is(t, "dict")
    BY <1>2, <1>3 DEF Field, IsDict, Is
  <2>. QED
    BY <1>1, <2>4, <2>5, ShapeIs
<1>8. ASSUME CommitError(t) = "ok" PROVE Ready(t)
  <2>1. Fits(t) /\ ~ DumpsRaises(t)
    BY <1>7, <1>8 DEF CommitError
  <2> DEFINE r == WithChecksum(s, Null)
             u == WithChecksum(t, Null)
  <2>2. Stamp(Null)
    BY ChecksumIsStamp
  <2>3. Clean(r) /\ Shaped(r) /\ DOMAIN r.dict = DOMAIN s.dict
        /\ r.dict["meta"] = Dict(Put(s.dict["meta"].dict, "content_sha256", Null))
        /\ \A k \in DOMAIN s.dict \ {"meta"} : r.dict[k] = s.dict[k]
    BY <1>1, <2>2, WithChecksumIs, WithChecksumPlain DEF StateOK, Clean
  <2>4. Fits(u) /\ Shaped(u) /\ DOMAIN u.dict = DOMAIN s.dict
        /\ u.dict["meta"] = Dict(Put(t.dict["meta"].dict, "content_sha256", Null))
        /\ \A k \in DOMAIN s.dict \ {"meta"} : u.dict[k] = t.dict[k]
    <3>1. Fits(u) /\ Shaped(u)
      BY <1>2, <2>1, <2>2, WithChecksumIs, WithChecksumParts
    <3>2. /\ DOMAIN u.dict = DOMAIN t.dict
          /\ u.dict["meta"] = Dict(Put(t.dict["meta"].dict, "content_sha256", Null))
          /\ \A k \in DOMAIN t.dict \ {"meta"} : u.dict[k] = t.dict[k]
      BY <1>2, WithChecksumIs
    <3>. QED
      BY <1>2, <3>1, <3>2
  <2> HIDE DEF r, u
  <2>5. \A k \in DOMAIN r.dict : Clean(r.dict[k])
    <3>1. \A k \in DOMAIN r.dict : r.dict[k] \in Parts(r)
      BY <2>3, PartFacts, ChildFacts DEF Clean, Plain, Shaped, IsDict, Is
    <3>. QED
      BY <2>3, <3>1, CleanParts
  <2>6. ASSUME Fits(Dict(new)) PROVE Clean(Dict(new))
    <3>1. \A n \in DOMAIN new : Fits(new[n])
      <4>1. \A n \in DOMAIN new : new[n] \in Children(Dict(new))
        BY <1>6, ChildFacts
      <4>. QED
        BY <2>6, <4>1, PartsFacts
    <3>2. Clean(Dict(d))
      <4>1. Fits(Dict(d))
        BY <1>4, <1>5, <3>1
      <4>. QED
        BY <4>1, CleanDict DEF GoodDocuments
    <3>3. Clean(c)
      BY <1>3, <2>3, <2>5
    <3>4. TypeKey \notin DOMAIN c.dict /\ \A n \in DOMAIN c.dict : Clean(c.dict[n])
      <4>1. \A n \in DOMAIN c.dict : c.dict[n] \in Parts(c)
        BY <1>3, <3>3, PartFacts, ChildFacts DEF Clean, Plain, IsDict, Is
      <4>. QED
        BY <1>3, <3>3, <4>1, CleanParts, PlainDict DEF Clean, IsDict, Is
    <3>5. TypeKey \notin DOMAIN new
      BY <1>4, <3>4 DEF TypeKey
    <3>6. \A n \in DOMAIN new : Clean(new[n])
      BY <1>4, <1>5, <3>2, <3>4
    <3>. QED
      BY <1>4, <2>6, <3>5, <3>6, CleanDict
  <2>7. \A k \in DOMAIN u.dict : Fits(u.dict[k]) => Clean(u.dict[k])
    <3>1. u.dict["meta"] = r.dict["meta"]
      BY <1>3, <2>3, <2>4
    <3>2. u.dict["collections"] = Dict(new)
      BY <1>2, <1>3, <2>4
    <3>3. \A k \in DOMAIN s.dict \ {"meta", "collections"} : u.dict[k] = r.dict[k]
      BY <1>2, <2>3, <2>4
    <3>. QED
      BY <2>3, <2>4, <2>5, <2>6, <3>1, <3>2, <3>3
  <2>8. Clean(u)
    <3>1. u = Dict(u.dict) /\ IsFunction(u.dict) /\ TypeKey \notin DOMAIN u.dict
      BY <1>1, <2>4 DEF Shaped, IsDict, Dict
    <3>. QED
      BY <2>4, <2>7, <3>1, CleanDict
  <2>9. Plain(t)
    <3> DEFINE k == Checksum(s)
    <3>1. /\ "content_sha256" \in DOMAIN s.dict["meta"].dict
          /\ s.dict["meta"].dict["content_sha256"] = k /\ Stamp(k)
      <4>1. ShapedMeta(Field(s, "meta"), TRUE) /\ Field(s, "meta") = s.dict["meta"]
        BY <1>3, ShapeIs DEF StateOK, Field
      <4>2. DOMAIN Null = {"const"}
        BY DEF Null
      <4>3. "content_sha256" \in DOMAIN s.dict["meta"].dict
        BY <4>1, <4>2 DEF ShapedMeta, Field
      <4>. QED
        BY <4>3, ChecksumIsStamp DEF StateOK, ChecksumAgrees
    <3> HIDE DEF k
    <3>2. WithChecksum(t, k) = t
      BY <1>2, <1>3, <3>1, WithChecksumTwice
    <3>3. WithChecksum(u, k) = WithChecksum(t, k)
      BY <1>2, WithChecksumTwice DEF u
    <3>4. Plain(WithChecksum(u, k))
      BY <2>4, <2>8, <3>1, WithChecksumPlain DEF Clean
    <3>. QED
      BY <3>2, <3>3, <3>4
  <2>. QED
    BY <1>7, <2>1, <2>8, <2>9 DEF Ready, Clean, u
<1>. QED
  BY <1>7, <1>8 DEF t
-----------------------------------------------------------------------------
\* The inductive invariant, and what load() makes of a file

\* The inductive invariant: a committed state is one that a commit stores; a file that was not
\* edited is its encoding; a file that was edited is JSON without other checksums than its own.
IInv ==
  /\ StateOK(committed)
  /\ edits \in Nat
  /\ edits = 0 => \/ file = Missing /\ committed = EmptyState
                  \/ file = Encode(committed) /\ Fits(file)
  /\ file \notin NotJson => Checksums(file) \subseteq {Checksum(committed)}
  /\ edits > 0 /\ file \notin NotJson => IsJson(file)

\* What is stored passes the checks on reserved keys and ids.
LEMMA RawAcceptsStored ==
  ASSUME NEW s, StateOK(s), Fits(Encode(s))
  PROVE  RawAccepts(Encode(s))
<1> DEFINE c == s.dict["collections"]
<1>1. /\ Plain(s) /\ IsDict(s) /\ "collections" \in DOMAIN s.dict /\ IsDict(c) /\ Plain(c)
      /\ ShapedCollections(c)
  BY ShapedByShape, ShapeIs DEF StateOK, Shaped, Field
<1>2. /\ IsDict(Encode(s)) /\ DOMAIN Encode(s).dict = DOMAIN s.dict
      /\ \A k \in DOMAIN s.dict : Encode(s).dict[k] = Encode(s.dict[k])
  BY <1>1, EncodeDict DEF Plain
<1>3. /\ IsDict(Encode(c)) /\ DOMAIN Encode(c).dict = DOMAIN c.dict
      /\ \A k \in DOMAIN c.dict : Encode(c).dict[k] = Encode(c.dict[k])
  BY <1>1, EncodeDict DEF Plain
<1>4. Fits(Encode(c)) /\ Encode(s).dict["collections"] = Encode(c)
  <2>1. Encode(s).dict["collections"] = Encode(c)
    BY <1>1, <1>2
  <2>2. Encode(s).dict["collections"] \in Children(Encode(s))
    BY <1>1, <1>2, ChildFacts DEF IsDict, Is
  <2>. QED
    BY <2>1, <2>2, PartsFacts
<1> HIDE DEF c
<1>5. ASSUME NEW n \in DOMAIN c.dict
      PROVE  /\ ValidName(n)
             /\ Is(Encode(c.dict[n]), "dict") =>
                  \A i \in DOMAIN Encode(c.dict[n]).dict : i # "" /\ RawDocumentAccepts(Encode(c.dict[n]).dict[i])
  <2> DEFINE d == c.dict[n]
  <2>1. Plain(d) /\ IsDict(d) /\ ShapedDocuments(d) /\ ValidName(n)
    BY <1>1, PlainDict DEF IsDict, Is, ShapedCollections, ShapedDocuments
  <2>2. Fits(Encode(d))
    <3>1. Encode(d) = Encode(c).dict[n] /\ Encode(c).dict[n] \in Children(Encode(c))
      BY <1>3, ChildFacts DEF IsDict, Is
    <3>. QED
      BY <1>4, <3>1, PartsFacts
  <2> HIDE DEF d
  <2>3. /\ IsDict(Encode(d)) /\ DOMAIN Encode(d).dict = DOMAIN d.dict
        /\ \A k \in DOMAIN d.dict : Encode(d).dict[k] = Encode(d.dict[k])
    BY <2>1, EncodeDict DEF Plain
  <2>4. ASSUME NEW i \in DOMAIN d.dict PROVE i # "" /\ RawDocumentAccepts(Encode(d.dict[i]))
    <3> DEFINE x == d.dict[i]
               e == Encode(x)
    <3>1. i # "" /\ Plain(x) /\ IsDict(x) /\ Field(x, "id") = [str |-> i]
      BY <2>1, PlainDict DEF IsDict, Is, ShapedDocuments
    <3>2. Fits(e)
      <4>1. e = Encode(d).dict[i] /\ Encode(d).dict[i] \in Children(Encode(d))
        BY <2>3, ChildFacts DEF IsDict, Is
      <4>. QED
        BY <2>2, <4>1, PartsFacts
    <3> HIDE DEF x
    <3>3. /\ IsDict(e) /\ DOMAIN e.dict = DOMAIN x.dict
          /\ \A k \in DOMAIN x.dict : e.dict[k] = Encode(x.dict[k])
          /\ e = Dict([k \in DOMAIN x.dict |-> Encode(x.dict[k])])
      BY <3>1, EncodeDict DEF Plain
    <3>4. ~ IsTagged(e)
      BY <3>1, EncodeCases DEF IsDict
    <3>5. Field(e, "id") # [str |-> ""]
      <4>1. DOMAIN Null = {"const"}
        BY DEF Null
      <4>2. "id" \in DOMAIN x.dict /\ x.dict["id"] = [str |-> i]
        <5>1. DOMAIN [str |-> i] = {"str"}
          OBVIOUS
        <5>. QED
          BY <3>1, <4>1, <5>1 DEF Field
      <4>3. Encode([str |-> i]) = [str |-> i]
        <5>1. DOMAIN [str |-> i] = {"str"}
          OBVIOUS
        <5>2. Fits([str |-> i])
          BY <5>1, LeafFacts
        <5>. QED
          BY <5>1, <5>2, EncodeRules DEF Atoms
      <4>4. Field(e, "id") = [str |-> i]
        BY <3>3, <4>2, <4>3 DEF Field
      <4>. QED
        BY <3>1, <4>4, FieldsTell
    <3>6. ASSUME NEW y \in Children(e) PROVE TagsAlone(y)
      <4>1. PICK k \in DOMAIN x.dict : y = Encode(x.dict[k])
        BY <3>3, ChildrenOf DEF IsDict, Range
      <4>2. Plain(x.dict[k]) /\ Fits(y)
        BY <3>1, <3>2, PlainDict, PartsFacts DEF IsDict, Is
      <4>. QED
        BY <4>1, <4>2, EncodeFacts
    <3>. QED
      BY <3>1, <3>4, <3>5, <3>6 DEF RawDocumentAccepts, x
  <2>. QED
    BY <2>1, <2>3, <2>4 DEF d
<1>. QED
  BY <1>2, <1>3, <1>4, <1>5 DEF RawAccepts

\* What the library wrote is loaded.
LEMMA StoredLoads ==
  ASSUME IInv, edits = 0
  PROVE  LoadError = "ok" /\ Loaded = committed
<1>1. CASE file = Missing
  <2>1. committed = EmptyState
    <3>1. Missing # Encode(committed)
      <4>1. DOMAIN Missing = {"missing"}
        BY DEF Missing
      <4>2. Plain(committed) /\ IsDict(committed)
        BY ShapedByShape DEF IInv, StateOK, Shaped
      <4>3. DOMAIN Encode(committed) = {"dict"}
        BY <4>2, EncodeCases DEF IsDict
      <4>. QED
        BY <4>1, <4>3
    <3>. QED
      BY <1>1, <3>1 DEF IInv
  <2>. QED
    BY <1>1, <2>1 DEF LoadError, Loaded
<1>2. CASE file # Missing
  <2>1. file = Encode(committed) /\ Fits(file) /\ StateOK(committed)
    BY <1>2 DEF IInv
  <2>2. Plain(committed) /\ IsDict(committed)
    BY <2>1, ShapedByShape DEF StateOK, Shaped
  <2>3. DOMAIN file = {"dict"}
    BY <2>1, <2>2, EncodeCases DEF IsDict
  <2>4. file \notin NotJson /\ ~ Is(file, "unreadable")
    BY <2>3 DEF NotJson, Missing, Is
  <2>5. Huge \notin Parts(file)
    <3>1. \A q \in Parts(file) : Is(q, "num") => q \in Parts(committed)
      BY <2>1, <2>2, EncodeFacts
    <3>2. Huge \notin Parts(committed)
      BY <2>1 DEF StateOK, DumpsRaises
    <3>. QED
      BY <3>1, <3>2 DEF Huge, Is
  <2>6. RawAccepts(file)
    BY <2>1, RawAcceptsStored
  <2>7. Decode(file) = committed
    BY <2>1, <2>2, RoundTrip DEF StateOK
  <2>8. committed # Raised
    <3>1. PythonPart(committed)
      BY <2>2, PartFacts DEF Plain, IsPython
    <3>. QED
      BY <3>1, NotRaised
  <2>9. LoadError = "ok"
    BY <1>2, <2>1, <2>4, <2>5, <2>6, <2>7, <2>8, Zenon DEF LoadError, StateOK
  <2>. QED
    BY <1>2, <2>7, <2>9 DEF Loaded
<1>. QED
  BY <1>1, <1>2

\* A state whose checksum agrees has it among its parts.
LEMMA StampOf ==
  ASSUME NEW s, Plain(s), ShapeAccepts(s, TRUE), ChecksumAgrees(s)
  PROVE  /\ Plain(s) /\ Shaped(s)
         /\ WithChecksum(s, Checksum(s)) = s
         /\ Checksum(s) \in Parts(s)
<1>1. Plain(s) /\ Shaped(s) /\ s.dict["meta"].dict["content_sha256"] = Checksum(s) /\ Stamp(Checksum(s))
  BY ShapedByShape, ChecksumIsStamp DEF ChecksumAgrees
<1>2. "content_sha256" \in DOMAIN s.dict["meta"].dict
  <2>1. ShapedMeta(Field(s, "meta"), TRUE) /\ Field(s, "meta") = s.dict["meta"]
    BY <1>1, ShapeIs DEF Shaped, Field
  <2>2. DOMAIN Null = {"const"}
    BY DEF Null
  <2>. QED
    BY <2>1, <2>2 DEF ShapedMeta, Field
<1>3. Checksum(s) \in Parts(s)
  <2>1. s.dict["meta"] \in Parts(s) /\ Checksum(s) \in Children(s.dict["meta"])
    BY <1>1, <1>2, PartFacts, ChildFacts DEF Plain, Shaped, IsDict, Is
  <2>. QED
    BY <1>1, <2>1, PartFacts DEF Plain
<1>. QED
  BY <1>1, <1>2, <1>3, WithChecksumTwice

\* No file with the checksum of its content says anything but what was committed.
LEMMA LoadedIsCommitted ==
  ASSUME IInv, file \notin NotJson, Fits(file), Decode(file) # Raised,
         ShapeAccepts(Decode(file), TRUE), ChecksumAgrees(Decode(file))
  PROVE  Decode(file) = committed /\ SameContent
<1> DEFINE d == Decode(file)
<1>1. StateOK(committed)
  BY DEF IInv
<1>2. d = committed
  <2>1. CASE edits = 0
    <3>1. file # Missing
      BY DEF NotJson
    <3>. QED
      BY <2>1, <3>1, StoredLoads DEF Loaded
  <2>2. CASE edits # 0
    <3>1. IsJson(file) /\ Checksums(file) \subseteq {Checksum(committed)}
      BY <2>2 DEF IInv
    <3>2. Plain(d) /\ Normal(d) = d /\ \A q \in Parts(d) : FromFile(q, file)
      BY <3>1, DecodeFacts
    <3>3. /\ Shaped(d) /\ WithChecksum(d, Checksum(d)) = d /\ Checksum(d) \in Parts(d)
          /\ Plain(committed) /\ Shaped(committed) /\ WithChecksum(committed, Checksum(committed)) = committed
          /\ Normal(committed) = committed
      BY <1>1, <3>2, StampOf DEF StateOK
    <3> HIDE DEF d
    <3>4. Checksum(d) = Checksum(committed)
      <4>1. DOMAIN Checksum(d) = {"sha"}
        BY ChecksumIsStamp
      <4>2. Checksum(d) \in Parts(file)
        BY <3>2, <3>3, <4>1 DEF FromFile, Letters
      <4>. QED
        BY <3>1, <4>1, <4>2 DEF Checksums, Is
    <3> DEFINE x == WithChecksum(d, Null)
               y == WithChecksum(committed, Null)
    <3>5. Plain(x) /\ Plain(y) /\ Normal(x) = x /\ Normal(y) = y
      BY <3>2, <3>3, ChecksumIsStamp, WithChecksumPlain, NormalOfWithChecksum
    <3>6. Encode(x) = Encode(y)
      <4>1. Checksum(d) = [sha |-> Encode(x)] /\ Checksum(committed) = [sha |-> Encode(y)]
        BY DEF Checksum
      <4> DEFINE a == Encode(x)  b == Encode(y)
      <4> HIDE DEF a, b
      <4>2. [sha |-> a].sha = a /\ [sha |-> b].sha = b
        OBVIOUS
      <4>3. [sha |-> a] = [sha |-> b]
        BY <3>4, <4>1 DEF a, b
      <4>4. a = b
        BY <4>2, <4>3, Zenon
      <4>. QED
        BY <4>4 DEF a, b
    <3>7. x = y
      <4> HIDE DEF x, y
      <4>. QED
        BY <3>5, <3>6, EncodeTells
    <3>8. WithChecksum(x, Checksum(d)) = d /\ WithChecksum(y, Checksum(committed)) = committed
      BY <3>3, WithChecksumTwice
    <3> HIDE DEF x, y
    <3>. QED
      BY <3>4, <3>7, <3>8 DEF d
  <2>. QED
    BY <2>1, <2>2
<1>. QED
  BY <1>2 DEF SameContent

\* What load() accepts is what was committed; what it refuses was edited.
LEMMA LoadFacts ==
  ASSUME IInv
  PROVE  /\ LoadError = "ok" => file = Missing \/ (SameContent /\ Loaded = committed)
         /\ LoadError = "ok" => StateOK(Loaded)
         /\ LoadError # "ok" => edits > 0
<1>1. ASSUME LoadError = "ok", file # Missing PROVE SameContent /\ Loaded = committed
  <2>1. ~ Is(file, "unreadable") /\ file \notin NotJson
    BY <1>1, Zenon DEF LoadError
  <2>2. Fits(file) /\ Decode(file) # Raised /\ ShapeAccepts(Decode(file), TRUE) /\ ChecksumAgrees(Decode(file))
    BY <1>1, <2>1, Zenon DEF LoadError
  <2>. QED
    BY <1>1, <2>1, <2>2, LoadedIsCommitted DEF Loaded
<1>2. LoadError = "ok" => StateOK(Loaded)
  <2>1. CASE file = Missing
    BY <2>1, EmptyStateGood DEF Loaded
  <2>2. CASE file # Missing
    BY <1>1, <2>2 DEF IInv
  <2>. QED
    BY <2>1, <2>2
<1>3. LoadError # "ok" => edits > 0
  BY StoredLoads DEF IInv
<1>. QED
  BY <1>1, <1>2, <1>3

\* The exceptions of a file without anything strange in it.
LEMMA LoadErrors ==
  ASSUME IInv, ~ Strange
  PROVE  /\ LoadError \in {"ok", "StorageError", "DatabaseFormatError", "IntegrityError"}
         /\ LoadError = "StorageError" => Is(file, "unreadable")
<1>1. ASSUME file \notin NotJson, Decode(file) # Raised, edits # 0
      PROVE  ~ DumpsRaises(Decode(file))
  <2>1. Fits(file) /\ IsJson(file)
    BY <1>1 DEF Strange, IInv
  <2>2. \A q \in Parts(Decode(file)) : FromFile(q, file)
    BY <1>1, <2>1, DecodeFacts
  <2>3. ASSUME NEW q \in Parts(Decode(file)), q \in {NaN, Huge, Surrogate} PROVE FALSE
    <3>1. DOMAIN q \in Letters
      BY <2>3 DEF NaN, Huge, Surrogate, Letters
    <3>2. q \in Parts(file)
      BY <2>2, <3>1 DEF FromFile
    <3>. QED
      BY <2>3, <3>2 DEF Strange
  <2>4. ASSUME NEW q \in Parts(Decode(file)), q = [decimal |-> "nan"] PROVE FALSE
    BY <2>2, <2>4, Zenon DEF FromFile, Strange
  <2>5. ASSUME NEW q \in Parts(Decode(file)), Is(q, "other") PROVE FALSE
    BY <2>2, <2>5 DEF FromFile
  <2>. QED
    BY <2>3, <2>4, <2>5 DEF DumpsRaises, EncodeRaises
<1>2. CASE edits = 0
  BY <1>2, StoredLoads
<1>3. CASE edits # 0
  <2>1. CASE file \in NotJson
    BY <2>1, Zenon DEF LoadError
  <2>2. CASE file \notin NotJson
    <3>1. Fits(file) /\ Huge \notin Parts(file)
      BY DEF Strange
    <3>2. Decode(file) # Raised => ~ DumpsRaises(Decode(file))
      BY <1>1, <1>3, <2>2
    <3>. QED
      BY <2>2, <3>1, <3>2, Zenon DEF LoadError
  <2>. QED
    BY <2>1, <2>2
<1>. QED
  BY <1>2, <1>3
-----------------------------------------------------------------------------
\* The steps of the commands

\* A command that stores a state, and those that an operation or a commit may fail with.
Stores(command) ==
  \E n : /\ StateOK(n) /\ Fits(Encode(n))
         /\ file' = Encode(n) /\ committed' = n /\ edits' = 0
         /\ Ends(command)

\* The exceptions of an operation or a commit.
Failures ==
  {"NotFoundError", "RecursionError", "ValidationError", "ValueError", "SerializationError",
   "StorageError", "OSError"}

\* What a command under the lock may do.
LockedStep(command) ==
  \/ \E r \in LockFailures : Fails(command, r)
  \/ LoadError # "ok" /\ Fails(command, LoadError)
  \/ LoadError = "ok" /\ (Stores(command) \/ \E r \in Failures : Fails(command, r))

\* _commit_unlocked() stores a good state.
LEMMA CommitStores ==
  ASSUME NEW s, Ready(s), CommitError(s) = "ok", NEW command, Commit(command, s)
  PROVE  Stores(command)
<1> DEFINE n == Normal(Prepared(s))
<1>1. StateOK(n) /\ Encode(n) = Encode(Prepared(s))
  BY CommitGood
<1>2. Fits(Encode(Prepared(s)))
  BY DEF CommitError
<1>3. file' = Encode(Prepared(s)) /\ committed' = n /\ edits' = 0 /\ Ends(command)
  BY DEF Commit
<1> HIDE DEF n
<1>. QED
  BY <1>1, <1>2, <1>3 DEF Stores

\* After an operation: it fails and nothing changes, or a good state is stored.
LEMMA FinishSteps ==
  ASSUME NEW d, GoodDocuments(d), LoadError = "ok", StateOK(Loaded), NEW command, NEW error,
         error \in {"ok", "NotFoundError", "RecursionError", "ValidationError", "ValueError"},
         Finish(command, error, SetDocuments(Loaded, d))
  PROVE  LockedStep(command)
<1> DEFINE s == SetDocuments(Loaded, d)
<1>1. ShapeAccepts(s, FALSE) /\ (CommitError(s) = "ok" => Ready(s))
  BY SetDocumentsGood
<1> HIDE DEF s
<1>2. CommitError(s) \in {"ok", "RecursionError", "SerializationError"}
  BY <1>1 DEF CommitError
<1>3. Finish(command, error, s)
  BY DEF s
<1>4. ASSUME NEW r \in Failures, Fails(command, r) PROVE LockedStep(command)
  BY <1>4 DEF LockedStep
<1>5. CASE error = "ok" /\ CommitError(s) = "ok"
  <2>1. (\E r \in WriteFailures : Fails(command, r)) \/ Commit(command, s)
    BY <1>3, <1>5 DEF Finish
  <2>2. ASSUME Commit(command, s) PROVE LockedStep(command)
    BY <1>1, <1>5, <2>2, CommitStores DEF LockedStep
  <2>. QED
    BY <1>4, <2>1, <2>2 DEF WriteFailures, Failures
<1>6. CASE error # "ok"
  <2>1. Fails(command, error)
    BY <1>3, <1>6 DEF Finish
  <2>. QED
    BY <1>4, <1>6, <2>1 DEF Failures
<1>7. CASE error = "ok" /\ CommitError(s) # "ok"
  <2>1. Fails(command, CommitError(s))
    BY <1>3, <1>7 DEF Finish
  <2>. QED
    BY <1>2, <1>4, <1>7, <2>1 DEF Failures
<1>. QED
  BY <1>5, <1>6, <1>7

\* Before an operation: the lock or load() fails and nothing changes.
LEMMA BeginSteps ==
  ASSUME NEW command, Begin(command, LoadError)
  PROVE  LockedStep(command)
  BY DEF Begin, LockedStep

\* insert, upsert, update and replace are such commands.
LEMMA WriteSteps ==
  ASSUME TypeKey \notin Ids, IInv, WriteCommand
  PROVE  LockedStep("write")
<1>1. CASE Begin("write", LoadError)
  BY <1>1, BeginSteps
<1>2. ASSUME LoadError = "ok", NEW needed \in BOOLEAN, NEW i \in Ids, NEW v \in Values,
             Finish("write",
                    IF ValidateError(Body(v)) # "ok" THEN ValidateError(Body(v))
                    ELSE IF needed /\ i \notin DOMAIN Documents(Loaded) THEN "NotFoundError" ELSE "ok",
                    SetDocuments(Loaded, Put(Documents(Loaded), i, Dict([id |-> [str |-> i], f |-> v]))))
      PROVE  LockedStep("write")
  <2> DEFINE error == IF ValidateError(Body(v)) # "ok" THEN ValidateError(Body(v))
                      ELSE IF needed /\ i \notin DOMAIN Documents(Loaded) THEN "NotFoundError" ELSE "ok"
             d == Put(Documents(Loaded), i, Dict([id |-> [str |-> i], f |-> v]))
  <2>1. StateOK(Loaded) /\ GoodDocuments(Documents(Loaded))
    BY <1>2, LoadFacts, DocumentsGood
  <2>2. CASE ValidateError(Body(v)) = "ok"
    <3>1. GoodDocuments(d)
      BY <2>1, <2>2, PutGood
    <3>2. error \in {"ok", "NotFoundError"} /\ Finish("write", error, SetDocuments(Loaded, d))
      BY <1>2, <2>2
    <3> HIDE DEF d, error
    <3>. QED
      BY <1>2, <2>1, <3>1, <3>2, FinishSteps
  <2>3. CASE ValidateError(Body(v)) # "ok"
    <3>1. ValidateError(Body(v)) \in Failures
      BY <2>3 DEF ValidateError, Failures
    <3>2. error = ValidateError(Body(v)) /\ error # "ok" /\ Finish("write", error, SetDocuments(Loaded, d))
      BY <1>2, <2>3
    <3> HIDE DEF d, error
    <3>3. Fails("write", error)
      BY <3>2 DEF Finish
    <3>. QED
      BY <1>2, <3>1, <3>2, <3>3 DEF LockedStep
  <2>. QED
    BY <2>2, <2>3
<1>. QED
  BY <1>1, <1>2, Zenon DEF WriteCommand

\* delete is such a command.
LEMMA DeleteSteps ==
  ASSUME IInv, DeleteCommand
  PROVE  LockedStep("delete")
<1>1. CASE Begin("delete", LoadError)
  BY <1>1, BeginSteps
<1>2. ASSUME LoadError = "ok", NEW i \in Ids,
             Finish("delete", IF i \in DOMAIN Documents(Loaded) THEN "ok" ELSE "NotFoundError",
                    SetDocuments(Loaded, Restrict(Documents(Loaded), DOMAIN Documents(Loaded) \ {i})))
      PROVE  LockedStep("delete")
  <2> DEFINE error == IF i \in DOMAIN Documents(Loaded) THEN "ok" ELSE "NotFoundError"
             d == Restrict(Documents(Loaded), DOMAIN Documents(Loaded) \ {i})
  <2>1. StateOK(Loaded) /\ GoodDocuments(Documents(Loaded))
    BY <1>2, LoadFacts, DocumentsGood
  <2>2. GoodDocuments(d) /\ error \in {"ok", "NotFoundError"} /\ Finish("delete", error, SetDocuments(Loaded, d))
    BY <1>2, <2>1, RestrictGood
  <2> HIDE DEF d, error
  <2>. QED
    BY <1>2, <2>1, <2>2, FinishSteps
<1>. QED
  BY <1>1, <1>2, Zenon DEF DeleteCommand

\* init and init --force store the empty state or change nothing.
LEMMA InitSteps ==
  ASSUME InitCommand
  PROVE  \E command \in {"init", "init --force"} :
           \/ Stores(command) /\ (command = "init --force" \/ file = Missing)
           \/ \E r \in {"LockError", "OSError", "StorageError"} : Fails(command, r)
<1>1. PICK command \in {"init", "init --force"} :
        \/ \E r \in LockFailures \cup WriteFailures \cup {"StorageError"} : Fails(command, r)
        \/ ~ (command = "init" /\ file # Missing) /\ Commit(command, EmptyState)
  BY Zenon DEF InitCommand
<1>2. CASE ~ (command = "init" /\ file # Missing) /\ Commit(command, EmptyState)
  <2>1. Stores(command)
    <3>1. file' = Encode(EmptyState) /\ committed' = EmptyState /\ edits' = 0 /\ Ends(command)
      <4>1. Prepared(EmptyState) = EmptyState /\ Normal(EmptyState) = EmptyState
        BY EmptyStateGood
      <4>2. file' = Encode(Prepared(EmptyState)) /\ committed' = Normal(Prepared(EmptyState)) /\ edits' = 0 /\ Ends(command)
        BY <1>2 DEF Commit
      <4>. QED
        BY <4>1, <4>2
    <3>2. StateOK(EmptyState) /\ Fits(Encode(EmptyState))
      BY EmptyStateGood
    <3> DEFINE n == EmptyState
    <3> HIDE DEF n
    <3>3. StateOK(n) /\ Fits(Encode(n)) /\ file' = Encode(n) /\ committed' = n /\ edits' = 0 /\ Ends(command)
      BY <3>1, <3>2 DEF n
    <3>. QED
      BY <3>3 DEF Stores
  <2>. QED
    BY <1>2, <2>1
<1>. QED
  BY <1>1, <1>2 DEF LockFailures, WriteFailures

\* The invariant holds at first.
LEMMA InitIInv == Init => IInv
<1>1. Init => file = Missing /\ committed = EmptyState /\ edits = 0
  BY DEF Init
<1>. QED
  BY <1>1, EmptyStateGood DEF IInv, NotJson

\* A command that stores a good state establishes the invariant.
LEMMA StoresIInv ==
  ASSUME NEW command, Stores(command)
  PROVE  IInv'
<1>1. /\ StateOK(committed') /\ Fits(Encode(committed'))
      /\ file' = Encode(committed') /\ edits' = 0
  BY DEF Stores
<1>2. Checksums(file') \subseteq {Checksum(committed')}
  BY <1>1, StoredChecksum
<1>. QED
  BY <1>1, <1>2 DEF IInv

\* A command that changes nothing keeps the invariant.
LEMMA FailsIInv ==
  ASSUME IInv, UNCHANGED <<file, committed, edits>>
  PROVE  IInv'
  BY Zenon DEF IInv, NotJson, Missing

\* The commands under the lock keep the invariant.
LEMMA LockedIInv ==
  ASSUME IInv, NEW command, LockedStep(command)
  PROVE  IInv'
  BY StoresIInv, FailsIInv DEF LockedStep, Fails

\* An edit keeps the invariant: it brings no checksum that was not in the file.
LEMMA EditIInv ==
  ASSUME IInv, Edit
  PROVE  IInv'
<1>1. edits \in Nat /\ edits' = edits + 1 /\ committed' = committed /\ StateOK(committed)
  BY DEF IInv, Edit
<1>2. edits' \in Nat /\ edits' # 0
  BY <1>1
<1>3. file' \in NotJson \/ (file \notin NotJson /\ IsJson(file') /\ Checksums(file') \subseteq Checksums(file))
  BY DEF Edit
<1>4. file' \notin NotJson => IsJson(file') /\ Checksums(file') \subseteq {Checksum(committed')}
  BY <1>1, <1>3 DEF IInv
<1>. QED
  BY <1>1, <1>2, <1>4 DEF IInv

\* Every step keeps the invariant.
LEMMA NextIInv ==
  ASSUME TypeKey \notin Ids
  PROVE  IInv /\ [Next]_vars => IInv'
<1> SUFFICES ASSUME IInv, [Next]_vars PROVE IInv'
  OBVIOUS
<1>1. CASE InitCommand
  BY <1>1, InitSteps, StoresIInv, FailsIInv DEF Fails
<1>2. CASE WriteCommand
  BY <1>2, WriteSteps, LockedIInv
<1>3. CASE DeleteCommand
  BY <1>3, DeleteSteps, LockedIInv
<1>4. CASE ReadCommand
  BY <1>4, FailsIInv DEF ReadCommand, Fails
<1>5. CASE RefusedCommand
  BY <1>5, FailsIInv DEF RefusedCommand, Fails
<1>6. CASE CheckCommand
  BY <1>6, FailsIInv DEF CheckCommand
<1>7. CASE Edit
  BY <1>7, EditIInv
<1>8. CASE UNCHANGED vars
  BY <1>8, FailsIInv DEF vars
<1>. QED
  BY <1>1, <1>2, <1>3, <1>4, <1>5, <1>6, <1>7, <1>8 DEF Next

\* Every state that a commit stored is one that can be written and loaded, and no file has a
\* checksum but that of the committed state, whatever commands and edits came before.
THEOREM Invariance ==
  ASSUME TypeKey \notin Ids
  PROVE  Spec => []IInv
  BY InitIInv, NextIInv, PTL DEF Spec

\* A file that only the library wrote can be loaded, and holds what was committed.
THEOREM LoadsBackHolds ==
  ASSUME TypeKey \notin Ids
  PROVE  Spec => []LoadsBack
<1>1. IInv => LoadsBack
  BY StoredLoads DEF LoadsBack
<1>. QED
  BY <1>1, Invariance, PTL

\* What check_integrity() says, by what load() raises.
LEMMA ReportFacts ==
  ASSUME IInv
  PROVE  /\ Report = "missing" <=> file = Missing
         /\ Report = "ok" => file # Missing /\ LoadError = "ok"
         /\ file # Missing => Report =
              CASE LoadError = "ok" -> "ok"
                [] LoadError = "IntegrityError" -> "corrupt"
                [] LoadError = "DatabaseFormatError" -> "format"
                [] LoadError = "StorageError" -> "storage"
                [] OTHER -> LoadError
<1> DEFINE error == LoadError
<1>1. error \in {"ok", "IntegrityError", "DatabaseFormatError", "StorageError", "RecursionError", "ValueError",
                 "SerializationError"}
  BY Zenon DEF LoadError
<1>2. Report = IF file = Missing THEN "missing"
               ELSE IF error \in DOMAIN Statuses THEN Statuses[error] ELSE error
  BY DEF Report
<1>3. /\ DOMAIN Statuses = {"ok", "IntegrityError", "DatabaseFormatError", "StorageError"}
      /\ Statuses["ok"] = "ok" /\ Statuses["IntegrityError"] = "corrupt"
      /\ Statuses["DatabaseFormatError"] = "format" /\ Statuses["StorageError"] = "storage"
  BY DEF Statuses
<1> HIDE DEF error
<1>4. file # Missing => Report =
              CASE error = "ok" -> "ok"
                [] error = "IntegrityError" -> "corrupt"
                [] error = "DatabaseFormatError" -> "format"
                [] error = "StorageError" -> "storage"
                [] OTHER -> error
  BY <1>1, <1>2, <1>3
<1>5. Report = "missing" <=> file = Missing
  BY <1>1, <1>2, <1>3
<1>6. Report = "ok" => file # Missing /\ error = "ok"
  BY <1>1, <1>2, <1>3
<1>. QED
  BY <1>4, <1>5, <1>6 DEF error

\* check passes no file that says anything but what was committed, whatever others made of it.
THEOREM DamageIsSeenHolds ==
  ASSUME TypeKey \notin Ids
  PROVE  Spec => []DamageIsSeen
<1>1. IInv => DamageIsSeen
  BY LoadFacts, ReportFacts DEF DamageIsSeen
<1>. QED
  BY <1>1, Invariance, PTL
-----------------------------------------------------------------------------
\* Damage and exit codes, action by action

\* How a command that stores a state answers.
LEMMA EndsAnswer ==
  ASSUME NEW command, Ends(command)
  PROVE  answer'.command = command /\ answer'.exit \in {0, 1, 5}
  BY DEF Ends, LateFailures, Answer, ExitCode

\* Every command but an edit leaves the file alone, or stores a state in its place after it
\* has loaded the one before.
LEMMA FileSteps ==
  ASSUME TypeKey \notin Ids, IInv, Next, answer'.command # "none", file' # file
  PROVE  answer'.command = "init --force" \/ file = Missing \/ SameContent
<1>1. ASSUME NEW command, Stores(command) PROVE answer'.command = command
  BY <1>1, EndsAnswer DEF Stores
<1>2. ASSUME NEW command, LockedStep(command) PROVE Stores(command) /\ LoadError = "ok"
  BY <1>2 DEF LockedStep, Fails
<1>3. CASE InitCommand
  BY <1>1, <1>3, InitSteps DEF Fails
<1>4. CASE WriteCommand
  BY <1>1, <1>2, <1>4, WriteSteps, LoadFacts
<1>5. CASE DeleteCommand
  BY <1>1, <1>2, <1>5, DeleteSteps, LoadFacts
<1>6. CASE ReadCommand \/ RefusedCommand \/ CheckCommand
  BY <1>6 DEF ReadCommand, RefusedCommand, CheckCommand, Fails
<1>7. CASE Edit
  BY <1>7 DEF Edit
<1>. QED
  BY <1>3, <1>4, <1>5, <1>6, <1>7 DEF Next

\* No command but init --force replaces a damaged file.
THEOREM DamageStaysHolds ==
  ASSUME TypeKey \notin Ids
  PROVE  Spec => DamageStays
<1>1. IInv /\ [Next]_vars =>
        [answer'.command # "none" /\ file' # file =>
           answer'.command = "init --force" \/ file = Missing \/ SameContent]_vars
  BY FileSteps
<1>. QED
  BY <1>1, Invariance, PTL DEF Spec, DamageStays

\* A file that is neither missing nor unreadable and loads says what was committed.
LEMMA DamagedFacts ==
  ASSUME IInv, Damaged
  PROVE  /\ LoadError # "ok" /\ file # Missing
         /\ ~ Strange => LoadError \in {"DatabaseFormatError", "IntegrityError"}
  BY LoadFacts, LoadErrors DEF Damaged

\* The exit codes of main().
LEMMA ExitCodeFacts ==
  /\ ExitCode("ok") = 0 /\ ExitCode("NotFoundError") = 1 /\ ExitCode("QueryError") = 2
  /\ ExitCode("ValidationError") = 2 /\ ExitCode("SerializationError") = 2
  /\ ExitCode("LockError") = 3 /\ ExitCode("StorageError") = 5 /\ ExitCode("OSError") = 1
  /\ ExitCode("RecursionError") = 1 /\ ExitCode("ValueError") = 1
  /\ ExitCode("DatabaseFormatError") = 4 /\ ExitCode("IntegrityError") = 4
  BY DEF ExitCode

\* A command that fails answers with the code of its exception.
LEMMA FailsAnswer ==
  ASSUME NEW command, NEW r, Fails(command, r)
  PROVE  answer'.command = command /\ answer'.exit = ExitCode(r)
  BY DEF Fails, Answer

\* What the exit codes promise of a step.
Promised ==
  /\ answer'.command \in {"read", "check"} /\ answer'.exit # 4 => ~ Damaged
  /\ answer'.command \in {"write", "delete"} /\ answer'.exit \notin {ExitCode(r) : r \in LockFailures} \cup {4}
       => ~ Damaged
  /\ answer'.exit = 4 => edits > 0 \/ (answer'.command = "check" /\ file = Missing)
  /\ answer'.command = "check" => answer'.exit \in {0, 4}

\* The promise of the exit codes, for insert, upsert, update, replace and delete.
LEMMA LockedPromise ==
  ASSUME IInv, ~ Strange, NEW command \in {"write", "delete"}, LockedStep(command)
  PROVE  Promised
<1>1. CASE \E r \in LockFailures : Fails(command, r)
  <2>1. PICK r \in LockFailures : Fails(command, r)
    BY <1>1
  <2>2. answer'.command = command /\ answer'.exit = ExitCode(r)
    BY <2>1, FailsAnswer
  <2>3. ExitCode(r) # 4
    BY ExitCodeFacts DEF LockFailures
  <2>. QED
    BY <2>2, <2>3 DEF Promised
<1>2. CASE LoadError # "ok" /\ Fails(command, LoadError)
  <2>1. answer'.command = command /\ answer'.exit = ExitCode(LoadError)
    BY <1>2, FailsAnswer
  <2>2. edits > 0 /\ (Damaged => ExitCode(LoadError) = 4)
    BY <1>2, LoadFacts, DamagedFacts, ExitCodeFacts
  <2>. QED
    BY <2>1, <2>2 DEF Promised
<1>3. CASE LoadError = "ok" /\ (Stores(command) \/ \E r \in Failures : Fails(command, r))
  <2>1. ~ Damaged
    BY <1>3, DamagedFacts
  <2>2. answer'.command = command /\ answer'.exit # 4
    <3>1. CASE Stores(command)
      BY <3>1, EndsAnswer DEF Stores
    <3>2. ASSUME NEW r \in Failures, Fails(command, r) PROVE answer'.command = command /\ answer'.exit # 4
      BY <3>2, FailsAnswer, ExitCodeFacts DEF Failures
    <3>. QED
      BY <1>3, <3>1, <3>2
  <2>. QED
    BY <2>1, <2>2 DEF Promised
<1>. QED
  BY <1>1, <1>2, <1>3 DEF LockedStep

\* The promise for get, query, dump and collections.
LEMMA ReadPromise ==
  ASSUME IInv, ~ Strange, ReadCommand
  PROVE  Promised
<1>1. CASE LoadError # "ok" /\ Fails("read", LoadError)
  <2>1. answer'.command = "read" /\ answer'.exit = ExitCode(LoadError)
    BY <1>1, FailsAnswer
  <2>2. edits > 0 /\ (Damaged => ExitCode(LoadError) = 4)
    BY <1>1, LoadFacts, DamagedFacts, ExitCodeFacts
  <2>. QED
    BY <2>1, <2>2 DEF Promised
<1>2. ASSUME LoadError = "ok", NEW r \in {"ok", "QueryError", "NotFoundError"}, Fails("read", r) PROVE Promised
  <2>1. answer'.command = "read" /\ answer'.exit = ExitCode(r) /\ ExitCode(r) # 4
    BY <1>2, FailsAnswer, ExitCodeFacts
  <2>2. ~ Damaged
    BY <1>2, DamagedFacts
  <2>. QED
    BY <2>1, <2>2 DEF Promised
<1>. QED
  BY <1>1, <1>2 DEF ReadCommand

\* The promise for check.
LEMMA CheckPromise ==
  ASSUME IInv, ~ Strange, CheckCommand
  PROVE  Promised
<1> DEFINE code == IF Report = "ok" THEN 0
                   ELSE IF Report \in {"missing", "corrupt", "format", "storage"} THEN 4
                   ELSE ExitCode(Report)
<1>1. answer'.command = "check" /\ answer'.exit = code
  BY DEF CheckCommand, Answer
<1>2. LoadError \in {"ok", "StorageError", "DatabaseFormatError", "IntegrityError"}
  BY LoadErrors
<1>3. CASE file = Missing
  <2>1. Report = "missing" /\ ~ Damaged
    BY <1>3, ReportFacts DEF Damaged
  <2>. QED
    BY <1>1, <1>3, <2>1 DEF Promised
<1>4. CASE file # Missing
  <2>1. Report \in {"ok", "corrupt", "format", "storage"} /\ (Report = "ok" <=> LoadError = "ok")
    BY <1>2, <1>4, ReportFacts
  <2>2. code \in {0, 4} /\ (code = 0 <=> LoadError = "ok")
    BY <2>1
  <2>3. (LoadError = "ok" => ~ Damaged) /\ (LoadError # "ok" => edits > 0)
    BY LoadFacts, DamagedFacts
  <2> HIDE DEF code
  <2>. QED
    BY <1>1, <2>2, <2>3 DEF Promised
<1>. QED
  BY <1>3, <1>4

\* The promise for init, and for arguments that are refused.
LEMMA OtherPromise ==
  ASSUME InitCommand \/ RefusedCommand
  PROVE  Promised
<1>1. answer'.command \in {"init", "init --force", "refused"} /\ answer'.exit # 4
  <2>1. ASSUME NEW command, Stores(command) PROVE answer'.command = command /\ answer'.exit # 4
    BY <2>1, EndsAnswer DEF Stores
  <2>2. ASSUME NEW command, NEW r \in {"LockError", "OSError", "StorageError", "SerializationError", "ValidationError"},
               Fails(command, r)
        PROVE  answer'.command = command /\ answer'.exit # 4
    BY <2>2, FailsAnswer, ExitCodeFacts
  <2>3. CASE InitCommand
    BY <2>1, <2>2, <2>3, InitSteps
  <2>4. CASE RefusedCommand
    BY <2>2, <2>4 DEF RefusedCommand
  <2>. QED
    BY <2>3, <2>4
<1>. QED
  BY <1>1 DEF Promised

\* The promise for every command.
LEMMA NextPromise ==
  ASSUME TypeKey \notin Ids, IInv, Next, answer'.command # "none", ~ Strange
  PROVE  Promised
<1>1. CASE WriteCommand
  BY <1>1, WriteSteps, LockedPromise
<1>2. CASE DeleteCommand
  BY <1>2, DeleteSteps, LockedPromise
<1>3. CASE Edit
  BY <1>3 DEF Edit
<1>. QED
  BY <1>1, <1>2, <1>3, ReadPromise, CheckPromise, OtherPromise DEF Next

\* A damaged file gives exit code 4 whatever the command, unless the lock fails or the
\* arguments are refused first; and 4 is given for edited or missing files only.
THEOREM ExitCodesHold ==
  ASSUME TypeKey \notin Ids
  PROVE  Spec => ExitCodes
<1>1. IInv /\ [Next]_vars =>
        [answer'.command # "none" =>
           LET command == answer'.command  exit == answer'.exit
           IN  \/ /\ command \in {"read", "check"} /\ exit # 4 => ~Damaged
                  /\ command \in {"write", "delete"} /\ exit \notin {ExitCode(r) : r \in LockFailures} \cup {4}
                     => ~Damaged
                  /\ exit = 4 => edits > 0 \/ (command = "check" /\ file = Missing)
                  /\ command = "check" => exit \in {0, 4}
               \/ Strange]_vars
  BY NextPromise, Zenon DEF Promised
<1>. QED
  BY <1>1, Invariance, PTL DEF Spec, ExitCodes
=============================================================================
