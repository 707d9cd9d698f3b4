----------------------------- MODULE Serializer -----------------------------
(***************************************************************************)
(* serializer.py on nested values.                                          *)
(*                                                                         *)
(* A Python or JSON value is a record with one field, named for its type:    *)
(*   [const |-> "null"], [num |-> n], [str |-> s], [list |-> seq],           *)
(*   [dict |-> function from strings], and in Python also [tuple |-> seq],   *)
(*   [set |-> set], [datetime |-> text], [date |-> text], [decimal |-> text], *)
(*   [bytes |-> text], [other |-> a type that is not supported].              *)
(* A checksum is the string [sha |-> the JSON value it was computed from].    *)
(* No two atoms of an instance are equal in Python (as 1, 1.0 and True are).  *)
(***************************************************************************)
EXTENDS Naturals, Sequences, SequencesExt, Functions

CONSTANT MaxNesting   \* what is nested deeper raises a RecursionError

ASSUME NestingAssumption == MaxNesting \in Nat /\ MaxNesting >= 3

TypeKey == "__jsondb_type__"
Scalars == {"datetime", "date", "decimal", "bytes"}

\* Texts that fromisoformat(), Decimal() and b64decode() accept, and the text that
\* the result is written as: "t+" is another spelling of "t".
Spelled(tag) ==
  LET more == CASE tag = "bytes" -> {""} [] tag = "decimal" -> {"nan"} [] OTHER -> {}
  IN  [text \in {"t", "t+", "u"} \cup more |-> IF text = "t+" THEN "t" ELSE text]

\* Numbers and strings that json.loads() reads and dumps() refuses.
NaN == [num |-> "nan"]
Huge == [num |-> "huge"]               \* more than 4300 digits
Surrogate == [str |-> "surrogate"]     \* half of a surrogate pair

Is(v, kind) == kind \in DOMAIN v
Null == [const |-> "null"]
Dict(f) == [dict |-> f]
Put(f, k, x) == [y \in DOMAIN f \cup {k} |-> IF y = k THEN x ELSE f[y]]
Field(d, k) == IF k \in DOMAIN d.dict THEN d.dict[k] ELSE Null
Tagged(tag, value) == Dict([__jsondb_type__ |-> [str |-> tag], value |-> value])
IsTagged(v) == Is(v, "dict") /\ TypeKey \in DOMAIN v.dict

Children(v) ==
  (UNION {Range(v[k]) : k \in DOMAIN v \cap {"list", "tuple", "dict"}})
    \cup (IF Is(v, "set") THEN v.set ELSE {})

Inside(values) == UNION {Children(p) : p \in values}

\* The values at each depth.
Below(v) ==
  LET below[n \in 0..(MaxNesting + 1)] == IF n = 0 THEN {v} ELSE Inside(below[n - 1])
  IN  below

Fits(v) == Below(v)[MaxNesting + 1] = {}
Parts(v) == UNION {Below(v)[n] : n \in 0..MaxNesting}

-----------------------------------------------------------------------------
\* _encode()

EncodeRaises(v) ==
  \E p \in Parts(v) : p = NaN \/ p = [decimal |-> "nan"] \/ Is(p, "other")

\* The members of a set are sorted by their text, which a huge number does not have:
\* the ValueError is turned into a SerializationError by dumps() only.
EncodeCrashes(v) == \E p \in Parts(v) : Is(p, "set") /\ Huge \in Parts(p)

EncodeStep(v, new) ==
  LET each(s) == [k \in DOMAIN s |-> new[<<"encode", s[k]>>]]
  IN  IF Is(v, "set") THEN Tagged("set", [list |-> SetToSeq({new[<<"encode", c>>] : c \in v.set})])
      ELSE IF Is(v, "list") THEN [list |-> each(v.list)]
      ELSE IF Is(v, "tuple") THEN [list |-> each(v.tuple)]
      ELSE IF Is(v, "dict") THEN Dict(each(v.dict))
      ELSE IF DOMAIN v \subseteq Scalars
           THEN LET tag == CHOOSE k \in DOMAIN v : TRUE IN Tagged(tag, [str |-> v[tag]])
      ELSE v

\* _dumps() and canonical_dumps(): the value is encoded, printed and turned into UTF-8.
\* Keys are sorted, so a printed value stands for its encoding.
DumpsRaises(v) == EncodeRaises(v) \/ {Huge, Surrogate} \cap Parts(v) # {}

-----------------------------------------------------------------------------
\* _decode(), _decode_tagged() and _coerce_set_member()

Raised == [raised |-> TRUE]
Unless(parts, whole) == IF Raised \in Range(parts) THEN Raised ELSE whole

DecodeTagged(tag, raw, new) ==
  IF Is(tag, "str") /\ tag.str \in Scalars /\ Is(raw, "str") /\ raw.str \in DOMAIN Spelled(tag.str)
  THEN [kind \in {tag.str} |-> Spelled(tag.str)[raw.str]]
  ELSE IF tag = [str |-> "set"] /\ Is(raw, "list")
  THEN LET members == [k \in DOMAIN raw.list |-> new[<<"member", raw.list[k]>>]]
       IN  Unless(members, [set |-> Range(members)])
  ELSE Raised

DecodeStep(j, new) ==
  LET each(s) == [k \in DOMAIN s |-> new[<<"decode", s[k]>>]]
  IN  IF Is(j, "list") THEN LET items == each(j.list) IN Unless(items, [list |-> items])
      ELSE IF ~Is(j, "dict") THEN j
      ELSE IF IsTagged(j) THEN DecodeTagged(j.dict[TypeKey], Field(j, "value"), new)
      ELSE LET items == each(j.dict) IN Unless(items, Dict(items))

\* Variant of MemberStep: the arrays in a set stay lists.
MemberStepAsRead(j, new) == DecodeStep(j, new)

\* A member of a set: its arrays become tuples, and it must be hashable.
MemberStep(j, new) ==
  IF Is(j, "list")
  THEN LET items == [k \in DOMAIN j.list |-> new[<<"member", j.list[k]>>]]
       IN  Unless(items, [tuple |-> items])
  ELSE LET value == DecodeStep(j, new)
       IN  IF Is(value, "dict") \/ Is(value, "set") THEN Raised ELSE value

-----------------------------------------------------------------------------
\* What a caller gets back for a value that was stored: tuples outside of sets have
\* become lists.
NormalStep(v, new) ==
  LET each(s) == [k \in DOMAIN s |-> new[<<"normal", s[k]>>]]
  IN  IF Is(v, "list") THEN [list |-> each(v.list)]
      ELSE IF Is(v, "tuple") THEN [list |-> each(v.tuple)]
      ELSE IF Is(v, "dict") THEN Dict(each(v.dict))
      ELSE v

\* _validate_raw_value_for_reserved_keys(): the tags with keys beside them.  It does not
\* look below a tag.
LooseStep(v, new) ==
  IF IsTagged(v) THEN (IF DOMAIN v.dict = {TypeKey, "value"} THEN {} ELSE {v})
  ELSE UNION {new[<<"loose", c>>] : c \in Children(v)}

-----------------------------------------------------------------------------
\* These walks all go over the parts of a value, from the inside out.
Ways == {"encode", "decode", "member", "normal", "loose"}

Step(way, v, new) ==
  CASE way = "encode" -> EncodeStep(v, new)
    [] way = "decode" -> DecodeStep(v, new)
    [] way = "member" -> MemberStep(v, new)
    [] way = "normal" -> NormalStep(v, new)
    [] way = "loose" -> LooseStep(v, new)

Walk(v) ==
  LET new[x \in Ways \X Parts(v)] == Step(x[1], x[2], new)
  IN  new

Encode(v) == Walk(v)[<<"encode", v>>]
Decode(j) == Walk(j)[<<"decode", j>>]
Normal(v) == Walk(v)[<<"normal", v>>]
TagsAlone(v) == Walk(v)[<<"loose", v>>] = {}

-----------------------------------------------------------------------------
\* The values of JSON and of Python

IsFunction(f) == f = [x \in DOMAIN f |-> f[x]]

JsonPart(p) ==
  /\ IsFunction(p)
  /\ \/ DOMAIN p \in {{"const"}, {"num"}, {"str"}, {"sha"}}
     \/ DOMAIN p = {"list"} /\ p.list \in Seq(Range(p.list))
     \/ DOMAIN p = {"dict"} /\ IsFunction(p.dict)

IsJson(j) == \A p \in Parts(j) : JsonPart(p)

Hashable(v) == \A p \in Parts(v) : DOMAIN p \cap {"list", "dict", "set"} = {}

PythonPart(p) ==
  /\ IsFunction(p)
  /\ \/ DOMAIN p \in {{"const"}, {"num"}, {"str"}, {"sha"}, {"other"}}
     \/ \E k \in Scalars : DOMAIN p = {k} /\ p[k] \in DOMAIN Spelled(k) /\ Spelled(k)[p[k]] = p[k]
     \/ \E k \in {"list", "tuple", "dict"} : DOMAIN p = {k} /\ IsFunction(p[k])
     \/ DOMAIN p = {"set"} /\ IsFiniteSet(p.set) /\ \A c \in p.set : Hashable(c)

IsPython(v) == \A p \in Parts(v) : PythonPart(p)
Checksums(v) == {p \in Parts(v) : Is(p, "sha")}
=============================================================================
