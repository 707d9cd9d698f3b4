------------------------------ MODULE MCQuery ------------------------------
(* Documents with and without each field, and criteria good, malformed and mixed. *)
EXTENDS Query, TLC

null == [const |-> "null"]
one == [num |-> 1]
two == [num |-> 2]
a == [str |-> <<97>>]
ba == [str |-> <<98, 97>>]

MCDocs ==
  { "f" :> one, "f" :> null @@ "g" :> ba, "f" :> two @@ "g" :> one, "f" :> [list |-> <<one>>],
    "g" :> [keys |-> {<<97>>}] }

Op(op, arg) == [op |-> op, arg |-> arg]
Single ==
  {Op(op, arg) : op \in OPERATORS \ {"$in", "$nin"}, arg \in {one, a, null}}
    \cup {Op(op, arg) : op \in {"$in", "$nin"}, arg \in {one, [list |-> <<one, null>>]}}
    \cup {Op("$unknown", one), Op("plain", one)}
Few == {Op("$eq", one), Op("$ne", one), Op("$in", one), Op("$nin", one), Op("$unknown", one), Op("plain", one),
        Op("$exists", two), Op("$gte", one)}

\* The keys of a dictionary are distinct, and one of an expression starts with $.
Expressions ==
  {[ops |-> <<o>>] : o \in {o \in Single : IsOperator(o.op)}}
    \cup {[ops |-> <<o, p>>] : <<o, p>> \in {q \in Few \X Few : q[1].op # q[2].op}}
Plain == {[is |-> v] : v \in {one, null, [list |-> <<one>>]}}

MCQueries ==
  {<<[field |-> f, expected |-> e]>> : f \in {"f", "g"}, e \in Expressions \cup Plain}
    \cup {<<>>}
    \cup {<<[field |-> NotText, expected |-> [is |-> one]]>>,
          <<[field |-> "f", expected |-> [is |-> one]], [field |-> NotText, expected |-> [is |-> one]]>>}
    \cup { <<[field |-> f, expected |-> d], [field |-> g, expected |-> e]>> :
             <<f, g>> \in {<<"f", "g">>, <<"g", "f">>},
             d \in Plain \cup {[ops |-> <<o>>] : o \in {o \in Few : IsOperator(o.op)}},
             e \in Plain \cup {[ops |-> <<o>>] : o \in {o \in Few : IsOperator(o.op)}} }
MCPredicates == {p \in [MCDocs -> {"yes", "no", "raises"}] : p["f" :> one] = "yes"}
=============================================================================
