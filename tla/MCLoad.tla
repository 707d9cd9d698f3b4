------------------------------- MODULE MCLoad -------------------------------
(* Values of every type, nested, good and bad, and edits of every type. *)
EXTENDS Load, TLC

x == [str |-> "x"]
time == [datetime |-> "t"]

RECURSIVE Deep(_)
Deep(n) == IF n = 0 THEN x ELSE [list |-> <<Deep(n - 1)>>]

MCValues ==
  { Null,
    [set |-> {x, [tuple |-> <<time, x>>]}],
    [list |-> <<[tuple |-> <<x>>], [set |-> {[decimal |-> "u"]}]>>],
    Dict("k" :> [bytes |-> "u"]),
    \* refused by validate_document(), one of them with a ValueError
    [list |-> <<Tagged("date", [str |-> "t"])>>], [decimal |-> "nan"], [other |-> "frozenset"],
    [set |-> {Huge}],
    \* refused by the encoder in the commit
    Huge, [tuple |-> <<Surrogate>>],
    \* nested too deep for validate_document(), and for the commit
    Deep(MaxNesting), Deep(MaxNesting - 3) }

MCForeign ==
  { [str |-> "t+"], [str |-> ""], [num |-> "1"], Null, [list |-> <<>>], Dict(None),
    Tagged("set", [list |-> <<Tagged("date", [str |-> "t+"])>>]), NaN, Huge,
    Tagged("decimal", [str |-> "nan"]) }

\* A value is replaced, or a key or an item is removed or added.
RECURSIVE MCEdited(_)
MCEdited(j) ==
  MCForeign
    \cup (IF Is(j, "dict")
          THEN (UNION {{Dict(k :> e @@ j.dict) : e \in MCEdited(j.dict[k])} : k \in DOMAIN j.dict})
               \cup {Dict(Restrict(j.dict, DOMAIN j.dict \ {k})) : k \in DOMAIN j.dict}
               \cup {Dict(j.dict @@ k :> e) : k \in {"c", "__extra", TypeKey}, e \in {Null, Dict(None)}}
          ELSE {})
    \cup (IF Is(j, "list")
          THEN (UNION {{[list |-> [j.list EXCEPT ![k] = e]] : e \in MCEdited(j.list[k])} : k \in DOMAIN j.list})
               \cup {[list |-> Append(j.list, e)] : e \in Range(j.list) \cup {Null}}
               \cup {[list |-> SubSeq(j.list, 2, Len(j.list))]}
          ELSE {})
=============================================================================
