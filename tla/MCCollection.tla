---------------------------- MODULE MCCollection ----------------------------
(* Two collections, two ids, and bodies that overlap, conflict, are refused and are deep. *)
EXTENDS Collection, TLC
CONSTANTS n1, n2, i1, i2, f, g, v, w, deep

MCNames == {n1, n2}
MCIds == {i1, i2}
MCDeep == {deep}
MCBodies ==
  { [id |-> NoId, fields |-> f :> v],
    [id |-> NoId, fields |-> f :> deep @@ g :> v],
    [id |-> i1, fields |-> g :> w],
    [id |-> BadId, fields |-> g :> v] }
=============================================================================
