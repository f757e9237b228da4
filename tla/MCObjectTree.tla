----------------------------- MODULE MCObjectTree -----------------------------
(***************************************************************************)
(* Instances of ObjectTree: a root, one other map that may refer back to    *)
(* the root, and one counter.                                               *)
(***************************************************************************)
EXTENDS ObjectTree, TLC

CONSTANTS map, counter, k

MCMaps == {Root, map}

Set(m, value) == [action |-> "set", object |-> m, key |-> k, value |-> value]
EntriesOf(value) == k :> Entry(value, 0)

MCTemplates ==
  {Set(Root, map), Set(Root, counter), Set(map, Root),
   [action |-> "remove", object |-> Root, key |-> k],
   [action |-> "clear", object |-> Root],
   [action |-> "create", object |-> map, entries |-> EntriesOf(counter)],
   [action |-> "create", object |-> counter, entries |-> <<>>, amount |-> 2],
   [action |-> "inc", object |-> counter, amount |-> 1],
   [action |-> "delete", object |-> map], [action |-> "delete", object |-> counter]}

SiteSymmetry == Permutations(Sites)
=============================================================================
