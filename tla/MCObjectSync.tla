----------------------------- MODULE MCObjectSync -----------------------------
(***************************************************************************)
(* An instance of ObjectSync: the root, and a map and a counter to be made. *)
(***************************************************************************)
EXTENDS ObjectSync, ObjectWrites, SequencesExt

CONSTANTS map, counter, k

\* This client enters a new map, with a new counter in it, in the root, and adds to the counter.
MCWrites ==
  <<BatchMessages(<<>>, <<[call |-> "set", object |-> Root, key |-> k,
                           value |-> Map(<<<<k, Counter(1)>>>>)]>>),
    BatchMessages(<<>>, <<[call |-> "decrement", object |-> counter, amount |-> -2]>>)>>

\* The others add to the counter too.
MCRemote == Range(BatchMessages(<<>>, <<[call |-> "increment", object |-> counter, amount |-> 4]>>))

MCMaps == {Root, map}
=============================================================================
