----------------------------- MODULE ObjectWrites -----------------------------
(***************************************************************************)
(* The operations that writes to objects publish: those of the maps and     *)
(* counters (livemap.py, livecounter.py, batch.py), and of the blueprints   *)
(* of new objects that are values of a map (valuetypes.py).                 *)
(*                                                                          *)
(* An operation is what LiveObjects applies, without site and serial.       *)
(***************************************************************************)
EXTENDS LiveObjects, Sequences, TLC
LOCAL INSTANCE SequencesExt

\* The values of an entry: a blueprint, or a primitive. A map's entries are a sequence of
\* <<key, value>>, in the order of the dict.
Counter(count) == [is |-> "counter", count |-> count]
Map(entries) == [is |-> "map", entries |-> entries]
Primitive(value) == [is |-> "primitive", value |-> value]

\* What an evaluation made so far: the operations, and the id or primitive the value stands for.
Evaluated(ops, value) == [ops |-> ops, value |-> value]

\* generate_object_id: a nonce makes every id a new one.
GenerateObjectId(ids, ops) == CHOOSE o \in ids \ {ops[i].object : i \in DOMAIN ops} : TRUE

EvaluateCounter(blueprint, ops) ==
  LET c == GenerateObjectId(Counters, ops)
  IN  Evaluated(Append(ops, [action |-> "create", object |-> c, entries |-> <<>>,
                             amount |-> blueprint.count]), c)

MapCreate(m, entries) ==
  [action |-> "create", object |-> m, entries |-> [k \in DOMAIN entries |-> Entry(entries[k], 0)]]

\* evaluate, after the operations ops: the creates of what a map holds come before its own.
RECURSIVE Evaluate(_, _)

\* Mutant of EvaluateMap: the map comes first.
EvaluateMapFirst(blueprint, ops) ==
  LET step(r, e) ==
        LET v == Evaluate(e[2], r.ops)
        IN  [ops |-> v.ops, entries |-> (e[1] :> v.value) @@ r.entries]
      m == GenerateObjectId(Maps \ {Root}, ops)
      r == FoldLeft(step, [ops |-> Append(ops, MapCreate(m, <<>>)), entries |-> <<>>], blueprint.entries)
      at == Len(ops) + 1
  IN  Evaluated([r.ops EXCEPT ![at] = MapCreate(m, r.entries)], m)

EvaluateMap(blueprint, ops) ==
  LET step(r, e) ==
        LET v == Evaluate(e[2], r.ops)
        IN  [ops |-> v.ops, entries |-> (e[1] :> v.value) @@ r.entries]
      r == FoldLeft(step, [ops |-> ops, entries |-> <<>>], blueprint.entries)
      m == GenerateObjectId(Maps \ {Root}, r.ops)
  IN  Evaluated(Append(r.ops, MapCreate(m, r.entries)), m)

Evaluate(value, ops) ==
  CASE value.is = "counter"   -> EvaluateCounter(value, ops)
    [] value.is = "map"       -> EvaluateMap(value, ops)
    [] value.is = "primitive" -> Evaluated(ops, value.value)

-----------------------------------------------------------------------------
\* Writes, each from the operations queued before it to those with its own.

MapSetMessages(ops, m, key, value) ==
  LET v == Evaluate(value, ops)
  IN  Append(v.ops, [action |-> "set", object |-> m, key |-> key, value |-> v.value])

MapRemoveMessage(ops, m, key) == Append(ops, [action |-> "remove", object |-> m, key |-> key])

CounterIncMessage(ops, c, amount) == Append(ops, [action |-> "inc", object |-> c, amount |-> amount])

MapMessages(ops, write) ==
  CASE write.call = "set"    -> MapSetMessages(ops, write.object, write.key, write.value)
    [] write.call = "remove" -> MapRemoveMessage(ops, write.object, write.key)

CounterMessages(ops, write) ==
  CASE write.call = "increment" -> CounterIncMessage(ops, write.object, write.amount)
    [] write.call = "decrement" -> CounterIncMessage(ops, write.object, -write.amount)

\* flush: what is queued is built in order, and goes out as one message. The ids differ from
\* those of the operations made before.
BatchMessages(made, writes) ==
  LET messages(ops, w) == IF w.object \in Counters THEN CounterMessages(ops, w) ELSE MapMessages(ops, w)
      all == FoldLeft(messages, made, writes)
  IN  SubSeq(all, Len(made) + 1, Len(all))

=============================================================================
