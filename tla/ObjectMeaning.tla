----------------------------- MODULE ObjectMeaning -----------------------------
(***************************************************************************)
(* What a set of operations on objects means, whatever order they are       *)
(* delivered in: the abstract replica that the pool of LiveObjects is to    *)
(* show, and the states of objects the service answers a sync with.         *)
(***************************************************************************)
EXTENDS LiveObjects, FiniteSetsExt

On(ops, o, action) == {op \in ops : op.object = o /\ op.action = action}

Deleted(ops, o) == o # Root /\ On(ops, o, "delete") # {}

\* When it was deleted: by the first such operation.
DeletedAt(ops, o) == IF Deleted(ops, o) THEN Min({op.serial : op \in On(ops, o, "delete")}) ELSE 0

LastClear(ops, m) == Max({0} \union {op.serial : op \in On(ops, m, "clear")})

\* The entries written to a key: by operations, and by the operation that made the map.
Written(ops, m, k) ==
  {Entry(op.value, op.serial) : op \in {x \in On(ops, m, "set") : x.key = k}}
    \union {RemovedEntry(op.serial) : op \in {x \in On(ops, m, "remove") : x.key = k}}

Initial(ops, m, k) ==
  {op.entries[k] : op \in {x \in On(ops, m, "create") : k \in DOMAIN x.entries}}

\* The last of the entries that the last clear did not come after.
Latest(ops, m, entries) ==
  {e \in entries : /\ LastClear(ops, m) = 0 \/ e.serial > LastClear(ops, m)
                   /\ \A f \in entries : f.serial <= e.serial}

\* The entries of a map by key, and the count of a counter.
MapMeaning(ops, m, keys) ==
  LET last(k) == Latest(ops, m, Written(ops, m, k) \union Initial(ops, m, k))
      live    == {k \in keys : \E e \in last(k) : ~e.tombstone}
  IN  [k \in live |-> (CHOOSE e \in last(k) : TRUE).value]

\* A create that is sent twice counts once: the id of an object stands for its initial value.
First(ops) == {op \in ops : \A other \in ops : op.serial <= other.serial}

CounterMeaning(ops, c) ==
  MapThenSumSet(LAMBDA op : op.amount, On(ops, c, "inc") \union First(On(ops, c, "create")))

Meaning(ops, o, keys) ==
  IF o \in Counters
  THEN IF Deleted(ops, o) THEN 0 ELSE CounterMeaning(ops, o)
  ELSE IF Deleted(ops, o) THEN <<>> ELSE MapMeaning(ops, o, keys)

\* What a pool shows of an object; one it does not hold is empty.
Shown(pool, o) ==
  IF o \notin DOMAIN pool
  THEN IF o \in Counters THEN 0 ELSE <<>>
  ELSE IF o \in Counters
       THEN pool[o].data
       ELSE [k \in LiveKeys(pool[o].data) |-> pool[o].data[k].value]

-----------------------------------------------------------------------------
\* The objects the service knows of, and the state it sends of each.

Mentioned(op) ==
  {op.object} \union (CASE op.action = "set"    -> Ids \cap {op.value}
                        [] op.action = "create" -> Ids \cap {op.entries[k].value : k \in DOMAIN op.entries}
                        [] OTHER                -> {})

Known(ops) == {Root} \union UNION {Mentioned(op) : op \in ops}

StateOf(ops, o, keys) ==
  LET sites(s)  == {op.serial : op \in {x \in ops : x.object = o /\ x.site = s}}
      last(k)   == Latest(ops, o, Written(ops, o, k))
      creates   == On(ops, o, "create")
      gone      == Deleted(ops, o)
  IN  [object      |-> o,
       siteSerials |-> [s \in Sites |-> Max({0} \union sites(s))],
       tombstone   |-> gone,
       at          |-> DeletedAt(ops, o),
       clear       |-> IF gone THEN 0 ELSE LastClear(ops, o),
       amount      |-> IF gone THEN 0
                       ELSE MapThenSumSet(LAMBDA op : op.amount, On(ops, o, "inc")),
       entries     |-> IF gone THEN <<>>
                       ELSE [k \in {k \in keys : last(k) # {}} |-> CHOOSE e \in last(k) : TRUE],
       create      |-> IF gone \/ creates = {} THEN None ELSE CHOOSE op \in creates : TRUE]

=============================================================================
