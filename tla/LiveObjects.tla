------------------------------ MODULE LiveObjects ------------------------------
(***************************************************************************)
(* The objects of a channel as values: the counters and maps               *)
(* (liveobjects/livecounter.py, livemap.py, liveobject.py), the pool that   *)
(* holds them (objectspool.py), and the pool a sync accumulates             *)
(* (syncobjectspool.py).  A pool is a function from object ids to objects.  *)
(*                                                                          *)
(* Serials are positive numbers, 0 where the code has none; the time of     *)
(* what an operation does is its serial.                                    *)
(***************************************************************************)
EXTENDS Integers, FiniteSets

CONSTANTS
  Maps,      \* the ids of maps
  Counters,  \* the ids of counters
  Root,      \* the id of the root map
  Sites,     \* the sites operations are made at
  None       \* no value, no create operation

ASSUME RootAssumption == Root \in Maps /\ Maps \cap Counters = {}

Ids == Maps \union Counters

ASSUME NoneAssumption == None \notin Ids

NewObject(o) ==
  [data |-> IF o \in Counters THEN 0 ELSE <<>>, siteSerials |-> [s \in Sites |-> 0],
   merged |-> FALSE, tombstone |-> FALSE, at |-> 0, clear |-> 0, parents |-> {}]

EmptyPool == [o \in {Root} |-> NewObject(o)]

\* A key of a map: its value, the serial it was written with, and when it was removed.
Entry(value, serial) == [value |-> value, serial |-> serial, tombstone |-> FALSE, at |-> 0]
RemovedEntry(serial) == [value |-> None, serial |-> serial, tombstone |-> TRUE, at |-> serial]

\* What notify_updated is called with.
Update(o, keys) == [object |-> o, keys |-> keys, tombstone |-> FALSE]
Applied(pool, update) == [pool |-> pool, updates |-> {update}]
Noop(pool) == [pool |-> pool, updates |-> {}]

\* Two dicts in one: the new one goes before the old one.
Over(new, old) ==
  [x \in DOMAIN new \union DOMAIN old |-> IF x \in DOMAIN new THEN new[x] ELSE old[x]]

-----------------------------------------------------------------------------
\* Parents: the <<map, key>> at which an object is referenced.

CreateZeroValues(pool, ids) ==
  [o \in DOMAIN pool \union ids |-> IF o \in DOMAIN pool THEN pool[o] ELSE NewObject(o)]

CreateZeroValue(pool, o) == CreateZeroValues(pool, {o})

\* What new entries of a map reference is made, if it is not known yet, and gets its parents.
AddReferences(pool, m, entries) ==
  LET known    == CreateZeroValues(pool, Ids \cap {entries[k].value : k \in DOMAIN entries})
      added(o) == {<<m, k>> : k \in {k \in DOMAIN entries : entries[k].value = o}}
  IN  [o \in DOMAIN known |-> [known[o] EXCEPT !.parents = @ \union added(o)]]

\* Mutant of ReleaseReferences: what the entries reference keeps its parents.
KeepReferences(pool, m, keys) == pool

\* _release_reference, of several keys.
ReleaseReferences(pool, m, keys) ==
  LET released(o) == {<<m, k>> : k \in {k \in keys : pool[m].data[k].value = o}}
  IN  [o \in DOMAIN pool |-> [pool[o] EXCEPT !.parents = @ \ released(o)]]

EntryTombstoned(pool, entry) ==
  entry.tombstone \/ (entry.value \in DOMAIN pool /\ pool[entry.value].tombstone)

LiveKeys(data) == {k \in DOMAIN data : ~data[k].tombstone}

\* The places of entries, each a map and a key, and those where an object is referenced.
Places(pool) == UNION {{m} \X DOMAIN pool[m].data : m \in Maps \cap DOMAIN pool}
EntryAt(pool, place) == pool[place[1]].data[place[2]]
References(pool, o) == {place \in Places(pool) : EntryAt(pool, place).value = o}

RebuildParents(pool) ==
  LET parents(o) == {place \in References(pool, o) : ~EntryTombstoned(pool, EntryAt(pool, place))}
  IN  [o \in DOMAIN pool |-> [pool[o] EXCEPT !.parents = parents(o)]]

\* clear_data
ClearCounter(pool, c) == [pool EXCEPT ![c].data = 0]

ClearMap(pool, m) ==
  [ReleaseReferences(pool, m, DOMAIN pool[m].data) EXCEPT ![m] = [@ EXCEPT !.data = <<>>, !.clear = 0]]

ClearData(pool, o) == IF o \in Counters THEN ClearCounter(pool, o) ELSE ClearMap(pool, o)

\* Of every object: nobody's entries reference it any more.
ClearAllData(pool) ==
  [o \in DOMAIN pool |-> [pool[o] EXCEPT !.data = NewObject(o).data, !.clear = 0,
                                        !.parents = @ \ References(pool, o)]]

\* tombstone(): the root is never tombstoned.
Tombstone(pool, o, at) ==
  IF o = Root
  THEN Noop(pool)
  ELSE Applied([ClearData(pool, o) EXCEPT ![o] = [@ EXCEPT !.tombstone = TRUE, !.at = at]],
               [object |-> o, tombstone |-> TRUE,
                keys   |-> IF o \in Maps THEN LiveKeys(pool[o].data) ELSE {}])

-----------------------------------------------------------------------------
\* The operations on one object.

CounterInc(pool, c, amount) == Applied([pool EXCEPT ![c].data = @ + amount], Update(c, {}))

AtOrBeforeClear(pool, m, serial) == pool[m].clear # 0 /\ pool[m].clear >= serial

\* Mutant of Newer: the operation that comes last wins.
NewerAlways(pool, m, key, serial) == TRUE

\* can_apply_map_operation; an entry that is absent, or has no serial, is older than any other.
Newer(pool, m, key, serial) ==
  key \in DOMAIN pool[m].data => serial > pool[m].data[key].serial

WriteEntries(pool, m, entries) ==
  [AddReferences(ReleaseReferences(pool, m, DOMAIN entries \cap DOMAIN pool[m].data), m, entries)
     EXCEPT ![m].data = Over(entries, @)]

\* Entries of one or several keys are written, those of them that are new.
ApplyEntries(pool, m, entries) ==
  LET taken == {k \in DOMAIN entries : /\ ~AtOrBeforeClear(pool, m, entries[k].serial)
                                       /\ Newer(pool, m, k, entries[k].serial)}
  IN  IF taken = {}
      THEN Noop(pool)
      ELSE Applied(WriteEntries(pool, m, [k \in taken |-> entries[k]]), Update(m, taken))

MapSet(pool, m, key, value, serial) == ApplyEntries(pool, m, [k \in {key} |-> Entry(value, serial)])

MapRemove(pool, m, key, serial) == ApplyEntries(pool, m, [k \in {key} |-> RemovedEntry(serial)])

MapClear(pool, m, serial) ==
  LET keys == {k \in DOMAIN pool[m].data : serial > pool[m].data[k].serial}
      kept == DOMAIN pool[m].data \ keys
  IN  IF pool[m].clear > serial
      THEN Noop(pool)
      ELSE Applied([ReleaseReferences(pool, m, keys)
                      EXCEPT ![m] = [@ EXCEPT !.clear = serial,
                                        !.data = [k \in kept |-> pool[m].data[k]]]],
                   Update(m, keys))

\* merge_initial_value: a map applies each entry as an operation with the serial of the entry.
MergeCounter(pool, c, create) ==
  Applied([pool EXCEPT ![c] = [@ EXCEPT !.data = pool[c].data + create.amount, !.merged = TRUE]],
          Update(c, {}))

InitialEntry(entry) ==
  IF entry.tombstone THEN RemovedEntry(entry.serial) ELSE Entry(entry.value, entry.serial)

AsCreated(merged, m) ==
  Applied([merged.pool EXCEPT ![m].merged = TRUE], Update(m, UNION {u.keys : u \in merged.updates}))

MergeMap(pool, m, create) ==
  AsCreated(ApplyEntries(pool, m, [k \in DOMAIN create.entries |-> InitialEntry(create.entries[k])]), m)

CreateCounter(pool, c, create) == IF pool[c].merged THEN Noop(pool) ELSE MergeCounter(pool, c, create)
CreateMap(pool, m, create) == IF pool[m].merged THEN Noop(pool) ELSE MergeMap(pool, m, create)

CanApplyOperation(pool, op) == op.serial > pool[op.object].siteSerials[op.site]

CounterEffect(pool, op) ==
  CASE op.action = "create" -> CreateCounter(pool, op.object, op)
    [] op.action = "inc"    -> CounterInc(pool, op.object, op.amount)
    [] op.action = "delete" -> Tombstone(pool, op.object, op.serial)

MapEffect(pool, op) ==
  CASE op.action = "create" -> CreateMap(pool, op.object, op)
    [] op.action = "set"    -> MapSet(pool, op.object, op.key, op.value, op.serial)
    [] op.action = "remove" -> MapRemove(pool, op.object, op.key, op.serial)
    [] op.action = "clear"  -> MapClear(pool, op.object, op.serial)
    [] op.action = "delete" -> Tombstone(pool, op.object, op.serial)

\* apply_operation: the serial of an operation of the channel is recorded whether or not the
\* operation is then applied to an object that is still there.
ApplyOperation(pool, op, source) ==
  LET known == CreateZeroValue(pool, op.object)
      noted == IF source = "channel"
               THEN [known EXCEPT ![op.object].siteSerials[op.site] = op.serial]
               ELSE known
      can   == CanApplyOperation(known, op)
      applied == can /\ ~known[op.object].tombstone
      result == IF ~applied THEN Noop(IF can THEN noted ELSE known)
                ELSE IF op.object \in Counters THEN CounterEffect(noted, op) ELSE MapEffect(noted, op)
  IN  [pool |-> result.pool, updates |-> result.updates, applied |-> applied]

-----------------------------------------------------------------------------
\* The states of objects a sync delivers.

\* apply_object_sync_messages, for one message: the parts of a map are put together.
AddSyncState(sync, state) ==
  IF state.object \notin DOMAIN sync \/ (state.object \in Maps /\ state.tombstone)
  THEN Over([o \in {state.object} |-> state], sync)
  ELSE IF state.object \in Counters
       THEN sync
       ELSE [sync EXCEPT ![state.object].entries = Over(state.entries, @)]

\* diff: the keys of a map, or whether a counter, differ.
DiffKeys(old, new) ==
  (LiveKeys(old) \ LiveKeys(new))
    \union {k \in LiveKeys(new) : k \in LiveKeys(old) => old[k].value # new[k].value}

\* replace_data of an object that is there, once its site serials are replaced.
ReplacedCounter(old, new, c) ==
  IF new[c].data = old[c].data THEN Noop(new) ELSE Applied(new, Update(c, {}))

ReplaceCounter(pool, c, state) ==
  LET bare == [pool EXCEPT ![c] = [@ EXCEPT !.merged = FALSE, !.data = state.amount]]
  IN  ReplacedCounter(pool, IF state.create = None THEN bare
                            ELSE MergeCounter(bare, c, state.create).pool, c)

ReplacedMap(old, new, m) ==
  LET keys == DiffKeys(old[m].data, new[m].data)
  IN  IF keys = {} THEN Noop(new) ELSE Applied(new, Update(m, keys))

ReplaceMap(pool, m, state) ==
  LET bare == [pool EXCEPT ![m] = [@ EXCEPT !.merged = FALSE, !.clear = state.clear,
                                           !.data = state.entries]]
  IN  ReplacedMap(pool, IF state.create = None THEN bare
                        ELSE MergeMap(bare, m, state.create).pool, m)

\* replace_data: a tombstone is for ever.
ReplaceData(pool, state) ==
  LET o     == state.object
      noted == [pool EXCEPT ![o].siteSerials = state.siteSerials]
  IN  IF pool[o].tombstone THEN Noop(noted)
      ELSE IF state.tombstone THEN Tombstone(noted, o, state.at)
      ELSE IF o \in Counters THEN ReplaceCounter(noted, o, state) ELSE ReplaceMap(noted, o, state)

\* _replace_object_state: an object that was not there is made, and nobody is told.
ReplaceObjectState(pool, state) ==
  [ReplaceData(CreateZeroValue(pool, state.object), state)
     EXCEPT !.updates = IF state.object \in DOMAIN pool THEN @ ELSE {}]

\* _complete_sync up to the operations buffered: each state replaces its object or makes it, the
\* others go, but for the root, and the updates of the objects that were there are told.  What
\* becomes of an object depends on its own state alone, apart from its parents.
CompleteSync(pool, sync) ==
  LET replaced(o) == ReplaceObjectState(pool, sync[o])
  IN  [pool    |-> RebuildParents([o \in {Root} \union DOMAIN sync |->
                                     IF o \in DOMAIN sync THEN replaced(o).pool[o] ELSE pool[o]]),
       updates |-> UNION {replaced(o).updates : o \in DOMAIN sync}]

\* _on_attached without HAS_OBJECTS: only the root stays, empty.
ClearObjects(pool) ==
  LET root == [o \in {Root} |-> pool[o]]
      keys == LiveKeys(pool[Root].data)
  IN  [pool    |-> ClearData(root, Root),
       updates |-> IF keys = {} THEN {} ELSE {Update(Root, keys)}]

\* collect_garbage: what was tombstoned no later than the given time.
Due(x, time) == x.tombstone /\ x.at <= time

CollectEntries(data, time) == [k \in {k \in DOMAIN data : ~Due(data[k], time)} |-> data[k]]

CollectGarbage(pool, time) ==
  [o \in {o \in DOMAIN pool : o = Root \/ ~Due(pool[o], time)} |->
     IF o \in Maps THEN [pool[o] EXCEPT !.data = CollectEntries(@, time)] ELSE pool[o]]

-----------------------------------------------------------------------------
\* Reading.

\* get() of a map: the value of a key, None when there is none, or it is an object that is not
\* there (any more).
Get(pool, m, key) ==
  IF \/ pool[m].tombstone
     \/ key \notin DOMAIN pool[m].data
     \/ EntryTombstoned(pool, pool[m].data[key])
     \/ pool[m].data[key].value \in Ids \ DOMAIN pool
  THEN None
  ELSE pool[m].data[key].value

=============================================================================
