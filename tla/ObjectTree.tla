------------------------------ MODULE ObjectTree ------------------------------
(***************************************************************************)
(* One replica of the objects of a channel.  The operations of every site   *)
(* reach it in the order of the site, those of different sites in any       *)
(* order, some of them twice; syncs, tombstone collection and the loss of   *)
(* the attachment come in between.  Whatever the order, it shows what the   *)
(* operations mean (ObjectMeaning), the parents it keeps for every object   *)
(* lead to it as the entries do, and who listens to a path is told when     *)
(* what is there changes.                                                   *)
(***************************************************************************)
EXTENDS ObjectMeaning, Sequences

CONSTANTS
  Keys,       \* the keys of maps
  Templates,  \* what operations may do: an action, its object and its payload
  MaxOps,     \* how many operations are made
  MaxEvents   \* how many syncs, collections, losses and repeated operations there are

\* The entries a map is made with have no serial of their own.
IsInitial(entry) == entry = RemovedEntry(0) \/ entry = Entry(entry.value, 0)

\* What may be done to an object of its kind.
IsTemplate(t) ==
  /\ t.object \in Ids
  /\ \/ /\ t.action = "create" /\ t.object \in Maps
        /\ t = [action |-> "create", object |-> t.object, entries |-> t.entries]
        /\ t.entries = [k \in Keys \cap DOMAIN t.entries |-> t.entries[k]]
        /\ \A k \in DOMAIN t.entries : IsInitial(t.entries[k])
     \/ /\ t.action = "set" /\ t.object \in Maps
        /\ t = [action |-> "set", object |-> t.object, key |-> t.key, value |-> t.value]
        /\ t.key \in Keys
     \/ /\ t.action = "remove" /\ t.object \in Maps
        /\ t = [action |-> "remove", object |-> t.object, key |-> t.key]
        /\ t.key \in Keys
     \/ /\ t.action = "clear" /\ t.object \in Maps
        /\ t = [action |-> "clear", object |-> t.object]
     \/ /\ t.action = "create" /\ t.object \in Counters
        /\ t = [action |-> "create", object |-> t.object, entries |-> <<>>, amount |-> t.amount]
        /\ t.amount \in Int
     \/ /\ t.action = "inc" /\ t.object \in Counters
        /\ t = [action |-> "inc", object |-> t.object, amount |-> t.amount]
        /\ t.amount \in Int
     \/ t = [action |-> "delete", object |-> t.object]

ASSUME TemplatesAssumption == \A t \in Templates : IsTemplate(t)
\* The operation that does what a template says.
Operation(t, site, serial) == Over(t, [site |-> site, serial |-> serial])

ASSUME MaxOpsAssumption == MaxOps \in Nat
ASSUME OperationsAssumption ==
  \A t \in Templates, site \in Sites, i \in 1..MaxOps : Operation(t, site, i) # None
ASSUME MapsAssumption == IsFiniteSet(Maps)

VARIABLES
  log,       \* the operations the sites make, by serial
  pool,      \* ObjectsPool
  received,  \* the operations the pool stands for
  cleared,   \* the data is gone with the attachment, until the next sync
  collected, \* the time up to which tombstones were collected
  heard,     \* the paths whose listeners the last step called
  bySync,    \* whether the last step applied a sync
  events

vars == <<log, pool, received, cleared, collected, heard, bySync, events>>

Ops == {log[i] : i \in DOMAIN log}

\* What the sites may do: each operation takes its serial from its place, and an object is
\* made once, before anything is done to it.
Logs ==
  {[i \in 1..MaxOps |-> Operation(template[i], site[i], i)] :
     template \in {t \in [1..MaxOps -> Templates] :
                     \A i, j \in 1..MaxOps :
                        i < j /\ t[j].action = "create" => t[i].object # t[j].object},
     site \in [1..MaxOps -> Sites]}

\* Whether an operation is older than a time, or mentions an object deleted by then.
Expired(op, time) ==
  \/ op.serial <= time
  \/ \E o \in Mentioned(op) : Deleted(Ops, o) /\ DeletedAt(Ops, o) <= time

-----------------------------------------------------------------------------
\* Paths.

Paths == UNION {[1..n -> Keys] : n \in 0..Cardinality(Maps)}

\* get_full_paths: every way up from an object to the root that meets no object twice.
FullPaths(p, o) ==
  {path \in Paths :
     \E q \in [1..Len(path) -> Maps \cap DOMAIN p] :
        LET way == Append(q, o)
        IN  /\ way[1] = Root
            /\ Cardinality({way[i] : i \in DOMAIN way}) = Len(way)
            /\ \A i \in DOMAIN path : <<way[i], path[i]>> \in p[way[i + 1]].parents}

\* The ids met on the way down a path, None once there is no object.
Walk(p, path) ==
  LET at[i \in 0..Len(path)] ==
        IF i = 0 THEN Root
        ELSE IF at[i - 1] \in Maps \cap DOMAIN p THEN Get(p, at[i - 1], path[i]) ELSE None
  IN  at

\* What a PathObject resolves to, with the count of a counter.
ValueAt(p, path) ==
  LET v == Walk(p, path)[Len(path)]
  IN  IF v \in Counters \cap DOMAIN p THEN <<v, p[v].data>> ELSE <<v>>

\* Mutant of Candidates: the keys that changed are not looked at.
CandidatesOfObject(p, update) == FullPaths(p, update.object)

\* covers(), of a subscription of depth 1: it hears of exactly its path.
\* dispatch(): the paths of the object updated, and those of the keys changed.
Candidates(p, update) ==
  LET paths == FullPaths(p, update.object)
  IN  paths \union {Append(path, k) : path \in paths, k \in update.keys}

Dispatch(p, updates) == UNION {Candidates(p, u) : u \in updates}

-----------------------------------------------------------------------------
Init ==
  /\ log \in Logs
  /\ pool = EmptyPool
  /\ received = {}
  /\ cleared = FALSE
  /\ collected = 0
  /\ heard = {}
  /\ bySync = FALSE
  /\ events = 0

Event == events < MaxEvents /\ events' = events + 1

Quiet == heard' = {} /\ bySync' = FALSE

Receive(op) ==
  LET result == ApplyOperation(pool, op, "channel")
  IN  /\ pool' = result.pool
      /\ heard' = Dispatch(result.pool, result.updates)
      /\ bySync' = FALSE
      /\ received' = received \union {op}

\* The next operation of some site.
Deliver ==
  /\ \E op \in Ops \ received :
        /\ \A before \in Ops : before.site = op.site /\ before.serial < op.serial => before \in received
        /\ Receive(op)
  /\ UNCHANGED <<log, cleared, collected, events>>

\* An operation received before, while the connection was being resumed or during a sync.
DeliverAgain ==
  /\ Event
  /\ \E op \in received : ~Expired(op, collected) /\ Receive(op)
  /\ UNCHANGED <<log, cleared, collected>>

\* What the service knows when it answers a sync.
Synced(ops) == [o \in Known(ops) |-> StateOf(ops, o, Keys)]

\* A sync that holds at least what was received. What comes with no objects comes as an ATTACHED
\* that says so.
Sync ==
  /\ IF cleared THEN UNCHANGED events ELSE Event
  /\ \E ops \in {received \union {op \in Ops : op.serial <= n} : n \in 0..Len(log)} :
       LET bare   == IF ops = {} THEN ClearObjects(pool) ELSE Noop(pool)
           result == CompleteSync(bare.pool, IF ops = {} THEN <<>> ELSE Synced(ops))
       IN  /\ pool' = result.pool
           /\ heard' = Dispatch(bare.pool, bare.updates) \union Dispatch(result.pool, result.updates)
           /\ received' = ops
  /\ cleared' = FALSE
  /\ bySync' = TRUE
  /\ UNCHANGED <<log, collected>>

\* The channel is DETACHED or FAILED: the data of every object goes.
Clear ==
  /\ ~cleared
  /\ Event
  /\ cleared' = TRUE
  /\ pool' = ClearAllData(pool)
  /\ Quiet
  /\ UNCHANGED <<log, received, collected>>

\* The grace period of the tombstones up to some time is over; it is longer than any delivery.
Collect ==
  /\ Event
  /\ \E time \in 1..Len(log) :
        /\ time > collected
        /\ \A op \in Ops \ received : ~Expired(op, time)
        /\ collected' = time
        /\ pool' = CollectGarbage(pool, time)
  /\ Quiet
  /\ UNCHANGED <<log, received, cleared>>

Next == Deliver \/ DeliverAgain \/ Sync \/ Clear \/ Collect

Spec == Init /\ [][Next]_vars

-----------------------------------------------------------------------------
Objects == [data : {0}, siteSerials : [Sites -> Nat], merged : BOOLEAN, tombstone : BOOLEAN,
            at : Nat, clear : Nat, parents : SUBSET (Maps \X Keys)]

\* The pool holds the root and only objects with parents that are maps, and the serials of a
\* site never exceed those of the operations made.
TypeOK ==
  /\ Root \in DOMAIN pool /\ DOMAIN pool \subseteq Ids
  /\ \A o \in DOMAIN pool : [pool[o] EXCEPT !.data = 0] \in Objects
  /\ \A o \in DOMAIN pool, s \in Sites : pool[o].siteSerials[s] <= Len(log)
  /\ collected <= Len(log)

\* Strong convergence of the counters and maps: the pool shows of every object what the
\* operations received mean, in whatever order and however often they came, and whatever syncs
\* and collections came between.
ShowsWhatItReceived ==
  ~cleared => \A o \in Ids : Shown(pool, o) = Meaning(received, o, Keys)

\* The parents of the objects and the entries of the maps are one graph: an object that is not
\* tombstoned is found on its way up by exactly the paths that lead down to it and meet no
\* object twice.
PathsLeadBack ==
  \A o \in DOMAIN pool : ~pool[o].tombstone =>
     FullPaths(pool, o) =
        {path \in Paths :
           LET way == Walk(pool, path)
           IN  /\ way[Len(path)] = o
               /\ Cardinality({way[i] : i \in DOMAIN way}) = Len(path) + 1}

\* The paths of one key: what is there is told whenever an operation changes it.
OperationsAreHeard ==
  [][\A k \in Keys : (ValueAt(pool, <<k>>)' # ValueAt(pool, <<k>>) /\ ~bySync' /\ ~cleared')
                       => <<k>> \in heard']_vars

\* "calls listener for changes at this path": also when a sync brings the change.
ChangesAreHeard ==
  [][\A k \in Keys : (ValueAt(pool, <<k>>)' # ValueAt(pool, <<k>>) /\ ~cleared')
                       => <<k>> \in heard']_vars

=============================================================================
