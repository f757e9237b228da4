-------------------------- MODULE ObjectTree_proofs --------------------------
(***************************************************************************)
(* Proofs about the replica of the objects of a channel, for any maps,      *)
(* counters, keys and sites, and whatever the operations, the syncs, the    *)
(* losses and the collections: the parents and the entries are one graph,   *)
(* listeners are told, and the replica shows what the operations it         *)
(* received mean.                                                           *)
(***************************************************************************)
EXTENDS ObjectTree, WellFoundedInduction, FiniteSetTheorems, SequenceTheorems, TLAPS

-----------------------------------------------------------------------------
(* What a pool is.                                                         *)

\* What entries may hold.
Values ==
  {None} \union {t.value : t \in {t \in Templates : t.action = "set"}}
    \union UNION {{t.entries[k].value : k \in DOMAIN t.entries} :
                    t \in {t \in Templates : t.action = "create"}}

\* The entries of maps.
Entries == {RemovedEntry(n) : n \in Nat} \union {Entry(v, n) : v \in Values, n \in Nat}

\* The data of a map.
MapData == UNION {[D -> Entries] : D \in SUBSET Keys}

\* An object.
Replicas(o) ==
  [data : IF o \in Counters THEN Int ELSE MapData, siteSerials : [Sites -> 0..MaxOps],
   merged : BOOLEAN, tombstone : BOOLEAN, at : Nat, clear : Nat, parents : SUBSET (Maps \X Keys)]

\* A pool of objects that has the root.
IsPool(p) ==
  /\ p = [o \in DOMAIN p |-> p[o]]
  /\ Root \in DOMAIN p /\ DOMAIN p \subseteq Ids
  /\ \A o \in DOMAIN p : p[o] \in Replicas(o)

\* An entry of a map references an object.
Refers(p, m, k, o) == m \in DOMAIN p /\ k \in DOMAIN p[m].data /\ p[m].data[k].value = o

\* The parents of an object are where it is referenced; a tombstoned one may have lost some.
Linked(p) ==
  \A o \in DOMAIN p, m \in Maps, k \in Keys :
    /\ <<m, k>> \in p[o].parents => Refers(p, m, k, o)
    /\ Refers(p, m, k, o) /\ ~p[o].tombstone => <<m, k>> \in p[o].parents

\* The objects that are referenced and not there.
Dangling(p) == {o \in Ids \ DOMAIN p : \E m \in Maps, k \in Keys : Refers(p, m, k, o)}

\* What is tombstoned is empty, and not the root.
Buried(p) ==
  \A o \in DOMAIN p : p[o].tombstone => o # Root /\ p[o].data = NewObject(o).data

\* What every operation on a pool keeps.
Sound(p) == IsPool(p) /\ Linked(p) /\ Buried(p)

-----------------------------------------------------------------------------
(* The invariant of the graph.                                             *)

\* The types of the variables beside the pool.
Typed == log \in Logs /\ received \subseteq Ops /\ cleared \in BOOLEAN /\ collected \in 0..MaxOps

\* A deleted object whose tombstone has been collected.
Gone(o) == Deleted(Ops, o) /\ DeletedAt(Ops, o) <= collected

\* What is referenced and not there was deleted, and its tombstone collected.
DanglingGone == \A o \in Dangling(pool) : Gone(o)

\* A tombstone is not older than the deletion it stands for.
TombDeleted ==
  \A o \in DOMAIN pool :
    pool[o].tombstone => Deleted(Ops, o) /\ DeletedAt(Ops, o) <= pool[o].at

\* What is yet to come is not about anything that was collected.
Undelivered == \A op \in Ops \ received : ~Expired(op, collected)

\* The pool is sound, and what it misses can no longer be asked for.
GraphInv == Typed /\ Sound(pool) /\ DanglingGone /\ TombDeleted /\ Undelivered

-----------------------------------------------------------------------------
(* The invariant of what the objects mean.                                 *)

\* An object that operations received were done to is there, or its tombstone was collected.
KnownHere == \A op \in received : op.object \in DOMAIN pool \/ Gone(op.object)

\* Of every site the first operations were received.
SitePrefix ==
  \A op \in received, before \in Ops :
    before.site = op.site /\ before.serial < op.serial => before \in received

\* An object is no longer there only when its deletion was received.
CollectedDeleted == \A op \in received : op.object \in DOMAIN pool \/ Deleted(received, op.object)

\* The serial of the last operation of a site on an object, 0 when there is none.
IsLastSerial(ops, o, s, n) ==
  /\ n = 0 \/ \E op \in ops : op.object = o /\ op.site = s /\ op.serial = n
  /\ \A op \in ops : op.object = o /\ op.site = s => op.serial <= n

\* The object x has noted the operations on it.
Stands(ops, o, x) ==
  /\ \A s \in Sites : IsLastSerial(ops, o, s, x.siteSerials[s])
  /\ x.tombstone <=> Deleted(ops, o)
  /\ ~x.tombstone => (x.merged <=> On(ops, o, "create") # {})

\* The last of the entries after a clear.
LastOf(clear, entries) ==
  {e \in entries : /\ clear = 0 \/ e.serial > clear
                   /\ \A f \in entries : f.serial <= e.serial}

\* All the entries that operations bring to a key.
EntriesFor(ops, m, k) == Written(ops, m, k) \union Initial(ops, m, k)

\* The entries of a map say what is last of a key, which may be gone up to some time.
KeyHolds(clear, entries, d, k, time) ==
  IF k \in DOMAIN d THEN d[k] \in LastOf(clear, entries)
  ELSE \A e \in LastOf(clear, entries) : e.tombstone /\ e.serial <= time

\* The object x holds what the operations on it leave.
Holds(ops, o, x, time) ==
  ~x.tombstone =>
    /\ o \in Counters => x.data = CounterMeaning(ops, o)
    /\ o \in Maps => /\ x.clear = LastClear(ops, o)
                     /\ \A k \in Keys : KeyHolds(x.clear, EntriesFor(ops, o, k), x.data, k, time)

\* Every object has noted what was received of it.
ObjectsStand == \A o \in DOMAIN pool : Stands(received, o, pool[o])

\* Every object holds what was received of it, while there is an attachment.
ObjectsHold == ~cleared => \A o \in DOMAIN pool : Holds(received, o, pool[o], collected)

\* Every object is where the operations received leave it, and what is missing was deleted.
MeaningInv == KnownHere /\ SitePrefix /\ CollectedDeleted /\ ObjectsStand /\ ObjectsHold

-----------------------------------------------------------------------------
(* Numbers.                                                                *)

\* What holds of 0, and with a number of the next one, holds of all.
LEMMA Induction ==
  ASSUME NEW T \in SUBSET Nat, 0 \in T, \A n \in T : n + 1 \in T
  PROVE  T = Nat
<1> SUFFICES ASSUME T # Nat PROVE FALSE
  OBVIOUS
<1>1. PICK x \in Nat \ T : \A y \in Nat \ T : <<y, x>> \notin OpToRel(<, Nat)
  <2> DEFINE R == OpToRel(<, Nat)
             B == Nat \ T
  <2>1. IsWellFoundedOn(R, Nat)
    BY NatLessThanWellFounded
  <2>2. B \subseteq Nat /\ B # {}
    OBVIOUS
  <2> HIDE DEF R, B
  <2>3. \E x \in B : \A y \in B : ~ (<<y, x>> \in R)
    BY <2>1, <2>2, WFMin, Zenon
  <2> QED
    BY <2>3 DEF R, B
<1>2. x # 0 /\ x - 1 \in Nat
  OBVIOUS
<1>3. <<x - 1, x>> \in OpToRel(<, Nat)
  BY <1>2 DEF OpToRel
<1>4. x - 1 \notin Nat \ T
  BY <1>1, <1>3, Zenon
<1> HIDE <1>3
<1>5. x - 1 \in T /\ x \in Nat /\ x \notin T
  BY <1>2, <1>4
<1>6. x = (x - 1) + 1
  BY <1>5
<1> QED
  BY <1>5, <1>6

\* A set of numbers that is not empty has a least one.
LEMMA Least ==
  ASSUME NEW S \in SUBSET Nat, S # {}
  PROVE  \E x \in S : \A y \in S : x <= y
<1> DEFINE T == {n \in Nat : \A y \in S : n <= y}
<1> SUFFICES ASSUME \A x \in S : \E y \in S : ~(x <= y) PROVE FALSE
  BY Zenon
<1>1. 0 \in T
  OBVIOUS
<1>2. \A n \in T : n + 1 \in T
  <2> SUFFICES ASSUME NEW n \in T, NEW y \in S PROVE n + 1 <= y
    OBVIOUS
  <2>1. n <= y
    OBVIOUS
  <2>2. n # y
    OBVIOUS
  <2> QED
    BY <2>1, <2>2
<1>3. T = Nat
  <2> HIDE DEF T
  <2>1. T \subseteq Nat
    BY DEF T
  <2> QED
    BY <1>1, <1>2, <2>1, Induction
<1>4. PICK y \in S : TRUE
  OBVIOUS
<1>5. y + 1 \in T
  BY <1>3
<1> QED
  BY <1>4, <1>5

\* The least number of a set.
LEMMA MinIs ==
  ASSUME NEW S \in SUBSET Nat, S # {}
  PROVE  Min(S) \in S /\ \A y \in S : Min(S) <= y
<1>1. \E x \in S : \A y \in S : x =< y
  BY Least
<1> QED
  BY <1>1, Zenon DEF Min

\* One that is bounded has a greatest one.
LEMMA MaxIs ==
  ASSUME NEW N \in Nat, NEW S \in SUBSET (0..N), S # {}
  PROVE  Max(S) \in S /\ \A y \in S : y <= Max(S)
<1> DEFINE R == {N - x : x \in S}
<1>0. \A x \in S : x \in 0..N /\ N - x \in Nat
  OBVIOUS
<1>1. R \subseteq Nat /\ R # {}
  BY <1>0
<1>2. PICK r \in R : \A q \in R : r <= q
  <2> HIDE DEF R
  <2> QED
    BY <1>1, Least
<1>3. PICK x \in S : r = N - x
  OBVIOUS
<1>4. \A y \in S : x >= y
  <2> TAKE y \in S
  <2>1. N - y \in R
    OBVIOUS
  <2>2. N - x <= N - y
    BY <1>2, <1>3, <2>1
  <2> QED
    BY <2>2
<1>5. Max(S) \in S /\ \A y \in S : Max(S) >= y
  BY <1>4, Zenon DEF Max
<1> QED
  BY <1>5

-----------------------------------------------------------------------------
(* The operators on pools, when these are functions of records.            *)

\* The function h is f before g.
Overs(f, g, h) ==
  /\ DOMAIN h = DOMAIN f \union DOMAIN g /\ h = [x \in DOMAIN h |-> h[x]]
  /\ \A x \in DOMAIN f : h[x] = f[x]
  /\ \A x \in DOMAIN g \ DOMAIN f : h[x] = g[x]

\* Two dicts in one are what Overs says.
LEMMA OverIs ==
  ASSUME NEW f, NEW g
  PROVE  Overs(f, g, Over(f, g))
  BY DEF Over, Overs

\* An entry that is tombstoned holds nothing, and was removed when it was written.
LEMMA EntryIs ==
  ASSUME NEW e \in Entries
  PROVE  /\ e.serial \in Nat /\ e.tombstone \in BOOLEAN /\ e.at \in Nat
         /\ e.tombstone => e = RemovedEntry(e.serial) /\ e.value = None /\ e.at = e.serial
         /\ ~e.tombstone => e = Entry(e.value, e.serial) /\ e.at = 0
<1>1. CASE \E n \in Nat : e = RemovedEntry(n)
  BY <1>1 DEF RemovedEntry
<1>2. CASE \E v \in Values, n \in Nat : e = Entry(v, n)
  BY <1>2 DEF Entry
<1> QED
  BY <1>1, <1>2 DEF Entries

\* The data of a map is entries by key.
LEMMA MapDataIs ==
  ASSUME NEW d \in MapData
  PROVE  /\ DOMAIN d \subseteq Keys /\ d \in [DOMAIN d -> Entries]
         /\ \A k \in DOMAIN d : d[k] \in Entries
  BY DEF MapData

\* New entries over old ones are data of a map,
LEMMA MapDataOver ==
  ASSUME NEW d \in MapData, NEW e \in MapData
  PROVE  Over(d, e) \in MapData
<1> DEFINE D == DOMAIN d \union DOMAIN e
<1>1. D \subseteq Keys
  BY MapDataIs
<1>2. Over(d, e) \in [D -> Entries]
  BY MapDataIs DEF Over
<1> QED
  BY <1>1, <1>2 DEF MapData

\* and so are some of the entries,
LEMMA MapDataPart ==
  ASSUME NEW d \in MapData, NEW D \in SUBSET DOMAIN d
  PROVE  [k \in D |-> d[k]] \in MapData
<1>1. D \subseteq Keys /\ [k \in D |-> d[k]] \in [D -> Entries]
  BY MapDataIs
<1> QED
  BY <1>1 DEF MapData

\* and none at all;
LEMMA MapDataEmpty == <<>> \in MapData /\ DOMAIN <<>> = {}
<1>1. DOMAIN <<>> = {} /\ <<>> \in [{} -> Entries]
  OBVIOUS
<1> QED
  BY <1>1 DEF MapData

\* there is one data without entries.
LEMMA MapDataNone ==
  ASSUME NEW d \in MapData, DOMAIN d = {}
  PROVE  d = <<>>
<1>1. d = [k \in {} |-> d[k]]
  BY MapDataIs
<1>2. <<>> = [k \in {} |-> d[k]]
  OBVIOUS
<1> QED
  BY <1>1, <1>2

\* A pool's objects.
LEMMA PoolIs ==
  ASSUME NEW p, IsPool(p), NEW o \in DOMAIN p
  PROVE  /\ o \in Ids /\ p[o] \in Replicas(o)
         /\ o \in Counters => p[o].data \in Int
         /\ o \in Maps => p[o].data \in MapData
  BY RootAssumption DEF IsPool, Replicas, Ids

\* A new object is an object.
LEMMA NewObjectIs ==
  ASSUME NEW o \in Ids
  PROVE  NewObject(o) \in Replicas(o)
<1>1. (IF o \in Counters THEN 0 ELSE <<>>) \in (IF o \in Counters THEN Int ELSE MapData)
  BY MapDataEmpty
<1>2. [s \in Sites |-> 0] \in [Sites -> 0..MaxOps]
  BY MaxOpsAssumption
<1> QED
  BY <1>1, <1>2 DEF NewObject, Replicas

\* An object that is not there counts as a new one.
At(p, o) == IF o \in DOMAIN p THEN p[o] ELSE NewObject(o)

\* The pool q has the objects of p and new ones.
Makes(p, ids, q) ==
  /\ IsPool(q) /\ DOMAIN q = DOMAIN p \union ids
  /\ \A o \in DOMAIN q : q[o] = At(p, o)

\* CreateZeroValues makes the objects that are not there.
LEMMA ZeroIs ==
  ASSUME NEW p, IsPool(p), NEW ids \in SUBSET Ids
  PROVE  Makes(p, ids, CreateZeroValues(p, ids))
<1>1. \A o \in DOMAIN p \union ids :
        (IF o \in DOMAIN p THEN p[o] ELSE NewObject(o)) \in Replicas(o)
  BY PoolIs, NewObjectIs
<1>2. Root \in DOMAIN p \union ids /\ DOMAIN p \union ids \subseteq Ids
  BY DEF IsPool
<1> QED
  BY <1>1, <1>2 DEF IsPool, CreateZeroValues, Makes, At

\* Two objects differ in what they hold and in their parents at most.
Alike(x, y) ==
  x.siteSerials = y.siteSerials /\ x.merged = y.merged /\ x.tombstone = y.tombstone /\ x.at = y.at

\* They hold the same.
HoldSame(x, y) == x.data = y.data /\ x.clear = y.clear

\* The objects that entries reference.
Referenced(d) == Ids \cap {d[k].value : k \in DOMAIN d}

\* Some of the keys of a map that reference an object.
PlacesOf(m, keys, d, o) == {<<m, k>> : k \in {k \in keys : d[k].value = o}}

\* The places are parents: the map and one of the keys that reference the object.
LEMMA PlacesIs ==
  ASSUME NEW m \in Maps, NEW d, NEW keys \in SUBSET Keys, NEW o
  PROVE  /\ PlacesOf(m, keys, d, o) \subseteq Maps \X Keys
         /\ \A n \in Maps, k \in Keys :
              <<n, k>> \in PlacesOf(m, keys, d, o) <=> n = m /\ k \in keys /\ d[k].value = o
  BY DEF PlacesOf

\* The pool q comes from p by what some keys of a map reference losing these parents.
Releases(p, m, keys, q) ==
  /\ IsPool(q) /\ DOMAIN q = DOMAIN p
  /\ \A o \in DOMAIN p :
       /\ Alike(q[o], p[o]) /\ HoldSame(q[o], p[o])
       /\ q[o].parents = p[o].parents \ PlacesOf(m, keys, p[m].data, o)

\* ReleaseReferences releases what the keys reference.
LEMMA ReleaseIs ==
  ASSUME NEW p, IsPool(p), NEW m \in Maps, m \in DOMAIN p, NEW keys \in SUBSET DOMAIN p[m].data
  PROVE  Releases(p, m, keys, ReleaseReferences(p, m, keys))
<1> DEFINE f(o) == [p[o] EXCEPT !.parents = @ \ PlacesOf(m, keys, p[m].data, o)]
<1>1. ASSUME NEW o \in DOMAIN p PROVE f(o) \in Replicas(o)
  <2>1. p[o] \in Replicas(o)
    BY PoolIs
  <2> QED
    BY <2>1 DEF Replicas
<1>2. ReleaseReferences(p, m, keys) = [o \in DOMAIN p |-> f(o)]
  BY Zenon DEF ReleaseReferences, PlacesOf
<1>3. \A o \in DOMAIN p : /\ Alike(f(o), p[o]) /\ HoldSame(f(o), p[o])
                        /\ f(o).parents = p[o].parents \ PlacesOf(m, keys, p[m].data, o)
  BY PoolIs DEF Replicas, Alike, HoldSame
<1> QED
  BY <1>1, <1>2, <1>3, ZenonT(60) DEF IsPool, Releases

\* The pool q comes from p by what new entries of a map reference getting these parents.
Adds(p, m, d, q) ==
  /\ IsPool(q) /\ DOMAIN q = DOMAIN p \union Referenced(d)
  /\ \A o \in DOMAIN q :
       /\ Alike(q[o], At(p, o)) /\ HoldSame(q[o], At(p, o))
       /\ q[o].parents = At(p, o).parents \union PlacesOf(m, DOMAIN d, d, o)

\* AddReferences gives what entries reference its parents.
LEMMA AddIs ==
  ASSUME NEW p, IsPool(p), NEW m \in Maps, NEW d \in MapData
  PROVE  Adds(p, m, d, AddReferences(p, m, d))
<1> DEFINE ids == Referenced(d)
           z == CreateZeroValues(p, ids)
           f(o) == [z[o] EXCEPT !.parents = @ \union PlacesOf(m, DOMAIN d, d, o)]
<1>1. IsPool(z) /\ DOMAIN z = DOMAIN p \union ids /\ \A o \in DOMAIN z : z[o] = At(p, o)
  <2> HIDE DEF ids
  <2>1. ids \in SUBSET Ids
    BY DEF ids, Referenced
  <2> QED
    BY <2>1, ZeroIs DEF Makes
<1>2. AddReferences(p, m, d) = [o \in DOMAIN z |-> f(o)]
  BY Zenon DEF AddReferences, PlacesOf, Referenced
<1> HIDE DEF z, ids
<1>3. ASSUME NEW o \in DOMAIN z PROVE f(o) \in Replicas(o)
  <2>1. z[o] \in Replicas(o)
    BY <1>1, PoolIs
  <2>2. DOMAIN d \in SUBSET Keys
    BY MapDataIs
  <2>3. PlacesOf(m, DOMAIN d, d, o) \subseteq Maps \X Keys
    BY <2>2, PlacesIs
  <2> QED
    BY <2>1, <2>3 DEF Replicas
<1>4. IsPool([o \in DOMAIN z |-> f(o)])
  BY <1>1, <1>3 DEF IsPool
<1>5. ASSUME NEW o \in DOMAIN z
      PROVE  /\ Alike(f(o), At(p, o)) /\ HoldSame(f(o), At(p, o))
             /\ f(o).parents = At(p, o).parents \union PlacesOf(m, DOMAIN d, d, o)
  <2>1. z[o] \in Replicas(o) /\ z[o] = At(p, o)
    BY <1>1, PoolIs
  <2> QED
    BY <2>1 DEF Replicas, Alike, HoldSame
<1> QED
  BY <1>1, <1>2, <1>4, <1>5 DEF ids, Adds

\* What counts as an object is one.
LEMMA AtIs ==
  ASSUME NEW p, IsPool(p), NEW o \in Ids
  PROVE  At(p, o) \in Replicas(o)
  BY PoolIs, NewObjectIs DEF At

\* The pool q comes from p by writing entries to a map.
Writes(p, m, d, q) ==
  /\ IsPool(q) /\ DOMAIN q = DOMAIN p \union Referenced(d)
  /\ \A o \in DOMAIN q :
       /\ Alike(q[o], At(p, o)) /\ q[o].clear = At(p, o).clear
       /\ q[o].data = IF o = m THEN Over(d, p[m].data) ELSE At(p, o).data
  /\ \A o \in DOMAIN q, n \in Maps, k \in Keys :
       <<n, k>> \in q[o].parents <=>
         \/ /\ <<n, k>> \in At(p, o).parents
            /\ ~(n = m /\ k \in DOMAIN d \cap DOMAIN p[m].data /\ p[m].data[k].value = o)
         \/ n = m /\ k \in DOMAIN d /\ d[k].value = o

\* WriteEntries writes the entries, and moves the parents with them.
LEMMA WriteIs ==
  ASSUME NEW p, IsPool(p), NEW m \in Maps, m \in DOMAIN p, NEW d \in MapData
  PROVE  Writes(p, m, d, WriteEntries(p, m, d))
<1> DEFINE ids == Referenced(d)
           keys == DOMAIN d \cap DOMAIN p[m].data
           r == ReleaseReferences(p, m, keys)
           a == AddReferences(r, m, d)
           q == WriteEntries(p, m, d)
<1>0. q = [a EXCEPT ![m].data = Over(d, @)]
  BY Zenon DEF WriteEntries
<1>1. Releases(p, m, keys, r)
  <2>1. keys \in SUBSET DOMAIN p[m].data
    OBVIOUS
  <2> HIDE DEF q, a, keys, ids
  <2> QED
    BY <2>1, ReleaseIs
<1>2. p[m].data \in MapData /\ keys \in SUBSET Keys /\ DOMAIN d \in SUBSET Keys
  BY PoolIs, MapDataIs
<1> HIDE DEF r
<1>3. Adds(r, m, d, a)
  <2>1. IsPool(r)
    BY <1>1 DEF Releases
  <2> HIDE DEF q, keys
  <2> QED
    BY <2>1, AddIs
<1> HIDE DEF a, q
<1>4. /\ m \in DOMAIN a /\ m \in Ids /\ DOMAIN r = DOMAIN p /\ DOMAIN a = DOMAIN p \union ids
      /\ IsPool(a)
  BY <1>1, <1>3, PoolIs DEF Releases, Adds
<1>5. DOMAIN q = DOMAIN a
  BY <1>0
<1>6. \A o \in DOMAIN a : a[o] \in Replicas(o) /\ o \in Ids
  BY <1>4, PoolIs
<1>7. \A o \in DOMAIN a : q[o] = IF o = m THEN [a[m] EXCEPT !.data = Over(d, @)] ELSE a[o]
  BY <1>0, <1>4 DEF IsPool
<1> HIDE DEF ids, keys
<1>8. ASSUME NEW o \in DOMAIN a
      PROVE  /\ HoldSame(a[o], At(p, o)) /\ Alike(a[o], At(p, o))
             /\ a[o].parents = (At(p, o).parents
                                \ (IF o \in DOMAIN p THEN PlacesOf(m, keys, p[m].data, o) ELSE {}))
                                 \union PlacesOf(m, DOMAIN d, d, o)
  <2>1. CASE o \in DOMAIN p
    <3>1. At(p, o) = p[o] /\ At(r, o) = r[o]
      BY <1>4, <2>1 DEF At
    <3> QED
      BY <1>1, <1>3, <2>1, <3>1 DEF Alike, HoldSame, Releases, Adds
  <2>2. CASE o \notin DOMAIN p
    <3>1. At(p, o) = At(r, o)
      BY <1>4, <2>2 DEF At
    <3> QED
      BY <1>3, <2>2, <3>1 DEF HoldSame, Adds
  <2> QED
    BY <2>1, <2>2
<1>9. \A o \in DOMAIN q :
        Alike(q[o], a[o]) /\ q[o].clear = a[o].clear /\ q[o].parents = a[o].parents
                          /\ q[o].data = IF o = m THEN Over(d, a[m].data) ELSE a[o].data
  BY <1>5, <1>6, <1>7 DEF Replicas, Alike
<1>10. a[m].data = p[m].data
  BY <1>4, <1>8 DEF At, HoldSame
<1>11. IsPool(q)
  <2>1. ASSUME NEW o \in DOMAIN q PROVE q[o] \in Replicas(o)
    <3>1. CASE o # m
      BY <1>5, <1>6, <1>7, <3>1
    <3>2. CASE o = m
      <4>1. a[m] \in Replicas(m) /\ m \notin Counters
        BY <1>4, <1>6, RootAssumption
      <4>2. Over(d, a[m].data) \in MapData
        BY <1>2, <1>10, MapDataOver
      <4> QED
        BY <1>5, <1>7, <3>2, <4>1, <4>2 DEF Replicas
    <3> QED
      BY <3>1, <3>2
  <2>2. q = [o \in DOMAIN q |-> q[o]]
    BY <1>0
  <2> QED
    BY <1>4, <1>5, <2>1, <2>2 DEF IsPool
<1>12. \A o \in DOMAIN q : Alike(q[o], At(p, o)) /\ q[o].clear = At(p, o).clear
  BY <1>5, <1>8, <1>9 DEF Alike, HoldSame
<1>13. \A o \in DOMAIN q : q[o].data = IF o = m THEN Over(d, p[m].data) ELSE At(p, o).data
  BY <1>5, <1>8, <1>9, <1>10 DEF HoldSame
<1>14. ASSUME NEW o \in DOMAIN q, NEW n \in Maps, NEW k \in Keys
       PROVE  <<n, k>> \in q[o].parents <=>
                    \/ /\ <<n, k>> \in At(p, o).parents
                       /\ ~(n = m /\ k \in keys /\ p[m].data[k].value = o)
                    \/ n = m /\ k \in DOMAIN d /\ d[k].value = o
  <2>1. /\ <<n, k>> \in PlacesOf(m, keys, p[m].data, o)
             <=> n = m /\ k \in keys /\ p[m].data[k].value = o
        /\ <<n, k>> \in PlacesOf(m, DOMAIN d, d, o) <=> n = m /\ k \in DOMAIN d /\ d[k].value = o
    BY <1>2, PlacesIs
  <2>2. CASE o \in DOMAIN p
    BY <1>5, <1>8, <1>9, <2>1, <2>2
  <2>3. CASE o \notin DOMAIN p
    <3>1. At(p, o).parents = {}
      BY <2>3 DEF At, NewObject
    <3> QED
      BY <1>5, <1>8, <1>9, <2>1, <2>3, <3>1
  <2> QED
    BY <2>2, <2>3
<1> QED
  BY <1>4, <1>5, <1>11, <1>12, <1>13, <1>14 DEF Writes, q, ids, keys

\* A new map is empty.
LEMMA NewMap ==
  ASSUME NEW m \in Maps
  PROVE  NewObject(m).data = <<>> /\ DOMAIN NewObject(m).data = {} /\ m \in Ids /\ m \notin Counters
  BY RootAssumption, MapDataEmpty DEF NewObject, Ids

\* Writing entries keeps a pool sound, and misses nothing that was not missed.
LEMMA WriteSound ==
  ASSUME NEW p, Sound(p), NEW m \in Maps, m \in DOMAIN p, NEW d \in MapData,
         ~p[m].tombstone, Referenced(d) \cap Dangling(p) = {}
  PROVE  LET q == WriteEntries(p, m, d)
         IN  Sound(q) /\ Dangling(q) \subseteq Dangling(p)
<1> DEFINE q == WriteEntries(p, m, d)
<1>1. Writes(p, m, d, q)
  BY WriteIs DEF Sound
<1> HIDE DEF q
<1>2. ASSUME NEW o \in Ids, NEW n \in Maps, NEW k \in Keys
      PROVE  Refers(q, n, k, o) <=> \/ n = m /\ k \in DOMAIN d /\ d[k].value = o
                                    \/ ~(n = m /\ k \in DOMAIN d) /\ Refers(p, n, k, o)
  <2>1. CASE n = m
    <3>1. q[m].data = Over(d, p[m].data) /\ m \in DOMAIN q
      BY <1>1 DEF Writes
    <3>2. m \in DOMAIN p
      OBVIOUS
    <3>3. DOMAIN q[m].data = DOMAIN d \union DOMAIN p[m].data
          /\ (\A x \in DOMAIN d : q[m].data[x] = d[x])
          /\ \A x \in DOMAIN p[m].data \ DOMAIN d : q[m].data[x] = p[m].data[x]
      <4>1. Overs(d, p[m].data, q[m].data)
        BY <3>1, OverIs
      <4> QED
        BY <4>1 DEF Overs
    <3>4. CASE k \in DOMAIN d
      BY <2>1, <3>1, <3>2, <3>3, <3>4 DEF Refers
    <3>5. CASE k \notin DOMAIN d
      BY <2>1, <3>1, <3>2, <3>3, <3>5 DEF Refers
    <3> QED
      BY <3>4, <3>5
  <2>2. CASE n # m /\ n \in DOMAIN p
    <3>1. q[n].data = p[n].data /\ n \in DOMAIN q
      BY <1>1, <2>2 DEF At, Writes
    <3> QED
      BY <2>2, <3>1 DEF Refers
  <2>3. CASE n # m /\ n \notin DOMAIN p
    <3>1. n \in DOMAIN q => DOMAIN q[n].data = {}
      BY <1>1, <2>3, NewMap DEF At, Writes
    <3> QED
      BY <2>3, <3>1 DEF Refers
  <2> QED
    BY <2>1, <2>2, <2>3
<1>3. Linked(q)
  <2> SUFFICES ASSUME NEW o \in DOMAIN q, NEW n \in Maps, NEW k \in Keys
               PROVE  /\ <<n, k>> \in q[o].parents => Refers(q, n, k, o)
                      /\ Refers(q, n, k, o) /\ ~q[o].tombstone => <<n, k>> \in q[o].parents
    BY Zenon DEF Linked
  <2>1. o \in Ids /\ q[o].tombstone = At(p, o).tombstone
    BY <1>1, PoolIs DEF Alike, Writes
  <2>2. CASE o \in DOMAIN p
    <3>1. At(p, o) = p[o]
      BY <2>2 DEF At
    <3>2. /\ <<n, k>> \in p[o].parents => Refers(p, n, k, o)
          /\ Refers(p, n, k, o) /\ ~p[o].tombstone => <<n, k>> \in p[o].parents
      BY <2>2 DEF Sound, Linked
    <3>3. Refers(p, n, k, o) /\ n = m => k \in DOMAIN p[m].data /\ p[m].data[k].value = o
      BY DEF Refers
    <3> QED
      BY <1>1, <1>2, <2>1, <3>1, <3>2, <3>3 DEF Writes
  <2>3. CASE o \notin DOMAIN p
    <3>1. At(p, o).parents = {} /\ o \in Referenced(d)
      BY <1>1, <2>3 DEF At, NewObject, Writes
    <3>2. ~Refers(p, n, k, o)
      BY <2>1, <2>3, <3>1 DEF Dangling
    <3> QED
      BY <1>1, <1>2, <2>1, <3>1, <3>2 DEF Writes
  <2> QED
    BY <2>2, <2>3
<1>4. Buried(q)
  <2> SUFFICES ASSUME NEW o \in DOMAIN q, q[o].tombstone
               PROVE  o # Root /\ q[o].data = NewObject(o).data
    BY DEF Buried
  <2>1. At(p, o).tombstone /\ q[o].data = IF o = m THEN Over(d, p[m].data) ELSE At(p, o).data
    BY <1>1 DEF Alike, Writes
  <2>2. o \in DOMAIN p /\ At(p, o) = p[o]
    BY <2>1 DEF At, NewObject
  <2>3. o # m
    BY <2>1, <2>2
  <2> QED
    BY <2>1, <2>2, <2>3 DEF Sound, Buried
<1>5. Dangling(q) \subseteq Dangling(p)
  <2> SUFFICES ASSUME NEW o \in Ids \ DOMAIN q, NEW n \in Maps, NEW k \in Keys, Refers(q, n, k, o)
               PROVE  o \in Dangling(p)
    BY DEF Dangling
  <2>1. o \notin Referenced(d) /\ o \notin DOMAIN p
    BY <1>1 DEF Writes
  <2>2. ~(n = m /\ k \in DOMAIN d /\ d[k].value = o)
    BY <2>1 DEF Referenced
  <2> QED
    BY <1>2, <2>1, <2>2 DEF Dangling
<1> QED
  BY <1>1, <1>3, <1>4, <1>5 DEF Sound, q, Writes

\* A map without some of its entries.
Dropped(p, m, keys, clear) ==
  [ReleaseReferences(p, m, keys) EXCEPT
     ![m] = [@ EXCEPT !.clear = clear, !.data = [k \in DOMAIN p[m].data \ keys |-> p[m].data[k]]]]

\* The pool q comes from p by dropping entries of a map.
Drops(p, m, keys, clear, q) ==
  /\ IsPool(q) /\ DOMAIN q = DOMAIN p
  /\ \A o \in DOMAIN p : Alike(q[o], p[o]) /\ (o # m => HoldSame(q[o], p[o]))
  /\ q[m].clear = clear /\ DOMAIN q[m].data = DOMAIN p[m].data \ keys
  /\ \A k \in DOMAIN q[m].data : q[m].data[k] = p[m].data[k]
  /\ \A o \in DOMAIN p, n \in Maps, k \in Keys :
       <<n, k>> \in q[o].parents <=>
         <<n, k>> \in p[o].parents /\ ~(n = m /\ k \in keys /\ p[m].data[k].value = o)

\* Dropped drops the entries, and their parents.
LEMMA DropIs ==
  ASSUME NEW p, IsPool(p), NEW m \in Maps, m \in DOMAIN p, NEW keys \in SUBSET DOMAIN p[m].data,
         NEW clear \in Nat
  PROVE  Drops(p, m, keys, clear, Dropped(p, m, keys, clear))
<1> DEFINE r == ReleaseReferences(p, m, keys)
           d == [k \in DOMAIN p[m].data \ keys |-> p[m].data[k]]
           q == Dropped(p, m, keys, clear)
<1>1. q = [r EXCEPT ![m] = [@ EXCEPT !.clear = clear, !.data = d]]
  BY Zenon DEF Dropped
<1>2. p[m].data \in MapData /\ m \in Maps /\ m \notin Counters /\ m \in DOMAIN p
  BY PoolIs, RootAssumption
<1>3. d \in MapData /\ DOMAIN d = DOMAIN p[m].data \ keys /\ \A k \in DOMAIN d : d[k] = p[m].data[k]
  BY <1>2, MapDataPart
<1>4. keys \in SUBSET Keys
  BY <1>2, MapDataIs
<1> HIDE DEF d, q
<1>5. Releases(p, m, keys, r)
  BY ReleaseIs
<1> HIDE DEF r
<1>6. \A o \in DOMAIN p : r[o] \in Replicas(o) /\ p[o] \in Replicas(o)
  BY <1>5, PoolIs DEF Releases
<1>7. DOMAIN q = DOMAIN p /\ (\A o \in DOMAIN p :
        q[o] = IF o = m THEN [r[m] EXCEPT !.clear = clear, !.data = d] ELSE r[o])
      /\ q = [o \in DOMAIN p |-> q[o]]
  BY <1>1, <1>5 DEF IsPool, Releases
<1>8. q[m].data = d /\ q[m].clear = clear /\ q[m] \in Replicas(m)
      /\ q[m].parents = r[m].parents /\ Alike(q[m], p[m])
  <2>1. /\ r[m] \in Replicas(m) /\ p[m] \in Replicas(m)
        /\ q[m] = [r[m] EXCEPT !.clear = clear, !.data = d]
    BY <1>2, <1>6, <1>7
  <2>2. Alike(r[m], p[m])
    BY <1>2, <1>5 DEF Releases
  <2> QED
    BY <1>2, <1>3, <2>1, <2>2 DEF Replicas, Alike
<1>9. IsPool(q)
  <2>1. \A o \in DOMAIN p : q[o] \in Replicas(o)
    BY <1>6, <1>7, <1>8
  <2> QED
    BY <1>7, <2>1 DEF IsPool
<1>10. ASSUME NEW o \in DOMAIN p, NEW n \in Maps, NEW k \in Keys
       PROVE  <<n, k>> \in q[o].parents
                <=> <<n, k>> \in p[o].parents /\ ~(n = m /\ k \in keys /\ p[m].data[k].value = o)
  <2>1. <<n, k>> \in PlacesOf(m, keys, p[m].data, o)
          <=> n = m /\ k \in keys /\ p[m].data[k].value = o
    BY <1>2, <1>4, PlacesIs
  <2>2. q[o].parents = p[o].parents \ PlacesOf(m, keys, p[m].data, o)
    BY <1>5, <1>7, <1>8 DEF Releases
  <2> QED
    BY <2>1, <2>2
<1>11. \A o \in DOMAIN p : Alike(q[o], p[o]) /\ (o # m => HoldSame(q[o], p[o]))
  BY <1>5, <1>7, <1>8 DEF Releases
<1> QED
  BY <1>3, <1>7, <1>8, <1>9, <1>10, <1>11 DEF Drops, q

\* Dropping entries keeps a pool sound, and misses nothing that was not missed.
LEMMA DropSound ==
  ASSUME NEW p, Sound(p), NEW m \in Maps, m \in DOMAIN p, NEW keys \in SUBSET DOMAIN p[m].data,
         NEW clear \in Nat
  PROVE  LET q == Dropped(p, m, keys, clear)
         IN  Sound(q) /\ Dangling(q) \subseteq Dangling(p)
<1> DEFINE q == Dropped(p, m, keys, clear)
<1>1. Drops(p, m, keys, clear, q)
  BY DropIs DEF Sound
<1> HIDE DEF q
<1>2. \A o \in DOMAIN p : q[o].tombstone = p[o].tombstone
  BY <1>1 DEF Alike, Drops
<1>3. \A o \in Ids, n \in Maps, k \in Keys :
         Refers(q, n, k, o) <=> Refers(p, n, k, o) /\ ~(n = m /\ k \in keys)
  BY <1>1 DEF Refers, Drops, HoldSame
<1>4. Linked(q)
  <2> SUFFICES ASSUME NEW o \in DOMAIN p, NEW n \in Maps, NEW k \in Keys
               PROVE  /\ <<n, k>> \in q[o].parents => Refers(q, n, k, o)
                      /\ Refers(q, n, k, o) /\ ~q[o].tombstone => <<n, k>> \in q[o].parents
    BY <1>1, Zenon DEF Linked, Drops
  <2>1. /\ <<n, k>> \in p[o].parents => Refers(p, n, k, o)
        /\ Refers(p, n, k, o) /\ ~p[o].tombstone => <<n, k>> \in p[o].parents
    BY DEF Sound, Linked
  <2>2. Refers(p, n, k, o) /\ n = m => p[m].data[k].value = o
    BY DEF Refers
  <2>3. o \in Ids
    BY PoolIs DEF Sound
  <2> QED
    BY <1>1, <1>2, <1>3, <2>1, <2>2, <2>3 DEF Drops
<1>5. Buried(q)
  <2> SUFFICES ASSUME NEW o \in DOMAIN p, p[o].tombstone
               PROVE  o # Root /\ q[o].data = NewObject(o).data
    BY <1>1, <1>2 DEF Buried, Drops
  <2>1. o # Root /\ p[o].data = NewObject(o).data
    BY DEF Sound, Buried
  <2>2. CASE o = m
    <3>1. DOMAIN p[m].data = {} /\ NewObject(m).data = <<>>
      BY <2>1, <2>2, NewMap
    <3>2. DOMAIN q[m].data = {} /\ q[m].data \in MapData
      BY <1>1, <3>1, PoolIs DEF Drops
    <3>3. q[m].data = <<>>
      BY <3>2, MapDataNone
    <3> QED
      BY <2>1, <2>2, <3>1, <3>3
  <2> QED
    BY <1>1, <2>1, <2>2 DEF Drops, HoldSame
<1>6. Dangling(q) \subseteq Dangling(p)
  BY <1>1, <1>3 DEF Dangling, Drops
<1> QED
  BY <1>1, <1>4, <1>5, <1>6 DEF Sound, q, Drops

-----------------------------------------------------------------------------
(* The operations.                                                         *)

\* An entry a map is made with.
Initials == {e \in Entries : e.serial = 0 /\ InitialEntry(e) = e}

\* What an operation on a map, and one on a counter, says beside where and when it was made.
IsMapOp(op) ==
  \/ /\ op.action = "create" /\ op.entries \in MapData
     /\ \A k \in DOMAIN op.entries : op.entries[k] \in Initials
  \/ op.action = "set" /\ op.key \in Keys /\ op.value \in Values
  \/ op.action = "remove" /\ op.key \in Keys
  \/ op.action = "clear"
  \/ op.action = "delete"

\* What an operation on a counter says.
IsCounterOp(op) ==
  \/ op.action = "create" /\ op.entries = <<>> /\ op.amount \in Int
  \/ op.action = "inc" /\ op.amount \in Int
  \/ op.action = "delete"

\* An operation.
IsOp(op) ==
  /\ op.object \in Ids /\ op.site \in Sites /\ op.serial \in 1..MaxOps
  /\ op.object \in Maps => IsMapOp(op)
  /\ op.object \in Counters => IsCounterOp(op)

\* What a template says of an entry is an entry a map is made with.
LEMMA InitialIs ==
  ASSUME NEW e, IsInitial(e), e.value \in Values
  PROVE  e \in Initials
<1>1. CASE e = RemovedEntry(0)
  <2>1. e \in Entries
    BY <1>1 DEF Entries
  <2>2. e.serial = 0 /\ e.tombstone
    BY <1>1 DEF RemovedEntry
  <2> QED
    BY <1>1, <2>1, <2>2 DEF Initials, InitialEntry
<1>2. CASE e = Entry(e.value, 0)
  <2>1. e \in Entries
    BY <1>2 DEF Entries
  <2>2. e.serial = 0 /\ ~e.tombstone
    BY <1>2 DEF Entry
  <2> QED
    BY <1>2, <2>1, <2>2 DEF Initials, InitialEntry
<1> QED
  BY <1>1, <1>2 DEF IsInitial

\* What a template says is what the operations made from it say.
Says(op, t) ==
  /\ op.object = t.object /\ op.action = t.action
  /\ "key" \in DOMAIN t => op.key = t.key
  /\ "value" \in DOMAIN t => op.value = t.value
  /\ "amount" \in DOMAIN t => op.amount = t.amount
  /\ "entries" \in DOMAIN t => op.entries = t.entries

\* An operation made from a template says what its kind of object takes.
LEMMA TemplateIs ==
  ASSUME NEW t \in Templates, NEW op, Says(op, t)
  PROVE  /\ op.object \in Ids
         /\ op.object \in Maps => IsMapOp(op)
         /\ op.object \in Counters => IsCounterOp(op)
<1>1. IsTemplate(t)
  BY TemplatesAssumption
<1>2. CASE t.action = "create" /\ t.object \in Maps
  <2>1. /\ t = [action |-> "create", object |-> t.object, entries |-> t.entries]
        /\ t.entries = [k \in Keys \cap DOMAIN t.entries |-> t.entries[k]]
        /\ \A k \in DOMAIN t.entries : IsInitial(t.entries[k])
    BY <1>1, <1>2, RootAssumption DEF IsTemplate
  <2>2. \A k \in DOMAIN t.entries : t.entries[k] \in Initials
    <3> TAKE k \in DOMAIN t.entries
    <3>1. t.entries[k].value \in Values
      BY <1>2 DEF Values
    <3> QED
      BY <2>1, <3>1, InitialIs
  <2>3. t.entries \in MapData
    <3> DEFINE D == Keys \cap DOMAIN t.entries
               e == t.entries
    <3>1. D \subseteq Keys /\ e = [k \in D |-> e[k]] /\ \A k \in D : e[k] \in Entries
      BY <2>1, <2>2 DEF Initials
    <3>2. e \in [D -> Entries]
      BY <3>1
    <3> QED
      BY <3>1, <3>2 DEF MapData
  <2>4. op.entries = t.entries
    BY <2>1 DEF Says
  <2> QED
    BY <1>2, <2>2, <2>3, <2>4, RootAssumption DEF Says, IsMapOp, Ids
<1>3. CASE t.action = "set"
  <2>1. /\ t.object \in Maps /\ t.key \in Keys
        /\ t = [action |-> "set", object |-> t.object, key |-> t.key, value |-> t.value]
    BY <1>1, <1>3 DEF IsTemplate
  <2>2. t.value \in Values
    BY <1>3 DEF Values
  <2>3. op.key = t.key /\ op.value = t.value
    BY <2>1 DEF Says
  <2> QED
    BY <1>3, <2>1, <2>2, <2>3, RootAssumption DEF Says, IsMapOp, Ids
<1>4. CASE t.action = "remove"
  <2>1. /\ t.object \in Maps /\ t.key \in Keys
        /\ t = [action |-> "remove", object |-> t.object, key |-> t.key]
    BY <1>1, <1>4 DEF IsTemplate
  <2>3. op.key = t.key
    BY <2>1 DEF Says
  <2> QED
    BY <1>4, <2>1, <2>3, RootAssumption DEF Says, IsMapOp, Ids
<1>5. CASE t.action = "clear"
  <2>1. t.object \in Maps
    BY <1>1, <1>5 DEF IsTemplate
  <2> QED
    BY <1>5, <2>1, RootAssumption DEF Says, IsMapOp, Ids
<1>6. CASE t.action = "create" /\ t.object \in Counters
  <2>1. /\ t = [action |-> "create", object |-> t.object, entries |-> <<>>, amount |-> t.amount]
        /\ t.amount \in Int
    BY <1>1, <1>6, RootAssumption DEF IsTemplate
  <2>2. t.entries = <<>>
    BY <2>1
  <2>3. op.amount = t.amount /\ op.entries = <<>>
    BY <2>1, <2>2 DEF Says
  <2> QED
    BY <1>6, <2>1, <2>3, RootAssumption DEF Says, IsCounterOp, Ids
<1>7. CASE t.action = "inc"
  <2>1. /\ t.object \in Counters /\ t = [action |-> "inc", object |-> t.object, amount |-> t.amount]
        /\ t.amount \in Int
    BY <1>1, <1>7 DEF IsTemplate
  <2>3. op.amount = t.amount
    BY <2>1 DEF Says
  <2> QED
    BY <1>7, <2>1, <2>3, RootAssumption DEF Says, IsCounterOp, Ids
<1>8. CASE t.action = "delete"
  <2>1. t.object \in Ids
    BY <1>1 DEF IsTemplate
  <2> QED
    BY <1>8, <2>1, RootAssumption DEF Says, IsCounterOp, IsMapOp
<1> QED
  BY <1>1, <1>2, <1>3, <1>4, <1>5, <1>6, <1>7, <1>8 DEF IsTemplate

\* The operations have the serials of their places, and no create comes after another operation
\* on its object.
LEMMA LogIs ==
  ASSUME log \in Logs
  PROVE  /\ DOMAIN log = 1..MaxOps /\ Len(log) = MaxOps
         /\ \A i \in 1..MaxOps : IsOp(log[i]) /\ log[i].serial = i /\ log[i] # None
         /\ \A i, j \in 1..MaxOps :
              i < j /\ log[j].action = "create" => log[i].object # log[j].object
<1>1. PICK template \in [1..MaxOps -> Templates], site \in [1..MaxOps -> Sites] :
         /\ \A i, j \in 1..MaxOps :
              i < j /\ template[j].action = "create" => template[i].object # template[j].object
         /\ log = [i \in 1..MaxOps |-> Operation(template[i], site[i], i)]
  BY DEF Logs
<1>2. ASSUME NEW i \in 1..MaxOps
      PROVE  /\ Says(log[i], template[i]) /\ log[i].site = site[i] /\ log[i].serial = i
  <2> DEFINE t == template[i]
             o == [site |-> site[i], serial |-> i]
             h == log[i]
  <2>1. Overs(t, o, h)
    BY <1>1, OverIs DEF Operation
  <2>2. IsTemplate(t)
    BY TemplatesAssumption
  <2>3. /\ {"object", "action"} \subseteq DOMAIN t /\ "site" \notin DOMAIN t
        /\ "serial" \notin DOMAIN t
    <3> HIDE DEF t, o, h
    <3> QED
      BY <2>2 DEF IsTemplate
  <2>4. DOMAIN o = {"site", "serial"} /\ o["site"] = site[i] /\ o["serial"] = i
    OBVIOUS
  <2> HIDE DEF t, o, h
  <2>5. Says(h, t) /\ h["site"] = site[i] /\ h["serial"] = i
    BY <2>1, <2>3, <2>4 DEF Overs, Says
  <2> QED
    BY <2>5 DEF h, t
<1>3. DOMAIN log = 1..MaxOps /\ Len(log) = MaxOps
  BY <1>1, MaxOpsAssumption
<1>4. ASSUME NEW i \in 1..MaxOps
      PROVE  IsOp(log[i]) /\ log[i].serial = i /\ log[i] # None
  <2>1. log[i] # None
    BY <1>1, OperationsAssumption
  <2> QED
    BY <1>2, <2>1, TemplateIs DEF IsOp
<1>5. \A i \in 1..MaxOps : log[i].action = template[i].action /\ log[i].object = template[i].object
  BY <1>2 DEF Says
<1>6. ASSUME NEW i \in 1..MaxOps, NEW j \in 1..MaxOps, i < j, log[j].action = "create"
      PROVE  log[i].object # log[j].object
  <2>1. template[j].action = "create"
    BY <1>5, <1>6
  <2>2. template[i].object # template[j].object
    BY <1>1, <1>6, <2>1
  <2> QED
    BY <1>5, <2>2
<1> QED
  BY <1>3, <1>4, <1>6

\* The operations are told apart by their serials.
LEMMA OpsAre ==
  ASSUME log \in Logs
  PROVE  /\ \A op \in Ops : IsOp(op) /\ op # None
         /\ \A x, y \in Ops : x.serial = y.serial => x = y
         /\ \A x, y \in Ops : x.object = y.object /\ y.action = "create" => y.serial <= x.serial
<1>1. \A x \in Ops : x.serial \in 1..MaxOps /\ x = log[x.serial] /\ IsOp(x) /\ x # None
  BY LogIs DEF Ops
<1> QED
  BY <1>1, LogIs, MaxOpsAssumption

-----------------------------------------------------------------------------
(* The operations on one object.                                           *)

\* The pool q comes from p by putting x in the place of an object.
Puts(p, o, x, q) ==
  /\ Sound(q) /\ DOMAIN q = DOMAIN p /\ Dangling(q) = Dangling(p)
  /\ q[o] = x /\ \A n \in DOMAIN p \ {o} : q[n] = p[n]

\* An object that keeps its parents and what it references may be put in the place of the old.
LEMMA PutIs ==
  ASSUME NEW p, Sound(p), NEW o \in DOMAIN p, NEW x \in Replicas(o),
         x.parents = p[o].parents, o \in Maps => x.data = p[o].data,
         p[o].tombstone => x.tombstone, x.tombstone => o # Root /\ x.data = NewObject(o).data
  PROVE  Puts(p, o, x, [p EXCEPT ![o] = x])
<1> DEFINE q == [p EXCEPT ![o] = x]
<1>1. IsPool(p) /\ Linked(p) /\ Buried(p)
  BY DEF Sound
<1>2. DOMAIN q = DOMAIN p /\ q[o] = x /\ \A n \in DOMAIN p \ {o} : q[n] = p[n]
  OBVIOUS
<1>3. IsPool(q)
  <2>1. q = [n \in DOMAIN q |-> q[n]]
    OBVIOUS
  <2> HIDE DEF q
  <2> QED
    BY <1>1, <1>2, <2>1 DEF IsPool
<1> HIDE DEF q
<1>4. \A n, a \in Ids, k \in Keys : n \in Maps => (Refers(q, n, k, a) <=> Refers(p, n, k, a))
  BY <1>2 DEF Refers
<1>5. Linked(q)
  <2> SUFFICES ASSUME NEW a \in DOMAIN p, NEW m \in Maps, NEW k \in Keys
               PROVE  /\ <<m, k>> \in q[a].parents => Refers(q, m, k, a)
                      /\ Refers(q, m, k, a) /\ ~q[a].tombstone => <<m, k>> \in q[a].parents
    BY <1>2, Zenon DEF Linked
  <2>1. a \in Ids /\ m \in Ids
    BY <1>1, PoolIs DEF Ids
  <2>2. q[a].parents = p[a].parents /\ (p[a].tombstone => q[a].tombstone)
    BY <1>2
  <2>3. /\ <<m, k>> \in p[a].parents => Refers(p, m, k, a)
        /\ Refers(p, m, k, a) /\ ~p[a].tombstone => <<m, k>> \in p[a].parents
    BY <1>1 DEF Linked
  <2> QED
    BY <1>4, <2>1, <2>2, <2>3
<1>6. Buried(q)
  BY <1>1, <1>2 DEF Buried
<1>7. Dangling(q) = Dangling(p)
  <2>1. Maps \subseteq Ids
    BY DEF Ids
  <2> QED
    BY <1>2, <1>4, <2>1 DEF Dangling
<1> QED
  BY <1>2, <1>3, <1>5, <1>6, <1>7 DEF Sound, Puts, q

\* The pool q comes from p by what is done to an object, and by making some objects.
Steps(p, m, ids, q) ==
  /\ Sound(q) /\ DOMAIN p \subseteq DOMAIN q /\ DOMAIN q \subseteq DOMAIN p \union ids
  /\ m \in DOMAIN q /\ Dangling(q) \subseteq Dangling(p)
  /\ \A o \in DOMAIN q \ {m} : Alike(q[o], At(p, o)) /\ HoldSame(q[o], At(p, o))

\* Making an object that nothing references.
LEMMA MakeIs ==
  ASSUME NEW p, Sound(p), NEW o \in Ids, o \notin Dangling(p)
  PROVE  LET q == CreateZeroValue(p, o)
         IN  Makes(p, {o}, q) /\ Sound(q) /\ Dangling(q) = Dangling(p)
<1> DEFINE q == CreateZeroValue(p, o)
<1>1. Makes(p, {o}, q)
  BY ZeroIs DEF CreateZeroValue, Sound
<1> HIDE DEF q
<1>2. /\ DOMAIN q = DOMAIN p \union {o} /\ IsPool(q)
      /\ \A n \in DOMAIN p : q[n] = p[n]
      /\ o \notin DOMAIN p => q[o] = NewObject(o)
  BY <1>1 DEF Makes, At
<1>3. \A m \in Maps, k \in Keys, n \in Ids : Refers(q, m, k, n) <=> Refers(p, m, k, n)
  BY <1>2, NewMap DEF Refers
<1>4. Dangling(q) = Dangling(p)
  BY <1>2, <1>3 DEF Dangling
<1>5. Linked(q)
  <2> SUFFICES ASSUME NEW a \in DOMAIN q, NEW m \in Maps, NEW k \in Keys
               PROVE  /\ <<m, k>> \in q[a].parents => Refers(q, m, k, a)
                      /\ Refers(q, m, k, a) /\ ~q[a].tombstone => <<m, k>> \in q[a].parents
    BY Zenon DEF Linked
  <2>1. a \in Ids
    BY <1>2, PoolIs
  <2>2. CASE a \in DOMAIN p
    BY <1>2, <1>3, <2>1, <2>2 DEF Sound, Linked
  <2>3. CASE a \notin DOMAIN p
    <3>1. a = o /\ q[a].parents = {}
      BY <1>2, <2>3 DEF NewObject
    <3>2. ~Refers(p, m, k, a)
      BY <2>3, <3>1 DEF Dangling
    <3> QED
      BY <1>3, <2>1, <3>1, <3>2
  <2> QED
    BY <2>2, <2>3
<1>6. Buried(q)
  BY <1>2 DEF Buried, Sound, NewObject
<1> QED
  BY <1>1, <1>2, <1>4, <1>5, <1>6 DEF Sound, q

\* Deleting an object.
Tombstones(p, o, at, r) ==
  IF o = Root
  THEN r.pool = p
  ELSE /\ Steps(p, o, {}, r.pool)
       /\ r.pool[o].tombstone /\ r.pool[o].at = at /\ r.pool[o].siteSerials = p[o].siteSerials
       /\ r.pool[o].data = NewObject(o).data
       /\ \A k \in Keys : <<Root, k>> \in p[o].parents => <<Root, k>> \in r.pool[o].parents
       /\ \E u \in r.updates : u.object = o

\* A map is cleared by dropping all of its entries.
LEMMA ClearMapIs ==
  ASSUME NEW p, IsPool(p), NEW m \in Maps, m \in DOMAIN p
  PROVE  ClearMap(p, m) = Dropped(p, m, DOMAIN p[m].data, 0)
<1> DEFINE keys == DOMAIN p[m].data
           r == ReleaseReferences(p, m, keys)
           x == r[m]
           d == [k \in keys \ keys |-> p[m].data[k]]
<1>1. Releases(p, m, keys, r)
  <2> keys \in SUBSET DOMAIN p[m].data
    OBVIOUS
  <2> HIDE DEF keys
  <2> QED
    BY ReleaseIs
<1>2. x \in Replicas(m)
  <2> HIDE DEF r
  <2>1. IsPool(r) /\ m \in DOMAIN r
    BY <1>1 DEF Releases
  <2> QED
    BY <2>1, PoolIs
<1>3. d = <<>>
  <2>1. d = [k \in {} |-> p[m].data[k]]
    OBVIOUS
  <2> QED
    BY <2>1
<1>4. [x EXCEPT !.data = <<>>, !.clear = 0] = [x EXCEPT !.clear = 0, !.data = d]
  <2> HIDE DEF x, d
  <2> QED
    BY <1>2, <1>3 DEF Replicas
<1>5. ClearMap(p, m) = [r EXCEPT ![m] = [x EXCEPT !.data = <<>>, !.clear = 0]]
  BY Zenon DEF ClearMap
<1>6. Dropped(p, m, keys, 0) = [r EXCEPT ![m] = [x EXCEPT !.clear = 0, !.data = d]]
  BY Zenon DEF Dropped
<1> QED
  BY <1>4, <1>5, <1>6, Zenon

\* Tombstone deletes the object, but for the root, and tells.
LEMMA TombstoneIs ==
  ASSUME NEW p, Sound(p), NEW o \in DOMAIN p, NEW at \in Nat
  PROVE  Tombstones(p, o, at, Tombstone(p, o, at))
<1> DEFINE c == ClearData(p, o)
           x == [c[o] EXCEPT !.tombstone = TRUE, !.at = at]
           q == [c EXCEPT ![o] = x]
           u == [object |-> o, tombstone |-> TRUE,
                 keys |-> IF o \in Maps THEN LiveKeys(p[o].data) ELSE {}]
<1>1. CASE o = Root
  BY <1>1 DEF Tombstone, Tombstones, Noop
<1>2. CASE o # Root
  <2>1. Tombstone(p, o, at) = [pool |-> q, updates |-> {u}]
    BY <1>2 DEF Tombstone, Applied
  <2>2. u.object = o
    OBVIOUS
  <2>3. o \in Ids /\ p[o] \in Replicas(o)
    BY PoolIs DEF Sound
  <2> HIDE DEF c, u
  <2>4. /\ Sound(c) /\ DOMAIN c = DOMAIN p /\ Dangling(c) \subseteq Dangling(p)
        /\ \A n \in DOMAIN p \ {o} : Alike(c[n], p[n]) /\ HoldSame(c[n], p[n])
        /\ c[o].siteSerials = p[o].siteSerials /\ c[o].data = NewObject(o).data
        /\ \A k \in Keys : <<Root, k>> \in p[o].parents => <<Root, k>> \in c[o].parents
    <3>1. CASE o \in Counters
      <4> DEFINE y == [p[o] EXCEPT !.data = 0]
      <4>1. c = [p EXCEPT ![o] = y]
        BY <3>1 DEF c, ClearData, ClearCounter
      <4>2. /\ y \in Replicas(o) /\ y.parents = p[o].parents /\ y.tombstone = p[o].tombstone
            /\ y.data = 0 /\ y.siteSerials = p[o].siteSerials
        BY <2>3, <3>1 DEF Replicas
      <4>3. NewObject(o).data = 0 /\ o \notin Maps
        BY <3>1, RootAssumption DEF NewObject
      <4> HIDE DEF y
      <4>4. Puts(p, o, y, c)
        BY <1>2, <4>1, <4>2, <4>3, PutIs
      <4> QED
        BY <4>2, <4>3, <4>4 DEF Puts, Alike, HoldSame
    <3>2. CASE o \in Maps
      <4> DEFINE keys == DOMAIN p[o].data
      <4>1. c = Dropped(p, o, keys, 0)
        BY <3>2, RootAssumption, ClearMapIs DEF c, ClearData, Sound
      <4>2. keys \in SUBSET DOMAIN p[o].data /\ 0 \in Nat /\ o \in Maps /\ o \in DOMAIN p
        BY <3>2
      <4> HIDE DEF keys
      <4>3. Drops(p, o, keys, 0, c)
        BY <4>1, <4>2, DropIs DEF Sound
      <4>4. Sound(c) /\ Dangling(c) \subseteq Dangling(p)
        BY <4>1, <4>2, DropSound
      <4>5. DOMAIN c[o].data = {} /\ o \in DOMAIN c
        BY <4>3, <4>2 DEF Drops, keys
      <4>6. c[o].data = <<>>
        BY <4>2, <4>4, <4>5, PoolIs, MapDataNone DEF Sound
      <4>7. ASSUME NEW k \in Keys, <<Root, k>> \in p[o].parents
            PROVE  <<Root, k>> \in c[o].parents
        BY <1>2, <4>2, <4>3, <4>7, RootAssumption DEF Drops
      <4> QED
        BY <4>2, <4>3, <4>4, <4>6, <4>7, NewMap DEF Drops, Alike
    <3> QED
      BY <2>3, <3>1, <3>2 DEF Ids
  <2>5. /\ x \in Replicas(o) /\ x.parents = c[o].parents /\ x.data = c[o].data /\ x.tombstone
        /\ x.at = at
        /\ x.siteSerials = c[o].siteSerials
    <3>1. c[o] \in Replicas(o)
      BY <2>4, PoolIs DEF Sound
    <3> QED
      BY <3>1 DEF Replicas
  <2> HIDE DEF x
  <2>6. Puts(c, o, x, q)
    <3>1. o \in DOMAIN c
      BY <2>4
    <3> QED
      BY <1>2, <2>4, <2>5, <3>1, PutIs
  <2> HIDE DEF q
  <2>7. Steps(p, o, {}, q)
    BY <2>4, <2>6 DEF Puts, Steps, At
  <2>8. /\ q[o].tombstone /\ q[o].at = at /\ q[o].siteSerials = p[o].siteSerials
        /\ q[o].data = NewObject(o).data
        /\ \A k \in Keys : <<Root, k>> \in p[o].parents => <<Root, k>> \in q[o].parents
    BY <2>4, <2>5, <2>6 DEF Puts
  <2> QED
    BY <1>2, <2>1, <2>2, <2>7, <2>8 DEF Tombstones
<1> QED
  BY <1>1, <1>2

-----------------------------------------------------------------------------
\* The entries taken of those that come.
Taken(x, d) ==
  {k \in DOMAIN d : /\ ~(x.clear # 0 /\ x.clear >= d[k].serial)
                    /\ k \in DOMAIN x.data => d[k].serial > x.data[k].serial}

\* The map y comes from x by entries of it that are taken.
Entered(x, y, d) ==
  /\ y.clear = x.clear
  /\ \A k \in Keys : k \in DOMAIN y.data <=> k \in DOMAIN x.data \/ k \in Taken(x, d)
  /\ \A k \in DOMAIN y.data : y.data[k] = IF k \in Taken(x, d) THEN d[k] ELSE x.data[k]

\* What is done to a map is told, key by key.
KeysTold(x, y, m, updates) ==
  \A k \in Keys : \/ k \in DOMAIN x.data /\ k \in DOMAIN y.data /\ x.data[k] = y.data[k]
                  \/ k \notin DOMAIN x.data /\ k \notin DOMAIN y.data
                  \/ \E u \in updates : u.object = m /\ k \in u.keys

\* Entries are written to a map, those that are new, and told.
Enters(p, m, d, r) ==
  /\ Steps(p, m, Referenced(d), r.pool) /\ Alike(r.pool[m], p[m])
  /\ Entered(p[m], r.pool[m], d) /\ KeysTold(p[m], r.pool[m], m, r.updates)

\* The map y comes from x by a clear.
ClearedAt(x, y, serial) ==
  IF x.clear > serial
  THEN HoldSame(x, y)
  ELSE /\ y.clear = serial
       /\ \A k \in Keys :
            k \in DOMAIN y.data <=> k \in DOMAIN x.data /\ ~(serial > x.data[k].serial)
       /\ \A k \in DOMAIN y.data : y.data[k] = x.data[k]

\* A map is cleared up to a serial, and it is told.
Clears(p, m, serial, r) ==
  /\ Steps(p, m, {}, r.pool) /\ Alike(r.pool[m], p[m])
  /\ ClearedAt(p[m], r.pool[m], serial) /\ KeysTold(p[m], r.pool[m], m, r.updates)

\* A pool comes from itself.
LEMMA StepsSame ==
  ASSUME NEW p, Sound(p), NEW m \in DOMAIN p, NEW ids
  PROVE  Steps(p, m, ids, p)
  BY DEF Steps, At, Alike, HoldSame

\* ApplyEntries takes the entries that are new.
LEMMA EntersIs ==
  ASSUME NEW p, Sound(p), NEW m \in Maps, m \in DOMAIN p, NEW d \in MapData,
         ~p[m].tombstone, Referenced(d) \cap Dangling(p) = {}
  PROVE  Enters(p, m, d, ApplyEntries(p, m, d))
<1> DEFINE taken == Taken(p[m], d)
           e == [k \in taken |-> d[k]]
           q == WriteEntries(p, m, e)
           r == ApplyEntries(p, m, d)
<1>1. r = IF taken = {} THEN [pool |-> p, updates |-> {}]
          ELSE [pool |-> q, updates |-> {[object |-> m, keys |-> taken, tombstone |-> FALSE]}]
  BY Zenon DEF ApplyEntries, Taken, AtOrBeforeClear, Newer, Noop, Applied, Update
<1>2. p[m].data \in MapData
  BY PoolIs DEF Sound
<1>3. CASE taken = {}
  <2>1. r.pool = p
    BY <1>1, <1>3
  <2> HIDE DEF r
  <2>2. Entered(p[m], p[m], d)
    BY <1>2, <1>3, MapDataIs DEF Entered
  <2> QED
    BY <2>1, <2>2, StepsSame DEF Enters, KeysTold, Alike, r
<1>4. CASE taken # {}
  <2>1. taken \in SUBSET DOMAIN d /\ taken = Taken(p[m], d)
    BY DEF Taken
  <2> HIDE DEF taken
  <2>2. e \in MapData /\ DOMAIN e = taken /\ \A k \in taken : e[k] = d[k]
    BY <2>1, MapDataPart
  <2> HIDE DEF e
  <2>3. Referenced(e) \subseteq Referenced(d)
    BY <2>1, <2>2 DEF Referenced
  <2>4. Writes(p, m, e, q)
    BY <2>2, WriteIs DEF Sound
  <2>5. Sound(q) /\ Dangling(q) \subseteq Dangling(p)
    <3>1. Referenced(e) \cap Dangling(p) = {}
      BY <2>3
    <3> QED
      BY <2>2, <3>1, WriteSound
  <2> HIDE DEF q, r
  <2>6. r.pool = q /\ \E u \in r.updates : u.object = m /\ u.keys = taken
    <3> DEFINE u == [object |-> m, keys |-> taken, tombstone |-> FALSE]
    <3>1. r = [pool |-> q, updates |-> {u}]
      BY <1>1, <1>4
    <3>2. u.object = m /\ u.keys = taken
      OBVIOUS
    <3> HIDE DEF u
    <3> QED
      BY <3>1, <3>2
  <2>7. Steps(p, m, Referenced(d), q)
    BY <2>3, <2>4, <2>5 DEF Steps, Writes, HoldSame
  <2>8. /\ Alike(q[m], p[m]) /\ q[m].clear = p[m].clear
        /\ Overs(e, p[m].data, q[m].data)
    BY <2>4, OverIs DEF Writes, At
  <2>9. Entered(p[m], q[m], d)
    BY <2>1, <2>2, <2>8 DEF Entered, Overs
  <2>10. KeysTold(p[m], q[m], m, r.updates)
    BY <2>2, <2>6, <2>8 DEF KeysTold, Overs
  <2> QED
    BY <2>6, <2>7, <2>8, <2>9, <2>10 DEF Enters, r
<1> QED
  BY <1>3, <1>4

\* MapClear drops the entries that are older, unless a later clear was there.
LEMMA ClearsIs ==
  ASSUME NEW p, Sound(p), NEW m \in Maps, m \in DOMAIN p, NEW serial \in Nat
  PROVE  Clears(p, m, serial, MapClear(p, m, serial))
<1> DEFINE keys == {k \in DOMAIN p[m].data : serial > p[m].data[k].serial}
           q == Dropped(p, m, keys, serial)
           r == MapClear(p, m, serial)
<1>1. p[m] \in Replicas(m) /\ p[m].data \in MapData /\ p[m].clear \in Nat
  BY PoolIs DEF Sound, Replicas
<1>2. CASE p[m].clear > serial
  <2>1. r.pool = p
    BY <1>2 DEF MapClear, Noop
  <2> HIDE DEF r
  <2> QED
    BY <1>2, <2>1, StepsSame DEF Clears, ClearedAt, KeysTold, Alike, HoldSame, r
<1>3. CASE ~(p[m].clear > serial)
  <2>1. r = Applied(q, Update(m, keys))
    BY <1>3 DEF MapClear, Dropped
  <2>2. /\ keys \in SUBSET DOMAIN p[m].data
        /\ \A k \in DOMAIN p[m].data : k \in keys <=> serial > p[m].data[k].serial
    OBVIOUS
  <2> HIDE DEF keys, q, r
  <2>3. Drops(p, m, keys, serial, q)
    BY <2>2, DropIs DEF Sound, q
  <2>4. Sound(q) /\ Dangling(q) \subseteq Dangling(p)
    BY <2>2, DropSound DEF q
  <2>5. r.pool = q /\ \E u \in r.updates : u.object = m /\ u.keys = keys
    BY <2>1 DEF Applied, Update
  <2>6. Steps(p, m, {}, q) /\ Alike(q[m], p[m])
    BY <2>3, <2>4 DEF Steps, Drops, At
  <2>7. ClearedAt(p[m], q[m], serial)
    BY <1>1, <1>3, <2>2, <2>3, MapDataIs DEF ClearedAt, Drops
  <2>8. KeysTold(p[m], q[m], m, r.updates)
    BY <2>3, <2>5 DEF KeysTold, Drops
  <2> QED
    BY <2>5, <2>6, <2>7, <2>8 DEF Clears, r
<1> QED
  BY <1>2, <1>3

\* The entries an operation brings.
EntriesIn(op) ==
  CASE op.action = "create" -> op.entries
    [] op.action = "set"    -> [k \in {op.key} |-> Entry(op.value, op.serial)]
    [] op.action = "remove" -> [k \in {op.key} |-> RemovedEntry(op.serial)]

\* What an operation that is applied does to its object, a counter, or a map.
CountsOn(op, x, y) ==
  y.data = x.data + IF op.action = "inc" \/ ~x.merged THEN op.amount ELSE 0

\* What an operation does to a map.
Changes(op, x, y) ==
  CASE op.action = "clear"               -> ClearedAt(x, y, op.serial)
    [] op.action = "create" /\ x.merged  -> HoldSame(x, y)
    [] OTHER                             -> Entered(x, y, EntriesIn(op))

\* What an operation does to its object, once its serial is noted.
Does(op, x, y) ==
  /\ y.siteSerials = x.siteSerials
  /\ IF op.action = "delete" /\ op.object # Root
     THEN y.tombstone /\ y.at = op.serial /\ y.data = NewObject(op.object).data
     ELSE /\ y.tombstone = x.tombstone /\ y.at = x.at
          /\ (y.merged <=> x.merged \/ op.action = "create")
          /\ IF op.action = "delete" THEN HoldSame(x, y)
             ELSE IF op.object \in Counters THEN CountsOn(op, x, y) ELSE Changes(op, x, y)

\* It is told.
Told(x, y, o, updates) ==
  /\ o \in Maps => y.tombstone \/ KeysTold(x, y, o, updates)
  /\ y.tombstone # x.tombstone \/ (o \in Counters /\ y.data # x.data)
       => \E u \in updates : u.object = o
  /\ \A k \in Keys : <<Root, k>> \in x.parents /\ y.tombstone => <<Root, k>> \in y.parents

\* An operation takes effect: on its object alone, and it is told.
Effects(p, op, r) ==
  /\ Steps(p, op.object, Mentioned(op), r.pool)
  /\ Does(op, p[op.object], r.pool[op.object])
  /\ Told(p[op.object], r.pool[op.object], op.object, r.updates)

\* A counter with another count.
Counted(x, n, merged) == [x EXCEPT !.data = n, !.merged = merged]

\* A counter has a new count in the pool q.
Counts(p, c, n, merged, x, q) ==
  /\ Puts(p, c, x, q)
  /\ x.data = n /\ x.merged = merged /\ x.siteSerials = p[c].siteSerials
  /\ x.tombstone = p[c].tombstone /\ x.at = p[c].at /\ x.parents = p[c].parents

\* A counter may be given a new count.
LEMMA CounterPut ==
  ASSUME NEW p, Sound(p), NEW c \in Counters, c \in DOMAIN p, ~p[c].tombstone,
         NEW n \in Int, NEW merged \in BOOLEAN
  PROVE  Counts(p, c, n, merged, Counted(p[c], n, merged),
                [p EXCEPT ![c] = Counted(p[c], n, merged)])
<1> DEFINE x == Counted(p[c], n, merged)
<1>1. p[c] \in Replicas(c) /\ c \in Ids /\ c \notin Maps
  BY RootAssumption, PoolIs DEF Sound
<1>2. /\ x \in Replicas(c) /\ x.data = n /\ x.merged = merged /\ x.siteSerials = p[c].siteSerials
      /\ x.tombstone = p[c].tombstone /\ x.at = p[c].at /\ x.parents = p[c].parents
  BY <1>1 DEF Replicas, Counted
<1> HIDE DEF x
<1>3. Puts(p, c, x, [p EXCEPT ![c] = x])
  BY <1>1, <1>2, PutIs
<1> QED
  BY <1>2, <1>3 DEF x, Counts

\* Putting an object in the place of the old is a step on it.
LEMMA StepsPut ==
  ASSUME NEW p, NEW o \in DOMAIN p, NEW x, NEW q, Puts(p, o, x, q), NEW ids
  PROVE  Steps(p, o, ids, q)
  BY DEF Puts, Steps, At, Alike, HoldSame

\* An operation on a counter takes effect.
LEMMA CounterEffectIs ==
  ASSUME NEW p, Sound(p), NEW op, IsOp(op), op.object \in DOMAIN p, ~p[op.object].tombstone,
         op.object \in Counters, op.action # "delete"
  PROVE  Effects(p, op, CounterEffect(p, op))
<1> DEFINE c == op.object
           r == CounterEffect(p, op)
<1>1. /\ c \in Counters /\ c \in DOMAIN p /\ ~p[c].tombstone /\ p[c].data \in Int
      /\ p[c].merged \in BOOLEAN
      /\ c \notin Maps /\ p[c] \in Replicas(c)
  BY RootAssumption, PoolIs DEF Sound, Replicas
<1>2. op.amount \in Int /\ op.action \in {"create", "inc"}
  BY DEF IsOp, IsCounterOp
<1>3. CASE op.action = "create" /\ p[c].merged
  <2>1. r = [pool |-> p, updates |-> {}]
    BY <1>3, Zenon DEF CounterEffect, CreateCounter, Noop
  <2>2. r.pool = p
    BY <2>1
  <2> HIDE DEF r
  <2>3. Steps(p, op.object, Mentioned(op), p)
    BY StepsSame
  <2>4. Does(op, p[c], p[c])
    BY <1>1, <1>3 DEF Does, CountsOn
  <2>5. Told(p[c], p[c], c, r.updates)
    BY <1>1 DEF Told
  <2> QED
    BY <2>2, <2>3, <2>4, <2>5 DEF Effects, r
<1>4. CASE op.action = "inc" \/ ~p[c].merged
  <2> DEFINE n == p[c].data + op.amount
             merged == p[c].merged \/ op.action = "create"
             x == Counted(p[c], n, merged)
             q == [p EXCEPT ![c] = x]
  <2>1. n \in Int /\ merged \in BOOLEAN
    BY <1>1, <1>2
  <2>2. r = Applied(q, Update(c, {}))
    <3>1. CASE op.action = "inc"
      <4>1. r = CounterInc(p, c, op.amount)
        BY <3>1 DEF CounterEffect
      <4>2. [p[c] EXCEPT !.data = n] = x
        BY <1>1, <3>1 DEF Replicas, Counted
      <4>3. [p EXCEPT ![c].data = @ + op.amount] = [p EXCEPT ![c] = [p[c] EXCEPT !.data = n]]
        OBVIOUS
      <4> QED
        BY <4>1, <4>2, <4>3, Zenon DEF CounterInc
    <3>2. CASE op.action = "create"
      <4>1. r = MergeCounter(p, c, op)
        BY <1>4, <3>2 DEF CounterEffect, CreateCounter
      <4>2. [p[c] EXCEPT !.data = @ + op.amount, !.merged = TRUE] = x
        BY <1>1, <3>2 DEF Replicas, Counted
      <4>3. [p EXCEPT ![c] = [@ EXCEPT !.data = p[c].data + op.amount, !.merged = TRUE]] = q
        BY <4>2, Zenon
      <4> HIDE DEF q
      <4> QED
        BY <4>1, <4>3 DEF MergeCounter
    <3> QED
      BY <1>2, <3>1, <3>2
  <2>3. Puts(p, c, x, q) /\ x.data = n /\ x.merged = merged /\ x.siteSerials = p[c].siteSerials
        /\ x.tombstone = p[c].tombstone /\ x.at = p[c].at /\ x.parents = p[c].parents
    <3>1. Counts(p, c, n, merged, x, q)
      <4> HIDE DEF n, merged, c
      <4> QED
        BY <1>1, <2>1, CounterPut
    <3> QED
      BY <3>1 DEF Counts
  <2> HIDE DEF x, q, r
  <2>4. r.pool = q /\ \E u \in r.updates : u.object = c
    BY <2>2 DEF Applied, Update
  <2>5. Steps(p, c, Mentioned(op), q)
    BY <1>1, <2>3, StepsPut
  <2>6. q[c] = x
    BY <2>3 DEF Puts
  <2>7. Does(op, p[c], q[c])
    BY <1>1, <1>2, <1>4, <2>3, <2>6 DEF Does, CountsOn
  <2>8. Told(p[c], q[c], c, r.updates)
    BY <1>1, <2>3, <2>4, <2>6 DEF Told
  <2> QED
    BY <2>4, <2>5, <2>7, <2>8 DEF Effects, r
<1> QED
  BY <1>2, <1>3, <1>4

\* A delete takes effect.
LEMMA DeleteIs ==
  ASSUME NEW p, Sound(p), NEW op, IsOp(op), op.object \in DOMAIN p, ~p[op.object].tombstone,
         op.action = "delete"
  PROVE  Effects(p, op, Tombstone(p, op.object, op.serial))
<1> DEFINE o == op.object
           r == Tombstone(p, o, op.serial)
<1>1. Tombstones(p, o, op.serial, r)
  <2>1. op.serial \in Nat /\ o \in DOMAIN p
    BY MaxOpsAssumption DEF IsOp
  <2> HIDE DEF o, r
  <2> QED
    BY <2>1, TombstoneIs DEF r
<1> HIDE DEF r
<1>2. p[o] \in Replicas(o) /\ o \in Ids
  BY PoolIs DEF Sound
<1>3. CASE o = Root
  <2>1. r.pool = p
    BY <1>1, <1>3 DEF Tombstones
  <2>2. Steps(p, o, Mentioned(op), p)
    BY StepsSame
  <2>3. p[o].merged \in BOOLEAN
    BY <1>2 DEF Replicas
  <2> QED
    BY <1>3, <2>1, <2>2, <2>3 DEF Effects, Does, Told, KeysTold, HoldSame, r
<1>4. CASE o # Root
  <2>1. Steps(p, o, Mentioned(op), r.pool)
    BY <1>1, <1>4 DEF Tombstones, Steps
  <2>2. Does(op, p[o], r.pool[o])
    BY <1>1, <1>4 DEF Does, Tombstones
  <2>3. Told(p[o], r.pool[o], o, r.updates)
    BY <1>1, <1>4 DEF Told, Tombstones
  <2> QED
    BY <2>1, <2>2, <2>3 DEF Effects, r
<1> QED
  BY <1>3, <1>4

\* What an operation brings is data of a map, and references what the operation mentions.
LEMMA EntriesInIs ==
  ASSUME NEW op, IsOp(op), op.object \in Maps, op.action \in {"create", "set", "remove"}
  PROVE  EntriesIn(op) \in MapData /\ Referenced(EntriesIn(op)) \subseteq Mentioned(op)
<1>1. IsMapOp(op) /\ op.serial \in Nat
  BY MaxOpsAssumption DEF IsOp
<1>2. CASE op.action = "create"
  <2>1. EntriesIn(op) = op.entries
    BY <1>2 DEF EntriesIn
  <2> QED
    BY <1>1, <1>2, <2>1 DEF IsMapOp, Referenced, Mentioned
<1>3. CASE op.action = "set"
  <2> DEFINE e == [k \in {op.key} |-> Entry(op.value, op.serial)]
  <2>1. EntriesIn(op) = e
    BY <1>3 DEF EntriesIn
  <2>2. /\ Entry(op.value, op.serial) \in Entries /\ op.key \in Keys
        /\ Entry(op.value, op.serial).value = op.value
    <3>1. op.value \in Values /\ op.key \in Keys
      BY <1>1, <1>3 DEF IsMapOp
    <3>2. Entry(op.value, op.serial) \in Entries
      BY <1>1, <3>1 DEF Entries
    <3> QED
      BY <3>1, <3>2 DEF Entry
  <2>3. e \in [{op.key} -> Entries] /\ {op.key} \subseteq Keys
    BY <2>2
  <2>4. e \in MapData
    BY <2>3 DEF MapData
  <2>5. Referenced(e) \subseteq Ids \cap {op.value}
    BY <2>2 DEF Referenced
  <2>6. Ids \cap {op.value} \subseteq Mentioned(op)
    BY <1>3 DEF Mentioned
  <2> QED
    BY <2>1, <2>4, <2>5, <2>6
<1>4. CASE op.action = "remove"
  <2> DEFINE e == [k \in {op.key} |-> RemovedEntry(op.serial)]
  <2>1. EntriesIn(op) = e
    BY <1>4 DEF EntriesIn
  <2>2. /\ RemovedEntry(op.serial) \in Entries /\ op.key \in Keys
        /\ RemovedEntry(op.serial).value = None
    <3>1. op.key \in Keys
      BY <1>1, <1>4 DEF IsMapOp
    <3>2. RemovedEntry(op.serial) \in Entries
      BY <1>1 DEF Entries
    <3> QED
      BY <3>1, <3>2 DEF RemovedEntry
  <2>3. e \in [{op.key} -> Entries] /\ {op.key} \subseteq Keys
    BY <2>2
  <2>4. e \in MapData
    BY <2>3 DEF MapData
  <2>5. Referenced(e) = {}
    BY <2>2, NoneAssumption DEF Referenced
  <2> QED
    BY <2>1, <2>4, <2>5
<1> QED
  BY <1>2, <1>3, <1>4

\* The pool q comes from p by noting that a map has its initial value.
Merges(p, m, q) ==
  /\ Sound(q) /\ DOMAIN q = DOMAIN p /\ Dangling(q) = Dangling(p)
  /\ \A o \in DOMAIN p \ {m} : q[o] = p[o]
  /\ HoldSame(q[m], p[m]) /\ q[m].siteSerials = p[m].siteSerials /\ q[m].merged
  /\ q[m].tombstone = p[m].tombstone /\ q[m].at = p[m].at /\ q[m].parents = p[m].parents

\* Noting the initial value keeps the pool sound.
LEMMA MergedIs ==
  ASSUME NEW p, Sound(p), NEW m \in Maps, m \in DOMAIN p, ~p[m].tombstone
  PROVE  Merges(p, m, [p EXCEPT ![m].merged = TRUE])
<1> DEFINE x == [p[m] EXCEPT !.merged = TRUE]
           q == [p EXCEPT ![m] = x]
<1>1. q = [p EXCEPT ![m].merged = TRUE]
  OBVIOUS
<1>2. p[m] \in Replicas(m)
  BY PoolIs DEF Sound
<1>3. /\ x \in Replicas(m) /\ HoldSame(x, p[m]) /\ x.siteSerials = p[m].siteSerials /\ x.merged
      /\ x.tombstone = p[m].tombstone /\ x.at = p[m].at /\ x.parents = p[m].parents
  BY <1>2 DEF Replicas, HoldSame
<1> HIDE DEF x
<1>4. Puts(p, m, x, q)
  BY <1>3, PutIs DEF HoldSame
<1> HIDE DEF q
<1>5. Merges(p, m, q)
  BY <1>3, <1>4 DEF Puts, Merges
<1> QED
  BY <1>1, <1>5

\* A create takes effect on a map.
LEMMA MergeMapIs ==
  ASSUME NEW p, Sound(p), NEW op, IsOp(op), op.object \in DOMAIN p, ~p[op.object].tombstone,
         op.object \in Maps, op.action = "create", ~p[op.object].merged,
         Mentioned(op) \cap Dangling(p) = {}
  PROVE  Effects(p, op, MergeMap(p, op.object, op))
<1> DEFINE m == op.object
           d == op.entries
           a == ApplyEntries(p, m, d)
           q == [a.pool EXCEPT ![m].merged = TRUE]
           keys == UNION {u.keys : u \in a.updates}
           r == MergeMap(p, m, op)
<1>1. d \in MapData /\ Referenced(d) \subseteq Mentioned(op) /\ d = EntriesIn(op)
      /\ \A k \in DOMAIN d : InitialEntry(d[k]) = d[k]
  BY RootAssumption, EntriesInIs DEF IsOp, IsMapOp, EntriesIn, Initials
<1>2. d = [k \in DOMAIN d |-> InitialEntry(d[k])]
  BY <1>1 DEF MapData
<1>3. r = [pool |-> q, updates |-> {Update(m, keys)}]
  BY <1>2, Zenon DEF MergeMap, AsCreated, Applied
<1>4. /\ m \in Maps /\ m \in DOMAIN p /\ m \notin Counters /\ ~p[m].tombstone /\ ~p[m].merged
      /\ Referenced(d) \cap Dangling(p) = {} /\ p[m] \in Replicas(m)
  BY <1>1, PoolIs, RootAssumption DEF Sound
<1> HIDE DEF m, d
<1>5. Enters(p, m, d, a)
  BY <1>1, <1>4, EntersIs
<1> HIDE DEF a
<1>6. /\ Steps(p, m, Referenced(d), a.pool) /\ Alike(a.pool[m], p[m]) /\ m \in DOMAIN a.pool
      /\ Sound(a.pool)
  BY <1>5 DEF Enters, Steps
<1>7. Merges(a.pool, m, q)
  BY <1>4, <1>6, MergedIs DEF Alike
<1> HIDE DEF q
<1> HIDE DEF r, keys
<1>8. r.pool = q /\ \E u \in r.updates : u.object = m /\ u.keys = keys
  <2>1. Update(m, keys).object = m /\ Update(m, keys).keys = keys
    BY DEF Update
  <2> QED
    BY <1>3, <2>1
<1>9. Steps(p, m, Mentioned(op), q)
  BY <1>1, <1>4, <1>6, <1>7 DEF Steps, Merges, m
<1>10. Does(op, p[m], q[m])
  <2>1. Entered(p[m], q[m], d)
    BY <1>5, <1>7 DEF Enters, Entered, Merges, HoldSame
  <2> QED
    BY <1>1, <1>4, <1>6, <1>7, <2>1 DEF Does, Changes, Merges, Alike, m
<1>11. Told(p[m], q[m], m, r.updates)
  <2>1. KeysTold(p[m], q[m], m, r.updates)
    <3> SUFFICES ASSUME NEW k \in Keys, NEW u \in a.updates, u.object = m, k \in u.keys
                 PROVE  \E v \in r.updates : v.object = m /\ k \in v.keys
      BY <1>5, <1>7 DEF KeysTold, Enters, Merges, HoldSame
    <3> QED
      BY <1>8 DEF keys
  <2> QED
    BY <1>4, <1>6, <1>7, <2>1 DEF Told, Merges, Alike
<1> QED
  BY <1>8, <1>9, <1>10, <1>11 DEF Effects, r, m

\* An operation on a map takes effect.
LEMMA MapEffectIs ==
  ASSUME NEW p, Sound(p), NEW op, IsOp(op), op.object \in DOMAIN p, ~p[op.object].tombstone,
         op.object \in Maps, op.action # "delete", Mentioned(op) \cap Dangling(p) = {}
  PROVE  Effects(p, op, MapEffect(p, op))
<1> DEFINE m == op.object
           r == MapEffect(p, op)
<1>1. /\ m \in Maps /\ m \in DOMAIN p /\ m \notin Counters /\ ~p[m].tombstone
      /\ p[m] \in Replicas(m) /\ p[m].merged \in BOOLEAN /\ op.serial \in Nat
  BY PoolIs, RootAssumption, MaxOpsAssumption DEF Sound, Replicas, IsOp
<1>2. op.action \in {"create", "set", "remove", "clear"}
  BY DEF IsOp, IsMapOp
<1>3. CASE op.action = "create" /\ p[m].merged
  <2>1. r.pool = p
    BY <1>3 DEF MapEffect, CreateMap, Noop
  <2>2. Steps(p, op.object, Mentioned(op), p)
    BY StepsSame
  <2> HIDE DEF r
  <2>3. Does(op, p[m], p[m]) /\ Told(p[m], p[m], m, r.updates)
    BY <1>1, <1>3 DEF Does, Told, KeysTold, Changes, HoldSame
  <2> QED
    BY <2>1, <2>2, <2>3 DEF Effects, r
<1>4. CASE op.action = "create" /\ ~p[m].merged
  <2>1. r = MergeMap(p, m, op)
    BY <1>4 DEF MapEffect, CreateMap
  <2> HIDE DEF r
  <2> QED
    BY <1>4, <2>1, MergeMapIs DEF r
<1>5. CASE op.action \in {"set", "remove"}
  <2> DEFINE d == EntriesIn(op)
  <2>1. r = ApplyEntries(p, m, d)
    BY <1>5 DEF MapEffect, MapSet, MapRemove, EntriesIn
  <2>2. /\ d \in MapData /\ Referenced(d) \subseteq Mentioned(op)
        /\ Referenced(d) \cap Dangling(p) = {}
    BY <1>5, EntriesInIs
  <2> HIDE DEF r, d
  <2>3. Enters(p, m, d, r)
    BY <1>1, <2>1, <2>2, EntersIs
  <2>4. Steps(p, m, Mentioned(op), r.pool)
    BY <2>2, <2>3 DEF Enters, Steps
  <2>5. Does(op, p[m], r.pool[m])
    BY <1>1, <1>5, <2>3 DEF Does, Changes, Enters, Alike, d
  <2>6. Told(p[m], r.pool[m], m, r.updates)
    BY <1>1, <2>3 DEF Told, Enters, Alike
  <2> QED
    BY <2>4, <2>5, <2>6 DEF Effects, r
<1>6. CASE op.action = "clear"
  <2>1. r = MapClear(p, m, op.serial)
    BY <1>6 DEF MapEffect
  <2> HIDE DEF r
  <2>2. Clears(p, m, op.serial, r)
    BY <1>1, <2>1, ClearsIs
  <2>4. Steps(p, m, Mentioned(op), r.pool)
    BY <2>2 DEF Clears, Steps
  <2>5. Does(op, p[m], r.pool[m])
    BY <1>1, <1>6, <2>2 DEF Does, Changes, Clears, Alike
  <2>6. Told(p[m], r.pool[m], m, r.updates)
    BY <1>1, <2>2 DEF Told, Clears, Alike
  <2> QED
    BY <2>4, <2>5, <2>6 DEF Effects, r
<1> QED
  BY <1>2, <1>3, <1>4, <1>5, <1>6

\* An object that noted an operation.
Noted(x, op) == [x EXCEPT !.siteSerials = [x.siteSerials EXCEPT ![op.site] = op.serial]]

\* The object y is x but for what it noted.
Notes(o, x, y) ==
  /\ y \in Replicas(o) /\ HoldSame(y, x) /\ y.merged = x.merged
  /\ y.tombstone = x.tombstone /\ y.at = x.at /\ y.parents = x.parents

\* Noting an operation changes the serial of its site alone.
LEMMA NotedIs ==
  ASSUME NEW o, NEW x \in Replicas(o), NEW op, IsOp(op)
  PROVE  /\ Notes(o, x, Noted(x, op))
         /\ Noted(x, op).siteSerials = [x.siteSerials EXCEPT ![op.site] = op.serial]
<1> DEFINE s == [x.siteSerials EXCEPT ![op.site] = op.serial]
<1>1. s \in [Sites -> 0..MaxOps]
  BY MaxOpsAssumption DEF Replicas, IsOp
<1> HIDE DEF s
<1>2. LET y == [x EXCEPT !.siteSerials = s]
      IN  Notes(o, x, y) /\ y.siteSerials = s
  BY <1>1 DEF Replicas, HoldSame, Notes
<1> QED
  BY <1>2 DEF Noted, s

\* What an operation does to a pool.
Applies(p, op, r) ==
  LET o == op.object
      x == At(p, o)
      y == r.pool[o]
  IN  /\ Steps(p, o, Mentioned(op), r.pool)
      /\ Told(x, y, o, r.updates)
      /\ IF ~(op.serial > x.siteSerials[op.site])
         THEN y = x
         ELSE IF x.tombstone THEN y = Noted(x, op) ELSE Does(op, Noted(x, op), y)

\* ApplyOperation does what an operation says, if its serial is new and its object is not
\* tombstoned.
LEMMA ApplyIs ==
  ASSUME NEW p, Sound(p), NEW op, IsOp(op), Mentioned(op) \cap Dangling(p) = {}
  PROVE  Applies(p, op, ApplyOperation(p, op, "channel"))
<1> DEFINE o == op.object
           x == At(p, o)
           known == CreateZeroValue(p, o)
           y == Noted(x, op)
           n == [known EXCEPT ![o] = y]
           can == op.serial > x.siteSerials[op.site]
           e == IF o \in Counters THEN CounterEffect(n, op) ELSE MapEffect(n, op)
           r == ApplyOperation(p, op, "channel")
<1>1. o \in Ids /\ o \in Mentioned(op) /\ o \notin Dangling(p)
  BY DEF IsOp, Mentioned
<1>2. Makes(p, {o}, known) /\ Sound(known) /\ Dangling(known) = Dangling(p)
  BY <1>1, MakeIs
<1>3. known[o] = x /\ o \in DOMAIN known
  BY <1>2 DEF Makes
<1>4. /\ r.pool = IF can /\ ~x.tombstone THEN e.pool ELSE IF can THEN n ELSE known
      /\ r.updates = IF can /\ ~x.tombstone THEN e.updates ELSE {}
  <2>1. [known EXCEPT ![o].siteSerials[op.site] = op.serial] = n
    <3>1. [known EXCEPT ![o].siteSerials[op.site] = op.serial]
            = [known EXCEPT
                  ![o] = [known[o] EXCEPT
                            !.siteSerials = [known[o].siteSerials EXCEPT ![op.site] = op.serial]]]
      OBVIOUS
    <3>2. [known[o] EXCEPT !.siteSerials = [known[o].siteSerials EXCEPT ![op.site] = op.serial]] = y
      BY <1>3, Zenon DEF Noted
    <3> QED
      BY <3>1, <3>2, Zenon
  <2>2. CanApplyOperation(known, op) <=> can
    BY <1>3 DEF CanApplyOperation
  <2>3. known[o].tombstone = x.tombstone
    BY <1>3
  <2>4. r = LET result == IF ~(can /\ ~x.tombstone) THEN Noop(IF can THEN n ELSE known) ELSE e
            IN  [pool |-> result.pool, updates |-> result.updates, applied |-> can /\ ~x.tombstone]
    <3> HIDE DEF can, x, y, n
    <3> QED
      BY <2>1, <2>2, <2>3 DEF ApplyOperation
  <2> HIDE DEF r, e, n, known, can, x
  <2> QED
    BY <2>4 DEF Noop
<1>5. x \in Replicas(o)
  BY <1>1, AtIs DEF Sound
<1>6. /\ y \in Replicas(o) /\ HoldSame(y, x) /\ y.merged = x.merged
      /\ y.tombstone = x.tombstone /\ y.at = x.at /\ y.parents = x.parents
  <2>1. Notes(o, x, y)
    BY <1>5, NotedIs
  <2> QED
    BY <2>1 DEF Notes
<1> HIDE DEF known, y, e, r
<1>7. Puts(known, o, y, n)
  <2>1. y.tombstone => o # Root /\ y.data = NewObject(o).data
    BY <1>2, <1>3, <1>6 DEF Sound, Buried, HoldSame
  <2> HIDE DEF x
  <2> QED
    BY <1>2, <1>3, <1>6, <2>1, PutIs DEF HoldSame
<1> HIDE DEF n
<1>8. /\ Sound(n) /\ Dangling(n) = Dangling(p) /\ DOMAIN n = DOMAIN p \union {o} /\ n[o] = y
      /\ \A a \in DOMAIN p \ {o} : n[a] = p[a]
  BY <1>2, <1>7 DEF Puts, Makes, At
<1>9. CASE ~can
  <2>1. r.pool = known
    BY <1>4, <1>9
  <2>2. Steps(p, o, Mentioned(op), known)
    BY <1>1, <1>2, <1>3 DEF Steps, Makes, Alike, HoldSame
  <2>3. Told(x, known[o], o, r.updates)
    BY <1>3 DEF Told, KeysTold
  <2> QED
    BY <1>3, <1>9, <2>1, <2>2, <2>3 DEF Applies, r
<1>10. CASE can /\ x.tombstone
  <2>1. r.pool = n
    BY <1>4, <1>10
  <2>2. Steps(p, o, Mentioned(op), n)
    BY <1>1, <1>8 DEF Steps, At, Alike, HoldSame
  <2>3. Told(x, n[o], o, r.updates)
    BY <1>6, <1>8, <1>10 DEF Told, HoldSame
  <2> QED
    BY <1>8, <1>10, <2>1, <2>2, <2>3 DEF Applies, r, y
<1>11. CASE can /\ ~x.tombstone
  <2>1. r.pool = e.pool /\ r.updates = e.updates
    BY <1>4, <1>11
  <2>2. o \in DOMAIN n /\ ~n[o].tombstone /\ Mentioned(op) \cap Dangling(n) = {}
    BY <1>6, <1>8, <1>11
  <2>3. Effects(n, op, e)
    <3>1. CASE op.action = "delete"
      <4>1. e = Tombstone(n, o, op.serial)
        BY <3>1 DEF e, CounterEffect, MapEffect
      <4> QED
        BY <1>8, <2>2, <3>1, <4>1, DeleteIs
    <3>2. CASE op.action # "delete" /\ o \in Counters
      <4>1. e = CounterEffect(n, op)
        BY <3>2 DEF e
      <4> QED
        BY <1>8, <2>2, <3>2, <4>1, CounterEffectIs
    <3>3. CASE op.action # "delete" /\ o \in Maps
      <4>1. e = MapEffect(n, op)
        BY <3>3, RootAssumption DEF e
      <4> QED
        BY <1>8, <2>2, <3>3, <4>1, MapEffectIs
    <3> QED
      BY <1>1, <3>1, <3>2, <3>3 DEF Ids
  <2>4. /\ Steps(n, o, Mentioned(op), e.pool) /\ Does(op, y, e.pool[o])
        /\ Told(y, e.pool[o], o, e.updates)
    BY <1>8, <2>3 DEF Effects
  <2>5. Steps(p, o, Mentioned(op), e.pool)
    <3>1. \A a \in DOMAIN e.pool \ {o} : At(n, a) = At(p, a)
      BY <1>8 DEF At
    <3> QED
      BY <1>1, <1>8, <2>4, <3>1 DEF Steps
  <2>6. Told(x, e.pool[o], o, e.updates)
    BY <1>6, <2>4 DEF Told, KeysTold, HoldSame
  <2> QED
    BY <1>11, <2>1, <2>4, <2>5, <2>6 DEF Applies, r, y
<1> QED
  BY <1>9, <1>10, <1>11

-----------------------------------------------------------------------------
(* What is done to all objects at once.                                    *)

\* An object is deleted at the serial of its first delete.
LEMMA DeletedAtIs ==
  ASSUME log \in Logs, NEW ops \in SUBSET Ops, NEW o, Deleted(ops, o)
  PROVE  /\ \E op \in On(ops, o, "delete") : DeletedAt(ops, o) = op.serial
         /\ \A op \in On(ops, o, "delete") : DeletedAt(ops, o) <= op.serial
         /\ DeletedAt(ops, o) \in 1..MaxOps
<1> DEFINE S == {op.serial : op \in On(ops, o, "delete")}
<1>1. \A op \in ops : op.serial \in 1..MaxOps
  BY OpsAre DEF IsOp
<1>2. S \in SUBSET Nat /\ S # {} /\ \A n \in S : n \in 1..MaxOps
  BY <1>1, MaxOpsAssumption DEF On, Deleted
<1>3. Min(S) \in S /\ \A n \in S : Min(S) <= n
  <2> HIDE DEF S
  <2> QED
    BY <1>2, MinIs
<1>4. DeletedAt(ops, o) = Min(S)
  BY DEF DeletedAt
<1> QED
  BY <1>2, <1>3, <1>4

\* More operations delete an object, and not later.
LEMMA DeletedMore ==
  ASSUME log \in Logs, NEW more \in SUBSET Ops, NEW ops \in SUBSET more, NEW o, Deleted(ops, o)
  PROVE  Deleted(more, o) /\ DeletedAt(more, o) <= DeletedAt(ops, o)
<1>1. On(ops, o, "delete") \subseteq On(more, o, "delete")
  BY DEF On
<1>2. Deleted(more, o)
  BY <1>1 DEF Deleted
<1>3. ops \in SUBSET Ops
  OBVIOUS
<1>4. PICK op \in On(ops, o, "delete") : DeletedAt(ops, o) = op.serial
  BY <1>3, DeletedAtIs
<1>5. DeletedAt(more, o) <= op.serial
  BY <1>1, <1>2, <1>4, DeletedAtIs
<1> QED
  BY <1>2, <1>4, <1>5

\* The pool q comes from p by building the parents anew.
Rebuilds(p, q) ==
  /\ Sound(q) /\ DOMAIN q = DOMAIN p
  /\ \A o \in DOMAIN p : Alike(q[o], p[o]) /\ HoldSame(q[o], p[o])

\* RebuildParents makes any pool sound whose tombstoned objects are empty.
LEMMA RebuildIs ==
  ASSUME NEW p, IsPool(p), Buried(p)
  PROVE  Rebuilds(p, RebuildParents(p))
<1> DEFINE parents(o) == {place \in References(p, o) : ~EntryTombstoned(p, EntryAt(p, place))}
           f(o) == [p[o] EXCEPT !.parents = parents(o)]
           q == RebuildParents(p)
<1>1. q = [o \in DOMAIN p |-> f(o)]
  BY Zenon DEF RebuildParents
<1>2. ASSUME NEW m \in Maps, NEW k \in Keys, NEW o \in DOMAIN p
      PROVE  <<m, k>> \in parents(o) <=> Refers(p, m, k, o) /\ ~p[o].tombstone
  <2>1. <<m, k>> \in Places(p) <=> m \in DOMAIN p /\ k \in DOMAIN p[m].data
    BY DEF Places
  <2>2. EntryAt(p, <<m, k>>) = p[m].data[k]
    BY DEF EntryAt
  <2>3. <<m, k>> \in References(p, o) <=> Refers(p, m, k, o)
    BY <2>1, <2>2 DEF References, Refers
  <2>4. ASSUME Refers(p, m, k, o)
        PROVE  EntryTombstoned(p, p[m].data[k]) <=> p[o].tombstone
    <3>1. p[m].data[k] \in Entries /\ p[m].data[k].value = o /\ o \in Ids
      BY <2>4, PoolIs, MapDataIs DEF Refers
    <3>2. ~p[m].data[k].tombstone
      BY <3>1, EntryIs, NoneAssumption
    <3> QED
      BY <3>1, <3>2 DEF EntryTombstoned
  <2> QED
    BY <2>2, <2>3, <2>4
<1>3. ASSUME NEW o PROVE parents(o) \subseteq Maps \X Keys
  <2>1. \A m \in Maps \cap DOMAIN p : DOMAIN p[m].data \subseteq Keys
    BY PoolIs, MapDataIs
  <2>2. Places(p) \subseteq Maps \X Keys
    BY <2>1 DEF Places
  <2> QED
    BY <2>2 DEF References
<1> HIDE DEF parents
<1>4. ASSUME NEW o \in DOMAIN p
      PROVE  /\ f(o) \in Replicas(o) /\ Alike(f(o), p[o]) /\ HoldSame(f(o), p[o])
             /\ f(o).parents = parents(o)
  <2>1. p[o] \in Replicas(o)
    BY PoolIs
  <2> QED
    BY <1>3, <2>1 DEF Replicas, Alike, HoldSame
<1>5. IsPool(q)
  BY <1>1, <1>4 DEF IsPool
<1>6. /\ DOMAIN q = DOMAIN p
      /\ \A o \in DOMAIN p : Alike(q[o], p[o]) /\ HoldSame(q[o], p[o]) /\ q[o].parents = parents(o)
  BY <1>1, <1>4
<1> HIDE DEF q
<1>7. \A m \in Maps, k \in Keys, o \in Ids : Refers(q, m, k, o) <=> Refers(p, m, k, o)
  BY <1>6 DEF Refers, HoldSame
<1>8. Linked(q)
  <2> SUFFICES ASSUME NEW o \in DOMAIN p, NEW m \in Maps, NEW k \in Keys
               PROVE  /\ <<m, k>> \in q[o].parents => Refers(q, m, k, o)
                      /\ Refers(q, m, k, o) /\ ~q[o].tombstone => <<m, k>> \in q[o].parents
    BY <1>6, Zenon DEF Linked
  <2>1. o \in Ids /\ q[o].tombstone = p[o].tombstone
    BY <1>6, PoolIs DEF Alike
  <2> QED
    BY <1>2, <1>6, <1>7, <2>1
<1>9. Buried(q)
  BY <1>6 DEF Buried, Alike, HoldSame
<1> QED
  BY <1>5, <1>6, <1>8, <1>9 DEF Sound, Rebuilds, q

\* The pool q is p without data.
Empties(p, q) ==
  /\ Sound(q) /\ DOMAIN q = DOMAIN p /\ Dangling(q) = {}
  /\ \A o \in DOMAIN p : Alike(q[o], p[o]) /\ q[o].data = NewObject(o).data

\* ClearAllData empties every object.
LEMMA ClearAllIs ==
  ASSUME NEW p, Sound(p)
  PROVE  Empties(p, ClearAllData(p))
<1> DEFINE f(o) == [p[o] EXCEPT !.data = NewObject(o).data, !.clear = 0,
                    !.parents = @ \ References(p, o)]
           q == ClearAllData(p)
<1>1. q = [o \in DOMAIN p |-> f(o)]
  BY Zenon DEF ClearAllData
<1>2. ASSUME NEW o \in DOMAIN p
      PROVE  /\ f(o) \in Replicas(o) /\ Alike(f(o), p[o]) /\ f(o).data = NewObject(o).data
             /\ f(o).parents = p[o].parents \ References(p, o)
  <2>1. p[o] \in Replicas(o) /\ NewObject(o) \in Replicas(o)
    BY PoolIs, NewObjectIs DEF Sound
  <2> QED
    BY <2>1, ZenonT(60) DEF Replicas, Alike
<1>3. IsPool(q)
  BY <1>1, <1>2, ZenonT(60) DEF IsPool, Sound
<1>4. /\ DOMAIN q = DOMAIN p
      /\ \A o \in DOMAIN p : Alike(q[o], p[o]) /\ q[o].data = NewObject(o).data
                             /\ q[o].parents = p[o].parents \ References(p, o)
  BY <1>1, <1>2, ZenonT(60)
<1> HIDE DEF q
<1>5. \A m \in Maps, k \in Keys, o \in Ids : ~Refers(q, m, k, o)
  BY <1>4, NewMap DEF Refers
<1>6. ASSUME NEW o \in DOMAIN p, NEW m \in Maps, NEW k \in Keys
      PROVE  <<m, k>> \notin q[o].parents
  <2> SUFFICES ASSUME <<m, k>> \in p[o].parents PROVE <<m, k>> \in References(p, o)
    BY <1>4
  <2>1. Refers(p, m, k, o)
    BY DEF Sound, Linked
  <2> QED
    BY <2>1 DEF Refers, References, Places, EntryAt
<1>7. Linked(q)
  <2>1. DOMAIN q \subseteq Ids
    BY <1>3 DEF IsPool
  <2> QED
    BY <1>4, <1>5, <1>6, <2>1 DEF Linked
<1>8. Buried(q)
  BY <1>4 DEF Buried, Sound, Alike
<1>9. Dangling(q) = {}
  BY <1>5 DEF Dangling
<1> QED
  BY <1>3, <1>4, <1>7, <1>8, <1>9 DEF Sound, Empties, q

\* The pool q is p without the tombstones that are due.
Collects(p, time, q) ==
  /\ Sound(q) /\ DOMAIN q = {o \in DOMAIN p : o = Root \/ ~Due(p[o], time)}
  /\ \A o \in DOMAIN q : Alike(q[o], p[o]) /\ q[o].clear = p[o].clear
  /\ \A o \in Counters \cap DOMAIN q : q[o].data = p[o].data
  /\ \A o \in Maps \cap DOMAIN q :
       /\ DOMAIN q[o].data = {k \in DOMAIN p[o].data : ~Due(p[o].data[k], time)}
       /\ \A k \in DOMAIN q[o].data : q[o].data[k] = p[o].data[k]
  /\ Dangling(q) \subseteq Dangling(p) \union (DOMAIN p \ DOMAIN q)

\* CollectGarbage takes the tombstones that are due, of objects and of entries, and no others.
LEMMA CollectIs ==
  ASSUME NEW p, Sound(p), NEW time \in Nat
  PROVE  Collects(p, time, CollectGarbage(p, time))
<1> DEFINE kept == {o \in DOMAIN p : o = Root \/ ~Due(p[o], time)}
           d(o) == CollectEntries(p[o].data, time)
           f(o) == IF o \in Maps THEN [p[o] EXCEPT !.data = d(o)] ELSE p[o]
           q == CollectGarbage(p, time)
<1>1. q = [o \in kept |-> f(o)]
  BY Zenon DEF CollectGarbage
<1>2. ASSUME NEW o \in DOMAIN p, o \in Maps
      PROVE  /\ d(o) \in MapData
             /\ DOMAIN d(o) = {k \in DOMAIN p[o].data : ~Due(p[o].data[k], time)}
             /\ \A k \in DOMAIN d(o) : d(o)[k] = p[o].data[k]
  <2> DEFINE D == {k \in DOMAIN p[o].data : ~Due(p[o].data[k], time)}
  <2>1. d(o) = [k \in D |-> p[o].data[k]]
    BY DEF CollectEntries
  <2>2. D \in SUBSET DOMAIN p[o].data
    OBVIOUS
  <2>3. p[o].data \in MapData
    BY <1>2, PoolIs DEF Sound
  <2>4. d(o) \in MapData
    <3> HIDE DEF D, d
    <3> QED
      BY <2>1, <2>2, <2>3, MapDataPart
  <2> HIDE DEF d
  <2> QED
    BY <2>1, <2>4
<1> HIDE DEF d
<1>3. ASSUME NEW o \in DOMAIN p
      PROVE  /\ f(o) \in Replicas(o) /\ Alike(f(o), p[o]) /\ f(o).clear = p[o].clear
             /\ f(o).parents = p[o].parents
             /\ o \in Maps => f(o).data = d(o)
             /\ o \in Counters => f(o).data = p[o].data
  <2>1. p[o] \in Replicas(o)
    BY PoolIs DEF Sound
  <2> QED
    BY <1>2, <2>1, RootAssumption DEF Replicas, Alike
<1> HIDE DEF f
<1>4. IsPool(q)
  BY <1>1, <1>3 DEF IsPool, Sound
<1>5. /\ DOMAIN q = kept
      /\ \A o \in kept :
           /\ Alike(q[o], p[o]) /\ q[o].clear = p[o].clear /\ q[o].parents = p[o].parents
           /\ o \in Maps => q[o].data = d(o)
           /\ o \in Counters => q[o].data = p[o].data
  BY <1>1, <1>3
<1> HIDE DEF q
<1>6. /\ kept \subseteq DOMAIN p
      /\ \A o \in DOMAIN p \ kept : o # Root /\ Due(p[o], time)
  OBVIOUS
<1> HIDE DEF kept
<1>7. ASSUME NEW m \in Maps, NEW k \in Keys, NEW o \in Ids
      PROVE  Refers(q, m, k, o) <=> Refers(p, m, k, o)
  <2>1. CASE m \in kept
    <3>1. q[m].data = d(m) /\ m \in DOMAIN p /\ m \in DOMAIN q
      BY <1>5, <1>6, <2>1
    <3>2. k \in DOMAIN p[m].data /\ p[m].data[k].value = o => ~Due(p[m].data[k], time)
      <4> SUFFICES ASSUME k \in DOMAIN p[m].data, p[m].data[k].value = o
                   PROVE  ~Due(p[m].data[k], time)
        OBVIOUS
      <4>1. p[m].data[k] \in Entries
        BY <3>1, PoolIs, MapDataIs DEF Sound
      <4> QED
        BY <4>1, EntryIs, NoneAssumption DEF Due
    <3> QED
      BY <1>2, <3>1, <3>2 DEF Refers
  <2>2. CASE m \in DOMAIN p \ kept
    <3>1. p[m].data = NewObject(m).data
      BY <1>6, <2>2 DEF Due, Sound, Buried
    <3> QED
      BY <1>5, <2>2, <3>1, NewMap DEF Refers
  <2>3. CASE m \notin DOMAIN p
    BY <1>5, <1>6, <2>3 DEF Refers
  <2> QED
    BY <2>1, <2>2, <2>3
<1>8. Linked(q)
  <2> SUFFICES ASSUME NEW o \in DOMAIN q, NEW m \in Maps, NEW k \in Keys
               PROVE  /\ <<m, k>> \in q[o].parents => Refers(q, m, k, o)
                      /\ Refers(q, m, k, o) /\ ~q[o].tombstone => <<m, k>> \in q[o].parents
    BY Zenon DEF Linked
  <2>1. /\ o \in Ids /\ o \in DOMAIN p /\ q[o].tombstone = p[o].tombstone
        /\ q[o].parents = p[o].parents
    BY <1>4, <1>5, <1>6, PoolIs DEF Alike
  <2> QED
    BY <1>7, <2>1 DEF Sound, Linked
<1>9. Buried(q)
  <2> SUFFICES ASSUME NEW o \in DOMAIN q, q[o].tombstone
               PROVE  o # Root /\ q[o].data = NewObject(o).data
    BY DEF Buried
  <2>1. o \in Ids /\ o \in kept /\ o \in DOMAIN p /\ p[o].tombstone
    BY <1>4, <1>5, <1>6, PoolIs DEF Alike
  <2>2. o # Root /\ p[o].data = NewObject(o).data
    BY <2>1 DEF Sound, Buried
  <2>3. CASE o \in Counters
    BY <1>5, <2>1, <2>2, <2>3
  <2>4. CASE o \in Maps
    <3>1. d(o) \in MapData /\ DOMAIN d(o) = {} /\ NewObject(o).data = <<>>
      BY <1>2, <2>1, <2>2, <2>4, NewMap
    <3>2. d(o) = <<>>
      BY <3>1, MapDataNone
    <3> QED
      BY <1>5, <2>1, <2>2, <2>4, <3>1, <3>2
  <2> QED
    BY <2>1, <2>3, <2>4 DEF Ids
<1>10. Dangling(q) \subseteq Dangling(p) \union (DOMAIN p \ DOMAIN q)
  BY <1>7 DEF Dangling
<1>11. Sound(q)
  BY <1>4, <1>8, <1>9 DEF Sound
<1>12. DOMAIN q = {o \in DOMAIN p : o = Root \/ ~Due(p[o], time)}
  BY <1>5 DEF kept
<1>13. ASSUME NEW o \in Maps \cap DOMAIN q
       PROVE  /\ DOMAIN q[o].data = {k \in DOMAIN p[o].data : ~Due(p[o].data[k], time)}
              /\ \A k \in DOMAIN q[o].data : q[o].data[k] = p[o].data[k]
  <2>1. q[o].data = d(o) /\ o \in DOMAIN p /\ o \in Maps
    BY <1>5, <1>6
  <2> QED
    BY <1>2, <2>1
<1>14. \A o \in Counters \cap DOMAIN q : q[o].data = p[o].data
  BY <1>5
<1>15. \A o \in DOMAIN q : Alike(q[o], p[o]) /\ q[o].clear = p[o].clear
  BY <1>5
<1> QED
  BY <1>10, <1>11, <1>12, <1>13, <1>14, <1>15, Zenon DEF Collects, q

-----------------------------------------------------------------------------
(* Sums of amounts.                                                        *)

\* The sum of the amounts of operations.
Total(S) == MapThenSumSet(LAMBDA op : op.amount, S)

\* The element the sum takes first, and the sums of all the subsets of a set.
Pick(s) == CHOOSE x \in s : TRUE
\* The function f sums the subsets of S, in the order of the definition.
IsSum(S, f) == f = [s \in SUBSET S |-> IF s = {} THEN 0 ELSE Pick(s).amount + f[s \ {Pick(s)}]]

\* The sum of a set is that of such a function.
LEMMA TotalIs ==
  ASSUME NEW S
  PROVE  Total(S) = (CHOOSE f : IsSum(S, f))[S]
  BY DEF Total, MapThenSumSet, MapThenFoldSet, IsSum, Pick

\* It sums all the subsets of U.
SumsUp(U, f) == f \in [SUBSET U -> Int] /\ IsSum(U, f)

\* A finite set of operations with amounts.
Amounts(U) == IsFiniteSet(U) /\ \A x \in U : x.amount \in Int

\* A finite set without one of its elements is smaller by one.
LEMMA LessOne ==
  ASSUME NEW U, IsFiniteSet(U), NEW s \in SUBSET U, NEW x \in s
  PROVE  /\ IsFiniteSet(s) /\ Cardinality(s) \in Nat \ {0} /\ s \ {x} \in SUBSET U
         /\ Cardinality(s \ {x}) = Cardinality(s) - 1
<1>1. IsFiniteSet(s)
  BY FS_Subset
<1>2. Cardinality(s) \in Nat /\ Cardinality(s) # 0
  BY <1>1, FS_CardinalityType, FS_EmptySet
<1>3. Cardinality(s \ {x}) = Cardinality(s) - 1
  BY <1>1, FS_RemoveElement
<1> QED
  BY <1>1, <1>2, <1>3

\* The first element taken is an element.
LEMMA PickIs ==
  ASSUME NEW s, s # {}
  PROVE  Pick(s) \in s
  BY DEF Pick

\* The sums of the subsets of up to so many elements.
Sums(U, n, f) ==
  /\ \A s \in SUBSET U : Cardinality(s) <= n => f[s] \in Int
  /\ \A s \in SUBSET U : Cardinality(s) <= n =>
       f[s] = IF s = {} THEN 0 ELSE Pick(s).amount + f[s \ {Pick(s)}]

\* Subsets of up to any size have sums.
LEMMA SumsExist ==
  ASSUME NEW U, Amounts(U), NEW n \in Nat
  PROVE  \E f : Sums(U, n, f)
<1> DEFINE T == {k \in Nat : \E f : Sums(U, k, f)}
<1>1. \A s \in SUBSET U : Cardinality(s) \in Nat /\ (Cardinality(s) = 0 => s = {})
  BY FS_Subset, FS_CardinalityType, FS_EmptySet DEF Amounts
<1>2. 0 \in T
  <2> DEFINE f == [s \in SUBSET U |-> 0]
  <2>1. \A s \in SUBSET U : Cardinality(s) <= 0 => s = {}
    BY <1>1
  <2>2. Sums(U, 0, f)
    BY <2>1 DEF Sums
  <2> HIDE DEF f
  <2> QED
    BY <2>2
<1>3. ASSUME NEW k \in T PROVE k + 1 \in T
  <2>1. PICK f : Sums(U, k, f)
    OBVIOUS
  <2> DEFINE g == [s \in SUBSET U |->
                 IF Cardinality(s) <= k THEN f[s] ELSE Pick(s).amount + f[s \ {Pick(s)}]]
  <2>2. k \in Nat
    OBVIOUS
  <2>3. ASSUME NEW s \in SUBSET U, Cardinality(s) <= k + 1
        PROVE  g[s] \in Int /\ g[s] = IF s = {} THEN 0 ELSE Pick(s).amount + g[s \ {Pick(s)}]
    <3>1. CASE s = {}
      <4>1. Cardinality(s) <= k
        BY <2>2, <3>1, FS_EmptySet
      <4> QED
        BY <2>1, <3>1, <4>1 DEF Sums
    <3>2. CASE s # {}
      <4> DEFINE x == Pick(s)
                 r == s \ {x}
      <4>1. x \in s /\ x.amount \in Int
        BY <3>2, PickIs DEF Amounts
      <4>2. r \in SUBSET U /\ Cardinality(s) \in Nat /\ Cardinality(r) = Cardinality(s) - 1
        BY <4>1, LessOne DEF Amounts
      <4> HIDE DEF r
      <4>3. Cardinality(r) <= k
        BY <2>2, <2>3, <4>2
      <4>4. g[r] = f[r] /\ f[r] \in Int
        BY <2>1, <4>2, <4>3 DEF Sums
      <4>5. g[s] = x.amount + f[r]
        <5>1. CASE Cardinality(s) <= k
          BY <2>1, <3>2, <5>1 DEF Sums, r
        <5>2. CASE ~(Cardinality(s) <= k)
          BY <5>2 DEF r
        <5> QED
          BY <5>1, <5>2
      <4> QED
        BY <3>2, <4>1, <4>4, <4>5 DEF r
    <3> QED
      BY <3>1, <3>2
  <2> HIDE DEF g
  <2>4. Sums(U, k + 1, g)
    BY <2>3 DEF Sums
  <2> QED
    BY <2>2, <2>4
<1>4. T = Nat
  <2>1. T \in SUBSET Nat
    OBVIOUS
  <2> HIDE DEF T
  <2> QED
    BY <1>2, <1>3, <2>1, Induction
<1> QED
  BY <1>4

\* The sums of all the subsets of a finite set.
LEMMA SumExists ==
  ASSUME NEW U, Amounts(U)
  PROVE  \E f : SumsUp(U, f)
<1> DEFINE n == Cardinality(U)
<1>1. n \in Nat /\ \A s \in SUBSET U : Cardinality(s) <= n
  BY FS_Subset, FS_CardinalityType DEF Amounts
<1> HIDE DEF n
<1>2. PICK g : Sums(U, n, g)
  BY <1>1, SumsExist
<1> DEFINE f == [s \in SUBSET U |-> g[s]]
<1>3. f \in [SUBSET U -> Int]
  BY <1>1, <1>2 DEF Sums
<1>4. ASSUME NEW s \in SUBSET U
      PROVE  f[s] = IF s = {} THEN 0 ELSE Pick(s).amount + f[s \ {Pick(s)}]
  <2>1. s \ {Pick(s)} \in SUBSET U
    OBVIOUS
  <2> QED
    BY <1>1, <1>2, <2>1 DEF Sums
<1> HIDE DEF f
<1>5. IsSum(U, f)
  BY <1>3, <1>4 DEF IsSum
<1> QED
  BY <1>3, <1>5 DEF SumsUp

\* There is one such function, whatever else it is said to sum.
LEMMA SumSame ==
  ASSUME NEW U, Amounts(U), NEW S \in SUBSET U, NEW f, IsSum(U, f), NEW g, IsSum(S, g)
  PROVE  \A s \in SUBSET S : f[s] = g[s]
<1> DEFINE T == {n \in Nat : \A s \in SUBSET S : Cardinality(s) = n => f[s] = g[s]}
<1>0. /\ \A s \in SUBSET S : f[s] = IF s = {} THEN 0 ELSE Pick(s).amount + f[s \ {Pick(s)}]
      /\ \A s \in SUBSET S : g[s] = IF s = {} THEN 0 ELSE Pick(s).amount + g[s \ {Pick(s)}]
  BY DEF IsSum
<1>1. \A s \in SUBSET S : Cardinality(s) \in Nat /\ (Cardinality(s) = 0 => s = {})
  BY FS_Subset, FS_CardinalityType, FS_EmptySet DEF Amounts
<1>2. 0 \in T
  BY <1>0, <1>1
<1>3. ASSUME NEW k \in T PROVE k + 1 \in T
  <2> SUFFICES ASSUME NEW s \in SUBSET S, Cardinality(s) = k + 1 PROVE f[s] = g[s]
    OBVIOUS
  <2>1. s # {}
    BY FS_EmptySet
  <2> DEFINE x == Pick(s)
             r == s \ {x}
  <2>2. x \in s
    BY <2>1, PickIs
  <2>3. r \in SUBSET S /\ Cardinality(r) = k
    BY <2>2, LessOne DEF Amounts
  <2>4. f[r] = g[r]
    BY <2>3
  <2> QED
    BY <1>0, <2>1, <2>4
<1>4. T = Nat
  <2>1. T \in SUBSET Nat
    OBVIOUS
  <2> HIDE DEF T
  <2> QED
    BY <1>2, <1>3, <2>1, Induction
<1> QED
  BY <1>1, <1>4

\* The sum of a set is that of any function that sums its supersets.
LEMMA TotalOf ==
  ASSUME NEW U, Amounts(U), NEW f, IsSum(U, f), NEW S \in SUBSET U
  PROVE  Total(S) = f[S]
<1>1. Amounts(S)
  BY FS_Subset DEF Amounts
<1>2. \E g : IsSum(S, g)
  BY <1>1, SumExists DEF SumsUp
<1>3. IsSum(S, CHOOSE g : IsSum(S, g))
  BY <1>2, Zenon
<1> DEFINE g == CHOOSE h : IsSum(S, h)
<1>4. Total(S) = g[S] /\ IsSum(S, g)
  BY <1>3, TotalIs
<1> HIDE DEF g
<1> QED
  BY <1>4, SumSame

\* Any element may be taken first.
AnyFirst(U, f) == \A s \in SUBSET U : \A x \in s : f[s] = x.amount + f[s \ {x}]

\* The order of a sum does not matter.
LEMMA SumTakes ==
  ASSUME NEW U, Amounts(U), NEW f, SumsUp(U, f)
  PROVE  AnyFirst(U, f)
<1> DEFINE T == {n \in Nat :
                   \A s \in SUBSET U :
                     Cardinality(s) = n => \A x \in s : f[s] = x.amount + f[s \ {x}]}
<1>0. \A s \in SUBSET U : f[s] = IF s = {} THEN 0 ELSE Pick(s).amount + f[s \ {Pick(s)}]
  BY DEF IsSum, SumsUp
<1>1. \A s \in SUBSET U : Cardinality(s) \in Nat /\ (Cardinality(s) = 0 => s = {})
  BY FS_Subset, FS_CardinalityType, FS_EmptySet DEF Amounts
<1>2. 0 \in T
  BY <1>1
<1>3. ASSUME NEW k \in T PROVE k + 1 \in T
  <2> SUFFICES ASSUME NEW s \in SUBSET U, Cardinality(s) = k + 1, NEW x \in s
               PROVE  f[s] = x.amount + f[s \ {x}]
    OBVIOUS
  <2> DEFINE c == Pick(s)
             rc == s \ {c}
             rx == s \ {x}
             r == s \ {c, x}
  <2>1. c \in s /\ f[s] = c.amount + f[rc]
    BY <1>0, PickIs
  <2>2. CASE x = c
    BY <2>1, <2>2
  <2>3. CASE x # c
    <3>1. rc \in SUBSET U /\ rx \in SUBSET U /\ Cardinality(rc) = k /\ Cardinality(rx) = k
      <4>1. \A y \in s : s \ {y} \in SUBSET U /\ Cardinality(s \ {y}) = Cardinality(s) - 1
        BY LessOne DEF Amounts
      <4>2. k \in Nat
        OBVIOUS
      <4> HIDE DEF T, c
      <4> QED
        BY <2>1, <4>1, <4>2
    <3>2. x \in rc /\ c \in rx /\ rc \ {x} = r /\ rx \ {c} = r /\ r \in SUBSET U
      BY <2>1, <2>3
    <3> HIDE DEF rc, rx, r
    <3>3. f[rc] = x.amount + f[r]
      BY <3>1, <3>2
    <3>4. f[rx] = c.amount + f[r]
      BY <3>1, <3>2
    <3>5. f[r] \in Int /\ x.amount \in Int /\ c.amount \in Int
      BY <2>1, <3>2 DEF Amounts, SumsUp
    <3> QED
      BY <2>1, <3>3, <3>4, <3>5 DEF rx
  <2> QED
    BY <2>2, <2>3
<1>4. T = Nat
  <2>1. T \in SUBSET Nat
    OBVIOUS
  <2> HIDE DEF T
  <2> QED
    BY <1>2, <1>3, <2>1, Induction
<1> QED
  BY <1>1, <1>4 DEF AnyFirst

\* A sum is an integer, and any element may be taken from it.
LEMMA TotalTakes ==
  ASSUME NEW S, Amounts(S)
  PROVE  /\ Total(S) \in Int
         /\ S = {} => Total(S) = 0
         /\ \A x \in S : Total(S) = x.amount + Total(S \ {x})
<1>1. PICK f : SumsUp(S, f)
  BY SumExists
<1>2. \A s \in SUBSET S : Total(s) = f[s]
  BY <1>1, TotalOf DEF SumsUp
<1>3. \A x \in S : f[S] = x.amount + f[S \ {x}]
  <2>1. \A s \in SUBSET S : \A x \in s : f[s] = x.amount + f[s \ {x}]
    <3>1. AnyFirst(S, f)
      BY <1>1, SumTakes
    <3> QED
      BY <3>1 DEF AnyFirst
  <2>2. S \in SUBSET S
    OBVIOUS
  <2> QED
    BY <2>1, <2>2, Zenon
<1>4. f[{}] = 0
  BY <1>1 DEF IsSum, SumsUp
<1>5. S \in SUBSET S /\ \A x \in S : S \ {x} \in SUBSET S
  OBVIOUS
<1>6. \A x \in S : Total(S \ {x}) = f[S \ {x}]
  BY <1>2, <1>5
<1>7. Total(S) = f[S]
  BY <1>2, <1>5
<1>8. f[S] \in Int
  BY <1>1, <1>5 DEF SumsUp
<1> QED
  BY <1>3, <1>4, <1>5, <1>6, <1>7, <1>8

-----------------------------------------------------------------------------
(* What operations mean.                                                   *)

\* The serial of the last clear, 0 when there is none.
LEMMA LastClearIs ==
  ASSUME log \in Logs, NEW ops \in SUBSET Ops, NEW m
  PROVE  /\ LastClear(ops, m) \in 0..MaxOps
         /\ LastClear(ops, m) # 0 => \E op \in On(ops, m, "clear") : op.serial = LastClear(ops, m)
         /\ \A op \in On(ops, m, "clear") : op.serial <= LastClear(ops, m)
<1> DEFINE S == {0} \union {op.serial : op \in On(ops, m, "clear")}
<1>1. \A op \in On(ops, m, "clear") : op.serial \in 1..MaxOps
  BY OpsAre DEF IsOp, On
<1>2. S \in SUBSET (0..MaxOps) /\ S # {} /\ MaxOps \in Nat
  BY <1>1, MaxOpsAssumption
<1>3. Max(S) \in S /\ \A n \in S : n <= Max(S)
  <2> HIDE DEF S
  <2> QED
    BY <1>2, MaxIs
<1>4. LastClear(ops, m) = Max(S)
  BY DEF LastClear
<1> QED
  BY <1>2, <1>3, <1>4

\* The entry an operation writes to a key.
Writer(op, k, e) ==
  /\ op.key = k /\ e.serial = op.serial
  /\ \/ op.action = "set" /\ e = Entry(op.value, op.serial)
     \/ op.action = "remove" /\ e = RemovedEntry(op.serial)

\* An entry written to a key is that of an operation on the key.
LEMMA WrittenIs ==
  ASSUME log \in Logs, NEW ops \in SUBSET Ops, NEW m \in Maps, NEW k
  PROVE  /\ \A e \in Written(ops, m, k) :
              /\ e \in Entries /\ e.serial \in 1..MaxOps
              /\ \E op \in ops : op.object = m /\ Writer(op, k, e)
         /\ \A op \in ops : \A e : op.object = m /\ Writer(op, k, e) => e \in Written(ops, m, k)
<1>1. ASSUME NEW op \in ops, op.object = m
      PROVE  /\ op.serial \in 1..MaxOps /\ op.serial \in Nat
             /\ op.action = "set" => op.value \in Values
  BY <1>1, OpsAre, MaxOpsAssumption DEF IsOp, IsMapOp
<1>2. ASSUME NEW op \in ops, op.object = m, op.action = "set", op.key = k
      PROVE  /\ Entry(op.value, op.serial) \in Entries /\ Writer(op, k, Entry(op.value, op.serial))
             /\ Entry(op.value, op.serial).serial = op.serial
  <2>1. Entry(op.value, op.serial) \in Entries
    BY <1>1, <1>2 DEF Entries
  <2>2. Entry(op.value, op.serial).serial = op.serial
    BY DEF Entry
  <2> QED
    BY <1>2, <2>1, <2>2 DEF Writer
<1>3. ASSUME NEW op \in ops, op.object = m, op.action = "remove", op.key = k
      PROVE  /\ RemovedEntry(op.serial) \in Entries /\ Writer(op, k, RemovedEntry(op.serial))
             /\ RemovedEntry(op.serial).serial = op.serial
  <2>1. RemovedEntry(op.serial) \in Entries
    BY <1>1, <1>3 DEF Entries
  <2>2. RemovedEntry(op.serial).serial = op.serial
    BY DEF RemovedEntry
  <2> QED
    BY <1>3, <2>1, <2>2 DEF Writer
<1>4. ASSUME NEW e \in Written(ops, m, k)
      PROVE  /\ e \in Entries /\ e.serial \in 1..MaxOps
             /\ \E op \in ops : op.object = m /\ Writer(op, k, e)
  <2>1. CASE \E op \in On(ops, m, "set") : op.key = k /\ e = Entry(op.value, op.serial)
    BY <1>1, <1>2, <2>1 DEF On
  <2>2. CASE \E op \in On(ops, m, "remove") : op.key = k /\ e = RemovedEntry(op.serial)
    BY <1>1, <1>3, <2>2 DEF On
  <2> QED
    BY <2>1, <2>2 DEF Written
<1>5. ASSUME NEW op \in ops, NEW e, op.object = m, Writer(op, k, e)
      PROVE  e \in Written(ops, m, k)
  BY <1>5 DEF Writer, Written, On
<1> QED
  BY <1>4, <1>5

\* The entries a map is made with come from the operation that makes it.
ComesWith(ops, m, k, e) ==
  /\ e \in Entries /\ e.serial = 0
  /\ \E op \in On(ops, m, "create") : k \in DOMAIN op.entries /\ e = op.entries[k]

\* An entry a map is made with is that of its create.
LEMMA InitialsAre ==
  ASSUME log \in Logs, NEW ops \in SUBSET Ops, NEW m \in Maps, NEW k, NEW e \in Initial(ops, m, k)
  PROVE  ComesWith(ops, m, k, e)
<1>1. ASSUME NEW op \in On(ops, m, "create")
      PROVE  \A x \in DOMAIN op.entries : op.entries[x] \in Initials
  BY OpsAre, RootAssumption DEF On, IsOp, IsMapOp
<1> QED
  BY <1>1 DEF Initial, Initials, ComesWith

\* An operation knows what it mentions.
LEMMA KnownIs ==
  ASSUME log \in Logs, NEW ops \in SUBSET Ops
  PROVE  /\ Root \in Known(ops) /\ Known(ops) \subseteq Ids
         /\ \A op \in ops : Mentioned(op) \subseteq Known(ops)
<1>1. \A op \in ops : Mentioned(op) \subseteq Ids
  BY OpsAre DEF IsOp, Mentioned
<1> QED
  BY <1>1, RootAssumption DEF Known, Ids

\* What an entry references is known.
LEMMA KnownValues ==
  ASSUME log \in Logs, NEW ops \in SUBSET Ops, NEW m \in Maps, NEW k, NEW e, e.value \in Ids
  PROVE  /\ e \in Written(ops, m, k) => e.value \in Known(ops)
         /\ e \in Initial(ops, m, k) => e.value \in Known(ops)
<1>1. ASSUME e \in Written(ops, m, k)
      PROVE  e.value \in Known(ops)
  <2>1. PICK op \in ops : op.object = m /\ Writer(op, k, e)
    BY <1>1, WrittenIs
  <2>2. op.action = "set" /\ e.value = op.value
    BY <2>1, NoneAssumption DEF Writer, Entry, RemovedEntry
  <2>3. e.value \in Mentioned(op)
    BY <2>2 DEF Mentioned
  <2> QED
    BY <2>3, KnownIs
<1>2. ASSUME e \in Initial(ops, m, k)
      PROVE  e.value \in Known(ops)
  <2>1. PICK op \in On(ops, m, "create") : k \in DOMAIN op.entries /\ e = op.entries[k]
    BY <1>2 DEF Initial
  <2>2. e.value \in Mentioned(op) /\ op \in ops
    BY <2>1 DEF Mentioned, On
  <2> QED
    BY <2>2, KnownIs
<1> QED
  BY <1>1, <1>2

-----------------------------------------------------------------------------
(* What the service sends of an object.                                    *)

\* The state st stands for the operations on an object.
StatesOf(ops, o, st) ==
  /\ st.object = o
  /\ st.siteSerials \in [Sites -> 0..MaxOps]
  /\ \A s \in Sites : IsLastSerial(ops, o, s, st.siteSerials[s])
  /\ st.tombstone = Deleted(ops, o) /\ st.at = DeletedAt(ops, o) /\ st.at \in Nat
  /\ st.clear \in Nat /\ (~st.tombstone => st.clear = LastClear(ops, o))
  /\ o \in Counters => st.amount \in Int /\ (~st.tombstone => st.amount = Total(On(ops, o, "inc")))
  /\ o \in Maps =>
       /\ st.entries \in MapData
       /\ ~st.tombstone =>
            /\ \A k \in Keys : k \in DOMAIN st.entries <=> Latest(ops, o, Written(ops, o, k)) # {}
            /\ \A k \in DOMAIN st.entries : st.entries[k] \in Latest(ops, o, Written(ops, o, k))
  /\ ~st.tombstone => \/ st.create = None /\ On(ops, o, "create") = {}
                      \/ st.create # None /\ st.create \in On(ops, o, "create")

\* The greatest serial of a site is that of its last operation.
LEMMA SiteSerialIs ==
  ASSUME log \in Logs, NEW ops \in SUBSET Ops, NEW o, NEW s
  PROVE  LET n == Max({0} \union {op.serial : op \in {x \in ops : x.object = o /\ x.site = s}})
         IN  n \in 0..MaxOps /\ IsLastSerial(ops, o, s, n)
<1> DEFINE S == {0} \union {op.serial : op \in {x \in ops : x.object = o /\ x.site = s}}
<1>1. \A op \in ops : op.serial \in 1..MaxOps
  BY OpsAre DEF IsOp
<1>2. S \in SUBSET (0..MaxOps) /\ S # {} /\ MaxOps \in Nat
  BY <1>1, MaxOpsAssumption
<1>3. Max(S) \in S /\ \A n \in S : n <= Max(S)
  <2> HIDE DEF S
  <2> QED
    BY <1>2, MaxIs
<1>4. Max(S) \in 0..MaxOps
  BY <1>2, <1>3
<1>5. IsLastSerial(ops, o, s, Max(S))
  BY <1>3 DEF IsLastSerial
<1> QED
  BY <1>4, <1>5

\* There are finitely many operations,
LEMMA OpsFinite ==
  ASSUME log \in Logs
  PROVE  IsFiniteSet(Ops)
<1>1. DOMAIN log = 1..MaxOps
  BY LogIs
<1>2. IsFiniteSet(1..MaxOps)
  BY FS_Interval, MaxOpsAssumption
<1> DEFINE f == [i \in 1..MaxOps |-> log[i]]
<1>3. f \in Surjection(1..MaxOps, Ops)
  BY <1>1 DEF Surjection, Ops
<1> HIDE DEF f
<1> QED
  BY <1>2, <1>3, FS_Surjection

\* so the amounts of a counter can be summed.
LEMMA CounterAmounts ==
  ASSUME log \in Logs, NEW ops \in SUBSET Ops, NEW c \in Counters
  PROVE  \A S \in SUBSET (On(ops, c, "inc") \union On(ops, c, "create")) : Amounts(S)
<1> TAKE S \in SUBSET (On(ops, c, "inc") \union On(ops, c, "create"))
<1>1. S \in SUBSET Ops
  BY DEF On
<1>2. IsFiniteSet(S)
  BY <1>1, OpsFinite, FS_Subset
<1>3. \A x \in S : x.amount \in Int
  BY <1>1, OpsAre DEF On, IsOp, IsCounterOp
<1> QED
  BY <1>2, <1>3 DEF Amounts

\* StateOf stands for the operations.
LEMMA StateIs ==
  ASSUME log \in Logs, NEW ops \in SUBSET Ops, NEW o \in Ids
  PROVE  StatesOf(ops, o, StateOf(ops, o, Keys))
<1> DEFINE st == StateOf(ops, o, Keys)
           last(k) == Latest(ops, o, Written(ops, o, k))
           gone == Deleted(ops, o)
           creates == On(ops, o, "create")
           serial(s) ==
               Max({0} \union {op.serial : op \in {x \in ops : x.object = o /\ x.site = s}})
<1>1. /\ st.object = o /\ st.siteSerials = [s \in Sites |-> serial(s)]
      /\ st.tombstone = gone /\ st.at = DeletedAt(ops, o)
      /\ st.clear = IF gone THEN 0 ELSE LastClear(ops, o)
      /\ st.amount = IF gone THEN 0 ELSE Total(On(ops, o, "inc"))
      /\ st.entries = IF gone THEN <<>>
                        ELSE [k \in {k \in Keys : last(k) # {}} |-> CHOOSE e \in last(k) : TRUE]
      /\ st.create = IF gone \/ creates = {} THEN None ELSE CHOOSE op \in creates : TRUE
  BY DEF StateOf, Total
<1> HIDE DEF st
<1>2. \A s \in Sites : serial(s) \in 0..MaxOps /\ IsLastSerial(ops, o, s, serial(s))
  BY SiteSerialIs
<1> HIDE DEF serial
<1>3. /\ st.siteSerials \in [Sites -> 0..MaxOps]
      /\ \A s \in Sites : IsLastSerial(ops, o, s, st.siteSerials[s])
  BY <1>1, <1>2
<1>4. DeletedAt(ops, o) \in Nat
  <2>1. CASE gone
    BY <2>1, DeletedAtIs, MaxOpsAssumption
  <2>2. CASE ~gone
    BY <2>2 DEF DeletedAt
  <2> QED
    BY <2>1, <2>2
<1>5. st.clear \in Nat
  BY <1>1, LastClearIs, MaxOpsAssumption
<1>6. o \in Counters => st.amount \in Int
  <2> SUFFICES ASSUME o \in Counters PROVE Total(On(ops, o, "inc")) \in Int
    BY <1>1
  <2>1. Amounts(On(ops, o, "inc"))
    BY CounterAmounts
  <2> QED
    BY <2>1, TotalTakes
<1>7. ASSUME o \in Maps
      PROVE  /\ st.entries \in MapData
             /\ ~gone =>
                  /\ \A k \in Keys : k \in DOMAIN st.entries <=> last(k) # {}
                  /\ \A k \in DOMAIN st.entries : st.entries[k] \in last(k)
  <2>1. CASE gone
    BY <1>1, <2>1, MapDataEmpty
  <2>2. CASE ~gone
    <3> DEFINE D == {k \in Keys : last(k) # {}}
               c(k) == CHOOSE e \in last(k) : TRUE
    <3>1. st.entries = [k \in D |-> c(k)]
      BY <1>1, <2>2
    <3>2. \A k \in D : c(k) \in last(k)
      OBVIOUS
    <3>3. \A k \in Keys : last(k) \subseteq Entries
      BY <1>7, WrittenIs DEF Latest
    <3> HIDE DEF last, c
    <3>4. [k \in D |-> c(k)] \in [D -> Entries] /\ D \subseteq Keys
      BY <3>2, <3>3
    <3>5. st.entries \in MapData
      BY <3>1, <3>4 DEF MapData
    <3> QED
      BY <3>1, <3>2, <3>5
  <2> QED
    BY <2>1, <2>2
<1>8. ~gone => \/ st.create = None /\ creates = {}
               \/ st.create # None /\ st.create \in creates
  <2>1. \A op \in creates : op # None
    BY OpsAre DEF On
  <2> HIDE DEF creates
  <2> QED
    BY <1>1, <2>1
<1> QED
  BY <1>1, <1>3, <1>4, <1>5, <1>6, <1>7, <1>8 DEF StatesOf, st

-----------------------------------------------------------------------------
(* What a sync does to an object.                                          *)

\* Of the pool q, when x is put in the place of an object.
PutsIn(p, o, x, q) == IsPool(q) /\ DOMAIN q = DOMAIN p /\ q[o] = x

\* An object may be put in the place of the old, when the parents do not matter.
LEMMA PutInIs ==
  ASSUME NEW p, IsPool(p), NEW o \in DOMAIN p, NEW x \in Replicas(o)
  PROVE  PutsIn(p, o, x, [p EXCEPT ![o] = x])
<1> DEFINE q == [p EXCEPT ![o] = x]
<1>1. /\ DOMAIN q = DOMAIN p /\ q[o] = x /\ (\A n \in DOMAIN p \ {o} : q[n] = p[n])
      /\ q = [n \in DOMAIN q |-> q[n]]
  OBVIOUS
<1> HIDE DEF q
<1>2. IsPool(q)
  BY <1>1 DEF IsPool
<1> QED
  BY <1>1, <1>2 DEF PutsIn, q

\* The object y is x, deleted.
Deletes(o, x, at, y) ==
  /\ y \in Replicas(o) /\ y.tombstone /\ y.at = at
  /\ y.siteSerials = x.siteSerials /\ y.data = NewObject(o).data

\* Tombstone deletes an object, when the parents do not matter.
LEMMA DeletesIs ==
  ASSUME NEW p, IsPool(p), NEW o \in DOMAIN p, o # Root, NEW at \in Nat
  PROVE  Deletes(o, p[o], at, Tombstone(p, o, at).pool[o])
<1> DEFINE c == ClearData(p, o)
           x == [c[o] EXCEPT !.tombstone = TRUE, !.at = at]
           q == [c EXCEPT ![o] = x]
<1>1. Tombstone(p, o, at).pool = q
  BY DEF Tombstone, Applied
<1>2. o \in Ids /\ p[o] \in Replicas(o)
  BY PoolIs
<1> HIDE DEF c
<1>3. /\ IsPool(c) /\ DOMAIN c = DOMAIN p /\ c[o].siteSerials = p[o].siteSerials
      /\ c[o].data = NewObject(o).data
  <2>1. CASE o \in Counters
    <3> DEFINE y == [p[o] EXCEPT !.data = 0]
    <3>1. c = [p EXCEPT ![o] = y]
      BY <2>1 DEF c, ClearData, ClearCounter
    <3>2. y \in Replicas(o) /\ y.data = 0 /\ y.siteSerials = p[o].siteSerials
      BY <1>2, <2>1 DEF Replicas
    <3>3. NewObject(o).data = 0
      BY <2>1 DEF NewObject
    <3> HIDE DEF y
    <3>4. PutsIn(p, o, y, c)
      BY <3>1, <3>2, PutInIs
    <3> QED
      BY <3>2, <3>3, <3>4 DEF PutsIn
  <2>2. CASE o \in Maps
    <3> DEFINE keys == DOMAIN p[o].data
    <3>1. c = Dropped(p, o, keys, 0)
      BY <2>2, RootAssumption, ClearMapIs DEF c, ClearData
    <3>2. keys \in SUBSET DOMAIN p[o].data /\ 0 \in Nat /\ o \in Maps /\ o \in DOMAIN p
      BY <2>2
    <3> HIDE DEF keys
    <3>3. Drops(p, o, keys, 0, c)
      BY <3>1, <3>2, DropIs
    <3>4. /\ IsPool(c) /\ DOMAIN c = DOMAIN p /\ DOMAIN c[o].data = {}
          /\ c[o].siteSerials = p[o].siteSerials
      BY <3>2, <3>3 DEF Drops, keys, Alike
    <3>5. c[o].data = <<>>
      BY <3>2, <3>4, PoolIs, MapDataNone
    <3> QED
      BY <3>2, <3>4, <3>5, NewMap
  <2> QED
    BY <1>2, <2>1, <2>2 DEF Ids
<1>4. /\ x \in Replicas(o) /\ x.data = c[o].data /\ x.tombstone /\ x.at = at
      /\ x.siteSerials = c[o].siteSerials
  <2>1. c[o] \in Replicas(o)
    BY <1>3, PoolIs
  <2> QED
    BY <2>1 DEF Replicas
<1> HIDE DEF x
<1>5. PutsIn(c, o, x, q)
  BY <1>3, <1>4, PutInIs
<1> QED
  BY <1>1, <1>3, <1>4, <1>5 DEF PutsIn, Deletes

\* The map y comes from x by entries that are taken and by having its initial value.
Initialises(m, x, d, y) ==
  /\ y \in Replicas(m) /\ Entered(x, y, d) /\ y.merged
  /\ y.siteSerials = x.siteSerials /\ y.tombstone = x.tombstone /\ y.at = x.at

\* MergeMap takes the entries of a create, when the parents do not matter.
LEMMA MergedMapIs ==
  ASSUME NEW p, IsPool(p), NEW m \in Maps, m \in DOMAIN p, NEW d \in MapData,
         \A k \in DOMAIN d : InitialEntry(d[k]) = d[k], NEW create, create.entries = d
  PROVE  Initialises(m, p[m], d, MergeMap(p, m, create).pool[m])
<1> DEFINE a == ApplyEntries(p, m, d)
           taken == Taken(p[m], d)
           e == [k \in taken |-> d[k]]
           x == a.pool[m]
           y == [x EXCEPT !.merged = TRUE]
           q == [a.pool EXCEPT ![m] = y]
<1>1. d = [k \in DOMAIN d |-> InitialEntry(d[k])]
  BY DEF MapData
<1>2. MergeMap(p, m, create).pool = q
  <2>1. MergeMap(p, m, create) = AsCreated(a, m)
    BY <1>1, Zenon DEF MergeMap
  <2>2. [a.pool EXCEPT ![m].merged = TRUE] = q
    OBVIOUS
  <2> HIDE DEF a, q
  <2> QED
    BY <2>1, <2>2 DEF AsCreated, Applied
<1>3. a.pool = IF taken = {} THEN p ELSE WriteEntries(p, m, e)
  BY DEF ApplyEntries, Taken, AtOrBeforeClear, Newer, Noop, Applied, Update
<1>4. taken \in SUBSET DOMAIN d /\ taken = Taken(p[m], d) /\ p[m].data \in MapData
  BY PoolIs DEF Taken
<1> HIDE DEF a, taken
<1>5. /\ IsPool(a.pool) /\ m \in DOMAIN a.pool /\ Alike(x, p[m]) /\ Entered(p[m], x, d)
  <2>1. CASE taken = {}
    BY <1>3, <1>4, <2>1, MapDataIs DEF Entered, Alike
  <2>2. CASE taken # {}
    <3>1. e \in MapData /\ DOMAIN e = taken /\ \A k \in taken : e[k] = d[k]
      BY <1>4, MapDataPart
    <3> HIDE DEF e
    <3>2. Writes(p, m, e, a.pool)
      BY <1>3, <2>2, <3>1, WriteIs
    <3>3. Alike(x, p[m]) /\ x.clear = p[m].clear /\ Overs(e, p[m].data, x.data)
      BY <3>2, OverIs DEF Writes, At
    <3>4. Entered(p[m], x, d)
      BY <1>4, <3>1, <3>3 DEF Entered, Overs
    <3> QED
      BY <3>2, <3>3, <3>4 DEF Writes
  <2> QED
    BY <2>1, <2>2
<1>6. x \in Replicas(m)
  BY <1>5, PoolIs
<1> HIDE DEF x
<1>7. /\ y \in Replicas(m) /\ HoldSame(x, y) /\ y.merged /\ y.siteSerials = x.siteSerials
      /\ y.tombstone = x.tombstone /\ y.at = x.at
  BY <1>6 DEF Replicas, HoldSame
<1> HIDE DEF y
<1>8. PutsIn(a.pool, m, y, q)
  BY <1>5, <1>7, PutInIs
<1>9. Entered(p[m], y, d)
  BY <1>5, <1>7 DEF Entered, HoldSame
<1> QED
  BY <1>2, <1>5, <1>7, <1>8, <1>9 DEF PutsIn, Alike, Initialises

\* What an object holds when it has its state, but for the operation that made it.
Bare(st) == [data |-> st.entries, clear |-> st.clear]

\* The object y is x once its state is there.
Replaced(o, x, st, y) ==
  /\ y \in Replicas(o) /\ y.siteSerials = st.siteSerials
  /\ y.tombstone <=> x.tombstone \/ st.tombstone
  /\ x.tombstone => y.at = x.at /\ HoldSame(x, y)
  /\ ~x.tombstone /\ st.tombstone => y.at = st.at /\ y.data = NewObject(o).data
  /\ ~y.tombstone =>
       /\ y.merged <=> st.create # None
       /\ o \in Counters => y.data = st.amount + IF st.create = None THEN 0 ELSE st.create.amount
       /\ o \in Maps => Entered(Bare(st), y, IF st.create = None THEN <<>> ELSE st.create.entries)

\* ReplaceObjectState puts a state in the place of an object, or deletes it, or leaves it deleted.
LEMMA ReplacedIs ==
  ASSUME log \in Logs, NEW p, Sound(p), NEW ops \in SUBSET Ops, NEW o \in Ids, NEW st,
         StatesOf(ops, o, st)
  PROVE  Replaced(o, At(p, o), st, ReplaceObjectState(p, st).pool[o])
<1> DEFINE x == At(p, o)
           known == CreateZeroValue(p, o)
           n == [x EXCEPT !.siteSerials = st.siteSerials]
           noted == [known EXCEPT ![o] = n]
           r == ReplaceData(known, st)
           y == ReplaceObjectState(p, st).pool[o]
<1>1. y = r.pool[o]
  BY DEF ReplaceObjectState, StatesOf
<1>2. IsPool(known) /\ o \in DOMAIN known /\ known[o] = x /\ x \in Replicas(o)
  <2>1. Makes(p, {o}, known)
    BY ZeroIs DEF Sound, CreateZeroValue
  <2> HIDE DEF known
  <2> QED
    BY <2>1, AtIs DEF Makes, Sound
<1>3. r.pool = IF x.tombstone THEN noted
               ELSE IF st.tombstone THEN Tombstone(noted, o, st.at).pool
               ELSE IF o \in Counters THEN ReplaceCounter(noted, o, st).pool
                    ELSE ReplaceMap(noted, o, st).pool
  <2>1. [known EXCEPT ![o].siteSerials = st.siteSerials] = noted
    BY <1>2
  <2>2. known[o].tombstone = x.tombstone /\ st.object = o
    BY <1>2 DEF StatesOf
  <2> HIDE DEF noted, known, x
  <2> QED
    BY <2>1, <2>2 DEF ReplaceData, Noop
<1> HIDE DEF known, r, y
<1>4. /\ n \in Replicas(o) /\ HoldSame(x, n) /\ n.siteSerials = st.siteSerials
      /\ n.tombstone = x.tombstone /\ n.at = x.at
  BY <1>2 DEF Replicas, HoldSame, StatesOf
<1> HIDE DEF n
<1>5. IsPool(noted) /\ o \in DOMAIN noted /\ noted[o] = n
  <2>1. PutsIn(known, o, n, noted)
    BY <1>2, <1>4, PutInIs
  <2> QED
    BY <1>2, <2>1 DEF PutsIn
<1> HIDE DEF noted, x
<1>6. CASE x.tombstone
  BY <1>1, <1>3, <1>4, <1>5, <1>6 DEF Replaced, HoldSame, x, y
<1>7. CASE ~x.tombstone /\ st.tombstone
  <2>1. y = Tombstone(noted, o, st.at).pool[o]
    BY <1>1, <1>3, <1>7
  <2>2. o # Root /\ st.at \in Nat
    BY <1>7 DEF StatesOf, Deleted
  <2>3. Deletes(o, n, st.at, y)
    BY <1>5, <2>1, <2>2, DeletesIs
  <2> QED
    BY <1>4, <1>7, <2>3 DEF Replaced, Deletes, x, y
<1>8. CASE ~x.tombstone /\ ~st.tombstone /\ o \in Counters
  <2> DEFINE z == [n EXCEPT !.merged = FALSE, !.data = st.amount]
             bare == [noted EXCEPT ![o] = z]
             a == z.data + st.create.amount
             w == [z EXCEPT !.data = a, !.merged = TRUE]
  <2>0. o \notin Maps
    BY <1>8, RootAssumption
  <2>1. y = IF st.create = None THEN bare[o] ELSE MergeCounter(bare, o, st.create).pool[o]
    <3>1. [noted EXCEPT ![o] = [@ EXCEPT !.merged = FALSE, !.data = st.amount]] = bare
      BY <1>5
    <3>2. y = ReplaceCounter(noted, o, st).pool[o]
      BY <1>1, <1>3, <1>8
    <3> DEFINE new == IF st.create = None THEN bare ELSE MergeCounter(bare, o, st.create).pool
    <3> HIDE DEF bare
    <3>3. ReplaceCounter(noted, o, st) = ReplacedCounter(noted, new, o)
      BY <3>1, Zenon DEF ReplaceCounter
    <3> HIDE DEF new
    <3>4. y = new[o]
      BY <3>2, <3>3 DEF ReplacedCounter, Noop, Applied
    <3> QED
      BY <3>4 DEF new
  <2>2. /\ z \in Replicas(o) /\ z.data = st.amount /\ z.data \in Int
        /\ z.siteSerials = st.siteSerials
        /\ z.tombstone = n.tombstone /\ ~z.merged
    BY <1>4, <1>8 DEF Replicas, StatesOf
  <2> HIDE DEF z
  <2>3. bare[o] = z /\ o \in DOMAIN bare
    BY <1>5
  <2>4. CASE st.create = None
    BY <1>4, <1>8, <2>0, <2>1, <2>2, <2>3, <2>4 DEF Replaced, x, y
  <2>5. CASE st.create # None
    <3>1. st.create.amount \in Int
      <4>1. st.create \in On(ops, o, "create")
        BY <1>8, <2>5 DEF StatesOf
      <4> QED
        BY <1>8, <2>0, <4>1, OpsAre DEF On, IsOp, IsCounterOp
    <3>2. MergeCounter(bare, o, st.create).pool[o] = w
      <4> HIDE DEF w, a
      <4>1. [bare EXCEPT ![o] =
              [@ EXCEPT !.data = bare[o].data + st.create.amount, !.merged = TRUE]][o] = w
        BY <2>3 DEF w, a
      <4> HIDE DEF bare
      <4> QED
        BY <4>1 DEF MergeCounter, Applied
    <3>3. /\ w \in Replicas(o) /\ w.data = z.data + st.create.amount
          /\ w.siteSerials = z.siteSerials
          /\ w.tombstone = z.tombstone /\ w.merged
      <4>1. a \in Int /\ a = z.data + st.create.amount
        BY <2>2, <3>1
      <4> HIDE DEF a
      <4> QED
        BY <1>8, <2>2, <4>1 DEF Replicas
    <3> HIDE DEF w
    <3> QED
      BY <1>4, <1>8, <2>0, <2>1, <2>2, <2>5, <3>2, <3>3 DEF Replaced, x, y
  <2> QED
    BY <2>4, <2>5
<1>9. CASE ~x.tombstone /\ ~st.tombstone /\ o \in Maps
  <2> DEFINE z == [n EXCEPT !.merged = FALSE, !.clear = st.clear, !.data = st.entries]
             bare == [noted EXCEPT ![o] = z]
  <2>0. o \notin Counters
    BY <1>9, RootAssumption
  <2>1. y = IF st.create = None THEN bare[o] ELSE MergeMap(bare, o, st.create).pool[o]
    <3>1. [noted EXCEPT ![o] =
            [@ EXCEPT !.merged = FALSE, !.clear = st.clear, !.data = st.entries]] = bare
      BY <1>5
    <3>2. y = ReplaceMap(noted, o, st).pool[o]
      BY <1>1, <1>3, <1>9, <2>0
    <3> DEFINE new == IF st.create = None THEN bare ELSE MergeMap(bare, o, st.create).pool
    <3> HIDE DEF bare
    <3>3. ReplaceMap(noted, o, st) = ReplacedMap(noted, new, o)
      BY <3>1, Zenon DEF ReplaceMap
    <3> HIDE DEF new
    <3>4. y = new[o]
      BY <3>2, <3>3 DEF ReplacedMap, Noop, Applied
    <3> QED
      BY <3>4 DEF new
  <2>2. /\ z \in Replicas(o) /\ z.data = st.entries /\ z.clear = st.clear
        /\ z.siteSerials = st.siteSerials
        /\ z.tombstone = n.tombstone /\ ~z.merged /\ z.data \in MapData
    BY <1>4, <1>9, <2>0 DEF Replicas, StatesOf
  <2> HIDE DEF z
  <2>3. PutsIn(noted, o, z, bare)
    BY <1>5, <2>2, PutInIs
  <2> HIDE DEF bare
  <2>4. CASE st.create = None
    <3>1. y = z
      BY <2>1, <2>3, <2>4 DEF PutsIn
    <3>2. DOMAIN <<>> = {}
      OBVIOUS
    <3>3. Taken(Bare(st), <<>>) = {}
      BY <3>2 DEF Taken
    <3>4. Bare(st).data = z.data /\ Bare(st).clear = z.clear
      BY <2>2 DEF Bare
    <3>5. Entered(Bare(st), y, <<>>)
      BY <3>1, <3>3, <3>4 DEF Entered
    <3> QED
      BY <1>4, <1>9, <2>0, <2>2, <2>4, <3>1, <3>5 DEF Replaced, x, y
  <2>5. CASE st.create # None
    <3> DEFINE d == st.create.entries
    <3>1. d \in MapData /\ \A k \in DOMAIN d : InitialEntry(d[k]) = d[k]
      <4>1. st.create \in On(ops, o, "create")
        BY <1>9, <2>5 DEF StatesOf
      <4> QED
        BY <1>9, <2>0, <4>1, OpsAre DEF On, IsOp, IsMapOp, Initials
    <3>2. o \in DOMAIN bare /\ IsPool(bare) /\ bare[o] = z /\ o \in Maps
      BY <1>5, <1>9, <2>3 DEF PutsIn
    <3>3. y = MergeMap(bare, o, st.create).pool[o] /\ d = st.create.entries
      BY <2>1, <2>5
    <3> HIDE DEF d
    <3>4. Initialises(o, z, d, y)
      BY <3>1, <3>2, <3>3, MergedMapIs
    <3>5. Bare(st).data = z.data /\ Bare(st).clear = z.clear
      BY <2>2 DEF Bare
    <3>6. Entered(Bare(st), y, d)
      BY <3>4, <3>5 DEF Entered, Taken, Initialises
    <3> QED
      BY <1>4, <1>9, <2>0, <2>2, <2>5, <3>3, <3>4, <3>6 DEF Replaced, Initialises, x, y
  <2> QED
    BY <2>4, <2>5
<1> QED
  BY <1>6, <1>7, <1>8, <1>9 DEF Ids

\* The pool q is what a sync makes of p.
Syncs(p, ops, q) ==
  /\ Sound(q) /\ Dangling(q) = {} /\ DOMAIN q = Known(ops)
  /\ \A o \in DOMAIN q : \E y : /\ Replaced(o, At(p, o), StateOf(ops, o, Keys), y)
                                /\ Alike(q[o], y) /\ HoldSame(q[o], y)

\* What a map references once its state is there is known.
LEMMA ReplacedKnows ==
  ASSUME log \in Logs, NEW p, Sound(p), NEW ops \in SUBSET Ops, NEW m \in Maps, NEW st,
         StatesOf(ops, m, st),
         NEW y, Replaced(m, At(p, m), st, y), NEW k \in Keys, k \in DOMAIN y.data,
         y.data[k].value \in Ids
  PROVE  y.data[k].value \in Known(ops)
<1> DEFINE x == At(p, m)
           d == IF st.create = None THEN <<>> ELSE st.create.entries
<1>1. DOMAIN NewObject(m).data = {} /\ m \in Ids
  BY NewMap
<1>2. x.tombstone => x.data = NewObject(m).data
  BY DEF Sound, Buried, At, NewObject
<1>3. ~y.tombstone
  BY <1>1, <1>2 DEF Replaced, HoldSame
<1>4. Entered(Bare(st), y, d) /\ ~st.tombstone
  BY <1>3 DEF Replaced
<1>5. Bare(st).data = st.entries
  BY DEF Bare
<1>6. CASE k \in Taken(Bare(st), d)
  <2>1. y.data[k] = d[k] /\ k \in DOMAIN d
    BY <1>4, <1>6 DEF Entered, Taken
  <2>2. st.create # None
    BY <2>1
  <2>3. st.create \in On(ops, m, "create")
    BY <1>4, <2>2 DEF StatesOf
  <2>4. y.data[k] \in Initial(ops, m, k)
    BY <2>1, <2>2, <2>3 DEF Initial
  <2> QED
    BY <2>4, KnownValues
<1>7. CASE k \notin Taken(Bare(st), d)
  <2>1. k \in DOMAIN st.entries /\ y.data[k] = st.entries[k]
    BY <1>4, <1>5, <1>7 DEF Entered
  <2>2. y.data[k] \in Written(ops, m, k)
    BY <1>4, <2>1 DEF StatesOf, Latest
  <2> QED
    BY <2>2, KnownValues
<1> QED
  BY <1>6, <1>7

\* A sync leaves exactly the objects that the operations know of, each with its state, and misses
\* none.
LEMMA SyncIs ==
  ASSUME log \in Logs, NEW p, Sound(p), NEW ops \in SUBSET Ops
  PROVE  Syncs(p, ops, CompleteSync(p, Synced(ops)).pool)
<1> DEFINE st(o) == StateOf(ops, o, Keys)
           f(o) == ReplaceObjectState(p, st(o)).pool[o]
           b == [o \in Known(ops) |-> f(o)]
           q == CompleteSync(p, Synced(ops)).pool
<1>1. Root \in Known(ops) /\ Known(ops) \subseteq Ids
  BY KnownIs
<1>2. q = RebuildParents(b)
  <2> DEFINE s == Synced(ops)
             c == [o \in {Root} \union DOMAIN s |->
                    IF o \in DOMAIN s THEN ReplaceObjectState(p, s[o]).pool[o] ELSE p[o]]
  <2>1. q = RebuildParents(c)
    BY DEF CompleteSync
  <2>2. DOMAIN s = Known(ops) /\ \A o \in DOMAIN s : s[o] = st(o)
    BY DEF Synced
  <2> HIDE DEF s, st
  <2>3. c = b
    BY <1>1, <2>2
  <2> HIDE DEF c, b, q
  <2> QED
    BY <2>1, <2>3
<1> HIDE DEF q
<1>3. \A o \in Known(ops) : StatesOf(ops, o, st(o))
  BY <1>1, StateIs
<1> HIDE DEF st
<1>4. \A o \in Known(ops) : Replaced(o, At(p, o), st(o), f(o))
  BY <1>1, <1>3, ReplacedIs
<1> HIDE DEF f
<1>5. IsPool(b)
  BY <1>1, <1>4 DEF IsPool, Replaced
<1>6. Buried(b)
  <2> SUFFICES ASSUME NEW o \in Known(ops), f(o).tombstone
               PROVE  o # Root /\ f(o).data = NewObject(o).data
    BY DEF Buried
  <2>1. Replaced(o, At(p, o), st(o), f(o)) /\ StatesOf(ops, o, st(o))
    BY <1>3, <1>4
  <2>2. CASE At(p, o).tombstone
    <3>1. o \in DOMAIN p /\ p[o].tombstone /\ At(p, o) = p[o]
      BY <2>2 DEF At, NewObject
    <3> QED
      BY <2>1, <2>2, <3>1 DEF Replaced, HoldSame, Sound, Buried
  <2>3. CASE ~At(p, o).tombstone
    BY <2>1, <2>3 DEF Replaced, StatesOf, Deleted
  <2> QED
    BY <2>2, <2>3
<1>7. Rebuilds(b, q)
  <2> HIDE DEF b
  <2> QED
    BY <1>2, <1>5, <1>6, RebuildIs
<1>8. /\ DOMAIN q = Known(ops) /\ Sound(q)
      /\ \A o \in Known(ops) : Alike(q[o], f(o)) /\ HoldSame(q[o], f(o))
  BY <1>7 DEF Rebuilds
<1> HIDE DEF b
<1>9. Dangling(q) = {}
  <2> SUFFICES ASSUME NEW o \in Ids \ DOMAIN q, NEW m \in Maps, NEW k \in Keys, Refers(q, m, k, o)
               PROVE  FALSE
    BY DEF Dangling
  <2>1. /\ m \in Known(ops) /\ q[m].data = f(m).data /\ k \in DOMAIN q[m].data
        /\ q[m].data[k].value = o
    BY <1>8 DEF Refers, HoldSame
  <2>2. k \in DOMAIN f(m).data /\ f(m).data[k].value \in Ids
    BY <2>1
  <2>3. StatesOf(ops, m, st(m)) /\ Replaced(m, At(p, m), st(m), f(m))
    BY <1>3, <1>4, <2>1
  <2>4. f(m).data[k].value \in Known(ops)
    BY <2>2, <2>3, ReplacedKnows
  <2> QED
    BY <1>8, <2>1, <2>4
<1> QED
  BY <1>4, <1>8, <1>9 DEF Syncs, q, st

\* The pool q is what is left of p when there are no objects.
LeftWithRoot(p, q) ==
  /\ Sound(q) /\ Dangling(q) = {} /\ DOMAIN q = {Root}
  /\ Alike(q[Root], p[Root]) /\ q[Root].data = <<>> /\ q[Root].clear = 0

\* A sync without objects leaves the root, empty.
LEMMA EmptySyncIs ==
  ASSUME NEW p, Sound(p)
  PROVE  LeftWithRoot(p, CompleteSync(ClearObjects(p).pool, <<>>).pool)
<1> DEFINE root == [o \in {Root} |-> p[o]]
           c == ClearObjects(p).pool
           b == [o \in {Root} \union DOMAIN <<>> |->
                  IF o \in DOMAIN <<>> THEN ReplaceObjectState(c, <<>>[o]).pool[o] ELSE c[o]]
           q == CompleteSync(c, <<>>).pool
           keys == DOMAIN root[Root].data
<1>1. q = RebuildParents(b)
  BY DEF CompleteSync
<1> HIDE DEF q
<1>2. /\ Root \in Maps /\ Root \notin Counters /\ Root \in DOMAIN p /\ p[Root] \in Replicas(Root)
      /\ ~p[Root].tombstone
  BY RootAssumption, PoolIs DEF Sound, IsPool, Buried
<1>3. c = ClearMap(root, Root)
  BY <1>2 DEF ClearObjects, ClearData
<1>4. IsPool(root) /\ Root \in DOMAIN root /\ root[Root] = p[Root]
  BY <1>2 DEF IsPool, Ids
<1> HIDE DEF root, c
<1>5. Drops(root, Root, keys, 0, c)
  <2>1. keys \in SUBSET DOMAIN root[Root].data /\ 0 \in Nat
    OBVIOUS
  <2>2. c = Dropped(root, Root, keys, 0)
    BY <1>2, <1>3, <1>4, ClearMapIs
  <2> HIDE DEF keys
  <2> QED
    BY <1>2, <1>4, <2>1, <2>2, DropIs
<1>6. /\ IsPool(c) /\ DOMAIN c = DOMAIN root /\ Alike(c[Root], p[Root]) /\ c[Root].clear = 0
      /\ DOMAIN c[Root].data = {}
  BY <1>4, <1>5 DEF Drops
<1>7. c[Root].data = <<>>
  <2>1. Root \in DOMAIN c
    BY <1>6 DEF IsPool
  <2>2. c[Root].data \in MapData
    BY <1>2, <1>6, <2>1, PoolIs
  <2> QED
    BY <1>6, <2>2, MapDataNone
<1>8. DOMAIN root = {Root}
  BY DEF root
<1>9. DOMAIN <<>> = {}
  OBVIOUS
<1>10. b = [o \in {Root} |-> c[o]]
  BY <1>9
<1> HIDE DEF b
<1>11. b = c
  BY <1>6, <1>8, <1>10 DEF IsPool
<1>12. Buried(c)
  BY <1>2, <1>6, <1>8 DEF Buried, Alike
<1>13. Rebuilds(c, q)
  BY <1>1, <1>6, <1>11, <1>12, RebuildIs
<1>14. /\ Sound(q) /\ DOMAIN q = {Root} /\ Alike(q[Root], p[Root]) /\ q[Root].data = <<>>
       /\ q[Root].clear = 0
  BY <1>6, <1>7, <1>8, <1>13 DEF Rebuilds, Alike, HoldSame
<1>15. Dangling(q) = {}
  BY <1>9, <1>14 DEF Dangling, Refers
<1> QED
  BY <1>14, <1>15 DEF LeftWithRoot, q, c

-----------------------------------------------------------------------------
(* The invariant of the graph.                                             *)

\* An operation that mentions what is gone has expired.
LEMMA GoneExpired ==
  ASSUME NEW op \in Ops, NEW o \in Mentioned(op), Gone(o)
  PROVE  Expired(op, collected)
  BY DEF Gone, Expired

\* An operation that has not expired finds every object it mentions, or makes it.
LEMMA OperationApplies ==
  ASSUME GraphInv, NEW op \in Ops, ~Expired(op, collected)
  PROVE  /\ IsOp(op) /\ Mentioned(op) \cap Dangling(pool) = {}
         /\ Applies(pool, op, ApplyOperation(pool, op, "channel"))
<1>1. IsOp(op)
  BY OpsAre DEF GraphInv, Typed
<1>2. Mentioned(op) \cap Dangling(pool) = {}
  BY GoneExpired DEF GraphInv, DanglingGone
<1> QED
  BY <1>1, <1>2, ApplyIs DEF GraphInv

\* What an operation deletes is deleted by it or was before.
LEMMA AppliesTombs ==
  ASSUME NEW p, Sound(p), NEW op, IsOp(op), NEW r, Applies(p, op, r), NEW o \in DOMAIN r.pool,
         r.pool[o].tombstone
  PROVE  \/ o \in DOMAIN p /\ p[o].tombstone /\ r.pool[o].at = p[o].at
         \/ o = op.object /\ o # Root /\ op.action = "delete" /\ r.pool[o].at = op.serial
<1> DEFINE x == At(p, o)
           y == r.pool[o]
<1>1. x.tombstone => o \in DOMAIN p /\ p[o].tombstone /\ x.at = p[o].at
  BY DEF At, NewObject
<1>2. CASE o # op.object
  <2>1. Alike(y, x)
    BY <1>2 DEF Applies, Steps
  <2> QED
    BY <1>1, <2>1 DEF Alike
<1>3. CASE o = op.object
  <2>1. x \in Replicas(o)
    BY <1>3, AtIs DEF Sound, IsOp
  <2>2. Notes(o, x, Noted(x, op))
    BY <2>1, NotedIs
  <2>3. \/ y = x \/ (x.tombstone /\ y = Noted(x, op)) \/ (~x.tombstone /\ Does(op, Noted(x, op), y))
    BY <1>3 DEF Applies
  <2>4. CASE y = x
    BY <1>1, <2>4
  <2>5. CASE x.tombstone /\ y = Noted(x, op)
    BY <1>1, <2>2, <2>5 DEF Notes
  <2>6. CASE ~x.tombstone /\ Does(op, Noted(x, op), y)
    BY <1>3, <2>2, <2>6 DEF Notes, Does
  <2> QED
    BY <2>3, <2>4, <2>5, <2>6
<1> QED
  BY <1>2, <1>3

\* The graph is sound at first.
LEMMA GraphInit ==
  ASSUME Init
  PROVE  GraphInv
<1>1. Typed
  <2>1. log \in Logs /\ received = {} /\ cleared = FALSE /\ collected = 0
    BY DEF Init
  <2>2. 0 \in 0..MaxOps
    BY MaxOpsAssumption
  <2> QED
    BY <2>1, <2>2 DEF Typed
<1>2. /\ DOMAIN pool = {Root} /\ pool[Root] = NewObject(Root) /\ Root \in Ids
      /\ pool = [o \in DOMAIN pool |-> pool[o]]
  BY RootAssumption DEF Init, EmptyPool, Ids
<1>3. IsPool(pool)
  BY <1>2, NewObjectIs DEF IsPool
<1>4. DOMAIN pool[Root].data = {} /\ pool[Root].parents = {} /\ ~pool[Root].tombstone
  BY <1>2, RootAssumption, NewMap DEF NewObject
<1>5. \A m \in Maps, k \in Keys, o \in Ids : ~Refers(pool, m, k, o)
  BY <1>2, <1>4 DEF Refers
<1>6. Sound(pool)
  BY <1>2, <1>3, <1>4, <1>5 DEF Sound, Linked, Buried
<1>7. DanglingGone
  BY <1>5 DEF DanglingGone, Dangling
<1>8. TombDeleted
  BY <1>2, <1>4 DEF TombDeleted
<1>9. Undelivered
  <2> SUFFICES ASSUME NEW op \in Ops, Expired(op, 0) PROVE FALSE
    BY DEF Undelivered, Init
  <2>1. log \in Logs
    BY DEF Init
  <2>2. op.serial \in 1..MaxOps
    BY <2>1, OpsAre DEF IsOp
  <2>3. PICK o \in Mentioned(op) : Deleted(Ops, o) /\ DeletedAt(Ops, o) <= 0
    BY <2>2 DEF Expired
  <2>4. DeletedAt(Ops, o) \in 1..MaxOps
    BY <2>1, <2>3, DeletedAtIs
  <2> QED
    BY <2>3, <2>4
<1> QED
  BY <1>1, <1>6, <1>7, <1>8, <1>9 DEF GraphInv

\* It stays so when an operation is received,
LEMMA GraphReceive ==
  ASSUME GraphInv, NEW op \in Ops, ~Expired(op, collected), Receive(op),
         UNCHANGED <<log, cleared, collected>>
  PROVE  GraphInv'
<1> DEFINE r == ApplyOperation(pool, op, "channel")
<1>1. IsOp(op) /\ Applies(pool, op, r)
  BY OperationApplies
<1>2. pool' = r.pool /\ received' = received \union {op} /\ Ops' = Ops
  BY DEF Receive, Ops
<1> HIDE DEF r
<1>3. Steps(pool, op.object, Mentioned(op), pool')
  BY <1>1, <1>2 DEF Applies
<1>4. Typed'
  BY <1>2 DEF GraphInv, Typed
<1>5. Sound(pool)' /\ Dangling(pool') \subseteq Dangling(pool)
  BY <1>3 DEF Steps
<1>6. \A o : Gone(o)' <=> Gone(o)
  BY <1>2 DEF Gone, Deleted, DeletedAt
<1>7. DanglingGone'
  BY <1>5, <1>6 DEF DanglingGone, GraphInv
<1>8. TombDeleted'
  <2> SUFFICES ASSUME NEW o \in DOMAIN pool', pool'[o].tombstone
               PROVE  Deleted(Ops, o) /\ DeletedAt(Ops, o) <= pool'[o].at
    BY <1>2 DEF TombDeleted
  <2>1. \/ o \in DOMAIN pool /\ pool[o].tombstone /\ pool'[o].at = pool[o].at
        \/ o = op.object /\ o # Root /\ op.action = "delete" /\ pool'[o].at = op.serial
    BY <1>1, <1>2, AppliesTombs DEF GraphInv
  <2>2. CASE o \in DOMAIN pool /\ pool[o].tombstone /\ pool'[o].at = pool[o].at
    BY <2>2 DEF GraphInv, TombDeleted
  <2>3. CASE o = op.object /\ o # Root /\ op.action = "delete" /\ pool'[o].at = op.serial
    <3>1. op \in On(Ops, o, "delete")
      BY <2>3 DEF On
    <3>2. Deleted(Ops, o)
      BY <2>3, <3>1 DEF Deleted
    <3> QED
      BY <2>3, <3>1, <3>2, DeletedAtIs DEF GraphInv, Typed
  <2> QED
    BY <2>1, <2>2, <2>3
<1>9. Undelivered'
  BY <1>2 DEF Undelivered, GraphInv, Expired, Deleted, DeletedAt
<1> QED
  BY <1>4, <1>5, <1>7, <1>8, <1>9 DEF GraphInv

\* What a sync says is what was made up to some time, or what was received.
LEMMA SyncedOps ==
  ASSUME GraphInv, NEW ops \in {received \union {op \in Ops : op.serial <= n} : n \in 0..Len(log)}
  PROVE  ops \subseteq Ops /\ received \subseteq ops
  BY DEF GraphInv, Typed

\* by a sync,
LEMMA GraphSync ==
  ASSUME GraphInv, Sync
  PROVE  GraphInv'
<1>1. PICK ops \in {received \union {op \in Ops : op.serial <= n} : n \in 0..Len(log)} :
         /\ received' = ops
         /\ pool' = CompleteSync((IF ops = {} THEN ClearObjects(pool) ELSE Noop(pool)).pool,
                                 IF ops = {} THEN <<>> ELSE Synced(ops)).pool
  BY DEF Sync
<1>2. ops \subseteq Ops /\ received \subseteq ops
  BY SyncedOps
<1> HIDE <1>1
<1>3. UNCHANGED <<log, collected>> /\ cleared' = FALSE /\ Ops' = Ops
  BY DEF Sync, Ops
<1>4. received' = ops
  BY <1>1
<1>5. /\ Sound(pool)' /\ Dangling(pool') = {}
      /\ \A o \in DOMAIN pool' :
           pool'[o].tombstone => Deleted(Ops, o) /\ DeletedAt(Ops, o) <= pool'[o].at
  <2>1. CASE ops = {}
    <3>1. pool' = CompleteSync(ClearObjects(pool).pool, <<>>).pool
      BY <1>1, <2>1
    <3>2. LeftWithRoot(pool, pool')
      BY <3>1, EmptySyncIs DEF GraphInv
    <3>3. ~pool'[Root].tombstone
      BY <3>2 DEF LeftWithRoot, Sound, Buried
    <3> QED
      BY <3>2, <3>3 DEF LeftWithRoot
  <2>2. CASE ops # {}
    <3>1. pool' = CompleteSync(pool, Synced(ops)).pool
      BY <1>1, <2>2 DEF Noop
    <3>2. Syncs(pool, ops, pool')
      BY <1>2, <3>1, SyncIs DEF GraphInv, Typed
    <3>3. ASSUME NEW o \in DOMAIN pool', pool'[o].tombstone
          PROVE  Deleted(Ops, o) /\ DeletedAt(Ops, o) <= pool'[o].at
      <4> DEFINE x == At(pool, o)
                 st == StateOf(ops, o, Keys)
      <4>1. PICK y : Replaced(o, x, st, y) /\ Alike(pool'[o], y)
        BY <3>2 DEF Syncs
      <4>2. o \in Ids
        BY <3>2, PoolIs DEF Syncs, Sound
      <4>3. StatesOf(ops, o, st)
        BY <1>2, <4>2, StateIs DEF GraphInv, Typed
      <4> HIDE DEF st
      <4>4. y.tombstone /\ pool'[o].at = y.at
        BY <3>3, <4>1 DEF Alike
      <4>5. CASE x.tombstone
        <5>1. o \in DOMAIN pool /\ x = pool[o]
          BY <4>5 DEF At, NewObject
        <5>2. y.at = pool[o].at
          BY <4>1, <4>5, <5>1 DEF Replaced
        <5> QED
          BY <4>4, <4>5, <5>1, <5>2 DEF GraphInv, TombDeleted
      <4>6. CASE ~x.tombstone
        <5>1. st.tombstone /\ y.at = st.at
          BY <4>1, <4>4, <4>6 DEF Replaced
        <5>2. Deleted(ops, o) /\ y.at = DeletedAt(ops, o)
          BY <4>3, <5>1 DEF StatesOf
        <5>3. Deleted(Ops, o) /\ DeletedAt(Ops, o) <= DeletedAt(ops, o)
          BY <1>2, <5>2, DeletedMore DEF GraphInv, Typed
        <5> QED
          BY <4>4, <5>2, <5>3
      <4> QED
        BY <4>5, <4>6
    <3> QED
      BY <3>2, <3>3 DEF Syncs
  <2> QED
    BY <2>1, <2>2
<1>6. Typed'
  BY <1>2, <1>3, <1>4 DEF GraphInv, Typed
<1>7. DanglingGone'
  BY <1>5 DEF DanglingGone
<1>8. TombDeleted'
  BY <1>3, <1>5 DEF TombDeleted
<1>9. Undelivered'
  BY <1>2, <1>3, <1>4 DEF Undelivered, GraphInv, Expired, Deleted, DeletedAt
<1> QED
  BY <1>5, <1>6, <1>7, <1>8, <1>9 DEF GraphInv

\* when the data goes with the attachment,
LEMMA GraphClear ==
  ASSUME GraphInv, Clear
  PROVE  GraphInv'
<1>1. /\ pool' = ClearAllData(pool) /\ UNCHANGED <<log, received, collected>>
      /\ cleared' = TRUE /\ Ops' = Ops
  BY DEF Clear, Ops
<1>2. Empties(pool, pool')
  BY <1>1, ClearAllIs DEF GraphInv
<1>3. Typed'
  BY <1>1 DEF GraphInv, Typed
<1>4. DanglingGone'
  BY <1>2 DEF DanglingGone, Empties
<1>5. TombDeleted'
  BY <1>1, <1>2 DEF TombDeleted, Empties, Alike, GraphInv
<1>6. Undelivered'
  BY <1>1 DEF Undelivered, GraphInv, Expired, Deleted, DeletedAt
<1> QED
  BY <1>2, <1>3, <1>4, <1>5, <1>6 DEF GraphInv, Empties

\* What was gone, or is due, is gone.
LEMMA GoneLater ==
  ASSUME GraphInv, NEW time \in Nat, time > collected
  PROVE  /\ \A o : Gone(o) => Deleted(Ops, o) /\ DeletedAt(Ops, o) <= time
         /\ \A o \in DOMAIN pool :
              Due(pool[o], time) => Deleted(Ops, o) /\ DeletedAt(Ops, o) <= time
<1>1. MaxOps \in Nat /\ collected \in 0..MaxOps /\ log \in Logs
  BY MaxOpsAssumption DEF GraphInv, Typed
<1>2. ASSUME NEW o, Gone(o) PROVE Deleted(Ops, o) /\ DeletedAt(Ops, o) <= time
  <2>1. DeletedAt(Ops, o) \in 1..MaxOps
    BY <1>1, <1>2, DeletedAtIs DEF Gone
  <2> QED
    BY <1>1, <1>2, <2>1 DEF Gone
<1>3. ASSUME NEW o \in DOMAIN pool, Due(pool[o], time)
      PROVE  Deleted(Ops, o) /\ DeletedAt(Ops, o) <= time
  <2>1. Deleted(Ops, o) /\ DeletedAt(Ops, o) <= pool[o].at /\ pool[o].at <= time
    BY <1>3 DEF GraphInv, TombDeleted, Due
  <2>2. DeletedAt(Ops, o) \in 1..MaxOps
    BY <1>1, <2>1, DeletedAtIs
  <2>3. pool[o].at \in Nat
    BY PoolIs DEF GraphInv, Sound, Replicas
  <2> QED
    BY <1>1, <2>1, <2>2, <2>3
<1> QED
  BY <1>2, <1>3

\* and by a collection.
LEMMA GraphCollect ==
  ASSUME GraphInv, Collect
  PROVE  GraphInv'
<1>1. PICK time \in 1..Len(log) :
         /\ time > collected /\ \A op \in Ops \ received : ~Expired(op, time)
         /\ collected' = time /\ pool' = CollectGarbage(pool, time)
  BY DEF Collect
<1>2. UNCHANGED <<log, received, cleared>> /\ Ops' = Ops
  BY DEF Collect, Ops
<1>3. Len(log) = MaxOps /\ MaxOps \in Nat /\ collected \in 0..MaxOps /\ time \in Nat
  BY LogIs, MaxOpsAssumption DEF GraphInv, Typed
<1>4. Collects(pool, time, pool')
  BY <1>1, <1>3, CollectIs DEF GraphInv
<1>5. Typed'
  <2>1. collected' \in 0..MaxOps
    BY <1>1, <1>3
  <2> QED
    BY <1>2, <2>1 DEF GraphInv, Typed
<1>6. \A o : Gone(o) => Gone(o)'
  BY <1>1, <1>2, <1>3, GoneLater DEF Gone
<1>7. DanglingGone'
  <2> SUFFICES ASSUME NEW o \in Dangling(pool') PROVE Gone(o)'
    BY DEF DanglingGone
  <2>1. CASE o \in Dangling(pool)
    BY <1>6, <2>1 DEF GraphInv, DanglingGone
  <2>2. CASE o \in DOMAIN pool \ DOMAIN pool'
    <3>1. Due(pool[o], time)
      BY <1>4, <2>2 DEF Collects
    <3> QED
      BY <1>1, <1>2, <1>3, <2>2, <3>1, GoneLater DEF Gone
  <2> QED
    BY <1>4, <2>1, <2>2 DEF Collects
<1>8. TombDeleted'
  BY <1>2, <1>4 DEF TombDeleted, Collects, Alike, GraphInv
<1>9. Undelivered'
  BY <1>1, <1>2 DEF Undelivered, Expired, Deleted, DeletedAt
<1> QED
  BY <1>4, <1>5, <1>7, <1>8, <1>9 DEF GraphInv, Collects

\* So every step keeps it.
LEMMA GraphStep ==
  ASSUME GraphInv, [Next]_vars
  PROVE  GraphInv'
<1>1. CASE Deliver
  <2>1. PICK op \in Ops \ received : Receive(op)
    BY <1>1 DEF Deliver
  <2>2. ~Expired(op, collected) /\ UNCHANGED <<log, cleared, collected>>
    BY <1>1 DEF GraphInv, Undelivered, Deliver
  <2> QED
    BY <2>1, <2>2, GraphReceive
<1>2. CASE DeliverAgain
  <2>1. PICK op \in received : ~Expired(op, collected) /\ Receive(op)
    BY <1>2 DEF DeliverAgain
  <2>2. op \in Ops /\ UNCHANGED <<log, cleared, collected>>
    BY <1>2 DEF GraphInv, Typed, DeliverAgain
  <2> QED
    BY <2>1, <2>2, GraphReceive
<1>3. CASE UNCHANGED vars
  <2>1. UNCHANGED <<log, pool, received, cleared, collected>> /\ Ops' = Ops
    BY <1>3 DEF vars, Ops
  <2>2. (\A o : Gone(o)' <=> Gone(o)) /\ \A op : Expired(op, collected)' <=> Expired(op, collected)
    BY <2>1 DEF Gone, Expired, Deleted, DeletedAt
  <2>3. TombDeleted' <=> TombDeleted
    BY <2>1 DEF TombDeleted, Deleted, DeletedAt
  <2> QED
    BY <2>1, <2>2, <2>3 DEF GraphInv, Typed, DanglingGone, Undelivered
<1> QED
  BY <1>1, <1>2, <1>3, GraphSync, GraphClear, GraphCollect DEF Next

\* In every state the parents of an object that is not tombstoned are exactly the entries that
\* reference it, nothing references an object that is missing unless its deletion was collected,
\* and what is yet to come is about none of those.
THEOREM GraphInvariant == Spec => []GraphInv
<1> QED
  BY GraphInit, GraphStep, PTL DEF Spec

\* The pool holds the root and only objects whose parents are maps, and no serial noted exceeds
\* those of the operations made.
THEOREM Types == Spec => []TypeOK
<1>1. GraphInv => TypeOK
  <2> SUFFICES ASSUME GraphInv PROVE TypeOK
    OBVIOUS
  <2>1. /\ Root \in DOMAIN pool /\ DOMAIN pool \subseteq Ids /\ collected \in 0..MaxOps
        /\ Len(log) = MaxOps /\ MaxOps \in Nat
    BY LogIs, MaxOpsAssumption DEF GraphInv, Typed, Sound, IsPool
  <2>2. ASSUME NEW o \in DOMAIN pool
        PROVE  /\ [pool[o] EXCEPT !.data = 0] \in Objects
               /\ \A s \in Sites : pool[o].siteSerials[s] <= Len(log)
    <3>1. pool[o] \in Replicas(o)
      BY <2>2, PoolIs DEF GraphInv, Sound
    <3>2. pool[o].siteSerials \in [Sites -> 0..MaxOps]
      BY <3>1 DEF Replicas
    <3>3. \A s \in Sites : pool[o].siteSerials[s] \in Nat /\ pool[o].siteSerials[s] <= Len(log)
      BY <2>1, <3>2
    <3>4. pool[o].siteSerials \in [Sites -> Nat]
      BY <3>2, <3>3
    <3>5. [pool[o] EXCEPT !.data = 0] \in Objects
      BY <3>1, <3>4 DEF Replicas, Objects
    <3> QED
      BY <3>3, <3>5
  <2>3. collected <= Len(log)
    BY <2>1
  <2> QED
    BY <2>1, <2>2, <2>3, Zenon DEF TypeOK
<1> QED
  BY <1>1, GraphInvariant, PTL

-----------------------------------------------------------------------------
(* Paths.                                                                  *)

\* f goes on from base, step by step, up to N.
Iterates(f, N, base, step) == f[0] = base /\ \A n \in 1..N : f[n] = step[<<f[n - 1], n>>]

\* There is such a function.
LEMMA Recursion ==
  ASSUME NEW S, NEW N \in Nat, NEW base \in S, NEW step \in [S \X (1..N) -> S]
  PROVE  \E f \in [0..N -> S] : Iterates(f, N, base, step)
<1> DEFINE Good(k, f) == f[0] = base /\ \A n \in 1..k : f[n] = step[<<f[n - 1], n>>]
           T == {k \in Nat : k <= N => \E f \in [0..k -> S] : Good(k, f)}
<1>1. 0 \in T
  <2>1. [n \in 0..0 |-> base] \in [0..0 -> S] /\ Good(0, [n \in 0..0 |-> base])
    OBVIOUS
  <2> QED
    BY <2>1
<1>2. ASSUME NEW k \in T PROVE k + 1 \in T
  <2> SUFFICES ASSUME k + 1 <= N PROVE \E g \in [0..(k + 1) -> S] : Good(k + 1, g)
    OBVIOUS
  <2>1. PICK f \in [0..k -> S] : Good(k, f)
    OBVIOUS
  <2> DEFINE g == [n \in 0..(k + 1) |-> IF n = k + 1 THEN step[<<f[k], k + 1>>] ELSE f[n]]
  <2>2. g \in [0..(k + 1) -> S]
    OBVIOUS
  <2>3. g[0] = base
    BY <2>1
  <2>4. \A n \in 1..(k + 1) : g[n] = step[<<g[n - 1], n>>]
    <3> TAKE n \in 1..(k + 1)
    <3>1. CASE n = k + 1
      <4>1. k + 1 # 0 /\ (k + 1) - 1 = k /\ k \in 0..(k + 1) /\ k # k + 1
        OBVIOUS
      <4>2. g[k + 1] = step[<<f[k], k + 1>>] /\ g[k] = f[k]
        BY <4>1
      <4> QED
        BY <3>1, <4>1, <4>2
    <3>2. CASE n # k + 1
      <4>1. n \in 1..k /\ g[n] = f[n] /\ n - 1 \in 0..k /\ g[n - 1] = f[n - 1]
        BY <3>2
      <4> QED
        BY <2>1, <4>1
    <3> QED
      BY <3>1, <3>2
  <2> QED
    BY <2>2, <2>3, <2>4
<1>3. T = Nat
  <2> HIDE DEF T
  <2> QED
    BY <1>1, <1>2, Induction, T \subseteq Nat, Zenon DEF T
<1>4. N \in T
  BY <1>3
<1> QED
  BY <1>4 DEF Iterates

\* A path is keys by number.
LEMMA PathIs ==
  ASSUME NEW path \in Paths
  PROVE  Len(path) \in Nat /\ DOMAIN path = 1..Len(path) /\ path \in [1..Len(path) -> Keys]
<1>1. PICK n \in 0..Cardinality(Maps) : path \in [1..n -> Keys]
  BY DEF Paths
<1>2. Cardinality(Maps) \in Nat
  BY MapsAssumption, FS_CardinalityType
<1>3. n \in Nat
  BY <1>1, <1>2
<1>4. path \in Seq(Keys) /\ Len(path) = n
  BY <1>1, <1>3
<1> QED
  BY <1>4, LenProperties

\* What a walk goes through.
NextAt(p, path, x, i) == IF x \in Maps \cap DOMAIN p THEN Get(p, x, path[i]) ELSE None
\* The function at walks a path down from the root.
Walks(p, path, at) ==
  /\ DOMAIN at = 0..Len(path) /\ at[0] = Root
  /\ \A i \in 1..Len(path) : at[i] = NextAt(p, path, at[i - 1], i)

\* Walk walks, whatever entries it finds.
LEMMA WalkIs ==
  ASSUME NEW p, NEW path \in Paths
  PROVE  Walks(p, path, Walk(p, path))
<1> DEFINE N == Len(path)
           S == {Root, None} \union {NextAt(p, path, x, i) : x \in Maps, i \in 1..N}
           step == [w \in S \X (1..N) |-> NextAt(p, path, w[1], w[2])]
           Def(at) == at = [i \in 0..N |-> IF i = 0 THEN Root
                                           ELSE IF at[i - 1] \in Maps \cap DOMAIN p
                                                THEN Get(p, at[i - 1], path[i]) ELSE None]
<1>1. N \in Nat
  BY PathIs
<1>2. \A x, i : i \in 1..N => NextAt(p, path, x, i) \in S
  BY DEF NextAt
<1>3. step \in [S \X (1..N) -> S]
  BY <1>2
<1>4. \A x \in S, i \in 1..N : step[<<x, i>>] = NextAt(p, path, x, i)
  OBVIOUS
<1>5. PICK f \in [0..N -> S] : Iterates(f, N, Root, step)
  <2>1. Root \in S
    OBVIOUS
  <2> HIDE DEF S, step, N
  <2> QED
    BY <1>1, <1>3, <2>1, Recursion
<1> HIDE DEF S, step
<1>6. \A i \in 1..N : f[i] = NextAt(p, path, f[i - 1], i)
  BY <1>1, <1>4, <1>5 DEF Iterates
<1>7. Def(f)
  <2>1. \A i \in 0..N : f[i] = IF i = 0 THEN Root
                                  ELSE IF f[i - 1] \in Maps \cap DOMAIN p
                                       THEN Get(p, f[i - 1], path[i]) ELSE None
    BY <1>1, <1>5, <1>6 DEF Iterates, NextAt
  <2> QED
    BY <2>1
<1>8. Walk(p, path) = CHOOSE at : Def(at)
  BY DEF Walk
<1>9. Def(Walk(p, path))
  BY <1>7, <1>8
<1> DEFINE w == Walk(p, path)
<1>10. w = [i \in 0..N |-> IF i = 0 THEN Root
                           ELSE IF w[i - 1] \in Maps \cap DOMAIN p
                                THEN Get(p, w[i - 1], path[i]) ELSE None]
  BY <1>9
<1> HIDE DEF w
<1>11. DOMAIN w = 0..N /\ w[0] = Root
  BY <1>1, <1>10
<1>12. ASSUME NEW i \in 1..N PROVE w[i] = NextAt(p, path, w[i - 1], i)
  <2>1. i \in 0..N /\ i # 0
    BY <1>1
  <2> HIDE DEF N
  <2> QED
    BY <1>10, <2>1, ZenonT(60) DEF NextAt
<1>13. Walks(p, path, w)
  BY <1>11, <1>12, Zenon DEF Walks
<1> QED
  BY <1>13 DEF w

\* Down a key is the way up of a parent, from an object that is there.
LEMMA GetIs ==
  ASSUME NEW p, Sound(p), NEW m \in Maps \cap DOMAIN p, NEW k \in Keys, NEW o \in DOMAIN p
  PROVE  Get(p, m, k) = o <=> ~p[o].tombstone /\ <<m, k>> \in p[o].parents
<1>1. o \in Ids /\ m \in Maps /\ None \notin Ids /\ DOMAIN p \subseteq Ids
  BY NoneAssumption, PoolIs DEF Sound, IsPool
<1>2. p[m].data \in MapData
  BY PoolIs DEF Sound
<1>3. p[m].tombstone => DOMAIN p[m].data = {}
  BY <1>1, NewMap DEF Sound, Buried
<1>4. \A j \in DOMAIN p[m].data : p[m].data[j].tombstone => p[m].data[j].value = None
  BY <1>2 DEF MapData, Entries, Entry, RemovedEntry
<1>5. Refers(p, m, k, o) <=> k \in DOMAIN p[m].data /\ p[m].data[k].value = o
  BY DEF Refers
<1>6. Get(p, m, k) = o <=> Refers(p, m, k, o) /\ ~p[o].tombstone
  BY <1>1, <1>3, <1>4, <1>5 DEF Get, EntryTombstoned
<1>7. /\ <<m, k>> \in p[o].parents => Refers(p, m, k, o)
      /\ Refers(p, m, k, o) /\ ~p[o].tombstone => <<m, k>> \in p[o].parents
  BY <1>1 DEF Sound, Linked
<1> QED
  BY <1>6, <1>7

\* A way up from an object to the root, with the keys of a path.
Climbs(p, o, path, way) ==
  /\ way[1] = Root /\ way[Len(path) + 1] = o
  /\ \A i \in 1..Len(path) : /\ way[i] \in Maps \cap DOMAIN p
                             /\ <<way[i], path[i]>> \in p[way[i + 1]].parents

\* A way up is the way down.
LEMMA ClimbWalk ==
  ASSUME NEW p, Sound(p), NEW o \in DOMAIN p, ~p[o].tombstone, NEW path \in Paths, NEW way,
         Climbs(p, o, path, way), NEW at, Walks(p, path, at)
  PROVE  \A i \in 0..Len(path) : at[i] = way[i + 1]
<1> DEFINE N == Len(path)
           T == {i \in Nat : i <= N => at[i] = way[i + 1]}
<1>1. N \in Nat /\ path \in [1..N -> Keys]
  BY PathIs
<1>2. \A i \in 1..(N + 1) : way[i] \in DOMAIN p
  <2> TAKE i \in 1..(N + 1)
  <2>1. CASE i = N + 1
    BY <2>1 DEF Climbs
  <2>2. CASE i # N + 1
    <3>1. i \in 1..N
      BY <1>1, <2>2
    <3> QED
      BY <3>1 DEF Climbs
  <2> QED
    BY <2>1, <2>2
<1>3. ASSUME NEW i \in 1..(N + 1) PROVE ~p[way[i]].tombstone
  <2>1. CASE i = N + 1
    BY <2>1 DEF Climbs
  <2>2. CASE i # N + 1
    <3>1. i \in 1..N /\ i + 1 \in 1..(N + 1)
      BY <1>1, <2>2
    <3>2. way[i] \in Maps \cap DOMAIN p /\ way[i + 1] \in DOMAIN p /\ path[i] \in Keys
          /\ <<way[i], path[i]>> \in p[way[i + 1]].parents
      BY <1>1, <1>2, <3>1 DEF Climbs
    <3>3. Refers(p, way[i], path[i], way[i + 1])
      BY <3>2 DEF Sound, Linked
    <3>4. p[way[i]].tombstone => DOMAIN p[way[i]].data = {}
      BY <3>2, NewMap, RootAssumption DEF Sound, Buried, Ids
    <3> QED
      BY <3>3, <3>4 DEF Refers
  <2> QED
    BY <2>1, <2>2
<1>4. 0 \in T
  BY DEF Walks, Climbs
<1>5. ASSUME NEW i \in T PROVE i + 1 \in T
  <2> SUFFICES ASSUME i + 1 <= N PROVE at[i + 1] = way[i + 2]
    OBVIOUS
  <2>1. /\ at[i] = way[i + 1] /\ i \in Nat /\ i + 1 \in 1..N /\ i + 2 \in 1..(N + 1)
        /\ (i + 1) - 1 = i /\ (i + 1) + 1 = i + 2
    BY <1>1
  <2>2. way[i + 1] \in Maps \cap DOMAIN p /\ <<way[i + 1], path[i + 1]>> \in p[way[i + 2]].parents
    BY <2>1 DEF Climbs
  <2>3. at[i + 1] = Get(p, way[i + 1], path[i + 1])
    BY <2>1, <2>2 DEF Walks, NextAt
  <2>4. way[i + 2] \in DOMAIN p /\ ~p[way[i + 2]].tombstone /\ path[i + 1] \in Keys
    BY <1>1, <1>2, <1>3, <2>1
  <2> QED
    BY <2>2, <2>3, <2>4, GetIs
<1>6. T = Nat
  <2>1. T \subseteq Nat
    OBVIOUS
  <2> HIDE DEF T
  <2> QED
    BY <1>4, <1>5, <2>1, Induction
<1> QED
  BY <1>1, <1>6

\* A way down to an object that is there is a way up.
LEMMA WalkClimb ==
  ASSUME NEW p, Sound(p), NEW o \in DOMAIN p, NEW path \in Paths, NEW at, Walks(p, path, at),
         at[Len(path)] = o
  PROVE  \A i \in 1..Len(path) : /\ at[i - 1] \in Maps \cap DOMAIN p
                                 /\ <<at[i - 1], path[i]>> \in p[at[i]].parents
<1> DEFINE N == Len(path)
           T == {j \in Nat : j <= N => at[N - j] \in DOMAIN p}
<1>1. N \in Nat /\ path \in [1..N -> Keys]
  BY PathIs
<1>2. None \notin DOMAIN p
  BY NoneAssumption DEF Sound, IsPool
<1>3. \A i \in 1..N : at[i] \in DOMAIN p
        => at[i - 1] \in Maps \cap DOMAIN p /\ at[i] = Get(p, at[i - 1], path[i])
  BY <1>2 DEF Walks, NextAt
<1>4. 0 \in T
  BY <1>1
<1>5. ASSUME NEW j \in T PROVE j + 1 \in T
  <2> SUFFICES ASSUME j + 1 <= N PROVE at[N - (j + 1)] \in DOMAIN p
    OBVIOUS
  <2>1. at[N - j] \in DOMAIN p /\ N - j \in 1..N /\ N - (j + 1) = (N - j) - 1
    BY <1>1
  <2> QED
    BY <1>3, <2>1
<1>6. T = Nat
  <2>1. T \subseteq Nat
    OBVIOUS
  <2> HIDE DEF T
  <2> QED
    BY <1>4, <1>5, <2>1, Induction
<1>7. ASSUME NEW i \in 1..N PROVE at[i] \in DOMAIN p
  <2>1. N - i \in T /\ N - i <= N /\ N - (N - i) = i
    BY <1>1, <1>6
  <2> QED
    BY <2>1
<1> SUFFICES ASSUME NEW i \in 1..N
             PROVE  at[i - 1] \in Maps \cap DOMAIN p /\ <<at[i - 1], path[i]>> \in p[at[i]].parents
  OBVIOUS
<1>8. /\ at[i] \in DOMAIN p /\ at[i - 1] \in Maps \cap DOMAIN p
      /\ at[i] = Get(p, at[i - 1], path[i]) /\ path[i] \in Keys
  BY <1>1, <1>3, <1>7
<1> QED
  BY <1>8, GetIs

\* A way and its end.
EndsIn(q, n, o, way) ==
  /\ DOMAIN way = 1..(n + 1) /\ Len(way) = n + 1 /\ way[n + 1] = o
  /\ \A i \in 1..n : way[i] = q[i]

\* Append ends a way in an object.
LEMMA EndsInIs ==
  ASSUME NEW S, NEW n \in Nat, NEW q \in [1..n -> S], NEW o \in S
  PROVE  EndsIn(q, n, o, Append(q, o))
<1> DEFINE way == Append(q, o)
<1>1. q \in Seq(S) /\ Len(q) = n
  OBVIOUS
<1>2. /\ way \in Seq(S) /\ Len(way) = n + 1 /\ way[n + 1] = o
      /\ \A i \in 1..n : way[i] = q[i]
  BY <1>1, AppendProperties
<1>3. DOMAIN way = 1..(n + 1)
  <2> HIDE DEF way
  <2> QED
    BY <1>2, LenProperties
<1> QED
  BY <1>2, <1>3 DEF EndsIn

\* The objects a path goes through, from the top, are those it comes by, from the bottom.
LEMMA PathLeadsBack ==
  ASSUME NEW p, Sound(p), NEW o \in DOMAIN p, ~p[o].tombstone, NEW path \in Paths
  PROVE  path \in FullPaths(p, o) <=>
           LET way == Walk(p, path)
           IN  /\ way[Len(path)] = o
               /\ Cardinality({way[i] : i \in DOMAIN way}) = Len(path) + 1
<1> DEFINE N == Len(path)
           at == Walk(p, path)
<1>1. N \in Nat /\ path \in [1..N -> Keys] /\ DOMAIN path = 1..N
  BY PathIs
<1>2. Walks(p, path, at)
  BY WalkIs
<1> HIDE DEF at
<1>3. \A q \in [1..N -> Maps \cap DOMAIN p] : EndsIn(q, N, o, Append(q, o))
  BY <1>1, EndsInIs, \A q \in [1..N -> Maps \cap DOMAIN p] : q \in [1..N -> DOMAIN p]
<1>4. ASSUME NEW way, DOMAIN way = 1..(N + 1), \A i \in 0..N : at[i] = way[i + 1]
      PROVE  {way[i] : i \in DOMAIN way} = {at[i] : i \in DOMAIN at}
  <2>1. DOMAIN at = 0..N
    BY <1>2 DEF Walks
  <2>2. \A i \in 1..(N + 1) : i - 1 \in 0..N /\ way[i] = at[i - 1]
    BY <1>1, <1>4
  <2>3. \A i \in 0..N : i + 1 \in 1..(N + 1) /\ at[i] = way[i + 1]
    BY <1>1, <1>4
  <2> QED
    BY <1>4, <2>1, <2>2, <2>3
<1>5. ASSUME path \in FullPaths(p, o)
      PROVE  at[N] = o /\ Cardinality({at[i] : i \in DOMAIN at}) = N + 1
  <2>1. PICK q \in [1..N -> Maps \cap DOMAIN p] :
           LET way == Append(q, o)
           IN  /\ way[1] = Root
               /\ Cardinality({way[i] : i \in DOMAIN way}) = Len(way)
               /\ \A i \in DOMAIN path : <<way[i], path[i]>> \in p[way[i + 1]].parents
    BY <1>5 DEF FullPaths
  <2> DEFINE way == Append(q, o)
  <2>2. /\ DOMAIN way = 1..(N + 1) /\ Len(way) = N + 1 /\ way[N + 1] = o
        /\ \A i \in 1..N : way[i] = q[i]
    BY <1>3 DEF EndsIn
  <2>3. /\ way[1] = Root
        /\ Cardinality({way[i] : i \in DOMAIN way}) = N + 1
        /\ \A i \in DOMAIN path : <<way[i], path[i]>> \in p[way[i + 1]].parents
    BY <2>1, <2>2
  <2> HIDE DEF way
  <2>4. Climbs(p, o, path, way)
    BY <1>1, <2>2, <2>3 DEF Climbs
  <2>5. \A i \in 0..N : at[i] = way[i + 1]
    BY <1>2, <2>4, ClimbWalk
  <2>6. at[N] = o
    BY <1>1, <2>2, <2>5
  <2> QED
    BY <1>4, <2>2, <2>3, <2>5, <2>6
<1>6. ASSUME at[N] = o, Cardinality({at[i] : i \in DOMAIN at}) = N + 1
      PROVE  path \in FullPaths(p, o)
  <2> DEFINE q == [i \in 1..N |-> at[i - 1]]
             way == Append(q, o)
  <2>1. \A i \in 1..N :
          at[i - 1] \in Maps \cap DOMAIN p /\ <<at[i - 1], path[i]>> \in p[at[i]].parents
    BY <1>2, <1>6, WalkClimb
  <2>2. q \in [1..N -> Maps \cap DOMAIN p] /\ \A i \in 1..N : q[i] = at[i - 1]
    BY <2>1
  <2> HIDE DEF q
  <2>3. /\ DOMAIN way = 1..(N + 1) /\ Len(way) = N + 1 /\ way[N + 1] = o
        /\ \A i \in 1..N : way[i] = q[i]
    BY <1>3, <2>2 DEF EndsIn
  <2> HIDE DEF way
  <2>4. ASSUME NEW i \in 0..N PROVE at[i] = way[i + 1]
    <3>1. CASE i = N
      BY <1>6, <2>3, <3>1
    <3>2. CASE i # N
      <4>1. i + 1 \in 1..N /\ (i + 1) - 1 = i
        <5>1. N \in Nat /\ i \in 0..N /\ i # N
          BY <1>1, <3>2, Zenon
        <5> HIDE DEF N
        <5> QED
          BY <5>1, SMTT(60)
      <4> QED
        BY <2>2, <2>3, <4>1, SMTT(60)
    <3> QED
      BY <3>1, <3>2
  <2>5. way[1] = Root
    BY <1>1, <1>2, <2>4 DEF Walks
  <2>6. Cardinality({way[i] : i \in DOMAIN way}) = Len(way)
    BY <1>4, <1>6, <2>3, <2>4
  <2>7. ASSUME NEW i \in DOMAIN path PROVE <<way[i], path[i]>> \in p[way[i + 1]].parents
    <3>1. i \in 1..N /\ i \in 0..N /\ i - 1 \in 0..N /\ (i - 1) + 1 = i
      BY <1>1
    <3>2. at[i] = way[i + 1] /\ at[i - 1] = way[i]
      BY <2>4, <3>1
    <3> QED
      BY <2>1, <3>1, <3>2
  <2> QED
    BY <2>2, <2>5, <2>6, <2>7 DEF FullPaths, way
<1> QED
  BY <1>5, <1>6 DEF at

\* The parents of every object lead to the root by exactly the paths that lead down to it, so that
\* get_full_paths finds who listens.
THEOREM ParentsLeadBack == Spec => []PathsLeadBack
<1>1. GraphInv => PathsLeadBack
  <2> SUFFICES ASSUME GraphInv, NEW o \in DOMAIN pool, ~pool[o].tombstone
               PROVE  FullPaths(pool, o) =
                        {path \in Paths :
                           LET way == Walk(pool, path)
                           IN  /\ way[Len(path)] = o
                               /\ Cardinality({way[i] : i \in DOMAIN way}) = Len(path) + 1}
    BY DEF PathsLeadBack
  <2>1. FullPaths(pool, o) \subseteq Paths
    BY DEF FullPaths
  <2> QED
    BY <2>1, PathLeadsBack DEF GraphInv
<1> QED
  BY <1>1, GraphInvariant, PTL

-----------------------------------------------------------------------------
(* What is told.                                                           *)

\* What is at a key of the root.
AtKey(p, k) ==
  LET v == Get(p, Root, k) IN IF v \in Counters \cap DOMAIN p THEN <<v, p[v].data>> ELSE <<v>>

\* The empty path and that of one key are paths.
LEMMA ShortPaths ==
  ASSUME NEW k \in Keys
  PROVE  <<>> \in Paths /\ <<k>> \in Paths
<1>1. Cardinality(Maps) \in Nat /\ Cardinality(Maps) # 0
  BY MapsAssumption, RootAssumption, FS_CardinalityType, FS_EmptySet
<1>2. 0 \in 0..Cardinality(Maps) /\ 1 \in 0..Cardinality(Maps)
  BY <1>1
<1>3. <<>> \in [1..0 -> Keys] /\ <<k>> \in [1..1 -> Keys]
  OBVIOUS
<1> QED
  BY <1>2, <1>3 DEF Paths

\* What a path of one key resolves to is at the key of the root.
LEMMA ValueAtIs ==
  ASSUME NEW p, Sound(p), NEW k \in Keys
  PROVE  ValueAt(p, <<k>>) = AtKey(p, k)
<1> DEFINE at == Walk(p, <<k>>)
<1>1. Walks(p, <<k>>, at)
  BY ShortPaths, WalkIs
<1>2. Root \in Maps \cap DOMAIN p
  BY RootAssumption DEF Sound, IsPool
<1>3. Len(<<k>>) = 1 /\ <<k>>[1] = k
  OBVIOUS
<1> HIDE DEF at
<1>4. at[1] = Get(p, Root, k)
  BY <1>1, <1>2, <1>3 DEF Walks, NextAt
<1> QED
  BY <1>3, <1>4 DEF ValueAt, AtKey, at

\* The root hears by the empty path.
LEMMA RootPath ==
  ASSUME NEW p, Sound(p)
  PROVE  <<>> \in FullPaths(p, Root)
<1>1. Root \in DOMAIN p /\ ~p[Root].tombstone
  BY DEF Sound, IsPool, Buried
<1>2. DOMAIN <<>> = {} /\ Len(<<>>) = 0 /\ <<>> \in [1..0 -> Maps \cap DOMAIN p]
  OBVIOUS
<1> DEFINE way == Append(<<>>, Root)
<1>3. way = <<Root>>
  OBVIOUS
<1>4. way[1] = Root /\ Len(way) = 1 /\ {way[i] : i \in DOMAIN way} = {Root}
  BY <1>3
<1>5. Cardinality({way[i] : i \in DOMAIN way}) = Len(way)
  BY <1>4, FS_Singleton
<1>6. <<>> \in Paths
  <2>1. Cardinality(Maps) \in Nat
    BY MapsAssumption, FS_CardinalityType
  <2>2. 0 \in 0..Cardinality(Maps)
    BY <2>1
  <2>3. <<>> \in [1..0 -> Keys]
    OBVIOUS
  <2> QED
    BY <2>2, <2>3 DEF Paths
<1> HIDE DEF way
<1> QED
  BY <1>2, <1>4, <1>5, <1>6 DEF FullPaths, way

\* A set of two has two elements.
LEMMA TwoElements ==
  ASSUME NEW x, NEW y, x # y
  PROVE  Cardinality({x, y}) = 2
<1> DEFINE S == {x}
<1>1. IsFiniteSet(S) /\ Cardinality(S) = 1 /\ y \notin S /\ S \union {y} = {x, y}
  BY FS_Singleton
<1> HIDE DEF S
<1>2. Cardinality(S \union {y}) = Cardinality(S) + 1
  BY <1>1, FS_AddElement
<1>3. Cardinality({x, y}) = 1 + 1
  BY <1>1, <1>2, Zenon
<1> QED
  BY <1>3

\* An object at a key of the root hears by the path of the key.
LEMMA KeyPath ==
  ASSUME NEW p, Sound(p), NEW k \in Keys, NEW o \in DOMAIN p, o # Root, <<Root, k>> \in p[o].parents
  PROVE  <<k>> \in FullPaths(p, o)
<1> DEFINE q == <<Root>>
           way == Append(q, o)
           path == <<k>>
<1>1. Root \in Maps \cap DOMAIN p
  BY RootAssumption DEF Sound, IsPool
<1>2. Len(path) = 1 /\ DOMAIN path = {1} /\ path[1] = k /\ path \in Paths
  BY ShortPaths
<1>3. q \in [1..1 -> Maps \cap DOMAIN p]
  BY <1>1
<1>4. DOMAIN way = 1..2 /\ Len(way) = 2 /\ way[2] = o /\ way[1] = Root
  <2>1. q \in [1..1 -> DOMAIN p] /\ q[1] = Root
    BY <1>1
  <2> HIDE DEF q
  <2>2. EndsIn(q, 1, o, way)
    BY <2>1, EndsInIs
  <2> HIDE DEF way
  <2> QED
    BY <2>1, <2>2 DEF EndsIn
<1> HIDE DEF way
<1>5. /\ way[1] = Root /\ way[2] = o /\ Len(way) = 2 /\ {way[i] : i \in DOMAIN way} = {Root, o}
  BY <1>4
<1>6. Cardinality({way[i] : i \in DOMAIN way}) = Len(way)
  <2>1. Cardinality({Root, o}) = 2
    BY TwoElements
  <2> QED
    BY <1>5, <2>1
<1>7. \A i \in DOMAIN path : <<way[i], path[i]>> \in p[way[i + 1]].parents
  BY <1>2, <1>5
<1> HIDE DEF path, q
<1> QED
  BY <1>2, <1>3, <1>5, <1>6, <1>7 DEF FullPaths, path, way

\* What is at a key of the root, by its entry there.
LEMMA AtKeyIs ==
  ASSUME NEW p, Sound(p), NEW k \in Keys
  PROVE  LET d == p[Root].data
             v == d[k].value
         IN  /\ d \in MapData /\ ~p[Root].tombstone
             /\ Get(p, Root, k) = IF k \notin DOMAIN d THEN None
                                  ELSE IF d[k].tombstone THEN None
                                  ELSE IF v \in Ids \ DOMAIN p THEN None
                                  ELSE IF v \in DOMAIN p /\ p[v].tombstone THEN None ELSE v
<1>1. Root \in DOMAIN p /\ ~p[Root].tombstone /\ p[Root].data \in MapData
  BY RootAssumption, PoolIs DEF Sound, IsPool, Buried
<1> QED
  BY <1>1 DEF Get, EntryTombstoned

\* The entry at a key and the object there are the same.
SameAt(p, q, k) ==
  LET d == p[Root].data
      e == q[Root].data
      v == d[k].value
  IN  \/ k \notin DOMAIN d /\ k \notin DOMAIN e
      \/ /\ k \in DOMAIN d /\ k \in DOMAIN e /\ e[k] = d[k]
         /\ v \in DOMAIN p <=> v \in DOMAIN q
         /\ v \in DOMAIN p => /\ p[v].tombstone <=> q[v].tombstone
                              /\ v \in Counters => p[v].data = q[v].data

\* The same entry and object resolve to the same.
LEMMA SameValue ==
  ASSUME NEW p, Sound(p), NEW q, Sound(q), NEW k \in Keys, SameAt(p, q, k)
  PROVE  AtKey(p, k) = AtKey(q, k)
<1>1. Get(q, Root, k) = Get(p, Root, k)
  BY AtKeyIs, ZenonT(60) DEF SameAt
<1>2. \/ Get(p, Root, k) = None
      \/ Get(p, Root, k) = p[Root].data[k].value /\ k \in DOMAIN p[Root].data
  BY AtKeyIs
<1>3. None \notin Counters
  BY NoneAssumption DEF Ids
<1> QED
  BY <1>1, <1>2, <1>3, SMTT(60) DEF AtKey, SameAt

\* An operation that changes what is at a key of the root is told there.
LEMMA OperationHeard ==
  ASSUME NEW p, Sound(p), NEW op, IsOp(op), Mentioned(op) \cap Dangling(p) = {},
         NEW r, Applies(p, op, r), NEW k \in Keys, ~SameAt(p, r.pool, k)
  PROVE  <<k>> \in Dispatch(r.pool, r.updates)
<1> DEFINE q == r.pool
           o == op.object
           x == At(p, o)
           y == q[o]
           d == p[Root].data
           e == q[Root].data
           v == d[k].value
<1>1. /\ Steps(p, o, Mentioned(op), q) /\ Told(x, y, o, r.updates)
      /\ Sound(q) /\ o \in DOMAIN q /\ o \in Ids
  BY DEF Applies, Steps, IsOp
<1>2. /\ Root \in DOMAIN p /\ Root \in DOMAIN q /\ Root \in Maps /\ ~p[Root].tombstone
      /\ ~q[Root].tombstone
      /\ DOMAIN p \subseteq DOMAIN q /\ DOMAIN q \subseteq Ids
  BY <1>1, RootAssumption DEF Steps, Sound, IsPool, Buried
<1>3. At(p, Root) = p[Root]
  BY <1>2 DEF At
<1> HIDE DEF q
<1>4. CASE ~(\/ k \in DOMAIN d /\ k \in DOMAIN e /\ d[k] = e[k]
             \/ k \notin DOMAIN d /\ k \notin DOMAIN e)
  <2>1. o = Root
    <3> SUFFICES ASSUME o # Root PROVE FALSE
      OBVIOUS
    <3>1. HoldSame(q[Root], p[Root])
      BY <1>1, <1>2, <1>3 DEF Steps
    <3> QED
      BY <1>4, <3>1 DEF HoldSame
  <2>2. KeysTold(p[Root], q[Root], Root, r.updates)
    BY <1>1, <1>2, <1>3, <2>1 DEF Told
  <2>3. PICK u \in r.updates : u.object = Root /\ k \in u.keys
    BY <1>4, <2>2 DEF KeysTold
  <2>4. <<>> \in FullPaths(q, Root) /\ Append(<<>>, k) = <<k>>
    BY <1>1, RootPath
  <2>5. <<k>> \in Candidates(q, u)
    BY <2>3, <2>4, SMTT(60) DEF Candidates
  <2> QED
    BY <2>3, <2>5 DEF Dispatch, q
<1>5. CASE k \in DOMAIN d /\ k \in DOMAIN e /\ d[k] = e[k]
  <2>0. ~(/\ v \in DOMAIN p <=> v \in DOMAIN q
          /\ v \in DOMAIN p => /\ p[v].tombstone <=> q[v].tombstone
                               /\ v \in Counters => p[v].data = q[v].data)
    BY <1>5 DEF SameAt, q
  <2>1. v \in DOMAIN p
    <3> SUFFICES ASSUME v \notin DOMAIN p, v \in DOMAIN q PROVE FALSE
      BY <1>2, <2>0
    <3>1. Refers(p, Root, k, v) /\ v \in Ids
      BY <1>2, <1>5 DEF Refers
    <3>2. v \in Dangling(p)
      BY <1>2, <3>1 DEF Dangling
    <3>3. v \in Mentioned(op)
      BY <1>1 DEF Steps
    <3> QED
      BY <3>2, <3>3
  <2>2. v = o
    <3> SUFFICES ASSUME v # o PROVE FALSE
      OBVIOUS
    <3>1. Alike(q[v], p[v]) /\ HoldSame(q[v], p[v])
      BY <1>1, <1>2, <2>1 DEF Steps, At
    <3> QED
      BY <1>2, <2>0, <2>1, <3>1 DEF Alike, HoldSame
  <2>3. x = p[o] /\ o \in DOMAIN p
    BY <2>1, <2>2 DEF At
  <2>4. x.tombstone \in BOOLEAN /\ y.tombstone \in BOOLEAN
    <3>1. p[o] \in Replicas(o) /\ q[o] \in Replicas(o)
      BY <1>1, <2>3, PoolIs DEF Sound
    <3> QED
      BY <2>3, <3>1 DEF Replicas
  <2>5. y.tombstone # x.tombstone \/ (o \in Counters /\ y.data # x.data)
    BY <1>1, <1>2, <2>0, <2>1, <2>2, <2>3
  <2>6. PICK u \in r.updates : u.object = o
    BY <1>1, <2>5 DEF Told
  <2>7. o # Root
    BY <1>2, <1>3, <2>4, <2>5, RootAssumption
  <2>8. Refers(p, Root, k, o) /\ Refers(q, Root, k, o)
    BY <1>2, <1>5, <2>2 DEF Refers
  <2>9. <<Root, k>> \in y.parents
    <3>1. CASE ~y.tombstone
      BY <1>1, <1>2, <2>8, <3>1 DEF Sound, Linked
    <3>2. CASE y.tombstone /\ ~x.tombstone
      <4>1. <<Root, k>> \in x.parents
        BY <1>2, <2>3, <2>8, <3>2 DEF Sound, Linked
      <4> QED
        BY <1>1, <3>2, <4>1 DEF Told
    <3>3. CASE y.tombstone /\ x.tombstone
      <4>1. o \in Counters /\ y.data # x.data
        BY <2>4, <2>5, <3>3
      <4>2. y.data = NewObject(o).data /\ x.data = NewObject(o).data
        BY <1>1, <2>3, <3>3 DEF Sound, Buried
      <4> QED
        BY <4>1, <4>2
    <3> QED
      BY <3>1, <3>2, <3>3
  <2>10. <<k>> \in FullPaths(q, o)
    BY <1>1, <2>7, <2>9, KeyPath
  <2>11. <<k>> \in Candidates(q, u)
    BY <2>6, <2>10, SMTT(60) DEF Candidates
  <2> QED
    BY <2>6, <2>11, SMTT(60) DEF Dispatch, q
<1>6. CASE k \notin DOMAIN d /\ k \notin DOMAIN e
  BY <1>6 DEF SameAt, q
<1> QED
  BY <1>4, <1>5, <1>6

\* A collection changes nothing that is seen.
LEMMA CollectUnseen ==
  ASSUME NEW p, Sound(p), NEW time, NEW q, Collects(p, time, q), NEW k \in Keys
  PROVE  AtKey(p, k) = AtKey(q, k)
<1> DEFINE d == p[Root].data
           e == q[Root].data
           v == d[k].value
<1>1. Sound(q) /\ DOMAIN q \subseteq DOMAIN p
  BY DEF Collects
<1>2. Root \in Maps \cap DOMAIN q
  BY <1>1, RootAssumption DEF Sound, IsPool
<1>3. None \notin Counters
  BY NoneAssumption DEF Ids
<1>4. CASE k \in DOMAIN d /\ k \notin DOMAIN e
  <2>1. d[k].tombstone
    BY <1>2, <1>4 DEF Collects, Due
  <2>2. Get(p, Root, k) = None /\ Get(q, Root, k) = None
    BY <1>1, <1>4, <2>1, AtKeyIs
  <2> QED
    BY <1>3, <2>2 DEF AtKey
<1>5. CASE k \in DOMAIN d /\ k \in DOMAIN e /\ v \in DOMAIN p /\ v \notin DOMAIN q
  <2>1. p[v].tombstone /\ e[k] = d[k] /\ v \in Ids
    BY <1>1, <1>2, <1>5, PoolIs DEF Collects, Due, Sound
  <2>2. Get(p, Root, k) = None /\ Get(q, Root, k) = None
    BY <1>1, <1>5, <2>1, AtKeyIs
  <2> QED
    BY <1>3, <2>2 DEF AtKey
<1>6. CASE k \in DOMAIN d /\ k \in DOMAIN e /\ (v \in DOMAIN p => v \in DOMAIN q)
  <2>1. e[k] = d[k]
    BY <1>2, <1>6 DEF Collects
  <2>2. v \in DOMAIN p => /\ p[v].tombstone <=> q[v].tombstone
                          /\ v \in Counters => p[v].data = q[v].data
    BY <1>6 DEF Collects, Alike
  <2>3. SameAt(p, q, k)
    BY <1>1, <1>6, <2>1, <2>2 DEF SameAt
  <2> QED
    BY <1>1, <2>3, SameValue
<1>7. CASE k \notin DOMAIN d
  <2>1. k \notin DOMAIN e
    BY <1>2, <1>7 DEF Collects
  <2>2. SameAt(p, q, k)
    BY <1>7, <2>1 DEF SameAt
  <2> QED
    BY <1>1, <2>2, SameValue
<1> QED
  BY <1>4, <1>5, <1>6, <1>7

\* What a step owes the listeners.
HeardStep ==
  \A k \in Keys : (ValueAt(pool, <<k>>)' # ValueAt(pool, <<k>>) /\ ~bySync' /\ ~cleared')
                     => <<k>> \in heard'

\* An operation is heard,
LEMMA ReceiveHeard ==
  ASSUME GraphInv, NEW op \in Ops, ~Expired(op, collected), Receive(op)
  PROVE  HeardStep
<1> DEFINE r == ApplyOperation(pool, op, "channel")
<1>1. IsOp(op) /\ Mentioned(op) \cap Dangling(pool) = {} /\ Applies(pool, op, r)
  BY OperationApplies
<1>2. pool' = r.pool /\ heard' = Dispatch(r.pool, r.updates) /\ Sound(pool)
  BY DEF Receive, GraphInv
<1> HIDE DEF r
<1>3. Sound(r.pool)
  BY <1>1 DEF Applies, Steps
<1> SUFFICES ASSUME NEW k \in Keys, ValueAt(pool', <<k>>) # ValueAt(pool, <<k>>)
             PROVE  <<k>> \in heard'
  BY DEF HeardStep
<1>4. AtKey(r.pool, k) # AtKey(pool, k)
  BY <1>2, <1>3, ValueAtIs
<1>5. ~SameAt(pool, r.pool, k)
  BY <1>2, <1>3, <1>4, SameValue
<1> QED
  BY <1>1, <1>2, <1>5, OperationHeard

\* a collection has nothing to tell,
LEMMA CollectHeard ==
  ASSUME GraphInv, Collect
  PROVE  HeardStep
<1>1. PICK time \in 1..Len(log) : pool' = CollectGarbage(pool, time)
  BY DEF Collect
<1>2. Len(log) = MaxOps /\ MaxOps \in Nat /\ time \in Nat
  BY LogIs, MaxOpsAssumption DEF GraphInv, Typed
<1>3. Collects(pool, time, pool') /\ Sound(pool)
  BY <1>1, <1>2, CollectIs DEF GraphInv
<1>4. \A k \in Keys : AtKey(pool, k) = AtKey(pool', k)
  BY <1>3, CollectUnseen
<1>5. Sound(pool')
  BY <1>3 DEF Collects
<1>6. \A k \in Keys : ValueAt(pool', <<k>>) = ValueAt(pool, <<k>>)
  BY <1>3, <1>4, <1>5, ValueAtIs
<1> QED
  BY <1>6 DEF HeardStep

\* so every step tells what it owes.
LEMMA StepHeard ==
  ASSUME GraphInv, [Next]_vars
  PROVE  HeardStep
<1>1. CASE Deliver
  <2>1. PICK op \in Ops \ received : Receive(op)
    BY <1>1 DEF Deliver
  <2>2. ~Expired(op, collected)
    BY DEF GraphInv, Undelivered
  <2> QED
    BY <2>1, <2>2, ReceiveHeard
<1>2. CASE DeliverAgain
  <2>1. PICK op \in received : ~Expired(op, collected) /\ Receive(op)
    BY <1>2 DEF DeliverAgain
  <2>2. op \in Ops
    BY DEF GraphInv, Typed
  <2> QED
    BY <2>1, <2>2, ReceiveHeard
<1>3. CASE Sync
  BY <1>3 DEF Sync, HeardStep
<1>4. CASE Clear
  BY <1>4 DEF Clear, HeardStep
<1>5. CASE UNCHANGED vars
  BY <1>5 DEF vars, HeardStep
<1> QED
  BY <1>1, <1>2, <1>3, <1>4, <1>5, CollectHeard DEF Next

\* Whoever listens at a key of the root is told whenever an operation changes what is there: the
\* value, the count of the counter it references, or whether that object is still there.
THEOREM OperationsTold == Spec => OperationsAreHeard
<1>1. GraphInv /\ [Next]_vars => [HeardStep]_vars
  BY StepHeard
<1>2. Spec => [][HeardStep]_vars
  BY <1>1, GraphInvariant, PTL DEF Spec
<1> QED
  BY <1>2 DEF OperationsAreHeard, HeardStep

-----------------------------------------------------------------------------
(* The last of the entries of a key.                                       *)

\* Entries by serial.
Distinct(entries) ==
  /\ \A e \in entries : e.serial \in 0..MaxOps /\ (e.tombstone => e.at = e.serial)
  /\ \A e, f \in entries : e.serial = f.serial => e = f

\* Entries have a last one, if there are any.
LEMMA LastExists ==
  ASSUME NEW E, Distinct(E), E # {}
  PROVE  \E e \in E : \A f \in E : f.serial <= e.serial
<1> DEFINE S == {e.serial : e \in E}
<1>1. S \in SUBSET (0..MaxOps) /\ S # {} /\ MaxOps \in Nat
  BY MaxOpsAssumption DEF Distinct
<1>2. Max(S) \in S /\ \A n \in S : n <= Max(S)
  <2> HIDE DEF S
  <2> QED
    BY <1>1, MaxIs
<1> QED
  BY <1>2

\* What holds a key of one map is held of another.
SameKey(d, k, d2) == (k \in DOMAIN d2 <=> k \in DOMAIN d) /\ (k \in DOMAIN d => d2[k] = d[k])

\* A new entry that is written when it is newer than what is there leaves the key with the last.
LEMMA KeyWritten ==
  ASSUME NEW C \in Nat, NEW E, Distinct(E), NEW w, w.serial \in 1..MaxOps,
         \A e \in E : e.serial # w.serial,
         NEW time \in Nat, w.serial > time, NEW d, NEW k, KeyHolds(C, E, d, k, time), NEW d2,
         IF ~(C # 0 /\ C >= w.serial) /\ (k \in DOMAIN d => w.serial > d[k].serial)
         THEN k \in DOMAIN d2 /\ d2[k] = w ELSE SameKey(d, k, d2)
  PROVE  KeyHolds(C, E \union {w}, d2, k, time)
<1> DEFINE F == E \union {w}
<1>1. w.serial \in Nat /\ MaxOps \in Nat /\ \A e \in E : e.serial \in Nat
  BY MaxOpsAssumption DEF Distinct
<1>2. CASE C # 0 /\ C >= w.serial
  <2>1. LastOf(C, F) = LastOf(C, E)
    <3>1. w \notin LastOf(C, F)
      BY <1>1, <1>2 DEF LastOf
    <3>2. \A e \in E : e \in LastOf(C, F) => e \in LastOf(C, E)
      BY DEF LastOf
    <3>3. ASSUME NEW e \in LastOf(C, E) PROVE e \in LastOf(C, F)
      <4>1. e \in E /\ e.serial > C /\ \A f \in E : f.serial <= e.serial
        BY <1>2 DEF LastOf
      <4>2. w.serial <= e.serial
        BY <1>1, <1>2, <4>1
      <4> QED
        BY <4>1, <4>2 DEF LastOf
    <3>4. LastOf(C, F) \subseteq F /\ LastOf(C, E) \subseteq E
      BY DEF LastOf
    <3> QED
      BY <3>1, <3>2, <3>3, <3>4
  <2> QED
    BY <1>2, <2>1 DEF KeyHolds, SameKey
<1>3. CASE ~(C # 0 /\ C >= w.serial) /\ (k \in DOMAIN d => w.serial > d[k].serial)
  <2>1. \A e \in E : e.serial < w.serial
    <3> SUFFICES ASSUME NEW x \in E, ~(x.serial < w.serial) PROVE FALSE
      OBVIOUS
    <3>1. PICK e \in E : \A f \in E : f.serial <= e.serial
      BY LastExists
    <3>2. e.serial > w.serial
      BY <1>1, <3>1
    <3>3. e \in LastOf(C, E)
      <4>1. C = 0 \/ e.serial > C
        BY <1>1, <1>3, <3>2
      <4> QED
        BY <3>1, <4>1 DEF LastOf
    <3>4. CASE k \in DOMAIN d
      <4>1. d[k] \in E /\ e.serial <= d[k].serial /\ d[k].serial \in Nat
        BY <1>1, <3>3, <3>4 DEF KeyHolds, LastOf
      <4> QED
        BY <1>1, <1>3, <3>2, <3>4, <4>1
    <3>5. CASE k \notin DOMAIN d
      BY <1>1, <3>2, <3>3, <3>5 DEF KeyHolds
    <3> QED
      BY <3>4, <3>5
  <2>2. \A f \in F : f.serial <= w.serial
    BY <1>1, <2>1
  <2>3. C = 0 \/ w.serial > C
    BY <1>1, <1>3
  <2>4. w \in LastOf(C, F)
    BY <2>2, <2>3 DEF LastOf
  <2> QED
    BY <1>3, <2>4 DEF KeyHolds
<1>4. CASE k \in DOMAIN d /\ ~(w.serial > d[k].serial)
  <2>1. d[k] \in E /\ (C = 0 \/ d[k].serial > C) /\ \A f \in E : f.serial <= d[k].serial
    BY <1>4 DEF KeyHolds, LastOf
  <2>2. w.serial <= d[k].serial
    BY <1>1, <1>4, <2>1
  <2>3. d[k] \in LastOf(C, F)
    BY <2>1, <2>2 DEF LastOf
  <2> QED
    BY <1>4, <2>3 DEF KeyHolds, SameKey
<1> QED
  BY <1>2, <1>3, <1>4

\* So does a clear that drops what is older,
LEMMA KeyCleared ==
  ASSUME NEW C \in Nat, NEW E, Distinct(E), NEW serial \in Nat, serial # 0, C <= serial,
         \A e \in E : e.serial # serial, NEW time \in Nat,
         NEW d, NEW k, KeyHolds(C, E, d, k, time), NEW d2,
         k \in DOMAIN d2 <=> k \in DOMAIN d /\ ~(serial > d[k].serial),
         k \in DOMAIN d2 => d2[k] = d[k]
  PROVE  KeyHolds(serial, E, d2, k, time)
<1>1. MaxOps \in Nat /\ \A e \in E : e.serial \in Nat
  BY MaxOpsAssumption DEF Distinct
<1>2. \A e \in LastOf(serial, E) : e \in LastOf(C, E) /\ e.serial > serial
  BY <1>1 DEF LastOf
<1>3. CASE k \in DOMAIN d2
  <2>1. d[k] \in LastOf(C, E) /\ ~(serial > d[k].serial)
    BY <1>3 DEF KeyHolds
  <2>2. d[k] \in E /\ d[k].serial > serial
    BY <1>1, <2>1 DEF LastOf
  <2>3. d[k] \in LastOf(serial, E)
    BY <2>1, <2>2 DEF LastOf
  <2> QED
    BY <1>3, <2>3 DEF KeyHolds
<1>4. CASE k \notin DOMAIN d2 /\ k \in DOMAIN d
  <2>1. d[k] \in LastOf(C, E) /\ serial > d[k].serial
    BY <1>4 DEF KeyHolds
  <2>2. \A e \in LastOf(C, E) : e.serial <= d[k].serial /\ d[k].serial \in Nat /\ e.serial \in Nat
    BY <1>1, <2>1 DEF LastOf
  <2>3. LastOf(serial, E) = {}
    BY <1>2, <2>1, <2>2
  <2> QED
    BY <1>4, <2>3 DEF KeyHolds
<1>5. CASE k \notin DOMAIN d2 /\ k \notin DOMAIN d
  BY <1>2, <1>5 DEF KeyHolds
<1> QED
  BY <1>3, <1>4, <1>5

\* An initial entry counts where nothing was written.
LEMMA KeyInitial ==
  ASSUME NEW C \in Nat, NEW W, Distinct(W), \A e \in W : e.serial # 0,
         NEW i, i.serial = 0, NEW time \in Nat, NEW d, NEW k, KeyHolds(C, W, d, k, time),
         C = 0 /\ k \notin DOMAIN d => W = {}, NEW d2,
         IF C = 0 /\ k \notin DOMAIN d THEN k \in DOMAIN d2 /\ d2[k] = i ELSE SameKey(d, k, d2)
  PROVE  KeyHolds(C, W \union {i}, d2, k, time)
<1> DEFINE F == W \union {i}
<1>1. MaxOps \in Nat /\ \A e \in W : e.serial \in Nat
  BY MaxOpsAssumption DEF Distinct
<1>2. CASE C = 0 /\ k \notin DOMAIN d
  <2>1. F = {i}
    BY <1>2
  <2>2. i \in LastOf(C, F)
    BY <1>2, <2>1 DEF LastOf
  <2> QED
    BY <1>2, <2>2 DEF KeyHolds
<1>3. CASE k \in DOMAIN d
  <2>1. d[k] \in W /\ (C = 0 \/ d[k].serial > C) /\ \A f \in W : f.serial <= d[k].serial
    BY <1>3 DEF KeyHolds, LastOf
  <2>2. i.serial <= d[k].serial
    BY <1>1, <2>1
  <2>3. d[k] \in LastOf(C, F)
    BY <2>1, <2>2 DEF LastOf
  <2> QED
    BY <1>3, <2>3 DEF KeyHolds, SameKey
<1>4. CASE C # 0 /\ k \notin DOMAIN d
  <2>1. i \notin LastOf(C, F)
    BY <1>4 DEF LastOf
  <2>2. LastOf(C, F) \subseteq LastOf(C, W)
    BY <2>1 DEF LastOf
  <2> QED
    BY <1>4, <2>2 DEF KeyHolds, SameKey
<1> QED
  BY <1>2, <1>3, <1>4

\* and a collection of what was removed.
LEMMA KeyCollected ==
  ASSUME NEW C \in Nat, NEW E, Distinct(E), NEW time \in Nat, NEW later \in Nat, time <= later,
         NEW d, NEW k, KeyHolds(C, E, d, k, time), NEW d2,
         k \in DOMAIN d2 <=> k \in DOMAIN d /\ ~Due(d[k], later),
         k \in DOMAIN d2 => d2[k] = d[k]
  PROVE  KeyHolds(C, E, d2, k, later)
<1>1. MaxOps \in Nat /\ \A e \in E : e.serial \in Nat
  BY MaxOpsAssumption DEF Distinct
<1>2. CASE k \in DOMAIN d2
  BY <1>2 DEF KeyHolds
<1>3. CASE k \notin DOMAIN d2 /\ k \in DOMAIN d
  <2> SUFFICES ASSUME NEW e \in LastOf(C, E) PROVE e.tombstone /\ e.serial <= later
    BY <1>3 DEF KeyHolds
  <2>1. d[k] \in LastOf(C, E) /\ d[k].tombstone /\ d[k].at <= later
    BY <1>3 DEF KeyHolds, Due
  <2>2. e \in E /\ d[k] \in E /\ e.serial <= d[k].serial /\ d[k].serial <= e.serial
    BY <2>1 DEF LastOf
  <2>3. e.serial = d[k].serial
    BY <1>1, <2>2
  <2>4. e = d[k] /\ d[k].at = d[k].serial
    BY <2>1, <2>2, <2>3 DEF Distinct
  <2> QED
    BY <2>1, <2>4
<1>4. CASE k \notin DOMAIN d2 /\ k \notin DOMAIN d
  <2>1. \A e \in LastOf(C, E) : e.serial \in Nat /\ e.tombstone /\ e.serial <= time
    BY <1>1, <1>4 DEF KeyHolds, LastOf
  <2> QED
    BY <1>4, <2>1 DEF KeyHolds
<1> QED
  BY <1>2, <1>3, <1>4

\* No create twice.
LEMMA OneCreate ==
  ASSUME log \in Logs, NEW ops \in SUBSET Ops, NEW o, NEW x \in On(ops, o, "create"),
         NEW y \in On(ops, o, "create")
  PROVE  x = y
<1>1. x \in Ops /\ y \in Ops /\ x.object = y.object /\ x.action = "create" /\ y.action = "create"
  BY DEF On
<1>2. x.serial <= y.serial /\ y.serial <= x.serial
  BY <1>1, OpsAre
<1>3. x.serial \in Nat /\ y.serial \in Nat
  BY <1>1, OpsAre, MaxOpsAssumption DEF IsOp
<1>4. x.serial = y.serial
  BY <1>2, <1>3
<1> QED
  BY <1>1, <1>4, OpsAre

\* The entries of a key are told apart by their serials.
LEMMA EntriesDistinct ==
  ASSUME log \in Logs, NEW ops \in SUBSET Ops, NEW m \in Maps, NEW k
  PROVE  /\ Distinct(Written(ops, m, k)) /\ Distinct(EntriesFor(ops, m, k))
         /\ \A e \in Written(ops, m, k) : e.serial # 0
<1>1. ASSUME NEW e \in Entries PROVE e.tombstone => e.at = e.serial
  BY EntryIs DEF Entries, Entry, RemovedEntry
<1>2. /\ \A e \in Written(ops, m, k) : e.serial \in 1..MaxOps /\ e \in Entries
      /\ \A e \in Initial(ops, m, k) : e.serial = 0 /\ e \in Entries
  <2>1. \A e \in Written(ops, m, k) : e.serial \in 1..MaxOps /\ e \in Entries
    BY WrittenIs
  <2>2. \A e \in Initial(ops, m, k) : e.serial = 0 /\ e \in Entries
    BY InitialsAre DEF ComesWith
  <2> QED
    BY <2>1, <2>2
<1>3. ASSUME NEW e \in Written(ops, m, k), NEW f \in Written(ops, m, k), e.serial = f.serial
      PROVE e = f
  <2>1. PICK a \in ops : Writer(a, k, e)
    BY WrittenIs
  <2>2. PICK b \in ops : Writer(b, k, f)
    BY WrittenIs
  <2>3. a = b
    BY <1>3, <2>1, <2>2, OpsAre DEF Writer
  <2> QED
    BY <2>1, <2>2, <2>3 DEF Writer
<1>4. ASSUME NEW e \in Initial(ops, m, k), NEW f \in Initial(ops, m, k) PROVE e = f
  <2>1. PICK a \in On(ops, m, "create") : k \in DOMAIN a.entries /\ e = a.entries[k]
    BY InitialsAre DEF ComesWith
  <2>2. PICK b \in On(ops, m, "create") : k \in DOMAIN b.entries /\ f = b.entries[k]
    BY InitialsAre DEF ComesWith
  <2> QED
    BY <2>1, <2>2, OneCreate
<1>5. 0 \in 0..MaxOps /\ \A n \in 1..MaxOps : n \in 0..MaxOps /\ n # 0
  BY MaxOpsAssumption
<1> QED
  BY <1>1, <1>2, <1>3, <1>4, <1>5 DEF Distinct, EntriesFor

-----------------------------------------------------------------------------
(* One operation more.                                                     *)

\* The count is the sum of its operations.
LEMMA CounterMeaningIs ==
  ASSUME NEW ops, NEW c
  PROVE  CounterMeaning(ops, c) = Total(On(ops, c, "inc") \union First(On(ops, c, "create")))
  BY DEF CounterMeaning, Total

\* What is noted of an object, and what it holds, does not depend on its parents.
LEMMA SameStands ==
  ASSUME NEW ops, NEW o, NEW x, NEW y, Alike(y, x)
  PROVE  /\ Stands(ops, o, x) => Stands(ops, o, y)
         /\ HoldSame(y, x) => \A time : Holds(ops, o, x, time) => Holds(ops, o, y, time)
  BY DEF Alike, HoldSame, Stands, Holds

\* Nothing was done to a new object.
LEMMA NewStands ==
  ASSUME log \in Logs, NEW ops \in SUBSET Ops, NEW o \in Ids, \A op \in ops : op.object # o,
         NEW time
  PROVE  Stands(ops, o, NewObject(o)) /\ Holds(ops, o, NewObject(o), time)
<1> DEFINE x == NewObject(o)
<1>1. \A a : On(ops, o, a) = {}
  BY DEF On
<1>2. /\ x.tombstone = FALSE /\ x.merged = FALSE /\ x.clear = 0
      /\ \A s \in Sites : x.siteSerials[s] = 0
  BY DEF NewObject
<1>3. x.data = IF o \in Counters THEN 0 ELSE <<>>
  BY DEF NewObject
<1> HIDE DEF x
<1>4. Stands(ops, o, x)
  BY <1>1, <1>2 DEF Stands, Deleted, IsLastSerial
<1>5. ASSUME o \in Counters PROVE x.data = CounterMeaning(ops, o)
  <2>1. On(ops, o, "inc") \union First(On(ops, o, "create")) = {}
    BY <1>1 DEF First
  <2>2. Total({}) = 0
    BY TotalTakes, FS_EmptySet DEF Amounts
  <2> QED
    BY <1>3, <1>5, <2>1, <2>2, CounterMeaningIs
<1>6. ASSUME o \in Maps
      PROVE  /\ x.clear = LastClear(ops, o)
             /\ \A k : KeyHolds(x.clear, EntriesFor(ops, o, k), x.data, k, time)
  <2>1. LastClear(ops, o) = 0
    <3>1. LastClear(ops, o) # 0 => \E op \in On(ops, o, "clear") : op.serial = LastClear(ops, o)
      BY LastClearIs
    <3> QED
      BY <1>1, <3>1
  <2>2. \A k : EntriesFor(ops, o, k) = {}
    BY <1>1 DEF EntriesFor, Written, Initial
  <2>3. DOMAIN x.data = {}
    BY <1>6, NewMap DEF x
  <2> QED
    BY <1>2, <2>1, <2>2, <2>3 DEF KeyHolds, LastOf
<1> QED
  BY <1>4, <1>5, <1>6 DEF Holds, x

\* What is done to one object says nothing of another.
LEMMA OtherStands ==
  ASSUME NEW ops, NEW op, NEW o, op.object # o, NEW x
  PROVE  /\ Stands(ops, o, x) => Stands(ops \union {op}, o, x)
         /\ \A time : Holds(ops, o, x, time) => Holds(ops \union {op}, o, x, time)
<1> DEFINE more == ops \union {op}
<1>1. \A a : On(more, o, a) = On(ops, o, a)
  BY DEF On
<1>2. \A s, n : IsLastSerial(ops, o, s, n) => IsLastSerial(more, o, s, n)
  BY DEF IsLastSerial
<1> HIDE DEF more
<1>3. Deleted(more, o) <=> Deleted(ops, o)
  BY <1>1 DEF Deleted
<1>4. CounterMeaning(more, o) = CounterMeaning(ops, o)
  <2>1. On(more, o, "inc") = On(ops, o, "inc") /\ On(more, o, "create") = On(ops, o, "create")
    BY <1>1
  <2>2. /\ CounterMeaning(more, o) = Total(On(more, o, "inc") \union First(On(more, o, "create")))
        /\ CounterMeaning(ops, o) = Total(On(ops, o, "inc") \union First(On(ops, o, "create")))
    BY CounterMeaningIs
  <2> QED
    BY <2>1, <2>2, Zenon
<1>5. LastClear(more, o) = LastClear(ops, o)
  BY <1>1 DEF LastClear
<1>6. \A k : EntriesFor(more, o, k) = EntriesFor(ops, o, k)
  BY <1>1 DEF EntriesFor, Written, Initial
<1>7. Stands(ops, o, x) => Stands(more, o, x)
  BY <1>1, <1>2, <1>3 DEF Stands
<1>8. \A time : Holds(ops, o, x, time) => Holds(more, o, x, time)
  BY <1>4, <1>5, <1>6 DEF Holds
<1> QED
  BY <1>7, <1>8 DEF more

\* The operations that came, of every site the first ones, and a new one.
IsPrefix(ops) ==
  \A x \in ops, before \in Ops : before.site = x.site /\ before.serial < x.serial => before \in ops

\* An operation that comes in the order of its site.
OneMore(ops, op) ==
  log \in Logs /\ ops \in SUBSET Ops /\ op \in Ops /\ op \notin ops /\ IsPrefix(ops)

\* It is newer than anything noted of its site.
LEMMA SerialIsNew ==
  ASSUME NEW ops, NEW op, OneMore(ops, op), NEW x, Stands(ops, op.object, x)
  PROVE  op.serial > x.siteSerials[op.site]
<1> DEFINE n == x.siteSerials[op.site]
<1>1. op.site \in Sites /\ op.serial \in 1..MaxOps /\ MaxOps \in Nat
  BY OpsAre, MaxOpsAssumption DEF OneMore, IsOp
<1>2. IsLastSerial(ops, op.object, op.site, n)
  BY <1>1 DEF Stands
<1> HIDE DEF n
<1>3. CASE n = 0
  BY <1>1, <1>3 DEF n
<1>4. CASE \E y \in ops : y.object = op.object /\ y.site = op.site /\ y.serial = n
  <2>1. PICK y \in ops : y.site = op.site /\ y.serial = n
    BY <1>4
  <2>2. y \in Ops /\ y.serial \in 1..MaxOps
    BY OpsAre DEF OneMore, IsOp
  <2>3. ~(op.serial < n)
    BY <2>1 DEF OneMore, IsPrefix
  <2>4. op.serial # n
    BY <2>1, <2>2, OpsAre DEF OneMore
  <2> QED
    BY <1>1, <2>1, <2>2, <2>3, <2>4 DEF n
<1> QED
  BY <1>2, <1>3, <1>4 DEF IsLastSerial

\* What an operation makes of an object.
Becomes(op, x, y) ==
  IF x.tombstone THEN y = Noted(x, op) ELSE Does(op, Noted(x, op), y)

\* An object to which it is done has noted it.
LEMMA OpStands ==
  ASSUME NEW ops, NEW op, OneMore(ops, op), NEW x \in Replicas(op.object),
         Stands(ops, op.object, x),
         NEW y, Becomes(op, x, y)
  PROVE  Stands(ops \union {op}, op.object, y)
<1> DEFINE o == op.object
           more == ops \union {op}
           z == Noted(x, op)
<1>1. op.site \in Sites /\ op.serial \in 1..MaxOps /\ MaxOps \in Nat /\ IsOp(op)
  BY OpsAre, MaxOpsAssumption DEF OneMore, IsOp
<1>2. Notes(o, x, z) /\ z.siteSerials = [x.siteSerials EXCEPT ![op.site] = op.serial]
  BY <1>1, NotedIs
<1> HIDE DEF z
<1>3. z.merged = x.merged /\ z.tombstone = x.tombstone
  BY <1>2 DEF Notes
<1>4. y.siteSerials = z.siteSerials /\ (x.tombstone => y.tombstone)
  BY <1>3 DEF Becomes, Does, z
<1>5. x.siteSerials \in [Sites -> 0..MaxOps]
  BY DEF Replicas
<1>6. ASSUME NEW s \in Sites PROVE IsLastSerial(more, o, s, y.siteSerials[s])
  <2>1. IsLastSerial(ops, o, s, x.siteSerials[s])
    BY DEF Stands
  <2>2. CASE s = op.site
    <3>1. y.siteSerials[s] = op.serial
      BY <1>2, <1>4, <1>5, <2>2
    <3>2. op.serial > x.siteSerials[s] /\ x.siteSerials[s] \in 0..MaxOps
      BY <1>5, <2>2, SerialIsNew
    <3>3. \A other \in ops : other.object = o /\ other.site = s => other.serial <= op.serial
      <4> SUFFICES ASSUME NEW other \in ops, other.object = o, other.site = s
                   PROVE  other.serial <= op.serial
        OBVIOUS
      <4>1. other.serial <= x.siteSerials[s]
        BY <2>1 DEF IsLastSerial
      <4>2. other.serial \in 1..MaxOps
        BY OpsAre DEF OneMore, IsOp
      <4> QED
        BY <1>1, <3>2, <4>1, <4>2
    <3> QED
      BY <1>1, <2>2, <3>1, <3>3 DEF IsLastSerial
  <2>3. CASE s # op.site
    <3>1. y.siteSerials[s] = x.siteSerials[s]
      BY <1>2, <1>4, <1>5, <2>3
    <3> QED
      BY <2>1, <2>3, <3>1 DEF IsLastSerial
  <2> QED
    BY <2>2, <2>3
<1>7. On(more, o, "delete") # {} <=> On(ops, o, "delete") # {} \/ op.action = "delete"
  BY DEF On
<1>8. On(more, o, "create") # {} <=> On(ops, o, "create") # {} \/ op.action = "create"
  BY DEF On
<1>9. y.tombstone <=> Deleted(more, o)
  <2>1. x.tombstone <=> Deleted(ops, o)
    BY DEF Stands
  <2>2. CASE x.tombstone
    BY <1>4, <1>7, <2>1, <2>2 DEF Deleted
  <2>3. CASE ~x.tombstone
    BY <1>3, <1>7, <2>1, <2>3 DEF Deleted, Becomes, Does, z
  <2> QED
    BY <2>2, <2>3
<1>10. ASSUME ~y.tombstone PROVE y.merged <=> On(more, o, "create") # {}
  <2>1. ~x.tombstone
    BY <1>4, <1>10
  <2>2. y.merged <=> x.merged \/ op.action = "create"
    BY <1>3, <1>10, <2>1 DEF Becomes, Does, z
  <2>3. x.merged <=> On(ops, o, "create") # {}
    BY <2>1 DEF Stands
  <2> QED
    BY <1>8, <2>2, <2>3
<1> HIDE DEF more, o
<1>11. Stands(more, o, y)
  BY <1>6, <1>9, <1>10 DEF Stands
<1> QED
  BY <1>11 DEF more, o

\* An operation that is new brings entries that are.
LEMMA EntriesAreNew ==
  ASSUME NEW ops, NEW op, OneMore(ops, op), NEW m \in Maps, NEW k
  PROVE  \A e \in EntriesFor(ops, m, k) : e.serial # op.serial
<1>1. log \in Logs /\ op \in Ops /\ op.serial # 0
  BY OpsAre, MaxOpsAssumption DEF OneMore, IsOp
<1>2. ASSUME NEW e \in Written(ops, m, k) PROVE e.serial # op.serial
  <2>1. PICK a \in ops : Writer(a, k, e)
    BY <1>1, WrittenIs DEF OneMore
  <2>2. a \in Ops /\ a # op
    BY DEF OneMore
  <2> QED
    BY <1>1, <2>1, <2>2, OpsAre DEF Writer
<1>3. ASSUME NEW e \in Initial(ops, m, k) PROVE e.serial # op.serial
  <2>1. \A f \in Initial(ops, m, k) : f \in Entries /\ f.serial = 0
    BY InitialsAre DEF OneMore, ComesWith
  <2> QED
    BY <1>1, <2>1
<1> QED
  BY <1>2, <1>3 DEF EntriesFor

\* A create is the first of its object to be made.
LEMMA NoCreateYet ==
  ASSUME NEW ops, NEW op, OneMore(ops, op), op.action = "create"
  PROVE  /\ On(ops, op.object, "create") = {}
         /\ \A x \in ops : x.object = op.object => op.serial <= x.serial
<1>1. ASSUME NEW x \in On(ops, op.object, "create") PROVE FALSE
  <2>1. x \in On(Ops, op.object, "create") /\ op \in On(Ops, op.object, "create") /\ x \in ops
    BY DEF OneMore, On
  <2>2. x = op
    BY <2>1, OneCreate DEF OneMore
  <2> QED
    BY <2>1, <2>2 DEF OneMore
<1> QED
  BY <1>1, OpsAre DEF OneMore

\* A counter to which it is done counts it.
LEMMA CounterHolds ==
  ASSUME NEW ops, NEW op, OneMore(ops, op), op.object \in Counters, NEW x \in Replicas(op.object),
         Stands(ops, op.object, x), NEW time, Holds(ops, op.object, x, time),
         NEW y, Becomes(op, x, y), ~y.tombstone
  PROVE  y.data = CounterMeaning(ops \union {op}, op.object)
<1> DEFINE c == op.object
           more == ops \union {op}
           S == On(ops, c, "inc") \union First(On(ops, c, "create"))
           T == On(more, c, "inc") \union First(On(more, c, "create"))
           z == Noted(x, op)
<1>1. IsOp(op) /\ c # Root /\ IsCounterOp(op) /\ log \in Logs /\ op.serial \in Nat
  BY OpsAre, RootAssumption, MaxOpsAssumption DEF OneMore, IsOp
<1>2. Notes(c, x, z)
  BY <1>1, NotedIs
<1> HIDE DEF z
<1>3. z.data = x.data /\ z.tombstone = x.tombstone /\ z.merged = x.merged
  BY <1>2 DEF Notes, HoldSame
<1>4. ~x.tombstone /\ Does(op, z, y)
  BY <1>2 DEF Becomes, Notes, z
<1>5. op.action # "delete"
  BY <1>1, <1>4 DEF Does
<1>6. CountsOn(op, z, y)
  BY <1>1, <1>4, <1>5 DEF Does
<1>7. x.data = Total(S) /\ CounterMeaning(more, c) = Total(T)
  BY <1>4, CounterMeaningIs DEF Holds
<1>8. op \in T /\ T \ {op} = S
  <2>1. op \notin ops
    BY DEF OneMore
  <2>2. CASE op.action = "inc"
    BY <2>1, <2>2 DEF On, First
  <2>3. CASE op.action = "create"
    <3>1. On(ops, c, "create") = {}
      BY <2>3, NoCreateYet
    <3>2. /\ On(more, c, "create") = {op} /\ On(more, c, "inc") = On(ops, c, "inc")
          /\ op \notin On(ops, c, "inc")
      BY <2>1, <2>3, <3>1 DEF On
    <3>3. First({op}) = {op} /\ First({}) = {}
      BY <1>1 DEF First
    <3> HIDE DEF c, more
    <3> QED
      BY <3>1, <3>2, <3>3
  <2> QED
    BY <1>1, <1>5, <2>2, <2>3 DEF IsCounterOp
<1>9. Amounts(T)
  <2>1. more \in SUBSET Ops
    BY DEF OneMore
  <2>2. T \in SUBSET (On(more, c, "inc") \union On(more, c, "create"))
    BY DEF First
  <2> HIDE DEF more, T
  <2> QED
    BY <1>1, <2>1, <2>2, CounterAmounts
<1> HIDE DEF T, S
<1>10. Total(T) = op.amount + Total(S)
  BY <1>8, <1>9, TotalTakes
<1>11. y.data = x.data + op.amount
  <2>1. CASE op.action = "inc"
    BY <1>3, <1>6, <2>1 DEF CountsOn
  <2>2. CASE op.action = "create"
    <3>1. ~x.merged
      BY <1>4, <2>2, NoCreateYet DEF Stands
    <3> QED
      BY <1>3, <1>6, <3>1 DEF CountsOn
  <2> QED
    BY <1>1, <1>5, <2>1, <2>2 DEF IsCounterOp
<1>12. op.amount \in Int /\ x.data \in Int
  BY <1>1, <1>5 DEF IsCounterOp, Replicas
<1> QED
  BY <1>7, <1>10, <1>11, <1>12

-----------------------------------------------------------------------------
\* The entry that an operation writes.
EntryOf(op) == IF op.action = "set" THEN Entry(op.value, op.serial) ELSE RemovedEntry(op.serial)

\* What an operation adds to the entries of a key.
EntriesGo(before, op, k, after) ==
  /\ op.action \in {"set", "remove"} =>
       after = IF k = op.key THEN before \union {EntryOf(op)} ELSE before
  /\ op.action = "create" =>
       after = IF k \in DOMAIN op.entries THEN before \union {op.entries[k]} ELSE before
  /\ op.action \notin {"set", "remove", "create"} => after = before

\* The operations bring the entries that EntriesGo says.
LEMMA MoreEntries ==
  ASSUME NEW ops, NEW op, NEW k
  PROVE  EntriesGo(EntriesFor(ops, op.object, k), op, k, EntriesFor(ops \union {op}, op.object, k))
<1> DEFINE m == op.object
           more == ops \union {op}
<1>1. \A a : On(more, m, a) = IF op.action = a THEN On(ops, m, a) \union {op} ELSE On(ops, m, a)
  BY DEF On
<1> HIDE DEF m, more
<1>2. CASE op.action = "set"
  <2>1. /\ On(more, m, "set") = On(ops, m, "set") \union {op}
        /\ On(more, m, "remove") = On(ops, m, "remove")
        /\ On(more, m, "create") = On(ops, m, "create")
    BY <1>1, <1>2
  <2> QED
    BY <1>2, <2>1 DEF EntriesFor, Written, Initial, EntryOf, EntriesGo, m, more
<1>3. CASE op.action = "remove"
  <2>1. /\ On(more, m, "set") = On(ops, m, "set")
        /\ On(more, m, "remove") = On(ops, m, "remove") \union {op}
        /\ On(more, m, "create") = On(ops, m, "create")
    BY <1>1, <1>3
  <2> QED
    BY <1>3, <2>1 DEF EntriesFor, Written, Initial, EntryOf, EntriesGo, m, more
<1>4. CASE op.action = "create"
  <2>1. /\ On(more, m, "set") = On(ops, m, "set") /\ On(more, m, "remove") = On(ops, m, "remove")
        /\ On(more, m, "create") = On(ops, m, "create") \union {op}
    BY <1>1, <1>4
  <2> QED
    BY <1>4, <2>1 DEF EntriesFor, Written, Initial, EntryOf, EntriesGo, m, more
<1>5. CASE op.action \notin {"set", "remove", "create"}
  <2>1. /\ On(more, m, "set") = On(ops, m, "set") /\ On(more, m, "remove") = On(ops, m, "remove")
        /\ On(more, m, "create") = On(ops, m, "create")
    BY <1>1, <1>5
  <2> QED
    BY <1>5, <2>1 DEF EntriesFor, Written, Initial, EntriesGo, m, more
<1> QED
  BY <1>2, <1>3, <1>4, <1>5 DEF m, more

\* A clear is the last if it comes last.
LEMMA MoreClears ==
  ASSUME NEW ops, NEW op, OneMore(ops, op)
  PROVE  LET before == LastClear(ops, op.object)
             after  == LastClear(ops \union {op}, op.object)
         IN  /\ before \in Nat
             /\ after = IF op.action = "clear" /\ ~(before > op.serial) THEN op.serial ELSE before
<1> DEFINE m == op.object
           more == ops \union {op}
           before == LastClear(ops, m)
           after == LastClear(more, m)
<1>1. /\ log \in Logs /\ ops \in SUBSET Ops /\ more \in SUBSET Ops /\ MaxOps \in Nat
      /\ op.serial \in 1..MaxOps
  BY OpsAre, MaxOpsAssumption DEF OneMore, IsOp
<1>2. /\ before \in 0..MaxOps
      /\ before # 0 => \E x \in On(ops, m, "clear") : x.serial = before
      /\ \A x \in On(ops, m, "clear") : x.serial <= before
  BY <1>1, LastClearIs
<1>3. /\ after \in 0..MaxOps
      /\ after # 0 => \E x \in On(more, m, "clear") : x.serial = after
      /\ \A x \in On(more, m, "clear") : x.serial <= after
  <2> HIDE DEF more
  <2> QED
    BY <1>1, LastClearIs
<1>4. CASE op.action # "clear"
  <2>1. On(more, m, "clear") = On(ops, m, "clear")
    BY <1>4 DEF On
  <2>2. after = before
    BY <2>1 DEF LastClear
  <2> QED
    BY <1>1, <1>2, <1>4, <2>2
<1>5. CASE op.action = "clear"
  <2>1. On(more, m, "clear") = On(ops, m, "clear") \union {op}
    BY <1>5 DEF On
  <2> HIDE DEF before, after, more
  <2>2. op.serial <= after /\ (before # 0 => before <= after)
    BY <1>2, <1>3, <2>1
  <2>3. after = op.serial \/ after <= before
    BY <1>1, <1>2, <1>3, <2>1, <2>2
  <2>4. after = IF ~(before > op.serial) THEN op.serial ELSE before
    BY <1>1, <1>2, <1>3, <2>2, <2>3
  <2> QED
    BY <1>1, <1>2, <1>5, <2>4 DEF before, after, more
<1> QED
  BY <1>4, <1>5

\* The keys of a map hold what operations say.
KeysHold(ops, m, x, time) ==
  /\ x.clear = LastClear(ops, m)
  /\ \A k \in Keys : KeyHolds(x.clear, EntriesFor(ops, m, k), x.data, k, time)

\* A map to which an entry is written, or removed, holds what the operations leave,
LEMMA WriteHolds ==
  ASSUME NEW ops, NEW op, OneMore(ops, op), op.object \in Maps, op.action \in {"set", "remove"},
         NEW time \in Nat, op.serial > time, NEW x, KeysHold(ops, op.object, x, time),
         NEW y, Entered(x, y, EntriesIn(op))
  PROVE  KeysHold(ops \union {op}, op.object, y, time)
<1> DEFINE m == op.object
           more == ops \union {op}
           w == EntryOf(op)
           d == EntriesIn(op)
<1>1. log \in Logs /\ ops \in SUBSET Ops /\ op.serial \in 1..MaxOps /\ MaxOps \in Nat
  BY OpsAre, MaxOpsAssumption DEF OneMore, IsOp
<1>2. w.serial = op.serial /\ d = [k \in {op.key} |-> w]
  BY DEF EntryOf, EntriesIn, Entry, RemovedEntry
<1> HIDE DEF w, d
<1>3. DOMAIN d = {op.key} /\ d[op.key] = w
  BY <1>2
<1>4. LastClear(ops, m) \in Nat /\ LastClear(more, m) = LastClear(ops, m)
  BY MoreClears
<1>5. x.clear = LastClear(ops, m) /\ y.clear = x.clear
  BY DEF KeysHold, Entered, d
<1>6. ASSUME NEW k \in Keys
      PROVE  KeyHolds(y.clear, EntriesFor(more, m, k), y.data, k, time)
  <2> DEFINE E == EntriesFor(ops, m, k)
             C == x.clear
  <2>1. KeyHolds(C, E, x.data, k, time)
    BY DEF KeysHold
  <2>2. EntriesFor(more, m, k) = IF k = op.key THEN E \union {w} ELSE E
    <3>1. EntriesGo(E, op, k, EntriesFor(more, m, k))
      BY MoreEntries
    <3> QED
      BY <3>1 DEF EntriesGo, w
  <2>3. Distinct(E) /\ (\A e \in E : e.serial # op.serial) /\ C \in Nat
    BY <1>1, <1>4, <1>5, EntriesDistinct, EntriesAreNew
  <2>4. /\ k \in DOMAIN y.data <=> k \in DOMAIN x.data \/ k \in Taken(x, d)
        /\ k \in DOMAIN y.data => y.data[k] = IF k \in Taken(x, d) THEN d[k] ELSE x.data[k]
    BY DEF Entered, d
  <2> HIDE DEF E
  <2>5. CASE k = op.key
    <3>1. k \in Taken(x, d)
            <=> ~(C # 0 /\ C >= w.serial) /\ (k \in DOMAIN x.data => w.serial > x.data[k].serial)
      BY <1>3, <2>5 DEF Taken
    <3>2. IF ~(C # 0 /\ C >= w.serial) /\ (k \in DOMAIN x.data => w.serial > x.data[k].serial)
          THEN k \in DOMAIN y.data /\ y.data[k] = w ELSE SameKey(x.data, k, y.data)
      BY <1>3, <2>4, <2>5, <3>1 DEF SameKey
    <3>3. KeyHolds(C, E \union {w}, y.data, k, time)
      BY <1>1, <1>2, <2>1, <2>3, <3>2, KeyWritten
    <3> QED
      BY <1>5, <2>2, <2>5, <3>3
  <2>6. CASE k # op.key
    <3>1. k \notin Taken(x, d)
      BY <1>3, <2>6 DEF Taken
    <3>2. SameKey(x.data, k, y.data)
      BY <2>4, <3>1 DEF SameKey
    <3>3. EntriesFor(more, m, k) = E
      BY <2>2, <2>6
    <3> QED
      BY <1>5, <2>1, <3>2, <3>3 DEF KeyHolds, SameKey
  <2> QED
    BY <2>5, <2>6
<1> QED
  BY <1>4, <1>5, <1>6 DEF KeysHold

\* one that is given its initial value does,
LEMMA CreateHolds ==
  ASSUME NEW ops, NEW op, OneMore(ops, op), op.object \in Maps, op.action = "create",
         NEW time \in Nat, op.serial > time, NEW x, KeysHold(ops, op.object, x, time),
         NEW y, Entered(x, y, op.entries)
  PROVE  KeysHold(ops \union {op}, op.object, y, time)
<1> DEFINE m == op.object
           more == ops \union {op}
           d == op.entries
<1>1. log \in Logs /\ ops \in SUBSET Ops /\ op.serial \in 1..MaxOps /\ MaxOps \in Nat /\ IsOp(op)
  BY OpsAre, MaxOpsAssumption DEF OneMore, IsOp
<1>2. \A k \in DOMAIN d : d[k].serial = 0
  BY <1>1, RootAssumption DEF IsOp, IsMapOp, Initials
<1>3. On(ops, m, "create") = {} /\ \A o \in ops : o.object = m => op.serial <= o.serial
  BY NoCreateYet
<1> HIDE DEF d
<1>4. LastClear(ops, m) \in Nat /\ LastClear(more, m) = LastClear(ops, m)
  BY MoreClears
<1>5. x.clear = LastClear(ops, m) /\ y.clear = x.clear
  BY DEF KeysHold, Entered
<1>6. ASSUME NEW k \in Keys
      PROVE  KeyHolds(y.clear, EntriesFor(more, m, k), y.data, k, time)
  <2> DEFINE W == Written(ops, m, k)
             C == x.clear
  <2>1. EntriesFor(ops, m, k) = W
    BY <1>3 DEF EntriesFor, Initial
  <2>2. KeyHolds(C, W, x.data, k, time)
    BY <2>1 DEF KeysHold
  <2>3. EntriesFor(more, m, k) = IF k \in DOMAIN d THEN W \union {d[k]} ELSE W
    <3>1. EntriesGo(EntriesFor(ops, m, k), op, k, EntriesFor(more, m, k))
      BY MoreEntries
    <3> HIDE DEF W
    <3> QED
      BY <2>1, <3>1 DEF EntriesGo, d
  <2>4. Distinct(W) /\ (\A e \in W : e.serial # 0) /\ C \in Nat
    BY <1>1, <1>4, <1>5, EntriesDistinct
  <2>5. \A e \in W : e.serial > time /\ e.serial \in Nat
    <3> TAKE e \in W
    <3>1. PICK a \in ops : a.object = m /\ Writer(a, k, e)
      BY <1>1, WrittenIs
    <3>2. op.serial <= e.serial
      BY <1>3, <3>1 DEF Writer
    <3>3. e.serial \in 0..MaxOps
      BY <2>4 DEF Distinct
    <3> QED
      BY <1>1, <3>2, <3>3
  <2> HIDE DEF W
  <2>7. k \in DOMAIN x.data => x.data[k].serial \in Nat
    <3> SUFFICES ASSUME k \in DOMAIN x.data PROVE x.data[k].serial \in Nat
      OBVIOUS
    <3>1. x.data[k] \in W
      BY <2>2 DEF KeyHolds, LastOf
    <3> QED
      BY <2>5, <3>1
  <2>8. C = 0 /\ k \notin DOMAIN x.data => W = {}
    <3> SUFFICES ASSUME C = 0, k \notin DOMAIN x.data, W # {} PROVE FALSE
      OBVIOUS
    <3>1. PICK e \in W : \A f \in W : f.serial <= e.serial
      BY <2>4, LastExists
    <3>2. e \in LastOf(C, W)
      BY <3>1 DEF LastOf
    <3>3. e.serial <= time
      BY <2>2, <3>2 DEF KeyHolds
    <3> QED
      BY <2>5, <3>3
  <2>9. /\ k \in DOMAIN y.data <=> k \in DOMAIN x.data \/ k \in Taken(x, d)
        /\ k \in DOMAIN y.data => y.data[k] = IF k \in Taken(x, d) THEN d[k] ELSE x.data[k]
    BY DEF Entered, d
  <2>10. CASE k \in DOMAIN d
    <3>1. k \in Taken(x, d) <=> C = 0 /\ k \notin DOMAIN x.data
      <4>1. d[k].serial = 0
        BY <1>2, <2>10 DEF d
      <4>2. k \in Taken(x, d)
              <=> ~(C # 0 /\ C >= 0) /\ (k \in DOMAIN x.data => 0 > x.data[k].serial)
        BY <2>10, <4>1 DEF Taken
      <4> QED
        BY <2>4, <2>7, <4>2
    <3>2. IF C = 0 /\ k \notin DOMAIN x.data THEN k \in DOMAIN y.data /\ y.data[k] = d[k]
          ELSE SameKey(x.data, k, y.data)
      BY <2>9, <3>1 DEF SameKey
    <3>3. d[k].serial = 0
      BY <1>2, <2>10 DEF d
    <3>4. KeyHolds(C, W \union {d[k]}, y.data, k, time)
      BY <2>2, <2>4, <2>8, <3>2, <3>3, KeyInitial
    <3> QED
      BY <1>5, <2>3, <2>10, <3>4
  <2>11. CASE k \notin DOMAIN d
    <3>1. k \notin Taken(x, d)
      BY <2>11 DEF Taken
    <3>2. SameKey(x.data, k, y.data)
      BY <2>9, <3>1 DEF SameKey
    <3>3. EntriesFor(more, m, k) = W
      BY <2>3, <2>11
    <3> QED
      BY <1>5, <2>2, <3>2, <3>3 DEF KeyHolds, SameKey
  <2> QED
    BY <2>10, <2>11
<1> QED
  BY <1>4, <1>5, <1>6 DEF KeysHold

\* and one that is cleared.
LEMMA ClearHolds ==
  ASSUME NEW ops, NEW op, OneMore(ops, op), op.object \in Maps, op.action = "clear",
         NEW time \in Nat, NEW x, KeysHold(ops, op.object, x, time),
         NEW y, ClearedAt(x, y, op.serial)
  PROVE  KeysHold(ops \union {op}, op.object, y, time)
<1> DEFINE m == op.object
           more == ops \union {op}
           n == op.serial
<1>1. log \in Logs /\ ops \in SUBSET Ops /\ n \in 1..MaxOps /\ MaxOps \in Nat
  BY OpsAre, MaxOpsAssumption DEF OneMore, IsOp
<1> HIDE DEF n
<1>2. LastClear(ops, m) \in Nat /\ LastClear(more, m)
          = IF ~(LastClear(ops, m) > n) THEN n ELSE LastClear(ops, m)
  BY MoreClears DEF n
<1>3. x.clear = LastClear(ops, m)
  BY DEF KeysHold
<1>4. \A k : EntriesFor(more, m, k) = EntriesFor(ops, m, k)
  <2>1. \A k : EntriesGo(EntriesFor(ops, m, k), op, k, EntriesFor(more, m, k))
    BY MoreEntries
  <2> QED
    BY <2>1 DEF EntriesGo
<1>5. CASE x.clear > n
  <2>1. y.data = x.data /\ y.clear = x.clear
    BY <1>5 DEF ClearedAt, HoldSame, n
  <2>2. LastClear(more, m) = x.clear
    BY <1>2, <1>3, <1>5
  <2> QED
    BY <1>4, <2>1, <2>2 DEF KeysHold
<1>6. CASE ~(x.clear > n)
  <2>1. /\ y.clear = n
        /\ \A k \in Keys : k \in DOMAIN y.data <=> k \in DOMAIN x.data /\ ~(n > x.data[k].serial)
        /\ \A k \in DOMAIN y.data : y.data[k] = x.data[k]
    BY <1>6 DEF ClearedAt, n
  <2>2. LastClear(more, m) = n /\ n \in Nat /\ n # 0 /\ x.clear <= n /\ x.clear \in Nat
    BY <1>1, <1>2, <1>3, <1>6
  <2>3. ASSUME NEW k \in Keys PROVE KeyHolds(n, EntriesFor(ops, m, k), y.data, k, time)
    <3> DEFINE E == EntriesFor(ops, m, k)
               C == x.clear
               b == x.data
               e == y.data
    <3>1. Distinct(E) /\ (\A f \in E : f.serial # n) /\ KeyHolds(C, E, b, k, time)
      BY <1>1, EntriesDistinct, EntriesAreNew DEF n, KeysHold
    <3>2. k \in DOMAIN e <=> k \in DOMAIN b /\ ~(n > b[k].serial)
      BY <2>1
    <3>3. k \in DOMAIN e => e[k] = b[k]
      BY <2>1
    <3>4. C \in Nat /\ C <= n
      BY <2>2
    <3> HIDE DEF E, C, b, e
    <3> QED
      BY <2>2, <3>1, <3>2, <3>3, <3>4, KeyCleared DEF E, e
  <2> QED
    BY <1>4, <2>1, <2>2, <2>3 DEF KeysHold
<1> QED
  BY <1>5, <1>6

\* Nothing done to a map that its keys hold.
LEMMA DeleteHolds ==
  ASSUME NEW ops, NEW op, OneMore(ops, op), op.action = "delete",
         NEW time, NEW x, KeysHold(ops, op.object, x, time), NEW y, HoldSame(x, y)
  PROVE  KeysHold(ops \union {op}, op.object, y, time)
<1>1. LastClear(ops \union {op}, op.object) = LastClear(ops, op.object)
  BY MoreClears
<1>2. \A k : EntriesFor(ops \union {op}, op.object, k) = EntriesFor(ops, op.object, k)
  <2>1. \A k : EntriesGo(EntriesFor(ops, op.object, k), op, k,
                       EntriesFor(ops \union {op}, op.object, k))
    BY MoreEntries
  <2> QED
    BY <2>1 DEF EntriesGo
<1> QED
  BY <1>1, <1>2 DEF KeysHold, HoldSame

\* Whatever the operation, its object holds what the operations leave.
LEMMA OpHolds ==
  ASSUME NEW ops, NEW op, OneMore(ops, op), NEW x \in Replicas(op.object),
         Stands(ops, op.object, x),
         NEW time \in Nat, op.serial > time, Holds(ops, op.object, x, time), NEW y,
         Becomes(op, x, y)
  PROVE  Holds(ops \union {op}, op.object, y, time)
<1> DEFINE o == op.object
           more == ops \union {op}
           z == Noted(x, op)
<1> SUFFICES ASSUME ~y.tombstone
             PROVE  /\ o \in Counters => y.data = CounterMeaning(more, o)
                    /\ o \in Maps => KeysHold(more, o, y, time)
  BY DEF Holds, KeysHold
<1>1. IsOp(op) /\ (o \in Maps => IsMapOp(op))
  BY OpsAre DEF OneMore, IsOp
<1>2. Notes(o, x, z)
  BY <1>1, NotedIs
<1> HIDE DEF z
<1>3. z.data = x.data /\ z.clear = x.clear /\ z.tombstone = x.tombstone /\ z.merged = x.merged
  BY <1>2 DEF Notes, HoldSame
<1>4. ~x.tombstone /\ Does(op, z, y)
  BY <1>3 DEF Becomes, z
<1>5. o \in Counters => y.data = CounterMeaning(more, o)
  BY CounterHolds
<1>6. ASSUME o \in Maps PROVE KeysHold(more, o, y, time)
  <2>1. KeysHold(ops, o, z, time)
    BY <1>3, <1>4, <1>6 DEF Holds, KeysHold
  <2>2. CASE op.action = "delete"
    <3>1. HoldSame(z, y)
      BY <1>4, <2>2 DEF Does
    <3> QED
      BY <2>1, <2>2, <3>1, DeleteHolds
  <2>3. ASSUME op.action # "delete" PROVE Changes(op, z, y)
    BY <1>4, <1>6, <2>3, RootAssumption DEF Does
  <2>4. CASE op.action = "clear"
    <3>1. ClearedAt(z, y, op.serial)
      BY <2>3, <2>4 DEF Changes
    <3> QED
      BY <1>6, <2>1, <2>4, <3>1, ClearHolds
  <2>5. CASE op.action = "create"
    <3>1. ~z.merged
      BY <1>3, <1>4, <2>5, NoCreateYet DEF Stands
    <3>2. Entered(z, y, op.entries)
      BY <2>3, <2>5, <3>1 DEF Changes, EntriesIn
    <3> QED
      BY <1>6, <2>1, <2>5, <3>2, CreateHolds
  <2>6. CASE op.action \in {"set", "remove"}
    <3>1. Entered(z, y, EntriesIn(op))
      BY <2>3, <2>6 DEF Changes
    <3> QED
      BY <1>6, <2>1, <2>6, <3>1, WriteHolds
  <2> QED
    BY <1>1, <1>6, <2>2, <2>4, <2>5, <2>6 DEF IsMapOp
<1> QED
  BY <1>5, <1>6

-----------------------------------------------------------------------------
(* The invariant of what the objects mean.                                 *)

\* Both invariants.
Inv == GraphInv /\ MeaningInv

\* What is deleted stays so.
LEMMA DeletedSooner ==
  ASSUME NEW ops, NEW more, ops \subseteq more
  PROVE  \A o : Deleted(ops, o) => Deleted(more, o)
  BY DEF Deleted, On

\* An object that an operation finds, or makes, is where the operations received leave it.
LEMMA ObjectsFound ==
  ASSUME Inv, NEW op \in Ops, ~Expired(op, collected), NEW n \in Ids,
         n \in DOMAIN pool \/ n \in Mentioned(op)
  PROVE  /\ Stands(received, n, At(pool, n))
         /\ ~cleared => Holds(received, n, At(pool, n), collected)
<1>1. CASE n \in DOMAIN pool
  BY <1>1 DEF Inv, MeaningInv, ObjectsStand, ObjectsHold, At
<1>2. CASE n \notin DOMAIN pool
  <2>1. ASSUME NEW x \in received, x.object = n PROVE FALSE
    <3>1. Gone(n)
      BY <1>2, <2>1 DEF Inv, MeaningInv, KnownHere
    <3> QED
      BY <1>2, <3>1, GoneExpired
  <2>2. log \in Logs /\ received \in SUBSET Ops
    BY DEF Inv, GraphInv, Typed
  <2>3. \A x \in received : x.object # n
    BY <2>1
  <2>4. Stands(received, n, NewObject(n)) /\ Holds(received, n, NewObject(n), collected)
    BY <2>2, <2>3, NewStands
  <2> QED
    BY <1>2, <2>4 DEF At
<1> QED
  BY <1>1, <1>2

\* An operation that is received, the first time or again, leaves every object where the operations
\* received do.
LEMMA MeaningReceive ==
  ASSUME Inv, NEW op \in Ops, ~Expired(op, collected), Receive(op),
         UNCHANGED <<log, cleared, collected>>,
         \A before \in Ops :
           before.site = op.site /\ before.serial < op.serial => before \in received
  PROVE  MeaningInv'
<1> DEFINE r == ApplyOperation(pool, op, "channel")
           o == op.object
           more == received \union {op}
<1>1. /\ log \in Logs /\ received \in SUBSET Ops /\ Sound(pool) /\ KnownHere /\ CollectedDeleted
      /\ IsPrefix(received) /\ GraphInv
  BY DEF Inv, GraphInv, Typed, MeaningInv, SitePrefix, IsPrefix
<1>2. IsOp(op) /\ Applies(pool, op, r)
  BY <1>1, OperationApplies
<1>3. pool' = r.pool /\ received' = more /\ Ops' = Ops
  BY DEF Receive, Ops
<1> HIDE DEF r, more
<1>4. Steps(pool, o, Mentioned(op), pool')
  BY <1>2, <1>3 DEF Applies
<1>5. /\ o \in Ids /\ o \in Mentioned(op) /\ DOMAIN pool' \subseteq Ids
      /\ op.serial \in Nat /\ op.serial > collected
      /\ collected \in Nat /\ op.site \in Sites
  <2>1. IsPool(pool')
    BY <1>4 DEF Steps, Sound
  <2>2. op.serial \in 1..MaxOps /\ MaxOps \in Nat /\ collected \in 0..MaxOps
    BY <1>1, <1>2, MaxOpsAssumption DEF IsOp, GraphInv, Typed
  <2>3. ~(op.serial <= collected)
    BY DEF Expired
  <2>4. op.serial \in Nat /\ collected \in Nat /\ op.serial > collected
    BY <2>2, <2>3
  <2> QED
    BY <1>2, <2>1, <2>4 DEF IsOp, IsPool, Mentioned
<1>6. KnownHere'
  <2>1. \A n : Gone(n)' <=> Gone(n)
    BY <1>3 DEF Gone, Deleted, DeletedAt
  <2>2. ASSUME NEW x \in more PROVE x.object \in DOMAIN pool' \/ Gone(x.object)
    BY <1>1, <1>4 DEF KnownHere, Steps, more
  <2> QED
    BY <1>3, <2>1, <2>2 DEF KnownHere
<1>7. SitePrefix'
  BY <1>1, <1>3 DEF SitePrefix, IsPrefix, more
<1>8. CollectedDeleted'
  <2>1. ASSUME NEW x \in more PROVE x.object \in DOMAIN pool' \/ Deleted(more, x.object)
    <3>1. CASE x = op
      BY <1>4, <3>1 DEF Steps
    <3>2. CASE x \in received
      BY <1>1, <1>4, <3>2, DeletedSooner DEF CollectedDeleted, Steps, more
    <3> QED
      BY <3>1, <3>2 DEF more
  <2> QED
    BY <1>3, <2>1 DEF CollectedDeleted
<1>9. ASSUME NEW n \in DOMAIN pool'
      PROVE  Stands(more, n, pool'[n]) /\ (~cleared => Holds(more, n, pool'[n], collected))
  <2> DEFINE x == At(pool, n)
             y == pool'[n]
  <2>1. Stands(received, n, x) /\ (~cleared => Holds(received, n, x, collected))
    <3>1. n \in DOMAIN pool \/ n \in Mentioned(op)
      BY <1>4 DEF Steps
    <3> QED
      BY <1>5, <3>1, ObjectsFound
  <2>2. CASE n # o
    <3>1. Alike(y, x) /\ HoldSame(y, x)
      BY <1>4, <2>2 DEF Steps
    <3> HIDE DEF x, y
    <3>2. Stands(received, n, y) /\ (~cleared => Holds(received, n, y, collected))
      BY <2>1, <3>1, SameStands
    <3>3. op.object # n
      BY <2>2
    <3>4. Stands(more, n, y) /\ (~cleared => Holds(more, n, y, collected))
      BY <3>2, <3>3, OtherStands DEF more
    <3> QED
      BY <3>4 DEF y
  <2>3. CASE n = o /\ op \in received
    <3>1. IsLastSerial(received, o, op.site, x.siteSerials[op.site])
      BY <1>5, <2>1, <2>3 DEF Stands
    <3>2. op.serial <= x.siteSerials[op.site]
      BY <2>3, <3>1 DEF IsLastSerial
    <3>3. x.siteSerials[op.site] \in Nat
      <4>1. x \in Replicas(n)
        BY <1>1, <1>5, AtIs DEF Sound
      <4> QED
        BY <1>5, <4>1, MaxOpsAssumption DEF Replicas
    <3>4. ~(op.serial > x.siteSerials[op.site])
      BY <1>5, <3>2, <3>3
    <3>5. y = x
      BY <1>2, <1>3, <2>3, <3>4 DEF Applies
    <3>6. more = received
      BY <2>3 DEF more
    <3> QED
      BY <2>1, <3>5, <3>6
  <2>4. CASE n = o /\ op \notin received
    <3>1. OneMore(received, op)
      BY <1>1, <2>4 DEF OneMore
    <3>2. op.serial > x.siteSerials[op.site]
      BY <2>1, <2>4, <3>1, SerialIsNew
    <3>3. Becomes(op, x, y)
      BY <1>2, <1>3, <2>4, <3>2 DEF Applies, Becomes
    <3>4. x \in Replicas(o)
      BY <1>1, <1>5, <2>4, AtIs DEF Sound
    <3> HIDE DEF x, y
    <3>5. Stands(more, o, y)
      BY <2>1, <2>4, <3>1, <3>3, <3>4, OpStands DEF more
    <3>6. ~cleared => Holds(more, o, y, collected)
      BY <1>5, <2>1, <2>4, <3>1, <3>3, <3>4, OpHolds DEF more
    <3> QED
      BY <2>4, <3>5, <3>6 DEF y
  <2> QED
    BY <2>2, <2>3, <2>4
<1>10. ObjectsStand'
  BY <1>3, <1>9 DEF ObjectsStand
<1>11. ObjectsHold'
  BY <1>3, <1>9 DEF ObjectsHold
<1> QED
  BY <1>6, <1>7, <1>8, <1>10, <1>11 DEF MeaningInv

\* An object that has its state is where the operations leave it that the state stands for.
LEMMA ReplacedStands ==
  ASSUME log \in Logs, NEW ops \in SUBSET Ops, NEW o \in Ids, NEW st, StatesOf(ops, o, st),
         NEW x, x.tombstone => Deleted(ops, o), NEW y, Replaced(o, x, st, y)
  PROVE  Stands(ops, o, y)
<1>1. \A s \in Sites : IsLastSerial(ops, o, s, y.siteSerials[s])
  BY DEF StatesOf, Replaced
<1>2. y.tombstone <=> Deleted(ops, o)
  BY DEF StatesOf, Replaced
<1>3. ~y.tombstone => (y.merged <=> On(ops, o, "create") # {})
  BY DEF StatesOf, Replaced
<1> QED
  BY <1>1, <1>2, <1>3 DEF Stands

\* A counter that has its state counts what the state stands for.
LEMMA ReplacedCounts ==
  ASSUME log \in Logs, NEW ops \in SUBSET Ops, NEW c \in Counters, NEW st, StatesOf(ops, c, st),
         NEW x, NEW y, Replaced(c, x, st, y), ~y.tombstone
  PROVE  y.data = CounterMeaning(ops, c)
<1> DEFINE I == On(ops, c, "inc")
           F == First(On(ops, c, "create"))
<1>1. ~st.tombstone /\ st.amount = Total(I) /\ st.amount \in Int
  BY DEF Replaced, StatesOf
<1>2. y.data = st.amount + IF st.create = None THEN 0 ELSE st.create.amount
  BY DEF Replaced
<1>3. CounterMeaning(ops, c) = Total(I \union F)
  BY CounterMeaningIs
<1>4. CASE st.create = None
  <2>1. F = {}
    BY <1>1, <1>4 DEF StatesOf, First
  <2>2. y.data = st.amount
    BY <1>1, <1>2, <1>4
  <2> HIDE DEF I, F
  <2>3. I \union F = I
    BY <2>1
  <2> QED
    BY <1>1, <1>3, <2>2, <2>3
<1>5. CASE st.create # None
  <2>0. st.create \in On(ops, c, "create")
    BY <1>1, <1>5 DEF StatesOf
  <2> DEFINE create == st.create
  <2>1. create \in On(ops, c, "create") /\ y.data = st.amount + create.amount
    BY <1>2, <1>5, <2>0
  <2> HIDE DEF create
  <2>2. create.serial \in Nat
    BY <2>1, OpsAre, MaxOpsAssumption DEF On, IsOp
  <2>3. On(ops, c, "create") = {create}
    BY <2>1, OneCreate
  <2>4. F = {create}
    BY <2>2, <2>3 DEF First
  <2>5. create \notin I
    BY <2>1 DEF On
  <2>6. Amounts(I \union F)
    <3>1. I \union F \in SUBSET (On(ops, c, "inc") \union On(ops, c, "create"))
      BY DEF First
    <3> QED
      BY <3>1, CounterAmounts
  <2> HIDE DEF I, F
  <2>7. Total(I \union F) = create.amount + Total((I \union F) \ {create})
    BY <2>4, <2>6, TotalTakes
  <2>8. (I \union F) \ {create} = I
    BY <2>4, <2>5
  <2>9. create.amount \in Int
    BY <2>4, <2>6 DEF Amounts
  <2>10. Total(I \union F) = create.amount + st.amount
    BY <1>1, <2>7, <2>8
  <2> HIDE DEF I, F
  <2> QED
    BY <1>1, <1>3, <2>1, <2>9, <2>10
<1> QED
  BY <1>4, <1>5

\* The keys of a map that has its state hold what the state stands for.
LEMMA ReplacedKeysHold ==
  ASSUME log \in Logs, NEW ops \in SUBSET Ops, NEW m \in Maps, NEW st, StatesOf(ops, m, st),
         NEW x, NEW y, Replaced(m, x, st, y), ~y.tombstone, NEW time \in Nat
  PROVE  KeysHold(ops, m, y, time)
<1> DEFINE b == Bare(st)
           d == IF st.create = None THEN <<>> ELSE st.create.entries
<1>1. ~st.tombstone /\ Entered(b, y, d)
  BY DEF Replaced
<1>2. b.data = st.entries /\ b.clear = st.clear
  BY DEF Bare
<1>3. /\ st.clear = LastClear(ops, m) /\ st.clear \in Nat
      /\ \A k \in Keys : k \in DOMAIN st.entries <=> Latest(ops, m, Written(ops, m, k)) # {}
      /\ \A k \in DOMAIN st.entries : st.entries[k] \in Latest(ops, m, Written(ops, m, k))
  BY <1>1 DEF StatesOf
<1>4. \A k \in DOMAIN d : d[k].serial = 0
  <2>1. CASE st.create = None
    BY <2>1, MapDataEmpty
  <2>2. CASE st.create # None
    <3>1. st.create \in On(ops, m, "create")
      BY <1>1, <2>2 DEF StatesOf
    <3> QED
      BY <2>2, <3>1, OpsAre, RootAssumption DEF On, IsOp, IsMapOp, Initials
  <2> QED
    BY <2>1, <2>2
<1>5. ASSUME NEW k
      PROVE  Initial(ops, m, k) = IF k \in DOMAIN d THEN {d[k]} ELSE {}
  <2>1. CASE st.create = None
    <3>1. On(ops, m, "create") = {} /\ DOMAIN d = {}
      BY <1>1, <2>1, MapDataEmpty DEF StatesOf
    <3> HIDE DEF d
    <3> QED
      BY <3>1 DEF Initial
  <2>2. CASE st.create # None
    <3>1. st.create \in On(ops, m, "create")
      BY <1>1, <2>2 DEF StatesOf
    <3>2. On(ops, m, "create") = {st.create} /\ d = st.create.entries
      BY <2>2, <3>1, OneCreate
    <3> HIDE DEF d
    <3> QED
      BY <3>2 DEF Initial
  <2> QED
    BY <2>1, <2>2
<1> HIDE DEF b, d
<1>6. ASSUME NEW k \in Keys
      PROVE  KeyHolds(st.clear, EntriesFor(ops, m, k), y.data, k, time)
  <2> DEFINE W == Written(ops, m, k)
             C == st.clear
             e == st.entries
  <2>1. Latest(ops, m, W) = LastOf(C, W)
    BY <1>3 DEF Latest, LastOf
  <2>2. /\ k \in DOMAIN e <=> LastOf(C, W) # {}
        /\ k \in DOMAIN e => e[k] \in LastOf(C, W)
    BY <1>3, <2>1
  <2>3. EntriesFor(ops, m, k) = IF k \in DOMAIN d THEN W \union {d[k]} ELSE W
    BY <1>5 DEF EntriesFor
  <2>4. Distinct(W) /\ (\A f \in W : f.serial # 0) /\ C \in Nat
    BY <1>3, EntriesDistinct
  <2> HIDE DEF W
  <2>5. KeyHolds(C, W, e, k, time)
    BY <2>2 DEF KeyHolds
  <2>6. k \in DOMAIN e => e[k].serial \in Nat
    <3> SUFFICES ASSUME k \in DOMAIN e PROVE e[k].serial \in Nat
      OBVIOUS
    <3>1. e[k] \in W
      BY <2>2 DEF LastOf
    <3> QED
      BY <2>4, <3>1, MaxOpsAssumption DEF Distinct
  <2>7. C = 0 /\ k \notin DOMAIN e => W = {}
    <3> SUFFICES ASSUME C = 0, k \notin DOMAIN e, W # {} PROVE FALSE
      OBVIOUS
    <3>1. PICK f \in W : \A g \in W : g.serial <= f.serial
      BY <2>4, LastExists
    <3>2. f \in LastOf(C, W)
      BY <3>1 DEF LastOf
    <3> QED
      BY <2>2, <3>2
  <2>8. /\ k \in DOMAIN y.data <=> k \in DOMAIN e \/ k \in Taken(b, d)
        /\ k \in DOMAIN y.data => y.data[k] = IF k \in Taken(b, d) THEN d[k] ELSE e[k]
    BY <1>1, <1>2 DEF Entered
  <2> HIDE DEF e, C
  <2>9. CASE k \in DOMAIN d
    <3>1. k \in Taken(b, d) <=> C = 0 /\ k \notin DOMAIN e
      <4>1. d[k].serial = 0
        BY <1>4, <2>9
      <4>2. k \in Taken(b, d) <=> ~(C # 0 /\ C >= 0) /\ (k \in DOMAIN e => 0 > e[k].serial)
        BY <1>2, <2>9, <4>1 DEF Taken, C, e
      <4> QED
        BY <2>4, <2>6, <4>2
    <3>2. IF C = 0 /\ k \notin DOMAIN e THEN k \in DOMAIN y.data /\ y.data[k] = d[k]
          ELSE SameKey(e, k, y.data)
      BY <2>8, <3>1 DEF SameKey
    <3>3. d[k].serial = 0
      BY <1>4, <2>9
    <3>4. KeyHolds(C, W \union {d[k]}, y.data, k, time)
      BY <2>4, <2>5, <2>7, <3>2, <3>3, KeyInitial
    <3> QED
      BY <2>3, <2>9, <3>4 DEF C
  <2>10. CASE k \notin DOMAIN d
    <3>1. k \notin Taken(b, d)
      BY <2>10 DEF Taken
    <3>2. SameKey(e, k, y.data)
      BY <2>8, <3>1 DEF SameKey
    <3>3. EntriesFor(ops, m, k) = W
      BY <2>3, <2>10
    <3> QED
      BY <2>5, <3>2, <3>3 DEF KeyHolds, SameKey, C
  <2> QED
    BY <2>9, <2>10
<1> QED
  BY <1>1, <1>2, <1>3, <1>6 DEF KeysHold, Entered

\* At first nothing is received, and the root is new.
LEMMA MeaningInit ==
  ASSUME Init
  PROVE  MeaningInv
<1>1. log \in Logs /\ received = {} /\ pool = EmptyPool /\ Root \in Ids
  BY RootAssumption DEF Init, Ids
<1>2. DOMAIN pool = {Root} /\ pool[Root] = NewObject(Root)
  BY <1>1 DEF EmptyPool
<1>3. Stands({}, Root, NewObject(Root)) /\ Holds({}, Root, NewObject(Root), collected)
  BY <1>1, NewStands
<1>4. ObjectsStand /\ ObjectsHold
  BY <1>1, <1>2, <1>3 DEF ObjectsStand, ObjectsHold
<1> QED
  BY <1>1, <1>4 DEF MeaningInv, KnownHere, SitePrefix, CollectedDeleted

\* An object that has its state is where the operations leave it, and a root that is alone is
\* where none of them does.
LEMMA SyncedStands ==
  ASSUME Inv, NEW ops \in SUBSET Ops, received \subseteq ops, NEW q, Syncs(pool, ops, q),
         NEW o \in DOMAIN q
  PROVE  Stands(ops, o, q[o]) /\ Holds(ops, o, q[o], collected)
<1> DEFINE x == At(pool, o)
           st == StateOf(ops, o, Keys)
<1>1. PICK y : Replaced(o, x, st, y) /\ Alike(q[o], y) /\ HoldSame(q[o], y)
  BY DEF Syncs
<1>2. o \in Ids
  BY PoolIs DEF Syncs, Sound
<1>3. log \in Logs /\ collected \in Nat
  BY MaxOpsAssumption DEF Inv, GraphInv, Typed
<1>4. StatesOf(ops, o, st)
  BY <1>2, <1>3, StateIs
<1>5. x.tombstone => Deleted(ops, o)
  <2> SUFFICES ASSUME x.tombstone PROVE Deleted(ops, o)
    OBVIOUS
  <2>1. o \in DOMAIN pool /\ pool[o].tombstone
    BY DEF At, NewObject
  <2>2. Deleted(received, o)
    BY <2>1 DEF Inv, MeaningInv, ObjectsStand, Stands
  <2> QED
    BY <2>2, DeletedSooner
<1> HIDE DEF x, st
<1>6. Stands(ops, o, y)
  BY <1>1, <1>2, <1>3, <1>4, <1>5, ReplacedStands
<1>7. ASSUME ~y.tombstone, o \in Counters PROVE y.data = CounterMeaning(ops, o)
  BY <1>1, <1>3, <1>4, <1>7, ReplacedCounts
<1>8. ASSUME ~y.tombstone, o \in Maps PROVE KeysHold(ops, o, y, collected)
  BY <1>1, <1>3, <1>4, <1>8, ReplacedKeysHold
<1>9. Holds(ops, o, y, collected)
  BY <1>7, <1>8 DEF Holds, KeysHold
<1> QED
  BY <1>1, <1>6, <1>9, SameStands

\* What a sync without objects leaves is where no operations do.
LEMMA RootStands ==
  ASSUME Inv, received = {}, NEW q, LeftWithRoot(pool, q), NEW o \in DOMAIN q
  PROVE  Stands({}, o, q[o]) /\ Holds({}, o, q[o], collected)
<1>1. /\ o = Root /\ Root \in DOMAIN pool /\ Root \in Maps /\ Root \in Ids /\ log \in Logs
      /\ ~(Root \in Counters)
  BY RootAssumption DEF LeftWithRoot, Ids, Inv, GraphInv, Typed, Sound, IsPool
<1>2. Stands({}, Root, pool[Root])
  BY <1>1 DEF Inv, MeaningInv, ObjectsStand
<1>3. Alike(q[Root], pool[Root]) /\ q[Root].data = <<>> /\ q[Root].clear = 0
  BY DEF LeftWithRoot
<1>4. Stands({}, Root, q[Root])
  BY <1>2, <1>3, SameStands
<1>5. Holds({}, Root, NewObject(Root), collected)
  BY <1>1, NewStands
<1>6. NewObject(Root).data = <<>> /\ NewObject(Root).clear = 0 /\ NewObject(Root).tombstone = FALSE
  BY <1>1 DEF NewObject
<1>7. Holds({}, Root, q[Root], collected)
  BY <1>1, <1>3, <1>5, <1>6 DEF Holds
<1> QED
  BY <1>1, <1>4, <1>7

\* A sync leaves every object where the operations do that it stands for.
LEMMA MeaningSync ==
  ASSUME Inv, Sync
  PROVE  MeaningInv'
<1>1. PICK n \in 0..Len(log) :
         LET ops == received \union {op \in Ops : op.serial <= n}
         IN  /\ received' = ops
             /\ pool' = CompleteSync((IF ops = {} THEN ClearObjects(pool) ELSE Noop(pool)).pool,
                                     IF ops = {} THEN <<>> ELSE Synced(ops)).pool
  BY DEF Sync
<1> DEFINE ops == received \union {op \in Ops : op.serial <= n}
<1>2. UNCHANGED <<log, collected>> /\ cleared' = FALSE /\ Ops' = Ops /\ received' = ops
  BY <1>1 DEF Sync, Ops
<1>3. /\ ops \in SUBSET Ops /\ received \subseteq ops /\ log \in Logs /\ Len(log) \in Nat
      /\ n \in Nat
      /\ Sound(pool) /\ \A op \in Ops : op.serial \in Nat
  <2>1. log \in Logs
    BY DEF Inv, GraphInv, Typed
  <2>2. Len(log) = MaxOps /\ \A op \in Ops : op.serial \in 1..MaxOps
    BY <2>1, LogIs, OpsAre DEF IsOp
  <2>3. Len(log) \in Nat /\ \A op \in Ops : op.serial \in Nat
    BY <2>2, MaxOpsAssumption
  <2> QED
    BY <2>1, <2>3 DEF Inv, GraphInv, Typed
<1>4. pool' = CompleteSync((IF ops = {} THEN ClearObjects(pool) ELSE Noop(pool)).pool,
                           IF ops = {} THEN <<>> ELSE Synced(ops)).pool
  BY <1>1
<1>5. SitePrefix'
  <2>1. ASSUME NEW op \in ops, NEW before \in Ops, before.site = op.site, before.serial < op.serial
        PROVE  before \in ops
    <3>1. CASE op \in received
      BY <2>1, <3>1 DEF Inv, MeaningInv, SitePrefix
    <3>2. CASE op \notin received
      <4>1. op.serial <= n /\ op.serial \in Nat /\ before.serial \in Nat
        BY <1>3, <3>2
      <4>2. before.serial <= n
        BY <1>3, <2>1, <4>1
      <4> QED
        BY <4>2
    <3> QED
      BY <3>1, <3>2
  <2> HIDE DEF ops
  <2> QED
    BY <1>2, <2>1 DEF SitePrefix
<1> HIDE DEF ops
<1>6. \A op \in ops : op.object \in DOMAIN pool'
  <2>1. CASE ops = {}
    BY <2>1
  <2>2. CASE ops # {}
    <3>1. Syncs(pool, ops, pool')
      BY <1>3, <1>4, <2>2, SyncIs DEF Noop
    <3>2. \A op \in ops : op.object \in Mentioned(op) /\ Mentioned(op) \subseteq Known(ops)
      BY <1>3, KnownIs DEF Mentioned
    <3> QED
      BY <3>1, <3>2 DEF Syncs
  <2> QED
    BY <2>1, <2>2
<1>7. ASSUME NEW o \in DOMAIN pool'
      PROVE  Stands(ops, o, pool'[o]) /\ Holds(ops, o, pool'[o], collected)
  <2>1. CASE ops = {}
    <3>1. LeftWithRoot(pool, pool')
      BY <1>3, <1>4, <2>1, EmptySyncIs
    <3>2. received = {}
      BY <1>3, <2>1
    <3> QED
      BY <2>1, <3>1, <3>2, RootStands
  <2>2. CASE ops # {}
    <3>1. Syncs(pool, ops, pool')
      BY <1>3, <1>4, <2>2, SyncIs DEF Noop
    <3> QED
      BY <1>3, <3>1, SyncedStands
  <2> QED
    BY <2>1, <2>2
<1>8. KnownHere' /\ CollectedDeleted'
  BY <1>2, <1>6 DEF KnownHere, CollectedDeleted
<1>9. ObjectsStand' /\ ObjectsHold'
  BY <1>2, <1>7 DEF ObjectsStand, ObjectsHold
<1> QED
  BY <1>5, <1>8, <1>9 DEF MeaningInv

\* The loss of the attachment takes what the objects hold, not what they noted.
LEMMA MeaningClear ==
  ASSUME Inv, Clear
  PROVE  MeaningInv'
<1>1. /\ pool' = ClearAllData(pool) /\ UNCHANGED <<log, received, collected>>
      /\ cleared' = TRUE /\ Ops' = Ops
  BY DEF Clear, Ops
<1>2. Empties(pool, pool')
  BY <1>1, ClearAllIs DEF Inv, GraphInv
<1>3. KnownHere' /\ CollectedDeleted'
  <2>1. \A n : Gone(n)' <=> Gone(n)
    BY <1>1 DEF Gone, Deleted, DeletedAt
  <2> QED
    BY <1>1, <1>2, <2>1 DEF KnownHere, CollectedDeleted, Inv, MeaningInv, Empties
<1>4. SitePrefix'
  BY <1>1 DEF SitePrefix, Inv, MeaningInv
<1>5. ObjectsStand'
  <2>1. ASSUME NEW o \in DOMAIN pool PROVE Stands(received, o, pool'[o])
    <3>1. Stands(received, o, pool[o]) /\ Alike(pool'[o], pool[o])
      BY <1>2 DEF Inv, MeaningInv, ObjectsStand, Empties
    <3> QED
      BY <3>1, SameStands
  <2> QED
    BY <1>1, <1>2, <2>1 DEF ObjectsStand, Empties
<1>6. ObjectsHold'
  BY <1>1 DEF ObjectsHold
<1> QED
  BY <1>3, <1>4, <1>5, <1>6 DEF MeaningInv

\* A collection takes nothing that is not deleted.
LEMMA MeaningCollect ==
  ASSUME Inv, Collect
  PROVE  MeaningInv'
<1>1. PICK time \in 1..Len(log) :
         time > collected /\ collected' = time /\ pool' = CollectGarbage(pool, time)
  BY DEF Collect
<1>2. UNCHANGED <<log, received, cleared>> /\ Ops' = Ops
  BY DEF Collect, Ops
<1>3. /\ collected \in Nat /\ time \in Nat /\ collected <= time /\ Sound(pool) /\ GraphInv
      /\ log \in Logs /\ received \in SUBSET Ops
  <2>1. Len(log) = MaxOps /\ MaxOps \in Nat /\ collected \in 0..MaxOps
    BY LogIs, MaxOpsAssumption DEF Inv, GraphInv, Typed
  <2>2. collected \in Nat /\ time \in Nat /\ collected <= time
    BY <1>1, <2>1
  <2> QED
    BY <2>2 DEF Inv, GraphInv, Typed
<1>4. Collects(pool, time, pool')
  BY <1>1, <1>3, CollectIs
<1>5. KnownHere'
  <2>1. \A o : Gone(o) => Gone(o)'
    BY <1>1, <1>2, <1>3, GoneLater DEF Gone
  <2>2. \A o \in DOMAIN pool : Due(pool[o], time) => Gone(o)'
    BY <1>1, <1>2, <1>3, GoneLater DEF Gone
  <2>3. \A op \in received : op.object \in DOMAIN pool' \/ Gone(op.object)'
    BY <1>4, <2>1, <2>2 DEF Inv, MeaningInv, KnownHere, Collects
  <2> QED
    BY <1>2, <2>3 DEF KnownHere
<1>6. SitePrefix'
  BY <1>2 DEF SitePrefix, Inv, MeaningInv
<1>7. CollectedDeleted'
  <2>1. \A o \in DOMAIN pool : Due(pool[o], time) => Deleted(received, o)
    BY DEF Due, Inv, MeaningInv, ObjectsStand, Stands
  <2>2. \A op \in received : op.object \in DOMAIN pool' \/ Deleted(received, op.object)
    BY <1>4, <2>1 DEF Inv, MeaningInv, CollectedDeleted, Collects
  <2> QED
    BY <1>2, <2>2 DEF CollectedDeleted
<1>8. ASSUME NEW o \in DOMAIN pool'
      PROVE  Stands(received, o, pool'[o]) /\ (~cleared => Holds(received, o, pool'[o], time))
  <2> DEFINE x == pool[o]
             y == pool'[o]
  <2>1. o \in DOMAIN pool /\ Alike(y, x) /\ y.clear = x.clear
    BY <1>4 DEF Collects
  <2>2. Stands(received, o, x) /\ (~cleared => Holds(received, o, x, collected))
    BY <2>1 DEF Inv, MeaningInv, ObjectsStand, ObjectsHold
  <2>3. o \in Counters => y.data = x.data
    BY <1>4 DEF Collects
  <2>4. o \in Maps => /\ DOMAIN y.data = {k \in DOMAIN x.data : ~Due(x.data[k], time)}
                      /\ \A k \in DOMAIN y.data : y.data[k] = x.data[k]
    BY <1>4 DEF Collects
  <2> HIDE DEF x, y
  <2>5. Stands(received, o, y)
    BY <2>1, <2>2, SameStands
  <2>6. ASSUME ~cleared PROVE Holds(received, o, y, time)
    <3>1. Holds(received, o, x, collected) /\ (y.tombstone <=> x.tombstone)
      BY <2>1, <2>2, <2>6 DEF Alike
    <3>2. ASSUME ~x.tombstone, o \in Maps, NEW k \in Keys
          PROVE  /\ x.clear = LastClear(received, o)
                 /\ KeyHolds(y.clear, EntriesFor(received, o, k), y.data, k, time)
      <4>1. /\ x.clear = LastClear(received, o)
            /\ KeyHolds(x.clear, EntriesFor(received, o, k), x.data, k, collected)
        BY <3>1, <3>2 DEF Holds
      <4>2. Distinct(EntriesFor(received, o, k)) /\ x.clear \in Nat
        <5>1. Distinct(EntriesFor(received, o, k))
          BY <1>3, <3>2, EntriesDistinct
        <5>2. LastClear(received, o) \in 0..MaxOps
          BY <1>3, LastClearIs
        <5> QED
          BY <4>1, <5>1, <5>2, MaxOpsAssumption
      <4>3. /\ k \in DOMAIN y.data <=> k \in DOMAIN x.data /\ ~Due(x.data[k], time)
            /\ k \in DOMAIN y.data => y.data[k] = x.data[k]
        BY <2>4, <3>2
      <4>4. KeyHolds(x.clear, EntriesFor(received, o, k), y.data, k, time)
        BY <1>3, <4>1, <4>2, <4>3, KeyCollected
      <4> QED
        BY <2>1, <4>1, <4>4
    <3> QED
      BY <2>1, <2>3, <3>1, <3>2 DEF Holds
  <2> QED
    BY <2>5, <2>6 DEF y
<1>9. ObjectsStand' /\ ObjectsHold'
  BY <1>1, <1>2, <1>8 DEF ObjectsStand, ObjectsHold
<1> QED
  BY <1>5, <1>6, <1>7, <1>9 DEF MeaningInv

\* So every step keeps it.
LEMMA MeaningStep ==
  ASSUME Inv, [Next]_vars
  PROVE  MeaningInv'
<1>1. CASE Deliver
  <2>1. PICK op \in Ops \ received :
          /\ \A before \in Ops :
              before.site = op.site /\ before.serial < op.serial => before \in received
          /\ Receive(op)
    BY <1>1 DEF Deliver
  <2>2. ~Expired(op, collected) /\ UNCHANGED <<log, cleared, collected>>
    BY <1>1 DEF Inv, GraphInv, Undelivered, Deliver
  <2> QED
    BY <2>1, <2>2, MeaningReceive
<1>2. CASE DeliverAgain
  <2>1. PICK op \in received : ~Expired(op, collected) /\ Receive(op)
    BY <1>2 DEF DeliverAgain
  <2>2. op \in Ops /\ UNCHANGED <<log, cleared, collected>>
    BY <1>2 DEF Inv, GraphInv, Typed, DeliverAgain
  <2>3. \A before \in Ops :
          before.site = op.site /\ before.serial < op.serial => before \in received
    BY DEF Inv, MeaningInv, SitePrefix
  <2> QED
    BY <2>1, <2>2, <2>3, MeaningReceive
<1>3. CASE UNCHANGED vars
  <2>1. UNCHANGED <<log, pool, received, cleared, collected>> /\ Ops' = Ops
    BY <1>3 DEF vars, Ops
  <2>2. \A n : Gone(n)' <=> Gone(n)
    BY <2>1 DEF Gone, Deleted, DeletedAt
  <2> QED
    BY <2>1, <2>2 DEF Inv, MeaningInv, KnownHere, SitePrefix, CollectedDeleted, ObjectsStand,
           ObjectsHold
<1> QED
  BY <1>1, <1>2, <1>3, MeaningSync, MeaningClear, MeaningCollect DEF Next

-----------------------------------------------------------------------------
(* What the pool shows.                                                    *)

\* What entries show: the values of those that are live.
LiveValues(d) == [k \in LiveKeys(d) |-> d[k].value]

\* No entries show nothing.
LEMMA NothingLive == LiveValues(<<>>) = <<>>
<1> DEFINE f == LiveValues(<<>>)
<1>1. f = [k \in {} |-> f[k]]
  BY MapDataEmpty DEF LiveValues, LiveKeys
<1>2. f \in MapData /\ DOMAIN f = {}
  BY <1>1 DEF MapData
<1> HIDE DEF f
<1> QED
  BY <1>2, MapDataNone DEF f

\* There is one last entry of a key, if there are any.
LEMMA LastIsOne ==
  ASSUME NEW C, NEW E, Distinct(E), NEW e \in LastOf(C, E)
  PROVE  LastOf(C, E) = {e}
<1> SUFFICES ASSUME NEW f \in LastOf(C, E) PROVE f = e
  OBVIOUS
<1>1. e \in E /\ f \in E /\ e.serial <= f.serial /\ f.serial <= e.serial
  BY DEF LastOf
<1>2. e.serial \in Nat /\ f.serial \in Nat
  BY <1>1, MaxOpsAssumption DEF Distinct
<1>3. e.serial = f.serial
  BY <1>1, <1>2
<1> QED
  BY <1>1, <1>3 DEF Distinct

\* A map that holds what the operations leave shows what they mean.
LEMMA MapShown ==
  ASSUME log \in Logs, NEW ops \in SUBSET Ops, NEW m \in Maps, NEW x, x.data \in MapData, NEW time,
         KeysHold(ops, m, x, time)
  PROVE  LiveValues(x.data) = MapMeaning(ops, m, Keys)
<1> DEFINE d == x.data
           last(k) == Latest(ops, m, Written(ops, m, k) \union Initial(ops, m, k))
           live == {k \in Keys : \E e \in last(k) : ~e.tombstone}
<1>1. \A k \in Keys : KeyHolds(x.clear, EntriesFor(ops, m, k), d, k, time)
  BY DEF KeysHold
<1>2. \A k : last(k) = LastOf(x.clear, EntriesFor(ops, m, k))
  BY DEF KeysHold, Latest, LastOf, EntriesFor
<1>3. MapMeaning(ops, m, Keys) = [k \in live |-> (CHOOSE e \in last(k) : TRUE).value]
  BY DEF MapMeaning
<1>4. DOMAIN d \subseteq Keys
  BY MapDataIs
<1> HIDE DEF d, last
<1>5. ASSUME NEW k \in Keys, k \in DOMAIN d
      PROVE  last(k) = {d[k]}
  <2>1. Distinct(EntriesFor(ops, m, k))
    BY EntriesDistinct
  <2>2. d[k] \in LastOf(x.clear, EntriesFor(ops, m, k))
    BY <1>1, <1>5 DEF KeyHolds
  <2> QED
    BY <1>2, <2>1, <2>2, LastIsOne
<1>6. ASSUME NEW k \in Keys, k \notin DOMAIN d
      PROVE  \A e \in last(k) : e.tombstone
  BY <1>1, <1>2, <1>6 DEF KeyHolds
<1>7. live = LiveKeys(d)
  BY <1>4, <1>5, <1>6 DEF LiveKeys
<1>8. \A k \in live : (CHOOSE e \in last(k) : TRUE).value = d[k].value
  <2> SUFFICES ASSUME NEW k \in live PROVE (CHOOSE e \in last(k) : TRUE).value = d[k].value
    OBVIOUS
  <2>1. k \in Keys /\ k \in DOMAIN d
    BY <1>7 DEF LiveKeys
  <2>2. last(k) = {d[k]}
    BY <1>5, <2>1
  <2>3. (CHOOSE e \in last(k) : TRUE) = d[k]
    BY <2>2
  <2> QED
    BY <2>3
<1> HIDE DEF live
<1> QED
  BY <1>3, <1>7, <1>8 DEF LiveValues, d

\* What an object shows when it is where the operations leave it.
Showing(o, x) == IF o \in Counters THEN x.data ELSE LiveValues(x.data)

\* So does any object.
LEMMA ObjectShown ==
  ASSUME log \in Logs, NEW ops \in SUBSET Ops, NEW o \in Ids, NEW x \in Replicas(o),
         Stands(ops, o, x), NEW time, Holds(ops, o, x, time),
         x.tombstone => x.data = NewObject(o).data
  PROVE  Showing(o, x) = Meaning(ops, o, Keys)
<1>1. CASE Deleted(ops, o)
  <2>1. x.data = NewObject(o).data
    BY <1>1 DEF Stands
  <2>2. CASE o \in Counters
    BY <1>1, <2>1, <2>2 DEF Showing, Meaning, NewObject
  <2>3. CASE o \notin Counters
    <3>1. x.data = <<>>
      BY <2>1, <2>3 DEF NewObject
    <3> QED
      BY <1>1, <2>3, <3>1, NothingLive DEF Showing, Meaning
  <2> QED
    BY <2>2, <2>3
<1>2. CASE ~Deleted(ops, o)
  <2>1. ~x.tombstone
    BY <1>2 DEF Stands
  <2>2. CASE o \in Counters
    BY <1>2, <2>1, <2>2 DEF Showing, Meaning, Holds
  <2>3. CASE o \notin Counters
    <3>1. o \in Maps
      BY <2>3 DEF Ids
    <3>2. KeysHold(ops, o, x, time) /\ x.data \in MapData
      BY <2>1, <2>3, <3>1 DEF Holds, KeysHold, Replicas
    <3>3. LiveValues(x.data) = MapMeaning(ops, o, Keys)
      BY <3>1, <3>2, MapShown
    <3> QED
      BY <1>2, <2>3, <3>3 DEF Showing, Meaning
  <2> QED
    BY <2>2, <2>3
<1> QED
  BY <1>1, <1>2

\* So does the pool, also of the objects that are not there.
LEMMA PoolShown ==
  ASSUME Inv, ~cleared, NEW o \in Ids
  PROVE  Shown(pool, o) = Meaning(received, o, Keys)
<1>1. log \in Logs /\ received \in SUBSET Ops /\ Sound(pool)
  BY DEF Inv, GraphInv, Typed
<1>2. CASE o \in DOMAIN pool
  <2>1. /\ pool[o] \in Replicas(o) /\ Stands(received, o, pool[o])
        /\ Holds(received, o, pool[o], collected)
        /\ pool[o].tombstone => pool[o].data = NewObject(o).data
    BY <1>1, <1>2, PoolIs DEF Inv, MeaningInv, ObjectsStand, ObjectsHold, Sound, Buried
  <2>2. Showing(o, pool[o]) = Meaning(received, o, Keys)
    BY <1>1, <2>1, ObjectShown
  <2> QED
    BY <1>2, <2>2 DEF Shown, Showing, LiveValues
<1>3. CASE o \notin DOMAIN pool
  <2>1. Shown(pool, o) = IF o \in Counters THEN 0 ELSE <<>>
    BY <1>3 DEF Shown
  <2>2. CASE Deleted(received, o)
    BY <2>1, <2>2 DEF Meaning
  <2>3. CASE ~Deleted(received, o)
    <3> DEFINE x == NewObject(o)
    <3>1. \A op \in received : op.object # o
      BY <1>3, <2>3 DEF Inv, MeaningInv, CollectedDeleted
    <3>2. Stands(received, o, x) /\ Holds(received, o, x, collected) /\ x \in Replicas(o)
      BY <1>1, <3>1, NewStands, NewObjectIs
    <3>3. x.data = IF o \in Counters THEN 0 ELSE <<>>
      BY DEF NewObject
    <3>4. Showing(o, x) = Meaning(received, o, Keys)
      BY <1>1, <3>2, ObjectShown
    <3> HIDE DEF x
    <3>5. Showing(o, x) = IF o \in Counters THEN 0 ELSE <<>>
      BY <3>3, NothingLive DEF Showing
    <3> QED
      BY <2>1, <3>4, <3>5
  <2> QED
    BY <2>2, <2>3
<1> QED
  BY <1>2, <1>3

\* In every state each object has noted exactly the operations received of it and holds what they
\* leave, and only what was deleted is missing.
THEOREM Meanings == Spec => []MeaningInv
<1>1. Init => Inv
  BY GraphInit, MeaningInit DEF Inv
<1>2. Inv /\ [Next]_vars => Inv'
  BY GraphStep, MeaningStep DEF Inv
<1>3. Inv => MeaningInv
  BY DEF Inv
<1> QED
  BY <1>1, <1>2, <1>3, PTL DEF Spec

\* Strong convergence: while there is an attachment the pool shows of every object what the
\* operations received mean, in whatever order and however often they came, and whatever syncs,
\* losses and collections came between.
THEOREM StrongConvergence == Spec => []ShowsWhatItReceived
<1>1. GraphInv /\ MeaningInv => ShowsWhatItReceived
  BY PoolShown DEF Inv, ShowsWhatItReceived
<1> QED
  BY <1>1, GraphInvariant, Meanings, PTL

=============================================================================
