------------------------- MODULE PresenceSync_proofs -------------------------
(***************************************************************************)
(* Proofs about the members of a channel: for any set of members and any   *)
(* disturbances, what subscribers are told agrees with what the map holds, *)
(* nothing of a sync outlives it, and when all has arrived the map holds   *)
(* the members of the server.                                              *)
(***************************************************************************)
EXTENDS PresenceSync, Integers, Functions, SequenceTheorems, TLAPS

-----------------------------------------------------------------------------
(* What the operations of the map preserve and change.                     *)

\* The items of a map are items or None.
LEMMA ItemsOfAMap ==
  ASSUME NEW m \in Maps, NEW k \in Keys
  PROVE  m.items[k] \in Items \union {None}
BY DEF Maps

\* None is not an item.
LEMMA NoneIsNoItem == None \notin Items
BY NoneAssumption DEF Items

\* The empty map is a map and holds nobody.
LEMMA EmptyMapIsEmpty ==
  /\ EmptyMap \in Maps
  /\ Present(EmptyMap) = {} /\ Absent(EmptyMap) = {}
  /\ ~EmptyMap.syncing /\ EmptyMap.residual = {}
BY DEF EmptyMap, Maps, Present, Absent

\* put() keeps the types, adds the accepted members to those present, leaves none absent
\* that was not, and does not touch the state of the sync but for the residual members.
LEMMA PutKeeps ==
  ASSUME NEW m \in Maps, NEW ks \in SUBSET Keys, NEW item,
         \A k \in ks : item[k] \in Items
  PROVE  /\ Put(m, ks, item) \in Maps
         /\ Present(Put(m, ks, item)) = Present(m) \union Accepted(m, ks, item)
         /\ Absent(Put(m, ks, item)) \subseteq Absent(m)
         /\ Put(m, ks, item).residual = m.residual \ ks
         /\ Put(m, ks, item).syncing = m.syncing
<1> DEFINE new == [k \in Keys |-> IF k \in ks /\ PutAccepts(m, k, item[k])
                                   THEN [item[k] EXCEPT !.action = "present"]
                                   ELSE m.items[k]]
           p == Put(m, ks, item)
<1>1. p = [items |-> new, residual |-> m.residual \ ks, syncing |-> m.syncing]
  BY DEF Put
<1>2. \A k \in ks : /\ [item[k] EXCEPT !.action = "present"] \in Items
                    /\ [item[k] EXCEPT !.action = "present"].action = "present"
  BY DEF Items
<1>3. /\ new \in [Keys -> Items \union {None}]
      /\ \A k \in Keys : IF k \in ks /\ PutAccepts(m, k, item[k])
                         THEN new[k] # None /\ new[k].action = "present"
                         ELSE new[k] = m.items[k]
  BY <1>2, NoneIsNoItem, ItemsOfAMap
<1> HIDE DEF new, p
<1>4. /\ p.items = new /\ p.residual = m.residual \ ks /\ p.syncing = m.syncing
      /\ p \in Maps
  BY <1>1, <1>3 DEF Maps
<1>5. Present(p) = Present(m) \union Accepted(m, ks, item)
  BY <1>3, <1>4 DEF Present, Accepted
<1>6. Absent(p) \subseteq Absent(m)
  BY <1>3, <1>4 DEF Absent
<1> QED
  BY <1>4, <1>5, <1>6 DEF p

\* remove() keeps the types and takes the member out of those present; outside of a sync
\* it leaves none absent that was not.
LEMMA RemoveKeeps ==
  ASSUME NEW m \in Maps, NEW k \in Keys, NEW item \in Items
  PROVE  /\ Remove(m, k, item) \in Maps
         /\ Present(Remove(m, k, item)) = IF RemoveAccepts(m, k, item)
                                          THEN Present(m) \ {k} ELSE Present(m)
         /\ ~m.syncing => Absent(Remove(m, k, item)) \subseteq Absent(m)
         /\ Remove(m, k, item).residual = m.residual
         /\ Remove(m, k, item).syncing = m.syncing
<1>1. CASE ~RemoveAccepts(m, k, item)
  BY <1>1 DEF Remove
<1>2. CASE RemoveAccepts(m, k, item)
  <2> DEFINE new == IF m.syncing THEN [item EXCEPT !.action = "absent"] ELSE None
             r == Remove(m, k, item)
  <2>1. r = [items |-> [m.items EXCEPT ![k] = new], residual |-> m.residual, syncing |-> m.syncing]
    BY <1>2 DEF Remove, Maps
  <2>2. /\ new \in Items \union {None}
        /\ m.syncing => new.action = "absent"
        /\ ~m.syncing => new = None
    BY DEF Items
  <2>3. r \in Maps
    BY <2>1, <2>2 DEF Maps
  <2>4. \A j \in Keys : r.items[j] = IF j = k THEN new ELSE m.items[j]
    BY <2>1 DEF Maps
  <2>5. Present(r) = Present(m) \ {k}
    BY <2>2, <2>4 DEF Present
  <2>6. ~m.syncing => Absent(r) \subseteq Absent(m)
    BY <2>2, <2>4 DEF Absent
  <2> QED
    BY <1>2, <2>1, <2>3, <2>5, <2>6
<1> QED
  BY <1>1, <1>2

\* start_sync() changes neither who is present nor who is absent.
LEMMA StartSyncKeeps ==
  ASSUME NEW m \in Maps
  PROVE  /\ StartSync(m) \in Maps
         /\ Present(StartSync(m)) = Present(m) /\ Absent(StartSync(m)) = Absent(m)
         /\ StartSync(m).syncing
<1>1. CASE m.syncing
  BY <1>1 DEF StartSync
<1>2. CASE ~m.syncing
  <2>1. StartSync(m) = [items |-> m.items, residual |-> {k \in Keys : m.items[k] # None},
                        syncing |-> TRUE]
    BY <1>2 DEF StartSync, Maps
  <2> QED
    BY <2>1 DEF Maps, Present, Absent
<1> QED
  BY <1>1, <1>2

\* end_sync() takes out the residual and the absent members and nobody else.
LEMMA EndSyncKeeps ==
  ASSUME NEW m \in Maps, m.syncing
  PROVE  /\ EndSync(m) \in Maps
         /\ Present(EndSync(m)) = Present(m) \ (m.residual \union Absent(m))
         /\ Absent(EndSync(m)) = {}
         /\ EndSync(m).residual = {}
         /\ ~EndSync(m).syncing
<1> DEFINE gone == m.residual \union Absent(m)
           left == [k \in Keys |-> IF k \in gone THEN None ELSE m.items[k]]
           e == EndSync(m)
<1>1. e = [items |-> left, residual |-> {}, syncing |-> FALSE]
  BY DEF EndSync
<1>2. /\ left \in [Keys -> Items \union {None}]
      /\ \A k \in Keys : left[k] = IF k \in gone THEN None ELSE m.items[k]
  BY ItemsOfAMap
<1> HIDE DEF left, e
<1>3. /\ e.items = left /\ e.residual = {} /\ ~e.syncing
      /\ e \in Maps
  BY <1>1, <1>2 DEF Maps
<1>4. Present(e) = Present(m) \ gone
  BY <1>2, <1>3 DEF Present
<1>5. Absent(e) = {}
  BY <1>2, <1>3 DEF Absent
<1> QED
  BY <1>3, <1>4, <1>5 DEF e

-----------------------------------------------------------------------------
(* The inductive invariant.                                                *)

\* Whoever get() returns has been told to subscribers.
MembersAreTold == Present(members) \subseteq view

\* Types, events and leftovers are inductive together.
IInv == TypeOK /\ MembersAreTold /\ NothingOutlivesTheSync

\* A step after which subscribers know the members as they did before, or better.
Tells == Present(members') \subseteq view' /\ (channel' = "detached" \/ Ghosts' \subseteq Ghosts)

\* The server may have no members.
LEMMA NobodyIsAnItemMap == Nobody \in ItemMaps
BY DEF Nobody, ItemMaps

\* The initial states satisfy the invariant.
LEMMA InitEstablishes == Init => IInv
<1> SUFFICES ASSUME Init PROVE IInv
  OBVIOUS
<1>1. TypeOK
  BY EmptyMapIsEmpty, NobodyIsAnItemMap, EmptySeq DEF Init, TypeOK
<1>2. MembersAreTold /\ NothingOutlivesTheSync
  BY EmptyMapIsEmpty DEF Init, MembersAreTold, NothingOutlivesTheSync
<1> QED
  BY <1>1, <1>2 DEF IInv

\* What the server does leaves the client alone and sends well-formed messages.
LEMMA ServerKeeps ==
  ASSUME IInv,
         \/ \E k \in Keys : MemberEnters(k)
         \/ \E k \in Keys, synthesized \in BOOLEAN : MemberLeaves(k, synthesized)
         \/ ServerAttaches
         \/ \E ks \in SUBSET Keys : ServerSendsPage(ks)
         \/ \E ks \in SUBSET Keys : ServerResyncs(ks)
  PROVE  IInv' /\ Tells
<1> USE DEF IInv
<1>1. /\ UNCHANGED client
      /\ TypeOK'
  <2>1. ASSUME NEW b \in BOOLEAN PROVE NewItem(b) \in Items
    BY <2>1 DEF NewItem, Items, TypeOK
  <2>2. ASSUME NEW k \in Keys, MemberEnters(k) PROVE UNCHANGED client /\ TypeOK'
    <3> DEFINE told == [type |-> "PRESENCE", leave |-> FALSE, key |-> k, item |-> NewItem(FALSE)]
    <3>1. told \in Messages
      BY <2>1 DEF Messages
    <3>2. toClient' = IF serverAttached THEN Append(toClient, told) ELSE toClient
      BY <2>2 DEF MemberEnters, Sends
    <3> HIDE DEF told
    <3>3. toClient' \in Seq(Messages)
      BY <3>1, <3>2 DEF TypeOK
    <3>4. serverItems' \in ItemMaps
      BY <2>1, <2>2 DEF MemberEnters, TypeOK, ItemMaps
    <3> QED
      BY <2>2, <3>3, <3>4 DEF MemberEnters, TypeOK, client
  <2>3. ASSUME NEW k \in Keys, NEW b \in BOOLEAN, MemberLeaves(k, b)
        PROVE  UNCHANGED client /\ TypeOK'
    <3>1. [type |-> "PRESENCE", leave |-> TRUE, key |-> k, item |-> NewItem(b)] \in Messages
      BY <2>1 DEF Messages
    <3> QED
      BY <2>1, <2>3, <3>1 DEF MemberLeaves, Sends, TypeOK, ItemMaps, client
  <2>4. CASE ServerAttaches
    <3>1. [type |-> "ATTACHED", hasPresence |-> serverItems # Nobody] \in Messages
      BY DEF Messages
    <3> QED
      BY <2>4, <3>1 DEF ServerAttaches, TypeOK, client
  <2>5. ASSUME NEW ks \in SUBSET Keys, NEW left \in ItemMaps, Page(ks, left)
        PROVE  unsent' \in ItemMaps /\ sending' \in BOOLEAN /\ toClient' \in Seq(Messages)
    <3> DEFINE named == [k \in Keys |-> IF k \in ks THEN left[k] ELSE None]
               page  == [type |-> "SYNC", keys |-> ks, item |-> named, last |-> ks = KeysOf(left)]
    <3>1. named \in ItemMaps /\ \A k \in ks : named[k] \in Items
      BY <2>5 DEF Page, KeysOf, ItemMaps
    <3> HIDE DEF named
    <3>2. page \in Messages
      BY <3>1 DEF Messages
    <3>3. toClient' = Append(toClient, page)
      BY <2>5 DEF Page, named
    <3> HIDE DEF page
    <3>4. toClient' \in Seq(Messages)
      BY <3>2, <3>3 DEF TypeOK
    <3> QED
      BY <2>5, <3>4 DEF Page, ItemMaps
  <2>6. ASSUME NEW ks \in SUBSET Keys, ServerSendsPage(ks) \/ ServerResyncs(ks)
        PROVE  UNCHANGED client /\ TypeOK'
    <3>1. unsent' \in ItemMaps /\ sending' \in BOOLEAN /\ toClient' \in Seq(Messages)
      BY <2>5, <2>6 DEF ServerSendsPage, ServerResyncs, TypeOK
    <3> QED
      BY <2>6, <3>1 DEF ServerSendsPage, ServerResyncs, TypeOK, client
  <2> QED
    BY <2>2, <2>3, <2>4, <2>6
<1> QED
  BY <1>1 DEF client, MembersAreTold, NothingOutlivesTheSync, Tells, Ghosts

\* Each message that arrives changes members, events and sync together.
LEMMA MessageKeeps ==
  ASSUME IInv, OnMessage
  PROVE  IInv' /\ Tells
<1> USE DEF IInv
<1> DEFINE m == Head(toClient)
<1>1. m \in Messages /\ toClient' \in Seq(Messages)
  BY DEF OnMessage, TypeOK
<1>2. members \in Maps /\ view \in SUBSET Keys /\ Present(members) \subseteq view
  BY DEF TypeOK, MembersAreTold
<1> SUFFICES /\ channel' \in {"attaching", "attached", "suspended", "detached"}
             /\ members' \in Maps
             /\ syncComplete' \in BOOLEAN /\ getting' \in BOOLEAN /\ carried' \in BOOLEAN
             /\ view' \in SUBSET Keys
             /\ Present(members') \subseteq view'
             /\ view' \ Present(members') \subseteq view \ Present(members)
             /\ ~members'.syncing => Absent(members') = {} /\ members'.residual = {}
  BY <1>1 DEF OnMessage, server, TypeOK, MembersAreTold, NothingOutlivesTheSync, Tells, Ghosts
<1>3. CASE m.type = "ATTACHED"
  <2>1. m.hasPresence \in BOOLEAN
    BY <1>1, <1>3 DEF Messages
  <2>2. OnAttached(m.hasPresence)
    BY <1>3 DEF OnMessage
  <2>3. CASE m.hasPresence
    BY <1>2, <2>1, <2>2, <2>3, StartSyncKeeps DEF OnAttached, TypeOK, Maps
  <2>4. CASE ~m.hasPresence
    BY <1>2, <2>1, <2>2, <2>4, EmptyMapIsEmpty DEF OnAttached, TypeOK
  <2> QED
    BY <2>3, <2>4
<1>4. CASE m.type = "PRESENCE"
  <2> DEFINE k == m.key
             item == m.item
             put == [j \in {k} |-> item]
  <2>1. k \in Keys /\ item \in Items /\ m.leave \in BOOLEAN
    BY <1>1, <1>4 DEF Messages
  <2>2. OnPresence(m.leave, k, item)
    BY <1>4 DEF OnMessage
  <2> HIDE DEF k, item
  <2>3. CASE m.leave
    <3> DEFINE r == Remove(members, k, item)
    <3>1. /\ members' = r
          /\ view' = (IF RemoveAccepts(members, k, item) THEN view \ {k} ELSE view)
          /\ carried' \in BOOLEAN
          /\ UNCHANGED <<channel, syncComplete, getting>>
      BY <2>2, <2>3 DEF OnPresence, TypeOK, Maps
    <3>2. /\ r \in Maps
          /\ Present(r) = IF RemoveAccepts(members, k, item) THEN Present(members) \ {k}
                                                             ELSE Present(members)
          /\ ~members.syncing => Absent(r) \subseteq Absent(members)
          /\ r.residual = members.residual
          /\ r.syncing = members.syncing
      BY <1>2, <2>1, RemoveKeeps
    <3> HIDE DEF r
    <3> QED
      BY <1>2, <3>1, <3>2 DEF TypeOK, NothingOutlivesTheSync
  <2>4. CASE ~m.leave
    <3>1. Accepted(members, {k}, put) = IF PutAccepts(members, k, item) THEN {k} ELSE {}
      BY DEF Accepted
    <3>2. {k} \in SUBSET Keys /\ \A j \in {k} : put[j] \in Items
      BY <2>1
    <3> HIDE DEF put
    <3> DEFINE p == Put(members, {k}, put)
    <3>3. /\ p \in Maps
          /\ Present(p) = Present(members) \union Accepted(members, {k}, put)
          /\ Absent(p) \subseteq Absent(members)
          /\ p.residual = members.residual \ {k}
          /\ p.syncing = members.syncing
      BY <1>2, <2>1, <3>2, PutKeeps, ZenonT(60)
    <3>4. /\ members' = p
          /\ view' = IF PutAccepts(members, k, item) THEN view \union {k} ELSE view
          /\ UNCHANGED <<channel, syncComplete, getting, carried>>
      BY <2>2, <2>4 DEF OnPresence, put
    <3> HIDE DEF p
    <3>5. /\ view' \in SUBSET Keys /\ Present(members') \subseteq view'
          /\ view' \ Present(members') \subseteq view \ Present(members)
      BY <1>2, <2>1, <3>1, <3>3, <3>4
    <3>6. ~members'.syncing => Absent(members') = {} /\ members'.residual = {}
      BY <3>3, <3>4 DEF NothingOutlivesTheSync
    <3> QED
      BY <3>3, <3>4, <3>5, <3>6 DEF TypeOK
  <2> QED
    BY <2>1, <2>3, <2>4
<1>5. CASE m.type = "SYNC"
  <2> DEFINE keys == m.keys
             item == m.item
             started == StartSync(members)
             named == Put(started, keys, item)
             entered == Accepted(started, keys, item)
  <2>1. keys \in SUBSET Keys /\ m.last \in BOOLEAN /\ \A k \in keys : item[k] \in Items
    BY <1>1, <1>5 DEF Messages
  <2>2. /\ carried' = (IF members.syncing THEN carried ELSE FALSE)
        /\ members' = IF m.last THEN EndSync(named) ELSE named
        /\ view' = IF m.last
                   THEN (view \union entered) \ (named.residual \union Absent(named))
                   ELSE view \union entered
        /\ syncComplete' = (syncComplete \/ m.last)
        /\ getting' = (getting /\ ~m.last)
        /\ UNCHANGED channel
    BY <1>5 DEF OnMessage, OnSync
  <2> HIDE DEF keys, item
  <2>3. started \in Maps /\ Present(started) = Present(members) /\ started.syncing
    BY <1>2, StartSyncKeeps
  <2> HIDE DEF started
  <2>4. named \in Maps /\ Present(named) = Present(started) \union entered /\ named.syncing
    BY <2>1, <2>3, PutKeeps, ZenonT(60)
  <2>9. entered \subseteq Keys
    BY <2>1 DEF Accepted
  <2> HIDE DEF named, entered
  <2>5. /\ EndSync(named) \in Maps
        /\ Present(EndSync(named)) = Present(named) \ (named.residual \union Absent(named))
        /\ Absent(EndSync(named)) = {} /\ EndSync(named).residual = {}
    BY <2>4, EndSyncKeeps
  <2>6. carried' \in BOOLEAN /\ syncComplete' \in BOOLEAN /\ getting' \in BOOLEAN
    BY <2>1, <2>2 DEF TypeOK
  <2>7. CASE m.last
    <3> DEFINE gone == named.residual \union Absent(named)
    <3>1. members' = EndSync(named) /\ view' = (view \union entered) \ gone
      BY <2>2, <2>7
    <3>2. Present(members') = (Present(members) \union entered) \ gone
      BY <2>3, <2>4, <2>5, <3>1
    <3> HIDE DEF gone
    <3>3. /\ view' \in SUBSET Keys /\ Present(members') \subseteq view'
          /\ view' \ Present(members') \subseteq view \ Present(members)
      BY <1>2, <2>9, <3>1, <3>2
    <3> QED
      BY <2>2, <2>5, <2>6, <3>1, <3>3 DEF TypeOK
  <2>8. CASE ~m.last
    <3>1. members' = named /\ view' = view \union entered
      BY <2>2, <2>8
    <3>2. Present(members') = Present(members) \union entered
      BY <2>3, <2>4, <3>1
    <3>3. /\ view' \in SUBSET Keys /\ Present(members') \subseteq view'
          /\ view' \ Present(members') \subseteq view \ Present(members)
      BY <1>2, <2>9, <3>1, <3>2
    <3> QED
      BY <2>2, <2>4, <2>6, <3>1, <3>3 DEF TypeOK
  <2> QED
    BY <2>7, <2>8
<1> QED
  BY <1>1, <1>3, <1>4, <1>5 DEF Messages

\* Every step keeps the invariant.
LEMMA NextKeeps == IInv /\ [Next]_vars => IInv' /\ Tells
<1> SUFFICES ASSUME IInv, [Next]_vars PROVE IInv' /\ Tells
  OBVIOUS
<1>1. CASE \/ \E k \in Keys : MemberEnters(k)
           \/ \E k \in Keys, synthesized \in BOOLEAN : MemberLeaves(k, synthesized)
           \/ ServerAttaches
           \/ \E ks \in SUBSET Keys : ServerSendsPage(ks)
           \/ \E ks \in SUBSET Keys : ServerResyncs(ks)
  BY <1>1, ServerKeeps
<1>2. CASE OnMessage
  BY <1>2, MessageKeeps
<1>3. ServerForgets => /\ serverAttached' \in BOOLEAN /\ sending' \in BOOLEAN
                       /\ serverItems' \in ItemMaps /\ unsent' \in ItemMaps
                       /\ events' \in Nat /\ toClient' \in Seq(Messages)
  BY NobodyIsAnItemMap, EmptySeq DEF IInv, TypeOK, ServerForgets
<1>4. CASE Reattach
  BY <1>3, <1>4 DEF Reattach, IInv, TypeOK, MembersAreTold,
     NothingOutlivesTheSync, Tells, Ghosts, Present, Absent
<1>5. CASE Suspend
  BY <1>3, <1>5 DEF Suspend, IInv, TypeOK, MembersAreTold,
     NothingOutlivesTheSync, Tells, Ghosts, Present, Absent
<1>6. CASE Detach
  BY <1>3, <1>6, EmptyMapIsEmpty
     DEF Detach, IInv, TypeOK, MembersAreTold, NothingOutlivesTheSync, Tells
<1>7. CASE Attach
  BY <1>7 DEF Attach, server, IInv, TypeOK, MembersAreTold,
     NothingOutlivesTheSync, Tells, Ghosts, Present, Absent
<1>8. CASE GetWaits
  BY <1>8 DEF GetWaits, server, IInv, TypeOK, MembersAreTold,
     NothingOutlivesTheSync, Tells, Ghosts, Present, Absent
<1>9. CASE UNCHANGED vars
  BY <1>9 DEF vars, IInv, TypeOK, MembersAreTold,
     NothingOutlivesTheSync, Tells, Ghosts, Present, Absent
<1> QED
  BY <1>1, <1>2, <1>4, <1>5, <1>6, <1>7, <1>8, <1>9 DEF Next

-----------------------------------------------------------------------------
(* The theorems.                                                           *)

\* The inductive invariant holds in every behaviour.
THEOREM IInvAlways == Spec => []IInv
BY InitEstablishes, NextKeeps, PTL DEF Spec

\* Type correctness, for any members and any disturbances.
THEOREM PresenceTypeCorrect == Spec => []TypeOK
<1>1. IInv => TypeOK
  BY DEF IInv
<1> QED
  BY <1>1, IInvAlways, PTL

\* Through syncs, leaves that overtake them, and clears, what set_presence and on_attached
\* emit tells a subscriber of whoever is present, and of whoever no longer is; only the
\* members that act_on_channel_state clears on DETACHED and FAILED go unsaid.
THEOREM SubscribersKnowMembers == Spec => EventsTellMembers
<1>1. IInv /\ [Next]_vars =>
        [/\ Present(members') \subseteq view'
         /\ channel' = "detached" \/ Ghosts' \subseteq Ghosts]_vars
  BY NextKeeps DEF Tells
<1>2. Spec => []IInv /\ [][Next]_vars
  BY IInvAlways, PTL DEF Spec
<1> QED
  BY <1>1, <1>2, PTL DEF EventsTellMembers

\* However a sync is cut short, doubled or mixed with messages, end_sync() and clear()
\* leave neither an absent nor a residual member behind.
THEOREM SyncLeavesNothing == Spec => []NothingOutlivesTheSync
<1>1. IInv => NothingOutlivesTheSync
  BY DEF IInv
<1> QED
  BY <1>1, IInvAlways, PTL

-----------------------------------------------------------------------------
(* The members of the server.  What the client will have when all that is  *)
(* under way has arrived is given by a sequence of views, one for each     *)
(* message: the invariant speaks of the last of them, as if the wire were  *)
(* empty.                                                                  *)

\* What the client knows of the members.
Views == [members : Maps, carried : BOOLEAN]

\* The view that a message makes of v.
Receives(v, m) ==
  CASE m.type = "ATTACHED" ->
         IF m.hasPresence
         THEN [members |-> StartSync(v.members), carried |-> v.members.syncing]
         ELSE [members |-> EmptyMap, carried |-> FALSE]
    [] m.type = "PRESENCE" ->
         IF m.leave
         THEN [members |-> Remove(v.members, m.key, m.item),
               carried |-> (v.carried \/ (v.members.syncing /\ v.members.items[m.key] = None))]
         ELSE [members |-> Put(v.members, {m.key}, [j \in {m.key} |-> m.item]),
               carried |-> v.carried]
    [] m.type = "SYNC" ->
         LET named == Put(StartSync(v.members), m.keys, m.item)
         IN  [members |-> IF m.last THEN EndSync(named) ELSE named,
              carried |-> IF v.members.syncing THEN v.carried ELSE FALSE]

\* An item is dated no later than the last event, and its serial, if it bears one, orders
\* it as its date does.
Timely(x) == x # None => x.time <= events /\ (~x.synthesized => x.serial = x.time)

\* No item is later than the one the server has.
NotNewer(x, s) == x = None \/ s = None \/ x = s \/ x.time < s.time

\* Every item of a map is.
Fresh(m) ==
  \A k \in Keys : Timely(m.items[k]) /\ NotNewer(m.items[k], serverItems[k])

\* The items at the server are of members that entered, and those of the sync under way
\* are no newer.
EnteredItem(x) == x # None => x.action = "present" /\ ~x.synthesized

\* So are the items that the sync has yet to name, and it names members only.
ServerFresh ==
  \A k \in Keys :
    /\ Timely(serverItems[k]) /\ EnteredItem(serverItems[k])
    /\ Timely(unsent[k]) /\ EnteredItem(unsent[k])
    /\ NotNewer(unsent[k], serverItems[k])
    /\ ~sending => unsent[k] = None

\* During a sync the item x of a member, the item u that the sync has yet to name, and
\* whether the member is residual, lead to the item s of the server.
Settling(x, s, u, residual) ==
  \/ /\ s # None
     /\ \/ x = s /\ (~residual \/ u # None)
        \/ u = s /\ (x = None \/ x.time < s.time)
  \/ /\ s = None
     /\ \/ x = None /\ u = None
        \/ x # None /\ x.action = "absent" /\ (u = None \/ u.time < x.time)
        \/ x # None /\ residual /\ u = None

\* The view v leads to the server's members: it has them, or the sync under way will
\* settle each of them; unless the sync is carried.
Agrees(v) ==
  /\ v.members.syncing = sending
  /\ ~v.carried /\ ~sending => v.members.items = serverItems
  /\ ~v.carried /\ sending =>
       \A k \in Keys : Settling(v.members.items[k], serverItems[k], unsent[k],
                                k \in v.members.residual)

\* The views that the messages on the wire will make.
Foretells(run) ==
  /\ run[0] = [members |-> members, carried |-> carried]
  /\ \A i \in 1..Len(toClient) : run[i] = Receives(run[i - 1], toClient[i])
  /\ \A i \in 0..Len(toClient) : Fresh(run[i].members)
  /\ serverAttached => Agrees(run[Len(toClient)])

\* The inductive invariant, beside the types.
Converging ==
  /\ \E run \in [0..Len(toClient) -> Views] : Foretells(run)
  /\ ServerFresh
  /\ ~serverAttached => toClient = <<>> /\ ~sending

\* What put(), remove(), start_sync() and end_sync() do to the item of one member.
LEMMA PutItem ==
  ASSUME NEW m \in Maps, NEW ks, NEW item, NEW k \in Keys
  PROVE  Put(m, ks, item).items[k] = IF k \in ks /\ PutAccepts(m, k, item[k])
                                     THEN [item[k] EXCEPT !.action = "present"]
                                     ELSE m.items[k]
BY DEF Put

\* remove() keeps the item as absent during a sync.
LEMMA RemoveItem ==
  ASSUME NEW m \in Maps, NEW k \in Keys, NEW item \in Items, NEW j \in Keys
  PROVE  Remove(m, k, item).items[j] =
           IF j = k /\ RemoveAccepts(m, k, item)
           THEN IF m.syncing THEN [item EXCEPT !.action = "absent"] ELSE None
           ELSE m.items[j]
BY DEF Remove, Maps

\* start_sync() makes each member residual, unless a sync is in progress.
LEMMA StartSyncItem ==
  ASSUME NEW m \in Maps
  PROVE  /\ StartSync(m).items = m.items
         /\ m.syncing => StartSync(m).residual = m.residual
         /\ ~m.syncing => StartSync(m).residual = {k \in Keys : m.items[k] # None}
BY DEF StartSync, Maps

\* end_sync() takes out the residual and the absent members.
LEMMA EndSyncItem ==
  ASSUME NEW m \in Maps, m.syncing, NEW k \in Keys
  PROVE  EndSync(m).items[k] = IF k \in m.residual \union Absent(m) THEN None ELSE m.items[k]
BY DEF EndSync

\* put() stores the item of a member that entered as it is.
LEMMA PresentItem ==
  ASSUME NEW x \in Items, x.action = "present"
  PROVE  [x EXCEPT !.action = "present"] = x
BY DEF Items

\* A view stays one, whatever arrives.
LEMMA ReceivesType ==
  ASSUME NEW v \in Views, NEW m \in Messages
  PROVE  Receives(v, m) \in Views
<1>1. v.members \in Maps /\ v.carried \in BOOLEAN /\ v.members.syncing \in BOOLEAN
  BY DEF Views, Maps
<1>2. CASE m.type = "ATTACHED"
  BY <1>1, <1>2, StartSyncKeeps, EmptyMapIsEmpty DEF Receives, Views
<1>3. CASE m.type = "PRESENCE"
  <2>1. m.key \in Keys /\ m.item \in Items /\ m.leave \in BOOLEAN
    BY <1>3 DEF Messages
  <2> DEFINE put == [j \in {m.key} |-> m.item]
  <2>2. {m.key} \in SUBSET Keys /\ \A j \in {m.key} : put[j] \in Items
    BY <2>1
  <2>3. Receives(v, m) = IF m.leave
         THEN [members |-> Remove(v.members, m.key, m.item),
               carried |-> (v.carried \/ (v.members.syncing /\ v.members.items[m.key] = None))]
         ELSE [members |-> Put(v.members, {m.key}, put), carried |-> v.carried]
    BY <1>3 DEF Receives
  <2> HIDE DEF put
  <2>4. Remove(v.members, m.key, m.item) \in Maps
    BY <1>1, <2>1, RemoveKeeps
  <2>5. Put(v.members, {m.key}, put) \in Maps
    BY <1>1, <2>2, PutKeeps
  <2> QED
    BY <1>1, <2>3, <2>4, <2>5 DEF Views
<1>4. CASE m.type = "SYNC"
  <2> DEFINE started == StartSync(v.members)
             named == Put(started, m.keys, m.item)
  <2>1. m.keys \in SUBSET Keys /\ \A k \in m.keys : m.item[k] \in Items
    BY <1>4 DEF Messages
  <2>2. started \in Maps /\ started.syncing
    BY <1>1, StartSyncKeeps
  <2>3. Receives(v, m) = [members |-> IF m.last THEN EndSync(named) ELSE named,
                          carried |-> IF v.members.syncing THEN v.carried ELSE FALSE]
    BY <1>4 DEF Receives
  <2> HIDE DEF started
  <2>4. named \in Maps /\ named.syncing
    BY <2>1, <2>2, PutKeeps
  <2> HIDE DEF named
  <2>5. EndSync(named) \in Maps
    BY <2>4, EndSyncKeeps
  <2> DEFINE left == IF m.last THEN EndSync(named) ELSE named
             over == IF v.members.syncing THEN v.carried ELSE FALSE
  <2>6. Receives(v, m) = [members |-> left, carried |-> over]
    BY <2>3
  <2>7. left \in Maps /\ over \in BOOLEAN
    BY <1>1, <2>4, <2>5
  <2> HIDE DEF left, over
  <2> QED
    BY <2>6, <2>7 DEF Views
<1> QED
  BY <1>2, <1>3, <1>4 DEF Messages

\* OnMessage makes the view that Receives foretells.
LEMMA MessageReceived ==
  ASSUME TypeOK, OnMessage
  PROVE  [members |-> members', carried |-> carried']
           = Receives([members |-> members, carried |-> carried], Head(toClient))
<1> DEFINE v == [members |-> members, carried |-> carried]
<1> SUFFICES ASSUME NEW m, m = Head(toClient)
             PROVE  [members |-> members', carried |-> carried'] = Receives(v, m)
  OBVIOUS
<1>1. m \in Messages
  BY DEF OnMessage, TypeOK
<1>3. CASE m.type = "ATTACHED"
  <2>1. OnAttached(m.hasPresence) /\ m.hasPresence \in BOOLEAN
    BY <1>1, <1>3 DEF OnMessage, Messages
  <2>2. CASE m.hasPresence
    <3>1. members' = StartSync(members) /\ carried' = members.syncing
      BY <2>1, <2>2 DEF OnAttached
    <3> QED
      BY <1>3, <2>2, <3>1 DEF Receives
  <2>3. CASE ~m.hasPresence
    <3>1. members' = EmptyMap /\ carried' = FALSE
      BY <2>1, <2>3 DEF OnAttached
    <3> QED
      BY <1>3, <2>3, <3>1 DEF Receives
  <2> QED
    BY <2>1, <2>2, <2>3
<1>4. CASE m.type = "PRESENCE"
  <2>1. OnPresence(m.leave, m.key, m.item) /\ m.leave \in BOOLEAN
    BY <1>1, <1>4 DEF OnMessage, Messages
  <2>2. CASE m.leave
    <3>1. /\ members' = Remove(members, m.key, m.item)
          /\ carried' = (carried \/ (members.syncing /\ members.items[m.key] = None))
      BY <2>1, <2>2 DEF OnPresence
    <3> QED
      BY <1>4, <2>2, <3>1 DEF Receives
  <2>3. CASE ~m.leave
    <3>1. members' = Put(members, {m.key}, [j \in {m.key} |-> m.item]) /\ carried' = carried
      BY <2>1, <2>3 DEF OnPresence
    <3> QED
      BY <1>4, <2>3, <3>1 DEF Receives
  <2> QED
    BY <2>1, <2>2, <2>3
<1>5. CASE m.type = "SYNC"
  <2>1. OnSync(m.keys, m.item, m.last)
    BY <1>5 DEF OnMessage
  <2> DEFINE named == Put(StartSync(members), m.keys, m.item)
             left == IF m.last THEN EndSync(named) ELSE named
             over == IF members.syncing THEN carried ELSE FALSE
  <2>2. members' = left /\ carried' = over
    BY <2>1 DEF OnSync
  <2>3. Receives(v, m) = [members |-> left, carried |-> over]
    BY <1>5 DEF Receives
  <2> QED
    BY <2>2, <2>3
<1> QED
  BY <1>1, <1>3, <1>4, <1>5 DEF Messages

-----------------------------------------------------------------------------
(* What each message of the server does to the last view.                  *)

\* The item of an event that is yet to come is newer than all that is known.
LEMMA NewItemAccepted ==
  ASSUME TypeOK, NEW b \in BOOLEAN, NEW x \in Items, Timely(x)
  PROVE  /\ NewItem(b) \in Items
         /\ NewItem(b).action = "present" /\ NewItem(b).synthesized = b
         /\ (b \/ NewItem(b).serial = events + 1) /\ NewItem(b).time = events + 1
         /\ x.time <= events
         /\ IsNewer(NewItem(b), x)
<1>1. /\ NewItem(b) \in Items
      /\ NewItem(b).action = "present" /\ NewItem(b).synthesized = b
      /\ (b \/ NewItem(b).serial = events + 1) /\ NewItem(b).time = events + 1
  BY DEF NewItem, Items, TypeOK
<1>2. (x.synthesized \/ x.serial = x.time) /\ x.time <= events /\ x.time \in Nat /\ events \in Nat
  BY NoneIsNoItem DEF Timely, Items, TypeOK
<1> QED
  BY <1>1, <1>2 DEF IsNewer

\* Two maps that hold the same item for every member hold the same items.
LEMMA SameItems ==
  ASSUME NEW m \in Maps, NEW f \in [Keys -> Items \union {None}],
         \A k \in Keys : m.items[k] = f[k]
  PROVE  m.items = f
<1>1. m.items \in [Keys -> Items \union {None}]
  BY DEF Maps
<1> DEFINE g == m.items
<1> HIDE DEF g
<1>2. g = f
  BY <1>1 DEF g
<1> QED
  BY <1>2 DEF g

\* The enter of a member.
LEMMA EnterAgrees ==
  ASSUME TypeOK, ServerFresh, NEW k \in Keys, MemberEnters(k),
         NEW v \in Views, Fresh(v.members),
         NEW w \in Views, w = Receives(v, [type |-> "PRESENCE", leave |-> FALSE, key |-> k,
                                           item |-> NewItem(FALSE)])
  PROVE  Fresh(w.members)' /\ (Agrees(v) => Agrees(w)')
<1> DEFINE n == NewItem(FALSE)
           x(j) == v.members.items[j]
           s(j) == serverItems[j]
<1>1. v.members \in Maps /\ w.members \in Maps /\ v.carried \in BOOLEAN
  BY DEF Views
<1>2. /\ n \in Items /\ n.action = "present" /\ ~n.synthesized
      /\ n.serial = events + 1 /\ n.time = events + 1
  BY DEF NewItem, Items, TypeOK
<1> DEFINE put == [j \in {k} |-> n]
<1>3. w.members = Put(v.members, {k}, put) /\ w.carried = v.carried
  BY DEF Receives
<1>0. put[k] = n /\ {k} \in SUBSET Keys /\ \A j \in {k} : put[j] \in Items
  BY <1>2
<1> HIDE DEF put
<1>4. /\ w.members.syncing = v.members.syncing
      /\ w.members.residual = v.members.residual \ {k}
  <2> DEFINE m == v.members
  <2>1. m \in Maps /\ w.members = Put(m, {k}, put)
    BY <1>1, <1>3
  <2> HIDE DEF m
  <2>2. /\ Put(m, {k}, put).syncing = m.syncing
        /\ Put(m, {k}, put).residual = m.residual \ {k}
    BY <1>0, <2>1, PutKeeps, ZenonT(60)
  <2> QED
    BY <2>1, <2>2 DEF m
<1>5. PutAccepts(v.members, k, n)
  BY <1>1, ItemsOfAMap, NewItemAccepted DEF PutAccepts, Fresh
<1>6. ASSUME NEW j \in Keys PROVE w.members.items[j] = IF j = k THEN n ELSE x(j)
  <2>1. w.members.items[j] = IF j \in {k} /\ PutAccepts(v.members, j, put[j])
                             THEN [put[j] EXCEPT !.action = "present"] ELSE x(j)
    <3> DEFINE m == v.members
    <3>1. m \in Maps /\ w.members = Put(m, {k}, put)
      BY <1>1, <1>3
    <3> HIDE DEF m
    <3>2. Put(m, {k}, put).items[j] = IF j \in {k} /\ PutAccepts(m, j, put[j])
                                      THEN [put[j] EXCEPT !.action = "present"]
                                      ELSE m.items[j]
      BY <3>1, PutItem, SMTT(60)
    <3> QED
      BY <3>1, <3>2 DEF m
  <2>2. [n EXCEPT !.action = "present"] = n
    BY <1>2, PresentItem
  <2> HIDE DEF n
  <2> QED
    BY <1>0, <1>5, <2>1, <2>2
<1>7. /\ events' = events + 1 /\ events \in Nat
      /\ serverItems' \in [Keys -> Items \union {None}]
      /\ \A j \in Keys : serverItems'[j] = IF j = k THEN n ELSE s(j)
      /\ UNCHANGED <<sending, unsent>>
  BY <1>2 DEF MemberEnters, TypeOK, ItemMaps
<1>8. n # None
  BY <1>2, NoneIsNoItem
<1> HIDE DEF n
<1>9. \A j \in Keys : x(j) \in Items \union {None}
  BY <1>1, ItemsOfAMap
<1>10. Fresh(w.members)'
  <2>1. ASSUME NEW j \in Keys
        PROVE  (Timely(w.members.items[j]) /\ NotNewer(w.members.items[j], serverItems[j]))'
    <3>1. Timely(x(j)) /\ NotNewer(x(j), s(j)) /\ x(j) \in Items \union {None}
      BY <1>9 DEF Fresh
    <3>2. CASE j = k
      <4>1. w.members.items[j] = n /\ serverItems'[j] = n
        BY <1>6, <1>7, <3>2
      <4> QED
        BY <1>2, <1>7, <4>1 DEF Timely, NotNewer
    <3>3. CASE j # k
      <4>1. w.members.items[j] = x(j) /\ serverItems'[j] = s(j)
        BY <1>6, <1>7, <3>3
      <4>2. x(j) # None => x(j).time \in Nat
        BY <3>1 DEF Items
      <4> HIDE DEF x, s
      <4> QED
        BY <1>7, <3>1, <4>1, <4>2 DEF Timely, NotNewer
    <3> QED
      BY <3>2, <3>3
  <2> QED
    BY <2>1 DEF Fresh
<1>11. ASSUME Agrees(v) PROVE Agrees(w)'
  <2>1. w.members.syncing = sending'
    BY <1>4, <1>7, <1>11 DEF Agrees
  <2>2. ASSUME ~w.carried, ~sending' PROVE w.members.items = serverItems'
    <3>1. \A j \in Keys : x(j) = s(j)
      BY <1>3, <1>7, <1>11, <2>2 DEF Agrees
    <3>2. \A j \in Keys : w.members.items[j] = serverItems'[j]
      BY <1>6, <1>7, <3>1
    <3> QED
      BY <1>1, <1>7, <3>2, SameItems
  <2>3. ASSUME ~w.carried, sending', NEW j \in Keys
        PROVE  Settling(w.members.items[j], serverItems'[j], unsent'[j], j \in w.members.residual)
    <3>1. CASE j = k
      BY <1>4, <1>6, <1>7, <1>8, <3>1 DEF Settling
    <3>2. CASE j # k
      <4>1. Settling(x(j), s(j), unsent[j], j \in v.members.residual)
        BY <1>3, <1>7, <1>11, <2>3 DEF Agrees
      <4> QED
        BY <1>4, <1>6, <1>7, <3>2, <4>1 DEF Settling
    <3> QED
      BY <3>1, <3>2
  <2> QED
    BY <2>1, <2>2, <2>3 DEF Agrees
<1> QED
  BY <1>10, <1>11

\* The leave of a member; a sync in progress that has not named the member is carried.
LEMMA LeaveAgrees ==
  ASSUME TypeOK, ServerFresh, NEW k \in Keys, NEW b \in BOOLEAN, MemberLeaves(k, b),
         NEW v \in Views, Fresh(v.members),
         NEW w \in Views, w = Receives(v, [type |-> "PRESENCE", leave |-> TRUE, key |-> k,
                                           item |-> NewItem(b)])
  PROVE  Fresh(w.members)' /\ (Agrees(v) => Agrees(w)')
<1> DEFINE n == NewItem(b)
           gone == [n EXCEPT !.action = "absent"]
           x(j) == v.members.items[j]
           s(j) == serverItems[j]
<1>1. v.members \in Maps /\ w.members \in Maps /\ v.carried \in BOOLEAN
  BY DEF Views
<1>2. /\ n \in Items /\ gone \in Items /\ gone.action = "absent"
      /\ (gone.synthesized \/ gone.serial = events + 1) /\ gone.time = events + 1
  BY DEF NewItem, Items, TypeOK
<1>3. /\ w.members = Remove(v.members, k, n)
      /\ w.carried = (v.carried \/ (v.members.syncing /\ x(k) = None))
  BY DEF Receives
<1>4. /\ w.members.syncing = v.members.syncing
      /\ w.members.residual = v.members.residual
  BY <1>1, <1>2, <1>3, RemoveKeeps
<1>5. \A j \in Keys : x(j) \in Items \union {None}
  BY <1>1, ItemsOfAMap
<1>6. RemoveAccepts(v.members, k, n) <=> x(k) # None
  BY <1>5, NewItemAccepted DEF RemoveAccepts, Fresh
<1>7. ASSUME NEW j \in Keys
      PROVE  w.members.items[j] = IF j = k /\ x(k) # None
                                  THEN IF v.members.syncing THEN gone ELSE None
                                  ELSE x(j)
  BY <1>1, <1>2, <1>3, <1>6, RemoveItem
<1>8. /\ events' = events + 1 /\ events \in Nat
      /\ serverItems' \in [Keys -> Items \union {None}]
      /\ \A j \in Keys : serverItems'[j] = IF j = k THEN None ELSE s(j)
      /\ UNCHANGED sending
      /\ s(k) # None
  BY DEF MemberLeaves, TypeOK, ItemMaps
<1>12. \A j \in Keys : unsent'[j] = unsent[j] \/ (unsent'[j] = None /\ j = k)
  <2>1. unsent' = unsent \/ unsent' = [unsent EXCEPT ![k] = None]
    BY DEF MemberLeaves
  <2> QED
    BY <2>1 DEF TypeOK, ItemMaps
<1>9. gone # None
  BY <1>2, NoneIsNoItem
<1> HIDE DEF n, gone
<1>10. Fresh(w.members)'
  <2>1. ASSUME NEW j \in Keys
        PROVE  (Timely(w.members.items[j]) /\ NotNewer(w.members.items[j], serverItems[j]))'
    <3>1. Timely(x(j)) /\ NotNewer(x(j), s(j)) /\ x(j) \in Items \union {None}
      BY <1>5 DEF Fresh
    <3>2. CASE j = k
      <4>1. w.members.items[j] \in {gone, None} /\ serverItems'[j] = None
        BY <1>7, <1>8, <3>2
      <4> QED
        BY <1>2, <1>8, <4>1 DEF Timely, NotNewer
    <3>3. CASE j # k
      <4>1. w.members.items[j] = x(j) /\ serverItems'[j] = s(j)
        BY <1>7, <1>8, <3>3
      <4>2. x(j) # None => x(j).time \in Nat
        BY <3>1 DEF Items
      <4> HIDE DEF x, s
      <4> QED
        BY <1>8, <3>1, <4>1, <4>2 DEF Timely, NotNewer
    <3> QED
      BY <3>2, <3>3
  <2> QED
    BY <2>1 DEF Fresh
<1>11. ASSUME Agrees(v) PROVE Agrees(w)'
  <2>1. w.members.syncing = sending'
    BY <1>4, <1>8, <1>11 DEF Agrees
  <2>2. ASSUME ~w.carried, ~sending' PROVE w.members.items = serverItems'
    <3>1. \A j \in Keys : x(j) = s(j)
      BY <1>3, <1>8, <1>11, <2>2 DEF Agrees
    <3>2. ~v.members.syncing
      BY <1>8, <1>11, <2>2 DEF Agrees
    <3>3. \A j \in Keys : w.members.items[j] = serverItems'[j]
      BY <1>7, <1>8, <3>1, <3>2
    <3> QED
      BY <1>1, <1>8, <3>3, SameItems
  <2>3. ASSUME ~w.carried, sending', NEW j \in Keys
        PROVE  Settling(w.members.items[j], serverItems'[j], unsent'[j], j \in w.members.residual)
    <3>1. Settling(x(j), s(j), unsent[j], j \in v.members.residual)
      BY <1>3, <1>8, <1>11, <2>3 DEF Agrees
    <3>2. CASE j = k
      <4>1. v.members.syncing /\ x(k) # None
        BY <1>3, <1>8, <1>11, <2>3 DEF Agrees
      <4>2. w.members.items[j] = gone /\ serverItems'[j] = None
        BY <1>7, <1>8, <3>2, <4>1
      <4>3. unsent'[j] = None \/ unsent'[j].time < gone.time
        <5>1. Timely(unsent[j]) /\ unsent[j] \in Items \union {None}
          BY DEF ServerFresh, TypeOK, ItemMaps
        <5>2. unsent[j] # None => unsent[j].time \in Nat
          BY <5>1 DEF Items
        <5> QED
          BY <1>2, <1>8, <1>12, <5>1, <5>2 DEF Timely
      <4> QED
        BY <1>2, <1>9, <4>2, <4>3 DEF Settling
    <3>3. CASE j # k
      BY <1>4, <1>7, <1>8, <1>12, <3>1, <3>3 DEF Settling
    <3> QED
      BY <3>2, <3>3
  <2> QED
    BY <2>1, <2>2, <2>3 DEF Agrees
<1> QED
  BY <1>10, <1>11

\* A sync that starts on a map without one has each item newer or residual.
LEMMA StartSettles ==
  ASSUME NEW m \in Maps, ~m.syncing, Fresh(m), NEW k \in Keys
  PROVE  Settling(StartSync(m).items[k], serverItems[k], serverItems[k],
                  k \in StartSync(m).residual)
BY StartSyncItem DEF Settling, Fresh, NotNewer

\* A page that names the item u of a member settles it: the newer of x and u is kept, and
\* the member is no longer residual.
LEMMA NamedSettles ==
  ASSUME TypeOK,
         NEW x \in Items \union {None}, NEW s \in Items \union {None}, NEW u \in Items,
         Timely(x), Timely(s), EnteredItem(s), Timely(u), EnteredItem(u),
         NotNewer(x, s), NotNewer(u, s),
         NEW y, y = IF x = None \/ IsNewer(u, x) THEN u ELSE x
  PROVE  /\ Timely(y) /\ NotNewer(y, s)
         /\ Settling(x, s, u, TRUE) \/ Settling(x, s, u, FALSE) => Settling(y, s, None, FALSE)
<1>1. u # None /\ u.time \in Nat /\ u.time = u.serial /\ ~u.synthesized
  BY NoneIsNoItem DEF Items, Timely, EnteredItem
<1>2. x # None => x.time \in Nat /\ (x.synthesized \/ x.serial = x.time)
  BY DEF Items, Timely
<1>3. s # None => s.time \in Nat /\ s.time = s.serial /\ ~s.synthesized
  BY DEF Items, Timely, EnteredItem
<1>4. Timely(y) /\ NotNewer(y, s)
  BY DEF Timely, NotNewer
<1>5. ASSUME NEW residual \in BOOLEAN, Settling(x, s, u, residual) PROVE Settling(y, s, None, FALSE)
  <2>1. CASE s # None /\ x = s
    <3>1. x # None /\ (u = x \/ u.time < x.time)
      BY <1>1, <2>1 DEF NotNewer
    <3>2. y = s
      BY <1>1, <1>2, <1>3, <2>1, <3>1 DEF IsNewer
    <3> QED
      BY <2>1, <3>2 DEF Settling
  <2>2. CASE s # None /\ u = s /\ (x = None \/ x.time < s.time)
    <3>1. x # None => IsNewer(u, x)
      BY <1>2, <1>3, <2>2 DEF IsNewer
    <3>2. y = s
      BY <2>2, <3>1
    <3> QED
      BY <2>2, <3>2 DEF Settling
  <2>3. CASE s = None /\ x # None /\ x.action = "absent" /\ u.time < x.time
    <3>1. ~IsNewer(u, x)
      BY <1>1, <1>2, <2>3 DEF IsNewer
    <3> QED
      BY <2>3, <3>1 DEF Settling
  <2> QED
    BY <1>1, <1>5, <2>1, <2>2, <2>3 DEF Settling
<1> QED
  BY <1>4, <1>5, TRUE \in BOOLEAN, FALSE \in BOOLEAN

\* A page of a sync that names the members ks of those in left, as it finds the members m
\* (carried as c says) and leaves n, or the view w when it is the last.
PageArrives(ks, left, m, c, n, w) ==
  /\ ks \in SUBSET Keys /\ left \in ItemMaps /\ Page(ks, left)
  /\ \A k \in Keys :
       Timely(left[k]) /\ EnteredItem(left[k]) /\ NotNewer(left[k], serverItems[k])
  /\ m \in Maps /\ Fresh(m) /\ m.syncing /\ c \in BOOLEAN
  /\ ~c => \A k \in Keys : Settling(m.items[k], serverItems[k], left[k], k \in m.residual)
  /\ n \in Maps /\ n.syncing /\ n.residual = m.residual \ ks
  /\ \A k \in Keys : n.items[k] = IF k \in ks /\ PutAccepts(m, k, left[k])
                                   THEN [left[k] EXCEPT !.action = "present"]
                                   ELSE m.items[k]
  /\ w \in Views
  /\ w.members = IF ks = KeysOf(left) THEN EndSync(n) ELSE n
  /\ w.carried = c

\* A page of a sync, and the end of it.
LEMMA PageAgrees ==
  ASSUME TypeOK, ServerFresh, UNCHANGED <<serverItems, events>>,
         NEW ks, NEW left, NEW m, NEW c, NEW n, NEW w, PageArrives(ks, left, m, c, n, w)
  PROVE  Fresh(w.members)' /\ Agrees(w)'
<1> USE DEF PageArrives
<1> DEFINE s(k) == serverItems[k]
           x(k) == m.items[k]
<1>1. /\ \A k \in Keys : unsent'[k] = IF k \in ks THEN None ELSE left[k]
      /\ sending' = (ks # KeysOf(left))
      /\ \A k \in ks : left[k] \in Items
      /\ \A k \in Keys : k \notin KeysOf(left) => left[k] = None
  BY DEF Page, KeysOf, ItemMaps
<1>2. \A k \in Keys : x(k) \in Items \union {None} /\ s(k) \in Items \union {None}
  BY ItemsOfAMap DEF TypeOK, ItemMaps
<1>3. n \in Maps /\ n.syncing /\ n.residual = m.residual \ ks
  OBVIOUS
<1>4. ASSUME NEW k \in Keys
      PROVE  /\ n.items[k] \in Items \union {None}
             /\ Timely(n.items[k]) /\ NotNewer(n.items[k], s(k))
             /\ ~c => Settling(n.items[k], s(k), unsent'[k], k \in n.residual)
  <2>1. n.items[k] = IF k \in ks /\ PutAccepts(m, k, left[k])
                     THEN [left[k] EXCEPT !.action = "present"] ELSE x(k)
    OBVIOUS
  <2>2. Timely(x(k)) /\ NotNewer(x(k), s(k)) /\ Timely(s(k)) /\ EnteredItem(s(k))
    BY DEF Fresh, ServerFresh
  <2>3. n.items[k] \in Items \union {None}
    BY <1>3, ItemsOfAMap
  <2>4. CASE k \notin ks
    BY <1>1, <1>3, <2>1, <2>2, <2>3, <2>4
  <2>5. CASE k \in ks
    <3> DEFINE u == left[k]
               y == n.items[k]
    <3>1. u \in Items /\ Timely(u) /\ EnteredItem(u) /\ NotNewer(u, s(k))
      BY <1>1, <2>5
    <3>2. u.action = "present"
      BY <3>1, NoneIsNoItem DEF EnteredItem
    <3>3. [u EXCEPT !.action = "present"] = u
      BY <3>1, <3>2, PresentItem
    <3>4. y = IF x(k) = None \/ IsNewer(u, x(k)) THEN u ELSE x(k)
      BY <2>1, <2>5, <3>1, <3>3 DEF PutAccepts
    <3>5. k \notin n.residual /\ unsent'[k] = None
      BY <1>1, <1>3, <2>5
    <3>6. ~c => Settling(x(k), s(k), u, TRUE) \/ Settling(x(k), s(k), u, FALSE)
      BY DEF Settling
    <3>7. /\ Timely(y) /\ NotNewer(y, s(k))
          /\ Settling(x(k), s(k), u, TRUE) \/ Settling(x(k), s(k), u, FALSE)
               => Settling(y, s(k), None, FALSE)
      <4>1. x(k) \in Items \union {None} /\ s(k) \in Items \union {None}
        BY <1>2
      <4> HIDE DEF u, y, x, s
      <4> QED
        BY <2>2, <3>1, <3>4, <4>1, NamedSettles, Zenon
    <3>8. ~c => Settling(y, s(k), unsent'[k], k \in n.residual)
      <4>1. ~c => Settling(y, s(k), None, FALSE)
        BY <3>6, <3>7, Zenon
      <4> QED
        BY <3>5, <4>1 DEF Settling
    <3> QED
      BY <2>3, <3>7, <3>8 DEF y
  <2> QED
    BY <2>4, <2>5
<1>5. CASE ks # KeysOf(left)
  <2>1. w.members = n /\ w.carried = c /\ sending'
    BY <1>1, <1>5
  <2>2. Fresh(w.members)'
    BY <1>4, <2>1 DEF Fresh, Timely, NotNewer
  <2>3. Agrees(w)'
    <3>1. w.members.syncing \in BOOLEAN /\ sending' \in BOOLEAN
      BY <1>1, <1>3, <2>1 DEF Maps
    <3> QED
      BY <1>3, <1>4, <2>1, <3>1 DEF Agrees
  <2> QED
    BY <2>2, <2>3
<1>6. CASE ks = KeysOf(left)
  <2>1. w.members = EndSync(n) /\ w.carried = c /\ ~sending'
    BY <1>1, <1>6
  <2>2. ~w.members.syncing /\ w.members \in Maps
    BY <1>3, <2>1, EndSyncKeeps
  <2>3. ASSUME NEW k \in Keys
        PROVE  /\ w.members.items[k] = IF k \in n.residual \union Absent(n)
                                       THEN None ELSE n.items[k]
               /\ unsent'[k] = None
    BY <1>1, <1>3, <1>6, <2>1, EndSyncItem
  <2>4. Fresh(w.members)'
    BY <1>4, <2>3 DEF Fresh, Timely, NotNewer
  <2>5. ASSUME ~c, NEW k \in Keys PROVE w.members.items[k] = s(k)
    <3>1. Settling(n.items[k], s(k), None, k \in n.residual)
      BY <1>4, <2>3, <2>5
    <3>2. k \in Absent(n) <=> n.items[k] # None /\ n.items[k].action = "absent"
      BY DEF Absent
    <3>3. s(k) # None => s(k).action = "present"
      BY DEF ServerFresh, EnteredItem
    <3> QED
      BY <2>3, <3>1, <3>2, <3>3 DEF Settling
  <2>6. ~c => w.members.items = serverItems'
    BY <2>2, <2>5, SameItems DEF TypeOK, ItemMaps
  <2>7. Agrees(w)'
    <3>1. w.members.syncing \in BOOLEAN /\ sending' \in BOOLEAN
      BY <1>1, <2>2 DEF Maps
    <3> QED
      BY <2>1, <2>2, <2>6, <3>1 DEF Agrees
  <2> QED
    BY <2>4, <2>7
<1> QED
  BY <1>5, <1>6

\* The server answers an ATTACH.
LEMMA AttachAgrees ==
  ASSUME TypeOK, ServerFresh, ServerAttaches, NEW v \in Views, Fresh(v.members),
         NEW w \in Views, w = Receives(v, [type |-> "ATTACHED",
                                           hasPresence |-> serverItems # Nobody])
  PROVE  Fresh(w.members)' /\ Agrees(w)'
<1>1. v.members \in Maps
  BY DEF Views
<1>2. /\ sending' = (serverItems # Nobody) /\ unsent' = serverItems
      /\ UNCHANGED <<serverItems, events>>
  BY DEF ServerAttaches
<1>3. CASE serverItems # Nobody
  <2>1. w.members = StartSync(v.members) /\ w.carried = v.members.syncing
    BY <1>3 DEF Receives
  <2>2. w.members.syncing /\ w.members.items = v.members.items
    BY <1>1, <2>1, StartSyncKeeps, StartSyncItem
  <2>3. Fresh(w.members)'
    BY <1>2, <2>2 DEF Fresh, Timely, NotNewer
  <2>4. ASSUME ~w.carried, NEW k \in Keys
        PROVE  Settling(w.members.items[k], serverItems[k], serverItems[k],
                        k \in w.members.residual)
    BY <1>1, <2>1, <2>4, StartSettles
  <2> QED
    BY <1>2, <1>3, <2>2, <2>3, <2>4 DEF Agrees
<1>4. CASE serverItems = Nobody
  <2>1. w.members = EmptyMap /\ ~w.carried
    BY <1>4 DEF Receives
  <2>2. ~w.members.syncing /\ w.members.items = Nobody
    BY <2>1 DEF EmptyMap, Nobody
  <2>3. Fresh(w.members)'
    BY <2>2 DEF Fresh, Timely, NotNewer, Nobody
  <2>4. w.members.syncing = FALSE
    BY <2>1 DEF EmptyMap
  <2>5. sending' = FALSE
    BY <1>2, <1>4
  <2> QED
    BY <1>2, <1>4, <2>2, <2>3, <2>4, <2>5 DEF Agrees
<1> QED
  BY <1>3, <1>4

\* What is known stays no newer than the server's items when an event is added.
LEMMA EventKeepsFresh ==
  ASSUME TypeOK, NEW k \in Keys, NEW b \in BOOLEAN, MemberEnters(k) \/ MemberLeaves(k, b),
         NEW x \in Items \union {None}, NEW j \in Keys, Timely(x), NotNewer(x, serverItems[j])
  PROVE  (Timely(x) /\ NotNewer(x, serverItems[j]))'
<1>1. events' = events + 1 /\ events \in Nat
  BY DEF MemberEnters, MemberLeaves, TypeOK
<1>2. x # None => x.time \in Nat
  BY DEF Items
<1>3. NewItem(FALSE).time = events + 1
  BY DEF NewItem
<1>4. serverItems'[j] \in {serverItems[j], NewItem(FALSE), None}
  BY DEF MemberEnters, MemberLeaves, TypeOK, ItemMaps
<1>5. Timely(x)'
  BY <1>1, <1>2 DEF Timely
<1>6. x # None => x.time < events + 1
  BY <1>1, <1>2 DEF Timely
<1>7. NotNewer(x, serverItems[j])'
  <2>1. CASE serverItems'[j] = NewItem(FALSE)
    BY <1>3, <1>6, <2>1 DEF NotNewer
  <2>2. CASE serverItems'[j] \in {serverItems[j], None}
    BY <2>2 DEF NotNewer
  <2> QED
    BY <1>4, <2>1, <2>2
<1> QED
  BY <1>5, <1>7

\* Where the wire and what the client knows stay, so does what they foretell.
LEMMA ForetoldStays ==
  ASSUME NEW run \in [0..Len(toClient) -> Views], Foretells(run),
         UNCHANGED <<members, carried, toClient>>,
         \A i \in 0..Len(toClient) : Fresh(run[i].members)',
         serverAttached' => Agrees(run[Len(toClient)])'
  PROVE  (\E views \in [0..Len(toClient) -> Views] : Foretells(views))'
<1>1. run \in [0..Len(toClient') -> Views]
  OBVIOUS
<1>2. Foretells(run)'
  BY DEF Foretells
<1> QED
  BY <1>1, <1>2

\* A message that is sent makes one more view.
LEMMA OneMoreForetold ==
  ASSUME TypeOK, NEW run \in [0..Len(toClient) -> Views], Foretells(run),
         NEW message \in Messages, toClient' = Append(toClient, message),
         UNCHANGED <<members, carried>>,
         NEW w \in Views, w = Receives(run[Len(toClient)], message),
         \A i \in 0..Len(toClient) : Fresh(run[i].members)',
         Fresh(w.members)', serverAttached' => Agrees(w)'
  PROVE  (\E views \in [0..Len(toClient) -> Views] : Foretells(views))'
<1>0. PICK n \in Nat : n = Len(toClient)
  BY LenProperties DEF TypeOK
<1>1. n \in Nat /\ n = Len(toClient) /\ toClient \in Seq(Messages)
  BY <1>0 DEF TypeOK
<1>2. Len(toClient') = n + 1
  BY <1>1, AppendProperties
<1>3. \A i \in 1..(n + 1) : toClient'[i] = IF i = n + 1 THEN message ELSE toClient[i]
  BY <1>1, AppendProperties
<1>4. PICK more \in [0..(n + 1) -> Views] :
        more[n + 1] = w /\ \A i \in 0..n : more[i] = run[i]
  <2> DEFINE longer == [i \in 0..(n + 1) |-> IF i = n + 1 THEN w ELSE run[i]]
  <2>1. \A i \in 0..(n + 1) : i # n + 1 => i \in 0..n
    OBVIOUS
  <2>2. longer \in [0..(n + 1) -> Views]
    BY <1>1, <2>1
  <2>3. longer[n + 1] = w /\ \A i \in 0..n : longer[i] = run[i]
    OBVIOUS
  <2> QED
    BY <2>2, <2>3
<1>5. more[0] = [members |-> members', carried |-> carried']
  BY <1>1, <1>4 DEF Foretells
<1>6. ASSUME NEW i \in 1..Len(toClient') PROVE more[i] = Receives(more[i - 1], toClient'[i])
  <2>1. CASE i = n + 1
    <3>1. i - 1 \in 0..n /\ i - 1 = n
      BY <2>1
    <3> QED
      BY <1>1, <1>3, <1>4, <2>1, <3>1
  <2>2. CASE i # n + 1
    <3>1. i \in 1..n /\ i \in 0..n /\ i - 1 \in 0..n
      BY <1>1, <1>2, <2>2
    <3>2. run[i] = Receives(run[i - 1], toClient[i])
      BY <1>1, <3>1 DEF Foretells
    <3> QED
      BY <1>1, <1>2, <1>3, <1>4, <2>2, <3>1, <3>2
  <2> QED
    BY <2>1, <2>2
<1>7. ASSUME NEW i \in 0..Len(toClient') PROVE Fresh(more[i].members)'
  <2>1. i = n + 1 \/ i \in 0..n
    BY <1>1, <1>2
  <2>2. ASSUME i \in 0..n PROVE Fresh(more[i].members)'
    BY <1>1, <1>4, <2>2
  <2>3. ASSUME i = n + 1 PROVE Fresh(more[i].members)'
    BY <1>4, <2>3
  <2> QED
    BY <2>1, <2>2, <2>3
<1>8. serverAttached' => Agrees(more[n + 1])'
  BY <1>4
<1>9. Foretells(more)'
  BY <1>2, <1>5, <1>6, <1>7, <1>8 DEF Foretells
<1> QED
  BY <1>2, <1>4, <1>9

\* A message that arrives makes the first view.
LEMMA OneLessForetold ==
  ASSUME TypeOK, NEW run \in [0..Len(toClient) -> Views], Foretells(run), OnMessage
  PROVE  (\E views \in [0..Len(toClient) -> Views] : Foretells(views))'
<1>0. PICK n \in Nat : n = Len(toClient)
  BY LenProperties DEF TypeOK
<1>1. toClient \in Seq(Messages) /\ toClient # <<>> /\ toClient' = Tail(toClient)
      /\ UNCHANGED server
  BY DEF TypeOK, OnMessage
<1>2. n = Len(toClient) /\ n >= 1 /\ Len(toClient') = n - 1 /\ Head(toClient) = toClient[1]
  BY <1>0, <1>1, HeadTailProperties, LenProperties, EmptySeq
<1>3. \A i \in 1..(n - 1) : toClient'[i] = toClient[i + 1]
  BY <1>1, <1>2, HeadTailProperties
<1>4. run[1] = Receives(run[0], toClient[1]) /\ run[0] = [members |-> members, carried |-> carried]
  BY <1>2 DEF Foretells
<1>5. run[1] = [members |-> members', carried |-> carried']
  BY <1>2, <1>4, MessageReceived
<1>6. PICK rest \in [0..(n - 1) -> Views] : \A i \in 0..(n - 1) : rest[i] = run[i + 1]
  <2> DEFINE shorter == [i \in 0..(n - 1) |-> run[i + 1]]
  <2>1. \A i \in 0..(n - 1) : run[i + 1] \in Views
    BY <1>2
  <2>2. shorter \in [0..(n - 1) -> Views] /\ \A i \in 0..(n - 1) : shorter[i] = run[i + 1]
    BY <2>1
  <2> QED
    BY <2>2
<1>7. rest[0] = [members |-> members', carried |-> carried']
  BY <1>2, <1>5, <1>6
<1>8. ASSUME NEW i \in 1..(n - 1) PROVE rest[i] = Receives(rest[i - 1], toClient'[i])
  <2>1. i \in 0..(n - 1) /\ i - 1 \in 0..(n - 1) /\ i + 1 \in 1..n /\ (i - 1) + 1 = i
        /\ (i + 1) - 1 = i
    BY <1>2
  <2>2. run[i + 1] = Receives(run[(i + 1) - 1], toClient[i + 1])
    BY <1>2, <2>1 DEF Foretells
  <2>3. rest[i] = run[i + 1] /\ rest[i - 1] = run[i] /\ toClient'[i] = toClient[i + 1]
    BY <1>3, <1>6, <2>1
  <2> QED
    BY <2>1, <2>2, <2>3
<1>9. ASSUME NEW i \in 0..(n - 1) PROVE Fresh(rest[i].members)'
  <2>1. i + 1 \in 0..n /\ rest[i] = run[i + 1]
    BY <1>2, <1>6
  <2>2. Fresh(run[i + 1].members)
    BY <1>2, <2>1 DEF Foretells
  <2> QED
    BY <1>1, <2>1, <2>2 DEF Fresh, Timely, NotNewer, server
<1>10. serverAttached' => Agrees(rest[n - 1])'
  <2>1. rest[n - 1] = run[n]
    BY <1>2, <1>6
  <2>2. serverAttached => Agrees(run[n])
    BY <1>2 DEF Foretells
  <2> QED
    BY <1>1, <2>1, <2>2 DEF Agrees, server
<1>11. Foretells(rest)'
  BY <1>2, <1>7, <1>8, <1>9, <1>10 DEF Foretells
<1> QED
  BY <1>2, <1>6, <1>11

\* A wire that is cut foretells what the client has.
LEMMA CutForetold ==
  ASSUME TypeOK, toClient' = <<>>, ~serverAttached', members' \in Maps, carried' \in BOOLEAN,
         Fresh(members)'
  PROVE  (\E views \in [0..Len(toClient) -> Views] : Foretells(views))'
<1>1. PICK v \in Views : v = [members |-> members', carried |-> carried']
  BY DEF Views
<1>2. Len(toClient') = 0
  BY EmptySeq
<1>3. PICK one \in [0..0 -> Views] : one[0] = v
  <2> DEFINE f == [i \in 0..0 |-> v]
  <2>1. f \in [0..0 -> Views] /\ f[0] = v
    BY <1>1
  <2> QED
    BY <2>1
<1>4. v.members = members'
  BY <1>1
<1>5. Fresh(v.members)'
  BY <1>4 DEF Fresh
<1>6. \A i \in 0..Len(toClient') : Fresh(one[i].members)'
  BY <1>2, <1>3, <1>5
<1>7. Foretells(one)'
  BY <1>1, <1>2, <1>3, <1>6 DEF Foretells
<1> QED
  BY <1>2, <1>3, <1>7

\* The steps of the server.
LEMMA MemberConverges ==
  ASSUME TypeOK, Converging, NEW k \in Keys, NEW b \in BOOLEAN,
         MemberEnters(k) \/ MemberLeaves(k, b)
  PROVE  Converging'
<1>1. PICK run \in [0..Len(toClient) -> Views] : Foretells(run)
  BY DEF Converging
<1>2. ServerFresh
  BY DEF Converging
<1>3. /\ UNCHANGED <<members, carried, serverAttached, sending>>
      /\ events' = events + 1 /\ events \in Nat
  BY DEF MemberEnters, MemberLeaves, client, TypeOK
<1>4. ASSUME NEW x \in Items \union {None}, NEW j \in Keys, Timely(x), NotNewer(x, serverItems[j])
      PROVE  Timely(x)' /\ NotNewer(x, serverItems[j])'
  BY <1>4, EventKeepsFresh
<1>5. \A i \in 0..Len(toClient) : Fresh(run[i].members)'
  <2> SUFFICES ASSUME NEW i \in 0..Len(toClient), NEW j \in Keys
               PROVE  (/\ Timely(run[i].members.items[j])
                       /\ NotNewer(run[i].members.items[j], serverItems[j]))'
    BY DEF Fresh
  <2>1. run[i] \in Views
    OBVIOUS
  <2>2. run[i].members \in Maps
    BY <2>1 DEF Views
  <2>3. run[i].members.items[j] \in Items \union {None}
    BY <2>2, ItemsOfAMap
  <2>4. Fresh(run[i].members)
    BY <1>1 DEF Foretells
  <2>5. /\ Timely(run[i].members.items[j])
        /\ NotNewer(run[i].members.items[j], serverItems[j])
    BY <2>4 DEF Fresh
  <2> QED
    BY <1>4, <2>3, <2>5
<1>6. ServerFresh'
  <2> SUFFICES ASSUME NEW j \in Keys
               PROVE  (/\ Timely(serverItems[j]) /\ EnteredItem(serverItems[j])
                       /\ Timely(unsent[j]) /\ EnteredItem(unsent[j])
                       /\ NotNewer(unsent[j], serverItems[j])
                       /\ ~sending => unsent[j] = None)'
    BY DEF ServerFresh
  <2>1. /\ Timely(serverItems[j]) /\ EnteredItem(serverItems[j])
        /\ Timely(unsent[j]) /\ EnteredItem(unsent[j])
        /\ NotNewer(unsent[j], serverItems[j])
        /\ ~sending => unsent[j] = None
    BY <1>2 DEF ServerFresh
  <2>2. /\ serverItems[j] \in Items \union {None} /\ unsent[j] \in Items \union {None}
    BY DEF TypeOK, ItemMaps
  <2>3. NotNewer(serverItems[j], serverItems[j])
    BY DEF NotNewer
  <2>4. /\ Timely(serverItems[j])' \/ serverItems'[j] # serverItems[j]
        /\ (Timely(unsent[j]) /\ NotNewer(unsent[j], serverItems[j]))' \/ unsent'[j] # unsent[j]
    <3>1. PICK x \in Items \union {None} : x = serverItems[j]
      BY <2>2
    <3>2. PICK u \in Items \union {None} : u = unsent[j]
      BY <2>2
    <3>3. Timely(x)' /\ Timely(u)' /\ NotNewer(u, serverItems[j])'
      BY <1>4, <2>1, <2>3, <3>1, <3>2
    <3> QED
      BY <3>1, <3>2, <3>3 DEF Timely, NotNewer
  <2>5. serverItems'[j] \in {serverItems[j], NewItem(FALSE), None}
    BY DEF MemberEnters, MemberLeaves, TypeOK, ItemMaps
  <2>6. unsent'[j] \in {unsent[j], None}
    BY DEF MemberEnters, MemberLeaves, TypeOK, ItemMaps
  <2>7. /\ NewItem(FALSE).action = "present" /\ NewItem(FALSE).synthesized = FALSE
        /\ NewItem(FALSE).serial = events + 1 /\ NewItem(FALSE).time = events + 1
    BY DEF NewItem
  <2>8. Timely(serverItems[j])' /\ EnteredItem(serverItems[j])'
    <3>1. CASE serverItems'[j] \in {serverItems[j], None}
      BY <2>1, <2>4, <3>1 DEF Timely, EnteredItem
    <3>2. CASE serverItems'[j] = NewItem(FALSE)
      BY <1>3, <2>7, <3>2 DEF Timely, EnteredItem
    <3> QED
      BY <2>5, <3>1, <3>2
  <2>9. /\ Timely(unsent[j])' /\ EnteredItem(unsent[j])'
        /\ NotNewer(unsent[j], serverItems[j])'
        /\ (~sending => unsent[j] = None)'
    BY <1>3, <2>1, <2>4, <2>6 DEF Timely, EnteredItem, NotNewer
  <2> QED
    BY <2>8, <2>9
<1>7. CASE ~serverAttached
  <2>1. toClient' = toClient /\ ~serverAttached'
    BY <1>3, <1>7 DEF MemberEnters, MemberLeaves, Sends
  <2>2. (\E views \in [0..Len(toClient) -> Views] : Foretells(views))'
    BY <1>1, <1>3, <1>5, <2>1, ForetoldStays
  <2> QED
    BY <1>3, <1>6, <1>7, <2>1, <2>2 DEF Converging
<1>8. CASE serverAttached
  <2>1. PICK v \in Views : v = run[Len(toClient)]
    BY LenProperties DEF TypeOK
  <2>2. Fresh(v.members) /\ Agrees(v)
    BY <1>1, <1>8, <2>1, LenProperties DEF Foretells, TypeOK
  <2>3. \A c \in BOOLEAN : NewItem(c) \in Items
    BY DEF NewItem, Items, TypeOK
  <2>4. \E message \in Messages, w \in Views :
          /\ toClient' = Append(toClient, message) /\ w = Receives(v, message)
          /\ Fresh(w.members)' /\ Agrees(w)'
    <3>1. ASSUME MemberEnters(k)
          PROVE  \E message \in Messages, w \in Views :
                   /\ toClient' = Append(toClient, message) /\ w = Receives(v, message)
                   /\ Fresh(w.members)' /\ Agrees(w)'
      <4>1. PICK message : message = [type |-> "PRESENCE", leave |-> FALSE, key |-> k,
                                      item |-> NewItem(FALSE)]
        OBVIOUS
      <4>2. message \in Messages
        BY <2>3, <4>1 DEF Messages
      <4>3. PICK w \in Views : w = Receives(v, message)
        BY <4>2, ReceivesType
      <4>4. Fresh(w.members)' /\ (Agrees(v) => Agrees(w)')
        BY <1>2, <2>2, <3>1, <4>1, <4>3, EnterAgrees
      <4>5. toClient' = Append(toClient, message)
        BY <1>8, <3>1, <4>1 DEF MemberEnters, Sends
      <4> QED
        BY <2>2, <4>2, <4>3, <4>4, <4>5
    <3>2. ASSUME MemberLeaves(k, b)
          PROVE  \E message \in Messages, w \in Views :
                   /\ toClient' = Append(toClient, message) /\ w = Receives(v, message)
                   /\ Fresh(w.members)' /\ Agrees(w)'
      <4>1. PICK message : message = [type |-> "PRESENCE", leave |-> TRUE, key |-> k,
                                      item |-> NewItem(b)]
        OBVIOUS
      <4>2. message \in Messages
        BY <2>3, <4>1 DEF Messages
      <4>3. PICK w \in Views : w = Receives(v, message)
        BY <4>2, ReceivesType
      <4>4. Fresh(w.members)' /\ (Agrees(v) => Agrees(w)')
        BY <1>2, <2>2, <3>2, <4>1, <4>3, LeaveAgrees
      <4>5. toClient' = Append(toClient, message)
        BY <1>8, <3>2, <4>1 DEF MemberLeaves, Sends
      <4> QED
        BY <2>2, <4>2, <4>3, <4>4, <4>5
    <3> QED
      BY <3>1, <3>2
  <2>5. (\E views \in [0..Len(toClient) -> Views] : Foretells(views))'
    BY <1>1, <1>3, <1>5, <2>1, <2>4, OneMoreForetold
  <2> QED
    BY <1>3, <1>6, <1>8, <2>5 DEF Converging
<1> QED
  BY <1>7, <1>8

\* The answer to an ATTACH starts the sync that settles every member.
LEMMA AttachConverges ==
  ASSUME TypeOK, Converging, ServerAttaches
  PROVE  Converging'
<1>1. PICK run \in [0..Len(toClient) -> Views] : Foretells(run)
  BY DEF Converging
<1>2. ServerFresh /\ toClient = <<>> /\ Len(toClient) = 0
  BY EmptySeq DEF Converging, ServerAttaches
<1>3. PICK v \in Views : v = run[0]
  BY <1>2
<1>4. Fresh(v.members)
  BY <1>1, <1>2, <1>3 DEF Foretells
<1>5. PICK message : message = [type |-> "ATTACHED", hasPresence |-> serverItems # Nobody]
  OBVIOUS
<1>6. message \in Messages /\ toClient' = Append(toClient, message)
  BY <1>5 DEF Messages, ServerAttaches
<1>7. PICK w \in Views : w = Receives(v, message)
  BY <1>6, ReceivesType
<1>8. Fresh(w.members)' /\ Agrees(w)'
  BY <1>2, <1>4, <1>5, <1>7, AttachAgrees
<1>9. /\ UNCHANGED <<members, carried, serverItems, events>>
      /\ serverAttached' /\ unsent' = serverItems /\ sending' = (serverItems # Nobody)
  BY DEF ServerAttaches, client
<1>10. \A i \in 0..Len(toClient) : Fresh(run[i].members)'
  BY <1>1, <1>9 DEF Foretells, Fresh, Timely, NotNewer
<1>11. (\E views \in [0..Len(toClient) -> Views] : Foretells(views))'
  <2>1. w = Receives(run[Len(toClient)], message)
    BY <1>2, <1>3, <1>7
  <2> QED
    BY <1>1, <1>6, <1>8, <1>9, <1>10, <2>1, OneMoreForetold
<1>12. ServerFresh'
  <2>1. \A k \in Keys : serverItems = Nobody => serverItems[k] = None
    BY DEF Nobody
  <2> QED
    BY <1>2, <1>9, <2>1 DEF ServerFresh, Timely, EnteredItem, NotNewer
<1> QED
  BY <1>9, <1>11, <1>12 DEF Converging

\* A page settles the members it names, the last page all of them.
LEMMA PageConverges ==
  ASSUME TypeOK, Converging, NEW ks \in SUBSET Keys, ServerSendsPage(ks) \/ ServerResyncs(ks)
  PROVE  Converging'
<1>1. PICK run \in [0..Len(toClient) -> Views] : Foretells(run)
  BY DEF Converging
<1>2. /\ ServerFresh
      /\ UNCHANGED <<members, carried, serverAttached, serverItems, events>>
      /\ serverAttached
  BY DEF Converging, ServerSendsPage, ServerResyncs, client
<1>3. PICK left \in ItemMaps :
        Page(ks, left) /\ ((sending /\ left = unsent) \/ (~sending /\ left = serverItems))
  BY DEF ServerSendsPage, ServerResyncs, TypeOK
<1>4. \A k \in Keys : Timely(left[k]) /\ EnteredItem(left[k]) /\ NotNewer(left[k], serverItems[k])
  BY <1>2, <1>3 DEF ServerFresh, NotNewer
<1>5. PICK v \in Views : v = run[Len(toClient)]
  BY LenProperties DEF TypeOK
<1>6. Fresh(v.members) /\ Agrees(v) /\ v.members \in Maps /\ v.carried \in BOOLEAN
  BY <1>1, <1>2, <1>5, LenProperties DEF Foretells, TypeOK, Views
<1>7. PICK item : item = [k \in Keys |-> IF k \in ks THEN left[k] ELSE None]
  OBVIOUS
<1>8. PICK message : message = [type |-> "SYNC", keys |-> ks, last |-> ks = KeysOf(left),
                                item |-> item]
  OBVIOUS
<1>9. toClient' = Append(toClient, message)
  BY <1>3, <1>7, <1>8 DEF Page
<1>10. \A k \in ks : left[k] \in Items /\ item[k] = left[k]
  BY <1>3, <1>7 DEF Page, KeysOf, ItemMaps
<1>11. message \in Messages
  <2>1. item \in ItemMaps
    BY <1>7, <1>10 DEF ItemMaps
  <2> QED
    BY <1>8, <1>10, <2>1 DEF Messages
<1>12. PICK w \in Views : w = Receives(v, message)
  BY <1>11, ReceivesType
<1>13. PICK m \in Maps : m = StartSync(v.members)
  BY <1>6, StartSyncKeeps
<1>14. /\ m.syncing /\ m.items = v.members.items
       /\ v.members.syncing => m = v.members
  BY <1>6, <1>13, StartSyncKeeps, StartSyncItem DEF StartSync
<1>15. PICK c \in BOOLEAN : c = (v.members.syncing /\ v.carried)
  OBVIOUS
<1>16. ~c => \A k \in Keys : Settling(m.items[k], serverItems[k], left[k], k \in m.residual)
  <2>1. CASE sending
    BY <1>3, <1>6, <1>14, <1>15, <2>1 DEF Agrees
  <2>2. CASE ~sending
    <3>1. ~v.members.syncing
      BY <1>6, <2>2 DEF Agrees
    <3> QED
      BY <1>3, <1>6, <1>13, <2>2, <3>1, StartSettles
  <2> QED
    BY <2>1, <2>2
<1>17. PICK n \in Maps : n = Put(m, ks, item)
  <2>1. Put(m, ks, item) \in Maps
    BY <1>10, PutKeeps
  <2> QED
    BY <2>1
<1>18. n.syncing /\ n.residual = m.residual \ ks
  BY <1>14, <1>17 DEF Put
<1>19. \A k \in Keys : n.items[k] = IF k \in ks /\ PutAccepts(m, k, left[k])
                                    THEN [left[k] EXCEPT !.action = "present"]
                                    ELSE m.items[k]
  BY <1>10, <1>17 DEF Put
<1>20. /\ w.members = IF ks = KeysOf(left) THEN EndSync(n) ELSE n
       /\ w.carried = c
  BY <1>6, <1>8, <1>12, <1>13, <1>15, <1>17 DEF Receives
<1>21. Fresh(m)
  BY <1>6, <1>14 DEF Fresh
<1>22. Fresh(w.members)' /\ Agrees(w)'
  <2>1. PageArrives(ks, left, m, c, n, w)
    BY <1>3, <1>4, <1>14, <1>16, <1>18, <1>19, <1>20, <1>21 DEF PageArrives
  <2> QED
    BY <1>2, <2>1, PageAgrees
<1>23. \A i \in 0..Len(toClient) : Fresh(run[i].members)'
  BY <1>1, <1>2 DEF Foretells, Fresh, Timely, NotNewer
<1>24. (\E views \in [0..Len(toClient) -> Views] : Foretells(views))'
  <2>1. w = Receives(run[Len(toClient)], message)
    BY <1>5, <1>12
  <2> QED
    BY <1>1, <1>2, <1>9, <1>11, <1>22, <1>23, <2>1, OneMoreForetold
<1>25. ServerFresh'
  <2>1. /\ \A k \in Keys : unsent'[k] = IF k \in ks THEN None ELSE left[k]
        /\ sending' = (ks # KeysOf(left))
        /\ \A k \in Keys : k \notin KeysOf(left) => left[k] = None
    BY <1>3 DEF Page, KeysOf
  <2> QED
    BY <1>2, <1>4, <2>1, ZenonT(60) DEF ServerFresh, Timely, EnteredItem, NotNewer
<1> QED
  BY <1>2, <1>24, <1>25 DEF Converging

\* What the client receives, and what becomes of the channel.
LEMMA ClientConverges ==
  ASSUME TypeOK, TypeOK', Converging,
         OnMessage \/ Reattach \/ Suspend \/ Detach \/ Attach \/ GetWaits \/ UNCHANGED vars
  PROVE  Converging'
<1>1. PICK run \in [0..Len(toClient) -> Views] : Foretells(run)
  BY DEF Converging
<1>2. ServerFresh /\ (~serverAttached => toClient = <<>> /\ ~sending)
  BY DEF Converging
<1>3. CASE OnMessage
  <2>1. (\E views \in [0..Len(toClient) -> Views] : Foretells(views))'
    BY <1>1, <1>3, OneLessForetold
  <2>2. UNCHANGED server /\ toClient # <<>>
    BY <1>3 DEF OnMessage
  <2>3. ServerFresh'
    BY <1>2, <2>2 DEF ServerFresh, Timely, EnteredItem, NotNewer, server
  <2> QED
    BY <1>2, <2>1, <2>2, <2>3 DEF Converging, server
<1>4. CASE Reattach \/ Suspend \/ Detach
  <2>1. /\ serverAttached' = FALSE /\ sending' = FALSE /\ unsent' = Nobody
        /\ toClient' = <<>> /\ UNCHANGED <<serverItems, events>>
    BY <1>4 DEF Reattach, Suspend, Detach, ServerForgets
  <2>2. ServerFresh'
    BY <1>2, <2>1 DEF ServerFresh, Timely, EnteredItem, NotNewer, Nobody
  <2>3. Fresh(members)'
    <3>1. CASE Reattach \/ Suspend
      <4>1. members' = members
        BY <3>1 DEF Reattach, Suspend
      <4>2. Fresh(run[0].members) /\ run[0].members = members
        BY <1>1, LenProperties DEF Foretells, TypeOK
      <4> QED
        BY <2>1, <4>1, <4>2 DEF Fresh, Timely, NotNewer
    <3>2. CASE Detach
      <4>1. \A k \in Keys : members'.items[k] = None
        BY <3>2 DEF Detach, EmptyMap
      <4> QED
        BY <4>1 DEF Fresh, Timely, NotNewer
    <3> QED
      BY <1>4, <3>1, <3>2
  <2>4. members' \in Maps /\ carried' \in BOOLEAN
    BY DEF TypeOK
  <2>5. (\E views \in [0..Len(toClient) -> Views] : Foretells(views))'
    BY <2>1, <2>3, <2>4, CutForetold
  <2> QED
    BY <2>1, <2>2, <2>5 DEF Converging
<1>5. CASE Attach \/ GetWaits \/ UNCHANGED vars
  <2>1. UNCHANGED <<members, carried, toClient, serverAttached, serverItems, sending, unsent,
                  events>>
    BY <1>5 DEF Attach, GetWaits, vars, server
  <2>2. ServerFresh'
    BY <1>2, <2>1 DEF ServerFresh, Timely, EnteredItem, NotNewer
  <2>3. \A i \in 0..Len(toClient) : Fresh(run[i].members)'
    BY <1>1, <2>1 DEF Foretells, Fresh, Timely, NotNewer
  <2>4. serverAttached' => Agrees(run[Len(toClient)])'
    BY <1>1, <2>1 DEF Foretells, Agrees
  <2>5. (\E views \in [0..Len(toClient) -> Views] : Foretells(views))'
    BY <1>1, <2>1, <2>3, <2>4, ForetoldStays
  <2> QED
    BY <1>2, <2>1, <2>2, <2>5 DEF Converging
<1> QED
  BY <1>3, <1>4, <1>5

\* The initial states satisfy the invariant.
LEMMA ConvergingInit == Init => Converging
<1> SUFFICES ASSUME Init PROVE Converging
  OBVIOUS
<1>1. PICK v \in Views : v = [members |-> members, carried |-> carried]
  BY EmptyMapIsEmpty DEF Init, Views
<1>2. PICK one \in [0..0 -> Views] : one[0] = v
  <2> DEFINE f == [i \in 0..0 |-> v]
  <2>1. f \in [0..0 -> Views] /\ f[0] = v
    OBVIOUS
  <2> QED
    BY <2>1
<1>3. toClient = <<>> /\ Len(toClient) = 0 /\ serverAttached = FALSE
  BY EmptySeq DEF Init
<1>4. \A i \in 0..0 : Fresh(one[i].members)
  <2>1. \A k \in Keys : members.items[k] = None
    BY DEF Init, EmptyMap
  <2>2. one[0].members = members
    BY <1>1, <1>2
  <2>3. Fresh(members)
    BY <2>1 DEF Fresh, Timely, NotNewer
  <2> QED
    BY <2>2, <2>3
<1>5. Foretells(one)
  BY <1>1, <1>2, <1>3, <1>4 DEF Foretells
<1>6. ServerFresh
  BY DEF Init, Nobody, ServerFresh, Timely, EnteredItem, NotNewer
<1> QED
  BY <1>2, <1>3, <1>5, <1>6 DEF Init, Converging

\* Every step keeps the invariant.
LEMMA ConvergingKept == TypeOK /\ TypeOK' /\ Converging /\ [Next]_vars => Converging'
<1> SUFFICES ASSUME TypeOK, TypeOK', Converging, [Next]_vars PROVE Converging'
  OBVIOUS
<1>1. CASE \E k \in Keys : MemberEnters(k)
  BY <1>1, MemberConverges, FALSE \in BOOLEAN
<1>2. CASE \E k \in Keys, b \in BOOLEAN : MemberLeaves(k, b)
  BY <1>2, MemberConverges
<1>3. CASE ServerAttaches
  BY <1>3, AttachConverges
<1>4. CASE \E ks \in SUBSET Keys : ServerSendsPage(ks) \/ ServerResyncs(ks)
  BY <1>4, PageConverges
<1>5. CASE OnMessage \/ Reattach \/ Suspend \/ Detach \/ Attach \/ GetWaits \/ UNCHANGED vars
  BY <1>5, ClientConverges
<1> QED
  BY <1>1, <1>2, <1>3, <1>4, <1>5 DEF Next

\* When all has arrived and the sync has ended, the client has the members of the server
\* with their latest data, whatever passed the pages of the sync.
THEOREM MembersConverge == Spec => []MembersAreTheServers
<1>1. TypeOK /\ Converging => MembersAreTheServers
  <2> SUFFICES ASSUME TypeOK, Converging, Quiet, ~carried
               PROVE  ~members.syncing /\ members.items = serverItems
    BY DEF MembersAreTheServers
  <2>1. PICK run \in [0..Len(toClient) -> Views] : Foretells(run)
    BY DEF Converging
  <2>2. Len(toClient) = 0 /\ serverAttached /\ ~sending
    BY EmptySeq DEF Quiet
  <2>3. run[0] = [members |-> members, carried |-> carried] /\ Agrees(run[0])
    BY <2>1, <2>2 DEF Foretells
  <2>4. run[0].members = members /\ run[0].carried = carried
    BY <2>3
  <2> QED
    BY <2>2, <2>3, <2>4 DEF Agrees
<1>2. Init => Converging
  BY ConvergingInit
<1>3. TypeOK /\ TypeOK' /\ Converging /\ [Next]_vars => Converging'
  BY ConvergingKept
<1> QED
  BY <1>1, <1>2, <1>3, PresenceTypeCorrect, PTL DEF Spec
=============================================================================
