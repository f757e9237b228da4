----------------------------- MODULE PresenceSync -----------------------------
(***************************************************************************)
(* The members of a channel as one client sees them (realtime/presence.py  *)
(* with the presence map): PRESENCE messages, syncs in several pages, what *)
(* ATTACHED, SUSPENDED and DETACHED do to the map, and calls of get() that *)
(* wait for a sync.                                                        *)
(*                                                                         *)
(* The server is external.  It sends PRESENCE messages as they happen, and *)
(* a sync names the members there were when it started, in pages between   *)
(* which PRESENCE messages may pass.                                       *)
(***************************************************************************)
EXTENDS PresenceMap, Sequences

CONSTANTS
  MaxEvents,    \* bound: enters, updates and leaves of the members
  MaxInFlight,  \* bound: messages under way when the server sends one of its own accord
  Disruptions   \* what disturbs this instance

AllDisruptions ==
  {"cut",       \* the connection is lost while a sync is in progress
   "lost",      \* ... or at other times
   "suspended", \* the channel is SUSPENDED
   "detached",  \* the channel is DETACHED or FAILED
   "crash",     \* a member disappears, and the server synthesizes its leave
   "stale",     \* a page names a member that has left since the sync started
   "resync"}    \* the server starts a sync of its own accord

ASSUME ConstantsAssumption ==
  MaxEvents \in Nat /\ MaxInFlight \in Nat /\ Disruptions \subseteq AllDisruptions

VARIABLES
  channel,       \* the state of the channel
  members,       \* RealtimePresence.members
  syncComplete,  \* .sync_complete
  getting,       \* a call of get() waits for the sync
  view,          \* history: the members a subscriber gathers from the events emitted
  carried,       \* history: the sync in progress or the last one began over another, or
                 \* has met the LEAVE of a member it had not named
  serverAttached,  \* the server sends this client the channel's messages
  serverItems,     \* the members of the channel at the server
  sending,         \* the server is sending a sync
  unsent,          \* ... and has yet to name these items
  events,          \* how many there have been
  toClient         \* messages on the wire

vars == <<channel, members, syncComplete, getting, view, carried,
          serverAttached, serverItems, sending, unsent, events, toClient>>
client == <<channel, members, syncComplete, getting, view, carried>>
server == <<serverAttached, serverItems, sending, unsent, events>>

ItemMaps == [Keys -> Items \union {None}]
Messages ==
  [type : {"ATTACHED"}, hasPresence : BOOLEAN]
    \union [type : {"PRESENCE"}, leave : BOOLEAN, key : Keys, item : Items]
    \union {m \in [type : {"SYNC"}, keys : SUBSET Keys, item : ItemMaps, last : BOOLEAN] :
              \A k \in m.keys : m.item[k] \in Items}

TypeOK ==
  /\ channel \in {"attaching", "attached", "suspended", "detached"}
  /\ members \in Maps
  /\ syncComplete \in BOOLEAN /\ getting \in BOOLEAN /\ carried \in BOOLEAN
  /\ view \subseteq Keys
  /\ serverAttached \in BOOLEAN /\ sending \in BOOLEAN
  /\ serverItems \in ItemMaps /\ unsent \in ItemMaps
  /\ events \in Nat
  /\ toClient \in Seq(Messages)

Nobody == [k \in Keys |-> None]
KeysOf(item) == {k \in Keys : item[k] # None}

Init ==
  /\ channel = "detached"
  /\ members = EmptyMap
  /\ syncComplete = FALSE /\ getting = FALSE
  /\ view = {} /\ carried = FALSE
  /\ serverAttached = FALSE
  /\ serverItems = Nobody
  /\ sending = FALSE /\ unsent = Nobody
  /\ events = 0
  /\ toClient = <<>>

-----------------------------------------------------------------------------
(* The server.                                                             *)

Sends(m) == toClient' = IF serverAttached THEN Append(toClient, m) ELSE toClient
Room == Len(toClient) < MaxInFlight

\* The id of a synthesized message bears no serial of the member's connection, so that
\* serials and timestamps order it differently.  The server dates it after the messages
\* of the member, and dates those in the order of their serials.
NewItem(synthesized) ==
  [action |-> "present", serial |-> IF synthesized THEN 0 ELSE events + 1,
   time |-> events + 1, synthesized |-> synthesized]

\* A member enters or updates its data.
MemberEnters(k) ==
  /\ events < MaxEvents /\ Room
  /\ events' = events + 1
  /\ serverItems' = [serverItems EXCEPT ![k] = NewItem(FALSE)]
  /\ Sends([type |-> "PRESENCE", leave |-> FALSE, key |-> k, item |-> NewItem(FALSE)])
  /\ UNCHANGED <<client, serverAttached, sending, unsent>>

MemberLeaves(k, synthesized) ==
  /\ events < MaxEvents /\ Room
  /\ synthesized => "crash" \in Disruptions
  /\ serverItems[k] # None
  /\ events' = events + 1
  /\ serverItems' = [serverItems EXCEPT ![k] = None]
  /\ unsent' = IF "stale" \in Disruptions THEN unsent ELSE [unsent EXCEPT ![k] = None]
  /\ Sends([type |-> "PRESENCE", leave |-> TRUE, key |-> k, item |-> NewItem(synthesized)])
  /\ UNCHANGED <<client, serverAttached, sending>>

ServerAttaches ==
  /\ channel = "attaching" /\ ~serverAttached
  /\ serverAttached' = TRUE
  /\ sending' = (serverItems # Nobody)
  /\ unsent' = serverItems
  /\ toClient' = Append(toClient, [type |-> "ATTACHED", hasPresence |-> serverItems # Nobody])
  /\ UNCHANGED <<client, serverItems, events>>

\* The page that names ks out of the items left.
Page(ks, left) ==
  /\ ks \subseteq KeysOf(left)
  /\ unsent' = [k \in Keys |-> IF k \in ks THEN None ELSE left[k]]
  /\ sending' = (ks # KeysOf(left))
  /\ toClient' = Append(toClient, [type |-> "SYNC", keys |-> ks, last |-> ks = KeysOf(left),
                                   item |-> [k \in Keys |-> IF k \in ks THEN left[k] ELSE None]])

ServerSendsPage(ks) ==
  /\ sending /\ (Room \/ ks = KeysOf(unsent))
  /\ ks # {} \/ unsent = Nobody
  /\ Page(ks, unsent)
  /\ UNCHANGED <<client, serverAttached, serverItems, events>>

ServerResyncs(ks) ==
  /\ "resync" \in Disruptions
  /\ serverAttached /\ ~sending /\ Room
  /\ serverItems # Nobody /\ ks # {}
  /\ Page(ks, serverItems)
  /\ UNCHANGED <<client, serverAttached, serverItems, events>>

-----------------------------------------------------------------------------
(* Messages that arrive.                                                   *)

\* Mutant of OnAttached: clear() does not call the callbacks of wait_sync().
OnAttachedNotWaking(hasPresence) ==
  /\ channel' = "attached"
  /\ syncComplete' = ~hasPresence
  /\ IF hasPresence
     THEN /\ members' = StartSync(members)
          /\ carried' = members.syncing
          /\ UNCHANGED <<getting, view>>
     ELSE /\ members' = EmptyMap
          /\ view' = view \ Present(members)
          /\ carried' = FALSE
          /\ UNCHANGED getting

\* on_attached.
OnAttached(hasPresence) ==
  /\ channel' = "attached"
  /\ syncComplete' = ~hasPresence
  /\ IF hasPresence
     THEN /\ members' = StartSync(members)
          /\ carried' = members.syncing
          /\ UNCHANGED <<getting, view>>
     ELSE /\ members' = EmptyMap
          /\ getting' = FALSE
          /\ view' = view \ Present(members)
          /\ carried' = FALSE

\* set_presence for a PRESENCE message.
OnPresence(leave, k, item) ==
  /\ IF leave
     THEN /\ members' = Remove(members, k, item)
          /\ view' = IF RemoveAccepts(members, k, item) THEN view \ {k} ELSE view
          /\ carried' = (carried \/ (members.syncing /\ members.items[k] = None))
     ELSE /\ members' = Put(members, {k}, [j \in {k} |-> item])
          /\ view' = IF PutAccepts(members, k, item) THEN view \union {k} ELSE view
          /\ UNCHANGED carried
  /\ UNCHANGED <<channel, syncComplete, getting>>

\* Mutant of OnSync: no leave is emitted for the residual members.
OnSyncSilent(ks, item, last) ==
  LET started == StartSync(members)
      named   == Put(started, ks, item)
      entered == Accepted(started, ks, item)
  IN  /\ carried' = IF members.syncing THEN carried ELSE FALSE
      /\ members' = IF last THEN EndSync(named) ELSE named
      /\ view' = view \union entered
      /\ syncComplete' = (syncComplete \/ last)
      /\ getting' = (getting /\ ~last)
      /\ UNCHANGED channel

\* set_presence for a page of a sync.
OnSync(ks, item, last) ==
  LET started == StartSync(members)
      named   == Put(started, ks, item)
      entered == Accepted(started, ks, item)
  IN  /\ carried' = IF members.syncing THEN carried ELSE FALSE
      /\ members' = IF last THEN EndSync(named) ELSE named
      /\ view' = IF last
                 THEN (view \union entered) \ (named.residual \union Absent(named))
                 ELSE view \union entered
      /\ syncComplete' = (syncComplete \/ last)
      /\ getting' = (getting /\ ~last)
      /\ UNCHANGED channel

OnMessage ==
  /\ toClient # <<>>
  /\ toClient' = Tail(toClient)
  /\ LET m == Head(toClient)
     IN  CASE m.type = "ATTACHED" -> OnAttached(m.hasPresence)
           [] m.type = "PRESENCE" -> OnPresence(m.leave, m.key, m.item)
           [] m.type = "SYNC" -> OnSync(m.keys, m.item, m.last)
  /\ UNCHANGED server

-----------------------------------------------------------------------------
(* The channel and the application.                                        *)

ServerForgets ==
  /\ serverAttached' = FALSE /\ sending' = FALSE /\ unsent' = Nobody
  /\ toClient' = <<>>
  /\ UNCHANGED <<serverItems, events>>

\* The connection has been lost and is back: the channel reattaches.
Reattach ==
  /\ channel \in {"attaching", "attached"}
  /\ IF members.syncing \/ sending THEN "cut" \in Disruptions ELSE "lost" \in Disruptions
  /\ channel' = "attaching"
  /\ ServerForgets
  /\ UNCHANGED <<members, syncComplete, getting, view, carried>>

\* act_on_channel_state(SUSPENDED) keeps the members, and a sync in progress.
Suspend ==
  /\ "suspended" \in Disruptions
  /\ channel \in {"attaching", "attached"}
  /\ members.syncing \/ sending => "cut" \in Disruptions
  /\ channel' = "suspended"
  /\ syncComplete' = FALSE
  /\ ServerForgets
  /\ UNCHANGED <<members, getting, view, carried>>

\* act_on_channel_state(DETACHED) or (FAILED): no leave is emitted, so a subscriber keeps
\* the members that the map forgets.
Detach ==
  /\ "detached" \in Disruptions
  /\ channel # "detached"
  /\ channel' = "detached"
  /\ members' = EmptyMap
  /\ syncComplete' = FALSE
  /\ getting' = FALSE
  /\ carried' = FALSE
  /\ ServerForgets
  /\ UNCHANGED view

Attach ==
  /\ channel \in {"suspended", "detached"}
  /\ channel' = "attaching"
  /\ UNCHANGED <<members, syncComplete, getting, view, carried, server, toClient>>

\* get() on an ATTACHED channel, when it has to wait.
GetWaits ==
  /\ channel = "attached"
  /\ ~syncComplete /\ members.syncing
  /\ getting' = TRUE
  /\ UNCHANGED <<channel, members, syncComplete, view, carried, server, toClient>>

-----------------------------------------------------------------------------
Next ==
  \/ \E k \in Keys : MemberEnters(k)
  \/ \E k \in Keys, synthesized \in BOOLEAN : MemberLeaves(k, synthesized)
  \/ ServerAttaches
  \/ \E ks \in SUBSET Keys : ServerSendsPage(ks)
  \/ \E ks \in SUBSET Keys : ServerResyncs(ks)
  \/ OnMessage
  \/ Reattach
  \/ Suspend
  \/ Detach
  \/ Attach
  \/ GetWaits

Spec == Init /\ [][Next]_vars

\* What has been sent arrives, the server answers an ATTACH and ends a sync it began,
\* and a SUSPENDED channel is attached again (Channel!SuspendedRetries).
Fairness ==
  /\ WF_vars(ServerAttaches)
  /\ WF_vars(ServerSendsPage(KeysOf(unsent)))
  /\ WF_vars(OnMessage)
  /\ WF_vars(Attach)

FairSpec == Spec /\ Fairness

-----------------------------------------------------------------------------
(* Properties.                                                             *)

\* Members a subscriber still counts after the map has forgotten them.
Ghosts == view \ Present(members)

\* The events a subscriber receives tell the members.  One that adds every enter, update
\* and present and takes out every leave has whoever get() returns, during a sync too;
\* and nobody goes from the map without a leave, although residual and absent members
\* go without a message, except when the channel becomes DETACHED or FAILED.
EventsTellMembers ==
  [][/\ Present(members') \subseteq view'
     /\ channel' = "detached" \/ Ghosts' \subseteq Ghosts]_vars

\* An absent member is the memory of a leave that overtook a page of the sync: none
\* outlives the sync, nor does a residual member, and between syncs the map holds
\* members only.
NothingOutlivesTheSync == ~members.syncing => Absent(members) = {} /\ members.residual = {}

Quiet == channel = "attached" /\ serverAttached /\ ~sending /\ toClient = <<>>

\* When all has arrived and the sync has ended, the client has the members of the server
\* with their latest data, whatever passed the pages of the sync; except that a sync
\* that began over another keeps members the other had named, and that the leave of a
\* member the sync has yet to name is forgotten.
MembersAreTheServers ==
  Quiet /\ ~carried => ~members.syncing /\ members.items = serverItems

\* start_sync "captures current members as residual members to track which ones are not
\* seen during the sync": once all has arrived, no member is there that the last sync
\* did not name and that did not enter since.
SyncReplacesMembers == Quiet => Present(members) \subseteq KeysOf(serverItems)

\* A get() that waits for a sync returns, also when the sync is cut short, unless the
\* channel is interrupted for ever.
GetAnswered == (getting ~> ~getting) \/ []<><<Reattach \/ Suspend>>_vars
=============================================================================
