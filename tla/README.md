# A TLA+ model of the Ably Pub/Sub Python client

The modules in this directory model `ably-pubsub-python`: how the realtime client keeps a
connection and pings over it, how it publishes over a connection that comes and goes, how it
attaches channels and decodes the messages they deliver, how it tracks presence and keeps its
own members present, how it replicates objects, who it tells of what arrives, and how the HTTP
client sends a request to one host after another and renews its token. TLC checks them on
small instances; TLAPS proves, for every instance, the safety properties of the publish path,
the connection and its pings, the channel and its messages, the presence members, the members
a client enters itself, the replica of the objects, the HTTP requests and the event emitter.

The client is one asyncio event loop. A handler runs without interruption from one
`await` to the next, so an action is the code between two awaits, and a handler that
awaits something is two actions with whatever the loop does in between. That is where
this client is hard: timers, tasks made with `create_task`, websocket callbacks and
application calls meet in an order nobody wrote down, and a handler that resumes acts on
what it read before. The server is external. It is modelled from the way the client
uses it: it answers in order on one connection, and a lost connection loses what is
under way in both directions.

## The system

| Component | State | Operations | Hard because | Correct when |
|---|---|---|---|---|
| Connection lifecycle (`realtime/connectionmanager.py`, `connection.py`) | state, transition, suspend and retry timers, the connect, close and renewal tasks, the current transport | `connect`, `close`, CONNECTED, DISCONNECTED, ERROR and CLOSED messages, token renewal, fallback hosts, timers | handlers resume after `dispose()` when the transport may be another one; timers are cancelled by name and started without looking; some paths enter a state beside `notify_state` | a lost connection is always retried, CLOSED is quiet and final, one websocket at a time, no state lasts without a timer |
| WebSocket transport (`transport/websockettransport.py`) | the websocket, read task, idle timer, whether it is disposed of | open, read, idle timeout, dispose | a disposed transport still has tasks that run | nothing arrives from a transport that is no longer used |
| Publish path (`realtime/connectionmanager.py`) | `pending_message_queue`, `queued_messages`, send tasks, `msg_serial` | send, ACK, NACK, requeue, flush, fail | messages move between three containers across outages, and an answer is matched by position | each publish is settled once, with its own result, and none is lost |
| Channel (`realtime/channel.py`) | state, state timer, retry timer, the calls that wait, delta recovery | `attach`, `detach`, `set_options`, ATTACHED, DETACHED and ERROR, what the connection propagates | answers of earlier requests arrive late; every change of state stops the timer | a pending channel is timed, a suspended one retries, callers are answered, ATTACHED is true at the server |
| Channel registry (`Channels`) | channels by name | get, release, dispatch, propagation | | propagation reaches every channel (modelled for one) |
| Presence (`realtime/presence.py`, `presencemap.py`) | the members, the residual members of a sync, own members, pending operations, callers of `get()` | PRESENCE and SYNC messages, enter, update, leave, get, re-entry | newness is not one order; syncs overlap outages and each other | after a sync the members are those of the server |
| Own presence (`realtime/presence.py`) | own members, operations that wait for the channel, their futures | enter, update, leave, re-entry after ATTACHED | pending operations move from the queue to a task to the publish path while the channel changes; re-entries meet the calls under way | each call is answered, the server has the members the last calls say |
| Objects (`liveobjects/livemap.py`, `livecounter.py`, `objectspool.py`) | the pool, per object its data, site serials, tombstone and parents | set, remove, clear, inc, create, delete, sync states, collection | operations commute only with the right serial checks; references are kept in both directions | replicas converge, every object is found by its paths, listeners are told |
| Object sync (`liveobjects/realtimeobject.py`) | sync state, buffered operations, serials applied on ACK, waiters | OBJECT, OBJECT_SYNC, ATTACHED, writes, batches, `get()` | an operation is applied on its ACK and comes again as an echo or in a sync | every operation takes effect once, no wait is for ever |
| Messages and deltas (`types/message.py`, `mixins.py`, `channel.py`) | the base payload, the channel serial, the recovery | MESSAGE, recovery | a batch fails half-way, is skipped and sent again | no message garbled, passed over or delivered twice |
| Ping (`connectionmanager.py`) | one future per heartbeat | ping, HEARTBEAT | echo, timeout and failure race; heartbeats outlive a connection | the round trip is the ping's own, every ping ends |
| Event emitter (`util/eventemitter.py`) and `subscribe()` | the listeners of two emitters, wrappers by listener | on, off, emission | listeners register, remove and emit while they are called | who is registered hears, in order, and who is not does not |
| Authentication (`http/auth.py`) | token, its expiry, clientId | renewal before and after a refusal | several requests renew at once; tokens expire on the way | nobody is refused without a renewal of its own |
| HTTP client and fallback hosts (`request/http.py`) | the remembered fallback host | request with retries | deadlines, a remembered host that expires under other requests | all hosts are tried, the primary comes back |
| HTTP publish (`http/channel.py`) | ids of messages | publish | a retry of what was stored | a message is stored once |
| Push, stats, history, other request builders | none | | | |
| Clock, codecs, utilities | none | | conversions of data | |
| Synchronous server client (`server/`, generated) | as the HTTP classes | | | |

The parts interact as follows. A channel and its presence send through
`ConnectionManager.send_protocol_message`. The connection manager calls
`Channels._on_connected`, `_propagate_connection_interruption` and `_initialize_channels`
on a change of its own state, and `_on_channel_message` for what it reads. A channel tells its
presence and its objects of every change of state (`_notify_state`), and hands them the
PRESENCE, SYNC, OBJECT and OBJECT_SYNC messages; its own messages go to its emitter. Presence
operations and object writes are protocol messages of the publish path, and object writes
look at the result an ACK carries. A token renewed by the authentication, also for an HTTP
request, comes back to the manager through `on_auth_updated`.

## Modules

| Module | Models | Extends or instantiates |
|---|---|---|
| `PublishContract` | what `publish` promises a caller: accepted, then settled once, in order | |
| `Publishing` | the publish path of `ConnectionManager`, over a connection that comes and goes | instantiates `PublishContract` as a refinement |
| `Connection` | the states, timers, tasks and transports of `ConnectionManager` | |
| `Heartbeats` | `ping()` over the whole of `Connection` | `Connection` |
| `Channel` | one `RealtimeChannel`: timers and callers, the ATTACH and DETACH exchange, messages with deltas | |
| `PresenceMap` | `PresenceMap` as a value: put, remove, start and end of a sync | |
| `PresenceSync` | the receiving half of `RealtimePresence` on one channel | `PresenceMap` |
| `OwnPresence` | the sending half: enter, update, leave, what is pending, the re-entry | |
| `LiveObjects` | counters, maps, the pool and the pool of a sync as values | |
| `ObjectMeaning` | what a set of operations means: the abstract replica, and the states a sync carries | `LiveObjects` |
| `ObjectTree` | one replica under any order of delivery, with its paths and listeners | `ObjectMeaning` |
| `ObjectWrites` | the operations that writes and blueprints of new objects publish | `LiveObjects` |
| `ObjectSync` | `RealtimeObject`: syncs, buffered operations, writes applied on ACK, waiters | `ObjectMeaning` |
| `HttpRequests` | requests over a list of hosts with a token that expires | |
| `HttpPublishing` | a publish with an idempotent id, as one of those requests | `HttpRequests` |
| `Subscriptions` | the event emitter under messages, annotations and presence | |
| `MC*` | the instances and the symmetry that TLC uses | |
| `*_proofs` | the theorems about the module they are named after; `Connection_proofs` also those about `Heartbeats`, `HttpRequests_proofs` those about `HttpPublishing` | |

### Publishing

| State | Code |
|---|---|
| `pending` | `pending_message_queue.messages`, oldest first |
| `queued` | `queued_messages`, a deque that is filled on the left and popped on the right; here the message popped next comes first |
| `tasks` | the `create_task(_send_protocol_message_on_connected_state(...))` of `send_queued_messages` that have not yet run |
| `serial`, `msgSerial` | `message['msgSerial']`, `msg_serial` |
| `future`, `result` | `PendingMessage.future` |
| `raised` | the messages whose caller leaves `publish` with the exception of `transport.send`, and so never awaits the future |
| `transport`, `disposing`, `closeImpl`, `armed` | what the publish path sees of the connection; `Connection` has it in full |
| `wire` | external: frames the server has not answered |

`SendProtocolMessage`, `RunSendTask`, `OnAck`, `OnNack`, `NotifyDisconnected` (the requeue
of RTN19a and the failing of RTN7d), `OnConnected` (with the reset of `msg_serial`) and
`FailQueuedMessages` are the handlers of the same names. A dead websocket makes
`transport.send` raise, so that nothing is written (`Transmit`). The exception reaches the caller of
`publish` when it is made there (`raised`), and nobody when a send task meets it; the message
is pending already and stays so. The properties of this module speak of the future.

### Connection

One action per stretch of code between two awaits. `waiting` holds the handlers
(`on_disconnected`, `on_error`, `on_token_error`, the idle timer, `on_auth_updated`,
`close_impl`) that await `dispose()` of a transport; the action `XResumes(t)` is the rest of
such a handler, in whatever state it finds the connection. `Notify` is `notify_state`,
with the three arguments that a handler may have changed before it calls it;
`RequestConnecting` and `StartConnect` are `request_state(CONNECTING)` and
`start_connect`. `ws` is one state per transport, also for those that the manager has
forgotten. `lostRetries` counts retry timers that run and that `.retry_timer` no longer
names, because `start_retry_timer` overwrites it.

`Settled` and `InTurn` say what the event loop orders: callbacks and tasks made in one
turn run before anything that has to come from the network. The disruption `sameturn`
lets timers and the application come between.

### Heartbeats

Every step of `Connection` is a step here, and what it does to the pings is read off the
state it leaves: `enact_state_change` fails them when the connection is given up, and a
CONNECTED sends them again. `registered` is `__pending_pings`, `frames` the heartbeats that
the server will echo, `started` the start time a ping holds, as the transport of the
heartbeat it was taken for. The task that `notify_state` creates to send the pings runs before
anything else, so the instance is without `sameturn`; a heartbeat that a task has to queue is
left out.

### Channel

`ChangeState` is `_notify_state`, `RequestState` is `_request_state`, `Sending` is
`_check_pending_state`; `waiters` are the callers of `attach`, `detach` and `set_options`
that wait in `once_async`, which any next change of state wakes. `Propagate` and
`ResumeChannel` are what the connection manager does to its channels. DISCONNECTED and
CONNECTING are one connection state here, since no channel tells them apart.

Messages are numbers, sent in batches of one or two, whole or as a delta to the one before.
`context` is the decoding context: the last message decoded, and which payload is the
base of the next. `DecodeMessage` checks and moves it, `OnBatch` keeps it only if the whole
batch decoded, `OnUndecodable` starts the recovery, `OnDecoded` moves the channel serial and
delivers. The server goes on from the serial that an ATTACH gives, unless it has
`forgotten`. `got` is what became of each message: delivered, delivered again, skipped for
good; a message that is exempt from the properties says in `Channel` why.

### PresenceMap and PresenceSync

`PresenceMap` is the class without its filters. An item is what newness depends on: the
message serial, the timestamp and whether the item was synthesized by the server.
`PresenceSync` adds `set_presence`, `on_attached`, `act_on_channel_state` and the wait in
`get()`. `view` is a history variable, the members that a subscriber would gather from the
events emitted; it keeps the members that are cleared on DETACHED and FAILED, of which nobody
is told (`Ghosts`). The items that the service makes itself, for a connection that was lost,
bear no serial and the time at which they are made, so that serials and times disagree; assumed is that
the service dates them after the messages of the member, and those in the order of their serials. `carried` is one too: it marks a sync that the code does not begin anew,
or that met the LEAVE of a member it had not named (see the last section).

The server is external: it has `serverItems`, sends a PRESENCE for each change, and a sync
as pages that together name the members there were when the sync started. With the
disruption `stale` a page may name a member that has left in the meantime.

### OwnPresence

`calls` are the operations of the application, with the data that names them; `pending` is
`_pending_presence`, `tasks` what `create_task` made (`_send_pending_presence`, the channel's
attach task), `mine` the map of own members. `outbox` and `unacked` stand for the publish path as
`Publishing` promises it: in order, resent after an outage, answered or failed. `Reentries`
is `_ensure_my_members_present`, `ActOnSuspended` and `FailPending` what a change of the
channel does to what is pending. The service takes an entry that bears its id for a
repeat, broadcasts before it acknowledges, and refuses presence on a channel it has detached.
What a message does to the members, entry by entry, is written as recursive functions (`Take`,
`Members`, `OwnMembers`), which the proofs can follow. A call is `"done"` once it is
acknowledged. It becomes `"gone"` where the code clears the map of own members
(`act_on_channel_state` on DETACHED and FAILED, and a closed connection), or when a later
re-entry of the same member was refused. Its `shown` says that the service has told the client
of the member since the map was last cleared.

### LiveObjects, ObjectMeaning, ObjectTree

`LiveObjects` has the operators: a pool is a function from object ids to objects, and each
operation returns the pool and the updates that listeners are called with. `ObjectMeaning`
says what a set of operations means without regard to the order of delivery: of each key the last
entry that no later clear took, of a counter the sum. `ObjectTree` is one replica. The
operations of a site reach it in order, those of two sites in any order, some twice; syncs,
collections and the loss of the attachment come in between. `received` are the operations the
pool stands for. `FullPaths` is `get_full_paths`, `Walk` the lookup of a path, `Candidates` the
dispatch to the listeners of paths. What the code does in a loop is said at once where the order
of the loop does not matter: the entries of a create are set together (`ApplyEntries`), the objects
they reference are made together (`CreateZeroValues`), each state of a sync replaces its object by
itself before the parents are built anew (`CompleteSync`), and the pages of one map are laid over one another (`Over`).
Assumed of the service: an object is made once, before anything else is done to it (`Logs`); an
operation has the fields of its kind (`IsTemplate`); the page of a sync is never older
than an ACK the client had; and after the grace period of the collection nobody mentions a
collected object again.

### ObjectWrites and ObjectSync

`ObjectWrites` turns the calls of the application into operations: `EvaluateMap` makes the
creates of what a blueprint holds before its own, `BatchMessages` puts together what a batch
queued. `ObjectSync` is `RealtimeObject`. `call[c].at` follows a write through
`_publish_and_apply`: building, sent, acknowledged, waiting for SYNCED, woken. `onAck` is
`_applied_on_ack_serials`, `buffered` the operations that arrive during a sync, `syncPool` and
`syncId` the sync under way. The service keeps the log of operations; a page of a sync is what the
log says when it is sent, the first page of a sync the service starts itself is made in the step
that starts it. An ACK may come without serials. A write goes to objects that the pool holds, as
`_resolve_for_write` demands, or that it makes itself.

### HttpRequests and HttpPublishing

A request is at one of the awaits of `make_request`: it waits for the auth provider, or for the
answer of the host at `index` of its list. Time is a number of ticks; `token`, `host` and
`hostExpires` are shared by the requests, and any of them may be overtaken at each await.
`Outcome` is what a host may answer: an answer for good, a token error, an error that another host
may not have, none in time. `Start` asks for a token when there is none that
lasts, `Reauthorize` when a host has refused it. `HttpPublishing`
lets the first requests be publishes of one `Message`: a host may have stored the message although
the answer says otherwise, and `AssignIdempotentIds` gives the message an id unless it has one. It is
the client for HTTP; a realtime client also acts on its connection after a renewal.

### Subscriptions

`regs` are the listeners of each name and of the unnamed emitter in order of registration,
`wrapped` the one wrapper per listener that `off` looks up. `Begin`, `CallListener`, `TurnToAll`
and `EmissionEnds` are one emission, within which a listener may register and remove; coroutine
listeners become tasks. The three kinds of emitter (messages, annotations, presence) differ in
what `subscribe` asks of the channel; they share nothing else, so that a behaviour is about
one of them, chosen at the start.

## Disruptions

Each state machine takes a constant `Disruptions`, the set of things that may go wrong in
an instance: the ways of losing a connection, late timers, refusals by the server, overlap
of application calls. An instance with all of them answers "does this hold whatever
happens"; an instance with few of them states a property that the code keeps as long as
nothing else interferes, and its list says what "nothing else" means. Without the list such a
property would either be dropped or be stated with a precondition that hides the case.

## What the runs check

| Run | Question | Properties |
|---|---|---|
| `publishing_queueing` | Under all nine disruptions, is any publish that waits lost from every container, or left when the connection gives up by `notify_state`? | `NothingLost`, `DrainedWhenGivenUp` |
| `publishing_direct` | With `queue_messages` off, does the send path keep the contract of `publish`: the own result, in order, once, and does each publish settle? | `KeepsContract` (refinement of `PublishContract`), `EveryPublishSettles` |
| `publishing_resume` | With one connection id and no publish while offline, is all that is unanswered resent in order, each result the publish's own, and nothing sent again that was settled? | `ResultIsOwn`, `SettledIsNotSent`, `ResentInOrder` |
| `connection_disturbed` | Under thirteen of the seventeen disruptions, is CONNECTING always timed, and a lost connection always retried? (A slow close handshake, another clientId, a 403 of the provider and an impatient application are left to the theorems.) | `ConnectingIsTimed`, `RetryScheduled` |
| `connection_orderly` | When connections break but nothing overlaps, is there one websocket at a time, nothing left in CLOSED, no stall in CONNECTED; do attempts and `close()` end; and does each ping end, with its own round trip? | `OneTransport`, `ClosedIsQuiet`, `ConnectedIsServed`, `TransitionsEnd`, `RoundTripIsOwn`, `PingsEnd` |
| `channel_disturbed` | Under all sixteen disruptions, are pending channels timed, suspended ones retried, callers answered, is ATTACHED true at the server, and are messages decoded from the right base and delivered once? | `PendingIsTimed`, `SuspendedRetries`, `AttachedIsServed`, `NothingGarbled`, `DeliveredOnce`, `WaitersAnswered` |
| `presence_synced` | Under all seven disruptions, is every member told to subscribers and, but for those cleared on DETACHED and FAILED, every member that goes; do members and server agree, is nothing left of a sync, and does `get()` return? | `EventsTellMembers`, `NothingOutlivesTheSync`, `MembersAreTheServers`, `GetAnswered` |
| `own_presence` | Whatever becomes of connection and channel, is every enter, update and leave answered, and does the server then have the members that the calls say? | `StaysEntered`, `OwnMembersAreCurrent`, `EveryCallAnswered` |
| `objects_tree` | In whatever order operations, repeats, syncs and collections come, does a replica show what they mean, find every object by its paths, and tell who listens there? | `ShowsWhatItReceived`, `PathsLeadBack`, `OperationsAreHeard` |
| `objects_synced` | With writes applied on their ACK, operations buffered, and syncs that start over (all disruptions but `"late"`), does every operation take effect once, is no new object seen half made, does cleared data stay gone, and does every wait end? | `EachOperationOnce`, `SeenWhole`, `ClearedStaysEmpty`, `WaitsEnd` |
| `http_requests` | With two requests at once, a token that expires and hosts that fail, is a message stored once, nobody refused without a renewal of its own, and the primary host tried again? | `PublishedOnce`, `RefusedOnlyAfterRenewal`, `PrimaryComesBack` |
| `subscriptions` | When listeners register and remove while they are called, is everybody who is registered called, and nobody else? | `NobodyIsPassedOver`, `NobodyIsCalledAfterwards` |

All pass. The type invariant of each module is not among them: those of `Publishing`,
`Connection`, `Channel`, `PresenceSync`, `OwnPresence`, `HttpRequests` and `Subscriptions` are
proved, as is that of `ObjectTree`; that of `ObjectSync` holds in the same instance (`TypeOK` as a further
INVARIANT). What the code does not
keep is told in a section of its own, with the instance that shows it.

### Bounds, and why they are enough

- Publishing: two or three messages that take a serial, one that does not (`Control`), one
  or two connection ids. Two messages show any disagreement of position and serial, a third one
  that is behind them; two ids give a resume and a new connection. Each message is sent
  once, so the state space is finite without further bounds.
- Connection: two transports under the disruptions, three and two pings in the orderly
  instance. A transport identity is used again when nothing refers to it (`Unused`). Two is the
  least that has a handler resume for one transport while another is current; the third is
  there while two older ones are being closed. `MaxLostRetries` is 1: the second overwritten
  timer does what the first does.
- Channel: two messages in the channel's history, sent in batches of one or two, and two on
  their way when the application, a timer or the server adds another (`MaxInFlight`). An answer
  to an earlier request, the one to the present request and a message of the server's own
  accord are three.
- PresenceSync: two members, four enters, updates and leaves, two messages under way
  beside the answers and last pages. Two members give a sync of two pages, with one
  named and one not; four changes are enter, leave and return of one member and one of the
  other.
- OwnPresence: two clients, two calls, two disruptions: an enter and what overtakes it, or two
  members that are entered again in some order, while the first disruption is handled or the second comes.
  The inductive invariant of `OwnPresence_proofs` holds in this instance, and with one
  client and three calls.
- ObjectTree: two sites, three operations, two events, a root, a map and a counter. Operations
  of two sites that commute or not need two, and a third that comes before both; a path of two
  keys needs a map below the root.
- ObjectSync: two writes, one that makes `Root.k` a new map with a new counter in it and one that
  decrements the counter, an increment by another client; one message under way and one
  disruption. The first write is three operations, so that a sync may show part of it.
- HttpRequests: two requests, a primary and a fallback host, tokens of two clients, three
  starts, two publishes, and three times of the clock, with `RetryTimeout` and `TimeToLive` of one
  tick. The realtime connection may be on the fallback host.
- Subscriptions: two listeners, one of them a coroutine, three registrations, three messages of
  two names. The listeners register and remove while they are called (`Habits` has `"within"`).

`CHECK_DEADLOCK FALSE` stands where the application's calls are bounded and the system may come
to an end: in the publishing runs, `objects_tree`, `objects_synced`, `own_presence` and
`http_requests`. Elsewhere deadlock is checked.

### Fairness

Safety runs assume none. `FairSpec` assumes weak fairness of what the event loop must run:
created tasks, expired timers, handlers whose await has ended (a close handshake has a
timeout of its own). Of the server it is assumed that it answers requests on a
connection that stays up, and that it ends a sync it began; of the network, nothing for
`Connection`: opening a websocket and CONNECTED are not fair, so that `TransitionsEnd` rests
on the transition timer. `PingsEnd` is an implication that names the fairness of the suspend
timer on its left: a connection may be lost and come back for ever. `OwnPresence` assumes that
tasks run, that the service and the client handle what arrives, and that the connection comes
back. In `ObjectSync` the fair steps are stated by what they do to the messages and the callers
(`Serves`, `Pages`, `Handles`, `GoesOn`, `Gets`, `AttachesAgain`), which says the same of the
actions and is cheaper to check.
Two liveness properties say what they except:
`WaitersAnswered` excepts an application that calls `set_options` for ever, which restarts
the state timer each time, and `GetAnswered` a channel that is interrupted for ever. The HTTP
requests have no liveness property: their loops are over the list of hosts, which is finite.

## What is proved

All for every value of the constants within the assumptions that the modules name. These
only say that constants have their type, that `None` is none of the values it is
compared with, that the templates of operations have the fields of their kind, that there is more than
one transport, and that the hosts are distinct and at least one (`HostsAssumption`). Where a theorem
needs that some things do not happen, it says so in its ASSUME, and the section after this one has
the behaviours that the code shows when they do.

- `Publishing_proofs`: `TypeCorrect`; `NoPublishLost` (`NothingLost`); `GivingUpDrains`
  (`DrainedWhenGivenUp`). `NothingLost` is
  inductive only together with the fact that a message without a serial never waits
  (`ControlNeverWaits`): such a message is dropped from the queues with no answer. The invariant is
  `Kept`. The argument follows one message through each handler: it is put into the next container
  in the step that takes it out of the last one, or settled in it.
  `SettledStaysUnsent` (`SettledIsNotSent`) assumes only that nothing is published while offline, which
  leaves all other disruptions, where the run has those that its other properties allow.
  Its invariant is `Apart`: a message is in one place at a time, so that whatever settles it also
  takes it out of its queue; and in CONNECTED there is a transport, without which a message
  would be registered and failed at once.
  `ResultsAreOwn` (`ResultIsOwn`) and `DirectPublishingKeepsContract` (`KeepsContract`, the
  refinement of `PublishContract`, step by step) assume `Undisturbed`: no connection is given up and
  replaced, no publish comes while offline, and a DISCONNECTED comes only without queueing; the
  contract is that of `queue_messages` off. The heart of both is `WireIsPending`: position by
  position, the frames not answered are the messages pending, so that an answer settles the message
  it is for. `LostPublishesAreResent` (`ResentInOrder`) assumes `AlwaysResumed`, one connection id
  to come back to: the serials rise along what is pending and along the tasks that send it again.
- `Connection_proofs`: `ConnectionTypeCorrect`, `LostConnectionRetries`
  (`RetryScheduled`), `AttemptsAreTimed` (`ConnectingIsTimed`), under all disruptions. The three are
  inductive together. `NotifyKeeps` is the heart: whatever a handler has done to the transport and
  the tasks before, `notify_state` of DISCONNECTED or SUSPENDED starts a timer or schedules
  a request; `RequestConnectingKeeps` says that every way out of those two states
  by a timer goes to CONNECTING with the transition timer set.
  `OneWebsocketAtATime` (`OneTransport`), `NothingRunsWhenClosed` (`ClosedIsQuiet`) and
  `ConnectedNeverStalls` (`ConnectedIsServed`) assume `Orderly`: disruptions that do not overlap
  with what handles the one before; the last one also that DISCONNECTED gives a reason and that CLOSED is asked for
  (`Explained`). The invariant `OrderInv` says that only the websocket of the current transport is
  alive, that every handler that waits, waits for that transport, and that `close_impl` comes
  last. On top of it `RoundTripsAreOwn` (`RoundTripIsOwn`): heartbeats are only on the
  websocket in use, and a ping that counts is timed by the transport that took it. `PingsLeaveConnection` says
  that `Heartbeats` adds nothing to `Connection`: every behaviour of it is one of the connection, so the
  other theorems hold there as well.
- `Channel_proofs`, all under all disruptions: `ChannelTypeCorrect`, `NoUntimedRequest`
  (`PendingIsTimed`), `NoSuspendedForGood` (`SuspendedRetries`), `NoCallAtRest` (`WaitersPending`),
  `RecoveryIsAttaching` (`RecoveryEnds`). The strengthening is `RetryTimerIsForSuspended`: the
  retry timer is forgotten on leaving SUSPENDED. Without it, a channel might enter SUSPENDED
  with an expired timer that keeps the next from starting. `DeltasApplyToTheirBase`
  (`NothingGarbled`) is inductive by itself.
  `AttachedIsAttachedAtServer` (`AttachedIsServed`) needs the same for DETACHING, from which the
  state timer goes back to ATTACHED (`ServedUntilLeft`), and that a confirmation on the wire is still
  true or followed by a refusal (`ConfirmedIsHeld`).
  `MessagesArriveOnce` (`DeliveredOnce`) rests on `Delivering`: every serial from which the
  server was, is or will be asked to go on is a safe start, with nothing missing before it and
  nothing delivered for good after it (`StartsAreSafe`); what is on the wire has not been
  delivered and each message begins where the one before it ends (`NothingSentAgain`, `InOrder`,
  `Seamless`); and if something is missing before the next message, an ATTACH is under way that asks for it, or
  its answer (`NothingMissed`).
- `PresenceSync_proofs`: `PresenceTypeCorrect`, `SubscribersKnowMembers`
  (`EventsTellMembers`, an action property: who is present has been told, and a step that
  leaves somebody in the view who is not present is the clearing on DETACHED and FAILED), `SyncLeavesNothing` (`NothingOutlivesTheSync`). The lemmas about
  put, remove, start and end of a sync say what each does to who is present and who absent;
  the step for a page of a sync chains three of them. `MembersConverge` (`MembersAreTheServers`), for
  any members and any number of messages under way: the messages on the wire foretell what the
  map will hold, each item is settled by the page that names it or by the event behind it, and a member that no page
  names goes at the end of the sync. The exception is the history variable `carried`.
- `HttpRequests_proofs`, for any number of requests, hosts and tokens: `RequestsTypeCorrect`;
  `RefusedTokenIsOwn` (`RefusedOnlyAfterRenewal`); `FallbackIsTemporary` (`PrimaryComesBack`);
  `PublishesAreRequests` (every step of `HttpPublishing` is one of the requests or none) and
  `MessageIsStoredOnce` (`PublishedOnce`). The invariant: what is remembered is a fallback host
  with an expiry no later than `RetryTimeout` after the primary host had failed, the primary host is first
  or second in every list, and who tries for the second time has a token of its own.
- `Subscriptions_proofs`, unless a listener is registered twice, for one event or for two (the habit `"twice"`, by which
  `On` lets a listener have more than one registration):
  `SubscriptionsTypeCorrect`, `ListenersAreCalled` (`NobodyIsPassedOver`), `RemovedStayRemoved`
  (`NobodyIsCalledAfterwards`). The invariant `Live` says that the entry of a listener always
  names the registration it has, and that whoever was registered when the emission began has been called, is about
  to be, or waits for the unnamed emitter.
- `OwnPresence_proofs`, for any finite set of clients and any number of calls and disruptions, unless a call comes
  between an ATTACHED and the tasks it created (`"eager"`, which the run leaves out as well):
  `OwnPresenceTypes` and `EnteredStaysEntered` (`StaysEntered`). The invariant `Inv` follows a member from the
  call to the service and back, and each part is needed for the next:
  - the calls that wait and the calls that are sent are what `pending` and `unacked` say (`Accounted`),
    and calls of a client wait, are sent and are answered in their order (`QueueIsLast`, `PendingInOrder`,
    `SentInOrder`, `AnsweredInOrder`);
  - `Answered`: in the order they were sent, each message that is not acknowledged has its answer on the way to the
    client, or is itself on the way to the service. So an ACK is for the first of
    them, and who it says was entered is a member, or the news that the channel was dropped is behind it;
  - what is told of a client is of an earlier call than what the service has yet to read (`ToldIsPast`), and
    what is told comes in order (`ToldInOrder`), so that no LEAVE on its way undoes what was shown
    since (`NoLeaveTold`, `NoLeaveToTell`), and who was shown stays an own member (`ShownIsOwn`);
  - `Kept`: on an attached channel, whoever was entered and shown has a task that will enter it again, is in a message
    that does, is a member, or the client is about to learn that the channel was dropped. When
    the channel is quiet, only membership is left.

  What the recursive functions compute for a message of any length is proved with `Induction`,
  induction over numbers stated of a set (from `WFMin`, which takes no operator), and `Recursion`, the
  existence of the function that a step defines.

- `ObjectTree_proofs`, for any maps, counters, keys and sites, and any number of operations, syncs, losses and
  collections. Two invariants. `GraphInv` (`GraphInvariant`) is about one pool: the parents of an
  object that is not tombstoned are exactly the entries that reference it (`Linked`), a tombstoned object is
  empty (`Buried`), what is referenced and missing was deleted and collected (`DanglingGone`), and
  nothing that is yet to come names a collected object (`Undelivered`); without the last, an operation would make
  the object again, with no parents, under entries that reference it. Every operator of
  `LiveObjects` has a lemma that it keeps such a pool. From it `ParentsLeadBack` (`PathsLeadBack`): a way
  up by parents, turned round, is a way down by entries; and `OperationsTold`
  (`OperationsAreHeard`): an object that an operation changes, referenced at a key of the root, has that path.
  `MeaningInv` (`Meanings`) relates the pool to the set of operations received, not to their order. The
  serial an object has noted of a site is that of its last operation from there (`Stands`), so that what the
  serials let through is exactly what was not yet received; this needs that of a site the first
  operations were received (`SitePrefix`). The data of a map is, of each key, the last of the entries that no
  later clear took, the count of a counter the sum (`Holds`), and adding an operation to the set is what applying
  it to the object does. Sums over sets of operations are proved by induction over the number of
  operations. `StrongConvergence` (`ShowsWhatItReceived`) is what a reader sees of it:
  two replicas that received the same operations show the same, whatever the order, the repeats,
  the syncs and the collections. `Types` is the type invariant.

Only model-checked: all liveness (`TransitionsEnd`, `PingsEnd`, `EveryPublishSettles`,
`WaitersAnswered`, `GetAnswered`, `EveryCallAnswered`, `WaitsEnd`), which is out of the prover's
reach under fairness. `EachOperationOnce`, `SeenWhole` and `ClearedStaysEmpty` of `ObjectSync`:
its pool is changed by the operators that `ObjectTree_proofs` is about, but what it stands for is
split among the pool, the buffered operations, the pages of a sync and the serials applied on ACK,
and relating those needs an invariant of its own. `ObjectWrites` has RECURSIVE operators, so only
`MCObjectSync` extends it.
`OwnMembersAreCurrent`, which says what the service holds after at most one disruption: its
invariant would have to know which one it was.

## What the code does not keep

Modelling and proving met these. No run is given to them; each can be seen by the
instance named, or follows from the line. Five definitions stand in the modules for that purpose
and hold in no run: `Publishing!RaisedIsNotSent`, `Connection!ClosedStays`, `Channel!RestingStays`,
`PresenceSync!SyncReplacesMembers` and `ObjectTree!ChangesAreHeard`.

Publishing and the connection:

- When publishes made while offline are flushed on a new connection, pending messages no
  longer stand in the order of their serials, and an answer, which is matched by position
  (`connectionmanager.py:75`, `:340`), is given to another message (`connectionmanager.py:277`):
  `ResultIsOwn` with `QueueMessages = TRUE` and `Disruptions = {"socket", "offline"}`. Such a message
  is queued and pending at once (`connectionmanager.py:277`, `:281`), so that a send task that fails it when the
  connection is gone again, or an answer that settles it by its position, leaves it in a queue, from which it
  is sent after its caller was told: `SettledIsNotSent` with `"offline"` added.
- A `publish` on a transport whose websocket has closed, before the connection manager hears of
  it, raises what `transport.send` raises (`connectionmanager.py:286`, `:295`,
  `websockettransport.py:293-303`); yet the message was made pending before, is requeued and sent on the next connection, and is
  acknowledged there. An application that publishes again after the error publishes twice:
  `RaisedIsNotSent` with `Disruptions = {"idle"}`.
- "messages that were sent but not acknowledged are resent" (the comment at
  `connectionmanager.py:317`) does not hold after a DISCONNECTED, whose handler has cleared
  the transport before `notify_state` looks for it (`connectionmanager.py:690`): `ResentInOrder`
  with `Disruptions = {"disconnected"}`.
- A publish made between CONNECTED and the tasks that send the queue (`connectionmanager.py:312`)
  overtakes what is resent, and the order is lost for the next resend: `ResentInOrder` with `"early"`.
- `on_connected` (`connectionmanager.py:427`) resets `msg_serial` on a new connection id,
  while messages that were requeued keep their serials, so that two messages may bear the same.
- `on_error` (`connectionmanager.py:492`) enters FAILED by `enact_state_change`, beside
  `notify_state`: pending publishes are not failed, timers go on running and lead from FAILED
  to DISCONNECTED, and channels are not told, so that `attach()` and `detach()` wait on.
  The models have it so, and `DrainedWhenGivenUp` and `WaitersAnswered` except it
  (`test/uts/deviations.md:1108`).
- A retry timer that was overwritten (`connectionmanager.py:783`) opens a connection that the
  application has closed, against `connection.py:64-65`: `ClosedStays` with three transports,
  `MaxLostRetries = 1` and `Disruptions = {"refused"}`.
- `on_disconnected` (`connectionmanager.py:463`) with a 5xx error and no fallback hosts disposes of
  the transport and stays CONNECTED: `ConnectedIsServed` with `FallbackHosts = FALSE` and
  `Disruptions = {"unavailable"}`. So does a DISCONNECTED without an error, and a CLOSED that the
  client did not ask for: the same with `{"noerror"}` and with `{"closed"}`.
- `OneTransport` and `ClosedIsQuiet` break with any of `unavailable`, `token`, `clientid`,
  `sameturn`, `slowclose`, `impatient`, `overlap`, `authorize`: a handler resumes for a transport
  that is no longer current, or two tasks connect at once.
- `close_impl` (`connectionmanager.py:234`) tests the transport, yields, and uses it; when the
  websocket closes in between it fails, and the connection stays CLOSING until its transition
  timer, or reconnects: `TransitionsEnd` with `Disruptions = {"socket", "sameturn"}`.
- `on_auth_updated` while CONNECTED awaits the next change of state, whichever it is
  (`connectionmanager.py:813`). When the connection drops in the meantime, the `call_soon` of
  `request_state(CONNECTING)` runs before the waiter, which finds CONNECTING and starts to connect
  once more (`:841`): two `connect_base` tasks. Not modelled.

Channels:

- A second DETACHED, which answers a repeated `detach()`, makes a channel that is DETACHED
  attach again (`channel.py:777`, `:1104-1108`): `RestingStays` with `Disruptions = {"again"}`.
- An ATTACHED that comes after the state timer, or after a local detach, is ignored
  (`channel.py:770`): the server holds the channel attached and the client drops its messages.
- Messages, and an ATTACHED, that come while an ATTACH is unanswered are taken, delivered and move the
  serial (there is no check of RTL17, `test/uts/deviations.md:1379-1386`, `:2663`). The server then
  sends them again: subscribers get duplicates after `set_options` or a CONNECTED while CONNECTED.
  And when a delta could not be decoded, the messages behind it move the serial past it; if the connection drops before the
  recovery is answered, it is lost for good, against `test/ably/realtime/deltadecoding_test.py:89`
  and `:173`. `DeliveredOnce` marks such messages `"early"` and `"excused"`.
- `detach()` during a recovery forgets it; a delta that cannot be decoded in DETACHING or DETACHED
  attaches the channel again.
- An error in decoding that is not about a delta (40019 among them) skips the batch, and nobody is told
  (`test/uts/deviations.md:1388`).
- The base for a message with more encodings than one base64 is its text before decoding
  (`types/mixins.py:79`), and an empty payload cannot be a base (`types/mixins.py:86`).
- The serial is cleared on SUSPENDED (`test/uts/deviations.md:1359-1373`), so that what was
  published meanwhile is not asked for.

  Assumed of the server: after a resume it sends nothing on a channel until its ATTACH; the first
  message of an attachment is whole; a delta is from the message before it in the same attachment.

Presence:

- A sync that starts while another is in progress does not take the residual members anew
  (`presencemap.py:253`, `:259`, `test/uts/deviations.md:1615`): `SyncReplacesMembers` with
  `MaxEvents = 3` and `Disruptions = {"cut"}`.
- A LEAVE during a sync, of a member that the sync has yet to name, is forgotten
  (`presencemap.py:177`, there is no item to mark absent); a page prepared before it brings the
  member back: `SyncReplacesMembers` with `Disruptions = {"stale"}`.
- On DETACHED and FAILED the members are cleared and nobody is told
  (`presence.py:741-746`): a subscriber that counts by enters and leaves keeps them, and neither a
  LEAVE that comes after the next attach nor the end of its sync tells them, since the map does
  not have them. `EventsTellMembers` excepts exactly that step, and they are the `Ghosts`.
- A LEAVE during a sync is told to subscribers when it arrives, and again when the sync ends
  (`test/uts/deviations.md:1494`): `view` is a set, which the repetition does not change.
- A member that was acknowledged and whose echo was lost with the connection is not entered
  again; nor is one whose own members were dropped on DETACHED, FAILED or CLOSED, or whose re-entry was
  refused. Hence `shown` and `"gone"` in `StaysEntered`. Own members are compared by newness across connection ids
  (`test/uts/deviations.md:1522-1546`).
- When a `detach()` times out, the members are entered again as they were before the calls
  under way; and what an unresumed connection lost is sent again, then overridden by the re-entry.
  A call between ATTACHED and the tasks it created overtakes what is pending (`"eager"`).
- When the connection is closed or suspended before the task that attaches has run, an `enter()` waits on a channel that is
  INITIALIZED or DETACHED (`"hasty"`). `detach()` while disconnected detaches only
  locally. An ATTACHED while ATTACHED enters nobody again (`test/uts/deviations.md:1582`).

Objects:

- OBJECT and OBJECT_SYNC messages are handled whatever the state of the channel
  (`channel.py:815-826`). What comes after a local detach, or after the state timer has given the
  channel up, changes a pool that was cleared, and a late ATTACHED is taken for the answer to
  the next ATTACH: `ClearedStaysEmpty` and `EachOperationOnce` with `"late"` added to the
  `Disruptions` of `objects_synced`, which has only what the service sends before the DETACHED or ERROR
  that ends an attachment.
- A sync that tombstones an object computes the paths after it has rebuilt the parents, so that
  who listens to its path is not told, against "calls listener for changes at this path"
  (`pathobject.py:131`): `ChangesAreHeard`.
- After the collection of an object, the entry that refers to it is counted again by `size()` and
  listed by `entries()`.
- Were a page of a sync older than an ACK the client had, the operation applied on that ACK
  would be lost when its echo is buffered during the sync: the echo is skipped. The model assumes
  that it is not.

HTTP:

- `get_hosts` raises `ValueError` when the realtime connection is on a fallback host that is not
  in the list (`request/http.py:168-171`, `types/options.py:400-419`,
  `transport/websockettransport.py:163-164`); `options.fallback_host` is never reset.
- A token with an incompatible clientId is stored before it is rejected (`http/auth.py:163-164`).
- A remembered fallback host that fails is not forgotten, and with `raise_on_error=False` an error from
  a fallback host makes it the remembered one.
- Renewals are not shared: each request that meets an expired token asks for one.
- A renewal for an HTTP request of a realtime client goes through `on_auth_updated`
  (`http/auth.py:429`, `connectionmanager.py:802-846`): it cancels an attempt to connect, and
  connects a client that was closed, against `connection.py:64-65`.
- `_send_update` (`http/channel.py:164-226`) carries no id, so that a retried append may apply twice;
  `assign_idempotent_ids` writes the id into the caller's `Message`, so that publishing it
  again is taken for a repeat, whether it is meant as one or not (`PublishedOnce` is what the code does, and
  claims no more); the clientId of a message is checked before the token is known
  (`http/channel.py:67-76`, `http/auth.py:404-412`).

Subscriptions:

- `off(event, listener)` of a listener that is registered twice raises `KeyError` and leaves it
  registered (`eventemitter.py:85`, `:130`, `:161-167`, `test/uts/deviations.md:1457-1487`, `:2558`);
  `annotations.subscribe` with a list of types registers it so: `NobodyIsCalledAfterwards` with
  `"twice"` among the `Habits`.
- Annotations right behind an ATTACHED are missed by a `subscribe` that waits for it
  (`annotations.py:176-192`).

## What is not modelled, and the plan

| Next | Where | Why |
|---|---|---|
| Each operation once, cleared data stays gone | `ObjectSync` | on the lemmas of `ObjectTree_proofs`; the invariant has to follow an operation through the buffer, the pages and the ACK |
| The service has what the last call said | `OwnPresence` | `OwnMembersAreCurrent`, on top of the invariant that is proved |
| `authorize()` while CONNECTED | `Connection` | it waits for any change of state |
| `Channels.get` and `release` | `Channel` | a released channel gets no messages |
| A heartbeat that a task has to queue | `Heartbeats` | pings under `sameturn` |
| Ways to obtain a token, validation of malformed object messages | `HttpRequests`, `ObjectSync` | each may fail in its own way |

Not planned: codecs and encryption (conversions of data without state that
the properties tell apart); push, stats and the other HTTP request builders (stateless);
the generated synchronous client (the HTTP classes again); the clock, which is modelled inside
its users. Of the event emitter, the error that pyee raises for an `error` event nobody
handles is left out.

## Running the checks

    tlc -workers 2 -config connection_disturbed.cfg MCConnection
    tlapm Connection_proofs.tla

`PROJECT.json` lists the runs, for each property a mutated definition that breaks it, the
lines of the code that each definition models, the hazards and the theorems.
