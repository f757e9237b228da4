------------------------------ MODULE ObjectSync ------------------------------
(***************************************************************************)
(* RealtimeObject (liveobjects/realtimeobject.py) on one channel: the sync  *)
(* that an ATTACHED or the service starts, the operations that arrive       *)
(* meanwhile, the operations the client publishes and applies as soon as    *)
(* they are acknowledged, and the calls of get() and of publishers that     *)
(* wait for the end of a sync.                                              *)
(*                                                                          *)
(* The service keeps one log of operations and sends, over one connection,  *)
(* acknowledgements, operations, and pages of syncs that show the log as it *)
(* is when they are sent.                                                   *)
(***************************************************************************)
EXTENDS ObjectMeaning, Sequences, TLC
LOCAL INSTANCE SequencesExt

CONSTANTS
  Keys,           \* the keys of maps
  Own,            \* the site of this client
  Writes,         \* what its writes publish: for each a sequence of templates
  Getters,        \* its calls of get()
  Remote,         \* what the other clients do: templates
  MaxOps,         \* how many operations are logged
  MaxInFlight,    \* how many messages are on their way to the client
  MaxDisruptions, \* how many syncs, outages, detaches and refused writes there are
  Disruptions     \* which of them

AllDisruptions ==
  {"lost",      \* the connection is lost and not resumed
   "suspended", "detached", "failed",  \* the channel leaves
   "late",      \* what was on its way when it left arrives all the same
   "resync",    \* the service starts a sync of its own accord
   "whole",     \* ... in a single message
   "refused"}   \* a write is refused

ASSUME OwnAssumption == Own \in Sites
ASSUME DisruptionsAssumption == Disruptions \subseteq AllDisruptions

VARIABLES
  log,      \* service: the operations of the channel, by serial
  sent,     \* service: up to where they were sent to this client
  acks,     \* service: the acknowledgements still to be sent
  serving,  \* service: whether the client is attached, and the sync being sent
  outbox,   \* the writes on their way to the service
  wire,     \* the messages on their way to the client
  channel,  \* the state of the channel
  syncState,
  pool,
  syncPool, \* SyncObjectsPool
  syncId,   \* _current_sync_id, 0 for none
  buffered, \* _buffered_object_operations
  onAck,    \* _applied_on_ack_serials
  call,     \* where each write is, with the serials its ACK gave
  getter,   \* where each get() is; one that has returned or raised may be called again
  count     \* disruptions so far

service == <<log, sent, acks, serving>>
objects == <<syncState, pool, syncPool, syncId, buffered, onAck>>
waits == <<call, getter>>
vars == <<service, outbox, wire, channel, objects, waits, count>>

Calls == DOMAIN Writes
Ops == {log[i] : i \in DOMAIN log}
Clearing == {"detached", "failed"}

Init ==
  /\ log = <<>> /\ sent = 0 /\ acks = <<>>
  /\ serving = [at |-> "due", id |-> 0, parts |-> {}]
  /\ outbox = <<>> /\ wire = <<>>
  /\ channel = "attaching"
  /\ syncState = "initialized"
  /\ pool = EmptyPool
  /\ syncPool = <<>> /\ syncId = 0 /\ buffered = <<>> /\ onAck = {}
  /\ call = [c \in Calls |-> [at |-> "idle", serials |-> <<>>]]
  /\ getter = [g \in Getters |-> "idle"]
  /\ count = 0

Disrupt(kind) == kind \in Disruptions /\ count < MaxDisruptions /\ count' = count + 1

-----------------------------------------------------------------------------
\* The service.

Sends(m) == Len(wire) < MaxInFlight /\ wire' = Append(wire, m)

\* Another client makes an operation on an object there is.
RemoteOperation ==
  /\ Len(log) < MaxOps
  /\ \E t \in {t \in Remote : t.object \in Known(Ops)}, s \in Sites \ {Own} :
        log' = Append(log, t @@ [site |-> s, serial |-> Len(log) + 1])
  /\ UNCHANGED <<sent, acks, serving, outbox, wire, channel, objects, waits, count>>

\* A write of this client is logged, to be acknowledged with the serials it got, or with none.
TakeWrite ==
  /\ outbox # <<>>
  /\ LET c  == Head(outbox)
         at == DOMAIN Writes[c]
         serial(i) == Len(log) + i
     IN  /\ Len(log) + Len(Writes[c]) <= MaxOps
         /\ log' = log \o [i \in at |-> Writes[c][i] @@ [site |-> Own, serial |-> serial(i)]]
         /\ \E serials \in {<<>>, [i \in at |-> serial(i)]} :
              acks' = Append(acks, [type |-> "ack", call |-> c, serials |-> serials])
  /\ outbox' = Tail(outbox)
  /\ UNCHANGED <<sent, serving, wire, channel, objects, waits, count>>

RefuseWrite ==
  /\ outbox # <<>>
  /\ Disrupt("refused")
  /\ acks' = Append(acks, [type |-> "nack", call |-> Head(outbox)])
  /\ outbox' = Tail(outbox)
  /\ UNCHANGED <<log, sent, serving, wire, channel, objects, waits>>

SendAck ==
  /\ acks # <<>>
  /\ Sends(Head(acks))
  /\ acks' = Tail(acks)
  /\ UNCHANGED <<log, sent, serving, outbox, channel, objects, waits, count>>

\* An operation is sent to the client, one of its own too.
SendOperation ==
  /\ serving.at = "on"
  /\ sent < Len(log)
  /\ sent' = sent + 1
  /\ Sends([type |-> "object", op |-> log[sent + 1]])
  /\ UNCHANGED <<log, acks, serving, outbox, channel, objects, waits, count>>

\* A sync is sent in parts: a map key by key, a counter in one.
PartsOf(ops) ==
  {<<o, k>> : o \in Maps \cap Known(ops), k \in Keys}
    \union {<<o, None>> : o \in Counters \cap Known(ops)}

Part(ops, part) ==
  LET state == StateOf(ops, part[1], Keys)
  IN  [state EXCEPT !.entries = [k \in DOMAIN @ \cap {part[2]} |-> @[k]]]

NewSync == [at |-> "on", id |-> serving.id + 1, parts |-> PartsOf(Ops)]

SendAttached ==
  /\ serving.at = "due"
  /\ serving' = IF Ops = {} THEN [serving EXCEPT !.at = "on"] ELSE NewSync
  /\ sent' = Len(log)
  /\ Sends([type |-> "attached", hasObjects |-> Ops # {}])
  /\ UNCHANGED <<log, acks, outbox, channel, objects, waits, count>>

\* A page, of what the sync still is to send.
Page(sync) ==
  \E part \in sync.parts :
     /\ serving' = [sync EXCEPT !.parts = @ \ {part}]
     /\ Sends([type |-> "sync", id |-> sync.id, states |-> <<Part(Ops, part)>>,
               last |-> sync.parts = {part}])

SendPage ==
  /\ Page(serving)
  /\ UNCHANGED <<log, sent, acks, outbox, channel, objects, waits, count>>

\* The service starts a sync of its own accord, over one that may be under way: of what there is
\* when the first page is sent.
Resync ==
  /\ serving.at = "on" /\ Ops # {}
  /\ Disrupt("resync")
  /\ Page(NewSync)
  /\ UNCHANGED <<log, sent, acks, outbox, channel, objects, waits>>

\* A sync in a single message, that names no sequence.
ResyncWhole ==
  /\ serving.at = "on" /\ Ops # {}
  /\ Disrupt("whole")
  /\ serving' = [serving EXCEPT !.parts = {}]
  /\ Sends([type |-> "sync", id |-> 0, last |-> TRUE,
            states |-> SetToSeq({StateOf(Ops, o, Keys) : o \in Known(Ops)})])
  /\ UNCHANGED <<log, sent, acks, outbox, channel, objects, waits>>

-----------------------------------------------------------------------------
\* Operations.

\* Mutant of ApplyOne: what was applied on its ACK is not remembered.
ApplyOneForgetting(r, op, source) ==
  [pool |-> ApplyOperation(r.pool, op, source).pool, onAck |-> r.onAck]

\* _apply_object_message: an operation applied when it was acknowledged is not applied again.
ApplyOne(r, op, source) ==
  IF op.serial \in r.onAck
  THEN [r EXCEPT !.onAck = @ \ {op.serial}]
  ELSE LET s == ApplyOperation(r.pool, op, source)
       IN  [pool  |-> s.pool,
            onAck |-> IF source = "local" /\ s.applied THEN r.onAck \union {op.serial} ELSE r.onAck]

Apply(p, ops, source) ==
  FoldLeft(LAMBDA r, op : ApplyOne(r, op, source), [pool |-> p, onAck |-> onAck], ops)

\* _handle_object_messages
OnObject(op) ==
  /\ IF syncState # "synced"
     THEN buffered' = Append(buffered, op) /\ UNCHANGED <<pool, onAck>>
     ELSE /\ LET r == Apply(pool, <<op>>, "channel") IN pool' = r.pool /\ onAck' = r.onAck
          /\ UNCHANGED buffered
  /\ UNCHANGED <<channel, syncState, syncPool, syncId, waits>>

-----------------------------------------------------------------------------
\* Syncs.

\* get() that waits for the sync is over; one that waits for the channel goes on.
GettersGoOn ==
  getter' = [g \in Getters |-> CASE getter[g] = "waiting"   -> "idle"
                                 [] getter[g] = "attaching" -> "active"
                                 [] OTHER                   -> getter[g]]

\* Mutant of WakeWaiters: a publisher is left waiting.
WakeGetters ==
  /\ UNCHANGED call
  /\ GettersGoOn

\* _resolve_sync_waiters
WakeWaiters ==
  /\ call' = [c \in Calls |-> [call[c] EXCEPT !.at = IF @ = "waiting" THEN "woken" ELSE @]]
  /\ GettersGoOn

\* _complete_sync, of the states the sync pool then holds.
Complete(p, states, ops) ==
  /\ LET r == Apply(CompleteSync(p, states).pool, ops, "channel") IN pool' = r.pool
  /\ syncPool' = <<>> /\ syncId' = 0 /\ buffered' = <<>> /\ onAck' = {}
  /\ syncState' = "synced"
  /\ WakeWaiters

\* _on_attached, of a channel that is attaching or attached; get() goes on once it is.
OnAttached(hasObjects) ==
  IF channel \notin {"attaching", "attached"}
  THEN UNCHANGED <<channel, objects, waits>>
  ELSE /\ channel' = "attached"
       /\ IF hasObjects
          THEN /\ syncState' = "syncing"
               /\ buffered' = <<>> /\ syncPool' = <<>> /\ syncId' = 0
               /\ getter' = [g \in Getters |-> IF getter[g] = "attaching" THEN "active" ELSE getter[g]]
               /\ UNCHANGED <<pool, onAck, call>>
          ELSE /\ Complete(ClearObjects(pool).pool, <<>>, <<>>)

\* What the message adds to: another sequence id, or none, starts a new sequence.
Sequence(m) == IF m.id = 0 \/ m.id # syncId THEN <<>> ELSE syncPool

\* _handle_object_sync_messages
OnSync(m) ==
  LET states == FoldLeft(AddSyncState, Sequence(m), m.states)
  IN  /\ IF m.last
         THEN Complete(pool, states, buffered)
         ELSE /\ syncState' = "syncing"
              /\ syncId' = m.id
              /\ syncPool' = states
              /\ UNCHANGED <<pool, buffered, onAck, waits>>
      /\ UNCHANGED channel

\* The future of the write is resolved; the publisher goes on later.
OnAck(m) ==
  /\ call' = [call EXCEPT ![m.call] = IF m.type = "nack" THEN [@ EXCEPT !.at = "failed"]
                                      ELSE [at |-> "acked", serials |-> m.serials]]
  /\ UNCHANGED <<channel, objects, getter>>

Receive ==
  /\ wire # <<>>
  /\ LET m == Head(wire)
     IN  CASE m.type = "attached" -> OnAttached(m.hasObjects)
           [] m.type = "sync"     -> OnSync(m)
           [] m.type = "object"   -> OnObject(m.op)
           [] OTHER               -> OnAck(m)
  /\ wire' = Tail(wire)
  /\ UNCHANGED <<service, outbox, count>>

-----------------------------------------------------------------------------
\* Writes and get().

\* _check_write_preconditions
MayWrite == channel \notin {"detached", "suspended", "failed"}

Goes(c, at) ==
  /\ call' = [call EXCEPT ![c].at = at]
  /\ UNCHANGED <<service, outbox, wire, channel, objects, getter, count>>

\* _resolve_for_write: what a write does not make itself is there to be written to.
Resolves(c) ==
  {Writes[c][i].object : i \in DOMAIN Writes[c]}
    \ {Writes[c][i].object : i \in {i \in DOMAIN Writes[c] : Writes[c][i].action = "create"}}
    \subseteq {o \in DOMAIN pool : ~pool[o].tombstone}

MayBegin(c) == call[c].at = "idle" /\ MayWrite /\ Resolves(c)

\* A write by itself ...
Write(c) == MayBegin(c) /\ Goes(c, "building")

\* ... or a batch is opened.
Open(c) == MayBegin(c) /\ Goes(c, "open")

\* The block raises, as a write in it does when the preconditions have gone or its value is
\* not valid: nothing of the batch is published.
Abandon(c) == call[c].at = "open" /\ Goes(c, "failed")

\* flush(): the block may have awaited, so the preconditions are checked again; then the messages
\* are built, which may need the time of the server.
Flush(c) == call[c].at = "open" /\ Goes(c, IF MayWrite THEN "building" ELSE "failed")

\* _throw_if_unpublishable_state: a DETACHED channel may publish.
Publishable == channel \notin {"suspended", "failed"}

\* _publish
Publish(c) ==
  /\ call[c].at = "building"
  /\ IF Publishable
     THEN call' = [call EXCEPT ![c].at = "sent"] /\ outbox' = Append(outbox, c)
     ELSE call' = [call EXCEPT ![c].at = "failed"] /\ UNCHANGED outbox
  /\ UNCHANGED <<service, wire, channel, objects, getter, count>>

\* The operations of an acknowledged write as they are applied locally.
Synthetic(c) ==
  [i \in DOMAIN Writes[c] |-> Writes[c][i] @@ [site |-> Own, serial |-> call[c].serials[i]]]

\* Mutant of ApplyWrite: the state of the channel is not looked at again.
ApplyWriteUnchecked(c) ==
  /\ LET r == Apply(pool, Synthetic(c), "local") IN pool' = r.pool /\ onAck' = r.onAck
  /\ call' = [call EXCEPT ![c].at = "done"]

\* _publish_and_apply once the wait for SYNCED is over, or was not needed.
ApplyWrite(c) ==
  /\ IF channel \in Clearing
     THEN UNCHANGED <<pool, onAck>>
     ELSE LET r == Apply(pool, Synthetic(c), "local") IN pool' = r.pool /\ onAck' = r.onAck
  /\ call' = [call EXCEPT ![c].at = "done"]

\* _publish_and_apply goes on after the ACK, or after the wait.
ResumeWrite(c) ==
  /\ \/ /\ call[c].at = "acked" /\ call[c].serials = <<>>
        /\ call' = [call EXCEPT ![c].at = "done"]
        /\ UNCHANGED <<pool, onAck>>
     \/ /\ call[c].at = "acked" /\ call[c].serials # <<>> /\ syncState # "synced"
        /\ call' = [call EXCEPT ![c].at = IF channel \in Clearing THEN "failed" ELSE "waiting"]
        /\ UNCHANGED <<pool, onAck>>
     \/ /\ call[c].at = "acked" /\ call[c].serials # <<>> /\ syncState = "synced"
        /\ ApplyWrite(c)
     \/ call[c].at = "woken" /\ ApplyWrite(c)
  /\ UNCHANGED <<service, outbox, wire, channel, syncState, syncPool, syncId, buffered, getter, count>>

\* get(): the channel is attached first, unless it is or is SUSPENDED.
GetCall(g) ==
  /\ getter[g] = "idle"
  /\ channel # "failed"
  /\ getter' = [getter EXCEPT ![g] = IF channel \in {"attached", "suspended"} THEN "active" ELSE "attaching"]
  /\ IF channel = "detached"
     THEN channel' = "attaching" /\ serving' = [serving EXCEPT !.at = "due"]
     ELSE UNCHANGED <<channel, serving>>
  /\ UNCHANGED <<log, sent, acks, outbox, wire, objects, call, count>>

GetGoesOn(g) ==
  /\ getter[g] = "active"
  /\ getter' = [getter EXCEPT ![g] = IF syncState = "synced" \/ channel \in Clearing
                                     THEN "idle" ELSE "waiting"]
  /\ UNCHANGED <<service, outbox, wire, channel, objects, call, count>>

-----------------------------------------------------------------------------
\* What becomes of the channel.

IsAck(m) == m.type \in {"ack", "nack"}

\* The connection is lost and not resumed: what was on the way is gone, the writes that were
\* not acknowledged are sent again, and the channel attaches again.
Lose ==
  /\ channel \in {"attaching", "attached"}
  /\ Disrupt("lost")
  /\ LET unanswered == SelectSeq(wire, IsAck) \o acks
     IN  outbox' = [i \in DOMAIN unanswered |-> unanswered[i].call] \o outbox
  /\ acks' = <<>> /\ wire' = <<>>
  /\ channel' = "attaching"
  /\ serving' = [serving EXCEPT !.at = "due", !.parts = {}]
  /\ UNCHANGED <<log, sent, objects, waits>>

\* _fail_sync_waiters; an attach that was waited for fails too.
FailWaiters ==
  /\ call' = [c \in Calls |-> [call[c] EXCEPT !.at = IF @ = "waiting" THEN "failed" ELSE @]]
  /\ getter' = [g \in Getters |-> IF getter[g] \in {"waiting", "attaching"} THEN "idle" ELSE getter[g]]

\* _act_on_channel_state, for SUSPENDED, DETACHED and FAILED. The service sends no more of the
\* channel, and what it had sent comes before the DETACHED or ERROR that ends an attachment, or is
\* lost with the connection. After a state timer or a local detach it may still come, and is
\* handled whatever the state of the channel ("late").
Leave(state) ==
  /\ channel \in {"attaching", "attached"}
  /\ Disrupt(state)
  /\ channel' = state
  /\ FailWaiters
  /\ IF state \in Clearing
     THEN pool' = ClearAllData(pool) /\ syncPool' = <<>>
     ELSE UNCHANGED <<pool, syncPool>>
  /\ wire' = IF "late" \in Disruptions THEN wire ELSE SelectSeq(wire, IsAck)
  /\ serving' = [serving EXCEPT !.at = "off", !.parts = {}]
  /\ UNCHANGED <<log, sent, acks, outbox, syncState, syncId, buffered, onAck>>

\* The channel attaches again: by its retry timer, or by a call of attach().
Attach(state) ==
  /\ channel = state
  /\ channel' = "attaching"
  /\ serving' = [serving EXCEPT !.at = "due"]
  /\ UNCHANGED <<log, sent, acks, outbox, wire, objects, waits, count>>

Service ==
  RemoteOperation \/ TakeWrite \/ RefuseWrite \/ SendAck \/ SendOperation \/ SendAttached \/ SendPage
    \/ Resync \/ ResyncWhole

Client ==
  \/ Receive
  \/ \E c \in Calls : Write(c) \/ Open(c) \/ Abandon(c) \/ Flush(c) \/ Publish(c) \/ ResumeWrite(c)
  \/ \E g \in Getters : GetCall(g) \/ GetGoesOn(g)

Next ==
  \/ Service
  \/ Client
  \/ Lose
  \/ \E state \in {"suspended", "detached", "failed"} : Leave(state) \/ Attach(state)

Spec == Init /\ [][Next]_vars

\* The steps that are fair, by what they do to the messages and the callers: the service
\* sends what it has, the client handles the message that arrives, publishers and get() go
\* on, and a SUSPENDED channel is attached again by its retry timer.
Outgoing ==
  (IF serving.at = "due" THEN {[type |-> "attached", hasObjects |-> Ops # {}]} ELSE {})
    \union (IF serving.at = "on" /\ sent < Len(log) THEN {[type |-> "object", op |-> log[sent + 1]]} ELSE {})
    \union {acks[i] : i \in {1} \cap DOMAIN acks}
Serves == Len(wire) < MaxInFlight /\ \E m \in Outgoing : wire' = Append(wire, m)
Pages == /\ Len(wire) < MaxInFlight
         /\ \E part \in serving.parts : serving' = [serving EXCEPT !.parts = @ \ {part}]
Handles == wire # <<>> /\ wire' = Tail(wire)
GoesOn(c) == /\ call[c].at \in {"acked", "woken"}
             /\ \E at \in {"waiting", "done", "failed"} : call' = [call EXCEPT ![c].at = at]
Gets(g) == /\ getter[g] = "active"
           /\ \E at \in {"waiting", "idle"} : getter' = [getter EXCEPT ![g] = at]
AttachesAgain == channel = "suspended" /\ channel' = "attaching"

\* What is bounded cannot go on for ever while something else waits, so that one condition
\* does for all that the service sends.
Fairness ==
  /\ WF_wire(Serves) /\ WF_serving(Pages) /\ WF_wire(Handles)
  /\ \A c \in Calls : WF_call(GoesOn(c))
  /\ \A g \in Getters : WF_getter(Gets(g))
  /\ WF_channel(AttachesAgain)

FairSpec == Spec /\ Fairness

-----------------------------------------------------------------------------
\* Every call, message and serial is one of those the code knows, and nothing is left of a sync
\* that is complete.
TypeOK ==
  /\ sent \in 0..Len(log)
  /\ channel \in {"attaching", "attached", "suspended", "detached", "failed"}
  /\ syncState \in {"initialized", "syncing", "synced"}
  /\ DOMAIN pool \subseteq Ids /\ DOMAIN syncPool \subseteq Ids
  /\ onAck \subseteq DOMAIN log
  /\ \A c \in Calls : call[c].at \in {"idle", "open", "building", "sent", "acked", "waiting", "woken", "done", "failed"}
  /\ getter \in [Getters -> {"idle", "attaching", "active", "waiting"}]
  /\ syncState = "synced" => buffered = <<>> /\ syncPool = <<>>

\* The operations of the channel that the client has handled.
Handled == sent - Len(SelectSeq(wire, LAMBDA m : m.type = "object"))

\* An object, or a key of a map, as it is in a pool and as operations make it.
ShownAt(o, k) == LET s == Shown(pool, o) IN IF o \in Maps THEN [x \in DOMAIN s \cap {k} |-> s[x]] ELSE s
MeantAt(ops, o, k) == Meaning(ops, o, {k})

\* While the channel is attached and no sync is in progress, every counter and every key of a
\* map stands for all the operations handled so far, none of them twice and none lost: those up
\* to some point not before the last one handled, and those of the client's own applied on ACK
\* whose echo is still to come.
EachOperationOnce ==
  (channel = "attached" /\ syncState = "synced") =>
     /\ \A serial \in onAck : serial > Handled
     /\ \A o \in Ids, k \in Keys : \E n \in Handled..Len(log) :
        ShownAt(o, k) = MeantAt({op \in Ops : op.serial <= n \/ op.serial \in onAck}, o, k)

\* Nobody sees half of what a write made: while no sync is in progress, an object that is found
\* in a map has its initial value, whichever of the operations of the write have come.
SeenWhole ==
  (channel = "attached" /\ syncState = "synced") =>
     \A m \in Maps \cap DOMAIN pool, k \in Keys : Get(pool, m, k) \in Ids => pool[Get(pool, m, k)].merged

\* The data of a channel that is DETACHED or FAILED stays gone, whatever acknowledgements and
\* resumed publishers come late.
ClearedStaysEmpty ==
  channel \in Clearing => \A o \in Ids : Shown(pool, o) = Shown(EmptyPool, o)

\* Every wait for SYNCED ends: there comes a time when nobody waits, neither a publisher whose
\* write was acknowledged nor a caller of get().
SomebodyWaits ==
  \/ \E c \in Calls : call[c].at = "waiting"
  \/ \E g \in Getters : getter[g] # "idle"

WaitsEnd == SomebodyWaits ~> ~SomebodyWaits

=============================================================================
