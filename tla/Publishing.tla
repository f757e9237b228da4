----------------------------- MODULE Publishing -----------------------------
(***************************************************************************)
(* The send path of the realtime client: how ConnectionManager numbers,    *)
(* queues, sends, resends, settles and fails protocol messages while the   *)
(* connection under it comes and goes (realtime/connectionmanager.py).     *)
(*                                                                         *)
(* The client is one asyncio event loop: a handler runs to its next await  *)
(* without interruption, so an action is the code between two awaits.      *)
(* Timers and retries are reduced here to "may fire whenever armed"; the   *)
(* module Connection has them in full.                                     *)
(***************************************************************************)
EXTENDS Integers, Sequences, Functions

CONSTANTS
  Messages,       \* the protocol messages the application sends, each once
  Control,        \* those that take no msgSerial and no answer (AUTH, ATTACH, ...)
  Ids,            \* connection ids the server hands out
  NoId,           \* connection_id is None
  NoResult,       \* an empty PublishResult
  QueueMessages,  \* ClientOptions.queue_messages
  Disruptions     \* the ways in which the server or the network disturbs this instance

AllDisruptions ==
  {"socket",        \* the websocket closes or breaks
   "idle",          \* nothing was received for max_idle_interval
   "disconnected",  \* a DISCONNECTED protocol message
   "fallback",      \* a DISCONNECTED with a 5xx status, or with no error at all
   "fatal",         \* an ERROR without a channel
   "clientid",      \* a CONNECTED naming another clientId
   "overlap",       \* the application connects while close() is still under way
   "offline",       \* the application publishes while the connection is down
   "early"}         \* the application publishes before the queue has been flushed

ASSUME ConstantsAssumption ==
  /\ Control \subseteq Messages
  /\ Ids # {} /\ NoId \notin Ids
  /\ NoResult \notin Messages
  /\ QueueMessages \in BOOLEAN
  /\ Disruptions \subseteq AllDisruptions

AckRequired == Messages \ Control

VARIABLES
  state,         \* ConnectionManager.__state
  transport,     \* .transport: None, or what its websocket is good for
  disposing,     \* the handler that is awaiting transport.dispose(), if any
  closeImpl,     \* progress of the close_impl task
  armed,         \* a connect attempt is running, under its transition timer
  connectionId,  \* .connection_id
  msgSerial,     \* .msg_serial
  pending,       \* .pending_message_queue.messages, oldest first
  queued,        \* .queued_messages, the right end (popped next) first
  tasks,         \* create_task(_send_protocol_message_on_connected_state(...)) not yet run
  serial,        \* message['msgSerial'], -1 when there is none
  future,        \* PendingMessage.future; "sent" stands for a message that has none
  result,        \* the PublishResult the future was resolved with
  raised,        \* messages whose caller leaves with the exception of transport.send()
  wire           \* frames written to the transport that the server has not answered

lifecycle == <<state, transport, disposing, closeImpl, armed, connectionId>>
vars == <<state, transport, disposing, closeImpl, armed, connectionId, msgSerial,
          pending, queued, tasks, serial, future, result, raised, wire>>

ConnectionStates == {"initialized", "connecting", "connected", "disconnected",
                     "suspended", "closing", "closed", "failed"}

TypeOK ==
  /\ state \in ConnectionStates
  /\ transport \in {"none", "opening", "open", "dead"}
  /\ disposing \in {"no", "idle", "disconnected", "fallback", "fatal"}
  /\ closeImpl \in {"no", "requested", "disposed"}
  /\ armed \in BOOLEAN
  /\ connectionId \in Ids \union {NoId}
  /\ msgSerial \in Nat
  /\ pending \in Seq(AckRequired)
  /\ queued \in Seq(Messages)
  /\ tasks \in Seq(Messages)
  /\ serial \in [Messages -> Nat \union {-1}]
  /\ future \in [Messages -> {"idle", "waiting", "ok", "error", "sent"}]
  /\ result \in [Messages -> Messages \union {NoResult}]
  /\ raised \subseteq Messages
  /\ wire \in Seq([msg : AckRequired, serial : Nat \union {-1}])

Init ==
  /\ state = "initialized"
  /\ transport = "none"
  /\ disposing = "no"
  /\ closeImpl = "no"
  /\ armed = FALSE
  /\ connectionId = NoId
  /\ msgSerial = 0
  /\ pending = <<>>
  /\ queued = <<>>
  /\ tasks = <<>>
  /\ serial = [m \in Messages |-> -1]
  /\ future = [m \in Messages |-> "idle"]
  /\ result = [m \in Messages |-> NoResult]
  /\ raised = {}
  /\ wire = <<>>

Waiting == {m \in Messages : future[m] = "waiting"}

\* future.set_exception on each of ms, behind the check of future.done().
Failing(fut, ms) ==
  [m \in Messages |-> IF m \in ms /\ fut[m] = "waiting" THEN "error" ELSE fut[m]]

-----------------------------------------------------------------------------
(* Sending. *)

QueueingStates == {"initialized", "disconnected", "connecting"}

\* A transport whose websocket is not open makes send() raise: nothing is written.
Transmit(m, s) ==
  wire' = IF transport = "open" /\ m \in AckRequired
          THEN Append(wire, [msg |-> m, serial |-> s])
          ELSE wire

\* pend and fut are the pending queue and the futures as the caller left them.
SendWithoutRegistering(m, s, pend, fut) ==  \* mutant: a resend is not pushed
  IF state = "connected" /\ transport # "none"
  THEN pending' = pend /\ Transmit(m, s) /\ future' = fut
  ELSE pending' = pend /\ future' = Failing(fut, {m}) /\ UNCHANGED wire

SendOnConnectedState(m, s, pend, fut) ==
  IF state = "connected" /\ transport # "none"
  THEN /\ pending' = IF m \in Control \/ m \in Range(pend) THEN pend ELSE Append(pend, m)
       /\ Transmit(m, s)
       /\ future' = fut
  ELSE /\ pending' = pend
       /\ future' = Failing(fut, {m})
       /\ UNCHANGED wire

\* A call in any other state, or in a queueing state with queue_messages off,
\* raises before anything is recorded.  When transport.send() raises, at once or when
\* the websocket has closed, so does the call, which has pushed the message already;
\* in a task that sends the message again, the exception goes nowhere.
SendProtocolMessage(m) ==
  /\ future[m] = "idle"
  /\ \/ state = "connected" /\ (tasks = <<>> \/ "early" \in Disruptions)
     \/ state \in QueueingStates /\ QueueMessages /\ "offline" \in Disruptions
  /\ LET ack  == m \in AckRequired
         pend == IF ack THEN Append(pending, m) ELSE pending
         fut  == [future EXCEPT ![m] = IF ack THEN "waiting" ELSE "sent"]
     IN  /\ serial' = IF ack THEN [serial EXCEPT ![m] = msgSerial] ELSE serial
         /\ msgSerial' = IF ack THEN msgSerial + 1 ELSE msgSerial
         /\ IF state = "connected"
            THEN SendOnConnectedState(m, msgSerial, pend, fut) /\ UNCHANGED queued
            ELSE /\ queued' = Append(queued, m)
                 /\ pending' = pend
                 /\ future' = fut
                 /\ UNCHANGED wire
  /\ raised' = IF state = "connected" /\ transport \in {"opening", "dead"}
               THEN raised \union {m}
               ELSE raised
  /\ UNCHANGED <<lifecycle, tasks, result>>

\* The first step of a task that send_queued_messages created.
RunSendTask ==
  /\ tasks # <<>>
  /\ tasks' = Tail(tasks)
  /\ SendOnConnectedState(Head(tasks), serial[Head(tasks)], pending, future)
  /\ UNCHANGED <<lifecycle, msgSerial, queued, serial, result, raised>>

-----------------------------------------------------------------------------
(* Answers.  The server answers the frames of a connection in the order    *)
(* they were written, and may answer several with one ACK or NACK.         *)

Answerable(n) ==
  /\ transport = "open"
  /\ n \in 1..Len(wire)
  /\ \A i \in 1..n : wire[i].serial = wire[1].serial + i - 1

NumToCompleteInclusive(first, count) ==  \* mutant: end_serial taken as inclusive
  IF pending = <<>> \/ first + count <= serial[Head(pending)]
  THEN 0
  ELSE IF first + count - serial[Head(pending)] < Len(pending)
       THEN first + count - serial[Head(pending)] + 1
       ELSE Len(pending)

\* How many messages at the head of the queue an answer for count serials settles.
NumToComplete(first, count) ==
  IF pending = <<>> \/ first + count <= serial[Head(pending)]
  THEN 0
  ELSE IF first + count - serial[Head(pending)] <= Len(pending)
       THEN first + count - serial[Head(pending)]
       ELSE Len(pending)

\* The k oldest pending messages whose future is not done.
Completing(k) == {pending[i] : i \in 1..k} \intersect Waiting

\* zip_longest pairs the i-th settled message with the i-th result of the ACK.
OnAck(n) ==
  /\ Answerable(n)
  /\ LET k == NumToComplete(wire[1].serial, n)
         Position(m) == CHOOSE i \in 1..k : pending[i] = m
     IN  /\ pending' = SubSeq(pending, k + 1, Len(pending))
         /\ future' = [m \in Messages |-> IF m \in Completing(k) THEN "ok" ELSE future[m]]
         /\ result' = [m \in Messages |->
                         IF m \in Completing(k) /\ Position(m) <= n
                         THEN wire[Position(m)].msg
                         ELSE result[m]]
  /\ wire' = SubSeq(wire, n + 1, Len(wire))
  /\ UNCHANGED <<lifecycle, msgSerial, queued, tasks, serial, raised>>

OnNack(n) ==
  /\ Answerable(n)
  /\ LET k == NumToComplete(wire[1].serial, n)
     IN  /\ pending' = SubSeq(pending, k + 1, Len(pending))
         /\ future' = Failing(future, {pending[i] : i \in 1..k})
  /\ wire' = SubSeq(wire, n + 1, Len(wire))
  /\ UNCHANGED <<lifecycle, msgSerial, queued, tasks, serial, result, raised>>

-----------------------------------------------------------------------------
(* What a state change does to the send path.                              *)

FailOnlyQueued(pend, q) ==  \* mutant: the pending queue is left as it is
  /\ pending' = pend
  /\ queued' = <<>>
  /\ future' = Failing(future, Range(q))

ClearQueuedMessages(pend, q) ==  \* mutant: the futures are forgotten
  /\ pending' = <<>>
  /\ queued' = <<>>
  /\ UNCHANGED future

FailKeepingPending(pend, q) ==  \* mutant: the pending messages fail but are not removed
  /\ pending' = pend
  /\ queued' = <<>>
  /\ future' = Failing(future, Range(pend) \union Range(q))

\* fail_queued_messages, applied to the queues pend and q.
FailQueuedMessages(pend, q) ==
  /\ pending' = <<>>
  /\ queued' = <<>>
  /\ future' = Failing(future, Range(pend) \union Range(q))

RequeuedReversed(pend, q) == [i \in 1..Len(pend) |-> pend[Len(pend) - i + 1]] \o q  \* mutant: no reversed()

\* requeue_pending_messages: the pending queue goes in front of the queued messages.
Requeued(pend, q) == pend \o q

NotifyDisconnectedKeeping(pend, q, hasTransport) ==  \* mutant: RTN7d is missing
  LET drop == state # "connected" /\ hasTransport
  IN  IF state = "disconnected"
      THEN /\ pending' = pend /\ queued' = q
           /\ UNCHANGED <<state, armed, future>>
      ELSE /\ state' = "disconnected"
           /\ armed' = FALSE
           /\ pending' = IF drop THEN <<>> ELSE pend
           /\ queued' = IF drop THEN Requeued(pend, q) ELSE q
           /\ UNCHANGED future

\* notify_state(DISCONNECTED): straight after CONNECTED the transport is left
\* alone, because the reconnection follows at once; otherwise it is dropped
\* and, if there is one, the pending messages are requeued.
NotifyDisconnected(pend, q, hasTransport) ==
  LET drop == state # "connected" /\ hasTransport
      p    == IF drop THEN <<>> ELSE pend
      qs   == IF drop THEN Requeued(pend, q) ELSE q
  IN  IF state = "disconnected"
      THEN /\ pending' = pend /\ queued' = q
           /\ UNCHANGED <<state, armed, future>>
      ELSE /\ state' = "disconnected"
           /\ armed' = FALSE
           /\ IF QueueMessages
              THEN pending' = p /\ queued' = qs /\ UNCHANGED future
              ELSE FailQueuedMessages(p, qs)

\* The transport after disconnect_transport() has disposed of it.
Dropped == IF transport = "none" THEN "none" ELSE "dead"

\* enact_state_change into SUSPENDED, CLOSED or FAILED forgets the connection.
ForgetConnection == connectionId' = NoId /\ msgSerial' = 0

-----------------------------------------------------------------------------
(* Connecting.                                                             *)

\* request_state(CONNECTING), by connect(), by the retry timer or by call_soon.
RequestConnecting ==
  /\ state \notin {"connecting", "connected"}
  /\ closeImpl = "no" \/ "overlap" \in Disruptions
  /\ state' = "connecting"
  /\ armed' = TRUE
  /\ UNCHANGED <<transport, disposing, closeImpl, connectionId, msgSerial, pending,
                 queued, tasks, serial, future, result, raised, wire>>

\* try_host replaces the transport, whatever became of the last one.
TryHost ==
  /\ armed
  /\ state = "connecting"
  /\ transport # "opening"
  /\ transport' = "opening"
  /\ wire' = <<>>
  /\ UNCHANGED <<state, disposing, closeImpl, armed, connectionId, msgSerial, pending,
                 queued, tasks, serial, future, result, raised>>

\* A CONNECTED message needs a network round trip, by when the tasks created
\* earlier (sends, close_impl) have had their first turn of the event loop.
ConnectedArrives ==
  /\ transport = "opening"
  /\ tasks = <<>>
  /\ closeImpl # "requested"

\* on_connected: id is the current connection when the server resumed it.
OnConnected(id) ==
  /\ ConnectedArrives
  /\ transport' = "open"
  /\ connectionId' = id
  /\ msgSerial' = IF connectionId \notin {NoId, id} THEN 0 ELSE msgSerial
  /\ IF state = "connected"
     THEN UNCHANGED <<state, armed, queued, tasks>>  \* only an UPDATE event
     ELSE /\ state' = "connected"
          /\ armed' = FALSE
          /\ tasks' = queued
          /\ queued' = <<>>
  /\ UNCHANGED <<disposing, closeImpl, pending, serial, future, result, raised, wire>>

\* on_connected with an incompatible clientId: FAILED, with the transport left open.
OnConnectedIncompatible ==
  /\ "clientid" \in Disruptions
  /\ ConnectedArrives
  /\ transport' = "open"
  /\ state' = "failed"
  /\ armed' = FALSE
  /\ ForgetConnection
  /\ FailQueuedMessages(pending, queued)
  /\ UNCHANGED <<disposing, closeImpl, tasks, serial, result, raised, wire>>

\* Every host failed, or the transition timer fired.
ConnectFails ==
  /\ armed
  /\ NotifyDisconnected(pending, queued, transport # "none")
  /\ transport' = Dropped
  /\ wire' = <<>>
  /\ UNCHANGED <<disposing, closeImpl, connectionId, msgSerial, tasks, serial, result, raised>>

\* The suspend timer fires, or a connect attempt fails once it has fired.
Suspend ==
  /\ armed \/ state = "disconnected"
  /\ state' = "suspended"
  /\ armed' = FALSE
  /\ transport' = Dropped
  /\ wire' = <<>>
  /\ ForgetConnection
  /\ FailQueuedMessages(pending, queued)
  /\ UNCHANGED <<disposing, closeImpl, tasks, serial, result, raised>>

-----------------------------------------------------------------------------
(* Losing the transport.                                                   *)

\* deactivate_transport: requeue, forget the transport, notify DISCONNECTED.
DeactivateTransport ==
  LET requeue == transport # "none"
  IN  /\ NotifyDisconnected(IF requeue THEN <<>> ELSE pending,
                            IF requeue THEN Requeued(pending, queued) ELSE queued,
                            FALSE)
      /\ transport' = "none"
      /\ wire' = <<>>

\* _handle_websocket_connection after the read loop ended by itself.
SocketCloses ==
  /\ "socket" \in Disruptions
  /\ transport \in {"opening", "open"}
  /\ DeactivateTransport
  /\ UNCHANGED <<disposing, closeImpl, connectionId, msgSerial, tasks, serial, result, raised>>

\* A handler disposes of the transport and waits for its websocket to close.
BeginDispose(why) ==
  /\ why \in Disruptions \intersect {"idle", "disconnected", "fallback", "fatal"}
  /\ disposing = "no"
  /\ transport = "open" \/ (why = "fatal" /\ transport = "opening")
  /\ disposing' = why
  /\ transport' = "dead"
  /\ wire' = <<>>
  /\ UNCHANGED <<state, closeImpl, armed, connectionId, msgSerial, pending, queued,
                 tasks, serial, future, result, raised>>

\* on_idle_timer_expire resumes in WebSocketTransport.disconnect.
IdleDisconnect ==
  /\ disposing = "idle"
  /\ disposing' = "no"
  /\ DeactivateTransport
  /\ UNCHANGED <<closeImpl, connectionId, msgSerial, tasks, serial, result, raised>>

\* on_disconnected resumes with an error that is neither 5xx nor about the token.
OnDisconnected ==
  /\ disposing = "disconnected"
  /\ disposing' = "no"
  /\ NotifyDisconnected(pending, queued, transport # "none")
  /\ transport' = IF state \in {"connected", "disconnected"} THEN transport ELSE Dropped
  /\ wire' = IF state \in {"connected", "disconnected"} THEN wire ELSE <<>>
  /\ UNCHANGED <<closeImpl, connectionId, msgSerial, tasks, serial, result, raised>>

\* on_disconnected resumes with a 5xx error and connects to a fallback host
\* without leaving its state; with no error, or no host left, it does nothing.
OnDisconnectedFallback ==
  /\ disposing = "fallback"
  /\ disposing' = "no"
  /\ \/ transport' = "opening" /\ wire' = <<>>
     \/ UNCHANGED <<transport, wire>>
  /\ UNCHANGED <<state, closeImpl, armed, connectionId, msgSerial, pending, queued,
                 tasks, serial, future, result, raised>>

\* on_error resumes: enact_state_change(FAILED), not notify_state.
OnError ==
  /\ disposing = "fatal"
  /\ disposing' = "no"
  /\ state' = "failed"
  /\ ForgetConnection
  /\ UNCHANGED <<transport, closeImpl, armed, pending, queued, tasks, serial, future,
                 result, raised, wire>>

-----------------------------------------------------------------------------
(* Closing.                                                                *)

\* request_state(CLOSING), which enacts it and creates the close_impl task.
RequestClosing ==
  /\ state \notin {"closing", "closed"}
  /\ closeImpl = "no"
  /\ state' = "closing"
  /\ closeImpl' = "requested"
  /\ UNCHANGED <<transport, disposing, armed, connectionId, msgSerial, pending, queued,
                 tasks, serial, future, result, raised, wire>>

\* close_impl up to its await of transport.dispose(), if there is a transport.
CloseDisposes ==
  /\ closeImpl = "requested"
  /\ transport # "none"
  /\ closeImpl' = "disposed"
  /\ transport' = "dead"
  /\ wire' = <<>>
  /\ armed' = FALSE
  /\ UNCHANGED <<state, disposing, connectionId, msgSerial, pending, queued, tasks,
                 serial, future, result, raised>>

\* The rest of close_impl, up to notify_state(CLOSED).  A handler that was
\* already waiting for the same websocket to close is resumed before it.
CloseCompletes ==
  /\ disposing = "no"
  /\ closeImpl = "disposed" \/ (closeImpl = "requested" /\ transport = "none")
  /\ closeImpl' = "no"
  /\ armed' = FALSE
  /\ state' = "closed"
  /\ ForgetConnection
  /\ IF state = "closed"
     THEN UNCHANGED <<pending, queued, future>>
     ELSE FailQueuedMessages(pending, queued)
  /\ UNCHANGED <<transport, disposing, tasks, serial, result, raised, wire>>

-----------------------------------------------------------------------------
Next ==
  \/ \E m \in Messages : SendProtocolMessage(m)
  \/ RunSendTask
  \/ \E n \in 1..Len(wire) : OnAck(n)
  \/ \E n \in 1..Len(wire) : OnNack(n)
  \/ RequestConnecting
  \/ TryHost
  \/ \E id \in Ids : OnConnected(id)
  \/ OnConnectedIncompatible
  \/ ConnectFails
  \/ Suspend
  \/ SocketCloses
  \/ \E why \in Disruptions : BeginDispose(why)
  \/ IdleDisconnect
  \/ OnDisconnected
  \/ OnDisconnectedFallback
  \/ OnError
  \/ RequestClosing
  \/ CloseDisposes
  \/ CloseCompletes

Spec == Init /\ [][Next]_vars

-----------------------------------------------------------------------------
(* Properties that hold whatever happens to the connection.                *)

\* A publish whose caller is still waiting is held by one of the three
\* containers, so that some later answer, resend or failure can settle it:
\* requeue_pending_messages, send_queued_messages and complete_messages move
\* messages between them and drop none.
NothingLost ==
  Waiting \subseteq Range(pending) \union Range(queued) \union Range(tasks)

\* Once SUSPENDED or CLOSED, notify_state has failed every publish, queued or
\* pending; only those already handed to a send task are still waiting.
DrainedWhenGivenUp ==
  state \in {"suspended", "closed"} => Waiting \subseteq Range(tasks)

-----------------------------------------------------------------------------
(* A property of instances where nothing is published while the connection *)
(* is down ("offline" is not among the disruptions).                       *)

\* A publish that is settled is in none of the containers: once its future has
\* failed, so that the application may publish it anew, or has its result, no
\* requeue, flush or task sends it again.
SettledIsNotSent ==
  (Range(pending) \union Range(queued) \union Range(tasks)) \intersect AckRequired \subseteq Waiting

\* The same for a publish whose caller left with the exception of transport.send():
\* this the code does not keep.
RaisedIsNotSent ==
  raised \intersect (Range(pending) \union Range(queued) \union Range(tasks)) \subseteq Control

-----------------------------------------------------------------------------
(* Properties of instances where nothing is published while the connection *)
(* is down ("offline" is not among the disruptions, or queue_messages is   *)
(* off) and no transport is replaced behind the back of the state machine. *)

\* A publish reported as successful carries the result the server gave to that
\* very message: complete_messages pairs results with messages by position.
ResultIsOwn ==
  \A m \in Messages : future[m] = "ok" => result[m] = m

\* Every publish still waiting when the connection comes back is on its way to
\* the new transport, in the order of the serials: requeue_pending_messages says
\* that these messages "will be resent when connection becomes CONNECTED again",
\* and it and send_queued_messages work at opposite ends of a deque to keep order.
ResentInOrder ==
  [][state # "connected" /\ state' = "connected" =>
       /\ Waiting \subseteq Range(tasks')
       /\ \A i, j \in DOMAIN tasks' :
            i < j /\ {tasks'[i], tasks'[j]} \subseteq Waiting => serial[tasks'[i]] < serial[tasks'[j]]]_vars

\* With queue_messages off the send path implements the promise of publish(), which
\* is the future of the message.  A caller whose send() raised does not await it.
Outcome(m) == CASE future[m] = "ok" /\ result[m] = m -> "delivered"
                [] future[m] = "error" -> "failed"
                [] OTHER -> "none"

Contract == INSTANCE PublishContract WITH
  Messages <- AckRequired,
  inflight <- pending,
  outcome  <- [m \in AckRequired |-> Outcome(m)]

KeepsContract == Contract!Spec

-----------------------------------------------------------------------------
(* Liveness.  The event loop runs every task that is ready, a disposed     *)
(* websocket closes within its close timeout, and the server answers what  *)
(* it received on a connection that stays up.  Nothing is assumed of the   *)
(* application, of the network, or of the timers.                          *)

Answered == \E n \in 1..Len(wire) : OnAck(n) \/ OnNack(n)
Resumed == IdleDisconnect \/ OnDisconnected \/ OnDisconnectedFallback \/ OnError

Fairness ==
  /\ WF_vars(RunSendTask)
  /\ WF_vars(Answered)
  /\ WF_vars(Resumed)
  /\ WF_vars(CloseDisposes)
  /\ WF_vars(CloseCompletes)

FairSpec == Spec /\ Fairness

Settled(m) == future[m] \in {"ok", "error"}

\* With queue_messages off the future of no publish stays open: it is answered, or
\* it fails as soon as the connection is lost.
EveryPublishSettles ==
  \A m \in Messages : future[m] = "waiting" ~> Settled(m)

=============================================================================
