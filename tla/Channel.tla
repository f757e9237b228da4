------------------------------- MODULE Channel -------------------------------
(***************************************************************************)
(* One realtime channel (realtime/channel.py): attach, detach and          *)
(* set_options, the state timer and the retry timer, what the connection   *)
(* propagates to its channels, and what passes between the client and the  *)
(* server: ATTACH, DETACH, and the messages the channel's subscribers get, *)
(* each whole or as a delta from the one before it (types/message.py,      *)
(* types/mixins.py).                                                       *)
(*                                                                         *)
(* The connection is the one Connection describes, seen from a channel:    *)
(* "disconnected" stands for DISCONNECTED and for CONNECTING.  The server  *)
(* is external: it answers in order, and an unreliable connection loses    *)
(* what is under way in both directions.  A channel serial is a position   *)
(* in the channel's history, whose messages are 1, 2, ...                  *)
(***************************************************************************)
EXTENDS Integers, Sequences, SequencesExt

CONSTANTS
  MaxMessages,  \* bound: the messages that are published on the channel
  MaxInFlight,  \* bound: messages under way when the application, the retry timer or the
                \* server adds one, or when the connection is lost
  Disruptions   \* what disturbs the channel in this instance

AllDisruptions ==
  {"lost",        \* the connection is lost and comes back, with or without the attachment
   "suspended",   \* ... or stays away until it is SUSPENDED
   "closed",      \* the application closes the connection
   "failed",      \* the connection fails
   "error",       \* ... by a connection-level ERROR (on_error)
   "update",      \* a CONNECTED while CONNECTED
   "denied",      \* the server refuses an ATTACH, with DETACHED or with ERROR
   "detached",    \* the server detaches the channel
   "reattached",  \* the server sends another ATTACHED
   "undecodable", \* the decoder fails on a delta
   "unreadable",  \* decoding fails otherwise, or there is no decoder (40019)
   "whole",       \* a message is sent whole although a delta could be
   "forgotten",   \* the server cannot go on from the serial it is given
   "timeout",     \* the server takes longer than realtime_request_timeout
   "again",       \* detach() is called while DETACHING
   "options"}     \* set_options changes the params or the modes

ASSUME ConstantsAssumption ==
  MaxMessages \in Nat /\ MaxInFlight \in Nat /\ Disruptions \subseteq AllDisruptions

VARIABLES
  state,          \* RealtimeChannel.__state
  stateTimer,     \* .__state_timer is running
  retryTimer,     \* .__retry_timer: "none", "running", or "expired" and not forgotten
  waiters,        \* the calls that await the next change of state
  implicitAttach, \* the task of _attach_implicitly has not yet run
  recovering,     \* .__decode_failure_recovery_in_progress
  channelSerial,  \* .__channel_serial
  context,        \* .__decoding_context: the last message decoded, and its payload
  connection,     \* the state of the connection
  tasks,          \* send tasks that have not yet run
  queued,         \* ATTACH and DETACH in ConnectionManager.queued_messages
  toServer, toClient,  \* the messages on the wire
  serverAttached, \* the server holds the channel attached for this connection
  stream,         \* the server sends messages: "off", "start" of an attachment, or "on"
  position,       \* the last message it has sent
  newest,         \* the last message it has sent to anyone
  got             \* history: what became of each message

vars == <<state, stateTimer, retryTimer, waiters, implicitAttach, recovering, channelSerial, context,
          connection, tasks, queued, toServer, toClient, serverAttached, stream, position, newest, got>>
channel == <<state, stateTimer, retryTimer, waiters, recovering, channelSerial>>
server == <<serverAttached, stream, position, newest>>
wire == <<toServer, toClient, server>>
data == <<context, got>>

ChannelStates == {"initialized", "attaching", "attached", "detaching", "detached",
                  "suspended", "failed"}
Pending == {"attaching", "detaching"}

NoSerial == -1
Garbage == -1
Messages == 1..MaxMessages
Serials == {NoSerial} \union 0..MaxMessages
Requests == [action : {"ATTACH", "DETACH"}, serial : Serials]
SendTasks == [action : {"ATTACH", "DETACH"}, serial : Serials, fresh : BOOLEAN]
Replies ==
  [action : {"DETACHED", "ERROR"}]
    \union [action : {"ATTACHED"}, serial : Serials, continues : BOOLEAN]
    \union [action : {"MESSAGE"}, first : Messages, last : Messages, whole : BOOLEAN]

\* A message may be passed over ("no" after its place) if it is excused; it came "early"
\* if an ATTACH was under way that asks for it again.
Fates == {"no", "excused", "early", "yes", "twice"}

TypeOK ==
  /\ state \in ChannelStates
  /\ stateTimer \in BOOLEAN
  /\ retryTimer \in {"none", "running", "expired"}
  /\ waiters \subseteq {"attach", "detach"}
  /\ implicitAttach \in BOOLEAN
  /\ recovering \in BOOLEAN
  /\ connection \in {"connected", "disconnected", "suspended", "closing", "closed", "failed"}
  /\ channelSerial \in Serials
  /\ context \in [last : 0..MaxMessages, base : {Garbage} \union 0..MaxMessages]
  /\ tasks \in Seq(SendTasks)
  /\ queued \in Seq(Requests)
  /\ toServer \in Seq(Requests)
  /\ toClient \in Seq(Replies)
  /\ serverAttached \in BOOLEAN
  /\ stream \in {"off", "start", "on"}
  /\ position \in 0..MaxMessages
  /\ newest \in 0..MaxMessages
  /\ got \in [Messages -> Fates]

Init ==
  /\ state = "initialized"
  /\ stateTimer = FALSE /\ retryTimer = "none"
  /\ waiters = {} /\ implicitAttach = FALSE /\ recovering = FALSE
  /\ connection = "disconnected"
  /\ tasks = <<>> /\ queued = <<>> /\ toServer = <<>> /\ toClient = <<>>
  /\ serverAttached = FALSE /\ stream = "off" /\ position = 0 /\ newest = 0
  /\ channelSerial = NoSerial
  /\ context = [last |-> 0, base |-> 0]
  /\ got = [m \in Messages |-> "no"]

-----------------------------------------------------------------------------
(* The state of the channel.                                               *)

\* Mutant of RetryTimerAfter: the retry timer is not cancelled.
RetryTimerKept(new, c) ==
  IF new = "suspended" /\ c = "connected" /\ retryTimer = "none" THEN "running" ELSE retryTimer

\* The retry timer after a change to the state new while the connection is in c.
RetryTimerAfter(new, c) ==
  IF new = "suspended" /\ c = "connected"
  THEN IF retryTimer = "none" THEN "running" ELSE retryTimer
  ELSE "none"

\* _notify_state(new) but for the state timer, which it stops in any case; the channel
\* serial has just been set to serial.
EnterState(new, c, serial) ==
  IF new = state
  THEN UNCHANGED <<state, retryTimer, waiters, recovering>> /\ channelSerial' = serial
  ELSE /\ state' = new
       /\ retryTimer' = RetryTimerAfter(new, c)
       /\ waiters' = {}
       /\ channelSerial' = IF new \in {"detached", "suspended", "failed"} THEN NoSerial ELSE serial
       /\ recovering' = (recovering /\ new = "attaching")

ChangeState(new, c) == EnterState(new, c, channelSerial)
NotifyState(new, c) == ChangeState(new, c) /\ stateTimer' = FALSE

\* _check_pending_state sends what the state new calls for.
Request(new) ==
  [action |-> IF new = "attaching" THEN "ATTACH" ELSE "DETACH",
   serial |-> IF new = "attaching" THEN channelSerial ELSE NoSerial,
   fresh |-> TRUE]
Sending(new, c, ts) == IF c = "connected" /\ new \in Pending THEN Append(ts, Request(new)) ELSE ts

\* _request_state(new).
RequestState(new) ==
  /\ ChangeState(new, connection)
  /\ stateTimer' = (connection = "connected" /\ new \in Pending)
  /\ tasks' = Sending(new, connection, tasks)

\* The same, followed by a wait for the next change of state.
RequestAndWait(new, call) ==
  /\ state' = new
  /\ retryTimer' = IF new = state THEN retryTimer ELSE RetryTimerAfter(new, connection)
  /\ recovering' = (recovering /\ (new = state \/ new = "attaching"))
  /\ UNCHANGED channelSerial
  /\ waiters' = (IF new = state THEN waiters ELSE {}) \union {call}
  /\ stateTimer' = (connection = "connected" /\ new \in Pending)
  /\ tasks' = Sending(new, connection, tasks)

InFlight == Len(tasks) + Len(queued) + Len(toServer) + Len(toClient)
Room == InFlight < MaxInFlight

-----------------------------------------------------------------------------
(* The application.                                                        *)

\* attach(), which subscribe(), presence and the objects call as well.
AttachCall ==
  /\ state # "attached"
  /\ connection \in {"connected", "disconnected"}
  /\ IF state = "attaching"
     THEN waiters' = waiters \union {"attach"}
          /\ UNCHANGED <<state, stateTimer, retryTimer, recovering, channelSerial, tasks>>
     ELSE RequestAndWait("attaching", "attach")

Attach ==
  /\ Room
  /\ AttachCall
  /\ UNCHANGED <<implicitAttach, connection, queued, wire, data>>

Detach ==
  /\ Room
  /\ state \notin {"initialized", "detached", "failed"}
  /\ state = "detaching" => "again" \in Disruptions
  /\ IF state = "suspended" \/ connection # "connected"
     THEN NotifyState("detached", connection) /\ UNCHANGED tasks
     ELSE RequestAndWait("detaching", "detach")
  /\ UNCHANGED <<implicitAttach, connection, queued, wire, data>>

SetOptions ==
  /\ "options" \in Disruptions /\ Room
  /\ state \in {"attaching", "attached"}
  /\ RequestAndWait("attaching", "attach")
  /\ UNCHANGED <<implicitAttach, connection, queued, wire, data>>

-----------------------------------------------------------------------------
(* Timers and tasks.                                                       *)

StateTimerExpires ==
  /\ stateTimer
  /\ connection = "connected" => "timeout" \in Disruptions
  /\ stateTimer' = FALSE
  /\ ChangeState(CASE state = "attaching" -> "suspended"
                   [] state = "detaching" -> "attached"
                   [] OTHER -> state, connection)
  /\ UNCHANGED <<implicitAttach, connection, tasks, queued, wire, data>>

RetryTimerExpires ==
  /\ retryTimer = "running" /\ Room
  /\ IF state = "suspended" /\ connection = "connected"
     THEN RequestState("attaching")
     ELSE retryTimer' = "expired" /\ UNCHANGED <<state, stateTimer, waiters, recovering, channelSerial, tasks>>
  /\ UNCHANGED <<implicitAttach, connection, queued, wire, data>>

\* The task of _attach_implicitly: nobody awaits it, and its errors are logged.
AttachImplicitly ==
  /\ implicitAttach
  /\ implicitAttach' = FALSE
  /\ IF state = "attached" \/ connection \notin {"connected", "disconnected"}
     THEN UNCHANGED <<channel, tasks>>
     ELSE AttachCall
  /\ UNCHANGED <<connection, queued, wire, data>>

\* send_protocol_message, or the task that send_queued_messages made of it.
SendTaskRuns ==
  /\ tasks # <<>>
  /\ tasks' = Tail(tasks)
  /\ LET send == Head(tasks)
         message == [action |-> send.action, serial |-> send.serial]
     IN  /\ toServer' = IF connection = "connected" THEN Append(toServer, message) ELSE toServer
         /\ queued' = IF connection = "disconnected" /\ send.fresh
                      THEN Append(queued, message) ELSE queued
  /\ UNCHANGED <<channel, implicitAttach, connection, toClient, server, data>>

-----------------------------------------------------------------------------
(* The connection.                                                         *)

\* After a resume the server waits for the ATTACH that tells where to go on.
WireIsCut == toServer' = <<>> /\ toClient' = <<>> /\ stream' = "off" /\ UNCHANGED <<position, newest>>

\* _propagate_connection_interruption, when the connection has become c.
Propagate(c) ==
  IF state \in {"attaching", "attached", "detaching", "suspended"}
  THEN NotifyState(CASE c = "closed" -> "detached" [] OTHER -> c, c)
  ELSE UNCHANGED channel

ConnectionLost ==
  /\ {"lost", "suspended"} \intersect Disruptions # {} /\ Room
  /\ connection = "connected"
  /\ connection' = "disconnected"
  /\ WireIsCut
  /\ UNCHANGED <<channel, implicitAttach, tasks, queued, serverAttached, data>>

\* notify_state(SUSPENDED), CLOSED or FAILED: what was queued is discarded.
ConnectionEnds(from, c) ==
  /\ connection \in from
  /\ connection' = c
  /\ Propagate(c)
  /\ queued' = <<>>
  /\ WireIsCut
  /\ UNCHANGED <<implicitAttach, tasks, serverAttached, data>>

ConnectionSuspends ==
  "suspended" \in Disruptions /\ ConnectionEnds({"disconnected"}, "suspended")
ConnectionFails ==
  "failed" \in Disruptions /\ ConnectionEnds({"connected", "disconnected"}, "failed")
ConnectionCloses == ConnectionEnds({"closing"}, "closed")

\* request_state(CLOSING) and on_error enact a state of which no channel is told.
ConnectionEnacts(c) ==
  /\ connection' = c
  /\ WireIsCut
  /\ UNCHANGED <<channel, implicitAttach, tasks, queued, serverAttached, data>>

CloseConnection ==
  /\ "closed" \in Disruptions
  /\ connection \notin {"closing", "closed"}
  /\ ConnectionEnacts("closing")

ConnectionErrors ==
  /\ "error" \in Disruptions
  /\ connection \in {"connected", "disconnected"}
  /\ ConnectionEnacts("failed")

\* request_state(CONNECTING): from CLOSED and FAILED the channels start afresh.
Connect ==
  /\ connection \in {"suspended", "closed", "failed"}
  /\ connection' = "disconnected"
  /\ IF connection = "suspended" THEN UNCHANGED channel ELSE NotifyState("initialized", connection)
  /\ UNCHANGED <<implicitAttach, tasks, queued, wire, data>>

\* Mutant of ResumeChannel: a pending channel is left alone.
ResumeChannelAtRest(ts) ==
  CASE state = "suspended" ->
         implicitAttach' = TRUE /\ tasks' = ts /\ UNCHANGED channel
    [] state = "attached" ->
         /\ ChangeState("attaching", "connected")
         /\ stateTimer' = TRUE
         /\ tasks' = Sending("attaching", "connected", ts)
         /\ UNCHANGED implicitAttach
    [] OTHER -> tasks' = ts /\ UNCHANGED <<channel, implicitAttach>>

\* Channels._on_connected; ts are the send tasks that come first.
ResumeChannel(ts) ==
  CASE state \in Pending ->
         /\ stateTimer' = TRUE
         /\ tasks' = Sending(state, "connected", ts)
         /\ UNCHANGED <<state, retryTimer, waiters, recovering, channelSerial, implicitAttach>>
    [] state = "suspended" ->
         implicitAttach' = TRUE /\ tasks' = ts /\ UNCHANGED channel
    [] state = "attached" ->
         /\ ChangeState("attaching", "connected")
         /\ stateTimer' = TRUE
         /\ tasks' = Sending("attaching", "connected", ts)
         /\ UNCHANGED implicitAttach
    [] OTHER -> tasks' = ts /\ UNCHANGED <<channel, implicitAttach>>

\* The tasks created before the connection was lost have run by now.
Connected ==
  /\ connection = "disconnected"
  /\ tasks = <<>>
  /\ connection' = "connected"
  /\ ResumeChannel([i \in 1..Len(queued) |->
       [action |-> queued[i].action, serial |-> queued[i].serial, fresh |-> FALSE]])
  /\ queued' = <<>>
  /\ WireIsCut
  /\ serverAttached' \in {FALSE, serverAttached}
  /\ UNCHANGED data

ConnectedAgain ==
  /\ "update" \in Disruptions /\ Room
  /\ connection = "connected"
  /\ ResumeChannel(tasks)
  /\ UNCHANGED <<connection, queued, wire, data>>

-----------------------------------------------------------------------------
(* The server.                                                             *)

\* It goes on after the serial of the ATTACH, if it has one and is still known.
ServerAttaches(serial) ==
  \E continues \in BOOLEAN :
    /\ IF continues THEN serial # NoSerial ELSE serial = NoSerial \/ "forgotten" \in Disruptions
    /\ position' = IF continues THEN serial ELSE newest
    /\ toClient' = Append(toClient,
         [action |-> "ATTACHED", serial |-> IF continues THEN serial ELSE newest, continues |-> continues])
    /\ serverAttached' = TRUE
    /\ stream' = "start"

ServerRefuses(answer) ==
  /\ toClient' = Append(toClient, [action |-> answer])
  /\ serverAttached' = FALSE
  /\ stream' = "off"
  /\ UNCHANGED position

ServerAnswers ==
  /\ connection = "connected"
  /\ toServer # <<>>
  /\ toServer' = Tail(toServer)
  /\ IF Head(toServer).action = "DETACH"
     THEN ServerRefuses("DETACHED")
     ELSE \/ ServerAttaches(Head(toServer).serial)
          \/ "denied" \in Disruptions /\ \E answer \in {"DETACHED", "ERROR"} : ServerRefuses(answer)
  /\ UNCHANGED <<channel, implicitAttach, connection, tasks, queued, newest, data>>

\* A batch of one message or two.  A message is a delta from the one before it, if that
\* one was sent in the same attachment.
SendMessages ==
  \E last \in {position + 1, position + 2}, whole \in BOOLEAN :
    /\ stream # "off" /\ last <= MaxMessages
    /\ stream = "start" => whole
    /\ whole => stream = "start" \/ "whole" \in Disruptions
    /\ toClient' = Append(toClient,
         [action |-> "MESSAGE", first |-> position + 1, last |-> last, whole |-> whole])
    /\ stream' = "on"
    /\ position' = last
    /\ newest' = IF last > newest THEN last ELSE newest
    /\ UNCHANGED serverAttached

SendAttached ==
  /\ "reattached" \in Disruptions
  /\ stream # "off"
  /\ toClient' = Append(toClient, [action |-> "ATTACHED", serial |-> position, continues |-> TRUE])
  /\ UNCHANGED server

SendDetached ==
  /\ "detached" \in Disruptions
  /\ ServerRefuses("DETACHED")
  /\ UNCHANGED newest

ServerSends ==
  /\ connection = "connected" /\ Room
  /\ serverAttached
  /\ SendMessages \/ SendAttached \/ SendDetached
  /\ UNCHANGED <<channel, implicitAttach, connection, tasks, queued, toServer, data>>

-----------------------------------------------------------------------------
(* Decoding.                                                               *)

Undecoded == [last |-> 0, base |-> Garbage]

\* EncodeDataMixin.decode: the payload of m, a delta from the message before it, when it
\* is applied to base.
Applied(base, m) == IF base = m - 1 THEN m ELSE Garbage

\* Mutant of DecodeMessage: a delta is applied to whatever payload there is.
DecodeMessageUnchecked(c, m, whole) == [last |-> m, base |-> IF whole THEN m ELSE Applied(c.base, m)]

\* Message.from_encoded in the context c: a delta names the message that it is from.
DecodeMessage(c, m, whole) ==
  IF ~whole /\ c.last # m - 1
  THEN Undecoded
  ELSE [last |-> m, base |-> IF whole THEN m ELSE Applied(c.base, m)]

\* from_encoded_array: the context after the batch b, or Undecoded.
DecodeBatch(b) ==
  LET c == DecodeMessage(context, b.first, b.whole)
  IN  IF b.first = b.last \/ c = Undecoded THEN c ELSE DecodeMessage(c, b.last, FALSE)

HasDelta(b) == ~b.whole \/ b.first < b.last

-----------------------------------------------------------------------------
(* _on_message.                                                            *)

Actions(messages) == {m.action : m \in ToSet(messages)}

\* An ATTACH is under way, or the answer to it.
Reattaching ==
  \/ "ATTACH" \in Actions(tasks) \union Actions(queued) \union Actions(toServer)
  \/ {"ATTACHED", "DETACHED", "ERROR"} \intersect Actions(Tail(toClient)) # {}

Delivered(fate) ==
  CASE fate = "yes" -> "twice" [] Reattaching -> "early" [] OTHER -> "yes"

\* The serial passes over what was not delivered: that is excused if the server has lost
\* continuity, or if an ATTACH is under way that asks for it again.
Excused(excuse, upTo) ==
  [m \in Messages |-> IF excuse /\ m <= upTo /\ got[m] = "no" THEN "excused" ELSE got[m]]

\* In any state but ATTACHING an ATTACHED changes the serial alone.
OnAttached(m) ==
  /\ IF state = "attaching"
     THEN EnterState("attached", connection, m.serial) /\ stateTimer' = FALSE
     ELSE channelSerial' = m.serial
          /\ UNCHANGED <<state, stateTimer, retryTimer, waiters, recovering>>
  /\ got' = Excused(Reattaching \/ ~m.continues, m.serial)
  /\ UNCHANGED <<tasks, context>>

\* Mutant of OnDetached: only an answer to a DETACH is handled.
OnDetachedAsked ==
  /\ CASE state = "detaching" -> NotifyState("detached", connection) /\ UNCHANGED tasks
       [] state = "attaching" -> NotifyState("suspended", connection) /\ UNCHANGED tasks
       [] OTHER -> UNCHANGED <<channel, tasks>>
  /\ UNCHANGED data

OnDetached ==
  /\ CASE state = "detaching" -> NotifyState("detached", connection) /\ UNCHANGED tasks
       [] state = "attaching" -> NotifyState("suspended", connection) /\ UNCHANGED tasks
       [] OTHER -> RequestState("attaching")
  /\ UNCHANGED data

OnError == NotifyState("failed", connection) /\ UNCHANGED <<tasks, data>>

\* Mutant of OnUndecodable: _check_pending_state is not called.
OnUndecodableUnsent ==
  /\ IF recovering
     THEN UNCHANGED <<channel, tasks>>
     ELSE /\ recovering' = TRUE
          /\ state' = "attaching"
          /\ retryTimer' = IF state = "attaching" THEN retryTimer ELSE "none"
          /\ waiters' = IF state = "attaching" THEN waiters ELSE {}
          /\ stateTimer' = FALSE
          /\ UNCHANGED <<channelSerial, tasks>>
  /\ UNCHANGED data

\* _start_decode_failure_recovery.
OnUndecodable ==
  /\ IF recovering
     THEN UNCHANGED <<channel, tasks>>
     ELSE /\ recovering' = TRUE
          /\ state' = "attaching"
          /\ retryTimer' = IF state = "attaching" THEN retryTimer ELSE "none"
          /\ waiters' = IF state = "attaching" THEN waiters ELSE {}
          /\ stateTimer' = (connection = "connected")
          /\ tasks' = Sending("attaching", connection, tasks)
          /\ UNCHANGED channelSerial
  /\ UNCHANGED data

\* The batch is skipped.
OnUnreadable(b) ==
  /\ got' = [m \in Messages |-> IF m \in b.first..b.last /\ got[m] = "no" THEN "excused" ELSE got[m]]
  /\ UNCHANGED <<channel, tasks, context>>

\* Its messages are emitted, whatever the state of the channel.
OnDecoded(b) ==
  /\ context' = DecodeBatch(b)
  /\ channelSerial' = b.last
  /\ got' = [m \in Messages |-> IF m \in b.first..b.last THEN Delivered(got[m])
                                 ELSE Excused(Reattaching, b.last)[m]]
  /\ UNCHANGED <<state, stateTimer, retryTimer, waiters, recovering, tasks>>

\* Mutant of OnBatch: the serial is taken before the batch is decoded.
OnBatchSerialFirst(b) ==
  \/ DecodeBatch(b) # Undecoded /\ OnDecoded(b)
  \/ /\ "undecodable" \in Disruptions /\ HasDelta(b)
     /\ EnterState("attaching", connection, b.last)
     /\ stateTimer' = TRUE
     /\ tasks' = Append(tasks, [action |-> "ATTACH", serial |-> b.last, fresh |-> TRUE])
     /\ UNCHANGED data

OnBatch(b) ==
  \/ DecodeBatch(b) = Undecoded /\ OnUndecodable
  \/ DecodeBatch(b) # Undecoded /\ OnDecoded(b)
  \/ "undecodable" \in Disruptions /\ HasDelta(b) /\ OnUndecodable
  \/ "unreadable" \in Disruptions /\ OnUnreadable(b)

OnMessage ==
  /\ connection = "connected"
  /\ toClient # <<>>
  /\ toClient' = Tail(toClient)
  /\ LET m == Head(toClient)
     IN  CASE m.action = "ATTACHED" -> OnAttached(m)
           [] m.action = "DETACHED" -> OnDetached
           [] m.action = "ERROR" -> OnError
           [] m.action = "MESSAGE" -> OnBatch(m)
  /\ UNCHANGED <<implicitAttach, connection, queued, toServer, server>>

-----------------------------------------------------------------------------
ApplicationStep == Attach \/ Detach \/ SetOptions

ConnectionStep ==
  \/ ConnectionLost
  \/ ConnectionSuspends
  \/ ConnectionFails
  \/ CloseConnection
  \/ ConnectionCloses
  \/ ConnectionErrors
  \/ Connect
  \/ Connected
  \/ ConnectedAgain

Next ==
  \/ ApplicationStep
  \/ ConnectionStep
  \/ StateTimerExpires
  \/ RetryTimerExpires
  \/ AttachImplicitly
  \/ SendTaskRuns
  \/ ServerAnswers
  \/ ServerSends
  \/ OnMessage

Spec == Init /\ [][Next]_vars

\* The event loop runs tasks and timers, the server answers, close() completes, and a
\* connection that was lost comes back or is SUSPENDED (Connection!RetryScheduled).
Fairness ==
  /\ WF_vars(SendTaskRuns)
  /\ WF_vars(AttachImplicitly)
  /\ WF_vars(StateTimerExpires)
  /\ WF_vars(ServerAnswers)
  /\ WF_vars(OnMessage)
  /\ WF_vars(Connected \/ ConnectionSuspends)
  /\ WF_vars(ConnectionCloses)

FairSpec == Spec /\ Fairness

-----------------------------------------------------------------------------
(* Properties.                                                             *)

\* While the connection is there, ATTACHING and DETACHING are never left without a
\* timer, although every call of _notify_state stops it and the connection comes and
\* goes: a lost answer cannot hold up the channel.
PendingIsTimed == state \in Pending /\ connection = "connected" => stateTimer

\* A channel that is SUSPENDED on a good connection will attach again, also after its
\* retry timer has expired on a bad one and was not forgotten.
SuspendedRetries ==
  state = "suspended" /\ connection = "connected" => retryTimer = "running" \/ implicitAttach

\* No attach(), detach() or set_options() waits on a channel that is at rest: the
\* change of state that ended the request has woken it.
WaitersPending == waiters # {} => state \in Pending

\* An ATTACHED channel is attached at the server as well, or will hear otherwise.
AttachedIsServed ==
  state = "attached" /\ connection = "connected" =>
    \/ serverAttached
    \/ {"DETACHED", "ERROR"} \intersect Actions(toClient) # {}
    \/ "DETACH" \in Actions(toServer) \union Actions(tasks)

\* A recovery from an undecodable delta is under way only while the channel reattaches:
\* afterwards the next failure starts another one.
RecoveryEnds == recovering => state = "attaching"

\* No delta is decoded against another payload than the one it was made from, however
\* batches fail half-way, are skipped, and are sent again.
NothingGarbled == context.base = context.last

\* Every message reaches the subscribers once. The serial, from which the next ATTACH asks the
\* server to go on, does not pass a message that they did not get, unless decoding it failed
\* for good, the server has lost continuity, or the serial moved between an ATTACH and its
\* answer; and a message is delivered again only if its first copy came between the two.
DeliveredOnce ==
  \A m \in Messages : got[m] # "twice" /\ (m <= channelSerial => got[m] # "no")

Resting == {"initialized", "detached", "failed"}

\* "a state where there is no possibility of further updates from the server being
\* received (initialized, detached, or failed)" (Channels.release).
RestingStays ==
  [][(state \in Resting) => (state' \in Resting \/ ApplicationStep \/ AttachImplicitly)]_vars

\* Every attach(), detach() and set_options() is answered, unless the application keeps
\* calling set_options(), which restarts the state timer each time, or the connection
\* failed by an ERROR, of which on_error does not tell the channels.
WaitersAnswered ==
  \/ \A call \in {"attach", "detach"} : call \in waiters ~> call \notin waiters \/ connection = "failed"
  \/ []<><<SetOptions>>_vars
=============================================================================
