----------------------------- MODULE Connection -----------------------------
(***************************************************************************)
(* The lifecycle of a realtime connection: ConnectionManager's states, its *)
(* transition, suspend and retry timers, the tasks that connect, close and *)
(* renew the token, and the websocket transports under it                  *)
(* (realtime/connectionmanager.py, transport/websockettransport.py).       *)
(*                                                                         *)
(* An action is the code between two awaits.  A handler that awaits        *)
(* transport.dispose() is an element of "waiting"; the state it finds when *)
(* it resumes need not be the one in which it started.                     *)
(***************************************************************************)
EXTENDS Integers, FiniteSets

CONSTANTS
  Transports,     \* identities of WebSocketTransport objects, reused when garbage
  None,
  FallbackHosts,  \* whether ClientOptions names fallback hosts
  MaxLostRetries, \* bound: overwritten retry timers that still run
  Disruptions     \* the ways in which the server or the network disturbs this instance

AllDisruptions ==
  {"refused",       \* a websocket cannot be opened
   "unreachable",   \* ... with an OSError, which ws_connect does not catch
   "socket",        \* a websocket closes or breaks
   "idle",          \* nothing was received for max_idle_interval
   "disconnected",  \* a DISCONNECTED with an error that is neither 5xx nor about the token
   "unavailable",   \* a DISCONNECTED with a 5xx error
   "noerror",       \* a DISCONNECTED without an error
   "closed",        \* a CLOSED that the client did not ask for
   "token",         \* a DISCONNECTED or ERROR about the token
   "fatal",         \* any other ERROR without a channel
   "clientid",      \* a CONNECTED naming another clientId
   "forbidden",     \* the authentication provider answers 403
   "sameturn",      \* a timer or the application acts before a new task has had its first turn
   "slowclose",     \* a close handshake is still going on when a retry timer expires
   "impatient",     \* the application connects while a retry timer is running
   "overlap",       \* the application connects while close() is still under way
   "authorize"}     \* the application calls auth.authorize()

ASSUME ConstantsAssumption ==
  /\ IsFiniteSet(Transports) /\ Cardinality(Transports) >= 2
  /\ {None, "authorizing"} \intersect Transports = {}
  /\ None \notin {"authorizing", "disconnected", "suspended", "closed"}
  /\ FallbackHosts \in BOOLEAN
  /\ MaxLostRetries \in Nat
  /\ Disruptions \subseteq AllDisruptions

VARIABLES
  state,            \* ConnectionManager.__state
  failState,        \* .__fail_state
  transitionTimer,  \* the state .transition_timer will notify, None when there is no timer
  suspendTimer,     \* .suspend_timer is running
  retryTimer,       \* .retry_timer is running
  lostRetries,      \* retry timers that run and that .retry_timer no longer names
  callSoon,         \* call_soon(request_state, CONNECTING) is scheduled
  connectTask,      \* .connect_base_task: None, "authorizing", or the transport it awaits
  fallbackTask,     \* the same for on_disconnected in connect_with_fallback_hosts
  transport,        \* .transport
  ws,               \* what each transport's websocket is doing
  arrived,          \* the transport whose CONNECTED message has a task that has not yet run
  disconnectTask,   \* .disconnect_transport_task: the transport it disposes of
  waiting,          \* the handlers that await the dispose() of a transport
  closeImpl,        \* the close_impl task until it awaits dispose()
  renewing,         \* on_token_error awaits new credentials
  tokenError        \* .__error_reason is a token error

timers == <<transitionTimer, suspendTimer, retryTimer, lostRetries, callSoon>>
vars == <<state, failState, transitionTimer, suspendTimer, retryTimer, lostRetries,
          callSoon, connectTask, fallbackTask, transport, ws, arrived,
          disconnectTask, waiting, closeImpl, renewing, tokenError>>

ConnectionStates == {"initialized", "connecting", "connected", "disconnected",
                     "suspended", "closing", "closed", "failed"}

\* "open": no CONNECTED yet.  "live": CONNECTED, with an idle timer.  "closing":
\* disposed, awaiting the close handshake.  "ticking": disposed, and its idle
\* timer was started again by a CONNECTED that came too late.
WebsocketStates == {"opening", "open", "live", "closing", "dead", "ticking"}

ServerErrors == {"disconnected", "unavailable", "noerror", "closed", "token", "fatal"}

\* "close" and "background" are the two awaits of close_impl after its sleep(0).
Handlers == ServerErrors \union {"idle", "authorize", "close", "background"}

TypeOK ==
  /\ state \in ConnectionStates
  /\ failState \in {"disconnected", "suspended"}
  /\ transitionTimer \in {None, "disconnected", "suspended", "closed"}
  /\ suspendTimer \in BOOLEAN
  /\ retryTimer \in BOOLEAN
  /\ lostRetries \in 0..MaxLostRetries
  /\ callSoon \in BOOLEAN
  /\ connectTask \in Transports \union {None, "authorizing"}
  /\ fallbackTask \in Transports \union {None, "authorizing"}
  /\ transport \in Transports \union {None}
  /\ ws \in [Transports -> WebsocketStates]
  /\ arrived \in Transports \union {None}
  /\ disconnectTask \in Transports \union {None}
  /\ waiting \subseteq Handlers \X Transports
  /\ closeImpl \in {"none", "created", "slept"}
  /\ renewing \in BOOLEAN
  /\ tokenError \in BOOLEAN

\* auto_connect forces request_state(CONNECTING) from the constructor.
Init ==
  /\ \/ /\ state = "initialized"
        /\ transitionTimer = None /\ suspendTimer = FALSE /\ connectTask = None
     \/ /\ state = "connecting"
        /\ transitionTimer = "disconnected" /\ suspendTimer = TRUE
        /\ connectTask = "authorizing"
  /\ failState = "disconnected"
  /\ retryTimer = FALSE /\ lostRetries = 0 /\ callSoon = FALSE
  /\ fallbackTask = None
  /\ transport = None
  /\ ws = [t \in Transports |-> "dead"]
  /\ arrived = None
  /\ disconnectTask = None
  /\ waiting = {}
  /\ closeImpl = "none"
  /\ renewing = FALSE /\ tokenError = FALSE

-----------------------------------------------------------------------------
(* What the handlers share.                                                *)

\* Mutant of Disposed: dispose() forgets the websocket.
DisposedOpeningOnly(w, t) ==
  IF t = None THEN w ELSE [w EXCEPT ![t] = IF @ = "opening" THEN "dead" ELSE @]

\* The websockets w after dispose() was called on the transport t.
Disposed(w, t) ==
  IF t = None THEN w
  ELSE [w EXCEPT ![t] = CASE @ = "opening" -> "dead"
                          [] @ \in {"open", "live"} -> "closing"
                          [] @ = "ticking" -> "dead"
                          [] OTHER -> @]

\* start_retry_timer does not cancel the timer it replaces; the bound leaves out the
\* timers lost beyond MaxLostRetries.
StartRetryTimer ==
  /\ retryTimer' = TRUE
  /\ lostRetries' = IF retryTimer /\ lostRetries < MaxLostRetries
                    THEN lostRetries + 1 ELSE lostRetries

\* check_suspend_timer(new), within notify_state.
CheckSuspendTimer(new) ==
  IF new \in {state, "connecting", "disconnected", "suspended"}
  THEN UNCHANGED <<suspendTimer, failState>>
  ELSE suspendTimer' = FALSE /\ failState' = "disconnected"

\* The rest of notify_state(new), called by a handler that has left current as the
\* transport, w as the websockets and task as the connect task; byToken says
\* whether error_reason is a token error now.
Notify(new, current, w, task, byToken) ==
  LET immediately == new = "disconnected" /\ state = "connected"
      drop == (new = "disconnected" /\ ~immediately) \/ new = "suspended"
  IN  IF new = state
      THEN /\ ws' = w /\ connectTask' = task
           /\ UNCHANGED <<state, transitionTimer, retryTimer, lostRetries, callSoon,
                          disconnectTask, tokenError>>
      ELSE /\ state' = new
           /\ transitionTimer' = None
           /\ callSoon' = (callSoon \/ immediately)
           /\ IF drop
              THEN /\ StartRetryTimer
                   /\ ws' = Disposed(w, current) /\ connectTask' = None
                   /\ disconnectTask' = IF current = None THEN disconnectTask ELSE current
              ELSE /\ ws' = w /\ connectTask' = task
                   /\ UNCHANGED <<retryTimer, lostRetries, disconnectTask>>
           /\ tokenError' = byToken

NotifyState(new, current, w, task, byToken) ==
  Notify(new, current, w, task, byToken) /\ CheckSuspendTimer(new)

\* Mutant of StartConnect: The early return of start_suspend_timer skips the transition timer.
StartConnectUntimed(fs) ==
  /\ suspendTimer' = TRUE
  /\ transitionTimer' = IF suspendTimer THEN transitionTimer ELSE fs
  /\ connectTask' = "authorizing"

\* start_connect.  fs is the fail state that the transition timer will notify.
StartConnect(fs) ==
  /\ suspendTimer' = TRUE
  /\ transitionTimer' = fs
  /\ connectTask' = "authorizing"

\* Mutant of RequestConnecting: A request for CONNECTING is ignored in SUSPENDED.
RequestConnectingUnlessSuspended ==
  IF state \in {"connecting", "connected", "suspended"}
  THEN UNCHANGED <<state, suspendTimer, transitionTimer, connectTask>>
  ELSE state' = "connecting" /\ StartConnect(failState)

\* request_state(CONNECTING).
RequestConnecting ==
  IF state \in {"connecting", "connected"}
  THEN UNCHANGED <<state, suspendTimer, transitionTimer, connectTask>>
  ELSE state' = "connecting" /\ StartConnect(failState)

\* The tasks and callbacks created in the last turn of the event loop have run.
\* What depends on the network, or on an earlier await, comes after them.
TasksRun == arrived = None /\ ~callSoon /\ closeImpl = "none"

\* Handlers that await one websocket all resume in the turn in which it closes.
NoneResuming == \A w \in waiting : ws[w[2]] # "dead"

Settled == TasksRun /\ NoneResuming

\* Timers and the application may come between, in the same turn.
InTurn == NoneResuming /\ (TasksRun \/ "sameturn" \in Disruptions)

\* With the default options a retry timer outlasts the close handshake of the
\* transport that was dropped when it was started.
ClosedInTime == (\E t \in Transports : ws[t] = "closing") => "slowclose" \in Disruptions

\* close_impl is under way.
Closing == closeImpl # "none" \/ \E w \in waiting : w[1] \in {"close", "background"}

-----------------------------------------------------------------------------
(* The application.                                                        *)

Connect ==
  /\ InTurn
  /\ state \notin {"connecting", "connected"}
  /\ retryTimer \/ lostRetries > 0 => "impatient" \in Disruptions
  /\ Closing => "overlap" \in Disruptions
  /\ RequestConnecting
  /\ UNCHANGED <<failState, retryTimer, lostRetries, callSoon, fallbackTask, transport,
                 ws, arrived, waiting, closeImpl, renewing, tokenError, disconnectTask>>

\* request_state(CLOSING): no timer and no task is touched before close_impl runs.
Close ==
  /\ InTurn
  /\ state \notin {"closing", "closed"}
  /\ ~Closing
  /\ state' = "closing"
  /\ closeImpl' = "created"
  /\ UNCHANGED <<failState, timers, connectTask, fallbackTask, transport, ws, arrived,
                 waiting, renewing, tokenError, disconnectTask>>

\* auth.authorize() has obtained a token: on_auth_updated while not CONNECTED.
AuthUpdated ==
  /\ InTurn
  /\ "authorize" \in Disruptions
  /\ state # "connected"
  /\ \A t \in Transports : <<"authorize", t>> \notin waiting
  /\ LET opened == transport # None /\ ws[transport] \in {"open", "live", "closing"}
     IN  IF state = "connecting"
         THEN /\ ws' = Disposed(ws, transport)
              /\ IF opened
                 THEN /\ waiting' = waiting \union {<<"authorize", transport>>}
                      /\ connectTask' = None
                      /\ UNCHANGED <<state, suspendTimer, transitionTimer>>
                 ELSE StartConnect(failState) /\ UNCHANGED <<state, waiting>>
         ELSE RequestConnecting /\ UNCHANGED <<ws, waiting>>
  /\ UNCHANGED <<failState, retryTimer, lostRetries, callSoon, fallbackTask, transport,
                 arrived, closeImpl, renewing, tokenError, disconnectTask>>

-----------------------------------------------------------------------------
(* Timers and callbacks.                                                   *)

TransitionTimerExpires ==
  /\ InTurn
  /\ transitionTimer # None
  /\ IF transitionTimer = state
     THEN /\ transitionTimer' = None
          /\ UNCHANGED <<state, failState, suspendTimer, retryTimer, lostRetries, callSoon,
                         connectTask, ws, disconnectTask, tokenError>>
     ELSE NotifyState(transitionTimer, transport, ws, connectTask, FALSE)
  /\ UNCHANGED <<fallbackTask, transport, arrived, waiting, closeImpl, renewing>>

SuspendTimerExpires ==
  /\ InTurn
  /\ suspendTimer
  /\ suspendTimer' = FALSE
  /\ Notify("suspended", transport, ws, connectTask, FALSE)
  /\ failState' = "suspended"
  /\ UNCHANGED <<fallbackTask, transport, arrived, waiting, closeImpl, renewing>>

RetryTimerExpires ==
  /\ InTurn /\ ClosedInTime
  /\ retryTimer
  /\ retryTimer' = FALSE
  /\ RequestConnecting
  /\ UNCHANGED <<failState, lostRetries, callSoon, fallbackTask, transport, ws, arrived,
                 waiting, closeImpl, renewing, tokenError, disconnectTask>>

\* on_retry_timeout of an overwritten timer forgets the one that replaced it.
LostRetryTimerExpires ==
  /\ InTurn /\ ClosedInTime
  /\ lostRetries > 0
  /\ retryTimer' = FALSE
  /\ lostRetries' = IF retryTimer THEN lostRetries ELSE lostRetries - 1
  /\ RequestConnecting
  /\ UNCHANGED <<failState, callSoon, fallbackTask, transport, ws, arrived, waiting,
                 closeImpl, renewing, tokenError, disconnectTask>>

ReconnectImmediately ==
  /\ callSoon /\ NoneResuming
  /\ callSoon' = FALSE
  /\ RequestConnecting
  /\ UNCHANGED <<failState, retryTimer, lostRetries, fallbackTask, transport, ws, arrived,
                 waiting, closeImpl, renewing, tokenError, disconnectTask>>

-----------------------------------------------------------------------------
(* Opening a transport.                                                    *)

Unused(t) ==
  /\ ws[t] = "dead"
  /\ t \notin {transport, arrived, connectTask, fallbackTask}
  /\ \A why \in Handlers : <<why, t>> \notin waiting

\* try_host has its parameters: the transport it replaces is not disposed of.
TryHost(t) ==
  /\ Settled
  /\ Unused(t)
  /\ \/ connectTask = "authorizing" /\ connectTask' = t /\ UNCHANGED fallbackTask
     \/ fallbackTask = "authorizing" /\ fallbackTask' = t /\ UNCHANGED connectTask
  /\ transport' = t
  /\ ws' = [ws EXCEPT ![t] = "opening"]
  /\ disconnectTask' = IF disconnectTask = t THEN None ELSE disconnectTask
  /\ UNCHANGED <<state, failState, timers, arrived, waiting, closeImpl, renewing, tokenError>>

\* The state in which on_error_from_authorize leaves the connection.
AuthorizeErrorStates == {failState} \union (IF "forbidden" \in Disruptions THEN {"failed"} ELSE {})

\* try_host could not get a token.
TryHostUnauthorized ==
  /\ "token" \in Disruptions
  /\ Settled
  /\ \E goal \in AuthorizeErrorStates :
       \/ /\ connectTask = "authorizing"
          /\ NotifyState(goal, transport, ws, None, FALSE)
          /\ UNCHANGED fallbackTask
       \/ /\ fallbackTask = "authorizing"
          /\ NotifyState(goal, transport, ws, connectTask, FALSE)
          /\ fallbackTask' = None
  /\ UNCHANGED <<transport, arrived, waiting, closeImpl, renewing>>

WebsocketOpens(t) ==
  /\ Settled
  /\ ws[t] = "opening"
  /\ ws' = [ws EXCEPT ![t] = "open"]
  /\ connectTask' = IF connectTask = t THEN None ELSE connectTask
  /\ fallbackTask' = IF fallbackTask = t THEN None ELSE fallbackTask
  /\ UNCHANGED <<state, failState, timers, transport, arrived, waiting, closeImpl, renewing,
                 tokenError, disconnectTask>>

\* The transport emits 'failed': the task tries the next host, or gives up.  A
\* failed fallback after a DISCONNECTED message is returned and ignored.
WebsocketFails(t) ==
  /\ "refused" \in Disruptions
  /\ Settled
  /\ ws[t] = "opening"
  /\ LET w == Disposed([ws EXCEPT ![t] = "dead"], transport)
         unreached == UNCHANGED <<state, failState, timers, disconnectTask, tokenError>>
     IN  \/ /\ connectTask = t
            /\ \/ FallbackHosts /\ connectTask' = "authorizing" /\ ws' = w /\ unreached
               \/ NotifyState(failState, transport, w, None, FALSE)
            /\ UNCHANGED fallbackTask
         \/ /\ fallbackTask = t
            /\ \/ fallbackTask' \in {None, "authorizing"} /\ ws' = w /\ unreached
                    /\ UNCHANGED connectTask
               \/ fallbackTask' = None /\ NotifyState(failState, transport, w, connectTask, FALSE)
  /\ UNCHANGED <<transport, arrived, waiting, closeImpl, renewing>>

\* An OSError ends ws_connect and emits nothing: the task waits on.
WebsocketUnreachable(t) ==
  /\ "unreachable" \in Disruptions
  /\ Settled
  /\ ws[t] = "opening"
  /\ ws' = [ws EXCEPT ![t] = "dead"]
  /\ UNCHANGED <<state, failState, timers, connectTask, fallbackTask, transport, arrived,
                 waiting, closeImpl, renewing, tokenError, disconnectTask>>

\* A CONNECTED message is read, and a task created for it.
ConnectedArrives(t) ==
  /\ Settled
  /\ ws[t] = "open"
  /\ arrived' = t
  /\ UNCHANGED <<state, failState, timers, connectTask, fallbackTask, transport, ws, waiting,
                 closeImpl, renewing, tokenError, disconnectTask>>

\* on_connected, in whatever state the connection is by now.
OnConnected ==
  /\ arrived # None /\ NoneResuming
  /\ arrived' = None
  /\ LET w == [ws EXCEPT ![arrived] = IF @ = "open" THEN "live" ELSE "ticking"]
     IN  \E goal \in {"connected"} \union (IF "clientid" \in Disruptions THEN {"failed"} ELSE {}) :
           /\ Notify(goal, transport, w, connectTask, IF goal = "failed" THEN FALSE ELSE tokenError)
           /\ suspendTimer' = IF goal = state THEN suspendTimer ELSE FALSE
           /\ failState' = "disconnected"
  /\ UNCHANGED <<fallbackTask, transport, waiting, closeImpl, renewing>>

-----------------------------------------------------------------------------
(* Losing a transport.                                                     *)

\* Mutant of DeactivateTransport: no state is notified.
DeactivateSilently(w, byToken) ==
  /\ transport' = None
  /\ ws' = w
  /\ UNCHANGED <<state, failState, timers, connectTask, disconnectTask, tokenError>>

\* deactivate_transport, called by the transport t, which need not be the current one.
DeactivateTransport(w, byToken) ==
  /\ transport' = None
  /\ NotifyState("disconnected", None, w, connectTask, byToken)

SocketCloses(t) ==
  /\ "socket" \in Disruptions
  /\ arrived = None /\ InTurn
  /\ ws[t] \in {"open", "live"}
  /\ \E byToken \in {FALSE, tokenError} : DeactivateTransport([ws EXCEPT ![t] = "dead"], byToken)
  /\ UNCHANGED <<fallbackTask, arrived, waiting, closeImpl, renewing>>

\* The idle timer of a transport that is gone for good finds nothing to wait for.
LateIdleTimerExpires(t) ==
  /\ Settled
  /\ ws[t] = "ticking"
  /\ \A why \in Handlers : <<why, t>> \notin waiting
  /\ DeactivateTransport([ws EXCEPT ![t] = "dead"], FALSE)
  /\ UNCHANGED <<fallbackTask, arrived, waiting, closeImpl, renewing>>

\* A handler disposes of the transport t and waits for its websocket to close.
BeginDispose(why, t) ==
  /\ Settled
  /\ <<why, t>> \notin waiting
  /\ waiting' = waiting \union {<<why, t>>}
  /\ ws' = Disposed(ws, t)
  /\ UNCHANGED <<state, failState, timers, connectTask, fallbackTask, transport, arrived,
                 closeImpl, renewing, tokenError, disconnectTask>>

IdleTimerExpires(t) ==
  "idle" \in Disruptions /\ ws[t] = "live" /\ BeginDispose("idle", t)

\* A DISCONNECTED, or an ERROR without a channel, on the current transport.
ServerDisconnects(why) ==
  /\ why \in Disruptions
  /\ transport # None /\ ws[transport] \in {"open", "live"}
  /\ why = "unavailable" => fallbackTask = None
  /\ BeginDispose(why, transport)

\* No handler waits for it: disconnect_transport disposed of it in the background.
WebsocketClosed(t) ==
  /\ ws[t] = "closing"
  /\ \A why \in Handlers : <<why, t>> \notin waiting
  /\ ws' = [ws EXCEPT ![t] = "dead"]
  /\ UNCHANGED <<state, failState, timers, connectTask, fallbackTask, transport, arrived,
                 waiting, closeImpl, renewing, tokenError, disconnectTask>>

\* The handler resumes: those that wait for one websocket do so in the order in
\* which they came, and close_impl comes last.
CanResume(t) == ws[t] = "dead" \/ Settled

LastToResume(t) ==
  CanResume(t) /\ \A why \in Handlers \ {"close", "background"} : <<why, t>> \notin waiting

Resumes(why, t) ==
  /\ CanResume(t)
  /\ <<why, t>> \in waiting
  /\ waiting' = waiting \ {<<why, t>>}

Gone(t) == [ws EXCEPT ![t] = IF @ = "closing" THEN "dead" ELSE @]

IdleResumes(t) ==
  /\ Resumes("idle", t)
  /\ DeactivateTransport(Gone(t), FALSE)
  /\ UNCHANGED <<fallbackTask, arrived, closeImpl, renewing>>

DisconnectedResumes(t) ==
  /\ Resumes("disconnected", t)
  /\ NotifyState("disconnected", transport, Gone(t), connectTask, FALSE)
  /\ UNCHANGED <<fallbackTask, transport, arrived, closeImpl, renewing>>

\* on_disconnected with a 5xx: the fallback hosts, if the network is there.
UnavailableResumes(t) ==
  /\ Resumes("unavailable", t)
  /\ \/ /\ fallbackTask' = IF FallbackHosts THEN "authorizing" ELSE None
        /\ ws' = Gone(t)
        /\ UNCHANGED <<state, failState, timers, connectTask, disconnectTask, tokenError>>
     \/ /\ FallbackHosts
        /\ NotifyState(failState, transport, Gone(t), connectTask, FALSE)
        /\ UNCHANGED fallbackTask
  /\ UNCHANGED <<transport, arrived, closeImpl, renewing>>

NoErrorResumes(t) ==
  /\ Resumes("noerror", t)
  /\ ws' = Gone(t)
  /\ UNCHANGED <<state, failState, timers, connectTask, fallbackTask, transport, arrived,
                 closeImpl, renewing, tokenError, disconnectTask>>

\* on_closed: no state is notified.
ClosedResumes(t) ==
  /\ Resumes("closed", t)
  /\ ws' = Gone(t)
  /\ connectTask' = None
  /\ UNCHANGED <<state, failState, timers, fallbackTask, transport, arrived, closeImpl,
                 renewing, tokenError, disconnectTask>>

\* on_error: enact_state_change(FAILED), not notify_state.
FatalResumes(t) ==
  /\ Resumes("fatal", t)
  /\ state' = "failed"
  /\ tokenError' = FALSE
  /\ ws' = Gone(t)
  /\ UNCHANGED <<failState, timers, connectTask, fallbackTask, transport, arrived,
                 closeImpl, renewing, disconnectTask>>

\* on_token_error: the token is renewed unless the last error was about it too.
TokenResumes(t) ==
  /\ Resumes("token", t)
  /\ IF tokenError
     THEN /\ NotifyState(failState, transport, Gone(t), connectTask, TRUE)
          /\ UNCHANGED renewing
     ELSE /\ tokenError' = TRUE
          /\ renewing' = TRUE
          /\ ws' = Gone(t)
          /\ UNCHANGED <<state, failState, timers, connectTask, disconnectTask>>
  /\ UNCHANGED <<fallbackTask, transport, arrived, closeImpl>>

TokenRenewed ==
  /\ renewing
  /\ Settled
  /\ renewing' = FALSE
  /\ \/ NotifyState(failState, transport, ws, connectTask, TRUE)
     \/ \E goal \in AuthorizeErrorStates : NotifyState(goal, transport, ws, connectTask, FALSE)
  /\ UNCHANGED <<fallbackTask, transport, arrived, waiting, closeImpl>>

\* on_auth_updated, in the state that it finds after its await.
AuthorizeResumes(t) ==
  /\ Resumes("authorize", t)
  /\ ws' = Gone(t)
  /\ IF state = "connecting" THEN StartConnect(failState) /\ UNCHANGED state
                             ELSE RequestConnecting
  /\ UNCHANGED <<failState, retryTimer, lostRetries, callSoon, fallbackTask, transport,
                 arrived, closeImpl, renewing, tokenError, disconnectTask>>

-----------------------------------------------------------------------------
(* close_impl.                                                             *)

\* Mutant of NotifyClosed: close_impl does not cancel the retry timer.
NotifyClosedRetrying(w) ==
  /\ ws' = w
  /\ state' = "closed"
  /\ IF state = "closed"
     THEN UNCHANGED <<transitionTimer, suspendTimer, failState>>
     ELSE transitionTimer' = None /\ suspendTimer' = FALSE /\ failState' = "disconnected"
  /\ UNCHANGED <<retryTimer, lostRetries, callSoon, disconnectTask, tokenError>>

\* After both awaits: the retry timer, and notify_state(CLOSED).
NotifyClosed(w) ==
  /\ retryTimer' = FALSE
  /\ ws' = w
  /\ state' = "closed"
  /\ IF state = "closed"
     THEN UNCHANGED <<transitionTimer, suspendTimer, failState>>
     ELSE transitionTimer' = None /\ suspendTimer' = FALSE /\ failState' = "disconnected"
  /\ UNCHANGED <<lostRetries, callSoon, disconnectTask, tokenError>>

\* disconnect_transport_task has not ended.
Dropping(w) == disconnectTask # None /\ w[disconnectTask] = "closing"

\* What follows the disposal of the transport: connect_base is cancelled, and
\* disconnect_transport_task awaited if it still is at work.
CancelConnect(w, pending) ==
  /\ connectTask' = None
  /\ IF Dropping(w)
     THEN /\ waiting' = pending \union {<<"background", disconnectTask>>}
          /\ ws' = w
          /\ UNCHANGED <<state, failState, timers, disconnectTask, tokenError>>
     ELSE NotifyClosed(w) /\ waiting' = pending

CloseStarts ==
  /\ closeImpl = "created" /\ NoneResuming
  /\ suspendTimer' = FALSE /\ failState' = "disconnected"
  /\ \/ /\ transport # None
        /\ closeImpl' = "slept"
        /\ transitionTimer' = "closed"
        /\ UNCHANGED <<state, retryTimer, connectTask, waiting>>
     \/ /\ transport = None
        /\ closeImpl' = "none"
        /\ connectTask' = None
        /\ IF Dropping(ws)
           THEN /\ transitionTimer' = "closed"
                /\ waiting' = waiting \union {<<"background", disconnectTask>>}
                /\ UNCHANGED <<state, retryTimer>>
           ELSE /\ transitionTimer' = IF state = "closed" THEN "closed" ELSE None
                /\ state' = "closed" /\ retryTimer' = FALSE
                /\ UNCHANGED waiting
  /\ UNCHANGED <<lostRetries, callSoon, fallbackTask, transport, ws, arrived, disconnectTask,
                 renewing, tokenError>>

\* After its sleep(0), close_impl fails if the transport has been forgotten.
CloseDisposes ==
  /\ closeImpl = "slept" /\ NoneResuming
  /\ arrived = None
  /\ closeImpl' = "none"
  /\ \/ /\ transport # None /\ ws[transport] \in {"open", "live", "closing"}
        /\ waiting' = waiting \union {<<"close", transport>>}
        /\ ws' = Disposed(ws, transport)
        /\ UNCHANGED <<state, failState, timers, connectTask, disconnectTask, tokenError>>
     \/ /\ transport # None /\ ws[transport] \in {"opening", "dead", "ticking"}
        /\ CancelConnect(Disposed(ws, transport), waiting)
     \/ /\ transport = None
        /\ UNCHANGED <<state, failState, timers, connectTask, ws, disconnectTask, waiting, tokenError>>
  /\ UNCHANGED <<fallbackTask, transport, arrived, renewing>>

CloseResumes(t) ==
  /\ <<"close", t>> \in waiting /\ LastToResume(t)
  /\ CancelConnect(Gone(t), waiting \ {<<"close", t>>})
  /\ UNCHANGED <<fallbackTask, transport, arrived, closeImpl, renewing>>

CloseEnds(t) ==
  /\ <<"background", t>> \in waiting /\ LastToResume(t)
  /\ waiting' = waiting \ {<<"background", t>>}
  /\ NotifyClosed(Gone(t))
  /\ UNCHANGED <<connectTask, fallbackTask, transport, arrived, closeImpl, renewing>>

-----------------------------------------------------------------------------
ApplicationStep == Connect \/ Close \/ AuthUpdated

TimerStep ==
  \/ TransitionTimerExpires
  \/ SuspendTimerExpires
  \/ RetryTimerExpires
  \/ LostRetryTimerExpires
  \/ ReconnectImmediately

NetworkStep(t) ==
  \/ TryHost(t)
  \/ WebsocketOpens(t)
  \/ WebsocketFails(t)
  \/ WebsocketUnreachable(t)
  \/ ConnectedArrives(t)
  \/ SocketCloses(t)
  \/ IdleTimerExpires(t)
  \/ LateIdleTimerExpires(t)
  \/ WebsocketClosed(t)

HandlerResumes(t) ==
  \/ IdleResumes(t)
  \/ DisconnectedResumes(t)
  \/ UnavailableResumes(t)
  \/ NoErrorResumes(t)
  \/ FatalResumes(t)
  \/ TokenResumes(t)
  \/ AuthorizeResumes(t)
  \/ CloseResumes(t)
  \/ CloseEnds(t)
  \/ ClosedResumes(t)

Next ==
  \/ ApplicationStep
  \/ TimerStep
  \/ \E t \in Transports : NetworkStep(t) \/ HandlerResumes(t)
  \/ \E why \in Disruptions \intersect ServerErrors : ServerDisconnects(why)
  \/ TryHostUnauthorized
  \/ OnConnected
  \/ TokenRenewed
  \/ CloseStarts
  \/ CloseDisposes

Spec == Init /\ [][Next]_vars

\* The event loop runs the timers, callbacks and tasks that are due.  Nothing is
\* assumed of the network, of the application and of the suspend timer, which takes
\* two minutes; a close handshake ends, by its own timeout at the latest.
Fairness ==
  /\ WF_vars(TransitionTimerExpires)
  /\ WF_vars(RetryTimerExpires)
  /\ WF_vars(ReconnectImmediately)
  /\ WF_vars(OnConnected)
  /\ WF_vars(CloseStarts)
  /\ WF_vars(CloseDisposes)
  /\ \A t \in Transports :
       WF_vars(TryHost(t)) /\ WF_vars(WebsocketClosed(t)) /\ WF_vars(HandlerResumes(t))

FairSpec == Spec /\ Fairness

-----------------------------------------------------------------------------
(* Properties.                                                             *)

\* A connection that has been lost is never forgotten: in DISCONNECTED and in
\* SUSPENDED something that runs will ask for CONNECTING (notify_state starts the
\* retry timer or schedules request_state), also while close() is under way.
RetryScheduled ==
  state \in {"disconnected", "suspended"} => retryTimer \/ lostRetries > 0 \/ callSoon

\* No attempt to connect lasts for ever: whatever handler has cancelled the
\* transition timer, CONNECTING is never left without one (start_connect).
ConnectingIsTimed == state = "connecting" => transitionTimer # None

\* Two websockets of one client are never open at the same time, since every transport is
\* disposed of before try_host makes the next one; and a CONNECTED message is handled only
\* for the transport the manager still uses.
OneTransport ==
  /\ \A t, u \in Transports : {ws[t], ws[u]} \subseteq {"opening", "open", "live"} => t = u
  /\ arrived # None => arrived = transport

\* In CLOSED nothing is left of the connection: no timer that .retry_timer,
\* .suspend_timer or .transition_timer names, no task, no websocket.
ClosedIsQuiet ==
  state = "closed" /\ ~Closing =>
    /\ ~retryTimer /\ ~suspendTimer /\ transitionTimer = None
    /\ connectTask = None
    /\ \A t \in Transports : ws[t] \notin {"opening", "open", "live"}

\* CONNECTED rests on a transport whose websocket is open, or on a handler that will
\* still act on the loss of it: the connection never stalls in CONNECTED.
ConnectedIsServed ==
  state = "connected" =>
    \/ transport # None /\ ws[transport] = "live"
    \/ \E w \in waiting : w[2] = transport
    \/ renewing \/ fallbackTask # None

\* "Once closed, the library will not attempt to re-establish the connection without
\* an explicit call to connect()" (Connection.close); authorize() connects as well.
ClosedStays == [][state = "closed" => state' = "closed" \/ Connect \/ AuthUpdated]_vars

\* An attempt to connect ends, whether or not the network answers, and close() completes:
\* it waits for CLOSED (Connection.close).
TransitionsEnd ==
  /\ state = "connecting" ~> state # "connecting"
  /\ state = "closing" ~> state = "closed"

=============================================================================
