--------------------------- MODULE Connection_proofs ---------------------------
(***************************************************************************)
(* Proofs about a connection: its lifecycle, for any transports, any       *)
(* disruptions and any interleaving of the handlers (an attempt to connect *)
(* is timed, a lost connection has a retry before it); that it has one     *)
(* websocket at a time, leaves nothing running when closed and is served   *)
(* while CONNECTED, under the disruptions for which the code sees to that; *)
(* and that a ping gets the round trip of its own heartbeat.               *)
(***************************************************************************)
EXTENDS Heartbeats, FiniteSetTheorems, TLAPS

-----------------------------------------------------------------------------
(* The inductive invariant.                                                *)

\* RetryScheduled, ConnectingIsTimed and the types are inductive together: that the
\* transition timer is set to a state, and not to None, rests on the type of failState.
IInv == TypeOK /\ RetryScheduled /\ ConnectingIsTimed

\* The variables by which a step may disturb RetryScheduled and ConnectingIsTimed, and
\* those that Notify changes beside them.
StateType ==
  /\ state \in ConnectionStates
  /\ failState \in {"disconnected", "suspended"}
  /\ transitionTimer \in {None, "disconnected", "suspended", "closed"}
  /\ suspendTimer \in BOOLEAN
  /\ retryTimer \in BOOLEAN
  /\ lostRetries \in 0..MaxLostRetries
  /\ callSoon \in BOOLEAN
  /\ tokenError \in BOOLEAN

\* The variables of the websockets and of the attempt to connect.
TransportType ==
  /\ connectTask \in Transports \union {None, "authorizing"}
  /\ ws \in [Transports -> WebsocketStates]
  /\ disconnectTask \in Transports \union {None}

\* The variables of which these two invariants say nothing.
RestType ==
  /\ fallbackTask \in Transports \union {None, "authorizing"}
  /\ transport \in Transports \union {None}
  /\ arrived \in Transports \union {None}
  /\ waiting \subseteq Handlers \X Transports
  /\ closeImpl \in {"none", "created", "slept"}
  /\ renewing \in BOOLEAN

\* The type invariant, taken apart by what a step may disturb.
LEMMA TypeInParts == TypeOK <=> StateType /\ TransportType /\ RestType
BY DEF TypeOK, StateType, TransportType, RestType

\* The variables of RestType.
Rest == <<fallbackTask, transport, arrived, waiting, closeImpl, renewing>>

\* A step that leaves them alone keeps their types.
LEMMA RestStays == RestType /\ UNCHANGED Rest => RestType'
BY DEF RestType, Rest

\* None is none of the states that the transition timer is set to.
LEMMA Constants ==
  None \notin {"authorizing", "disconnected", "suspended", "closed"} /\ MaxLostRetries \in Nat
BY ConstantsAssumption

\* The initial states satisfy the invariant.
LEMMA InitEstablishes == Init => IInv
<1> SUFFICES ASSUME Init PROVE IInv
  OBVIOUS
<1>1. StateType
  <2>1. 0 \in 0..MaxLostRetries
    BY Constants
  <2> QED
    BY <2>1 DEF Init, StateType, ConnectionStates
<1>2. TransportType
  BY DEF Init, TransportType, WebsocketStates
<1>3. RestType
  BY DEF Init, RestType
<1>4. RetryScheduled /\ ConnectingIsTimed
  BY Constants DEF Init, RetryScheduled, ConnectingIsTimed
<1> QED
  BY <1>1, <1>2, <1>3, <1>4, TypeInParts DEF IInv

-----------------------------------------------------------------------------
(* What the handlers share.                                                *)

\* dispose() leaves every websocket in one of its states.
LEMMA DisposedType ==
  ASSUME NEW w \in [Transports -> WebsocketStates], NEW t \in Transports \union {None}
  PROVE  Disposed(w, t) \in [Transports -> WebsocketStates]
<1>1. CASE t = None
  BY <1>1 DEF Disposed
<1>2. CASE t # None
  <2> DEFINE new == CASE w[t] = "opening" -> "dead"
                      [] w[t] \in {"open", "live"} -> "closing"
                      [] w[t] = "ticking" -> "dead"
                      [] OTHER -> w[t]
  <2>1. new \in WebsocketStates
    BY <1>2 DEF WebsocketStates
  <2>2. Disposed(w, t) = [w EXCEPT ![t] = new]
    BY <1>2 DEF Disposed
  <2> HIDE DEF new
  <2> QED
    BY <2>1, <2>2
<1> QED
  BY <1>1, <1>2

\* A transport that is gone leaves the websockets of their types.
LEMMA GoneType ==
  ASSUME TransportType, NEW t \in Transports
  PROVE  Gone(t) \in [Transports -> WebsocketStates]
BY DEF Gone, TransportType, WebsocketStates

\* notify_state of any state but CONNECTING keeps the invariant: in DISCONNECTED and
\* SUSPENDED it starts the retry timer or schedules a request for CONNECTING.
LEMMA NotifyKeeps ==
  ASSUME StateType, TransportType, RetryScheduled, ConnectingIsTimed,
         NEW new \in ConnectionStates \ {"connecting"},
         NEW current \in Transports \union {None},
         NEW w \in [Transports -> WebsocketStates],
         NEW task \in Transports \union {None, "authorizing"},
         NEW byToken \in BOOLEAN,
         Notify(new, current, w, task, byToken),
         suspendTimer' \in BOOLEAN, failState' \in {"disconnected", "suspended"}
  PROVE  StateType' /\ TransportType' /\ RetryScheduled' /\ ConnectingIsTimed'
<1> DEFINE d == Disposed(w, current)
<1>1. d \in [Transports -> WebsocketStates]
  BY DisposedType
<1> HIDE DEF d
<1>2. CASE new = state
  BY <1>2 DEF Notify, StateType, TransportType, RetryScheduled, ConnectingIsTimed
<1>3. CASE new # state
  <2>1. TransportType'
    BY <1>1, <1>3 DEF Notify, TransportType, d
  <2>2. lostRetries' \in 0..MaxLostRetries /\ retryTimer' \in BOOLEAN
    <3>1. \/ StartRetryTimer
          \/ UNCHANGED <<retryTimer, lostRetries>>
      BY <1>3 DEF Notify
    <3>2. lostRetries \in 0..MaxLostRetries /\ retryTimer \in BOOLEAN /\ MaxLostRetries \in Nat
      BY Constants DEF StateType
    <3>3. lostRetries < MaxLostRetries => lostRetries + 1 \in 0..MaxLostRetries
      BY <3>2
    <3>4. CASE StartRetryTimer
      BY <3>2, <3>3, <3>4 DEF StartRetryTimer
    <3> QED
      BY <3>1, <3>2, <3>4
  <2>3. StateType'
    BY <1>3, <2>2 DEF Notify, StateType
  <2>4. RetryScheduled' /\ ConnectingIsTimed'
    BY <1>3 DEF Notify, StartRetryTimer, RetryScheduled, ConnectingIsTimed
  <2> QED
    BY <2>1, <2>3, <2>4
<1> QED
  BY <1>2, <1>3

\* So does notify_state, which sets no state that is current already.
LEMMA NotifyStateKeeps ==
  ASSUME StateType, TransportType, RetryScheduled, ConnectingIsTimed,
         NEW new \in ConnectionStates \ {"connecting"},
         NEW current \in Transports \union {None},
         NEW w \in [Transports -> WebsocketStates],
         NEW task \in Transports \union {None, "authorizing"},
         NEW byToken \in BOOLEAN,
         NotifyState(new, current, w, task, byToken)
  PROVE  StateType' /\ TransportType' /\ RetryScheduled' /\ ConnectingIsTimed'
<1>1. suspendTimer' \in BOOLEAN /\ failState' \in {"disconnected", "suspended"}
  BY DEF NotifyState, CheckSuspendTimer, StateType
<1>2. Notify(new, current, w, task, byToken)
  BY DEF NotifyState
<1> QED
  BY <1>1, <1>2, NotifyKeeps

\* request_state(CONNECTING) sets the transition timer with the state.
LEMMA RequestConnectingKeeps ==
  ASSUME StateType, TransportType, RetryScheduled, ConnectingIsTimed,
         \/ RequestConnecting
         \/ state = "connecting" /\ StartConnect(failState) /\ UNCHANGED state,
         UNCHANGED <<failState, tokenError, disconnectTask>>,
         ws' \in [Transports -> WebsocketStates],
         retryTimer' \in BOOLEAN, lostRetries' \in 0..MaxLostRetries, callSoon' \in BOOLEAN
  PROVE  /\ StateType' /\ TransportType' /\ RetryScheduled' /\ ConnectingIsTimed'
<1>1. state' \in {"connecting", "connected"} /\ (state' = "connected" => state = state')
  BY DEF RequestConnecting
<1>2. ConnectingIsTimed'
  BY <1>1, Constants DEF RequestConnecting, StartConnect, StateType, ConnectingIsTimed
<1>3. StateType' /\ TransportType'
  BY <1>1 DEF RequestConnecting, StartConnect, StateType, TransportType, ConnectionStates
<1> QED
  BY <1>1, <1>2, <1>3 DEF RetryScheduled

\* A step that touches neither the state nor a timer.
LEMMA NothingNotified ==
  ASSUME StateType, RetryScheduled, ConnectingIsTimed,
         UNCHANGED <<state, failState, timers>>, tokenError' \in BOOLEAN
  PROVE  StateType' /\ RetryScheduled' /\ ConnectingIsTimed'
BY DEF StateType, RetryScheduled, ConnectingIsTimed, timers

-----------------------------------------------------------------------------
(* The steps.                                                              *)

\* The invariant in the parts that the steps are shown to keep.
Parts == StateType /\ TransportType /\ RestType /\ RetryScheduled /\ ConnectingIsTimed

\* What the application calls keeps the invariant.
LEMMA ApplicationKeeps == Parts /\ ApplicationStep => Parts'
<1> SUFFICES ASSUME Parts, ApplicationStep PROVE Parts'
  OBVIOUS
<1> USE DEF Parts
<1>1. CASE Connect
  <2>1. RestType'
    BY <1>1 DEF Connect, RestType
  <2>2. /\ RequestConnecting
        /\ UNCHANGED <<failState, tokenError, disconnectTask, ws>>
         /\ UNCHANGED <<retryTimer, lostRetries, callSoon>>
    BY <1>1 DEF Connect
  <2> QED
    BY <2>1, <2>2, RequestConnectingKeeps DEF StateType, TransportType
<1>2. CASE Close
  BY <1>2 DEF Close, timers, StateType, ConnectionStates, TransportType, RestType,
              RetryScheduled, ConnectingIsTimed
<1>3. CASE AuthUpdated
  <2>1. waiting' \subseteq Handlers \X Transports
    BY <1>3, Constants DEF AuthUpdated, RestType, Handlers
  <2>2. RestType'
    BY <1>3, <2>1 DEF AuthUpdated, RestType
  <2>3. /\ UNCHANGED <<failState, tokenError, disconnectTask, retryTimer, lostRetries, callSoon>>
        /\ ws' \in [Transports -> WebsocketStates]
    BY <1>3, DisposedType DEF AuthUpdated, RestType, TransportType
  <2>4. CASE /\ connectTask' = None
             /\ UNCHANGED <<state, suspendTimer, transitionTimer>>
    BY <2>2, <2>3, <2>4 DEF StateType, TransportType, RetryScheduled, ConnectingIsTimed
  <2>5. CASE \/ RequestConnecting
             \/ state = "connecting" /\ StartConnect(failState) /\ UNCHANGED state
    BY <2>2, <2>3, <2>5, RequestConnectingKeeps DEF StateType
  <2> QED
    BY <1>3, <2>4, <2>5 DEF AuthUpdated
<1> QED
  BY <1>1, <1>2, <1>3 DEF ApplicationStep

\* The expiry of a timer keeps the invariant.
LEMMA TimerKeeps == Parts /\ TimerStep => Parts'
<1> SUFFICES ASSUME Parts, TimerStep PROVE Parts'
  OBVIOUS
<1> USE DEF Parts
<1>1. RestType'
  BY DEF TimerStep, TransitionTimerExpires, SuspendTimerExpires, RetryTimerExpires,
         LostRetryTimerExpires, ReconnectImmediately, RestType
<1>2. /\ transport \in Transports \union {None} /\ ws \in [Transports -> WebsocketStates]
      /\ connectTask \in Transports \union {None, "authorizing"}
  BY DEF RestType, TransportType
<1>3. CASE TransitionTimerExpires
  <2>1. CASE transitionTimer = state
    BY <1>1, <1>3, <2>1 DEF TransitionTimerExpires, StateType, TransportType, RetryScheduled,
                            ConnectingIsTimed
  <2>2. CASE transitionTimer # state
    <3>1. transitionTimer \in ConnectionStates \ {"connecting"}
      BY <1>3 DEF TransitionTimerExpires, StateType, ConnectionStates
    <3>2. NotifyState(transitionTimer, transport, ws, connectTask, FALSE)
      BY <1>3, <2>2 DEF TransitionTimerExpires
    <3> QED
      BY <1>1, <1>2, <3>1, <3>2, NotifyStateKeeps
  <2> QED
    BY <2>1, <2>2
<1>4. CASE SuspendTimerExpires
  <2>1. /\ Notify("suspended", transport, ws, connectTask, FALSE)
        /\ suspendTimer' \in BOOLEAN /\ failState' \in {"disconnected", "suspended"}
    BY <1>4 DEF SuspendTimerExpires
  <2>2. "suspended" \in ConnectionStates \ {"connecting"}
    BY DEF ConnectionStates
  <2> QED
    BY <1>1, <1>2, <2>1, <2>2, NotifyKeeps
<1>5. CASE RetryTimerExpires \/ LostRetryTimerExpires \/ ReconnectImmediately
  <2>1. /\ RequestConnecting
        /\ UNCHANGED <<failState, tokenError, disconnectTask, ws>>
        /\ retryTimer' \in BOOLEAN /\ callSoon' \in BOOLEAN
    BY <1>5 DEF RetryTimerExpires, LostRetryTimerExpires, ReconnectImmediately, StateType
  <2>2. lostRetries' \in 0..MaxLostRetries
    BY <1>5, Constants DEF RetryTimerExpires, LostRetryTimerExpires, ReconnectImmediately, StateType
  <2> QED
    BY <1>1, <1>2, <2>1, <2>2, RequestConnectingKeeps
<1> QED
  BY <1>3, <1>4, <1>5 DEF TimerStep

\* The states that the handlers notify.
LEMMA Goals ==
  ASSUME StateType
  PROVE  /\ {"disconnected", "connected", "failed", failState}
               \subseteq ConnectionStates \ {"connecting"}
         /\ AuthorizeErrorStates \subseteq ConnectionStates \ {"connecting"}
BY DEF StateType, ConnectionStates, AuthorizeErrorStates

\* Where only tasks, websockets and handlers change, their types are all there is to show.
LEMMA QuietStepKeeps ==
  ASSUME Parts, UNCHANGED <<state, failState, timers, tokenError>>, TransportType', RestType'
  PROVE  Parts'
BY NothingNotified DEF Parts, StateType

\* The loss of the transport keeps the invariant.
LEMMA DeactivateKeeps ==
  ASSUME Parts, NEW w \in [Transports -> WebsocketStates], NEW byToken \in BOOLEAN,
         DeactivateTransport(w, byToken),
         fallbackTask' \in Transports \union {None, "authorizing"},
         arrived' \in Transports \union {None},
         waiting' \subseteq Handlers \X Transports,
         UNCHANGED <<closeImpl, renewing>>
  PROVE  Parts'
<1>1. RestType'
  BY DEF DeactivateTransport, RestType, Parts
<1>2. /\ NotifyState("disconnected", None, w, connectTask, byToken)
      /\ connectTask \in Transports \union {None, "authorizing"}
      /\ None \in Transports \union {None}
  BY DEF DeactivateTransport, Parts, TransportType
<1> QED
  BY <1>1, <1>2, Goals, NotifyStateKeeps DEF Parts

\* What happens to the websockets keeps the invariant.
LEMMA NetworkKeeps ==
  ASSUME Parts, NEW t \in Transports, NetworkStep(t)
  PROVE  Parts'
<1> USE DEF Parts
<1>1. CASE TryHost(t)
  <2>1. TransportType' /\ RestType'
    BY <1>1 DEF TryHost, TransportType, RestType, WebsocketStates
  <2> QED
    BY <1>1, <2>1, QuietStepKeeps DEF TryHost
<1>2. CASE WebsocketOpens(t) \/ WebsocketUnreachable(t) \/ WebsocketClosed(t)
  <2>1. TransportType' /\ RestType'
    BY <1>2 DEF WebsocketOpens, WebsocketUnreachable, WebsocketClosed, TransportType, RestType,
                WebsocketStates
  <2> QED
    BY <1>2, <2>1, QuietStepKeeps DEF WebsocketOpens, WebsocketUnreachable, WebsocketClosed
<1>3. CASE WebsocketFails(t)
  <2> DEFINE w == Disposed([ws EXCEPT ![t] = "dead"], transport)
  <2>1. w \in [Transports -> WebsocketStates]
    <3>1. [ws EXCEPT ![t] = "dead"] \in [Transports -> WebsocketStates]
      BY DEF TransportType, WebsocketStates
    <3> QED
      BY <3>1, DisposedType DEF RestType
  <2>2. RestType'
    BY <1>3 DEF WebsocketFails, RestType
  <2>3. \/ /\ UNCHANGED <<state, failState, timers, disconnectTask, tokenError>>
           /\ ws' = w /\ connectTask' \in {connectTask, "authorizing"}
        \/ \E task \in {None, connectTask} : NotifyState(failState, transport, w, task, FALSE)
    BY <1>3 DEF WebsocketFails
  <2> HIDE DEF w
  <2>4. CASE /\ UNCHANGED <<state, failState, timers, disconnectTask, tokenError>>
             /\ ws' = w /\ connectTask' \in {connectTask, "authorizing"}
    <3>1. TransportType'
      BY <2>1, <2>4 DEF TransportType
    <3> QED
      BY <2>2, <2>4, <3>1, QuietStepKeeps
  <2>5. ASSUME NEW task \in {None, connectTask}, NotifyState(failState, transport, w, task, FALSE)
        PROVE  Parts'
    <3>1. /\ task \in Transports \union {None, "authorizing"}
          /\ transport \in Transports \union {None}
          /\ FALSE \in BOOLEAN
      BY DEF TransportType, RestType
    <3> QED
      BY <2>1, <2>2, <2>5, <3>1, Goals, NotifyStateKeeps
  <2> QED
    BY <2>3, <2>4, <2>5
<1>4. CASE ConnectedArrives(t)
  <2>1. TransportType' /\ RestType'
    BY <1>4 DEF ConnectedArrives, TransportType, RestType
  <2> QED
    BY <1>4, <2>1, QuietStepKeeps DEF ConnectedArrives
<1>5. CASE SocketCloses(t) \/ LateIdleTimerExpires(t)
  <2>1. PICK byToken \in BOOLEAN : DeactivateTransport([ws EXCEPT ![t] = "dead"], byToken)
    BY <1>5 DEF SocketCloses, LateIdleTimerExpires, StateType
  <2>2. [ws EXCEPT ![t] = "dead"] \in [Transports -> WebsocketStates]
    BY DEF TransportType, WebsocketStates
  <2>3. UNCHANGED <<fallbackTask, arrived, waiting, closeImpl, renewing>>
    BY <1>5 DEF SocketCloses, LateIdleTimerExpires
  <2> QED
    BY <2>1, <2>2, <2>3, DeactivateKeeps DEF RestType
<1>6. CASE IdleTimerExpires(t)
  <2>1. BeginDispose("idle", t)
    BY <1>6 DEF IdleTimerExpires
  <2>2. TransportType' /\ RestType'
    BY <2>1, DisposedType DEF BeginDispose, TransportType, RestType, Handlers
  <2> QED
    BY <2>1, <2>2, QuietStepKeeps DEF BeginDispose
<1> QED
  BY <1>1, <1>2, <1>3, <1>4, <1>5, <1>6 DEF NetworkStep

\* Entering CLOSED keeps the invariant.
LEMMA NotifyClosedKeeps ==
  ASSUME Parts, NEW w \in [Transports -> WebsocketStates], NotifyClosed(w),
         connectTask' \in {connectTask, None}
  PROVE  StateType' /\ TransportType' /\ RetryScheduled' /\ ConnectingIsTimed'
BY DEF NotifyClosed, Parts, StateType, ConnectionStates, TransportType, RetryScheduled,
       ConnectingIsTimed

\* close_impl keeps the invariant when it cancels the attempt to connect.
LEMMA CancelConnectKeeps ==
  ASSUME Parts, NEW w \in [Transports -> WebsocketStates],
         NEW pending \in SUBSET (Handlers \X Transports),
         CancelConnect(w, pending),
         closeImpl' \in {closeImpl, "none"},
         UNCHANGED <<fallbackTask, transport, arrived, renewing>>
  PROVE  Parts'
<1> USE DEF Parts
<1>1. waiting' \subseteq Handlers \X Transports
  BY DEF CancelConnect, Dropping, TransportType, Handlers
<1>2. RestType'
  BY <1>1 DEF RestType
<1>3. CASE Dropping(w)
  <2>1. TransportType'
    BY <1>3 DEF CancelConnect, TransportType
  <2> QED
    BY <1>2, <1>3, <2>1, QuietStepKeeps DEF CancelConnect
<1>4. CASE ~Dropping(w)
  <2>1. NotifyClosed(w) /\ connectTask' = None
    BY <1>4 DEF CancelConnect
  <2> QED
    BY <1>2, <2>1, NotifyClosedKeeps
<1> QED
  BY <1>3, <1>4

\* The protocol messages and the handlers that wait keep the invariant.
LEMMA HandlerKeeps ==
  ASSUME Parts, NEW t \in Transports, HandlerResumes(t)
  PROVE  Parts'
<1> USE DEF Parts
<1>1. Gone(t) \in [Transports -> WebsocketStates]
  BY GoneType
<1>2. /\ transport \in Transports \union {None}
      /\ connectTask \in Transports \union {None, "authorizing"}
      /\ FALSE \in BOOLEAN /\ TRUE \in BOOLEAN
  BY DEF RestType, TransportType
<1>4. CASE IdleResumes(t)
  <2>1. /\ DeactivateTransport(Gone(t), FALSE)
        /\ waiting' \subseteq waiting /\ UNCHANGED <<fallbackTask, arrived, closeImpl, renewing>>
    BY <1>4 DEF IdleResumes, Resumes
  <2> QED
    BY <1>1, <2>1, DeactivateKeeps DEF RestType
<1>5. CASE DisconnectedResumes(t)
  <2>1. RestType'
    BY <1>5 DEF DisconnectedResumes, Resumes, RestType
  <2>2. NotifyState("disconnected", transport, Gone(t), connectTask, FALSE)
    BY <1>5 DEF DisconnectedResumes
  <2> QED
    BY <1>1, <1>2, <2>1, <2>2, Goals, NotifyStateKeeps
<1>6. CASE UnavailableResumes(t)
  <2>1. RestType'
    BY <1>6 DEF UnavailableResumes, Resumes, RestType
  <2>2. CASE /\ ws' = Gone(t)
             /\ UNCHANGED <<state, failState, timers, connectTask, disconnectTask, tokenError>>
    <3>1. TransportType'
      BY <1>1, <2>2 DEF TransportType
    <3> QED
      BY <2>1, <2>2, <3>1, QuietStepKeeps
  <2>3. CASE NotifyState(failState, transport, Gone(t), connectTask, FALSE)
    BY <1>1, <1>2, <2>1, <2>3, Goals, NotifyStateKeeps
  <2> QED
    BY <1>6, <2>2, <2>3 DEF UnavailableResumes
<1>7. CASE NoErrorResumes(t) \/ ClosedResumes(t)
  <2>1. TransportType' /\ RestType'
    BY <1>1, <1>7 DEF NoErrorResumes, ClosedResumes, Resumes, TransportType, RestType
  <2> QED
    BY <1>7, <2>1, QuietStepKeeps DEF NoErrorResumes, ClosedResumes
<1>8. CASE FatalResumes(t)
  <2>1. StateType' /\ RetryScheduled' /\ ConnectingIsTimed'
    BY <1>8 DEF FatalResumes, timers, StateType, ConnectionStates, RetryScheduled, ConnectingIsTimed
  <2>2. TransportType' /\ RestType'
    BY <1>1, <1>8 DEF FatalResumes, Resumes, TransportType, RestType
  <2> QED
    BY <2>1, <2>2
<1>9. CASE TokenResumes(t)
  <2>1. RestType'
    BY <1>9 DEF TokenResumes, Resumes, RestType
  <2>2. CASE tokenError
    <3>1. NotifyState(failState, transport, Gone(t), connectTask, TRUE)
      BY <1>9, <2>2 DEF TokenResumes
    <3> QED
      BY <1>1, <1>2, <2>1, <3>1, Goals, NotifyStateKeeps
  <2>3. CASE ~tokenError
    BY <1>1, <1>9, <2>1, <2>3 DEF TokenResumes, timers, StateType, TransportType,
                                  RetryScheduled, ConnectingIsTimed
  <2> QED
    BY <2>2, <2>3
<1>10. CASE AuthorizeResumes(t)
  <2>1. RestType'
    BY <1>10 DEF AuthorizeResumes, Resumes, RestType
  <2>2. /\ UNCHANGED <<failState, tokenError, disconnectTask, retryTimer, lostRetries, callSoon>>
        /\ ws' = Gone(t)
        /\ \/ RequestConnecting
           \/ state = "connecting" /\ StartConnect(failState) /\ UNCHANGED state
    BY <1>10 DEF AuthorizeResumes
  <2>3. retryTimer' \in BOOLEAN /\ lostRetries' \in 0..MaxLostRetries /\ callSoon' \in BOOLEAN
    BY <2>2 DEF StateType
  <2> QED
    BY <1>1, <2>1, <2>2, <2>3, RequestConnectingKeeps
<1>11. CASE CloseResumes(t)
  <2>1. /\ CancelConnect(Gone(t), waiting \ {<<"close", t>>})
        /\ UNCHANGED <<fallbackTask, transport, arrived, closeImpl, renewing>>
    BY <1>11 DEF CloseResumes
  <2>2. waiting \ {<<"close", t>>} \in SUBSET (Handlers \X Transports)
    BY DEF RestType
  <2> QED
    BY <1>1, <2>1, <2>2, CancelConnectKeeps
<1>12. CASE CloseEnds(t)
  <2>1. RestType'
    BY <1>12 DEF CloseEnds, RestType
  <2> QED
    BY <1>1, <1>12, <2>1, NotifyClosedKeeps DEF CloseEnds
<1> QED
  BY <1>4, <1>5, <1>6, <1>7, <1>8, <1>9, <1>10, <1>11, <1>12 DEF HandlerResumes

\* The remaining steps keep the invariant.
LEMMA OtherStepsKeep ==
  ASSUME Parts,
         \/ \E why \in Disruptions \intersect ServerErrors : ServerDisconnects(why)
         \/ TryHostUnauthorized
         \/ OnConnected
         \/ TokenRenewed
         \/ CloseStarts
         \/ CloseDisposes
  PROVE  Parts'
<1> USE DEF Parts
<1>1. /\ transport \in Transports \union {None} /\ ws \in [Transports -> WebsocketStates]
      /\ connectTask \in Transports \union {None, "authorizing"}
      /\ None \in Transports \union {None, "authorizing"}
      /\ FALSE \in BOOLEAN /\ TRUE \in BOOLEAN
  BY DEF RestType, TransportType
<1>2. CASE \E why \in Disruptions \intersect ServerErrors : ServerDisconnects(why)
  <2>1. PICK why \in Disruptions \intersect ServerErrors : ServerDisconnects(why)
    BY <1>2
  <2>2. BeginDispose(why, transport) /\ transport \in Transports /\ why \in Handlers
    BY <1>1, <2>1 DEF ServerDisconnects, Handlers
  <2>3. TransportType' /\ RestType'
    BY <2>2, DisposedType DEF BeginDispose, TransportType, RestType
  <2> QED
    BY <2>2, <2>3, QuietStepKeeps DEF BeginDispose
<1>3. CASE TryHostUnauthorized
  <2>1. RestType'
    BY <1>3 DEF TryHostUnauthorized, RestType
  <2>2. PICK goal \in AuthorizeErrorStates, task \in {None, connectTask} :
          NotifyState(goal, transport, ws, task, FALSE)
    BY <1>3 DEF TryHostUnauthorized
  <2>3. task \in Transports \union {None, "authorizing"}
    BY <1>1
  <2> QED
    BY <1>1, <2>1, <2>2, <2>3, Goals, NotifyStateKeeps
<1>4. CASE OnConnected
  <2> DEFINE w == [ws EXCEPT ![arrived] = IF @ = "open" THEN "live" ELSE "ticking"]
  <2>1. w \in [Transports -> WebsocketStates]
    BY DEF TransportType, WebsocketStates
  <2>2. RestType'
    BY <1>4 DEF OnConnected, RestType
  <2>3. PICK goal \in {"connected", "failed"} :
          /\ Notify(goal, transport, w, connectTask, IF goal = "failed" THEN FALSE ELSE tokenError)
          /\ suspendTimer' = IF goal = state THEN suspendTimer ELSE FALSE
          /\ failState' = "disconnected"
    BY <1>4 DEF OnConnected
  <2> DEFINE byToken == IF goal = "failed" THEN FALSE ELSE tokenError
  <2>4. /\ byToken \in BOOLEAN
        /\ suspendTimer' \in BOOLEAN /\ failState' \in {"disconnected", "suspended"}
    BY <2>3 DEF StateType
  <2>5. Notify(goal, transport, w, connectTask, byToken)
    BY <2>3
  <2>6. goal \in ConnectionStates \ {"connecting"}
    BY <2>3, Goals
  <2> HIDE DEF w, byToken
  <2> QED
    BY <1>1, <2>1, <2>2, <2>4, <2>5, <2>6, NotifyKeeps, ZenonT(60)
<1>5. CASE TokenRenewed
  <2>1. RestType'
    BY <1>5 DEF TokenRenewed, RestType
  <2>2. PICK goal \in {failState} \union AuthorizeErrorStates, byToken \in BOOLEAN :
          NotifyState(goal, transport, ws, connectTask, byToken)
    BY <1>5 DEF TokenRenewed
  <2> QED
    BY <1>1, <2>1, <2>2, Goals, NotifyStateKeeps
<1>6. CASE CloseStarts
  <2>1. RestType'
    BY <1>6 DEF CloseStarts, RestType, Dropping, TransportType, Handlers
  <2>2. TransportType'
    BY <1>6 DEF CloseStarts, TransportType
  <2>3. StateType'
    BY <1>6 DEF CloseStarts, StateType, ConnectionStates
  <2>4. RetryScheduled' /\ ConnectingIsTimed'
    BY <1>6, Constants DEF CloseStarts, RetryScheduled, ConnectingIsTimed
  <2> QED
    BY <2>1, <2>2, <2>3, <2>4
<1>7. CASE CloseDisposes
  <2>0. UNCHANGED <<fallbackTask, transport, arrived, renewing>> /\ closeImpl' = "none"
    BY <1>7 DEF CloseDisposes
  <2>1. CASE /\ transport # None
             /\ waiting' = waiting \union {<<"close", transport>>}
             /\ ws' = Disposed(ws, transport)
             /\ UNCHANGED <<state, failState, timers, connectTask, disconnectTask, tokenError>>
    <3>1. TransportType' /\ RestType'
      BY <1>1, <2>0, <2>1, DisposedType DEF TransportType, RestType, Handlers
    <3> QED
      BY <2>1, <3>1, QuietStepKeeps
  <2>2. CASE CancelConnect(Disposed(ws, transport), waiting)
    <3>1. /\ Disposed(ws, transport) \in [Transports -> WebsocketStates]
          /\ waiting \in SUBSET (Handlers \X Transports)
      BY <1>1, DisposedType DEF RestType
    <3> QED
      BY <2>0, <2>2, <3>1, CancelConnectKeeps
  <2>3. CASE UNCHANGED <<state, failState, timers, connectTask, ws, disconnectTask, waiting,
                         tokenError>>
    <3>1. TransportType' /\ RestType'
      BY <2>0, <2>3 DEF TransportType, RestType
    <3> QED
      BY <2>3, <3>1, QuietStepKeeps
  <2> QED
    BY <1>7, <2>1, <2>2, <2>3 DEF CloseDisposes
<1> QED
  BY <1>2, <1>3, <1>4, <1>5, <1>6, <1>7

\* Every step keeps the invariant, so that it is inductive.
LEMMA NextKeeps == IInv /\ [Next]_vars => IInv'
<1> SUFFICES ASSUME IInv, [Next]_vars PROVE IInv'
  OBVIOUS
<1>1. Parts
  BY TypeInParts DEF IInv, Parts
<1>2. Parts' => IInv'
  BY DEF IInv, Parts, TypeOK, StateType, TransportType, RestType, RetryScheduled, ConnectingIsTimed
<1>3. CASE ApplicationStep \/ TimerStep
  BY <1>1, <1>2, <1>3, ApplicationKeeps, TimerKeeps
<1>4. CASE \E t \in Transports : NetworkStep(t) \/ HandlerResumes(t)
  BY <1>1, <1>2, <1>4, NetworkKeeps, HandlerKeeps
<1>5. CASE \/ \E why \in Disruptions \intersect ServerErrors : ServerDisconnects(why)
           \/ TryHostUnauthorized
           \/ OnConnected
           \/ TokenRenewed
           \/ CloseStarts
           \/ CloseDisposes
  BY <1>1, <1>2, <1>5, OtherStepsKeep
<1>6. CASE UNCHANGED vars
  BY <1>6 DEF vars, IInv, TypeOK, RetryScheduled, ConnectingIsTimed
<1> QED
  BY <1>3, <1>4, <1>5, <1>6 DEF Next

-----------------------------------------------------------------------------
(* The theorems.                                                           *)

\* The inductive invariant holds in every behaviour.
THEOREM IInvAlways == Spec => []IInv
BY InitEstablishes, NextKeeps, PTL DEF Spec

\* Type correctness, for any transports and any disruptions.
THEOREM ConnectionTypeCorrect == Spec => []TypeOK
<1>1. IInv => TypeOK
  BY DEF IInv
<1> QED
  BY <1>1, IInvAlways, PTL

\* In DISCONNECTED and SUSPENDED a retry timer runs or a request for CONNECTING is
\* scheduled, whatever handler notified the state and whatever close() is doing.
THEOREM LostConnectionRetries == Spec => []RetryScheduled
<1>1. IInv => RetryScheduled
  BY DEF IInv
<1> QED
  BY <1>1, IInvAlways, PTL

\* CONNECTING is never left to an attempt that nothing ends.
THEOREM AttemptsAreTimed == Spec => []ConnectingIsTimed
<1>1. IInv => ConnectingIsTimed
  BY DEF IInv
<1> QED
  BY <1>1, IInvAlways, PTL

-----------------------------------------------------------------------------
(* One websocket at a time.                                                *)

\* The disruptions under which a connection has one websocket at a time. With any of the
\* others there is a behaviour with a second one: a 5xx (the fallback attempt runs beside
\* the next), a renewal of the token, a CONNECTED naming another clientId, a task that is
\* overtaken in the turn that created it, a close handshake that outlives the retry timer,
\* connect() while a retry timer runs or close() is under way, and authorize().
Orderly ==
  Disruptions \subseteq {"refused", "unreachable", "socket", "idle", "disconnected", "noerror",
                         "closed", "fatal", "forbidden"}

\* Why a handler may wait for a websocket to close, under these disruptions.
Asked ==
  {"idle", "close"} \union (Disruptions \intersect {"disconnected", "noerror", "closed", "fatal"})

\* No websocket is alive.
AllDead == \A t \in Transports : ws[t] = "dead"

\* No fallback attempt and no renewal of a token runs beside the attempt to connect.
NoSideTask == fallbackTask = None /\ ~renewing /\ waiting \subseteq Asked \X Transports

\* A websocket that is alive is that of the current transport.
OnlyCurrentAlive ==
  \A t \in Transports : ws[t] # "dead" => t = transport /\ ws[t] # "ticking"

\* A handler that waits, waits for the one websocket that is closing; a second one may
\* wait for it only when the first, or the second, is the handler of close().
WaitingForOne ==
  /\ waiting # {} => \A t \in Transports : ws[t] \in {"closing", "dead"}
  /\ \A w \in waiting, t \in Transports : ws[t] = "closing" => w[2] = t
  /\ \A v, w \in waiting : v[2] = w[2] /\ (v[1] = w[1] \/ "close" \in {v[1], w[1]})

\* A websocket is there only in the states that have one, or until close_impl has
\* disposed of it.
SocketFitsState ==
  \A t \in Transports :
    /\ ws[t] \in {"opening", "open"} => state = "connecting" \/ closeImpl # "none"
    /\ ws[t] = "live" => state = "connected" \/ closeImpl # "none"
    /\ ws[t] = "closing"
         => state \in {"connecting", "connected", "disconnected", "suspended"} \/ Closing

\* The connect task obtains a token, or waits for its websocket to open.
TaskFitsSocket ==
  /\ connectTask = "authorizing" => AllDead
  /\ connectTask \in Transports
       => connectTask = transport /\ ws[transport] \in {"opening", "dead"}
  /\ connectTask # None => waiting = {} /\ (state = "connecting" \/ closeImpl # "none")

\* A request that is scheduled finds nothing left of the lost transport.
SoonFitsState ==
  callSoon => AllDead /\ waiting = {} /\ state = "disconnected" /\ connectTask = None

\* A CONNECTED that has arrived is that of the current websocket.
ArrivedFitsState ==
  arrived # None => /\ arrived = transport /\ ws[arrived] = "open"
                    /\ state = "connecting" /\ closeImpl = "none"

\* While close_impl runs the state is CLOSING and nothing else is scheduled; a handler
\* that waits on behalf of close() finds neither CONNECTING nor CONNECTED.
CloseFitsState ==
  /\ closeImpl # "none" => state = "closing" /\ arrived = None /\ ~callSoon /\ NoneResuming
  /\ closeImpl = "slept" => transport # None
  /\ \A w \in waiting :
       w[1] = "close" => state \notin {"connecting", "connected"} /\ closeImpl = "none"

\* CONNECTED has no transition timer and CLOSED no timer at all.
TimersFitState ==
  /\ state = "connected" => transitionTimer = None
  /\ transitionTimer = "closed" => Closing
  /\ state = "closed" => transitionTimer = None /\ ~suspendTimer
  /\ state = "closed" /\ ~Closing => ~retryTimer

\* The inductive invariant, on top of IInv.
OrderInv ==
  /\ NoSideTask /\ OnlyCurrentAlive /\ WaitingForOne /\ SocketFitsState /\ TaskFitsSocket
  /\ SoonFitsState /\ ArrivedFitsState /\ CloseFitsState /\ TimersFitState

\* What is assumed of the constants, and of the state, in the steps that follow.
Given == Orderly /\ IInv /\ OrderInv

\* None and "authorizing" are neither transports nor the same.
LEMMA Identities ==
  None \notin Transports /\ "authorizing" \notin Transports /\ None # "authorizing"
BY ConstantsAssumption

\* There is a transport.
LEMMA TransportsExist == \E t \in Transports : TRUE
<1> SUFFICES ASSUME Transports = {} PROVE FALSE
  OBVIOUS
<1>1. Cardinality(Transports) = 0
  BY FS_EmptySet
<1> QED
  BY <1>1, ConstantsAssumption

\* The initial states satisfy the invariant.
LEMMA OrderInit == Init => OrderInv
<1> SUFFICES ASSUME Init PROVE OrderInv
  OBVIOUS
<1> USE DEF Init
<1>1. NoSideTask /\ OnlyCurrentAlive /\ WaitingForOne /\ SocketFitsState
  BY DEF NoSideTask, OnlyCurrentAlive, WaitingForOne, SocketFitsState
<1>2. TaskFitsSocket
  BY Identities DEF TaskFitsSocket, AllDead
<1>3. SoonFitsState /\ ArrivedFitsState /\ CloseFitsState
  BY DEF SoonFitsState, ArrivedFitsState, CloseFitsState
<1>4. TimersFitState
  BY Constants DEF TimersFitState
<1> QED
  BY <1>1, <1>2, <1>3, <1>4 DEF OrderInv

\* Without "sameturn" the tasks created in a turn have run before anything else happens.
LEMMA InTurnIsSettled ==
  ASSUME Given, InTurn \/ Settled
  PROVE  arrived = None /\ ~callSoon /\ closeImpl = "none" /\ NoneResuming
BY DEF Given, Orderly, InTurn, Settled, TasksRun

\* An open websocket is that of the transport, and nothing waits for another.
LEMMA AliveAlone ==
  ASSUME Given, NEW t \in Transports, ws[t] \in {"opening", "open", "live"}
  PROVE  /\ t = transport /\ waiting = {} /\ ~callSoon
         /\ \A u \in Transports : u # t => ws[u] = "dead"
         /\ ws[t] # "opening" => connectTask = None
<1>1. t = transport /\ \A u \in Transports : u # t => ws[u] = "dead"
  BY DEF Given, OrderInv, OnlyCurrentAlive
<1>2. waiting = {}
  BY DEF Given, OrderInv, WaitingForOne
<1>3. ~AllDead
  BY DEF AllDead
<1>4. ~callSoon
  BY <1>3 DEF Given, OrderInv, SoonFitsState
<1>5. connectTask \in Transports \union {None, "authorizing"}
  BY DEF Given, IInv, TypeOK
<1>6. ws[t] # "opening" => connectTask = None
  BY <1>1, <1>3, <1>5 DEF Given, OrderInv, TaskFitsSocket
<1> QED
  BY <1>1, <1>2, <1>4, <1>6

\* Where no websocket is alive, what is left of the invariant is about the handlers.
LEMMA NothingAlive ==
  ASSUME NoSideTask', TimersFitState', closeImpl' = "none", arrived' = None, connectTask' = None,
         \A u \in Transports : ws'[u] = "dead",
         NEW t \in Transports, waiting' \subseteq {<<"close", t>>},
         waiting' # {} => state' \notin {"connecting", "connected"},
         callSoon' => waiting' = {} /\ state' = "disconnected"
  PROVE  OrderInv'
<1>1. AllDead'
  BY DEF AllDead
<1>2. OnlyCurrentAlive' /\ SocketFitsState'
  BY DEF OnlyCurrentAlive, SocketFitsState
<1>3. WaitingForOne'
  BY DEF WaitingForOne
<1>4. TaskFitsSocket'
  BY <1>1, Identities DEF TaskFitsSocket
<1>5. SoonFitsState' /\ ArrivedFitsState'
  BY <1>1 DEF SoonFitsState, ArrivedFitsState
<1>6. CloseFitsState'
  BY DEF CloseFitsState
<1> QED
  BY <1>1, <1>2, <1>3, <1>4, <1>5, <1>6 DEF OrderInv

-----------------------------------------------------------------------------
\* Requests for CONNECTING.

\* A request for CONNECTING from another state finds no websocket alive.
LEMMA RequestOrder ==
  ASSUME Given, RequestConnecting, UNCHANGED <<fallbackTask, transport, ws, arrived, waiting,
                                              closeImpl, renewing>>,
         arrived = None, closeImpl = "none", ~callSoon', retryTimer' => retryTimer,
         state \notin {"connecting", "connected"} => AllDead /\ waiting = {}
  PROVE  OrderInv'
<1>1. CASE state \in {"connecting", "connected"}
  <2>1. UNCHANGED <<state, suspendTimer, transitionTimer, connectTask>>
    BY <1>1 DEF RequestConnecting
  <2> USE <2>1 DEF Given, OrderInv
  <2>2. NoSideTask' /\ OnlyCurrentAlive'
    BY DEF NoSideTask, OnlyCurrentAlive
  <2>3. WaitingForOne'
    BY DEF WaitingForOne
  <2>4. SocketFitsState'
    BY DEF SocketFitsState, Closing
  <2>5. TaskFitsSocket' /\ SoonFitsState' /\ ArrivedFitsState'
    BY DEF TaskFitsSocket, SoonFitsState, ArrivedFitsState, AllDead
  <2>6. CloseFitsState' /\ TimersFitState'
    BY DEF CloseFitsState, TimersFitState, Closing
  <2> QED
    BY <2>2, <2>3, <2>4, <2>5, <2>6
<1>2. CASE state \notin {"connecting", "connected"}
  <2>1. /\ state' = "connecting" /\ transitionTimer' = failState /\ connectTask' = "authorizing"
        /\ failState \in {"disconnected", "suspended"}
    BY <1>2 DEF RequestConnecting, StartConnect, Given, IInv, TypeOK
  <2>2. AllDead /\ AllDead' /\ waiting' = {}
    BY <1>2 DEF AllDead
  <2>3. NoSideTask' /\ OnlyCurrentAlive' /\ WaitingForOne' /\ SocketFitsState'
    BY <2>2 DEF Given, OrderInv, NoSideTask, OnlyCurrentAlive, WaitingForOne, SocketFitsState,
                AllDead
  <2>4. TaskFitsSocket'
    BY <2>1, <2>2, Identities DEF TaskFitsSocket
  <2>5. SoonFitsState' /\ ArrivedFitsState' /\ CloseFitsState'
    BY <2>2 DEF SoonFitsState, ArrivedFitsState, CloseFitsState
  <2>6. TimersFitState'
    BY <2>1 DEF TimersFitState
  <2> QED
    BY <2>3, <2>4, <2>5, <2>6 DEF OrderInv
<1> QED
  BY <1>1, <1>2

\* Outside CONNECTING and CONNECTED only a close handshake may be going on.
LEMMA OnlyHandshakes ==
  ASSUME Given, closeImpl = "none", state \notin {"connecting", "connected"}
  PROVE  \A t \in Transports : ws[t] \in {"dead", "closing"}
<1> SUFFICES ASSUME NEW t \in Transports PROVE ws[t] \in {"dead", "closing"}
  OBVIOUS
<1>1. ws[t] \in WebsocketStates
  BY DEF Given, IInv, TypeOK
<1> QED
  BY <1>1 DEF Given, OrderInv, SocketFitsState, OnlyCurrentAlive, WebsocketStates

\* The steps that request CONNECTING.
LEMMA RequestsOrder ==
  ASSUME Given, Connect \/ RetryTimerExpires \/ LostRetryTimerExpires \/ ReconnectImmediately
  PROVE  OrderInv'
<1>1. CASE Connect
  <2>1. arrived = None /\ ~callSoon /\ closeImpl = "none" /\ NoneResuming
    BY <1>1, InTurnIsSettled DEF Connect
  <2>2. ~Closing /\ state \notin {"connecting", "connected", "disconnected", "suspended"}
    BY <1>1, <2>1 DEF Connect, Given, Orderly, IInv, RetryScheduled
  <2>3. AllDead
    BY <2>1, <2>2, OnlyHandshakes DEF AllDead, Given, OrderInv, SocketFitsState
  <2>4. waiting = {}
    BY <2>1, <2>3 DEF NoneResuming, AllDead, Given, IInv, TypeOK
  <2> QED
    BY <1>1, <2>1, <2>3, <2>4, RequestOrder DEF Connect
<1>2. CASE RetryTimerExpires \/ LostRetryTimerExpires
  <2>1. arrived = None /\ ~callSoon /\ closeImpl = "none" /\ NoneResuming
    BY <1>2, InTurnIsSettled DEF RetryTimerExpires, LostRetryTimerExpires
  <2>2. \A t \in Transports : ws[t] # "closing"
    BY <1>2 DEF RetryTimerExpires, LostRetryTimerExpires, ClosedInTime, Given, Orderly
  <2>3. ASSUME state \notin {"connecting", "connected"} PROVE AllDead /\ waiting = {}
    <3>1. AllDead
      BY <2>1, <2>2, <2>3, OnlyHandshakes DEF AllDead
    <3> QED
      BY <2>1, <3>1 DEF NoneResuming, AllDead, Given, IInv, TypeOK
  <2> QED
    BY <1>2, <2>1, <2>3, RequestOrder DEF RetryTimerExpires, LostRetryTimerExpires
<1>3. CASE ReconnectImmediately
  <2>1. AllDead /\ waiting = {} /\ state = "disconnected"
    BY <1>3 DEF ReconnectImmediately, Given, OrderInv, SoonFitsState
  <2>2. arrived = None /\ closeImpl = "none"
    BY <1>3, <2>1 DEF ReconnectImmediately, Given, OrderInv, ArrivedFitsState, CloseFitsState
  <2> QED
    BY <1>3, <2>1, <2>2, RequestOrder DEF ReconnectImmediately
<1> QED
  BY <1>1, <1>2, <1>3

-----------------------------------------------------------------------------
\* Giving up an attempt, or a connection.

\* notify_state of DISCONNECTED, outside CONNECTED, or of SUSPENDED disposes of the transport:
\* at most a close handshake is left.
LEMMA DropOrder ==
  ASSUME Given, NEW new \in {"disconnected", "suspended"},
         new = "disconnected" => state # "connected",
         Notify(new, transport, ws, connectTask, FALSE),
         arrived = None, closeImpl = "none", ~callSoon,
         UNCHANGED <<fallbackTask, transport, arrived, waiting, closeImpl, renewing>>
  PROVE  OrderInv'
<1>1. CASE new = state
  <2>1. UNCHANGED <<state, transitionTimer, callSoon, ws, connectTask>>
    BY <1>1 DEF Notify
  <2> USE <2>1 DEF Given, OrderInv
  <2>2. NoSideTask' /\ OnlyCurrentAlive'
    BY DEF NoSideTask, OnlyCurrentAlive
  <2>3. WaitingForOne' /\ SocketFitsState'
    BY DEF WaitingForOne, SocketFitsState, Closing
  <2>4. TaskFitsSocket' /\ SoonFitsState' /\ ArrivedFitsState'
    BY DEF TaskFitsSocket, SoonFitsState, ArrivedFitsState, AllDead
  <2>5. CloseFitsState' /\ TimersFitState'
    BY <1>1 DEF CloseFitsState, TimersFitState, Closing
  <2> QED
    BY <2>2, <2>3, <2>4, <2>5
<1>2. CASE new # state
  <2> DEFINE w == Disposed(ws, transport)
  <2>1. /\ state' = new /\ transitionTimer' = None /\ ~callSoon' /\ connectTask' = None /\ ws' = w
    BY <1>2 DEF Notify
  <2>2. \A t \in Transports : w[t] \in {"closing", "dead"} /\ (w[t] = "closing" => ws[t] # "dead")
    <3> SUFFICES ASSUME NEW t \in Transports
                 PROVE  w[t] \in {"closing", "dead"} /\ (w[t] = "closing" => ws[t] # "dead")
      OBVIOUS
    <3>1. ws \in [Transports -> WebsocketStates] /\ transport \in Transports \union {None}
      BY DEF Given, IInv, TypeOK
    <3>2. ws[t] # "dead" => t = transport /\ ws[t] # "ticking"
      BY DEF Given, OrderInv, OnlyCurrentAlive
    <3>3. CASE t = transport
      BY <3>1, <3>2, <3>3, Identities DEF Disposed, WebsocketStates
    <3>4. CASE t # transport
      BY <3>1, <3>2, <3>4 DEF Disposed, WebsocketStates
    <3> QED
      BY <3>3, <3>4
  <2> HIDE DEF w
  <2>3. NoSideTask'
    BY DEF Given, OrderInv, NoSideTask
  <2>4. OnlyCurrentAlive'
    BY <2>1, <2>2 DEF Given, OrderInv, OnlyCurrentAlive
  <2>5. WaitingForOne'
    <3>1. \A v \in waiting, t \in Transports : ws[t] # "dead" => v[2] = t
      BY DEF Given, OrderInv, WaitingForOne
    <3> QED
      BY <2>1, <2>2, <3>1 DEF Given, OrderInv, WaitingForOne
  <2>6. SocketFitsState'
    BY <2>1, <2>2 DEF SocketFitsState
  <2>7. TaskFitsSocket' /\ SoonFitsState' /\ ArrivedFitsState'
    BY <2>1, Identities DEF TaskFitsSocket, SoonFitsState, ArrivedFitsState
  <2>8. CloseFitsState' /\ TimersFitState'
    BY <2>1, Constants DEF CloseFitsState, TimersFitState, Given, OrderInv
  <2> QED
    BY <2>3, <2>4, <2>5, <2>6, <2>7, <2>8 DEF OrderInv
<1> QED
  BY <1>1, <1>2

\* The transition timer gives an attempt up, or close() its handshake.
LEMMA TimeoutOrder ==
  ASSUME Given, TransitionTimerExpires \/ SuspendTimerExpires
  PROVE  OrderInv'
<1>1. arrived = None /\ ~callSoon /\ closeImpl = "none" /\ NoneResuming
  BY InTurnIsSettled DEF TransitionTimerExpires, SuspendTimerExpires
<1>2. transitionTimer \in {None, "disconnected", "suspended", "closed"}
  BY DEF Given, IInv, TypeOK
<1>3. CASE SuspendTimerExpires
  <2>1. /\ Notify("suspended", transport, ws, connectTask, FALSE)
        /\ UNCHANGED <<fallbackTask, transport, arrived, waiting, closeImpl, renewing>>
    BY <1>3 DEF SuspendTimerExpires
  <2> QED
    BY <1>1, <2>1, DropOrder
<1>4. CASE TransitionTimerExpires /\ transitionTimer = state
  <2>1. /\ transitionTimer' = None
        /\ UNCHANGED <<state, suspendTimer, retryTimer, callSoon, connectTask, ws>>
        /\ UNCHANGED <<fallbackTask, transport, arrived, waiting, closeImpl, renewing>>
    BY <1>4 DEF TransitionTimerExpires
  <2> USE <2>1 DEF Given, OrderInv
  <2>2. NoSideTask' /\ OnlyCurrentAlive'
    BY DEF NoSideTask, OnlyCurrentAlive
  <2>3. WaitingForOne' /\ SocketFitsState'
    BY DEF WaitingForOne, SocketFitsState, Closing
  <2>4. TaskFitsSocket' /\ SoonFitsState' /\ ArrivedFitsState'
    BY DEF TaskFitsSocket, SoonFitsState, ArrivedFitsState, AllDead
  <2>5. CloseFitsState' /\ TimersFitState'
    BY Constants DEF CloseFitsState, TimersFitState, NoneResuming, Closing
  <2> QED
    BY <2>2, <2>3, <2>4, <2>5
<1>5. CASE TransitionTimerExpires /\ transitionTimer # state
  <2>1. /\ Notify(transitionTimer, transport, ws, connectTask, FALSE)
        /\ CheckSuspendTimer(transitionTimer)
        /\ UNCHANGED <<fallbackTask, transport, arrived, waiting, closeImpl, renewing>>
        /\ transitionTimer # None
    BY <1>5 DEF TransitionTimerExpires, NotifyState
  <2>2. state # "connected"
    BY <2>1 DEF Given, OrderInv, TimersFitState
  <2>3. CASE transitionTimer \in {"disconnected", "suspended"}
    BY <1>1, <1>5, <2>1, <2>2, <2>3, DropOrder
  <2>4. CASE transitionTimer = "closed"
    <3>1. \E w \in waiting : w[1] = "close"
      BY <1>1, <2>4 DEF Given, OrderInv, TimersFitState, Closing, NoSideTask, Asked
    <3>2. state \notin {"connecting", "connected"}
      BY <3>1 DEF Given, OrderInv, CloseFitsState
    <3>3. /\ state' = "closed" /\ transitionTimer' = None /\ ~callSoon' /\ ~suspendTimer'
          /\ ws' = ws /\ connectTask' = connectTask
      BY <1>1, <1>5, <2>1, <2>4 DEF Notify, CheckSuspendTimer
    <3>4. connectTask = None
      BY <3>1 DEF Given, OrderInv, TaskFitsSocket
    <3>5. NoSideTask' /\ OnlyCurrentAlive' /\ WaitingForOne'
      BY <2>1, <3>3 DEF Given, OrderInv, NoSideTask, OnlyCurrentAlive, WaitingForOne
    <3>6. SocketFitsState'
      BY <1>1, <2>1, <3>1, <3>2, <3>3, OnlyHandshakes DEF SocketFitsState, Closing
    <3>7. TaskFitsSocket' /\ SoonFitsState' /\ ArrivedFitsState'
      BY <1>1, <2>1, <3>3, <3>4, Identities DEF TaskFitsSocket, SoonFitsState, ArrivedFitsState
    <3>8. CloseFitsState' /\ TimersFitState'
      BY <1>1, <2>1, <3>1, <3>3, Constants DEF CloseFitsState, TimersFitState, Closing
    <3> QED
      BY <3>5, <3>6, <3>7, <3>8 DEF OrderInv
  <2> QED
    BY <1>2, <2>1, <2>3, <2>4
<1> QED
  BY <1>3, <1>4, <1>5

-----------------------------------------------------------------------------
\* The network.

\* The connect task opens a websocket, when no other is alive.
LEMMA TryHostOrder ==
  ASSUME Given, NEW t \in Transports, TryHost(t)
  PROVE  OrderInv'
<1>1. arrived = None /\ ~callSoon /\ closeImpl = "none" /\ NoneResuming
  BY InTurnIsSettled DEF TryHost
<1>2. connectTask = "authorizing" /\ connectTask' = t
  BY Identities DEF TryHost, Given, OrderInv, NoSideTask
<1>3. AllDead /\ waiting = {} /\ state = "connecting"
  BY <1>1, <1>2, Identities DEF Given, OrderInv, TaskFitsSocket
<1>4. /\ ws'[t] = "opening" /\ transport' = t
      /\ \A u \in Transports : u # t => ws'[u] = "dead"
  BY <1>3 DEF TryHost, AllDead, Given, IInv, TypeOK
<1>5. UNCHANGED <<state, transitionTimer, suspendTimer, callSoon, fallbackTask, arrived, waiting,
                  closeImpl, renewing>>
  BY <1>2, Identities DEF TryHost, timers, Given, OrderInv, NoSideTask
<1>6. NoSideTask' /\ OnlyCurrentAlive' /\ WaitingForOne'
  BY <1>3, <1>4, <1>5 DEF Given, OrderInv, NoSideTask, OnlyCurrentAlive, WaitingForOne
<1>7. SocketFitsState'
  BY <1>3, <1>4, <1>5 DEF SocketFitsState
<1>8. TaskFitsSocket' /\ SoonFitsState' /\ ArrivedFitsState'
  BY <1>1, <1>2, <1>3, <1>4, <1>5, Identities DEF TaskFitsSocket, SoonFitsState, ArrivedFitsState
<1>9. CloseFitsState' /\ TimersFitState'
  BY <1>1, <1>3, <1>5 DEF CloseFitsState, TimersFitState, Closing, Given, OrderInv
<1> QED
  BY <1>6, <1>7, <1>8, <1>9 DEF OrderInv

\* The websocket of the transport goes from one of its open states to another.
LEMMA SocketOrder ==
  ASSUME Given, NEW t \in Transports, WebsocketOpens(t) \/ ConnectedArrives(t)
  PROVE  OrderInv'
<1>1. arrived = None /\ ~callSoon /\ closeImpl = "none" /\ NoneResuming
  BY InTurnIsSettled DEF WebsocketOpens, ConnectedArrives
<1>2. /\ t = transport /\ waiting = {} /\ \A u \in Transports : u # t => ws[u] = "dead"
      /\ ws[t] # "opening" => connectTask = None
      /\ state = "connecting"
  BY <1>1, AliveAlone DEF WebsocketOpens, ConnectedArrives, Given, OrderInv, SocketFitsState
<1>3. UNCHANGED <<state, transitionTimer, suspendTimer, callSoon, transport, waiting, closeImpl,
                  renewing>>
  BY DEF WebsocketOpens, ConnectedArrives, timers
<1>4. fallbackTask' = None
  BY <1>2, Identities DEF WebsocketOpens, ConnectedArrives, Given, OrderInv, NoSideTask
<1>5. /\ ws'[t] = "open" /\ \A u \in Transports : u # t => ws'[u] = "dead"
  BY <1>2 DEF WebsocketOpens, ConnectedArrives, Given, IInv, TypeOK
<1>6. connectTask' = None
  <2>1. CASE ConnectedArrives(t)
    BY <1>2, <2>1 DEF ConnectedArrives
  <2>2. CASE WebsocketOpens(t)
    <3>1. connectTask \in {t, None}
      <4>1. ~AllDead
        BY <2>2 DEF WebsocketOpens, AllDead
      <4> QED
        BY <1>2, <4>1 DEF Given, OrderInv, TaskFitsSocket, IInv, TypeOK
    <3> QED
      BY <2>2, <3>1 DEF WebsocketOpens
  <2> QED
    BY <2>1, <2>2
<1>7. arrived' \in {None, t}
  BY <1>1 DEF WebsocketOpens, ConnectedArrives
<1>8. NoSideTask' /\ OnlyCurrentAlive' /\ WaitingForOne'
  BY <1>2, <1>3, <1>4, <1>5 DEF Given, OrderInv, NoSideTask, OnlyCurrentAlive, WaitingForOne
<1>9. SocketFitsState'
  BY <1>2, <1>3, <1>5 DEF SocketFitsState
<1>10. TaskFitsSocket' /\ SoonFitsState' /\ ArrivedFitsState'
  BY <1>1, <1>2, <1>3, <1>5, <1>6, <1>7, Identities
  DEF TaskFitsSocket, SoonFitsState, ArrivedFitsState
<1>11. CloseFitsState' /\ TimersFitState'
  BY <1>1, <1>2, <1>3 DEF CloseFitsState, TimersFitState, Closing, Given, OrderInv
<1> QED
  BY <1>8, <1>9, <1>10, <1>11 DEF OrderInv

\* A host refuses the websocket: the next one is tried, or the attempt given up.
LEMMA FailsOrder ==
  ASSUME Given, NEW t \in Transports, WebsocketFails(t)
  PROVE  OrderInv'
<1>1. arrived = None /\ ~callSoon /\ closeImpl = "none" /\ NoneResuming
  BY InTurnIsSettled DEF WebsocketFails
<1>2. t = transport /\ waiting = {} /\ \A u \in Transports : u # t => ws[u] = "dead"
  BY AliveAlone DEF WebsocketFails
<1>3. state = "connecting"
  BY <1>1 DEF WebsocketFails, Given, OrderInv, SocketFitsState
<1> DEFINE w == Disposed([ws EXCEPT ![t] = "dead"], transport)
<1>4. \A u \in Transports : w[u] = "dead"
  BY <1>2 DEF Disposed, Given, IInv, TypeOK
<1> HIDE DEF w
<1>5. fallbackTask # t
  BY Identities DEF Given, OrderInv, NoSideTask
<1>6. \/ connectTask' = "authorizing" /\ ws' = w /\ UNCHANGED <<state, failState, timers>>
      \/ NotifyState(failState, transport, w, None, FALSE)
  BY <1>5 DEF WebsocketFails, w
<1>7. /\ UNCHANGED <<fallbackTask, transport, arrived, waiting, closeImpl, renewing>>
      /\ failState \in {"disconnected", "suspended"}
  BY <1>5 DEF WebsocketFails, Given, IInv, TypeOK
<1>8. NoSideTask'
  BY <1>7 DEF Given, OrderInv, NoSideTask
<1>9. CASE connectTask' = "authorizing" /\ ws' = w /\ UNCHANGED <<state, failState, timers>>
  <2>1. AllDead'
    BY <1>4, <1>9 DEF AllDead
  <2>2. OnlyCurrentAlive' /\ WaitingForOne' /\ SocketFitsState'
    BY <1>2, <1>4, <1>7, <1>9 DEF OnlyCurrentAlive, WaitingForOne, SocketFitsState
  <2>3. TaskFitsSocket' /\ SoonFitsState' /\ ArrivedFitsState'
    BY <1>1, <1>2, <1>3, <1>7, <1>9, <2>1, Identities
    DEF TaskFitsSocket, SoonFitsState, ArrivedFitsState, timers
  <2>4. CloseFitsState' /\ TimersFitState'
    BY <1>1, <1>2, <1>3, <1>7, <1>9
    DEF CloseFitsState, TimersFitState, Closing, Given, OrderInv, timers
  <2> QED
    BY <1>8, <2>2, <2>3, <2>4 DEF OrderInv
<1>10. CASE NotifyState(failState, transport, w, None, FALSE)
  <2> DEFINE d == Disposed(w, transport)
  <2>1. /\ state' = failState /\ transitionTimer' = None /\ ~callSoon' /\ connectTask' = None
        /\ ws' = d
    BY <1>1, <1>3, <1>7, <1>10 DEF NotifyState, Notify
  <2>2. \A u \in Transports : d[u] = "dead"
    BY <1>4 DEF Disposed, w
  <2> HIDE DEF d
  <2>3. TimersFitState'
    BY <1>7, <2>1, Constants DEF TimersFitState
  <2> QED
    BY <1>1, <1>2, <1>7, <1>8, <2>1, <2>2, <2>3, NothingAlive
<1> QED
  BY <1>6, <1>9, <1>10

\* An OSError leaves the task waiting for a websocket that is gone.
LEMMA UnreachableOrder ==
  ASSUME Given, NEW t \in Transports, WebsocketUnreachable(t)
  PROVE  OrderInv'
<1>1. arrived = None /\ ~callSoon /\ closeImpl = "none" /\ NoneResuming
  BY InTurnIsSettled DEF WebsocketUnreachable
<1>2. t = transport /\ waiting = {} /\ \A u \in Transports : u # t => ws[u] = "dead"
  BY AliveAlone DEF WebsocketUnreachable
<1>3. \A u \in Transports : ws'[u] = "dead"
  BY <1>2 DEF WebsocketUnreachable, Given, IInv, TypeOK
<1>4. UNCHANGED <<state, timers, connectTask, fallbackTask, transport, arrived, waiting, closeImpl,
                  renewing>>
  BY DEF WebsocketUnreachable
<1>5. NoSideTask' /\ OnlyCurrentAlive' /\ WaitingForOne' /\ SocketFitsState'
  BY <1>2, <1>3, <1>4
  DEF Given, OrderInv, NoSideTask, OnlyCurrentAlive, WaitingForOne, SocketFitsState
<1>6. TaskFitsSocket'
  BY <1>2, <1>3, <1>4 DEF Given, OrderInv, TaskFitsSocket, AllDead
<1>7. SoonFitsState' /\ ArrivedFitsState'
  BY <1>1, <1>4 DEF SoonFitsState, ArrivedFitsState, timers
<1>8. CloseFitsState' /\ TimersFitState'
  BY <1>1, <1>2, <1>4 DEF CloseFitsState, TimersFitState, Closing, Given, OrderInv, timers
<1> QED
  BY <1>5, <1>6, <1>7, <1>8 DEF OrderInv

\* CONNECTED makes the websocket of the transport a live one.
LEMMA ConnectedOrder ==
  ASSUME Given, OnConnected
  PROVE  OrderInv' /\ state' = "connected" /\ transport' # None /\ ws'[transport'] = "live"
<1>1. /\ arrived # None /\ arrived = transport /\ ws[arrived] = "open"
      /\ state = "connecting" /\ closeImpl = "none"
  BY DEF OnConnected, Given, OrderInv, ArrivedFitsState
<1>2. arrived \in Transports /\ ws \in [Transports -> WebsocketStates]
  BY <1>1 DEF Given, IInv, TypeOK
<1>3. /\ waiting = {} /\ ~callSoon /\ connectTask = None
      /\ \A u \in Transports : u # arrived => ws[u] = "dead"
  BY <1>1, <1>2, AliveAlone
<1>4. /\ Notify("connected", transport, [ws EXCEPT ![arrived] = "live"], connectTask, tokenError)
      /\ arrived' = None /\ UNCHANGED <<fallbackTask, transport, waiting, closeImpl, renewing>>
  BY <1>1, <1>2 DEF OnConnected, Given, Orderly
<1>5. /\ state' = "connected" /\ transitionTimer' = None /\ ~callSoon' /\ connectTask' = None
      /\ ws' = [ws EXCEPT ![arrived] = "live"]
  BY <1>1, <1>3, <1>4 DEF Notify
<1>6. ws'[arrived] = "live" /\ \A u \in Transports : u # arrived => ws'[u] = "dead"
  BY <1>2, <1>3, <1>5
<1>7. NoSideTask' /\ OnlyCurrentAlive' /\ WaitingForOne' /\ SocketFitsState'
  BY <1>1, <1>3, <1>4, <1>5, <1>6
  DEF Given, OrderInv, NoSideTask, OnlyCurrentAlive, WaitingForOne, SocketFitsState
<1>8. TaskFitsSocket' /\ SoonFitsState' /\ ArrivedFitsState' /\ CloseFitsState'
  BY <1>1, <1>3, <1>4, <1>5, Identities
  DEF TaskFitsSocket, SoonFitsState, ArrivedFitsState, CloseFitsState
<1>9. TimersFitState'
  BY <1>5, Constants DEF TimersFitState
<1> QED
  BY <1>1, <1>2, <1>4, <1>5, <1>6, <1>7, <1>8, <1>9 DEF OrderInv

\* deactivate_transport, where no handler but close_impl waits any more.
LEMMA DeactivateOrder ==
  ASSUME Given, NEW w, NEW byToken \in BOOLEAN, DeactivateTransport(w, byToken),
         \A u \in Transports : w[u] = "dead",
         arrived = None, closeImpl = "none", ~callSoon, connectTask = None,
         UNCHANGED <<fallbackTask, arrived, closeImpl, renewing>>,
         NEW t \in Transports, waiting' \subseteq waiting, waiting' \subseteq {<<"close", t>>},
         \A v \in waiting : v[1] = "close" => v \in waiting',
         state \in {"connecting", "connected"} => waiting' = {}
  PROVE  OrderInv'
<1>1. Notify("disconnected", None, w, connectTask, byToken) /\ transport' = None
  BY DEF DeactivateTransport, NotifyState
<1>2. NoSideTask'
  BY DEF Given, OrderInv, NoSideTask
<1>3. CASE state = "disconnected"
  <2>1. ws' = w /\ UNCHANGED <<state, transitionTimer, callSoon, connectTask>>
    BY <1>1, <1>3 DEF Notify
  <2>2. TimersFitState'
    <3>1. transitionTimer # "closed" \/ Closing'
      BY DEF Given, OrderInv, TimersFitState, Closing, NoSideTask, Asked
    <3> QED
      BY <1>3, <2>1, <3>1 DEF TimersFitState
  <2> QED
    BY <1>2, <1>3, <2>1, <2>2, NothingAlive
<1>4. CASE state # "disconnected"
  <2>1. /\ state' = "disconnected" /\ transitionTimer' = None /\ connectTask' = None
        /\ callSoon' => state = "connected"
    BY <1>1, <1>4 DEF Notify
  <2>2. \A u \in Transports : ws'[u] = "dead"
    BY <1>1, <1>4 DEF Notify, Disposed
  <2>3. TimersFitState'
    BY <2>1, Constants DEF TimersFitState
  <2> QED
    BY <1>2, <2>1, <2>2, <2>3, NothingAlive
<1> QED
  BY <1>3, <1>4

\* A websocket has closed.
LEMMA SocketClosesOrder ==
  ASSUME Given, NEW t \in Transports, SocketCloses(t)
  PROVE  OrderInv'
<1>1. arrived = None /\ ~callSoon /\ closeImpl = "none" /\ NoneResuming
  BY InTurnIsSettled DEF SocketCloses
<1>2. /\ t = transport /\ waiting = {} /\ connectTask = None
      /\ \A u \in Transports : u # t => ws[u] = "dead"
  BY AliveAlone DEF SocketCloses
<1> DEFINE w == [ws EXCEPT ![t] = "dead"]
<1>3. \A u \in Transports : w[u] = "dead"
  BY <1>2 DEF Given, IInv, TypeOK
<1>4. PICK byToken \in BOOLEAN : DeactivateTransport(w, byToken)
  BY DEF SocketCloses, Given, IInv, TypeOK
<1>5. UNCHANGED <<fallbackTask, arrived, waiting, closeImpl, renewing>>
  BY DEF SocketCloses
<1> HIDE DEF w
<1> QED
  BY <1>1, <1>2, <1>3, <1>4, <1>5, DeactivateOrder

\* A handler begins to wait for the websocket of the transport, which was open.
LEMMA DisposeOrder ==
  ASSUME Given, NEW t \in Transports, NEW why \in Asked \ {"close"}, BeginDispose(why, t),
         ws[t] \in {"open", "live"}
  PROVE  OrderInv'
<1>1. arrived = None /\ ~callSoon /\ closeImpl = "none" /\ NoneResuming
  BY InTurnIsSettled DEF BeginDispose
<1>2. /\ t = transport /\ waiting = {} /\ connectTask = None
      /\ \A u \in Transports : u # t => ws[u] = "dead"
  BY AliveAlone
<1>3. waiting' = {<<why, t>>}
  BY <1>2 DEF BeginDispose
<1>4. /\ ws'[t] = "closing" /\ \A u \in Transports : u # t => ws'[u] = "dead"
  BY <1>2, Identities DEF BeginDispose, Disposed, Given, IInv, TypeOK
<1>5. UNCHANGED <<state, timers, connectTask, fallbackTask, transport, arrived, closeImpl,
                    renewing>>
  BY DEF BeginDispose
<1>6. state \in {"connecting", "connected"}
  BY <1>1 DEF Given, OrderInv, SocketFitsState
<1>7. NoSideTask'
  BY <1>3, <1>5 DEF Given, OrderInv, NoSideTask
<1>8. OnlyCurrentAlive' /\ SocketFitsState'
  BY <1>2, <1>4, <1>5, <1>6 DEF OnlyCurrentAlive, SocketFitsState
<1>9. WaitingForOne'
  <2>1. \A v \in waiting' : v = <<why, t>>
    BY <1>3
  <2> QED
    BY <1>4, <2>1 DEF WaitingForOne
<1>10. TaskFitsSocket' /\ SoonFitsState' /\ ArrivedFitsState'
  BY <1>1, <1>2, <1>5, Identities DEF TaskFitsSocket, SoonFitsState, ArrivedFitsState, timers
<1>11. CloseFitsState' /\ TimersFitState'
  BY <1>1, <1>2, <1>3, <1>5 DEF CloseFitsState, TimersFitState, Closing, Given, OrderInv, timers
<1> QED
  BY <1>7, <1>8, <1>9, <1>10, <1>11 DEF OrderInv

\* The steps by which the connection is lost.
LEMMA LosingOrder ==
  ASSUME Given, \/ \E t \in Transports : IdleTimerExpires(t)
                \/ \E why \in Disruptions \intersect ServerErrors : ServerDisconnects(why)
  PROVE  OrderInv'
<1>1. ASSUME NEW t \in Transports, IdleTimerExpires(t) PROVE OrderInv'
  BY <1>1, DisposeOrder DEF IdleTimerExpires, Asked
<1>2. ASSUME NEW why \in Disruptions \intersect ServerErrors, ServerDisconnects(why)
      PROVE  OrderInv'
  <2>1. why \in Asked \ {"close"}
    BY DEF Given, Orderly, ServerErrors, Asked
  <2>2. transport \in Transports
    BY <1>2 DEF ServerDisconnects, Given, IInv, TypeOK
  <2> QED
    BY <1>2, <2>1, <2>2, DisposeOrder DEF ServerDisconnects
<1> QED
  BY <1>1, <1>2

\* The close handshake that nothing waits for ends.
LEMMA HandshakeOrder ==
  ASSUME Given, NEW t \in Transports, WebsocketClosed(t)
  PROVE  OrderInv'
<1>1. waiting = {}
  <2>1. \A v \in waiting : v[2] = t /\ v[1] \in Handlers /\ v = <<v[1], v[2]>>
    BY DEF WebsocketClosed, Given, OrderInv, WaitingForOne, IInv, TypeOK
  <2> QED
    BY <2>1 DEF WebsocketClosed
<1>2. \A u \in Transports : ws'[u] = "dead"
  BY DEF WebsocketClosed, Given, OrderInv, OnlyCurrentAlive, IInv, TypeOK
<1>3. UNCHANGED <<state, timers, connectTask, fallbackTask, transport, arrived, waiting, closeImpl,
                  renewing>>
  BY DEF WebsocketClosed
<1>4. ~AllDead /\ ws[t] = "closing"
  BY DEF WebsocketClosed, AllDead
<1>5. connectTask = None /\ ~callSoon /\ arrived = None
  <2>1. t = transport
    BY <1>4 DEF Given, OrderInv, OnlyCurrentAlive
  <2> QED
    BY <1>4, <2>1 DEF Given, OrderInv, TaskFitsSocket, SoonFitsState, ArrivedFitsState, IInv, TypeOK
<1>6. NoSideTask' /\ OnlyCurrentAlive' /\ WaitingForOne' /\ SocketFitsState'
  BY <1>1, <1>2, <1>3
  DEF Given, OrderInv, NoSideTask, OnlyCurrentAlive, WaitingForOne, SocketFitsState
<1>7. TaskFitsSocket' /\ SoonFitsState' /\ ArrivedFitsState'
  BY <1>3, <1>5, Identities DEF TaskFitsSocket, SoonFitsState, ArrivedFitsState, timers
<1>8. CloseFitsState' /\ TimersFitState'
  BY <1>1, <1>3 DEF CloseFitsState, TimersFitState, Closing, NoneResuming, Given, OrderInv, timers
<1> QED
  BY <1>6, <1>7, <1>8 DEF OrderInv

-----------------------------------------------------------------------------
\* The handlers resume.

\* A handler that resumes is the last one but close_impl, and finds nothing else under way.
LEMMA ResumingAlone ==
  ASSUME Given, NEW t \in Transports, NEW why, <<why, t>> \in waiting, CanResume(t)
  PROVE  /\ closeImpl = "none" /\ arrived = None /\ ~callSoon /\ connectTask = None
         /\ \A u \in Transports : Gone(t)[u] = "dead"
         /\ why # "close" => waiting \ {<<why, t>>} \subseteq {<<"close", t>>}
         /\ state \in {"connecting", "connected"} => \A v \in waiting : v[1] # "close"
<1>1. closeImpl = "none" /\ arrived = None /\ ~callSoon
  BY DEF CanResume, Settled, TasksRun, NoneResuming, Given, OrderInv, CloseFitsState,
         ArrivedFitsState, SoonFitsState, WaitingForOne, IInv, TypeOK
<1>2. connectTask = None
  BY DEF Given, OrderInv, TaskFitsSocket
<1>3. ASSUME NEW u \in Transports PROVE Gone(t)[u] = "dead"
  <2>1. ws[u] \in {"closing", "dead"} /\ (ws[u] = "closing" => u = t)
    BY DEF Given, OrderInv, WaitingForOne
  <2> QED
    BY <2>1 DEF Gone, Given, IInv, TypeOK
<1>4. ASSUME why # "close", NEW v \in waiting, v # <<why, t>> PROVE v = <<"close", t>>
  <2>1. v = <<v[1], v[2]>>
    BY DEF Given, IInv, TypeOK
  <2> QED
    BY <1>4, <2>1 DEF Given, OrderInv, WaitingForOne
<1>5. state \in {"connecting", "connected"} => \A v \in waiting : v[1] # "close"
  BY DEF Given, OrderInv, CloseFitsState
<1> QED
  BY <1>1, <1>2, <1>3, <1>4, <1>5

\* The handlers that waited for the websocket to close.
LEMMA HandlersOrder ==
  ASSUME Given, NEW t \in Transports,
         \/ IdleResumes(t) \/ DisconnectedResumes(t) \/ NoErrorResumes(t)
         \/ FatalResumes(t) \/ ClosedResumes(t)
  PROVE  OrderInv'
<1> DEFINE w == Gone(t)
<1>1. PICK why \in Asked \ {"close"} : Resumes(why, t)
  <2>1. \/ Resumes("idle", t) \/ Resumes("disconnected", t) \/ Resumes("noerror", t)
        \/ Resumes("fatal", t) \/ Resumes("closed", t)
    BY DEF IdleResumes, DisconnectedResumes, NoErrorResumes, FatalResumes, ClosedResumes
  <2>2. \A why : Resumes(why, t) => why \in Asked
    BY DEF Resumes, Given, OrderInv, NoSideTask
  <2> QED
    BY <2>1, <2>2
<1>2. /\ closeImpl = "none" /\ arrived = None /\ ~callSoon /\ connectTask = None
      /\ \A u \in Transports : w[u] = "dead"
      /\ waiting' \subseteq waiting /\ waiting' \subseteq {<<"close", t>>}
      /\ state \in {"connecting", "connected"} => waiting' = {}
      /\ \A v \in waiting : v[1] = "close" => v \in waiting'
  BY <1>1, ResumingAlone DEF Resumes
<1> HIDE DEF w
<1>3. CASE IdleResumes(t)
  BY <1>2, <1>3, DeactivateOrder DEF IdleResumes, w
<1>4. CASE DisconnectedResumes(t)
  <2>1. /\ Notify("disconnected", transport, w, connectTask, FALSE)
        /\ UNCHANGED <<fallbackTask, transport, arrived, closeImpl, renewing>>
    BY <1>4 DEF DisconnectedResumes, NotifyState, w
  <2>2. NoSideTask'
    BY <1>2, <2>1 DEF Given, OrderInv, NoSideTask
  <2>3. /\ state' = "disconnected" /\ connectTask' = None
        /\ callSoon' => state = "connected"
        /\ transitionTimer' \in {None, transitionTimer}
        /\ state # "disconnected" => transitionTimer' = None
    BY <1>2, <2>1 DEF Notify
  <2>4. \A u \in Transports : ws'[u] = "dead"
    <3>1. Disposed(w, transport)[transport] = "dead" \/ transport = None
      BY <1>2 DEF Disposed, w, Gone, Given, IInv, TypeOK
    <3>2. \A u \in Transports : Disposed(w, transport)[u] = "dead"
      BY <1>2 DEF Disposed, w, Gone, Given, IInv, TypeOK
    <3> QED
      BY <1>2, <2>1, <3>2 DEF Notify
  <2>5. TimersFitState'
    <3>1. transitionTimer # "closed" \/ Closing'
      BY <1>2 DEF Given, OrderInv, TimersFitState, Closing, NoSideTask, Asked
    <3> QED
      BY <2>3, <3>1, Constants DEF TimersFitState
  <2> QED
    BY <1>2, <2>1, <2>2, <2>3, <2>4, <2>5, NothingAlive
<1>5. CASE NoErrorResumes(t) \/ FatalResumes(t) \/ ClosedResumes(t)
  <2>1. /\ UNCHANGED <<timers, fallbackTask, transport, arrived, closeImpl, renewing>>
        /\ ws' = w /\ connectTask' = None
        /\ state' = state \/ state' = "failed"
    BY <1>2, <1>5 DEF NoErrorResumes, FatalResumes, ClosedResumes, w
  <2>2. NoSideTask'
    BY <1>2, <2>1 DEF Given, OrderInv, NoSideTask
  <2>3. TimersFitState'
    <3>1. Closing => Closing'
      BY <1>2 DEF Given, OrderInv, Closing, NoSideTask, Asked
    <3> QED
      BY <1>2, <2>1, <3>1 DEF Given, OrderInv, TimersFitState, timers
  <2>4. waiting' # {} => state' \notin {"connecting", "connected"}
    BY <1>2, <2>1
  <2> QED
    BY <1>2, <2>1, <2>2, <2>3, <2>4, NothingAlive DEF timers
<1> QED
  BY <1>3, <1>4, <1>5

-----------------------------------------------------------------------------
\* close().

\* close() is called.
LEMMA CloseOrder ==
  ASSUME Given, Close
  PROVE  OrderInv'
<1>1. arrived = None /\ ~callSoon /\ closeImpl = "none" /\ NoneResuming
  BY InTurnIsSettled DEF Close
<1>2. /\ state' = "closing" /\ closeImpl' = "created"
      /\ UNCHANGED <<timers, connectTask, fallbackTask, transport, ws, arrived, waiting, renewing>>
  BY DEF Close
<1>3. NoSideTask' /\ OnlyCurrentAlive' /\ WaitingForOne' /\ SocketFitsState'
  BY <1>2
  DEF Given, OrderInv, NoSideTask, OnlyCurrentAlive, WaitingForOne, SocketFitsState, Closing
<1>4. TaskFitsSocket'
  BY <1>2 DEF Given, OrderInv, TaskFitsSocket, AllDead
<1>5. SoonFitsState' /\ ArrivedFitsState'
  BY <1>1, <1>2 DEF SoonFitsState, ArrivedFitsState, timers
<1>6. CloseFitsState'
  <2>1. \A v \in waiting : v[1] # "close"
    BY DEF Close, Closing
  <2> QED
    BY <1>1, <1>2, <2>1 DEF CloseFitsState, NoneResuming, timers
<1>7. TimersFitState'
  BY <1>2 DEF TimersFitState, Closing
<1> QED
  BY <1>3, <1>4, <1>5, <1>6, <1>7 DEF OrderInv

\* close_impl starts.
LEMMA CloseStartsOrder ==
  ASSUME Given, CloseStarts
  PROVE  OrderInv'
<1>1. /\ closeImpl = "created" /\ state = "closing" /\ arrived = None /\ ~callSoon
      /\ NoneResuming /\ \A v \in waiting : v[1] # "close"
  BY DEF CloseStarts, Given, OrderInv, CloseFitsState
<1>2. /\ ~suspendTimer'
      /\ UNCHANGED <<callSoon, fallbackTask, transport, ws, arrived, disconnectTask, renewing>>
  BY DEF CloseStarts
<1>3. CASE transport # None
  <2>1. /\ closeImpl' = "slept" /\ transitionTimer' = "closed"
        /\ UNCHANGED <<state, connectTask, waiting>>
    BY <1>3 DEF CloseStarts
  <2>2. NoSideTask' /\ OnlyCurrentAlive' /\ WaitingForOne' /\ SocketFitsState'
    BY <1>2, <2>1
    DEF Given, OrderInv, NoSideTask, OnlyCurrentAlive, WaitingForOne, SocketFitsState, Closing
  <2>3. TaskFitsSocket'
    BY <1>2, <2>1 DEF Given, OrderInv, TaskFitsSocket, AllDead
  <2>4. SoonFitsState' /\ ArrivedFitsState'
    BY <1>1, <1>2 DEF SoonFitsState, ArrivedFitsState
  <2>5. CloseFitsState'
    BY <1>1, <1>2, <1>3, <2>1 DEF CloseFitsState, NoneResuming
  <2>6. TimersFitState'
    BY <1>1, <2>1 DEF TimersFitState, Closing
  <2> QED
    BY <2>2, <2>3, <2>4, <2>5, <2>6 DEF OrderInv
<1>4. CASE transport = None
  <2>1. \A u \in Transports : ws[u] = "dead"
    BY <1>4, Identities DEF Given, OrderInv, OnlyCurrentAlive
  <2>2. waiting = {}
    BY <1>1, <2>1 DEF NoneResuming, Given, IInv, TypeOK
  <2>3. ~Dropping(ws)
    BY <2>1 DEF Dropping, Given, IInv, TypeOK
  <2>4. /\ closeImpl' = "none" /\ connectTask' = None /\ transitionTimer' = None
        /\ state' = "closed" /\ ~retryTimer' /\ waiting' = {}
    BY <1>1, <1>4, <2>2, <2>3 DEF CloseStarts
  <2>5. NoSideTask' /\ TimersFitState'
    BY <1>2, <2>4, Constants DEF Given, OrderInv, NoSideTask, TimersFitState
  <2>6. PICK t \in Transports : TRUE
    BY TransportsExist
  <2> QED
    BY <1>1, <1>2, <2>1, <2>4, <2>5, <2>6, NothingAlive
<1> QED
  BY <1>3, <1>4

\* notify_state(CLOSED) at the end of close_impl, when no websocket is left.
LEMMA NotifyClosedOrder ==
  ASSUME Given, NEW w, NEW pending, CancelConnect(w, pending), pending = {},
         \A u \in Transports : w[u] = "dead",
         UNCHANGED <<fallbackTask, transport, arrived, renewing>>,
         arrived = None, ~callSoon, closeImpl' = "none"
  PROVE  OrderInv'
<1>1. ~Dropping(w)
  BY DEF Dropping, Given, IInv, TypeOK
<1>2. NotifyClosed(w) /\ waiting' = {} /\ connectTask' = None
  BY <1>1 DEF CancelConnect
<1>3. /\ state' = "closed" /\ ~retryTimer' /\ ws' = w /\ ~callSoon'
      /\ transitionTimer' = None /\ ~suspendTimer'
  BY <1>2 DEF NotifyClosed, Given, OrderInv, TimersFitState
<1>4. NoSideTask' /\ TimersFitState'
  BY <1>2, <1>3, Constants DEF Given, OrderInv, NoSideTask, TimersFitState
<1>5. PICK t \in Transports : TRUE
  BY TransportsExist
<1> QED
  BY <1>2, <1>3, <1>4, <1>5, NothingAlive

\* close_impl disposes of the transport.
LEMMA CloseDisposesOrder ==
  ASSUME Given, CloseDisposes
  PROVE  OrderInv'
<1>1. /\ closeImpl = "slept" /\ state = "closing" /\ arrived = None /\ ~callSoon
      /\ closeImpl' = "none"
      /\ NoneResuming /\ transport \in Transports /\ \A v \in waiting : v[1] # "close"
  BY DEF CloseDisposes, Given, OrderInv, CloseFitsState, IInv, TypeOK
<1>2. UNCHANGED <<fallbackTask, transport, arrived, renewing>>
  BY DEF CloseDisposes
<1>3. ws[transport] \in WebsocketStates /\ \A u \in Transports : u # transport => ws[u] = "dead"
  BY <1>1 DEF Given, OrderInv, OnlyCurrentAlive, IInv, TypeOK
<1>4. \A v \in waiting : v[2] = transport /\ ws[transport] = "closing"
  BY <1>1, <1>3 DEF NoneResuming, Given, OrderInv, WaitingForOne, IInv, TypeOK
<1>5. CASE ws[transport] \in {"open", "live", "closing"}
  <2>1. /\ waiting' = waiting \union {<<"close", transport>>} /\ ws' = Disposed(ws, transport)
        /\ UNCHANGED <<state, timers, connectTask>>
    BY <1>1, <1>5, Identities DEF CloseDisposes
  <2>2. ws'[transport] = "closing" /\ \A u \in Transports : u # transport => ws'[u] = "dead"
    BY <1>1, <1>3, <1>5, <2>1, Identities DEF Disposed, Given, IInv, TypeOK
  <2>3. connectTask = None
    <3>1. ~AllDead
      BY <1>1, <1>5 DEF AllDead
    <3> QED
      BY <1>5, <3>1 DEF Given, OrderInv, TaskFitsSocket, IInv, TypeOK
  <2>4. NoSideTask'
    BY <1>1, <1>2, <2>1 DEF Given, OrderInv, NoSideTask, Asked
  <2>5. OnlyCurrentAlive'
    BY <1>2, <2>2 DEF OnlyCurrentAlive
  <2>6. WaitingForOne'
    <3>1. \A v \in waiting' : v \in waiting \/ v = <<"close", transport>>
      BY <2>1
    <3>2. \A v \in waiting' : v[2] = transport
      BY <1>4, <3>1
    <3>3. \A u, v \in waiting' : u[1] = v[1] \/ "close" \in {u[1], v[1]}
      BY <3>1 DEF Given, OrderInv, WaitingForOne
    <3> QED
      BY <2>2, <3>2, <3>3 DEF WaitingForOne
  <2>7. Closing'
    <3>1. <<"close", transport>> \in waiting' /\ <<"close", transport>>[1] = "close"
      BY <2>1
    <3> QED
      BY <3>1 DEF Closing
  <2>8. SocketFitsState'
    BY <2>2, <2>7 DEF SocketFitsState
  <2>9. TaskFitsSocket' /\ SoonFitsState' /\ ArrivedFitsState'
    BY <1>1, <1>2, <2>1, <2>3, Identities
    DEF TaskFitsSocket, SoonFitsState, ArrivedFitsState, timers
  <2>10. CloseFitsState' /\ TimersFitState'
    BY <1>1, <2>1, <2>7 DEF CloseFitsState, TimersFitState
  <2> QED
    BY <2>4, <2>5, <2>6, <2>8, <2>9, <2>10 DEF OrderInv
<1>6. CASE ws[transport] \notin {"open", "live", "closing"}
  <2> DEFINE w == Disposed(ws, transport)
  <2>1. waiting = {}
    BY <1>4, <1>6
  <2>2. CancelConnect(w, waiting)
    BY <1>1, <1>3, <1>6, Identities DEF CloseDisposes, WebsocketStates
  <2>3. \A u \in Transports : w[u] = "dead"
    BY <1>1, <1>3, <1>6, Identities DEF Disposed, Given, IInv, TypeOK, WebsocketStates
  <2> HIDE DEF w
  <2> QED
    BY <1>1, <1>2, <2>1, <2>2, <2>3, NotifyClosedOrder
<1> QED
  BY <1>5, <1>6

\* The handler of close() goes on when the websocket has closed.
LEMMA CloseResumesOrder ==
  ASSUME Given, NEW t \in Transports, CloseResumes(t)
  PROVE  OrderInv'
<1> DEFINE w == Gone(t)
           pending == waiting \ {<<"close", t>>}
<1>1. /\ closeImpl = "none" /\ arrived = None /\ ~callSoon
      /\ \A u \in Transports : w[u] = "dead"
  BY ResumingAlone DEF CloseResumes, LastToResume
<1>2. pending = {}
  <2>1. ASSUME NEW v \in waiting PROVE v = <<"close", t>>
    <3>1. v = <<v[1], v[2]>> /\ v[1] \in Handlers \ {"background"} /\ v[2] = t
      BY DEF CloseResumes, Given, OrderInv, WaitingForOne, NoSideTask, Asked, IInv, TypeOK
    <3> QED
      BY <3>1 DEF CloseResumes, LastToResume
  <2> QED
    BY <2>1
<1>3. /\ CancelConnect(w, pending)
      /\ UNCHANGED <<fallbackTask, transport, arrived, closeImpl, renewing>>
  BY DEF CloseResumes
<1> HIDE DEF w, pending
<1> QED
  BY <1>1, <1>2, <1>3, NotifyClosedOrder

-----------------------------------------------------------------------------
\* The steps that are left: no other host is tried after a 5xx, no token is renewed, and no
\* handler waits for a websocket that disconnect_transport disposes of in the background.
LEMMA OrderlySteps ==
  ASSUME Given, Next
  PROVE  \/ Connect \/ RetryTimerExpires \/ LostRetryTimerExpires \/ ReconnectImmediately
         \/ TransitionTimerExpires \/ SuspendTimerExpires
         \/ Close \/ CloseStarts \/ CloseDisposes \/ OnConnected
         \/ \E why \in Disruptions \intersect ServerErrors : ServerDisconnects(why)
         \/ \E t \in Transports :
              \/ TryHost(t) \/ WebsocketOpens(t) \/ ConnectedArrives(t) \/ WebsocketFails(t)
              \/ WebsocketUnreachable(t) \/ SocketCloses(t) \/ IdleTimerExpires(t)
              \/ WebsocketClosed(t) \/ CloseResumes(t)
              \/ IdleResumes(t) \/ DisconnectedResumes(t) \/ NoErrorResumes(t)
              \/ FatalResumes(t) \/ ClosedResumes(t)
<1>1. ~AuthUpdated /\ ~TryHostUnauthorized /\ ~TokenRenewed
  BY DEF AuthUpdated, TryHostUnauthorized, TokenRenewed, Given, Orderly, OrderInv, NoSideTask
<1>2. ASSUME NEW t \in Transports
      PROVE  /\ ~LateIdleTimerExpires(t) /\ ~UnavailableResumes(t) /\ ~TokenResumes(t)
             /\ ~AuthorizeResumes(t) /\ ~CloseEnds(t)
  <2>1. ws[t] # "ticking"
    BY DEF Given, OrderInv, OnlyCurrentAlive
  <2>2. \A why \in {"unavailable", "token", "authorize", "background"} : <<why, t>> \notin waiting
    BY DEF Given, OrderInv, NoSideTask, Asked
  <2> QED
    BY <2>1, <2>2
    DEF LateIdleTimerExpires, UnavailableResumes, TokenResumes, AuthorizeResumes, CloseEnds,
        Resumes
<1> QED
  BY <1>1, <1>2 DEF Next, ApplicationStep, TimerStep, NetworkStep, HandlerResumes

\* Every step keeps the invariant.
LEMMA OrderKept == Given /\ [Next]_vars => OrderInv'
<1>1. ASSUME Given, Next PROVE OrderInv'
  BY <1>1, OrderlySteps, RequestsOrder, TimeoutOrder, CloseOrder, CloseStartsOrder,
     CloseDisposesOrder, ConnectedOrder, LosingOrder, TryHostOrder, SocketOrder, FailsOrder,
     UnreachableOrder, SocketClosesOrder, HandshakeOrder, CloseResumesOrder, HandlersOrder
<1>2. ASSUME Given, UNCHANGED vars PROVE OrderInv'
  <2>1. AllDead' = AllDead /\ Closing' = Closing /\ NoneResuming' = NoneResuming
    BY <1>2 DEF vars, AllDead, Closing, NoneResuming
  <2>2. NoSideTask' /\ OnlyCurrentAlive' /\ WaitingForOne' /\ SocketFitsState'
    BY <1>2, <2>1
    DEF vars, Given, OrderInv, NoSideTask, OnlyCurrentAlive, WaitingForOne, SocketFitsState
  <2>3. TaskFitsSocket' /\ SoonFitsState' /\ ArrivedFitsState'
    BY <1>2, <2>1 DEF vars, Given, OrderInv, TaskFitsSocket, SoonFitsState, ArrivedFitsState
  <2>4. CloseFitsState' /\ TimersFitState'
    BY <1>2, <2>1 DEF vars, Given, OrderInv, CloseFitsState, TimersFitState
  <2> QED
    BY <2>2, <2>3, <2>4 DEF OrderInv
<1> QED
  BY <1>1, <1>2

\* The invariant holds in every behaviour of an orderly connection.
LEMMA OrderAlways == ASSUME Orderly PROVE Spec => [](IInv /\ OrderInv)
<1>1. Init => OrderInv
  BY OrderInit
<1>2. IInv /\ OrderInv /\ [Next]_vars => OrderInv'
  BY OrderKept DEF Given
<1> QED
  BY <1>1, <1>2, InitEstablishes, NextKeeps, PTL DEF Spec

\* Two websockets of one client are never open at the same time, and a CONNECTED message is
\* handled only for the transport the manager still uses, for any number of transports.
THEOREM OneWebsocketAtATime == ASSUME Orderly PROVE Spec => []OneTransport
<1>1. IInv /\ OrderInv => OneTransport
  <2> SUFFICES ASSUME OrderInv PROVE OneTransport
    OBVIOUS
  <2>1. ASSUME NEW t \in Transports, NEW u \in Transports,
               {ws[t], ws[u]} \subseteq {"opening", "open", "live"}
        PROVE  t = u
    BY <2>1 DEF OrderInv, OnlyCurrentAlive
  <2>2. arrived # None => arrived = transport
    BY DEF OrderInv, ArrivedFitsState
  <2> QED
    BY <2>1, <2>2 DEF OneTransport
<1> QED
  BY <1>1, OrderAlways, PTL

\* In CLOSED no timer, no task and no websocket is left, in whatever state close() came and
\* whatever handlers it overtook.
THEOREM NothingRunsWhenClosed == ASSUME Orderly PROVE Spec => []ClosedIsQuiet
<1>1. IInv /\ OrderInv => ClosedIsQuiet
  <2> SUFFICES ASSUME OrderInv, state = "closed", ~Closing
               PROVE  /\ ~retryTimer /\ ~suspendTimer /\ transitionTimer = None
                      /\ connectTask = None
                      /\ \A t \in Transports : ws[t] \notin {"opening", "open", "live"}
    BY DEF ClosedIsQuiet
  <2>1. closeImpl = "none"
    BY DEF Closing
  <2> QED
    BY <2>1 DEF OrderInv, TimersFitState, TaskFitsSocket, SocketFitsState
<1> QED
  BY <1>1, OrderAlways, PTL

-----------------------------------------------------------------------------
\* CONNECTED is served, where the server says why it disconnects: on_disconnected without an
\* error and on_closed notify no state.
Explained == Disruptions \intersect {"noerror", "closed"} = {}

\* The transport has a live websocket, or a handler that waits for it.
Served ==
  \/ transport # None /\ ws[transport] = "live"
  \/ \E v \in waiting : v[2] = transport

\* Every step keeps the websocket of a connection that is CONNECTED.
LEMMA ServedKept ==
  ASSUME Given, Explained, state = "connected" => Served, Next, state' = "connected"
  PROVE  Served'
<1>1. CASE OnConnected
  BY <1>1, ConnectedOrder DEF Served
<1>2. CASE state = "connected"
  <2>1. /\ Served /\ ~callSoon /\ closeImpl = "none" /\ connectTask = None
        /\ transitionTimer = None /\ \A v \in waiting : v[1] # "close"
    BY <1>2 DEF Given, OrderInv, SoonFitsState, CloseFitsState, TaskFitsSocket, TimersFitState
  <2>2. \A t \in Transports : ws[t] \notin {"opening", "open"}
    BY <1>2, <2>1 DEF Given, OrderInv, SocketFitsState
  <2>3. ASSUME \/ Connect \/ RetryTimerExpires \/ LostRetryTimerExpires
        PROVE  Served'
    BY <1>2, <2>1, <2>3 DEF Connect, RetryTimerExpires, LostRetryTimerExpires, Served
  <2>4. ~ReconnectImmediately /\ ~TransitionTimerExpires /\ ~CloseStarts /\ ~CloseDisposes
    BY <2>1 DEF ReconnectImmediately, TransitionTimerExpires, CloseStarts, CloseDisposes
  <2>5. ~SuspendTimerExpires /\ ~Close
    BY <1>2 DEF SuspendTimerExpires, Close, Notify
  <2>6. ASSUME NEW t \in Transports, NEW why, BeginDispose(why, t), t = transport
        PROVE  Served'
    <3>1. transport' = t /\ <<why, t>> \in waiting' /\ <<why, t>>[2] = t
      BY <2>6 DEF BeginDispose
    <3> QED
      BY <3>1 DEF Served
  <2>7. ASSUME NEW why, ServerDisconnects(why) PROVE Served'
    <3>1. transport \in Transports
      BY <2>7 DEF ServerDisconnects, Given, IInv, TypeOK
    <3> QED
      BY <2>6, <2>7, <3>1 DEF ServerDisconnects
  <2>8. ASSUME NEW t \in Transports, IdleTimerExpires(t) PROVE Served'
    <3>1. t = transport
      BY <2>8 DEF IdleTimerExpires, Given, OrderInv, OnlyCurrentAlive
    <3> QED
      BY <2>6, <2>8, <3>1 DEF IdleTimerExpires
  <2>9. ASSUME NEW t \in Transports
        PROVE  /\ ~TryHost(t) /\ ~WebsocketOpens(t) /\ ~ConnectedArrives(t)
               /\ ~WebsocketFails(t) /\ ~WebsocketUnreachable(t)
    BY <2>1, <2>2, Identities
    DEF TryHost, WebsocketOpens, ConnectedArrives, WebsocketFails, WebsocketUnreachable, Given,
        OrderInv, NoSideTask
  <2>10. ASSUME NEW t \in Transports PROVE ~WebsocketClosed(t)
    <3> SUFFICES ASSUME WebsocketClosed(t) PROVE FALSE
      OBVIOUS
    <3>1. t = transport
      BY DEF WebsocketClosed, Given, OrderInv, OnlyCurrentAlive
    <3>2. PICK v \in waiting : v[2] = t
      BY <2>1, <3>1 DEF Served, WebsocketClosed
    <3>3. v = <<v[1], v[2]>> /\ v[1] \in Handlers
      BY DEF Given, IInv, TypeOK
    <3> QED
      BY <3>2, <3>3 DEF WebsocketClosed
  <2>11. ASSUME NEW t \in Transports
         PROVE  ~SocketCloses(t) /\ ~IdleResumes(t) /\ ~DisconnectedResumes(t)
    BY <1>2 DEF SocketCloses, IdleResumes, DisconnectedResumes, DeactivateTransport,
                NotifyState, Notify
  <2>12. ASSUME NEW t \in Transports
         PROVE  /\ ~FatalResumes(t) /\ ~CloseResumes(t)
                /\ ~NoErrorResumes(t) /\ ~ClosedResumes(t)
    <3>1. \A why : <<why, t>> \in waiting => why \in Asked \ {"close"}
      BY <2>1 DEF Given, OrderInv, NoSideTask
    <3> QED
      BY <3>1
      DEF FatalResumes, CloseResumes, NoErrorResumes, ClosedResumes, Resumes, Asked, Explained
  <2> QED
    BY <1>1, <2>3, <2>4, <2>5, <2>7, <2>8, <2>9, <2>10, <2>11, <2>12, OrderlySteps
<1>3. CASE state # "connected" /\ ~OnConnected
  <2>1. ~RequestConnecting
    BY <1>3 DEF RequestConnecting
  <2>2. \A new \in {"disconnected", "suspended", "closed"} : \A current, w, task, byToken :
          ~Notify(new, current, w, task, byToken)
    BY <1>3 DEF Notify
  <2>3. /\ ~Connect /\ ~RetryTimerExpires /\ ~LostRetryTimerExpires /\ ~ReconnectImmediately
        /\ ~Close /\ ~SuspendTimerExpires
    BY <2>1, <2>2
    DEF Connect, RetryTimerExpires, LostRetryTimerExpires, ReconnectImmediately, Close,
        SuspendTimerExpires
  <2>4. ~TransitionTimerExpires
    BY <1>3, <2>2 DEF TransitionTimerExpires, NotifyState, Given, IInv, TypeOK
  <2>5. ~CloseStarts /\ ~CloseDisposes
    BY <1>3 DEF CloseStarts, CloseDisposes, CancelConnect, NotifyClosed
  <2>6. ASSUME NEW why PROVE ~ServerDisconnects(why)
    BY <1>3 DEF ServerDisconnects, BeginDispose
  <2>7. ASSUME NEW t \in Transports
        PROVE  /\ ~TryHost(t) /\ ~WebsocketOpens(t) /\ ~ConnectedArrives(t)
               /\ ~WebsocketUnreachable(t) /\ ~IdleTimerExpires(t) /\ ~WebsocketClosed(t)
    BY <1>3
    DEF TryHost, WebsocketOpens, ConnectedArrives, WebsocketUnreachable, IdleTimerExpires,
        BeginDispose, WebsocketClosed
  <2>8. ASSUME NEW t \in Transports
        PROVE  ~SocketCloses(t) /\ ~IdleResumes(t) /\ ~DisconnectedResumes(t)
    BY <2>2 DEF SocketCloses, IdleResumes, DisconnectedResumes, DeactivateTransport, NotifyState
  <2>9. ASSUME NEW t \in Transports PROVE ~WebsocketFails(t)
    BY <1>3, <2>2 DEF WebsocketFails, NotifyState, Given, IInv, TypeOK
  <2>10. ASSUME NEW t \in Transports
         PROVE  /\ ~CloseResumes(t) /\ ~NoErrorResumes(t) /\ ~FatalResumes(t)
                /\ ~ClosedResumes(t)
    BY <1>3
    DEF CloseResumes, CancelConnect, NotifyClosed, NoErrorResumes, FatalResumes, ClosedResumes
  <2> QED
    BY <1>3, <2>3, <2>4, <2>5, <2>6, <2>7, <2>8, <2>9, <2>10, OrderlySteps
<1> QED
  BY <1>1, <1>2, <1>3

\* CONNECTED rests on a live websocket, or on a handler that will still act on the loss of it:
\* the connection never stalls in CONNECTED.
THEOREM ConnectedNeverStalls == ASSUME Orderly, Explained PROVE Spec => []ConnectedIsServed
<1> DEFINE Kept == state = "connected" => Served
<1>1. Init => Kept
  BY DEF Init
<1>2. IInv /\ OrderInv /\ Kept /\ [Next]_vars => Kept'
  <2>1. ASSUME Given, Kept, Next PROVE Kept'
    BY <2>1, ServedKept
  <2>2. ASSUME Kept, UNCHANGED vars PROVE Kept'
    BY <2>2 DEF Served, vars
  <2> QED
    BY <2>1, <2>2 DEF Given
<1>3. Kept => ConnectedIsServed
  BY DEF Served, ConnectedIsServed
<1> HIDE DEF Kept
<1> QED
  BY <1>1, <1>2, <1>3, OrderAlways, PTL DEF Spec

-----------------------------------------------------------------------------
(* ping() over the connection.                                             *)

\* What holds of the connection holds of it while pings are sent.
THEOREM PingsLeaveConnection == PingSpec => Spec
<1>1. PingInit => Init
  BY DEF PingInit
<1>2. [PingNext]_allVars => [Next]_vars
  BY DEF PingNext, allVars, ConnectionStep, Ping, RunHeartbeat, OnHeartbeat, PingTimesOut,
         PingReturns
<1> QED
  BY <1>1, <1>2, PTL DEF PingSpec, Spec

\* The heartbeats that are under way, and the pings that wait for them.
PingType ==
  /\ pings \in [Pings -> {"idle", "expiring"} \union Unsettled \union Ended]
  /\ registered \subseteq Pings
  /\ beats \subseteq Pings
  /\ frames \subseteq Pings \X Transports
  /\ started \in [Pings -> Transports \union {None}]

\* What the server has yet to echo went out on the websocket in use; a ping that is counting
\* is timed by the heartbeat on it; no task and no frame is for a call that was not made, and
\* no frame for one whose heartbeat is held.
FramesOwn ==
  /\ \A p \in Pings, t \in Transports :
       <<p, t>> \in frames => /\ ws[t] \in {"open", "live"}
                              /\ pings[p] \notin {"idle", "held"}
                              /\ pings[p] = "sent" => started[p] = t
  /\ \A p \in registered \union beats : pings[p] # "idle"

\* The inductive invariant of the pings.
PingInv == PingType /\ FramesOwn

\* The initial states satisfy it.
LEMMA PingInvInit == PingInit => PingInv
BY DEF PingInit, PingInv, PingType, FramesOwn

\* All frames are on the transport, and none is there without it.
LEMMA FramesOnTransport ==
  ASSUME OrderInv, PingInv, NEW p \in Pings, NEW t \in Transports, <<p, t>> \in frames
  PROVE  t = transport
BY DEF OrderInv, OnlyCurrentAlive, PingInv, FramesOwn

\* What ping() may not do.
OwnStep ==
  \A p \in Pings :
    /\ pings[p] # "answered" /\ pings'[p] = "answered" => <<p, started[p]>> \in frames \ frames'
    /\ pings[p] \in Ended => pings'[p] = pings[p]

\* A heartbeat that goes out, or fails to, for a ping that was not settled.
LEMMA SendKeeps ==
  ASSUME TypeOK, OrderInv, PingInv, NEW p \in Pings, pings[p] \in Unsettled \union {"idle"},
         SendHeartbeat(p), UNCHANGED ws, beats' \subseteq beats,
         registered' \in {registered, registered \union {p}}
  PROVE  PingInv' /\ OwnStep
<1> DEFINE open == transport # None /\ ws[transport] \in {"open", "live"}
<1>1. PingType'
  BY DEF SendHeartbeat, PingInv, PingType, Unsettled, Ended, TypeOK
<1>2. \A q \in Pings : q # p => pings'[q] = pings[q] /\ started'[q] = started[q]
  BY DEF SendHeartbeat, PingInv, PingType
<1>3. pings'[p] \in {"sent", "failed"} /\ (pings'[p] = "sent" => open \/ transport = None)
  BY DEF SendHeartbeat, PingInv, PingType
<1>4. ASSUME NEW q \in Pings, NEW t \in Transports, <<q, t>> \in frames'
      PROVE  /\ ws'[t] \in {"open", "live"}
             /\ pings'[q] \notin {"idle", "held"}
             /\ pings'[q] = "sent" => started'[q] = t
  <2>1. t = transport /\ ws[t] \in {"open", "live"} /\ (<<q, t>> \in frames \/ q = p)
    BY <1>4, FramesOnTransport DEF SendHeartbeat, PingInv, FramesOwn
  <2>2. open
    BY <2>1, Identities
  <2>3. CASE q = p
    BY <1>3, <2>1, <2>2, <2>3 DEF SendHeartbeat, PingInv, PingType
  <2>4. CASE q # p
    BY <1>2, <2>1, <2>4 DEF PingInv, FramesOwn
  <2> QED
    BY <2>3, <2>4
<1>5. \A q \in registered' \union beats' : pings'[q] # "idle"
  BY <1>2, <1>3 DEF PingInv, PingType, FramesOwn
<1>6. OwnStep
  BY <1>2, <1>3 DEF OwnStep, Unsettled, Ended
<1> QED
  BY <1>1, <1>4, <1>5, <1>6 DEF PingInv, FramesOwn

\* ping() keeps it.
LEMMA PingKeeps ==
  ASSUME TypeOK, OrderInv, PingInv, NEW p \in Pings, Ping(p)
  PROVE  PingInv' /\ OwnStep
<1>1. /\ UNCHANGED <<vars, beats>> /\ ws' = ws
      /\ pings[p] = "idle" /\ registered' = registered \union {p}
  BY DEF Ping, vars
<1>2. CASE state = "connected"
  BY <1>1, <1>2, SendKeeps DEF Ping
<1>3. CASE state # "connected"
  <2>1. pings' = [pings EXCEPT ![p] = "held"] /\ UNCHANGED <<started, frames>>
    BY <1>3 DEF Ping
  <2>2. PingType'
    BY <1>1, <2>1 DEF PingInv, PingType, Unsettled
  <2>3. FramesOwn'
    BY <1>1, <2>1 DEF PingInv, PingType, FramesOwn
  <2>4. OwnStep
    BY <1>1, <2>1 DEF OwnStep, PingInv, PingType, Ended
  <2> QED
    BY <2>2, <2>3, <2>4 DEF PingInv
<1> QED
  BY <1>2, <1>3

\* A task that sends a heartbeat keeps it.
LEMMA RunHeartbeatKeeps ==
  ASSUME TypeOK, OrderInv, PingInv, NEW p \in Pings, RunHeartbeat(p)
  PROVE  PingInv' /\ OwnStep
<1>1. ws' = ws /\ registered' = registered /\ beats' \subseteq beats /\ p \in beats
  BY DEF RunHeartbeat, vars
<1>2. CASE pings[p] \in Unsettled
  BY <1>1, <1>2, SendKeeps DEF RunHeartbeat
<1>3. CASE pings[p] \notin Unsettled
  <2>1. /\ UNCHANGED <<pings, started>>
        /\ frames' = IF transport # None /\ ws[transport] \in {"open", "live"}
                     THEN frames \union {<<p, transport>>} ELSE frames
    BY <1>3 DEF RunHeartbeat
  <2>2. PingType'
    BY <1>1, <2>1 DEF PingInv, PingType, TypeOK
  <2>3. pings[p] \notin {"idle", "held", "sent"}
    BY <1>1, <1>3 DEF PingInv, FramesOwn, Unsettled
  <2>4. FramesOwn'
    <3>1. \A q \in Pings, t \in Transports :
            <<q, t>> \in frames' => \/ <<q, t>> \in frames
                                    \/ q = p /\ ws[t] \in {"open", "live"}
      BY <2>1
    <3> QED
      BY <1>1, <2>1, <2>3, <3>1 DEF PingInv, FramesOwn
  <2>5. OwnStep
    BY <2>1 DEF OwnStep
  <2> QED
    BY <2>2, <2>4, <2>5 DEF PingInv
<1> QED
  BY <1>2, <1>3

\* The echo that settles a ping is that of the heartbeat it is timed by.
LEMMA OnHeartbeatKeeps ==
  ASSUME TypeOK, OrderInv, PingInv, NEW p \in Pings, NEW t \in Transports, OnHeartbeat(p, t)
  PROVE  PingInv' /\ OwnStep
<1>1. /\ ws' = ws /\ registered' \subseteq registered /\ beats' = beats
      /\ <<p, t>> \in frames /\ frames' = frames \ {<<p, t>>}
  BY DEF OnHeartbeat, vars
<1>2. CASE p \in registered /\ pings[p] \in Unsettled
  <2>1. /\ pings' = [pings EXCEPT ![p] = "answered"]
        /\ started' = [started EXCEPT ![p] = None]
    BY <1>2 DEF OnHeartbeat
  <2>2. PingType'
    BY <1>1, <2>1 DEF PingInv, PingType, Ended
  <2>3. FramesOwn'
    BY <1>1, <2>1 DEF PingInv, PingType, FramesOwn
  <2>4. started[p] = t
    BY <1>1, <1>2 DEF PingInv, FramesOwn, Unsettled
  <2>5. OwnStep
    BY <1>1, <1>2, <2>1, <2>4 DEF OwnStep, PingInv, PingType, Unsettled, Ended
  <2> QED
    BY <2>2, <2>3, <2>5 DEF PingInv
<1>3. CASE ~(p \in registered /\ pings[p] \in Unsettled)
  <2>1. UNCHANGED <<pings, started>>
    BY <1>3 DEF OnHeartbeat
  <2> QED
    BY <1>1, <2>1 DEF PingInv, PingType, FramesOwn, OwnStep
<1> QED
  BY <1>2, <1>3

\* The end of a ping keeps it.
LEMMA PingEndsKeep ==
  ASSUME TypeOK, PingInv, NEW p \in Pings, PingTimesOut(p) \/ PingReturns(p)
  PROVE  PingInv' /\ OwnStep
<1>1. ws' = ws /\ beats' = beats /\ frames' = frames /\ registered' \subseteq registered
  BY DEF PingTimesOut, PingReturns, vars
<1>2. CASE PingTimesOut(p)
  <2>1. PingType'
    BY <1>1, <1>2 DEF PingTimesOut, PingInv, PingType
  <2>2. FramesOwn' /\ OwnStep
    BY <1>1, <1>2 DEF PingTimesOut, PingInv, PingType, FramesOwn, OwnStep, Ended
  <2> QED
    BY <2>1, <2>2 DEF PingInv
<1>3. CASE PingReturns(p)
  <2>1. \A q \in Pings : pings'[q] = pings[q] \/ (pings[q] = "expiring" /\ pings'[q] = "timedout")
    BY <1>3 DEF PingReturns, PingInv, PingType
  <2>2. PingType' /\ started' = started
    BY <1>1, <1>3 DEF PingReturns, PingInv, PingType, Ended
  <2>3. FramesOwn' /\ OwnStep
    BY <1>1, <2>1, <2>2 DEF PingInv, PingType, FramesOwn, OwnStep, Ended
  <2> QED
    BY <2>2, <2>3 DEF PingInv
<1> QED
  BY <1>2, <1>3

\* A step of the connection takes away the frames on websockets that are gone, and settles
\* pings only by failing them.
LEMMA ConnectionStepKeeps ==
  ASSUME PingInv, ConnectionStep
  PROVE  PingInv' /\ OwnStep
<1>1. /\ \A p \in Pings : pings'[p] = pings[p] \/ (pings[p] \in Unsettled /\ pings'[p] = "failed")
      /\ pings' \in [Pings -> {"idle", "expiring"} \union Unsettled \union Ended]
      /\ registered' \subseteq registered /\ beats' \subseteq registered
  BY DEF ConnectionStep, OnStateChange, FailingPings, PingInv, PingType, Ended
<1>2. frames' = {f \in frames : ws'[f[2]] \in {"open", "live"}}
  BY DEF ConnectionStep
<1>3. \A p \in Pings : started'[p] = IF pings'[p] = "sent" THEN started[p] ELSE None
  BY DEF ConnectionStep
<1>4. started' \in [Pings -> Transports \union {None}]
  BY DEF ConnectionStep, PingInv, PingType
<1>5. PingType'
  BY <1>1, <1>2, <1>4 DEF PingInv, PingType
<1>6. FramesOwn'
  BY <1>1, <1>2, <1>3 DEF PingInv, PingType, FramesOwn, Unsettled
<1>7. OwnStep
  BY <1>1 DEF OwnStep, Unsettled, Ended
<1> QED
  BY <1>5, <1>6, <1>7 DEF PingInv

\* Every step keeps it, those of the connection included.
LEMMA PingStepKeeps == TypeOK /\ OrderInv /\ PingInv /\ [PingNext]_allVars => PingInv' /\ OwnStep
<1> SUFFICES ASSUME TypeOK, OrderInv, PingInv, [PingNext]_allVars PROVE PingInv' /\ OwnStep
  OBVIOUS
<1>1. CASE PingNext
  BY <1>1, ConnectionStepKeeps, PingKeeps, RunHeartbeatKeeps, PingEndsKeep, OnHeartbeatKeeps
  DEF PingNext
<1>2. CASE UNCHANGED allVars
  BY <1>2 DEF allVars, vars, pingVars, PingInv, PingType, FramesOwn, OwnStep
<1> QED
  BY <1>1, <1>2

\* It holds in every behaviour of an orderly connection.
LEMMA PingInvAlways == ASSUME Orderly PROVE PingSpec => [](TypeOK /\ OrderInv /\ PingInv)
<1>1. IInv => TypeOK
  BY DEF IInv
<1>2. PingInit => PingInv
  BY PingInvInit
<1>3. TypeOK /\ OrderInv /\ PingInv /\ [PingNext]_allVars => PingInv'
  BY PingStepKeeps
<1> QED
  BY <1>1, <1>2, <1>3, OrderAlways, PingsLeaveConnection, PTL DEF PingSpec

\* The time that ping() returns is that of the heartbeat whose echo ended it, on whatever
\* connections it was sent again; and what a call was told is not changed later.
THEOREM RoundTripsAreOwn == ASSUME Orderly PROVE PingSpec => RoundTripIsOwn
<1>1. TypeOK /\ OrderInv /\ PingInv /\ [PingNext]_allVars => [OwnStep]_allVars
  BY PingStepKeeps
<1>2. PingSpec => [][OwnStep]_allVars
  BY <1>1, PingInvAlways, PTL DEF PingSpec
<1> QED
  BY <1>2 DEF RoundTripIsOwn, OwnStep
=============================================================================
