----------------------------- MODULE Heartbeats -----------------------------
(***************************************************************************)
(* Connection.ping() over the connection lifecycle: ConnectionManager      *)
(* sends a HEARTBEAT with an id of its own, again on each connection that  *)
(* is established while the ping is pending, and settles the ping by the   *)
(* echo, by its timeout or when the connection is given up                 *)
(* (realtime/connectionmanager.py).                                        *)
(*                                                                         *)
(* Every step of Connection is a step here; what it does to the pings is   *)
(* read off the state it leaves, as enact_state_change and notify_state do.*)
(* The tasks that notify_state creates have run before anything else does. *)
(***************************************************************************)
EXTENDS Connection

CONSTANT Pings  \* the calls of ping(), each made once

VARIABLES
  pings,       \* what each call is waiting for, or how it ended
  registered,  \* the keys of ConnectionManager.__pending_pings
  beats,       \* __send_heartbeat tasks that have not yet run
  frames,      \* <<p, t>>: the server will echo the heartbeat of p on t
  started      \* the transport of the heartbeat that PendingPing.start_time is for,
               \* None when the future is done

pingVars == <<pings, registered, beats, frames, started>>
allVars == <<vars, pingVars>>

\* "held": the heartbeat has not gone out.  "sent": wait_for is counting.
\* "expiring": wait_for has cancelled the future, and the call has not yet resumed.
Unsettled == {"held", "sent"}
Ended == {"answered", "failed", "timedout"}

PingTypeOK ==
  /\ TypeOK
  /\ pings \in [Pings -> {"idle", "expiring"} \union Unsettled \union Ended]
  /\ registered \subseteq Pings
  /\ beats \subseteq Pings
  /\ frames \subseteq Pings \X Transports
  /\ started \in [Pings -> Transports \union {None}]

PingInit ==
  /\ Init
  /\ pings = [p \in Pings |-> "idle"]
  /\ registered = {} /\ beats = {} /\ frames = {}
  /\ started = [p \in Pings |-> None]

-----------------------------------------------------------------------------
\* The states in which enact_state_change fails the pending pings.
GivenUpStates == {"suspended", "closing", "closed", "failed"}

FailingPings(ps) == [p \in Pings |-> IF p \in ps /\ pings[p] \in Unsettled THEN "failed" ELSE pings[p]]

OnStateChangeSendingNone(new) ==  \* mutant: CONNECTED does not send the pending pings
  IF new \in GivenUpStates
  THEN pings' = FailingPings(registered) /\ registered' = {} /\ UNCHANGED beats
  ELSE UNCHANGED <<pings, registered, beats>>

\* __fail_pending_pings on entering a state given up, __send_pending_pings on CONNECTED.
OnStateChange(new) ==
  IF new \in GivenUpStates
  THEN pings' = FailingPings(registered) /\ registered' = {} /\ UNCHANGED beats
  ELSE /\ beats' = IF new = "connected" THEN registered ELSE beats
       /\ UNCHANGED <<pings, registered>>

\* A step of the connection; what the server had yet to echo is lost with a websocket.
ConnectionStep ==
  /\ beats = {}
  /\ Next
  /\ IF state' # state THEN OnStateChange(state') ELSE UNCHANGED <<pings, registered, beats>>
  /\ frames' = {f \in frames : ws'[f[2]] \in {"open", "live"}}
  /\ started' = [p \in Pings |-> IF pings'[p] = "sent" THEN started[p] ELSE None]

-----------------------------------------------------------------------------
(* The calls.                                                              *)

SendHeartbeatTimedOnce(p) ==  \* mutant: the round trip is measured from the first heartbeat
  LET open == transport # None /\ ws[transport] \in {"open", "live"}
  IN  /\ started' = IF pings[p] = "sent" THEN started ELSE [started EXCEPT ![p] = transport]
      /\ pings' = [pings EXCEPT ![p] = IF open \/ transport = None THEN "sent" ELSE "failed"]
      /\ frames' = IF open THEN frames \union {<<p, transport>>} ELSE frames

\* __send_heartbeat in CONNECTED: start_time, then "sent", then the frame.  A websocket
\* that is not open makes send() raise, which is surfaced in the future; without a
\* transport nothing is sent and nothing raised.
SendHeartbeat(p) ==
  LET open == transport # None /\ ws[transport] \in {"open", "live"}
  IN  /\ started' = [started EXCEPT ![p] = IF open THEN transport ELSE None]
      /\ pings' = [pings EXCEPT ![p] = IF open \/ transport = None THEN "sent" ELSE "failed"]
      /\ frames' = IF open THEN frames \union {<<p, transport>>} ELSE frames

\* ping(): in any other state it raises, and nothing is recorded.
Ping(p) ==
  /\ InTurn /\ beats = {}
  /\ pings[p] = "idle"
  /\ state \in {"connected", "connecting", "disconnected"}
  /\ registered' = registered \union {p}
  /\ IF state = "connected" THEN SendHeartbeat(p)
     ELSE pings' = [pings EXCEPT ![p] = "held"] /\ UNCHANGED <<started, frames>>
  /\ UNCHANGED <<vars, beats>>

\* The task finds the state that created it, and a future that may be done.
RunHeartbeat(p) ==
  /\ p \in beats
  /\ beats' = beats \ {p}
  /\ IF pings[p] \in Unsettled THEN SendHeartbeat(p)
     ELSE /\ frames' = IF transport # None /\ ws[transport] \in {"open", "live"}
                       THEN frames \union {<<p, transport>>} ELSE frames
          /\ UNCHANGED <<pings, started>>
  /\ UNCHANGED <<vars, registered>>

\* on_heartbeat, with the id of a ping: a ping that is no longer registered, or whose
\* future the timeout has cancelled, is left as it is.
OnHeartbeat(p, t) ==
  /\ Settled /\ beats = {}
  /\ <<p, t>> \in frames /\ ws[t] = "live"
  /\ frames' = frames \ {<<p, t>>}
  /\ registered' = registered \ {p}
  /\ IF p \in registered /\ pings[p] \in Unsettled
     THEN pings' = [pings EXCEPT ![p] = "answered"] /\ started' = [started EXCEPT ![p] = None]
     ELSE UNCHANGED <<pings, started>>
  /\ UNCHANGED <<vars, beats>>

\* wait_for has counted realtime_request_timeout from the first heartbeat.
PingTimesOut(p) ==
  /\ pings[p] = "sent"
  /\ pings' = [pings EXCEPT ![p] = "expiring"]
  /\ started' = [started EXCEPT ![p] = None]
  /\ UNCHANGED <<vars, registered, beats, frames>>

\* The call resumes: its "finally" takes the ping out of the dictionary.
PingReturns(p) ==
  /\ pings[p] = "expiring" \/ (pings[p] \in Ended /\ p \in registered)
  /\ pings' = [pings EXCEPT ![p] = IF @ = "expiring" THEN "timedout" ELSE @]
  /\ registered' = registered \ {p}
  /\ UNCHANGED <<vars, beats, frames, started>>

-----------------------------------------------------------------------------
PingNext ==
  \/ ConnectionStep
  \/ \E p \in Pings : Ping(p) \/ RunHeartbeat(p) \/ PingTimesOut(p) \/ PingReturns(p)
  \/ \E p \in Pings, t \in Transports : OnHeartbeat(p, t)

PingSpec == PingInit /\ [][PingNext]_allVars

\* The event loop runs tasks and timers; the server need not echo a heartbeat.
PingFairness ==
  \A p \in Pings :
    WF_pingVars(RunHeartbeat(p)) /\ WF_pingVars(PingTimesOut(p)) /\ WF_pingVars(PingReturns(p))

FairPingSpec == PingSpec /\ Fairness /\ PingFairness

-----------------------------------------------------------------------------
(* Properties.                                                             *)

\* The time that ping() returns is that of the heartbeat whose echo ended it, although
\* the heartbeat is sent again on every new connection and start_time with it (RTN13d);
\* and what a call was told is not changed by a later echo or a lost connection.
RoundTripIsOwn ==
  [][\A p \in Pings :
       /\ pings[p] # "answered" /\ pings'[p] = "answered" => <<p, started[p]>> \in frames \ frames'
       /\ pings[p] \in Ended => pings'[p] = pings[p]]_allVars

\* Every call of ping() ends: by the echo, the timeout or the loss of the connection,
\* at the latest when the suspend timer gives the connection up.
PingsEnd ==
  WF_vars(SuspendTimerExpires) =>
    \A p \in Pings : pings[p] \in Unsettled \union {"expiring"} ~> pings[p] \in Ended

=============================================================================
