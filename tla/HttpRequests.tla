------------------------------ MODULE HttpRequests ------------------------------
(***************************************************************************)
(* HTTP requests of a client that uses token auth (request/http.py,          *)
(* http/auth.py): the token is renewed when it is known to have expired and  *)
(* once more when the service refuses it, and each try goes through the      *)
(* hosts, the remembered fallback host first, until one answers for good or  *)
(* the time is up.  Several requests run at once; each may be overtaken      *)
(* wherever the code awaits: at the auth provider, and at each host.         *)
(*                                                                          *)
(* Time is counted in ticks.  The client is an HTTP client: a realtime one   *)
(* also waits for its connection after each renewal.                         *)
(***************************************************************************)
EXTENDS Naturals, Sequences, SequencesExt, FiniteSets

CONSTANTS
  Requests,        \* requests that may run at once
  Hosts,           \* options.get_hosts(): the primary host, then fallback hosts
  RealtimeHosts,   \* the fallback hosts a realtime connection may be on
  None,
  ClientId,        \* the configured clientId, or None
  Grants,          \* the clientIds the auth provider names in a token
  RetryTimeout,    \* fallback_retry_timeout
  MaxDuration,     \* http_max_retry_duration
  TimeToLive,      \* of a token
  MaxStarts,       \* bound: requests started
  MaxNow           \* bound: the time

ASSUME HostsAssumption ==
  /\ Hosts \in Seq(ToSet(Hosts)) /\ Hosts # <<>>
  /\ \A i, j \in DOMAIN Hosts : Hosts[i] = Hosts[j] => i = j

ASSUME TimesAssumption == RetryTimeout \in Nat /\ TimeToLive \in Nat

ASSUME NoneAssumption == None \notin Nat \union ToSet(Hosts)

VARIABLES
  now,
  host,          \* __host
  hostExpires,   \* __host_expires
  realtimeHost,  \* options.fallback_host
  token,         \* __token_details; when it expires is None unless the client can tell, which
                 \* takes the time of the service and a token that says
  clientId,      \* __client_id
  request,       \* the requests under way, and the outcome of those that ended
  starts,
  wentOver       \* history: when a request last ended on a fallback host, having failed on
                 \* the primary one

fallback == <<host, hostExpires, realtimeHost>>
auth == <<token, clientId>>
vars == <<now, fallback, auth, request, starts, wentOver>>

Primary == Hosts[1]
HostSet == ToSet(Hosts)

Idle(outcome) == [at |-> "idle", outcome |-> outcome]

Init ==
  /\ now = 0
  /\ host = None /\ hostExpires = None /\ realtimeHost = None
  /\ token = None /\ clientId = ClientId
  /\ request = [r \in Requests |-> Idle(None)]
  /\ starts = 0
  /\ wentOver = None

-----------------------------------------------------------------------------
\* Tokens.

\* token_details_has_expired
HasExpired(details) == details = None \/ (details.expires # None /\ details.expires <= now)

\* The clientId that holds: that of a token, or the configured one.
OriginalClientId == IF clientId # None THEN clientId ELSE ClientId

\* A token that names another clientId is refused ...
Incompatible(new) ==
  /\ ~(new = None /\ ClientId # None)
  /\ OriginalClientId \notin {None, "*"}
  /\ new \notin {"*", OriginalClientId}

\* ... and one that is compatible names the clientId, unless one is known and the token names
\* nobody or anybody.
Configured(new) ==
  IF new = None /\ ClientId # None THEN clientId
  ELSE IF new = "*" /\ OriginalClientId \notin {None, "*"} THEN OriginalClientId
  ELSE new

-----------------------------------------------------------------------------
\* Hosts.

Preferred == IF host # None THEN host ELSE realtimeHost

\* The remembered host has had its time.
HostIsStale == Preferred # None /\ hostExpires # None /\ now > hostExpires

ForgetStaleHost ==
  IF HostIsStale THEN host' = None /\ hostExpires' = None ELSE UNCHANGED <<host, hostExpires>>

\* A preferred host that is not among the hosts is an error of list.remove().
HostsAreFound == Preferred = None \/ HostIsStale \/ Preferred \in HostSet

\* get_hosts: the preferred host comes first.
HostsToTry ==
  LET place == CHOOSE i \in DOMAIN Hosts : Hosts[i] = Preferred
  IN  IF Preferred = None \/ HostIsStale THEN Hosts ELSE <<Preferred>> \o RemoveAt(Hosts, place)

-----------------------------------------------------------------------------
\* The start of a request, and the renewal of the token.

End(r, outcome) == request' = [request EXCEPT ![r] = Idle(outcome)]

Call(raises) ==
  [at |-> "new", outcome |-> None, raises |-> raises, retried |-> FALSE, forced |-> FALSE,
   own |-> FALSE, hosts |-> <<>>, index |-> 0, since |-> 0, answer |-> None]

\* The auth provider is asked for a token.
Ask(r, call) ==
  /\ request' = [request EXCEPT ![r] = [call EXCEPT !.at = "asking"]]
  /\ UNCHANGED <<host, hostExpires>>

\* The headers are built from the token at hand, its own or another request's, then the hosts
\* listed.
Send(r, call, own) ==
  IF HostsAreFound
  THEN /\ request' = [request EXCEPT ![r] =
            [call EXCEPT !.at = "sent", !.answer = None, !.own = own,
                         !.hosts = HostsToTry, !.index = 1, !.since = now]]
       /\ ForgetStaleHost
  ELSE End(r, "error") /\ UNCHANGED <<host, hostExpires>>

\* reauth_if_expired and the start of make_request. A token known to have expired is renewed by
\* force, which leaves the request no second chance; where there is none it is asked for.
Start(r, raises) ==
  /\ request[r].at = "idle" /\ starts < MaxStarts
  /\ starts' = starts + 1
  /\ IF HasExpired(token)
     THEN Ask(r, [Call(raises) EXCEPT !.forced = token # None, !.retried = token # None])
     ELSE Send(r, Call(raises), FALSE)
  /\ UNCHANGED <<now, realtimeHost, auth, wentOver>>

\* The auth provider grants a token. Tokens come back in any order.
Grant(r, client, expires) ==
  /\ request[r].at = "asking"
  /\ request' = [request EXCEPT ![r].at = "granted",
                                ![r].answer = [client |-> client, expires |-> expires]]
  /\ UNCHANGED <<now, fallback, auth, starts, wentOver>>

\* The token is kept, then its clientId is looked at; the request goes out with it at once. A
\* token that comes after its time is renewed again, unless the request was waiting for any.
Renewed(r) ==
  /\ request[r].at = "granted"
  /\ LET call == request[r]
         new  == call.answer
     IN
      /\ token' = new
      /\ IF Incompatible(new.client)
         THEN End(r, "other") /\ UNCHANGED <<clientId, host, hostExpires>>
         ELSE /\ clientId' = Configured(new.client)
              /\ IF call.forced /\ HasExpired(new)
                 THEN Ask(r, [call EXCEPT !.forced = FALSE, !.answer = None])
                 ELSE Send(r, call, TRUE)
  /\ UNCHANGED <<now, realtimeHost, starts, wentOver>>

\* Mutant of Reauthorize: the token at hand will do.
ReauthorizeUnforced(r) ==
  LET call == [request[r] EXCEPT !.retried = TRUE]
  IN  IF HasExpired(token) THEN Ask(r, call) ELSE Send(r, call, FALSE)

\* auth.authorize(), after a refusal of the service or of the provider.
Reauthorize(r) == Ask(r, [request[r] EXCEPT !.retried = TRUE, !.forced = TRUE])

\* The auth provider fails, and with it the request; an error about tokens is taken for a
\* refusal of the request, which has its second chance.
Deny(r) ==
  /\ request[r].at = "asking"
  /\ \/ End(r, "other") /\ UNCHANGED <<host, hostExpires>>
     \/ ~request[r].retried /\ Reauthorize(r)
  /\ UNCHANGED <<now, realtimeHost, auth, starts, wentOver>>

-----------------------------------------------------------------------------
\* A host answers, or does not.

Current(call) == call.hosts[call.index]

\* should_stop_retrying
IsLastTry(call) == call.index = Len(call.hosts) \/ now - call.since > MaxDuration

TryNextHost(r) ==
  /\ request' = [request EXCEPT ![r].index = @ + 1]
  /\ UNCHANGED <<host, hostExpires, wentOver>>

Fail(r, outcome) == End(r, outcome) /\ UNCHANGED <<host, hostExpires, wentOver>>

\* Mutant of KeepHost: also a fallback host that was tried first is kept anew.
KeepAnyHost(call) ==
  IF Current(call) # Primary
  THEN host' = Current(call) /\ hostExpires' = now + RetryTimeout
  ELSE UNCHANGED <<host, hostExpires>>

\* A fallback host that was gone over to is kept for later.
KeepHost(call) ==
  IF call.index > 1 /\ Current(call) # Primary
  THEN host' = Current(call) /\ hostExpires' = now + RetryTimeout
  ELSE UNCHANGED <<host, hostExpires>>

FailedBefore(call) == {call.hosts[i] : i \in 1 .. call.index - 1}

\* The response is returned.
Return(r, outcome) ==
  /\ End(r, outcome)
  /\ KeepHost(request[r])
  /\ wentOver' = IF Primary \in FailedBefore(request[r]) /\ Current(request[r]) # Primary
                 THEN now ELSE wentOver

\* A response that reports an error is raised or returned, as the caller wants it.
Report(r, outcome) == IF request[r].raises THEN Fail(r, outcome) ELSE Return(r, outcome)

\* No answer, ...
Unreachable(r) == IF IsLastTry(request[r]) THEN Fail(r, "exhausted") ELSE TryNextHost(r)

\* ... a status from 500 to 504 or an error of the CDN, ...
ServerFails(r) == IF IsLastTry(request[r]) THEN Report(r, "exhausted") ELSE TryNextHost(r)

\* ... an error with which no other host would do better, ...
Rejects(r) == Report(r, "other")

\* ... a token that is not valid or no longer, which is renewed once, ...
Refuses(r) ==
     IF request[r].raises /\ ~request[r].retried
     THEN Reauthorize(r) /\ UNCHANGED wentOver
     ELSE Report(r, "refused")

\* ... or a response.
Responds(r) == Return(r, "other")

Outcome(r, happens) ==
  /\ request[r].at = "sent"
  /\ happens
  /\ UNCHANGED <<now, realtimeHost, auth, starts>>

Fails(r) == Outcome(r, Unreachable(r) \/ ServerFails(r))
Declines(r) == Outcome(r, Rejects(r) \/ Refuses(r))
Succeeds(r) == Outcome(r, Responds(r))

-----------------------------------------------------------------------------
\* Time, and a realtime connection on a fallback host.

Tick ==
  /\ now < MaxNow
  /\ now' = now + 1
  /\ UNCHANGED <<fallback, auth, request, starts, wentOver>>

ConnectsRealtime(h) ==
  /\ realtimeHost = None /\ realtimeHost' = h
  /\ UNCHANGED <<now, host, hostExpires, auth, request, starts, wentOver>>

Next ==
  \/ \E r \in Requests :
       \/ \E raises \in BOOLEAN : Start(r, raises)
       \/ \E client \in Grants, expires \in {None, now + TimeToLive} : Grant(r, client, expires)
       \/ Deny(r) \/ Renewed(r) \/ Fails(r) \/ Declines(r) \/ Succeeds(r)
  \/ Tick
  \/ \E h \in RealtimeHosts : ConnectsRealtime(h)

Spec == Init /\ [][Next]_vars

-----------------------------------------------------------------------------
\* The host that is remembered has its time, and requests go through hosts that exist.
TypeOK ==
  /\ host \in HostSet \union {None} /\ host # Primary
  /\ host = None <=> hostExpires = None
  /\ \A r \in Requests : request[r].at = "sent" => request[r].index \in DOMAIN request[r].hosts

Ends(r, outcome) == request[r].at # "idle" /\ request'[r].at = "idle" /\ request'[r].outcome = outcome

\* A caller is told that its token is refused only when the token it presented was granted to
\* this very request: whatever other requests renew meanwhile, and in whatever order their
\* tokens come back, nobody fails with a token that was refused before.
RefusedOnlyAfterRenewal ==
  [][\A r \in Requests : (Ends(r, "refused") /\ request[r].raises)
                           => request[r].own]_vars

Sends(r) == request'[r].at = "sent" /\ (request[r].at # "sent" \/ request'[r].index < request[r].index)

\* Without a realtime connection on one, a fallback host is tried first only for as long as
\* RetryTimeout after a request that had failed on the primary host ended on a fallback host.
PrimaryComesBack ==
  [][\A r \in Requests : (Sends(r) /\ realtimeHost = None /\ request'[r].hosts[1] # Primary)
       => wentOver # None /\ now <= wentOver + RetryTimeout]_vars

=============================================================================
