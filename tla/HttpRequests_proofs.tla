-------------------------- MODULE HttpRequests_proofs --------------------------
(* Proofs about the HTTP requests, for any number of requests, any hosts and   *)
(* any tokens, and about the publishes that are among them.                    *)
EXTENDS HttpPublishing, SequenceTheorems, FiniteSetTheorems, TLAPS

-----------------------------------------------------------------------------
\* The inductive invariant.

Answers == {None} \union [client : Grants, expires : Nat \union {None}]

Ended == [at : {"idle"}, outcome : {None, "other", "error", "exhausted", "refused"}]

Calls ==
  [at : {"new", "asking", "granted", "sent"}, outcome : {None}, raises : BOOLEAN,
   retried : BOOLEAN, forced : BOOLEAN, own : BOOLEAN, hosts : Seq(HostSet), index : Nat,
   since : Nat, answer : Answers]

\* A request that is at a host goes through a list of hosts that exist, with the primary one
\* at its start or right behind a preferred one; if it has had its second chance, the token it
\* presents was granted to it.
IsSent(call) ==
  /\ call.index \in 1 .. Len(call.hosts)
  /\ call.hosts[1] = Primary \/ (Len(call.hosts) > 1 /\ call.hosts[2] = Primary)
  /\ call.retried => call.own

RequestOK(call) == call \in Ended \/ (call \in Calls /\ (call.at = "sent" => IsSent(call)))

RequestsOK ==
  /\ request \in [Requests -> Ended \union Calls]
  /\ \A r \in Requests : RequestOK(request[r])

\* A fallback host is kept for RetryTimeout at most after a request went over to one.
HostOK ==
  /\ now \in Nat
  /\ host \in HostSet \union {None} /\ hostExpires \in Nat \union {None}
  /\ host = None <=> hostExpires = None
  /\ wentOver \in Nat \union {None} /\ (wentOver # None => wentOver <= now)
  /\ host # None => /\ host # Primary /\ wentOver # None
                    /\ hostExpires <= wentOver + RetryTimeout

TokenOK == token \in Answers

RequestsInv == RequestsOK /\ HostOK /\ TokenOK

-----------------------------------------------------------------------------
\* The hosts.

LEMMA PrimaryIsHost == Hosts \in Seq(HostSet) /\ Len(Hosts) \in Nat \ {0} /\ Primary \in HostSet
<1>1. Hosts \in Seq(HostSet) /\ Hosts # <<>>
  BY HostsAssumption DEF HostSet
<1>2. Len(Hosts) \in Nat /\ Len(Hosts) # 0
  BY <1>1, LenProperties, EmptySeq
<1> QED
  BY <1>1, <1>2 DEF Primary

\* The hosts a request goes through exist, the primary one is the first or the second, and it
\* is the second only behind a preferred host that is not stale.
LEMMA HostsToTryStart ==
  ASSUME HostsAreFound
  PROVE  /\ HostsToTry \in Seq(HostSet) /\ Len(HostsToTry) \in Nat \ {0}
         /\ \/ HostsToTry[1] = Primary
            \/ Len(HostsToTry) > 1 /\ HostsToTry[2] = Primary
         /\ HostsToTry[1] # Primary => Preferred # None /\ ~HostIsStale
<1> DEFINE place == CHOOSE i \in DOMAIN Hosts : Hosts[i] = Preferred
           before == SubSeq(Hosts, 1, place - 1)
           after == SubSeq(Hosts, place + 1, Len(Hosts))
<1>1. Hosts \in Seq(HostSet) /\ Len(Hosts) \in Nat \ {0} /\ Hosts[1] = Primary
  BY PrimaryIsHost DEF Primary
<1>2. CASE Preferred = None \/ HostIsStale
  <2>1. HostsToTry = Hosts
    BY <1>2 DEF HostsToTry
  <2> QED
    BY <1>1, <2>1
<1>3. CASE ~(Preferred = None \/ HostIsStale)
  <2>1. Preferred \in HostSet
    BY <1>3 DEF HostsAreFound
  <2>2. place \in 1 .. Len(Hosts) /\ Hosts[place] = Preferred
    <3>1. \E i \in DOMAIN Hosts : Hosts[i] = Preferred
      BY <2>1 DEF HostSet, ToSet
    <3>2. DOMAIN Hosts = 1 .. Len(Hosts)
      BY <1>1, LenProperties
    <3> QED
      BY <3>1, <3>2
  <2>3. HostsToTry = <<Preferred>> \o (before \o after)
    BY <1>3 DEF HostsToTry, RemoveAt
  <2> HIDE DEF place
  <2>4. /\ before \in Seq(HostSet) /\ Len(before) = place - 1
        /\ place > 1 => before[1] = Hosts[1]
    BY <1>1, <2>2
  <2>5. after \in Seq(HostSet)
    BY <1>1, <2>2
  <2> HIDE DEF before, after
  <2>6. <<Preferred>> \in Seq(HostSet) /\ Len(<<Preferred>>) = 1
    BY <2>1
  <2>7. /\ before \o after \in Seq(HostSet)
        /\ Len(before \o after) = place - 1 + Len(after) /\ Len(after) \in Nat
        /\ place > 1 => (before \o after)[1] = Hosts[1]
    BY <2>2, <2>4, <2>5
  <2> DEFINE rest == before \o after
  <2> HIDE DEF rest
  <2>8. /\ <<Preferred>> \o rest \in Seq(HostSet)
        /\ Len(<<Preferred>> \o rest) = 1 + Len(rest)
        /\ (<<Preferred>> \o rest)[1] = Preferred
        /\ Len(rest) > 0 => (<<Preferred>> \o rest)[2] = rest[1]
    BY <2>1, <2>6, <2>7 DEF rest
  <2>9. HostsToTry = <<Preferred>> \o rest
    BY <2>3 DEF rest
  <2>10. CASE place = 1
    <3>1. HostsToTry[1] = Primary
      BY <1>1, <2>2, <2>8, <2>9, <2>10
    <3> QED
      BY <3>1, <2>8, <2>9, <2>7 DEF rest
  <2>11. CASE place # 1
    <3>1. place > 1 /\ Len(rest) > 0 /\ rest[1] = Primary
      BY <1>1, <2>2, <2>7, <2>11 DEF rest
    <3> QED
      BY <1>3, <3>1, <2>8, <2>9, <2>7 DEF rest
  <2> QED
    BY <2>10, <2>11
<1> QED
  BY <1>2, <1>3

-----------------------------------------------------------------------------
\* The steps of a request.

LEMMA RequestsInvInit == Init => RequestsInv
<1> SUFFICES ASSUME Init PROVE RequestsInv
  OBVIOUS
<1>1. request \in [Requests -> Ended \union Calls] /\ \A r \in Requests : request[r] \in Ended
  BY DEF Init, Idle, Ended
<1>2. RequestsOK
  BY <1>1 DEF RequestsOK, RequestOK
<1>3. HostOK /\ TokenOK
  BY NoneAssumption, PrimaryIsHost DEF Init, HostOK, TokenOK, Answers, HostSet
<1> QED
  BY <1>2, <1>3 DEF RequestsInv

\* What is to be shown of a step that gives a request a new record.
LEMMA RequestUpdate ==
  ASSUME RequestsOK, NEW r \in Requests, NEW call, RequestOK(call),
         request' = [request EXCEPT ![r] = call]
  PROVE  RequestsOK' /\ request'[r] = call /\ \A q \in Requests : q # r => request'[q] = request[q]
<1>1. request'[r] = call /\ \A q \in Requests : q # r => request'[q] = request[q]
  BY DEF RequestsOK
<1>2. call \in Ended \union Calls
  BY DEF RequestOK
<1>3. request' \in [Requests -> Ended \union Calls]
  BY <1>2 DEF RequestsOK
<1>4. \A q \in Requests : RequestOK(request'[q])
  BY <1>1 DEF RequestsOK
<1> QED
  BY <1>1, <1>3, <1>4 DEF RequestsOK, RequestOK, IsSent

\* A request that is under way.
LEMMA UnderWay ==
  ASSUME RequestsOK, NEW r \in Requests, request[r].at # "idle"
  PROVE  /\ request[r] \in Calls
         /\ request[r].at = "sent" => IsSent(request[r])
  BY DEF RequestsOK, RequestOK, Ended

LEMMA EndStep ==
  ASSUME RequestsOK, NEW r \in Requests, NEW outcome \in {"other", "error", "exhausted", "refused"},
         End(r, outcome)
  PROVE  RequestsOK' /\ request'[r] = Idle(outcome)
         /\ \A q \in Requests : q # r => request'[q] = request[q]
<1>1. RequestOK(Idle(outcome))
  BY DEF RequestOK, Ended, Idle
<1> QED
  BY <1>1, RequestUpdate DEF End

LEMMA AskStep ==
  ASSUME RequestsOK, NEW r \in Requests, NEW call \in Calls, Ask(r, call)
  PROVE  RequestsOK' /\ request'[r].at = "asking"
         /\ \A q \in Requests : q # r => request'[q] = request[q]
<1> DEFINE new == [call EXCEPT !.at = "asking"]
<1>1. new \in Calls /\ new.at = "asking"
  BY DEF Calls
<1>2. RequestOK(new)
  BY <1>1 DEF RequestOK
<1> HIDE DEF new
<1>3. request' = [request EXCEPT ![r] = new]
  BY DEF Ask, new
<1> QED
  BY <1>1, <1>2, <1>3, RequestUpdate

\* A request is sent with a token of its own if it has had its second chance, and a fallback
\* host comes first only while it is remembered or the realtime connection is on it.
LEMMA SendStep ==
  ASSUME RequestsOK, HostOK, NEW r \in Requests, NEW call \in Calls, NEW own \in BOOLEAN,
         call.retried => own, Send(r, call, own)
  PROVE  /\ RequestsOK'
         /\ \A q \in Requests : q # r => request'[q] = request[q]
         /\ request'[r] = Idle("error")
            \/ /\ request'[r].at = "sent" /\ request'[r].index = 1
               /\ request'[r].hosts[1] # Primary => Preferred # None /\ ~HostIsStale
         /\ (host' = host /\ hostExpires' = hostExpires) \/ (host' = None /\ hostExpires' = None)
<1>1. CASE HostsAreFound
  <2> DEFINE new == [call EXCEPT !.at = "sent", !.answer = None, !.own = own,
                                 !.hosts = HostsToTry, !.index = 1, !.since = now]
  <2>1. /\ HostsToTry \in Seq(HostSet) /\ Len(HostsToTry) \in Nat \ {0}
        /\ HostsToTry[1] = Primary \/ (Len(HostsToTry) > 1 /\ HostsToTry[2] = Primary)
        /\ HostsToTry[1] # Primary => Preferred # None /\ ~HostIsStale
    BY <1>1, HostsToTryStart
  <2>2. /\ new \in Calls /\ new.at = "sent" /\ new.index = 1 /\ new.hosts = HostsToTry
        /\ new.retried = call.retried /\ new.own = own
    BY <2>1 DEF Calls, HostOK, Answers
  <2>3. request' = [request EXCEPT ![r] = new]
    BY <1>1 DEF Send
  <2> HIDE DEF new
  <2>4. RequestOK(new)
    BY <2>1, <2>2 DEF RequestOK, IsSent
  <2>5. (host' = host /\ hostExpires' = hostExpires) \/ (host' = None /\ hostExpires' = None)
    BY <1>1 DEF Send, ForgetStaleHost
  <2> QED
    BY <2>1, <2>2, <2>3, <2>4, <2>5, RequestUpdate
<1>2. CASE ~HostsAreFound
  <2>1. End(r, "error") /\ host' = host /\ hostExpires' = hostExpires
    BY <1>2 DEF Send
  <2> QED
    BY <2>1, EndStep
<1> QED
  BY <1>1, <1>2

-----------------------------------------------------------------------------
\* What is asserted of each step: the invariant is kept, and the step is in accordance with
\* both action properties.

Accords ==
  \A r \in Requests :
    /\ (Ends(r, "refused") /\ request[r].raises) => request[r].own
    /\ (Sends(r) /\ realtimeHost = None /\ request'[r].hosts[1] # Primary)
         => wentOver # None /\ now <= wentOver + RetryTimeout

StepOK == RequestsInv' /\ Accords

\* A request whose record is left alone neither ends nor is sent.
LEMMA StillAccords ==
  ASSUME RequestsOK, NEW r \in Requests, request'[r] = request[r]
  PROVE  ~Ends(r, "refused") /\ ~Sends(r)
<1>1. ~Ends(r, "refused")
  BY DEF Ends
<1>2. CASE request[r].at = "sent"
  <2>1. request[r].index \in Nat
    BY <1>2, UnderWay DEF Calls
  <2> QED
    BY <1>1, <1>2, <2>1 DEF Sends
<1>3. CASE request[r].at # "sent"
  BY <1>1, <1>3 DEF Sends
<1> QED
  BY <1>2, <1>3

\* A step that changes the record of one request is to be judged by that request.
LEMMA OneAccords ==
  ASSUME RequestsOK, NEW r \in Requests, \A q \in Requests : q # r => request'[q] = request[q],
         (Ends(r, "refused") /\ request[r].raises) => request[r].own,
         (Sends(r) /\ realtimeHost = None /\ request'[r].hosts[1] # Primary)
           => wentOver # None /\ now <= wentOver + RetryTimeout
  PROVE  Accords
  BY StillAccords DEF Accords

\* Where no realtime connection is on a fallback host, a preferred host that is not stale is
\* one that was gone over to within RetryTimeout.
LEMMA PreferredIsRecent ==
  ASSUME HostOK, realtimeHost = None, Preferred # None, ~HostIsStale
  PROVE  wentOver # None /\ now <= wentOver + RetryTimeout
<1>1. host # None /\ hostExpires \in Nat /\ wentOver \in Nat /\ ~(now > hostExpires)
  BY DEF Preferred, HostIsStale, HostOK
<1> QED
  BY <1>1, NoneAssumption, TimesAssumption DEF HostOK

\* The remembered host is left alone or forgotten.
LEMMA HostKeptOrForgotten ==
  ASSUME HostOK, UNCHANGED <<now, wentOver>>,
         (host' = host /\ hostExpires' = hostExpires) \/ (host' = None /\ hostExpires' = None)
  PROVE  HostOK'
  BY DEF HostOK

LEMMA StartStep ==
  ASSUME RequestsInv, NEW r \in Requests, NEW raises \in BOOLEAN, Start(r, raises)
  PROVE  StepOK
<1> USE DEF RequestsInv
<1>1. Call(raises) \in Calls /\ Call(raises).retried = FALSE
  BY DEF Call, Calls, Answers
<1>2. CASE HasExpired(token)
  <2> DEFINE call == [Call(raises) EXCEPT !.forced = token # None, !.retried = token # None]
  <2>1. call \in Calls
    BY <1>1 DEF Calls
  <2>2. Ask(r, call)
    BY <1>2 DEF Start
  <2> HIDE DEF call
  <2>3. RequestsOK' /\ request'[r].at = "asking"
        /\ \A q \in Requests : q # r => request'[q] = request[q]
    BY <2>1, <2>2, AskStep
  <2>4. Accords
    BY <2>3, OneAccords DEF Ends, Sends
  <2>5. HostOK' /\ TokenOK'
    BY <2>2, HostKeptOrForgotten DEF Start, Ask, auth, TokenOK
  <2> QED
    BY <2>3, <2>4, <2>5 DEF StepOK
<1>3. CASE ~HasExpired(token)
  <2>1. Send(r, Call(raises), FALSE)
    BY <1>3 DEF Start
  <2>2. /\ RequestsOK'
        /\ \A q \in Requests : q # r => request'[q] = request[q]
        /\ request'[r] = Idle("error")
           \/ /\ request'[r].at = "sent" /\ request'[r].index = 1
              /\ request'[r].hosts[1] # Primary => Preferred # None /\ ~HostIsStale
        /\ (host' = host /\ hostExpires' = hostExpires) \/ (host' = None /\ hostExpires' = None)
    BY <1>1, <2>1, SendStep
  <2>3. ~Ends(r, "refused")
    BY <2>2 DEF Ends, Idle
  <2>4. Accords
    BY <2>2, <2>3, OneAccords, PreferredIsRecent DEF Sends, Idle
  <2>5. HostOK' /\ TokenOK'
    BY <2>2, HostKeptOrForgotten DEF Start, auth, TokenOK
  <2> QED
    BY <2>2, <2>4, <2>5 DEF StepOK
<1> QED
  BY <1>2, <1>3

LEMMA GrantStep ==
  ASSUME RequestsInv, NEW r \in Requests, NEW client \in Grants,
         NEW expires \in {None, now + TimeToLive}, Grant(r, client, expires)
  PROVE  StepOK
<1> USE DEF RequestsInv
<1> DEFINE answer == [client |-> client, expires |-> expires]
           new == [request[r] EXCEPT !.at = "granted", !.answer = answer]
<1>1. request[r] \in Calls
  BY UnderWay DEF Grant
<1>2. answer \in Answers
  BY TimesAssumption DEF Answers, HostOK
<1>3. new \in Calls /\ new.at = "granted"
  BY <1>1, <1>2 DEF Calls
<1>4. request' = [request EXCEPT ![r] = new]
  BY DEF Grant, RequestsOK
<1> HIDE DEF new
<1>5. RequestsOK' /\ request'[r].at = "granted"
      /\ \A q \in Requests : q # r => request'[q] = request[q]
  BY <1>3, <1>4, RequestUpdate DEF RequestOK
<1>6. Accords
  BY <1>5, OneAccords DEF Ends, Sends
<1>7. HostOK' /\ TokenOK'
  BY DEF Grant, HostOK, TokenOK, fallback, auth
<1> QED
  BY <1>5, <1>6, <1>7 DEF StepOK

LEMMA DenyStep ==
  ASSUME RequestsInv, NEW r \in Requests, Deny(r)
  PROVE  StepOK
<1> USE DEF RequestsInv
<1>1. HostOK' /\ TokenOK'
  BY DEF Deny, HostOK, TokenOK, auth, Reauthorize, Ask
<1>2. CASE End(r, "other")
  <2>1. RequestsOK' /\ request'[r] = Idle("other")
        /\ \A q \in Requests : q # r => request'[q] = request[q]
    BY <1>2, EndStep
  <2>2. Accords
    BY <2>1, OneAccords DEF Ends, Sends, Idle
  <2> QED
    BY <1>1, <2>1, <2>2 DEF StepOK
<1>3. CASE Reauthorize(r)
  <2> DEFINE call == [request[r] EXCEPT !.retried = TRUE, !.forced = TRUE]
  <2>1. call \in Calls
    BY UnderWay DEF Deny, Calls
  <2>2. Ask(r, call)
    BY <1>3 DEF Reauthorize
  <2> HIDE DEF call
  <2>3. RequestsOK' /\ request'[r].at = "asking"
        /\ \A q \in Requests : q # r => request'[q] = request[q]
    BY <2>1, <2>2, AskStep
  <2>4. Accords
    BY <2>3, OneAccords DEF Ends, Sends
  <2> QED
    BY <1>1, <2>3, <2>4 DEF StepOK
<1> QED
  BY <1>2, <1>3 DEF Deny

LEMMA RenewedStep ==
  ASSUME RequestsInv, NEW r \in Requests, Renewed(r)
  PROVE  StepOK
<1> USE DEF RequestsInv
<1> DEFINE call == request[r]
           new == call.answer
<1>1. call \in Calls
  BY UnderWay DEF Renewed
<1>2. new \in Answers
  BY <1>1 DEF Calls
<1>3. TokenOK' /\ UNCHANGED <<now, wentOver>>
  BY <1>2 DEF Renewed, TokenOK
<1>4. CASE Incompatible(new.client)
  <2>1. End(r, "other") /\ UNCHANGED <<host, hostExpires>>
    BY <1>4 DEF Renewed
  <2>2. RequestsOK' /\ request'[r] = Idle("other")
        /\ \A q \in Requests : q # r => request'[q] = request[q]
    BY <2>1, EndStep
  <2>3. Accords
    BY <2>2, OneAccords DEF Ends, Sends, Idle
  <2> QED
    BY <1>3, <2>1, <2>2, <2>3, HostKeptOrForgotten DEF StepOK
<1>5. CASE ~Incompatible(new.client) /\ call.forced /\ HasExpired(new)
  <2> DEFINE again == [call EXCEPT !.forced = FALSE, !.answer = None]
  <2>1. again \in Calls
    BY <1>1 DEF Calls, Answers
  <2>2. Ask(r, again)
    BY <1>5 DEF Renewed
  <2> HIDE DEF again
  <2>3. RequestsOK' /\ request'[r].at = "asking"
        /\ \A q \in Requests : q # r => request'[q] = request[q]
    BY <2>1, <2>2, AskStep
  <2>4. Accords
    BY <2>3, OneAccords DEF Ends, Sends
  <2> QED
    BY <1>3, <2>2, <2>3, <2>4, HostKeptOrForgotten DEF StepOK, Ask
<1>6. CASE ~Incompatible(new.client) /\ ~(call.forced /\ HasExpired(new))
  <2>1. Send(r, call, TRUE)
    BY <1>6 DEF Renewed
  <2>2. /\ RequestsOK'
        /\ \A q \in Requests : q # r => request'[q] = request[q]
        /\ request'[r] = Idle("error")
           \/ /\ request'[r].at = "sent" /\ request'[r].index = 1
              /\ request'[r].hosts[1] # Primary => Preferred # None /\ ~HostIsStale
        /\ (host' = host /\ hostExpires' = hostExpires) \/ (host' = None /\ hostExpires' = None)
    BY <1>1, <2>1, SendStep
  <2>3. ~Ends(r, "refused")
    BY <2>2 DEF Ends, Idle
  <2>4. Accords
    BY <2>2, <2>3, OneAccords, PreferredIsRecent DEF Sends, Idle
  <2> QED
    BY <1>3, <2>2, <2>4, HostKeptOrForgotten DEF StepOK
<1> QED
  BY <1>4, <1>5, <1>6

-----------------------------------------------------------------------------
\* The outcomes of a try. What they leave alone is in Outcome.

SomeOutcomes == {"other", "exhausted", "refused"}

LEMMA FailStep ==
  ASSUME RequestsInv, NEW r \in Requests, request[r].at = "sent", NEW outcome \in SomeOutcomes,
         outcome = "refused" => (request[r].raises => request[r].own),
         Fail(r, outcome), UNCHANGED <<now, auth>>
  PROVE  StepOK
<1> USE DEF RequestsInv
<1>1. RequestsOK' /\ request'[r] = Idle(outcome)
      /\ \A q \in Requests : q # r => request'[q] = request[q]
  BY EndStep DEF Fail, SomeOutcomes
<1>2. Accords
  BY <1>1, OneAccords DEF Ends, Sends, Idle
<1>3. HostOK' /\ TokenOK'
  BY DEF Fail, HostOK, TokenOK, auth
<1> QED
  BY <1>1, <1>2, <1>3 DEF StepOK

LEMMA TryNextHostStep ==
  ASSUME RequestsInv, NEW r \in Requests, request[r].at = "sent", ~IsLastTry(request[r]),
         TryNextHost(r), UNCHANGED <<now, auth>>
  PROVE  StepOK
<1> USE DEF RequestsInv
<1> DEFINE new == [request[r] EXCEPT !.index = @ + 1]
<1>1. request[r] \in Calls /\ IsSent(request[r])
  BY UnderWay
<1>2. request[r].index \in Nat /\ Len(request[r].hosts) \in Nat
      /\ request[r].index + 1 \in 1 .. Len(request[r].hosts)
  <2>1. request[r].index \in Nat /\ Len(request[r].hosts) \in Nat
    BY <1>1, LenProperties DEF Calls
  <2> QED
    BY <1>1, <2>1 DEF IsSent, IsLastTry
<1>3. /\ new \in Calls /\ new.at = "sent" /\ new.index = request[r].index + 1
      /\ new.hosts = request[r].hosts /\ new.retried = request[r].retried
      /\ new.own = request[r].own
  BY <1>1, <1>2 DEF Calls
<1>4. request' = [request EXCEPT ![r] = new]
  BY DEF TryNextHost, RequestsOK
<1> HIDE DEF new
<1>5. RequestOK(new)
  BY <1>1, <1>2, <1>3 DEF RequestOK, IsSent
<1>6. RequestsOK' /\ request'[r] = new
      /\ \A q \in Requests : q # r => request'[q] = request[q]
  BY <1>4, <1>5, RequestUpdate
<1>7. ~Ends(r, "refused") /\ ~Sends(r)
  BY <1>2, <1>3, <1>6 DEF Ends, Sends
<1>8. Accords
  BY <1>6, <1>7, OneAccords
<1>9. HostOK' /\ TokenOK'
  BY DEF TryNextHost, HostOK, TokenOK, auth
<1> QED
  BY <1>6, <1>8, <1>9 DEF StepOK

\* A fallback host that a request went over to is kept only if the primary one had failed it.
LEMMA ReturnStep ==
  ASSUME RequestsInv, NEW r \in Requests, request[r].at = "sent", NEW outcome \in SomeOutcomes,
         outcome = "refused" => (request[r].raises => request[r].own),
         Return(r, outcome), UNCHANGED <<now, auth>>
  PROVE  StepOK
<1> USE DEF RequestsInv
<1>1. RequestsOK' /\ request'[r] = Idle(outcome)
      /\ \A q \in Requests : q # r => request'[q] = request[q]
  BY EndStep DEF Return, SomeOutcomes
<1>2. Accords
  BY <1>1, OneAccords DEF Ends, Sends, Idle
<1> DEFINE call == request[r]
<1>3. call \in Calls /\ IsSent(call)
  BY UnderWay
<1>4. call.index \in 1 .. Len(call.hosts) /\ call.hosts \in Seq(HostSet) /\ Len(call.hosts) \in Nat
  BY <1>3, LenProperties DEF IsSent, Calls
<1>5. Current(call) \in HostSet
  BY <1>4, ElementOfSeq DEF Current
<1>6. wentOver' \in {now, wentOver}
  BY DEF Return
<1>7. CASE call.index > 1 /\ Current(call) # Primary
  <2>1. Primary \in FailedBefore(call)
    <3>1. CASE call.hosts[1] = Primary
      <4>1. 1 \in 1 .. call.index - 1
        BY <1>4, <1>7
      <4> QED
        BY <3>1, <4>1 DEF FailedBefore
    <3>2. CASE call.hosts[1] # Primary
      <4>1. call.hosts[2] = Primary /\ call.index # 2
        BY <1>3, <1>7, <3>2 DEF IsSent, Current
      <4>2. 2 \in 1 .. call.index - 1
        BY <1>4, <1>7, <4>1
      <4> QED
        BY <4>1, <4>2 DEF FailedBefore
    <3> QED
      BY <3>1, <3>2
  <2>2. wentOver' = now
    BY <1>7, <2>1 DEF Return
  <2>3. host' = Current(call) /\ hostExpires' = now + RetryTimeout
    BY <1>7 DEF Return, KeepHost
  <2>4. HostOK'
    BY <1>5, <1>7, <2>2, <2>3, NoneAssumption, TimesAssumption DEF HostOK, HostSet
  <2> QED
    BY <1>1, <1>2, <2>4 DEF StepOK, TokenOK, auth
<1>8. CASE ~(call.index > 1 /\ Current(call) # Primary)
  <2>1. UNCHANGED <<host, hostExpires>>
    BY <1>8 DEF Return, KeepHost
  <2>2. now' = now /\ now \in Nat /\ now \notin {None}
    BY NoneAssumption DEF HostOK
  <2>3. wentOver' \in Nat \union {None} /\ (wentOver' # None => wentOver' <= now)
    BY <1>6, <2>2 DEF HostOK
  <2>4. ASSUME host # None
        PROVE  wentOver' # None /\ hostExpires <= wentOver' + RetryTimeout
    <3>1. /\ hostExpires \in Nat /\ wentOver \in Nat /\ wentOver # None /\ wentOver <= now
          /\ hostExpires <= wentOver + RetryTimeout
      BY <2>4 DEF HostOK
    <3>2. CASE wentOver' = wentOver
      BY <3>1, <3>2
    <3>3. CASE wentOver' = now
      <4>1. hostExpires <= now + RetryTimeout
        BY <2>2, <3>1, TimesAssumption
      <4> QED
        BY <2>2, <3>3, <4>1
    <3> QED
      BY <1>6, <3>2, <3>3
  <2>5. HostOK'
    BY <2>1, <2>2, <2>3, <2>4 DEF HostOK
  <2> QED
    BY <1>1, <1>2, <2>5 DEF StepOK, TokenOK, auth
<1> QED
  BY <1>7, <1>8

LEMMA ReportStep ==
  ASSUME RequestsInv, NEW r \in Requests, request[r].at = "sent", NEW outcome \in SomeOutcomes,
         outcome = "refused" => (request[r].raises => request[r].own),
         Report(r, outcome), UNCHANGED <<now, auth>>
  PROVE  StepOK
  BY FailStep, ReturnStep DEF Report

LEMMA OutcomeStep ==
  ASSUME RequestsInv, NEW r \in Requests, Fails(r) \/ Declines(r) \/ Succeeds(r)
  PROVE  StepOK
<1>1. request[r].at = "sent" /\ UNCHANGED <<now, auth>>
  BY DEF Fails, Declines, Succeeds, Outcome
<1>2. CASE Unreachable(r)
  BY <1>1, <1>2, FailStep, TryNextHostStep DEF Unreachable, SomeOutcomes
<1>3. CASE ServerFails(r)
  BY <1>1, <1>3, ReportStep, TryNextHostStep DEF ServerFails, SomeOutcomes
<1>4. CASE Rejects(r)
  BY <1>1, <1>4, ReportStep DEF Rejects, SomeOutcomes
<1>5. CASE Responds(r)
  BY <1>1, <1>5, ReturnStep DEF Responds, SomeOutcomes
<1>6. CASE Refuses(r)
  <2> USE DEF RequestsInv
  <2>1. request[r] \in Calls /\ (request[r].retried => request[r].own)
    BY <1>1, UnderWay DEF IsSent
  <2>2. CASE request[r].raises /\ ~request[r].retried
    <3> DEFINE call == [request[r] EXCEPT !.retried = TRUE, !.forced = TRUE]
    <3>1. call \in Calls
      BY <2>1 DEF Calls
    <3>2. Ask(r, call) /\ wentOver' = wentOver
      BY <1>6, <2>2 DEF Refuses, Reauthorize
    <3> HIDE DEF call
    <3>3. RequestsOK' /\ request'[r].at = "asking"
          /\ \A q \in Requests : q # r => request'[q] = request[q]
      BY <3>1, <3>2, AskStep
    <3>4. Accords
      BY <3>3, OneAccords DEF Ends, Sends
    <3>5. HostOK' /\ TokenOK'
      BY <1>1, <3>2, HostKeptOrForgotten DEF Ask, auth, TokenOK
    <3> QED
      BY <3>3, <3>4, <3>5 DEF StepOK
  <2>3. CASE ~(request[r].raises /\ ~request[r].retried)
    <3>1. Report(r, "refused")
      BY <1>6, <2>3 DEF Refuses
    <3>2. request[r].raises => request[r].own
      BY <2>1, <2>3 DEF Calls
    <3> QED
      BY <1>1, <3>1, <3>2, ReportStep DEF SomeOutcomes
  <2> QED
    BY <2>2, <2>3
<1> QED
  BY <1>2, <1>3, <1>4, <1>5, <1>6 DEF Fails, Declines, Succeeds, Outcome

LEMMA TimeStep ==
  ASSUME RequestsInv, Tick \/ \E h \in RealtimeHosts : ConnectsRealtime(h)
  PROVE  StepOK
<1> USE DEF RequestsInv
<1>1. request' = request
  BY DEF Tick, ConnectsRealtime
<1>2. RequestsOK'
  BY <1>1 DEF RequestsOK, RequestOK, IsSent
<1>3. Accords
  BY <1>1, StillAccords DEF Accords
<1>4. HostOK' /\ TokenOK'
  BY NoneAssumption DEF Tick, ConnectsRealtime, HostOK, TokenOK, fallback, auth
<1> QED
  BY <1>2, <1>3, <1>4 DEF StepOK

LEMMA RequestsStep == RequestsInv /\ [Next]_vars => StepOK
<1> SUFFICES ASSUME RequestsInv, [Next]_vars PROVE StepOK
  OBVIOUS
<1>1. CASE Next
  BY <1>1, StartStep, GrantStep, DenyStep, RenewedStep, OutcomeStep, TimeStep DEF Next
<1>2. CASE UNCHANGED vars
  <2> USE DEF RequestsInv
  <2>1. RequestsOK'
    BY <1>2 DEF RequestsOK, RequestOK, IsSent, vars
  <2>2. Accords
    BY <1>2, StillAccords DEF Accords, vars
  <2>3. HostOK' /\ TokenOK'
    BY <1>2 DEF HostOK, TokenOK, vars, fallback, auth
  <2> QED
    BY <2>1, <2>2, <2>3 DEF StepOK
<1> QED
  BY <1>1, <1>2

LEMMA RequestsInvAlways == Spec => []RequestsInv
<1>1. Init => RequestsInv
  BY RequestsInvInit
<1>2. RequestsInv /\ [Next]_vars => RequestsInv'
  BY RequestsStep DEF StepOK
<1> QED
  BY <1>1, <1>2, PTL DEF Spec

\* The remembered host is a fallback host with an expiry, and a request that is at a host is
\* at one of the hosts it goes through.
THEOREM RequestsTypeCorrect == Spec => []TypeOK
<1>1. RequestsInv => TypeOK
  <2> SUFFICES ASSUME RequestsInv PROVE TypeOK
    OBVIOUS
  <2> USE DEF RequestsInv
  <2>1. host \in HostSet \union {None} /\ host # Primary /\ (host = None <=> hostExpires = None)
    BY PrimaryIsHost, NoneAssumption DEF HostOK, HostSet
  <2>2. ASSUME NEW r \in Requests, request[r].at = "sent"
        PROVE  request[r].index \in DOMAIN request[r].hosts
    BY <2>2, UnderWay, LenProperties DEF IsSent, Calls
  <2> QED
    BY <2>1, <2>2 DEF TypeOK
<1> QED
  BY <1>1, RequestsInvAlways, PTL

\* A caller is told that its token is refused only when the token it presented was granted to
\* this very request, for any number of requests and whatever order their tokens come back in.
THEOREM RefusedTokenIsOwn == Spec => RefusedOnlyAfterRenewal
<1>1. RequestsInv /\ [Next]_vars
        => [\A r \in Requests : (Ends(r, "refused") /\ request[r].raises) => request[r].own]_vars
  BY RequestsStep DEF StepOK, Accords
<1> QED
  BY <1>1, RequestsInvAlways, PTL DEF Spec, RefusedOnlyAfterRenewal

\* Without a realtime connection on one, a fallback host is tried first only for as long as
\* RetryTimeout after a request that had failed on the primary host ended on a fallback host,
\* for any list of hosts and any timeout.
THEOREM FallbackIsTemporary == Spec => PrimaryComesBack
<1>1. RequestsInv /\ [Next]_vars
        => [\A r \in Requests :
              (Sends(r) /\ realtimeHost = None /\ request'[r].hosts[1] # Primary)
                => wentOver # None /\ now <= wentOver + RetryTimeout]_vars
  BY RequestsStep DEF StepOK, Accords
<1> QED
  BY <1>1, RequestsInvAlways, PTL DEF Spec, PrimaryComesBack

-----------------------------------------------------------------------------
\* Publishes are requests.

\* What holds of the requests holds of them while messages are published.
THEOREM PublishesAreRequests == PublishSpec => Spec
<1>1. PublishInit => Init
  BY DEF PublishInit
<1>2. [PublishNext]_allVars => [Next]_vars
  BY DEF PublishNext, allVars, Publish, Request, Accepted, NotAccepted, Others, Next
<1> QED
  BY <1>1, <1>2, PTL DEF PublishSpec, Spec

\* One id is generated; every body has it or none, and only it is stored.
OneId ==
  /\ starts \in Nat /\ id \in Nat
  /\ body \in [Requests -> {0, id}]
  /\ stored \subseteq {id} \ {0}

LEMMA OneIdStep == OneId /\ [PublishNext]_allVars => OneId'
<1> SUFFICES ASSUME OneId, [PublishNext]_allVars PROVE OneId'
  OBVIOUS
<1> USE DEF OneId
<1>1. ASSUME NEW r \in Requests, Publish(r) PROVE OneId'
  <2>1. starts' = starts + 1 /\ id' = (IF id = 0 THEN starts' ELSE id)
    BY <1>1 DEF Publish, Start, AssignIdempotentIds
  <2>2. body' = [body EXCEPT ![r] = id'] /\ stored' = stored
    BY <1>1 DEF Publish
  <2> QED
    BY <2>1, <2>2
<1>2. ASSUME NEW r \in Requests, Request(r) PROVE OneId'
  BY <1>2 DEF Request, Start
<1>3. ASSUME NEW r \in Requests, Accepted(r) PROVE OneId'
  BY <1>3 DEF Accepted, Fails, Succeeds, Outcome
<1>4. ASSUME NEW r \in Requests, NotAccepted(r) PROVE OneId'
  BY <1>4 DEF NotAccepted, Fails, Declines, Succeeds, Outcome, publishing
<1>5. CASE Others
  BY <1>5 DEF Others, Grant, Deny, Renewed, Tick, ConnectsRealtime, publishing
<1>6. CASE UNCHANGED allVars
  BY <1>6 DEF allVars, vars, publishing
<1> QED
  BY <1>1, <1>2, <1>3, <1>4, <1>5, <1>6 DEF PublishNext

\* Whatever hosts had stored the message before they failed, and however often the application
\* publishes the Message, the channel holds it once, for any number of requests and hosts.
THEOREM MessageIsStoredOnce == PublishSpec => []PublishedOnce
<1>1. PublishInit => OneId
  BY DEF PublishInit, Init, OneId
<1>2. OneId => PublishedOnce
  <2> SUFFICES ASSUME OneId PROVE PublishedOnce
    OBVIOUS
  <2>1. stored = {} \/ stored = {id}
    BY DEF OneId
  <2>2. Cardinality(stored) \in {0, 1}
    BY <2>1, FS_EmptySet, FS_Singleton
  <2> QED
    BY <2>2 DEF PublishedOnce
<1> QED
  BY <1>1, <1>2, OneIdStep, PTL DEF PublishSpec

================================================================================
