----------------------------- MODULE HttpPublishing -----------------------------
(***************************************************************************)
(* A message published over HTTP (http/channel.py), as one of the requests of *)
(* HttpRequests.  A host may have accepted the message although no answer, or *)
(* an error, came back; the request is then tried on another host, and in the *)
(* end the application may publish the same Message again.  The service tells *)
(* a repeat by the id of the message.                                         *)
(***************************************************************************)
EXTENDS HttpRequests

CONSTANT MaxPublishes  \* bound: publishes are among the first requests

VARIABLES
  id,      \* Message.id, 0 for None; ids are numbered as they are generated
  body,    \* the id in the body of each request, 0 where the request is none of a publish
  stored   \* service: the ids of the messages in the channel, a repeat is not stored

publishing == <<id, body, stored>>
allVars == <<vars, publishing>>

PublishInit ==
  /\ Init
  /\ id = 0
  /\ body = [r \in Requests |-> 0]
  /\ stored = {}

\* Mutant of AssignIdempotentIds: the id is of the call, not of the message.
AssignAnew(generated) == generated

\* assign_idempotent_ids: a message that has an id keeps it.
AssignIdempotentIds(generated) == IF id = 0 THEN generated ELSE id

\* publish_messages: the body is built once, before the request.
Publish(r) ==
  /\ starts < MaxPublishes
  /\ Start(r, TRUE)
  /\ id' = AssignIdempotentIds(starts')
  /\ body' = [body EXCEPT ![r] = id']
  /\ UNCHANGED stored

\* A request of another kind; for one that raises errors a publish stands as well.
Request(r) ==
  /\ Start(r, FALSE)
  /\ body' = [body EXCEPT ![r] = 0]
  /\ UNCHANGED <<id, stored>>

\* The host that was asked has stored the message. A publish that fails may have been stored.
Accepted(r) ==
  /\ Fails(r) \/ Succeeds(r)
  /\ body[r] # 0
  /\ stored' = stored \union {body[r]}
  /\ UNCHANGED <<id, body>>

NotAccepted(r) ==
  /\ Fails(r) \/ Declines(r) \/ (body[r] = 0 /\ Succeeds(r))
  /\ UNCHANGED publishing

Others ==
  /\ \/ \E r \in Requests :
          \/ \E client \in Grants, expires \in {None, now + TimeToLive} : Grant(r, client, expires)
          \/ Deny(r) \/ Renewed(r)
     \/ Tick
     \/ \E h \in RealtimeHosts : ConnectsRealtime(h)
  /\ UNCHANGED publishing

PublishNext ==
  \/ \E r \in Requests :
       \/ Publish(r) \/ Request(r)
       \/ Accepted(r) \/ NotAccepted(r)
  \/ Others

PublishSpec == PublishInit /\ [][PublishNext]_allVars

-----------------------------------------------------------------------------
\* Idempotent publishing: whatever hosts had stored the message before they failed and whatever
\* was renewed in between, the channel holds it once.  So it does when the application publishes
\* the same Message twice, at the same time or again, because it keeps the id of the first time:
\* that this is what the application means is not claimed.
PublishedOnce == Cardinality(stored) <= 1

=============================================================================
