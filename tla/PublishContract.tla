-------------------------- MODULE PublishContract --------------------------
(***************************************************************************)
(* What RealtimeChannel.publish promises its callers, without connections, *)
(* serials or retries.  A publish that is accepted is in flight until it   *)
(* is settled.  The service settles publishes in the order they were made, *)
(* each with the outcome the service gave to that very message, and the    *)
(* client may give up on everything in flight at once.                     *)
(***************************************************************************)
EXTENDS Naturals, Sequences, Functions

CONSTANT Messages  \* the publishes an application may make

VARIABLES
  inflight,  \* accepted and not yet settled, in publishing order
  outcome    \* "none" until settled, then "delivered" or "failed"

vars == <<inflight, outcome>>

TypeOK ==
  /\ inflight \in Seq(Messages)
  /\ outcome \in [Messages -> {"none", "delivered", "failed"}]

Settle(ms, o) ==
  outcome' = [m \in Messages |-> IF m \in ms THEN o ELSE outcome[m]]

Init ==
  /\ inflight = <<>>
  /\ outcome = [m \in Messages |-> "none"]

Accept(m) ==
  /\ outcome[m] = "none"
  /\ m \notin Range(inflight)
  /\ inflight' = Append(inflight, m)
  /\ UNCHANGED outcome

\* The service answers for the k oldest publishes.
Answer(k, o) ==
  /\ inflight' = SubSeq(inflight, k + 1, Len(inflight))
  /\ Settle(Range(SubSeq(inflight, 1, k)), o)

\* The connection is lost in a way that no answer can follow.
GiveUp ==
  /\ inflight' = <<>>
  /\ Settle(Range(inflight), "failed")

Next ==
  \/ \E m \in Messages : Accept(m)
  \/ \E k \in 1..Len(inflight), o \in {"delivered", "failed"} : Answer(k, o)
  \/ GiveUp

Spec == Init /\ [][Next]_vars

=============================================================================
