------------------------------ MODULE OwnPresence ------------------------------
(***************************************************************************)
(* The members a client enters itself (realtime/presence.py): enter,        *)
(* update and leave on a channel in any state, the operations that wait     *)
(* for the channel to attach, and the members that are entered again when   *)
(* it has attached.                                                         *)
(*                                                                          *)
(* Operations travel by the publish path, which is taken as Publishing      *)
(* promises it: in order, sent again after an outage, answered or failed.   *)
(* The data of an operation is the number of the call, so that what the     *)
(* service holds names the call it comes from.  What the client does at     *)
(* once is one step; what it hands to a task is done when the task runs.    *)
(***************************************************************************)
EXTENDS Naturals, Sequences, SequencesExt, FiniteSets

CONSTANTS
  Clients,        \* the client ids this connection enters
  None,
  MaxCalls,       \* how many operations the application makes
  MaxDisruptions, \* how many disruptions there are
  Disruptions     \* which of them

\* A member, as the service tells of it and as it is kept.
Item == [conn : Nat, serial : Nat, data : Nat, action : {"enter", "leave", "present"},
         synthesized : {FALSE}, time : {0}]

ASSUME ClientsAssumption == IsFiniteSet(Clients) /\ MaxCalls \in Nat
ASSUME NoneAssumption == None \notin Item

VARIABLES
  connection, \* "connected", "opening" and "down" for CONNECTING and DISCONNECTED without and with
              \* a connection id, "suspended" or "closed"
  resumable,  \* whether the service still knows the connection
  conn,       \* the connection id, as a number
  msgSerial,
  channel,
  mine,       \* _my_members
  pending,    \* _pending_presence
  tasks,      \* the tasks created and not run yet, in the order asyncio runs them
  calls,      \* the operations of the application, in order, what became of them, and whether
              \* the service has told what they entered, since the own members were last dropped
  unacked,    \* publish path: the presence messages that are not acknowledged
  outbox,     \* what is on its way to the service
  server,     \* service: the channel, "new" to the connection, "attached" or "detached", and
              \* its members of this connection
  inbox,      \* what is on its way to the client
  count       \* disruptions so far

link == <<connection, resumable, conn>>
sending == <<msgSerial, unacked, outbox>>
service == <<server, inbox>>
vars == <<link, channel, mine, pending, tasks, calls, sending, service, count>>

Map == INSTANCE PresenceMap WITH Keys <- Clients

\* A position in the connection: the message serial, then the index in the message.
Width == MaxCalls + 2 * Cardinality(Clients) + 1
Position(serial, index) == serial * Width + index

NoMembers(state) == [state |-> state, members |-> [c \in Clients |-> None]]

Init ==
  /\ connection = "opening" /\ resumable = FALSE /\ conn = 0 /\ msgSerial = 0
  /\ channel = "initialized"
  /\ mine = Map!EmptyMap /\ pending = <<>> /\ tasks = <<>> /\ calls = <<>>
  /\ unacked = <<>> /\ outbox = <<>> /\ server = NoMembers("new") /\ inbox = <<>>
  /\ count = 0

Disrupt(kind) == kind \in Disruptions /\ count < MaxDisruptions /\ count' = count + 1

\* The connection takes messages, at once or when it is back.
Takes == connection \in {"connected", "opening", "down"}

-----------------------------------------------------------------------------
\* Sending.

\* _send_presence: one message of several entries. What the connection takes while it is down
\* is sent when it is back.
Send(entries) ==
  LET m == [type |-> "presence", serial |-> msgSerial, entries |-> entries]
  IN  /\ unacked' = Append(unacked, m)
      /\ outbox' = IF connection = "connected" \/ resumable THEN Append(outbox, m) ELSE outbox
      /\ msgSerial' = msgSerial + 1

CallsOf(entries) == {entries[i].call : i \in DOMAIN entries}

Settle(which, at) ==
  calls' = [i \in DOMAIN calls |-> [calls[i] EXCEPT !.at = IF i \in which THEN at ELSE @]]

\* _enter_or_update_client, from the state of the channel on; `at' is what it makes of the call.
\* Where it would raise, the last disjunct of its users applies.
EnterBy(entry, waiting) ==
  \/ /\ channel = "attached"
     /\ Send(<<entry>>)
     /\ tasks' = waiting /\ UNCHANGED pending
  \/ /\ channel \in {"initialized", "detached"}
     /\ tasks' = Append(waiting, [type |-> "attach"])
     /\ pending' = Append(pending, entry) /\ UNCHANGED sending
  \/ /\ channel = "attaching"
     /\ pending' = Append(pending, entry)
     /\ tasks' = waiting /\ UNCHANGED sending

\* Whether the application may act: not between an ATTACHED and the tasks it created, unless
\* the application is that eager.
MayAct == "eager" \in Disruptions \/ \A i \in DOMAIN tasks : tasks[i].type = "attach"

NewEntry(c, action) ==
  [call |-> Len(calls) + 1, client |-> c, action |-> action, data |-> Len(calls) + 1, id |-> None]

Called(c, action) ==
  calls' = Append(calls, [client |-> c, action |-> action, shown |-> FALSE,
                          at     |-> IF channel = "attached" THEN "sent" ELSE "queued"])

\* enter(), update() and their likes for other clients.
Enter(c) ==
  /\ Len(calls) < MaxCalls /\ Takes /\ MayAct
  /\ EnterBy(NewEntry(c, "enter"), tasks)
  /\ Called(c, "enter")
  /\ UNCHANGED <<link, channel, mine, service, count>>

\* leave() does not attach.
Leave(c) ==
  /\ Len(calls) < MaxCalls /\ Takes /\ MayAct
  /\ channel \in {"attached", "attaching"}
  /\ EnterBy(NewEntry(c, "leave"), tasks)
  /\ Called(c, "leave")
  /\ UNCHANGED <<link, channel, mine, service, count>>

-----------------------------------------------------------------------------
\* The states of the channel.

Asks(type) == IF connection = "connected" THEN Append(outbox, [type |-> type]) ELSE outbox

\* _request_state(ATTACHING)
RequestAttach == channel' = "attaching" /\ outbox' = Asks("attach")

\* Mutant of FailPending: the futures are forgotten.
FailPendingSilently == pending' = <<>> /\ UNCHANGED calls

\* _fail_pending_presence
FailPending == pending' = <<>> /\ Settle(CallsOf(pending), "failed")

\* act_on_channel_state: SUSPENDED keeps the members, ...
ActOnSuspended == FailPending /\ UNCHANGED mine

\* ... DETACHED and FAILED do not: what was entered is entered no more.
ActOnDetached ==
  /\ mine' = Map!EmptyMap
  /\ pending' = <<>>
  /\ calls' = [i \in DOMAIN calls |->
                 [calls[i] EXCEPT !.at = IF i \in CallsOf(pending) THEN "failed"
                                         ELSE IF @ = "done" THEN "gone" ELSE @,
                                  !.shown = FALSE]]

\* Mutant of Reentries: nobody is entered again.
NoReentries == <<>>

\* _ensure_my_members_present: a task for each member; the id goes with the connection.
Reentries ==
  LET members == SetToSeq({c \in Clients : mine.items[c] # None})
      item(i) == mine.items[members[i]]
  IN  [i \in DOMAIN members |->
         [type  |-> "reenter",
          entry |-> [call |-> 0, client |-> members[i], action |-> "enter", data |-> item(i).data,
                     id   |-> IF item(i).conn = conn THEN item(i).serial ELSE None]]]

\* Mutant of OnAttached: what was pending is sent first.
OnAttachedPendingFirst == tasks' = Append(tasks, [type |-> "pending"]) \o Reentries

\* on_attached: own members are entered again, then what was pending is sent.
OnAttached == tasks' = Append(tasks \o Reentries, [type |-> "pending"])

-----------------------------------------------------------------------------
\* The tasks.

\* attach(), of which nobody waits for the outcome.
RunAttach ==
  /\ IF Takes /\ channel \notin {"attached", "attaching"}
     THEN RequestAttach ELSE UNCHANGED <<channel, outbox>>
  /\ tasks' = Tail(tasks)
  /\ UNCHANGED <<pending, calls, msgSerial, unacked>>

\* _reenter_member: where it may not, an update is emitted and that is all.
RunReenter ==
  /\ \/ Takes /\ EnterBy(Head(tasks).entry, Tail(tasks))
     \/ /\ ~Takes \/ channel \in {"suspended", "detaching", "failed"}
        /\ tasks' = Tail(tasks)
        /\ UNCHANGED <<pending, sending>>
  /\ UNCHANGED <<channel, calls>>

\* What was pending goes out in one message, or fails with it.
SendPending ==
  /\ IF Takes THEN Send(pending) /\ Settle(CallsOf(pending), "sent")
              ELSE Settle(CallsOf(pending), "failed") /\ UNCHANGED sending
  /\ pending' = <<>>

\* _send_pending_presence
RunPending ==
  /\ IF pending = <<>> THEN UNCHANGED <<pending, calls, sending>> ELSE SendPending
  /\ tasks' = Tail(tasks)
  /\ UNCHANGED channel

RunTask ==
  /\ tasks # <<>>
  /\ \/ Head(tasks).type = "attach"  /\ RunAttach
     \/ Head(tasks).type = "reenter" /\ RunReenter
     \/ Head(tasks).type = "pending" /\ RunPending
  /\ UNCHANGED <<link, mine, service, count>>

-----------------------------------------------------------------------------
\* The service.

\* A member as the service tells of it.
ItemOf(entry, serial, index) ==
  [conn |-> conn, serial |-> IF entry.id = None THEN Position(serial, index) ELSE entry.id,
   data |-> entry.data, action |-> entry.action, synthesized |-> FALSE, time |-> 0]

\* One that comes with its id was taken before: it counts only if the member is gone.
Take(members, entry, serial, index) ==
  [members EXCEPT ![entry.client] =
     IF entry.action = "leave" THEN None
     ELSE IF entry.id # None /\ @ # None THEN @
     ELSE ItemOf(entry, serial, index)]

\* The members once the entries of a message have been taken, one after the other.
Members(m) ==
  LET after[n \in 0..Len(m.entries)] ==
        IF n = 0 THEN server.members ELSE Take(after[n - 1], m.entries[n], m.serial, n)
  IN  after[Len(m.entries)]

\* What is told of a message: each entry, and of the leaves those of members.
Told(m) ==
  [type |-> "presence",
   items |-> [i \in DOMAIN m.entries |->
                [client |-> m.entries[i].client, item |-> ItemOf(m.entries[i], m.serial, i)]]]

Present ==
  LET there == SetToSeq({c \in Clients : server.members[c] # None})
  IN  [type  |-> "presence",
       items |-> [i \in DOMAIN there |-> [client |-> there[i], item |-> server.members[there[i]]]]]

\* ATTACHED, and a sync of the members that are there.
ServerAttaches ==
  /\ Head(outbox).type = "attach"
  /\ server' = [server EXCEPT !.state = "attached"]
  /\ inbox' = inbox \o <<[type |-> "attached"], Present>>
  /\ UNCHANGED count

ServerDetaches ==
  /\ Head(outbox).type = "detach"
  /\ server' = NoMembers("detached")
  /\ inbox' = Append(inbox, [type |-> "detached"])
  /\ UNCHANGED count

\* The entries are taken, and told before they are acknowledged. On a channel new to the
\* connection they may also be refused, on one that was detached they are.
ServerTakes ==
  /\ Head(outbox).type = "presence" /\ server.state # "detached"
  /\ server' = [server EXCEPT !.members = Members(Head(outbox))]
  /\ inbox' = inbox \o (IF server.state = "attached" THEN <<Told(Head(outbox))>> ELSE <<>>)
                    \o <<[type |-> "ack"]>>
  /\ UNCHANGED count

ServerRefuses ==
  /\ Head(outbox).type = "presence"
  /\ IF server.state = "attached" THEN Disrupt("refused") ELSE UNCHANGED count
  /\ inbox' = Append(inbox, [type |-> "nack"])
  /\ UNCHANGED server

ServerHandles ==
  /\ connection = "connected" /\ outbox # <<>>
  /\ ServerAttaches \/ ServerDetaches \/ ServerTakes \/ ServerRefuses
  /\ outbox' = Tail(outbox)
  /\ UNCHANGED <<link, channel, mine, pending, tasks, calls, msgSerial, unacked>>

\* The service detaches the channel, or fails it.
ServerEnds(type) ==
  /\ connection = "connected" /\ server.state = "attached"
  /\ Disrupt(type)
  /\ server' = NoMembers("detached")
  /\ inbox' = Append(inbox, [type |-> type])
  /\ UNCHANGED <<link, channel, mine, pending, tasks, calls, sending>>

-----------------------------------------------------------------------------
\* What arrives.

\* ATTACHED: only a channel that is ATTACHING tells its presence.
ReceiveAttached ==
  /\ Head(inbox).type = "attached"
  /\ IF channel = "attaching" THEN channel' = "attached" /\ OnAttached ELSE UNCHANGED <<channel, tasks>>
  /\ UNCHANGED <<mine, pending, calls, sending>>

ReceiveDetached ==
  /\ Head(inbox).type = "detached"
  /\ CASE channel = "detaching" -> channel' = "detached" /\ ActOnDetached /\ UNCHANGED outbox
       [] channel = "attaching" -> channel' = "suspended" /\ ActOnSuspended /\ UNCHANGED outbox
       [] OTHER                 -> RequestAttach /\ UNCHANGED <<mine, pending, calls>>
  /\ UNCHANGED <<tasks, msgSerial, unacked>>

ReceiveError ==
  /\ Head(inbox).type = "failed"
  /\ channel' = "failed" /\ ActOnDetached
  /\ UNCHANGED <<tasks, sending>>

\* set_presence, as to the members of this connection.
SetPresence(map, told) ==
  IF told.item.action = "leave" THEN Map!Remove(map, told.client, told.item)
  ELSE Map!Put(map, {told.client}, [c \in {told.client} |-> told.item])

\* The own members once the items of a message have been set, one after the other.
OwnMembers(items) ==
  LET after[n \in 0..Len(items)] == IF n = 0 THEN mine ELSE SetPresence(after[n - 1], items[n])
  IN  after[Len(items)]

\* Whether a message tells of what call i entered.
Shows(m, i) ==
  \E k \in DOMAIN m.items : m.items[k].item.data = i /\ m.items[k].item.action # "leave"

ReceivePresence ==
  /\ Head(inbox).type = "presence"
  /\ mine' = OwnMembers(Head(inbox).items)
  /\ calls' = [i \in DOMAIN calls |-> [calls[i] EXCEPT !.shown = @ \/ Shows(Head(inbox), i)]]
  /\ UNCHANGED <<channel, pending, tasks, sending>>

\* The future of the message is completed, and with it those of the calls it carries. Where it
\* carries a member entered again, an update says that the client is gone.
ReceiveAnswer ==
  /\ Head(inbox).type \in {"ack", "nack"}
  /\ LET entries == Head(unacked).entries
         again   == {entries[i].client : i \in {j \in DOMAIN entries : entries[j].call = 0}}
     IN  IF Head(inbox).type = "ack" THEN Settle(CallsOf(entries), "done")
         ELSE calls' = [i \in DOMAIN calls |->
                [calls[i] EXCEPT !.at = IF i \in CallsOf(entries) THEN "failed"
                                        ELSE IF calls[i].client \in again /\ @ = "done" THEN "gone" ELSE @]]
  /\ unacked' = Tail(unacked)
  /\ UNCHANGED <<channel, mine, pending, tasks, msgSerial, outbox>>

Receive ==
  /\ connection = "connected" /\ inbox # <<>>
  /\ ReceiveAttached \/ ReceiveDetached \/ ReceiveError \/ ReceivePresence \/ ReceiveAnswer
  /\ inbox' = Tail(inbox)
  /\ UNCHANGED <<link, server, count>>

-----------------------------------------------------------------------------
\* The connection and the application.

\* The connection is lost, and the service forgets it unless it is resumed.
Lose(kind) ==
  /\ connection = "connected"
  /\ Disrupt(kind)
  /\ connection' = "down" /\ resumable' = (kind = "resumed")
  /\ IF kind = "resumed" THEN UNCHANGED <<outbox, service>>
     ELSE outbox' = <<>> /\ inbox' = <<>> /\ server' = NoMembers("new")
  /\ UNCHANGED <<conn, channel, mine, pending, tasks, calls, msgSerial, unacked>>

\* on_connected: what is not acknowledged is sent again, then the channels attach.
Connect ==
  LET resent == IF resumable THEN outbox ELSE unacked
      asked  == IF channel \in {"attaching", "attached"} THEN <<[type |-> "attach"]>>
                ELSE IF channel = "detaching" THEN <<[type |-> "detach"]>> ELSE <<>>
  IN  /\ connection \in {"opening", "down"}
      /\ connection' = "connected" /\ resumable' = TRUE
      /\ conn' = IF resumable THEN conn ELSE conn + 1
      /\ msgSerial' = IF connection = "down" /\ ~resumable THEN 0 ELSE msgSerial
      /\ outbox' = resent \o asked
      /\ channel' = IF channel = "attached" THEN "attaching" ELSE channel
      /\ tasks' = IF channel = "suspended" THEN Append(tasks, [type |-> "attach"]) ELSE tasks
      /\ UNCHANGED <<mine, pending, calls, unacked, service, count>>

\* The connection is suspended, or closed: messages fail, then the channels are told.
GiveUp(state) ==
  LET settled == UNION {CallsOf(unacked[i].entries) : i \in DOMAIN unacked}
  IN  /\ connection \in {"opening", "down"} \/ (state = "closed" /\ connection = "connected")
      /\ "hasty" \in Disruptions \/ \A i \in DOMAIN tasks : tasks[i].type # "attach"
      /\ Disrupt(state)
      /\ connection' = state /\ resumable' = FALSE
      /\ unacked' = <<>> /\ outbox' = <<>> /\ inbox' = <<>> /\ server' = NoMembers("new")
      /\ IF channel \in {"attaching", "attached", "detaching", "suspended"}
         THEN /\ channel' = IF state = "closed" THEN "detached" ELSE "suspended"
              /\ pending' = <<>>
              /\ mine' = IF state = "closed" THEN Map!EmptyMap ELSE mine
              /\ calls' = [i \in DOMAIN calls |->
                   [calls[i] EXCEPT !.at = IF i \in settled \union CallsOf(pending) THEN "failed"
                                           ELSE IF state = "closed" /\ @ = "done" THEN "gone" ELSE @,
                                    !.shown = @ /\ state # "closed"]]
         ELSE Settle(settled, "failed") /\ UNCHANGED <<channel, pending, mine>>
      /\ msgSerial' = 0
      /\ UNCHANGED <<conn, tasks>>

\* The retry timer of a SUSPENDED connection, or a call of connect().
ConnectAgain ==
  /\ connection \in {"suspended", "closed"}
  /\ connection' = "opening"
  /\ UNCHANGED <<resumable, conn, channel, mine, pending, tasks, calls, sending, service, count>>

Attach ==
  /\ Takes /\ MayAct
  /\ channel \in {"initialized", "detached", "failed", "suspended", "detaching"}
  /\ RequestAttach
  /\ UNCHANGED <<link, mine, pending, tasks, calls, msgSerial, unacked, service, count>>

\* A channel that is SUSPENDED, or has no connection to tell, detaches at once.
Detach ==
  /\ channel \in {"attaching", "attached", "suspended", "detaching"} /\ MayAct
  /\ Disrupt("detach")
  /\ IF channel = "suspended" \/ connection # "connected"
     THEN channel' = "detached" /\ ActOnDetached /\ UNCHANGED outbox
     ELSE channel' = "detaching" /\ outbox' = Append(outbox, [type |-> "detach"])
          /\ UNCHANGED <<mine, pending, calls>>
  /\ UNCHANGED <<link, tasks, msgSerial, unacked, service>>

\* The state timer.
TimeOut ==
  /\ channel \in {"attaching", "detaching"} /\ connection = "connected"
  /\ Disrupt("timeout")
  /\ IF channel = "attaching"
     THEN channel' = "suspended" /\ ActOnSuspended /\ UNCHANGED tasks
     ELSE channel' = "attached" /\ OnAttached /\ UNCHANGED <<mine, pending, calls>>
  /\ UNCHANGED <<link, sending, service>>

\* The retry timer of the channel.
RetryAttach ==
  /\ channel = "suspended" /\ connection = "connected"
  /\ RequestAttach
  /\ UNCHANGED <<link, mine, pending, tasks, calls, msgSerial, unacked, service, count>>

Next ==
  \/ \E c \in Clients : Enter(c) \/ Leave(c)
  \/ RunTask \/ ServerHandles \/ Receive
  \/ \E type \in {"detached", "failed"} : ServerEnds(type)
  \/ \E kind \in {"resumed", "lost"} : Lose(kind)
  \/ \E state \in {"suspended", "closed"} : GiveUp(state)
  \/ Connect \/ ConnectAgain \/ Attach \/ Detach \/ TimeOut \/ RetryAttach

Spec == Init /\ [][Next]_vars

\* Tasks run, the service and the client handle what arrives, and the connection comes back.
Fairness == WF_vars(RunTask) /\ WF_vars(ServerHandles) /\ WF_vars(Receive) /\ WF_vars(Connect)

FairSpec == Spec /\ Fairness

-----------------------------------------------------------------------------
Ats == {"queued", "sent", "done", "failed", "gone"}

\* A call is queued exactly as long as its entry is pending, and sent as long as a message that
\* carries it is not answered.
TypeOK ==
  /\ connection \in {"connected", "opening", "down", "suspended", "closed"}
  /\ channel \in {"initialized", "attaching", "attached", "detaching", "detached", "suspended", "failed"}
  /\ \A i \in DOMAIN calls :
        /\ calls[i].at \in Ats
        /\ calls[i].at = "queued" <=> i \in CallsOf(pending)
        /\ calls[i].at = "sent" <=> \E m \in DOMAIN unacked : i \in CallsOf(unacked[m].entries)

\* The channel is attached, and nothing is on its way anywhere.
Quiet ==
  /\ connection = "connected" /\ channel = "attached" /\ server.state = "attached"
  /\ tasks = <<>> /\ pending = <<>> /\ unacked = <<>> /\ outbox = <<>> /\ inbox = <<>>

IsLast(i) == \A j \in DOMAIN calls : calls[j].client = calls[i].client => j <= i

\* Whoever was entered and told to be, and has not left since, is a member of the channel
\* whenever it is attached and quiet, whatever connections and attachments came and went.
StaysEntered ==
  Quiet => \A i \in DOMAIN calls :
     (IsLast(i) /\ calls[i].at = "done" /\ calls[i].action = "enter" /\ calls[i].shown)
        => server.members[calls[i].client] # None

\* On the first connection, whatever one disruption there was, the service shows of each client
\* what its last call says. (With two, a detach that times out while calls are on their way, a
\* member is entered again as it was before them.)
OwnMembersAreCurrent ==
  (Quiet /\ conn = 1 /\ count <= 1) => \A i \in DOMAIN calls :
     (IsLast(i) /\ calls[i].at = "done")
        => LET member == server.members[calls[i].client]
           IN  IF calls[i].action = "leave" THEN member = None ELSE member # None /\ member.data = i

\* Every operation is answered or fails.
EveryCallAnswered ==
  \A i \in 1..MaxCalls : (i \in DOMAIN calls /\ calls[i].at \in {"queued", "sent"})
                           ~> (i \in DOMAIN calls /\ calls[i].at \in {"done", "failed", "gone"})

=============================================================================
