-------------------------- MODULE OwnPresence_proofs --------------------------
(***************************************************************************)
(* Proofs about the members a client enters itself, for any set of clients *)
(* and any number of calls and disruptions.                                *)
(***************************************************************************)
EXTENDS OwnPresence, Integers, SequenceTheorems, FiniteSetTheorems, WellFoundedInduction, TLAPS

-----------------------------------------------------------------------------
(* Induction over numbers, as a fact about sets: what the folds compute.   *)

\* What holds of 0, and with a number of the next one, holds of all.
LEMMA Induction ==
  ASSUME NEW T \in SUBSET Nat, 0 \in T, \A n \in T : n + 1 \in T
  PROVE  T = Nat
<1> SUFFICES ASSUME T # Nat PROVE FALSE
  OBVIOUS
<1>1. PICK x \in Nat \ T : \A y \in Nat \ T : <<y, x>> \notin OpToRel(<, Nat)
  <2> DEFINE R == OpToRel(<, Nat)
             B == Nat \ T
  <2>1. IsWellFoundedOn(R, Nat)
    BY NatLessThanWellFounded
  <2>2. B \subseteq Nat /\ B # {}
    OBVIOUS
  <2> HIDE DEF R, B
  <2>3. \E x \in B : \A y \in B : ~ (<<y, x>> \in R)
    BY <2>1, <2>2, WFMin, Zenon
  <2> QED
    BY <2>3 DEF R, B
<1>2. x # 0 /\ x - 1 \in Nat
  OBVIOUS
<1>3. <<x - 1, x>> \in OpToRel(<, Nat)
  BY <1>2 DEF OpToRel
<1>4. x - 1 \notin Nat \ T
  BY <1>1, <1>3, Zenon
<1> HIDE <1>3
<1>5. x - 1 \in T /\ x \in Nat /\ x \notin T
  BY <1>2, <1>4
<1>6. x = (x - 1) + 1
  BY <1>5
<1> QED
  BY <1>5, <1>6

\* f goes on from base, step by step, up to N.
Iterates(f, N, base, step) == f[0] = base /\ \A n \in 1..N : f[n] = step[<<f[n - 1], n>>]

\* There is such a function.
LEMMA Recursion ==
  ASSUME NEW S, NEW N \in Nat, NEW base \in S, NEW step \in [S \X (1..N) -> S]
  PROVE  \E f \in [0..N -> S] : Iterates(f, N, base, step)
<1> DEFINE Good(k, f) == f[0] = base /\ \A n \in 1..k : f[n] = step[<<f[n - 1], n>>]
           T == {k \in Nat : k <= N => \E f \in [0..k -> S] : Good(k, f)}
<1>1. 0 \in T
  <2>1. [n \in 0..0 |-> base] \in [0..0 -> S] /\ Good(0, [n \in 0..0 |-> base])
    OBVIOUS
  <2> QED
    BY <2>1
<1>2. ASSUME NEW k \in T PROVE k + 1 \in T
  <2> SUFFICES ASSUME k + 1 <= N PROVE \E g \in [0..(k + 1) -> S] : Good(k + 1, g)
    OBVIOUS
  <2>1. PICK f \in [0..k -> S] : Good(k, f)
    OBVIOUS
  <2> DEFINE g == [n \in 0..(k + 1) |-> IF n = k + 1 THEN step[<<f[k], k + 1>>] ELSE f[n]]
  <2>2. g \in [0..(k + 1) -> S]
    OBVIOUS
  <2>3. g[0] = base
    BY <2>1
  <2>4. \A n \in 1..(k + 1) : g[n] = step[<<g[n - 1], n>>]
    <3> TAKE n \in 1..(k + 1)
    <3>1. CASE n = k + 1
      <4>1. k + 1 # 0 /\ (k + 1) - 1 = k /\ k \in 0..(k + 1) /\ k # k + 1
        OBVIOUS
      <4>2. g[k + 1] = step[<<f[k], k + 1>>] /\ g[k] = f[k]
        BY <4>1
      <4> QED
        BY <3>1, <4>1, <4>2
    <3>2. CASE n # k + 1
      <4>1. n \in 1..k /\ g[n] = f[n] /\ n - 1 \in 0..k /\ g[n - 1] = f[n - 1]
        BY <3>2
      <4> QED
        BY <2>1, <4>1
    <3> QED
      BY <3>1, <3>2
  <2> QED
    BY <2>2, <2>3, <2>4
<1>3. T = Nat
  <2> HIDE DEF T
  <2> QED
    BY <1>1, <1>2, Induction, T \subseteq Nat, Zenon DEF T
<1>4. N \in T
  BY <1>3
<1> QED
  BY <1>4 DEF Iterates

-----------------------------------------------------------------------------
\* What an operation asks for; the number of its call is 0 where a member is entered again.
Entries == [call : Nat, client : Clients, action : {"enter", "leave"}, data : Nat,
            id : Nat \union {None}]

\* What is sent, what is on its way, what waits to run, and what was called.
Messages == [type : {"presence"}, serial : Nat, entries : Seq(Entries)]
Requests == Messages \union [type : {"attach", "detach"}]
Tasks == [type : {"attach", "pending"}] \union [type : {"reenter"}, entry : Entries]
Calls == [client : Clients, action : {"enter", "leave"}, shown : BOOLEAN, at : Ats]

\* What the service tells, and the members as it and the client keep them.
ToldItems == [client : Clients, item : Item]
Arrivals == [type : {"presence"}, items : Seq(ToldItems)]
              \union [type : {"attached", "detached", "failed", "ack", "nack"}]
MemberMaps == [Clients -> Item \union {None}]
OwnMaps == [items : MemberMaps, residual : SUBSET Clients, syncing : {FALSE}]

\* The types of the variables.
Typed ==
  /\ connection \in {"connected", "opening", "down", "suspended", "closed"}
  /\ resumable \in BOOLEAN /\ conn \in Nat /\ msgSerial \in Nat /\ count \in Nat
  /\ channel \in {"initialized", "attaching", "attached", "detaching", "detached", "suspended",
                 "failed"}
  /\ mine \in OwnMaps
  /\ pending \in Seq(Entries) /\ tasks \in Seq(Tasks) /\ calls \in Seq(Calls)
  /\ unacked \in Seq(Messages) /\ outbox \in Seq(Requests) /\ inbox \in Seq(Arrivals)
  /\ server \in [state : {"new", "attached", "detached"}, members : MemberMaps]

\* A connection that cannot be resumed has nothing on its way, and no members.
Linked ==
  /\ connection = "connected" => resumable
  /\ ~resumable => outbox = <<>> /\ inbox = <<>> /\ server = NoMembers("new")

\* Call d entered client c, and is on its way or further.
Entered(c, d) ==
  /\ d \in DOMAIN calls /\ calls[d].client = c /\ calls[d].action = "enter"
  /\ calls[d].at # "queued"

\* An entry carries its call, or a member that such a call entered.
KnownEntry(e) ==
  IF e.call = 0
  THEN e.action = "enter" /\ Entered(e.client, e.data)
  ELSE /\ e.data = e.call /\ e.call \in DOMAIN calls
       /\ calls[e.call].client = e.client /\ calls[e.call].action = e.action

\* A member that is told of or kept comes from a call of its client that was sent.
KnownItem(c, item) ==
  /\ item.data \in DOMAIN calls /\ calls[item.data].client = c /\ calls[item.data].at # "queued"
  /\ item.action # "leave" => calls[item.data].action = "enter"

\* So it is wherever entries and members are.
KnownPending == \A q \in DOMAIN pending : KnownEntry(pending[q])
KnownTasks ==
  \A t \in DOMAIN tasks :
     tasks[t].type = "reenter" => KnownEntry(tasks[t].entry) /\ tasks[t].entry.call = 0
KnownUnacked ==
  \A n \in DOMAIN unacked : \A q \in DOMAIN unacked[n].entries : KnownEntry(unacked[n].entries[q])
KnownMine ==
  \A c \in Clients :
     mine.items[c] # None => mine.items[c].action = "present" /\ KnownItem(c, mine.items[c])
KnownServer ==
  \A c \in Clients :
     server.members[c] # None =>
        server.members[c].action = "enter" /\ KnownItem(c, server.members[c])
KnownInbox ==
  \A p \in DOMAIN inbox : inbox[p].type = "presence" =>
     \A q \in DOMAIN inbox[p].items : KnownItem(inbox[p].items[q].client, inbox[p].items[q].item)
KnownShown == \A i \in DOMAIN calls : calls[i].shown => Entered(calls[i].client, i)

Known ==
  /\ KnownPending /\ KnownTasks /\ KnownUnacked
  /\ KnownMine /\ KnownServer /\ KnownInbox /\ KnownShown

\* The futures: which calls wait for the channel, and which for an answer.
Accounted ==
  \A i \in DOMAIN calls :
     /\ calls[i].at = "queued" <=> i \in CallsOf(pending)
     /\ calls[i].at = "sent" <=> \E m \in DOMAIN unacked : i \in CallsOf(unacked[m].entries)

\* What waits for the channel was called last, ...
QueueIsLast ==
  \A i, j \in DOMAIN calls : i <= j /\ calls[i].at = "queued" => calls[j].at = "queued"

\* ... and an attached channel is about to send it.
QueueIsFlushed ==
  channel = "attached" /\ pending # <<>> => \E t \in DOMAIN tasks : tasks[t].type = "pending"

\* f is of a later call than what e tells of the same client.
Follows(e, f) == f.call # 0 /\ f.client = e.client => e.data < f.call

\* Entries wait, and are sent, in the order of their calls, ...
PendingInOrder == \A q, r \in DOMAIN pending : q < r => Follows(pending[q], pending[r])

SentInOrder ==
  \A n, m \in DOMAIN unacked :
     \A q \in DOMAIN unacked[n].entries, r \in DOMAIN unacked[m].entries :
        n < m \/ (n = m /\ q < r) => Follows(unacked[n].entries[q], unacked[m].entries[r])

\* ... and answered so.
AnsweredInOrder ==
  \A i, j \in DOMAIN calls :
     i < j /\ calls[i].client = calls[j].client /\ calls[i].at = "sent"
        => calls[j].at \notin {"done", "gone"}

\* What answers a message, and what tells that the service dropped the channel.
Answers == {"ack", "nack"}
Drops == {"detached", "failed"}

\* pos is where each unanswered message is: its answer among what arrives, or itself among what
\* is on its way to the service, in the order they were sent.
Matches(pos) ==
  /\ pos \in [DOMAIN unacked -> 1..(Len(inbox) + Len(outbox))]
  /\ \A n, m \in DOMAIN unacked : n < m => pos[n] < pos[m]
  /\ \A p \in DOMAIN inbox : inbox[p].type \in Answers => \E n \in DOMAIN unacked : pos[n] = p
  /\ \A p \in DOMAIN outbox :
        outbox[p].type = "presence" => \E n \in DOMAIN unacked : pos[n] = Len(inbox) + p
  /\ \A n \in DOMAIN unacked : IF pos[n] <= Len(inbox) THEN inbox[pos[n]].type \in Answers
                               ELSE outbox[pos[n] - Len(inbox)] = unacked[n]

\* Behind place p the client is told that the channel was dropped.
DroppedAfter(p) == \E r \in DOMAIN inbox : r > p /\ inbox[r].type \in Drops

\* The entry q of the message n makes c a member, and no later one unmakes it.
MakesMember(n, q, c) ==
  /\ unacked[n].entries[q].client = c /\ unacked[n].entries[q].action = "enter"
  /\ \A m \in DOMAIN unacked : \A r \in DOMAIN unacked[m].entries :
        n < m \/ (n = m /\ q < r) =>
           unacked[m].entries[r].client # c \/ unacked[m].entries[r].action # "leave"

\* Who is a member by an acknowledged message is one, unless the channel was dropped since.
Taken(pos) ==
  \A n \in DOMAIN unacked : \A q \in DOMAIN unacked[n].entries, c \in Clients :
     (MakesMember(n, q, c) /\ pos[n] <= Len(inbox) /\ inbox[pos[n]].type = "ack")
        => server.members[c] # None \/ DroppedAfter(pos[n])

\* The service holds, or has told of, what call d said of client c.
Tells(c, d) ==
  \/ server.members[c] # None /\ server.members[c].data = d
  \/ \E p \in DOMAIN inbox : inbox[p].type = "presence" /\
       \E q \in DOMAIN inbox[p].items :
          inbox[p].items[q].client = c /\ inbox[p].items[q].item.data = d

\* There are such places while the connection may be resumed.
Answered ==
  resumable =>
     \E pos \in [DOMAIN unacked -> 1..(Len(inbox) + Len(outbox))] : Matches(pos) /\ Taken(pos)

\* What is told of a client is of an earlier call than what is on its way to the service.
ToldIsPast ==
  \A c \in Clients, d \in DOMAIN calls : Tells(c, d) =>
     \A p \in DOMAIN outbox : outbox[p].type = "presence" =>
        \A q \in DOMAIN outbox[p].entries :
           outbox[p].entries[q].client = c /\ outbox[p].entries[q].call # 0
              => d < outbox[p].entries[q].call

\* What is told of a client before a leave of it is of an earlier call.
ToldInOrder ==
  \A p, r \in DOMAIN inbox : inbox[p].type = "presence" /\ inbox[r].type = "presence" =>
     \A q \in DOMAIN inbox[p].items, s \in DOMAIN inbox[r].items :
        /\ p < r \/ (p = r /\ q < s)
        /\ inbox[p].items[q].client = inbox[r].items[s].client
        /\ inbox[r].items[s].item.action = "leave"
        => inbox[p].items[q].item.data < inbox[r].items[s].item.data

\* No leave on its way to the client undoes what was shown since, ...
NoLeaveTold ==
  \A i \in DOMAIN calls : calls[i].shown =>
     \A p \in DOMAIN inbox : inbox[p].type = "presence" =>
       \A q \in DOMAIN inbox[p].items :
          inbox[p].items[q].client = calls[i].client /\ inbox[p].items[q].item.action = "leave"
            => i < inbox[p].items[q].item.data

\* ... nor does one on its way to the service, unless it will not be told.
NoLeaveToTell ==
  \A i \in DOMAIN calls : calls[i].shown =>
     \A p \in DOMAIN outbox : outbox[p].type = "presence" =>
       \A q \in DOMAIN outbox[p].entries :
          outbox[p].entries[q].client = calls[i].client /\ outbox[p].entries[q].action = "leave"
            => \/ i < outbox[p].entries[q].call
               \/ server.state # "attached" /\ \A r \in 1..(p - 1) : outbox[r].type # "attach"

\* Whoever was shown, and not called since, is an own member, ...
ShownIsOwn ==
  \A i \in DOMAIN calls : calls[i].shown /\ IsLast(i) => mine.items[calls[i].client] # None

\* ... and whoever is told of so is a member, unless the channel was dropped since.
ToldIsThere ==
  \A i \in DOMAIN calls : IsLast(i) =>
    \A p \in DOMAIN inbox : inbox[p].type = "presence" =>
       \A q \in DOMAIN inbox[p].items :
          inbox[p].items[q].item.data = i /\ inbox[p].items[q].item.action # "leave"
             => server.members[calls[i].client] # None \/ DroppedAfter(p)

\* c is to be entered again, is on its way, is a member, or the channel was dropped.
Reentered(c) ==
  \/ \E t \in DOMAIN tasks : tasks[t].type = "reenter" /\ tasks[t].entry.client = c
  \/ \E n \in DOMAIN unacked : \E q \in DOMAIN unacked[n].entries :
        unacked[n].entries[q].call = 0 /\ unacked[n].entries[q].client = c
  \/ server.members[c] # None
  \/ DroppedAfter(0)

\* So it is of whoever was entered and shown while the channel is attached.
Kept ==
  channel = "attached" /\ connection = "connected" =>
     \A i \in DOMAIN calls :
        IsLast(i) /\ calls[i].shown /\ calls[i].at = "done" => Reentered(calls[i].client)

\* The invariant.
Inv ==
  /\ Typed /\ Linked /\ Known /\ Accounted /\ QueueIsLast /\ QueueIsFlushed
  /\ PendingInOrder /\ SentInOrder /\ AnsweredInOrder /\ Answered
  /\ ToldIsPast /\ ToldInOrder /\ NoLeaveTold /\ NoLeaveToTell /\ ShownIsOwn /\ ToldIsThere /\ Kept

-----------------------------------------------------------------------------
(* What a message makes of the members.                                    *)

\* No member is the absence of one.
LEMMA NoneIsNoItem == None \notin Item
BY NoneAssumption

\* What the service makes of an entry is a member, with the data and the action of the entry.
LEMMA ItemOfType ==
  ASSUME conn \in Nat, NEW e \in Entries, NEW serial \in Nat, NEW index \in Nat
  PROVE  /\ ItemOf(e, serial, index) \in Item
         /\ ItemOf(e, serial, index).data = e.data
         /\ ItemOf(e, serial, index).action = e.action
<1>1. Cardinality(Clients) \in Nat /\ MaxCalls \in Nat
  BY ClientsAssumption, FS_CardinalityType
<1>2. Width \in Nat
  BY <1>1 DEF Width
<1>3. serial * Width \in Nat
  BY <1>2
<1>4. Position(serial, index) \in Nat
  BY <1>3 DEF Position
<1> QED
  BY <1>4 DEF ItemOf, Item, Entries

\* The entries of a message are taken one after the other.
LEMMA MembersFold ==
  ASSUME conn \in Nat, server.members \in MemberMaps, NEW m \in Messages
  PROVE  \E after \in [0..Len(m.entries) -> MemberMaps] :
            /\ after[0] = server.members
            /\ \A n \in 1..Len(m.entries) : after[n] = Take(after[n - 1], m.entries[n], m.serial, n)
            /\ Members(m) = after[Len(m.entries)]
<1> DEFINE N == Len(m.entries)
           step == [x \in MemberMaps \X (1..N) |-> Take(x[1], m.entries[x[2]], m.serial, x[2])]
           Fold(f) == f = [n \in 0..N |-> IF n = 0 THEN server.members
                                          ELSE Take(f[n - 1], m.entries[n], m.serial, n)]
<1>1. N \in Nat /\ m.serial \in Nat /\ \A n \in 1..N : m.entries[n] \in Entries
  BY DEF Messages
<1>2. ASSUME NEW x \in MemberMaps, NEW n \in 1..N
      PROVE  Take(x, m.entries[n], m.serial, n) \in MemberMaps
  <2>1. n \in Nat /\ m.entries[n] \in Entries
    BY <1>1
  <2>2. ItemOf(m.entries[n], m.serial, n) \in Item
    BY <1>1, <2>1, ItemOfType
  <2> QED
    BY <2>1, <2>2 DEF Take, MemberMaps, Entries
<1>3. step \in [MemberMaps \X (1..N) -> MemberMaps]
  BY <1>2
<1>4. \A x \in MemberMaps, n \in 1..N : step[<<x, n>>] = Take(x, m.entries[n], m.serial, n)
  OBVIOUS
<1> HIDE DEF step
<1>5. PICK f \in [0..N -> MemberMaps] :
         f[0] = server.members /\ \A n \in 1..N : f[n] = step[<<f[n - 1], n>>]
  <2>1. PICK base \in MemberMaps, k \in Nat, st \in [MemberMaps \X (1..N) -> MemberMaps] :
          base = server.members /\ k = N /\ st = step
    BY <1>1, <1>3
  <2>2. st \in [MemberMaps \X (1..k) -> MemberMaps]
    BY <1>3, <2>1
  <2>3. \E f \in [0..k -> MemberMaps] : Iterates(f, k, base, st)
    BY <2>2, Recursion, Zenon
  <2> QED
    BY <2>1, <2>3 DEF Iterates
<1>6. \A n \in 1..N : n - 1 \in 0..N /\ f[n - 1] \in MemberMaps /\ n # 0
  BY <1>1
<1>7. Fold(f)
  <2>1. \A n \in 0..N : f[n] = IF n = 0 THEN server.members
                               ELSE Take(f[n - 1], m.entries[n], m.serial, n)
    <3> TAKE n \in 0..N
    <3>1. CASE n = 0
      BY <1>5, <3>1
    <3>2. CASE n # 0
      <4>1. n \in 1..N
        BY <1>1, <3>2
      <4>2. f[n] = step[<<f[n - 1], n>>]
        BY <1>5, <3>2
      <4> QED
        BY <1>4, <1>6, <3>2, <4>1, <4>2
    <3> QED
      BY <3>1, <3>2
  <2> QED
    BY <1>5, <2>1
<1>8. \E g : Fold(g) /\ Members(m) = g[N]
  BY <1>7 DEF Members
<1>9. PICK g : Fold(g) /\ Members(m) = g[N]
  BY <1>8
<1>10. /\ \A n \in 0..N : g[n] = IF n = 0 THEN server.members
                                 ELSE Take(g[n - 1], m.entries[n], m.serial, n)
       /\ g = [n \in 0..N |-> g[n]]
  BY <1>9
<1>13. g[0] = server.members /\ \A n \in 1..N : g[n] = Take(g[n - 1], m.entries[n], m.serial, n)
  <2>1. 0 \in 0..N /\ \A n \in 1..N : n \in 0..N /\ n # 0
    BY <1>1
  <2> QED
    BY <1>10, <2>1, Zenon
<1> DEFINE T == {k \in Nat : k <= N => g[k] \in MemberMaps}
<1>11. T = Nat
  <2>1. 0 \in T
    BY <1>1, <1>10, SMTT(60)
  <2>2. ASSUME NEW k \in T PROVE k + 1 \in T
    <3> SUFFICES ASSUME k + 1 <= N PROVE g[k + 1] \in MemberMaps
      OBVIOUS
    <3>1. k \in Nat /\ k + 1 \in 1..N /\ k + 1 # 0 /\ (k + 1) - 1 = k /\ g[k] \in MemberMaps
      BY <1>1
    <3>2. g[k + 1] = Take(g[(k + 1) - 1], m.entries[k + 1], m.serial, k + 1)
      BY <1>13, <3>1, Zenon
    <3> QED
      BY <1>2, <3>1, <3>2
  <2>3. T \in SUBSET Nat
    OBVIOUS
  <2> HIDE DEF T
  <2> QED
    BY <2>1, <2>2, <2>3, Induction, Zenon
<1>12. g \in [0..N -> MemberMaps]
  BY <1>1, <1>10, <1>11
<1> HIDE DEF Fold
<1> QED
  BY <1>9, <1>12, <1>13

\* Whoever a message enters, and does not let leave afterwards, is a member; whoever was one and
\* does not leave stays one; and what the service tells of a member is told by an entry.
LEMMA MembersOf ==
  ASSUME conn \in Nat, server.members \in MemberMaps, NEW m \in Messages, NEW c \in Clients
  PROVE  /\ Members(m) \in MemberMaps
         /\ (/\ server.members[c] # None
             /\ \A r \in DOMAIN m.entries : m.entries[r].client # c
                \/ m.entries[r].action # "leave")
              => Members(m)[c] # None
         /\ \A q \in DOMAIN m.entries :
              (/\ m.entries[q].client = c /\ m.entries[q].action = "enter"
               /\ \A r \in DOMAIN m.entries :
                     q < r => m.entries[r].client # c \/ m.entries[r].action # "leave")
                => Members(m)[c] # None
         /\ Members(m)[c] # None =>
              \/ Members(m)[c] = server.members[c]
              \/ \E q \in DOMAIN m.entries :
                   /\ m.entries[q].client = c /\ m.entries[q].action = "enter"
                   /\ Members(m)[c].data = m.entries[q].data
                   /\ Members(m)[c].action = "enter"
<1> DEFINE N == Len(m.entries)
           Left(r) == m.entries[r].client = c /\ m.entries[r].action = "leave"
           Comes(q) == m.entries[q].client = c /\ m.entries[q].action = "enter"
<1>1. PICK after \in [0..N -> MemberMaps] :
         /\ after[0] = server.members
         /\ \A n \in 1..N : after[n] = Take(after[n - 1], m.entries[n], m.serial, n)
         /\ Members(m) = after[N]
  BY MembersFold
<1>2. N \in Nat /\ m.serial \in Nat /\ DOMAIN m.entries = 1..N
      /\ \A n \in 1..N : m.entries[n] \in Entries /\ n \in Nat
  BY SMTT(60) DEF Messages
<1>3. ASSUME NEW n \in 1..N
      PROVE  /\ m.entries[n].client # c => after[n][c] = after[n - 1][c]
             /\ Comes(n) => after[n][c] # None
             /\ Comes(n) => \/ after[n][c] = after[n - 1][c]
                            \/ after[n][c].data = m.entries[n].data /\ after[n][c].action = "enter"
             /\ Left(n) => after[n][c] = None
  <2>1. n - 1 \in 0..N /\ after[n - 1] \in MemberMaps
    BY <1>2
  <2>2. PICK item \in Item : /\ item = ItemOf(m.entries[n], m.serial, n)
                             /\ item.data = m.entries[n].data /\ item.action = m.entries[n].action
    BY <1>2, ItemOfType, SMTT(60)
  <2>3. item # None
    BY NoneIsNoItem
  <2>4. after[n] = [after[n - 1] EXCEPT ![m.entries[n].client] =
                      IF m.entries[n].action = "leave" THEN None
                      ELSE IF m.entries[n].id # None /\ @ # None THEN @ ELSE item]
    BY <1>1, <2>2 DEF Take
  <2> QED
    BY <2>1, <2>2, <2>3, <2>4 DEF MemberMaps
<1>4. \A n \in 1..N : m.entries[n].client = c => Comes(n) \/ Left(n)
  BY <1>2 DEF Entries
<1>5. ASSUME NEW q \in 0..N, after[q][c] # None, \A r \in 1..N : q < r => ~Left(r)
      PROVE  after[N][c] # None
  <2> DEFINE T == {k \in Nat : q + k <= N => after[q + k][c] # None}
  <2>1. 0 \in T
    BY <1>5
  <2>2. ASSUME NEW k \in T PROVE k + 1 \in T
    <3> SUFFICES ASSUME q + (k + 1) <= N PROVE after[q + (k + 1)][c] # None
      OBVIOUS
    <3>1. PICK n \in 1..N : n = q + (k + 1) /\ n - 1 = q + k /\ q < n
      BY <1>2
    <3>2. after[n - 1][c] # None
      BY <3>1
    <3>3. after[n][c] # None
      BY <1>3, <1>4, <1>5, <3>1, <3>2
    <3> QED
      BY <3>1, <3>3
  <2>3. T \in SUBSET Nat
    OBVIOUS
  <2>4. T = Nat
    <3> HIDE DEF T
    <3> QED
      BY <2>1, <2>2, <2>3, Induction, Zenon
  <2>5. PICK k \in Nat : q + k = N
    <3>1. N - q \in Nat /\ q + (N - q) = N
      BY <1>2
    <3> QED
      BY <3>1
  <2>6. q + k <= N => after[q + k][c] # None
    BY <2>4
  <2> QED
    BY <1>2, <2>5, <2>6
<1>6. after[N][c] # None =>
        \/ after[N][c] = server.members[c]
        \/ \E q \in 1..N : Comes(q) /\ after[N][c].data = m.entries[q].data
           /\ after[N][c].action = "enter"
  <2> DEFINE Made(k) == after[k][c] # None =>
                \/ after[k][c] = server.members[c]
                \/ \E q \in 1..N : Comes(q) /\ after[k][c].data = m.entries[q].data
                                            /\ after[k][c].action = "enter"
             T == {k \in Nat : k <= N => Made(k)}
  <2>1. 0 \in T
    BY <1>1
  <2>2. ASSUME NEW k \in T PROVE k + 1 \in T
    <3> SUFFICES ASSUME k + 1 <= N PROVE Made(k + 1)
      OBVIOUS
    <3>1. PICK n \in 1..N : n = k + 1 /\ n - 1 = k
      BY <1>2
    <3>2. Made(n - 1)
      BY <3>1
    <3>3. Made(n)
      BY <1>3, <1>4, <3>1, <3>2
    <3> QED
      BY <3>1, <3>3
  <2>3. T \in SUBSET Nat
    OBVIOUS
  <2>4. T = Nat
    <3> HIDE DEF T
    <3> QED
      BY <2>1, <2>2, <2>3, Induction, Zenon
  <2> QED
    BY <1>2, <2>4
<1>7. N \in 0..N /\ 0 \in 0..N /\ Members(m) \in MemberMaps
  BY <1>1, <1>2
<1>8. (server.members[c] # None /\ \A r \in 1..N : ~Left(r)) => Members(m)[c] # None
  BY <1>1, <1>5, <1>7
<1>9. ASSUME NEW q \in 1..N, Comes(q), \A r \in 1..N : q < r => ~Left(r)
      PROVE  Members(m)[c] # None
  <2>1. q \in 0..N /\ after[q][c] # None
    BY <1>3, <1>9
  <2> QED
    BY <1>1, <1>5, <1>9, <2>1
<1> QED
  BY <1>1, <1>2, <1>6, <1>7, <1>8, <1>9

\* One item is set or removed; no other member is touched.
LEMMA SetPresenceOf ==
  ASSUME NEW map \in OwnMaps, NEW told \in ToldItems, NEW c \in Clients
  PROVE  /\ SetPresence(map, told) \in OwnMaps
         /\ told.client # c => SetPresence(map, told).items[c] = map.items[c]
         /\ told.item.action # "leave" /\ told.client = c =>
              /\ SetPresence(map, told).items[c] # None
              /\ \/ SetPresence(map, told).items[c] = map.items[c]
                 \/ /\ SetPresence(map, told).items[c].data = told.item.data
                    /\ SetPresence(map, told).items[c].action = "present"
         /\ told.item.action = "leave" => SetPresence(map, told).items[c] \in {None, map.items[c]}
<1> DEFINE new == SetPresence(map, told)
           k == told.client
           item == told.item
           kept == [item EXCEPT !.action = "present"]
<1>1. /\ k \in Clients /\ item \in Item
      /\ map.items \in MemberMaps /\ map.residual \subseteq Clients /\ map.syncing = FALSE
      /\ map = [items |-> map.items, residual |-> map.residual, syncing |-> FALSE]
  BY DEF ToldItems, OwnMaps
<1>2. kept \in Item /\ kept.data = item.data /\ kept.action = "present" /\ kept # None
  <2>1. kept \in Item /\ kept.data = item.data /\ kept.action = "present"
    BY <1>1 DEF Item
  <2> QED
    BY <2>1, NoneIsNoItem
<1>3. CASE item.action = "leave"
  <2>1. new = Map!Remove(map, k, item)
    BY <1>3 DEF SetPresence
  <2>2. new = map \/ new = [map EXCEPT !.items[k] = None]
    BY <2>1, <1>1 DEF Map!Remove
  <2>3. /\ new \in OwnMaps
        /\ k # c => new.items[c] = map.items[c]
        /\ new.items[c] \in {None, map.items[c]}
    BY <2>2, <1>1 DEF OwnMaps, MemberMaps
  <2> QED
    BY <1>3, <2>3
<1>4. CASE item.action # "leave"
  <2> DEFINE one == [j \in {k} |-> item]
  <2>1. new = Map!Put(map, {k}, one)
    BY <1>4 DEF SetPresence
  <2>2. one[k] = item
    OBVIOUS
  <2>3. PICK accepts : accepts = Map!PutAccepts(map, k, one[k])
    OBVIOUS
  <2>4. map.items[k] = None => accepts
    BY <2>3 DEF Map!PutAccepts
  <2>5. new.items = [j \in Clients |-> IF j \in {k} /\ Map!PutAccepts(map, j, one[j])
                                       THEN [one[j] EXCEPT !.action = "present"] ELSE map.items[j]]
        /\ new = [items |-> new.items, residual |-> map.residual \ {k}, syncing |-> map.syncing]
    BY <2>1 DEF Map!Put
  <2> HIDE DEF one
  <2>6. /\ new.items[k] = IF Map!PutAccepts(map, k, one[k])
                          THEN [one[k] EXCEPT !.action = "present"] ELSE map.items[k]
        /\ \A j \in Clients \ {k} : new.items[j] = map.items[j]
        /\ new.items = [j \in Clients |-> new.items[j]]
    BY <2>5, <1>1, Zenon
  <2>7. new.items[k] = kept \/ (new.items[k] = map.items[k] /\ map.items[k] # None)
    BY <2>2, <2>3, <2>4, <2>6
  <2>8. new.items \in MemberMaps
    BY <2>6, <2>7, <1>1, <1>2 DEF MemberMaps
  <2>9. new \in OwnMaps
    <3>1. PICK r \in SUBSET Clients, its \in MemberMaps :
             r = map.residual \ {k} /\ its = new.items
      BY <2>8, <1>1
    <3>2. new = [items |-> its, residual |-> r, syncing |-> FALSE]
      BY <3>1, <2>5, <1>1
    <3> QED
      BY <3>2 DEF OwnMaps
  <2>10. PICK n, i, o : n = new /\ i = item /\ o = map.items
    OBVIOUS
  <2>11. /\ n.items[k] # None
         /\ n.items[k] = o[k] \/ (n.items[k].data = i.data /\ n.items[k].action = "present")
         /\ c # k => n.items[c] = o[c]
    BY <1>2, <2>6, <2>7, <2>10
  <2> QED
    BY <1>4, <2>9, <2>10, <2>11
<1> HIDE DEF new
<1> QED
  BY <1>3, <1>4 DEF new

\* The items of a message are set one after the other.
LEMMA OwnMembersFold ==
  ASSUME mine \in OwnMaps, NEW items \in Seq(ToldItems)
  PROVE  \E after \in [0..Len(items) -> OwnMaps] :
            /\ after[0] = mine
            /\ \A n \in 1..Len(items) : after[n] = SetPresence(after[n - 1], items[n])
            /\ OwnMembers(items) = after[Len(items)]
<1> DEFINE N == Len(items)
           step == [x \in OwnMaps \X (1..N) |-> SetPresence(x[1], items[x[2]])]
           Fold(f) == f = [n \in 0..N |-> IF n = 0 THEN mine ELSE SetPresence(f[n - 1], items[n])]
<1>1. N \in Nat /\ \A n \in 1..N : items[n] \in ToldItems
  OBVIOUS
<1>2. ASSUME NEW x \in OwnMaps, NEW n \in 1..N
      PROVE  SetPresence(x, items[n]) \in OwnMaps
  <2>1. items[n].client \in Clients
    BY <1>1 DEF ToldItems
  <2> QED
    BY <1>1, <2>1, SetPresenceOf
<1>3. step \in [OwnMaps \X (1..N) -> OwnMaps]
  BY <1>2
<1>4. \A x \in OwnMaps, n \in 1..N : step[<<x, n>>] = SetPresence(x, items[n])
  OBVIOUS
<1> HIDE DEF step
<1>5. PICK f \in [0..N -> OwnMaps] :
         f[0] = mine /\ \A n \in 1..N : f[n] = step[<<f[n - 1], n>>]
  <2>1. PICK base \in OwnMaps, k \in Nat, st \in [OwnMaps \X (1..N) -> OwnMaps] :
          base = mine /\ k = N /\ st = step
    BY <1>1, <1>3
  <2>2. st \in [OwnMaps \X (1..k) -> OwnMaps]
    BY <1>3, <2>1
  <2>3. \E f \in [0..k -> OwnMaps] : Iterates(f, k, base, st)
    BY <2>2, Recursion, Zenon
  <2> QED
    BY <2>1, <2>3 DEF Iterates
<1>6. \A n \in 1..N : n - 1 \in 0..N /\ f[n - 1] \in OwnMaps /\ n # 0
  BY <1>1
<1>7. Fold(f)
  <2>1. \A n \in 0..N : f[n] = IF n = 0 THEN mine ELSE SetPresence(f[n - 1], items[n])
    <3> TAKE n \in 0..N
    <3>1. CASE n = 0
      BY <1>5, <3>1
    <3>2. CASE n # 0
      <4>1. n \in 1..N
        BY <1>1, <3>2
      <4>2. f[n] = step[<<f[n - 1], n>>]
        BY <1>5, <4>1
      <4> QED
        BY <1>4, <1>6, <3>2, <4>1, <4>2
    <3> QED
      BY <3>1, <3>2
  <2> QED
    BY <1>5, <2>1
<1>8. PICK g : Fold(g) /\ OwnMembers(items) = g[N]
  BY <1>7 DEF OwnMembers
<1>9. /\ \A n \in 0..N : g[n] = IF n = 0 THEN mine ELSE SetPresence(g[n - 1], items[n])
      /\ g = [n \in 0..N |-> g[n]]
  BY <1>8
<1>10. g[0] = mine /\ \A n \in 1..N : g[n] = SetPresence(g[n - 1], items[n])
  <2>1. 0 \in 0..N /\ \A n \in 1..N : n \in 0..N /\ n # 0
    BY <1>1
  <2> QED
    BY <1>9, <2>1, Zenon
<1> DEFINE T == {k \in Nat : k <= N => g[k] \in OwnMaps}
<1>11. T = Nat
  <2>1. 0 \in T
    BY <1>1, <1>10
  <2>2. ASSUME NEW k \in T PROVE k + 1 \in T
    <3> SUFFICES ASSUME k + 1 <= N PROVE g[k + 1] \in OwnMaps
      OBVIOUS
    <3>1. k \in Nat /\ k + 1 \in 1..N /\ (k + 1) - 1 = k /\ g[k] \in OwnMaps
      BY <1>1
    <3>2. g[k + 1] = SetPresence(g[(k + 1) - 1], items[k + 1])
      BY <1>10, <3>1, Zenon
    <3> QED
      BY <1>2, <3>1, <3>2
  <2>3. T \in SUBSET Nat
    OBVIOUS
  <2> HIDE DEF T
  <2> QED
    BY <2>1, <2>2, <2>3, Induction, Zenon
<1>12. g \in [0..N -> OwnMaps]
  BY <1>1, <1>9, <1>11, SMTT(60)
<1> HIDE DEF Fold
<1> QED
  BY <1>8, <1>10, <1>12

\* Whoever a message tells of, and not of a leave afterwards, is an own member; whoever was one
\* and is not told to leave stays one; and what is kept of an own member is what was told.
LEMMA OwnMembersOf ==
  ASSUME mine \in OwnMaps, NEW items \in Seq(ToldItems), NEW c \in Clients
  PROVE  /\ OwnMembers(items) \in OwnMaps
         /\ (/\ mine.items[c] # None
             /\ \A r \in DOMAIN items : items[r].client # c \/ items[r].item.action # "leave")
              => OwnMembers(items).items[c] # None
         /\ \A q \in DOMAIN items :
              (/\ items[q].client = c /\ items[q].item.action # "leave"
               /\ \A r \in DOMAIN items :
                     q < r => items[r].client # c \/ items[r].item.action # "leave")
                => OwnMembers(items).items[c] # None
         /\ OwnMembers(items).items[c] # None =>
              \/ OwnMembers(items).items[c] = mine.items[c]
              \/ \E q \in DOMAIN items :
                   /\ items[q].client = c /\ items[q].item.action # "leave"
                   /\ OwnMembers(items).items[c].data = items[q].item.data
                   /\ OwnMembers(items).items[c].action = "present"
<1> DEFINE N == Len(items)
           Left(r) == items[r].client = c /\ items[r].item.action = "leave"
           Comes(q) == items[q].client = c /\ items[q].item.action # "leave"
<1>1. PICK after \in [0..N -> OwnMaps] :
         /\ after[0] = mine
         /\ \A n \in 1..N : after[n] = SetPresence(after[n - 1], items[n])
         /\ OwnMembers(items) = after[N]
  BY OwnMembersFold
<1>2. N \in Nat /\ DOMAIN items = 1..N /\ \A n \in 1..N : items[n] \in ToldItems /\ n \in Nat
  OBVIOUS
<1>3. ASSUME NEW n \in 1..N
      PROVE  /\ items[n].client # c => after[n].items[c] = after[n - 1].items[c]
             /\ Comes(n) => after[n].items[c] # None
             /\ Comes(n) => \/ after[n].items[c] = after[n - 1].items[c]
                            \/ /\ after[n].items[c].data = items[n].item.data
                               /\ after[n].items[c].action = "present"
             /\ Left(n) => after[n].items[c] \in {None, after[n - 1].items[c]}
  <2>1. PICK map \in OwnMaps, told \in ToldItems :
           map = after[n - 1] /\ told = items[n] /\ after[n] = SetPresence(map, told)
    <3>1. n - 1 \in 0..N
      BY <1>2
    <3> QED
      BY <1>1, <1>2, <3>1
  <2> QED
    BY <2>1, SetPresenceOf, SMTT(60)
<1>4. ASSUME NEW q \in 0..N, after[q].items[c] # None, \A r \in 1..N : q < r => ~Left(r)
      PROVE  after[N].items[c] # None
  <2> DEFINE T == {k \in Nat : q + k <= N => after[q + k].items[c] # None}
  <2>1. 0 \in T
    BY <1>4
  <2>2. ASSUME NEW k \in T PROVE k + 1 \in T
    <3> SUFFICES ASSUME q + (k + 1) <= N PROVE after[q + (k + 1)].items[c] # None
      OBVIOUS
    <3>1. PICK n \in 1..N : n = q + (k + 1) /\ n - 1 = q + k /\ q < n
      BY <1>2
    <3>2. after[n - 1].items[c] # None
      BY <3>1
    <3>3. after[n].items[c] # None
      BY <1>3, <1>4, <3>1, <3>2
    <3> QED
      BY <3>1, <3>3
  <2>3. T \in SUBSET Nat
    OBVIOUS
  <2>4. T = Nat
    <3> HIDE DEF T
    <3> QED
      BY <2>1, <2>2, <2>3, Induction, Zenon
  <2>5. PICK k \in Nat : q + k = N
    <3>1. N - q \in Nat /\ q + (N - q) = N
      BY <1>2
    <3> QED
      BY <3>1, Zenon
  <2>6. q + k <= N => after[q + k].items[c] # None
    BY <2>4
  <2> QED
    BY <1>2, <2>5, <2>6
<1>5. after[N].items[c] # None =>
        \/ after[N].items[c] = mine.items[c]
        \/ \E q \in 1..N : Comes(q) /\ after[N].items[c].data = items[q].item.data
                                    /\ after[N].items[c].action = "present"
  <2> DEFINE Made(k) == after[k].items[c] # None =>
                \/ after[k].items[c] = mine.items[c]
                \/ \E q \in 1..N : Comes(q) /\ after[k].items[c].data = items[q].item.data
                                            /\ after[k].items[c].action = "present"
             T == {k \in Nat : k <= N => Made(k)}
  <2>1. 0 \in T
    BY <1>1
  <2>2. ASSUME NEW k \in T PROVE k + 1 \in T
    <3> SUFFICES ASSUME k + 1 <= N PROVE Made(k + 1)
      OBVIOUS
    <3>1. PICK n \in 1..N : n = k + 1 /\ n - 1 = k
      BY <1>2
    <3>2. Made(n - 1)
      BY <3>1
    <3>3. Made(n)
      BY <1>3, <3>1, <3>2
    <3> QED
      BY <3>1, <3>3
  <2>3. T \in SUBSET Nat
    OBVIOUS
  <2>4. T = Nat
    <3> HIDE DEF T
    <3> QED
      BY <2>1, <2>2, <2>3, Induction, Zenon
  <2> QED
    BY <1>2, <2>4
<1>6. N \in 0..N /\ 0 \in 0..N /\ OwnMembers(items) \in OwnMaps
  BY <1>1, <1>2
<1>7. (mine.items[c] # None /\ \A r \in 1..N : ~Left(r)) => OwnMembers(items).items[c] # None
  BY <1>1, <1>4, <1>6
<1>8. ASSUME NEW q \in 1..N, Comes(q), \A r \in 1..N : q < r => ~Left(r)
      PROVE  OwnMembers(items).items[c] # None
  <2>1. q \in 0..N /\ after[q].items[c] # None
    BY <1>3, <1>8
  <2> QED
    BY <1>1, <1>4, <1>8, <2>1
<1> QED
  BY <1>1, <1>2, <1>5, <1>6, <1>7, <1>8

\* SetToSeq has every element of a finite set.
LEMMA SetToSeqOf ==
  ASSUME NEW S, IsFiniteSet(S)
  PROVE  /\ SetToSeq(S) \in Seq(S)
         /\ \A x \in S : \E i \in DOMAIN SetToSeq(S) : SetToSeq(S)[i] = x
<1>1. Cardinality(S) \in Nat /\ ExistsBijection(1..Cardinality(S), S)
  BY FS_CardinalityType
<1>2. PICK f \in Bijection(1..Cardinality(S), S) : TRUE
  BY <1>1 DEF ExistsBijection
<1>3. f \in [1..Cardinality(S) -> S] /\ IsInjective(f)
  BY <1>2 DEF Bijection, Injection
<1>4. PICK g : g = SetToSeq(S)
  OBVIOUS
<1>5. g \in [1..Cardinality(S) -> S] /\ IsInjective(g)
  BY <1>3, <1>4 DEF SetToSeq
<1>6. g \in Injection(1..Cardinality(S), S)
  BY <1>5 DEF Injection
<1>7. Cardinality(1..Cardinality(S)) = Cardinality(S)
  BY <1>1, FS_Interval
<1>8. g \in Surjection(1..Cardinality(S), S)
  BY <1>6, <1>7, FS_Injection
<1>9. \A x \in S : \E i \in 1..Cardinality(S) : g[i] = x
  BY <1>8 DEF Surjection
<1>10. g \in Seq(S) /\ DOMAIN g = 1..Cardinality(S)
  BY <1>1, <1>5
<1> QED
  BY <1>4, <1>9, <1>10

-----------------------------------------------------------------------------
(* Types.                                                                   *)

\* What becomes of the calls one by one becomes of the sequence.
LEMMA CallsOfType ==
  ASSUME calls \in Seq(Calls), NEW f, DOMAIN f = DOMAIN calls,
         f = [i \in DOMAIN calls |-> f[i]], \A i \in DOMAIN calls : f[i] \in Calls
  PROVE  f \in Seq(Calls)
<1>1. PICK n \in Nat : DOMAIN calls = 1..n
  BY LenProperties
<1>2. f \in [1..n -> Calls]
  BY <1>1
<1> QED
  BY <1>1, <1>2

\* Settle touches the outcome of the calls it names.
LEMMA SettleOf ==
  ASSUME calls \in Seq(Calls), NEW which, NEW at \in Ats, Settle(which, at)
  PROVE  /\ calls' \in Seq(Calls) /\ DOMAIN calls' = DOMAIN calls
         /\ \A i \in DOMAIN calls :
              /\ calls'[i].client = calls[i].client /\ calls'[i].action = calls[i].action
              /\ calls'[i].shown = calls[i].shown
              /\ calls'[i].at = IF i \in which THEN at ELSE calls[i].at
<1>1. \A i \in DOMAIN calls : calls[i] \in Calls
  BY ElementOfSeq, LenProperties
<1>2. /\ DOMAIN calls' = DOMAIN calls
      /\ calls' = [i \in DOMAIN calls |-> calls'[i]]
      /\ \A i \in DOMAIN calls :
            calls'[i] = [calls[i] EXCEPT !.at = IF i \in which THEN at ELSE @]
  BY DEF Settle
<1>3. \A i \in DOMAIN calls :
         /\ calls'[i] \in Calls
         /\ calls'[i].client = calls[i].client /\ calls'[i].action = calls[i].action
         /\ calls'[i].shown = calls[i].shown
         /\ calls'[i].at = IF i \in which THEN at ELSE calls[i].at
  BY <1>1, <1>2 DEF Calls
<1>4. calls' \in Seq(Calls)
  <2>1. PICK f : f = calls'
    OBVIOUS
  <2>2. f \in Seq(Calls)
    BY <1>2, <1>3, <2>1, CallsOfType
  <2> QED
    BY <2>1, <2>2
<1> QED
  BY <1>2, <1>3, <1>4

\* What DETACHED makes of the calls.
LEMMA DetachedOf ==
  ASSUME calls \in Seq(Calls), ActOnDetached
  PROVE  /\ calls' \in Seq(Calls) /\ DOMAIN calls' = DOMAIN calls
         /\ \A i \in DOMAIN calls :
              /\ calls'[i].client = calls[i].client /\ calls'[i].action = calls[i].action
              /\ calls'[i].shown = FALSE
              /\ calls'[i].at = IF i \in CallsOf(pending) THEN "failed"
                                ELSE IF calls[i].at = "done" THEN "gone" ELSE calls[i].at
<1>1. \A i \in DOMAIN calls : calls[i] \in Calls
  BY ElementOfSeq, LenProperties
<1>2. /\ DOMAIN calls' = DOMAIN calls
      /\ calls' = [i \in DOMAIN calls |-> calls'[i]]
      /\ \A i \in DOMAIN calls :
            calls'[i] = [calls[i] EXCEPT !.at = IF i \in CallsOf(pending) THEN "failed"
                                                ELSE IF @ = "done" THEN "gone" ELSE @,
                                         !.shown = FALSE]
  BY DEF ActOnDetached
<1>3. \A i \in DOMAIN calls :
         /\ calls'[i] \in Calls
         /\ calls'[i].client = calls[i].client /\ calls'[i].action = calls[i].action
         /\ calls'[i].shown = FALSE
         /\ calls'[i].at = IF i \in CallsOf(pending) THEN "failed"
                           ELSE IF calls[i].at = "done" THEN "gone" ELSE calls[i].at
  <2> TAKE i \in DOMAIN calls
  <2>1. PICK r \in Calls, a \in Ats :
          /\ r = calls[i]
          /\ a = IF i \in CallsOf(pending) THEN "failed"
                 ELSE IF calls[i].at = "done" THEN "gone" ELSE calls[i].at
    BY <1>1 DEF Calls, Ats
  <2>2. calls'[i] = [r EXCEPT !.at = a, !.shown = FALSE]
    BY <1>2, <2>1
  <2> QED
    BY <2>1, <2>2 DEF Calls
<1>4. calls' \in Seq(Calls)
  <2>1. PICK f : f = calls'
    OBVIOUS
  <2>2. f \in Seq(Calls)
    BY <1>2, <1>3, <2>1, CallsOfType
  <2> QED
    BY <2>1, <2>2
<1> QED
  BY <1>2, <1>3, <1>4

\* What the loss of the connection makes of the calls, ...
Settled == UNION {CallsOf(unacked[i].entries) : i \in DOMAIN unacked}

\* The states in which a channel is told that the connection was given up.
IsTold == channel \in {"attaching", "attached", "detaching", "suspended"}

\* What giving the connection up does to the calls.
LEMMA GivenUpOf ==
  ASSUME calls \in Seq(Calls), NEW state \in {"suspended", "closed"}, GiveUp(state)
  PROVE  /\ calls' \in Seq(Calls) /\ DOMAIN calls' = DOMAIN calls
         /\ \A i \in DOMAIN calls :
              /\ calls'[i].client = calls[i].client /\ calls'[i].action = calls[i].action
              /\ calls'[i].shown = (calls[i].shown /\ ~(IsTold /\ state = "closed"))
              /\ calls'[i].at = IF i \in Settled \/ (IsTold /\ i \in CallsOf(pending)) THEN "failed"
                                ELSE IF IsTold /\ state = "closed" /\ calls[i].at = "done"
                                     THEN "gone"
                                ELSE calls[i].at
<1>1. \A i \in DOMAIN calls : calls[i] \in Calls
  BY ElementOfSeq, LenProperties
<1>2. CASE IsTold
  <2>1. /\ DOMAIN calls' = DOMAIN calls
        /\ calls' = [i \in DOMAIN calls |-> calls'[i]]
        /\ \A i \in DOMAIN calls :
              calls'[i] = [calls[i] EXCEPT
                 !.at = IF i \in Settled \union CallsOf(pending) THEN "failed"
                        ELSE IF state = "closed" /\ @ = "done" THEN "gone" ELSE @,
                 !.shown = @ /\ state # "closed"]
    BY <1>2 DEF GiveUp, IsTold, Settled
  <2>2. \A i \in DOMAIN calls :
         /\ calls'[i] \in Calls
         /\ calls'[i].client = calls[i].client /\ calls'[i].action = calls[i].action
         /\ calls'[i].shown = (calls[i].shown /\ state # "closed")
         /\ calls'[i].at = IF i \in Settled \/ i \in CallsOf(pending) THEN "failed"
                           ELSE IF state = "closed" /\ calls[i].at = "done" THEN "gone"
                           ELSE calls[i].at
    <3> TAKE i \in DOMAIN calls
    <3>1. PICK s \in BOOLEAN : s = (state # "closed")
      OBVIOUS
    <3>2. PICK r \in Calls, a \in Ats :
            /\ r = calls[i]
            /\ a = IF i \in Settled \union CallsOf(pending) THEN "failed"
                   ELSE IF state = "closed" /\ calls[i].at = "done" THEN "gone" ELSE calls[i].at
      BY <1>1 DEF Calls, Ats
    <3>3. calls'[i] = [r EXCEPT !.at = a, !.shown = r.shown /\ s]
      BY <2>1, <3>1, <3>2
    <3> QED
      BY <3>1, <3>2, <3>3 DEF Calls
  <2>3. calls' \in Seq(Calls)
    <3>1. PICK f : f = calls'
      OBVIOUS
    <3>2. f \in Seq(Calls)
      BY <2>1, <2>2, <3>1, CallsOfType
    <3> QED
      BY <3>1, <3>2
  <2> QED
    BY <1>2, <2>1, <2>2, <2>3, ZenonT(60)
<1>3. CASE ~IsTold
  <2>1. Settle(Settled, "failed") /\ "failed" \in Ats
    BY <1>3 DEF GiveUp, IsTold, Settled, Ats
  <2>2. PICK which : which = Settled /\ Settle(which, "failed")
    BY <2>1
  <2>3. /\ calls' \in Seq(Calls) /\ DOMAIN calls' = DOMAIN calls
        /\ \A i \in DOMAIN calls :
              /\ calls'[i].client = calls[i].client /\ calls'[i].action = calls[i].action
              /\ calls'[i].shown = calls[i].shown
              /\ calls'[i].at = IF i \in which THEN "failed" ELSE calls[i].at
    BY <2>1, <2>2, SettleOf
  <2>4. \A i \in DOMAIN calls : calls[i].shown \in BOOLEAN
    BY <1>1 DEF Calls
  <2> QED
    BY <1>3, <2>2, <2>3, <2>4
<1> QED
  BY <1>2, <1>3

\* ... what a presence message makes of them, ...
LEMMA ShownOf ==
  ASSUME calls \in Seq(Calls), inbox \in Seq(Arrivals), inbox # <<>>, ReceivePresence
  PROVE  /\ calls' \in Seq(Calls) /\ DOMAIN calls' = DOMAIN calls
         /\ \A i \in DOMAIN calls :
              /\ calls'[i].client = calls[i].client /\ calls'[i].action = calls[i].action
              /\ calls'[i].at = calls[i].at
              /\ calls'[i].shown = (calls[i].shown \/ Shows(inbox[1], i))
<1>0. Head(inbox) = inbox[1]
  OBVIOUS
<1>1. \A i \in DOMAIN calls : calls[i] \in Calls
  BY ElementOfSeq, LenProperties
<1>2. /\ DOMAIN calls' = DOMAIN calls
      /\ calls' = [i \in DOMAIN calls |-> calls'[i]]
      /\ \A i \in DOMAIN calls :
            calls'[i] = [calls[i] EXCEPT !.shown = @ \/ Shows(inbox[1], i)]
  BY <1>0 DEF ReceivePresence
<1>3. \A i \in DOMAIN calls :
         /\ calls'[i] \in Calls
         /\ calls'[i].client = calls[i].client /\ calls'[i].action = calls[i].action
         /\ calls'[i].at = calls[i].at
         /\ calls'[i].shown = (calls[i].shown \/ Shows(inbox[1], i))
  <2> TAKE i \in DOMAIN calls
  <2>1. PICK s \in BOOLEAN : s = Shows(inbox[1], i)
    BY DEF Shows
  <2>2. calls'[i] = [calls[i] EXCEPT !.shown = @ \/ s]
    BY <1>2, <2>1
  <2> QED
    BY <1>1, <2>1, <2>2 DEF Calls
<1>4. calls' \in Seq(Calls)
  <2>1. PICK f : f = calls'
    OBVIOUS
  <2>2. f \in Seq(Calls)
    BY <1>2, <1>3, <2>1, CallsOfType
  <2> QED
    BY <2>1, <2>2
<1> QED
  BY <1>2, <1>3, <1>4

\* The clients that a message enters again.
Again(entries) == {entries[i].client : i \in {j \in DOMAIN entries : entries[j].call = 0}}

\* ... and what an answer does.
LEMMA AnsweredOf ==
  ASSUME calls \in Seq(Calls), inbox \in Seq(Arrivals), inbox # <<>>, ReceiveAnswer
  PROVE  LET entries == Head(unacked).entries
         IN  /\ calls' \in Seq(Calls) /\ DOMAIN calls' = DOMAIN calls
             /\ \A i \in DOMAIN calls :
                  /\ calls'[i].client = calls[i].client /\ calls'[i].action = calls[i].action
                  /\ calls'[i].shown = calls[i].shown
                  /\ calls'[i].at = IF inbox[1].type = "ack"
                       THEN IF i \in CallsOf(entries) THEN "done" ELSE calls[i].at
                       ELSE IF i \in CallsOf(entries) THEN "failed"
                       ELSE IF calls[i].client \in Again(entries) /\ calls[i].at = "done"
                            THEN "gone"
                       ELSE calls[i].at
<1> DEFINE entries == Head(unacked).entries
<1>0. Head(inbox) = inbox[1]
  OBVIOUS
<1>1. \A i \in DOMAIN calls : calls[i] \in Calls
  BY ElementOfSeq, LenProperties
<1>2. CASE inbox[1].type = "ack"
  <2>1. Settle(CallsOf(entries), "done")
    BY <1>0, <1>2 DEF ReceiveAnswer
  <2>2. "done" \in Ats
    BY DEF Ats
  <2> QED
    BY <1>2, <2>1, <2>2, SettleOf
<1>3. CASE inbox[1].type # "ack"
  <2>2. /\ DOMAIN calls' = DOMAIN calls
        /\ calls' = [i \in DOMAIN calls |-> calls'[i]]
        /\ \A i \in DOMAIN calls :
              calls'[i] = [calls[i] EXCEPT !.at = IF i \in CallsOf(entries) THEN "failed"
                             ELSE IF calls[i].client \in Again(entries) /\ @ = "done"
                                  THEN "gone" ELSE @]
    BY <1>0, <1>3 DEF ReceiveAnswer, Again
  <2>3. \A i \in DOMAIN calls :
         /\ calls'[i] \in Calls
         /\ calls'[i].client = calls[i].client /\ calls'[i].action = calls[i].action
         /\ calls'[i].shown = calls[i].shown
         /\ calls'[i].at = IF i \in CallsOf(entries) THEN "failed"
                           ELSE IF calls[i].client \in Again(entries) /\ calls[i].at = "done"
                                THEN "gone"
                           ELSE calls[i].at
    BY <1>1, <2>2 DEF Calls, Ats
  <2>4. calls' \in Seq(Calls)
    <3>1. PICK f : f = calls'
      OBVIOUS
    <3>2. f \in Seq(Calls)
      BY <2>2, <2>3, <3>1, CallsOfType
    <3> QED
      BY <3>1, <3>2
  <2> QED
    BY <1>3, <2>2, <2>3, <2>4
<1> QED
  BY <1>2, <1>3

\* A new call is the last one.
LEMMA CalledOf ==
  ASSUME calls \in Seq(Calls), NEW c \in Clients, NEW action \in {"enter", "leave"}, Called(c, action)
  PROVE  /\ calls' \in Seq(Calls) /\ Len(calls) \in Nat
         /\ DOMAIN calls = 1..Len(calls) /\ DOMAIN calls' = 1..(Len(calls) + 1)
         /\ \A i \in DOMAIN calls : calls'[i] = calls[i]
         /\ calls'[Len(calls) + 1] = [client |-> c, action |-> action, shown |-> FALSE,
                                      at |-> IF channel = "attached" THEN "sent" ELSE "queued"]
<1>0. PICK at \in Ats : at = IF channel = "attached" THEN "sent" ELSE "queued"
  BY DEF Ats
<1>1. PICK r \in Calls : /\ r = [client |-> c, action |-> action, shown |-> FALSE,
                                 at |-> IF channel = "attached" THEN "sent" ELSE "queued"]
                         /\ calls' = Append(calls, r)
  BY <1>0 DEF Called, Calls
<1> QED
  BY <1>1, AppendProperties, LenProperties

\* A message is sent: what it is, and where it is kept.
LEMMA SendOf ==
  ASSUME Typed, NEW entries \in Seq(Entries), Send(entries)
  PROVE  \E m \in Messages :
           /\ m.entries = entries /\ m.type = "presence"
           /\ unacked' = Append(unacked, m) /\ unacked' \in Seq(Messages)
           /\ outbox' = (IF connection = "connected" \/ resumable THEN Append(outbox, m) ELSE outbox)
           /\ outbox' \in Seq(Requests) /\ msgSerial' \in Nat
<1>1. PICK m \in Messages : m = [type |-> "presence", serial |-> msgSerial, entries |-> entries]
  BY DEF Typed, Messages
<1>2. m.entries = entries /\ m.type = "presence" /\ m \in Requests
  BY <1>1 DEF Requests
<1>3. /\ unacked' = Append(unacked, m)
      /\ outbox' = (IF connection = "connected" \/ resumable THEN Append(outbox, m) ELSE outbox)
      /\ msgSerial' = msgSerial + 1
  BY <1>1 DEF Send
<1>4. unacked \in Seq(Messages) /\ outbox \in Seq(Requests) /\ msgSerial \in Nat
  BY DEF Typed
<1> QED
  BY <1>2, <1>3, <1>4, AppendProperties

\* An operation keeps the types, whichever way it goes.
LEMMA EnterByType ==
  ASSUME Typed, NEW entry \in Entries, NEW waiting \in Seq(Tasks), EnterBy(entry, waiting)
  PROVE  /\ pending' \in Seq(Entries) /\ tasks' \in Seq(Tasks)
         /\ unacked' \in Seq(Messages) /\ outbox' \in Seq(Requests) /\ msgSerial' \in Nat
<1>1. [type |-> "attach"] \in Tasks
  BY DEF Tasks
<1>2. /\ pending \in Seq(Entries) /\ unacked \in Seq(Messages) /\ outbox \in Seq(Requests)
      /\ msgSerial \in Nat
  BY DEF Typed
<1>3. CASE Send(<<entry>>) /\ tasks' = waiting /\ UNCHANGED pending
  <2>1. <<entry>> \in Seq(Entries)
    OBVIOUS
  <2> QED
    BY <1>2, <1>3, <2>1, SendOf
<1>4. CASE UNCHANGED sending /\ pending' = Append(pending, entry)
           /\ tasks' \in {Append(waiting, [type |-> "attach"]), waiting}
  BY <1>1, <1>2, <1>4, AppendProperties, SMTT(60) DEF sending
<1> QED
  BY <1>3, <1>4 DEF EnterBy

\* A task for each own member.
LEMMA ReentriesOf ==
  ASSUME mine \in OwnMaps, conn \in Nat
  PROVE  /\ Reentries \in Seq(Tasks)
         /\ \A t \in DOMAIN Reentries :
              /\ Reentries[t].type = "reenter" /\ Reentries[t].entry.call = 0
              /\ Reentries[t].entry.action = "enter"
              /\ mine.items[Reentries[t].entry.client] # None
              /\ Reentries[t].entry.data = mine.items[Reentries[t].entry.client].data
         /\ \A c \in Clients : mine.items[c] # None =>
              \E t \in DOMAIN Reentries : Reentries[t].entry.client = c
<1> DEFINE S == {c \in Clients : mine.items[c] # None}
           item(c) == mine.items[c]
           id(c) == IF item(c).conn = conn THEN item(c).serial ELSE None
           task(c) == [type  |-> "reenter",
                       entry |-> [call |-> 0, client |-> c, action |-> "enter", data |-> item(c).data,
                                  id   |-> id(c)]]
<1>1. IsFiniteSet(S)
  BY ClientsAssumption, FS_Subset
<1>2. PICK members \in Seq(S) : /\ members = SetToSeq(S)
                                /\ \A x \in S : \E i \in DOMAIN members : members[i] = x
  BY <1>1, SetToSeqOf
<1>3. Reentries = [i \in DOMAIN members |-> task(members[i])]
  BY <1>2 DEF Reentries
<1>4. ASSUME NEW c \in S
      PROVE  /\ task(c) \in Tasks /\ task(c).type = "reenter" /\ task(c).entry.call = 0
             /\ task(c).entry.action = "enter" /\ task(c).entry.client = c
             /\ task(c).entry.data = mine.items[c].data
  <2>1. item(c) \in Item
    BY <1>4 DEF OwnMaps, MemberMaps
  <2>2. id(c) \in Nat \union {None} /\ item(c).data \in Nat
    BY <2>1 DEF Item
  <2>3. PICK n \in Nat \union {None}, d \in Nat : n = id(c) /\ d = item(c).data
    BY <2>2
  <2>4. task(c) = [type |-> "reenter", entry |-> [call |-> 0, client |-> c, action |-> "enter",
                                                  data |-> d, id |-> n]]
    BY <2>3
  <2> QED
    BY <1>4, <2>2, <2>3, <2>4 DEF Tasks, Entries
<1>5. \A i \in DOMAIN members : members[i] \in S
  BY <1>2, ElementOfSeq, LenProperties, ZenonT(60)
<1> HIDE DEF task, S
<1>6. PICK n \in Nat : DOMAIN members = 1..n
  BY <1>2, LenProperties
<1>7. Reentries \in Seq(Tasks) /\ DOMAIN Reentries = DOMAIN members
      /\ \A i \in DOMAIN members : Reentries[i] = task(members[i])
  BY <1>3, <1>4, <1>5, <1>6
<1>8. \A c \in Clients : mine.items[c] # None => c \in S
  BY DEF S
<1>9. \A t \in DOMAIN Reentries :
              /\ Reentries[t].type = "reenter" /\ Reentries[t].entry.call = 0
              /\ Reentries[t].entry.action = "enter" /\ Reentries[t].entry.client = members[t]
              /\ Reentries[t].entry.data = mine.items[members[t]].data
  BY <1>4, <1>5, <1>7
<1>10. \A t \in DOMAIN Reentries : mine.items[members[t]] # None
  BY <1>5, <1>7 DEF S
<1>11. \A c \in Clients : mine.items[c] # None =>
              \E t \in DOMAIN Reentries : Reentries[t].entry.client = c
  <2> TAKE c \in Clients
  <2> HAVE mine.items[c] # None
  <2>1. PICK i \in DOMAIN members : members[i] = c
    BY <1>2, <1>8
  <2> QED
    BY <1>7, <1>9, <2>1
<1> QED
  BY <1>7, <1>9, <1>10, <1>11

\* The tasks an ATTACHED creates come behind those there are, re-entries first.
LEMMA OnAttachedType ==
  ASSUME Typed, OnAttached
  PROVE  /\ tasks' \in Seq(Tasks)
         /\ Len(tasks') = Len(tasks) + Len(Reentries) + 1
         /\ \A t \in DOMAIN tasks : tasks'[t] = tasks[t]
         /\ \A t \in DOMAIN Reentries : tasks'[Len(tasks) + t] = Reentries[t]
         /\ tasks'[Len(tasks) + Len(Reentries) + 1] = [type |-> "pending"]
<1>1. PICK s \in Seq(Tasks) : s = Reentries
  BY ReentriesOf DEF Typed
<1>2. PICK x \in Tasks : x = [type |-> "pending"]
  BY DEF Tasks
<1>3. tasks \in Seq(Tasks)
  BY DEF Typed
<1>4. tasks' = Append(tasks \o s, x)
  BY <1>1, <1>2 DEF OnAttached
<1> HIDE DEF Tasks
<1>5. PICK u \in Seq(Tasks) : u = tasks \o s
  BY <1>3, ConcatProperties
<1>6. /\ Len(u) = Len(tasks) + Len(s)
      /\ \A t \in DOMAIN tasks : u[t] = tasks[t]
      /\ \A t \in DOMAIN s : u[Len(tasks) + t] = s[t]
  BY <1>3, <1>5
<1>7. /\ tasks' \in Seq(Tasks) /\ Len(tasks') = Len(u) + 1
      /\ \A t \in 1..Len(u) : tasks'[t] = u[t]
      /\ tasks'[Len(u) + 1] = x
  BY <1>4, <1>5, AppendProperties
<1>8. /\ DOMAIN tasks = 1..Len(tasks) /\ DOMAIN s = 1..Len(s) /\ Len(tasks) \in Nat
         /\ Len(s) \in Nat
  BY <1>3, LenProperties
<1> QED
  <2>1. \A t \in DOMAIN tasks : tasks'[t] = tasks[t]
    BY <1>6, <1>7, <1>8
  <2>2. \A t \in DOMAIN s : tasks'[Len(tasks) + t] = s[t]
    <3> TAKE t \in DOMAIN s
    <3>1. Len(tasks) + t \in 1..Len(u)
      BY <1>6, <1>8
    <3> QED
      BY <1>6, <1>7, <3>1
  <2>3. Len(tasks') = Len(tasks) + Len(s) + 1 /\ tasks'[Len(tasks) + Len(s) + 1] = x
    BY <1>6, <1>7, <1>8
  <2> QED
    BY <1>1, <1>2, <1>7, <2>1, <2>2, <2>3

\* No members are members, of the client and of the service.
LEMMA EmptyMapType == Map!EmptyMap \in OwnMaps
BY DEF Map!EmptyMap, OwnMaps, MemberMaps

\* The service without members.
LEMMA NoMembersType ==
  ASSUME NEW s \in {"new", "attached", "detached"}
  PROVE  /\ NoMembers(s) \in [state : {"new", "attached", "detached"}, members : MemberMaps]
         /\ NoMembers(s).state = s
         /\ \A c \in Clients : NoMembers(s).members[c] = None
BY DEF NoMembers, MemberMaps

\* The entry of a new call carries the number it will have.
LEMMA EntryType ==
  ASSUME calls \in Seq(Calls), NEW c \in Clients, NEW action \in {"enter", "leave"}
  PROVE  /\ NewEntry(c, action) \in Entries
         /\ NewEntry(c, action).call = Len(calls) + 1 /\ NewEntry(c, action).data = Len(calls) + 1
         /\ NewEntry(c, action).client = c /\ NewEntry(c, action).action = action
<1>1. Len(calls) + 1 \in Nat
  BY LenProperties
<1> QED
  BY <1>1 DEF NewEntry, Entries

\* What is told of a message the service takes, entry by entry.
LEMMA ToldOf ==
  ASSUME Typed, NEW m \in Messages
  PROVE  /\ Told(m) \in Arrivals /\ Told(m).type = "presence"
         /\ DOMAIN Told(m).items = DOMAIN m.entries
         /\ \A q \in DOMAIN m.entries :
              /\ Told(m).items[q].client = m.entries[q].client
              /\ Told(m).items[q].item.data = m.entries[q].data
              /\ Told(m).items[q].item.action = m.entries[q].action
<1>1. m.serial \in Nat /\ m.entries \in Seq(Entries)
  BY DEF Messages
<1>2. PICK n \in Nat : DOMAIN m.entries = 1..n
  BY <1>1, LenProperties
<1>3. conn \in Nat
  BY DEF Typed
<1>4. \A q \in DOMAIN m.entries : m.entries[q] \in Entries
  BY <1>1, ElementOfSeq, LenProperties
<1>5. ASSUME NEW q \in DOMAIN m.entries
      PROVE  /\ ItemOf(m.entries[q], m.serial, q) \in Item
             /\ ItemOf(m.entries[q], m.serial, q).data = m.entries[q].data
             /\ ItemOf(m.entries[q], m.serial, q).action = m.entries[q].action
  <2>1. PICK e \in Entries, s, i \in Nat : e = m.entries[q] /\ s = m.serial /\ i = q
    BY <1>1, <1>2, <1>4
  <2>2. ItemOf(e, s, i) \in Item
    BY <2>1, <1>3, ItemOfType
  <2>3. ItemOf(e, s, i).data = e.data /\ ItemOf(e, s, i).action = e.action
    BY DEF ItemOf
  <2> QED
    BY <2>1, <2>2, <2>3
<1> DEFINE told(q) == [client |-> m.entries[q].client, item |-> ItemOf(m.entries[q], m.serial, q)]
           items == [q \in DOMAIN m.entries |-> told(q)]
<1>6. \A q \in DOMAIN m.entries : told(q) \in ToldItems
  BY <1>4, <1>5 DEF ToldItems, Entries
<1>7. items \in Seq(ToldItems)
  <2> HIDE DEF told
  <2> QED
    BY <1>2, <1>6
<1>8. Told(m) = [type |-> "presence", items |-> items]
  BY DEF Told
<1>9. PICK s \in Seq(ToldItems) : s = items
  BY <1>7
<1>10. Told(m) \in Arrivals /\ Told(m).type = "presence" /\ Told(m).items = s
  BY <1>8, <1>9 DEF Arrivals
<1> HIDE DEF Arrivals
<1> QED
  BY <1>5, <1>9, <1>10

\* What is told of the members that are there.
LEMMA PresentOf ==
  ASSUME Typed
  PROVE  /\ Present \in Arrivals /\ Present.type = "presence"
         /\ \A q \in DOMAIN Present.items :
              /\ Present.items[q].client \in Clients
              /\ server.members[Present.items[q].client] # None
              /\ Present.items[q].item = server.members[Present.items[q].client]
<1> DEFINE S == {c \in Clients : server.members[c] # None}
           told(c) == [client |-> c, item |-> server.members[c]]
<1>1. IsFiniteSet(S)
  BY ClientsAssumption, FS_Subset
<1>2. PICK there \in Seq(S) : there = SetToSeq(S)
  BY <1>1, SetToSeqOf
<1>3. Present = [type |-> "presence", items |-> [i \in DOMAIN there |-> told(there[i])]]
  BY <1>2 DEF Present
<1>4. \A c \in S : told(c) \in ToldItems
  BY DEF ToldItems, Typed, MemberMaps
<1>5. \A i \in DOMAIN there : there[i] \in S
  BY <1>2, ElementOfSeq, LenProperties
<1>6. PICK n \in Nat : DOMAIN there = 1..n
  BY <1>2, LenProperties
<1>7. PICK items \in Seq(ToldItems) : items = [i \in DOMAIN there |-> told(there[i])]
  <2>1. \A i \in 1..n : told(there[i]) \in ToldItems
    BY <1>4, <1>5, <1>6
  <2> HIDE DEF told
  <2>2. [i \in DOMAIN there |-> told(there[i])] \in Seq(ToldItems)
    BY <1>6, <2>1
  <2> QED
    BY <2>2
<1>8. Present \in Arrivals /\ Present.type = "presence" /\ Present.items = items
  BY <1>3, <1>7 DEF Arrivals
<1>9. \A q \in DOMAIN items : items[q].client \in S
        /\ items[q].item = server.members[items[q].client]
  BY <1>5, <1>7
<1> HIDE DEF Arrivals
<1> QED
  BY <1>8, <1>9

\* ACTIONS one by one keep the types.
LEMMA AsksType ==
  ASSUME Typed, NEW t \in {"attach", "detach"}
  PROVE  /\ Asks(t) \in Seq(Requests)
         /\ Append(outbox, [type |-> t]) \in Seq(Requests)
<1>1. [type |-> t] \in Requests
  BY DEF Requests
<1> HIDE DEF Requests
<1>2. PICK r \in Requests : r = [type |-> t]
  BY <1>1
<1>3. outbox \in Seq(Requests)
  BY DEF Typed
<1> QED
  BY <1>2, <1>3, AppendProperties DEF Asks

\* Every step keeps the types.
LEMMA TypedStep ==
  ASSUME Typed, Linked, Answered, Next
  PROVE  Typed'
<1>1. /\ mine \in OwnMaps /\ conn \in Nat /\ msgSerial \in Nat /\ count \in Nat
      /\ pending \in Seq(Entries) /\ tasks \in Seq(Tasks) /\ calls \in Seq(Calls)
      /\ unacked \in Seq(Messages) /\ outbox \in Seq(Requests) /\ inbox \in Seq(Arrivals)
      /\ server \in [state : {"new", "attached", "detached"}, members : MemberMaps]
  BY DEF Typed
<1>2. /\ <<>> \in Seq(Entries) /\ <<>> \in Seq(Messages) /\ <<>> \in Seq(Requests)
         /\ <<>> \in Seq(Arrivals)
      /\ \A s \in {"attached", "detached", "failed", "ack", "nack"} :
            [type |-> s] \in Arrivals /\ Append(inbox, [type |-> s]) \in Seq(Arrivals)
      /\ Append(tasks, [type |-> "attach"]) \in Seq(Tasks)
  <2>1. \A s \in {"attached", "detached", "failed", "ack", "nack"} : [type |-> s] \in Arrivals
    BY DEF Arrivals
  <2>2. \A x \in Arrivals : Append(inbox, x) \in Seq(Arrivals)
    BY <1>1, AppendProperties
  <2>3. PICK x \in Tasks : x = [type |-> "attach"]
    BY DEF Tasks
  <2>4. Append(tasks, x) \in Seq(Tasks)
    BY <1>1, AppendProperties
  <2> QED
    BY <2>1, <2>2, <2>3, <2>4
<1>3. \A t \in {"attach", "detach"} :
         Asks(t) \in Seq(Requests) /\ Append(outbox, [type |-> t]) \in Seq(Requests)
  BY AsksType
<1>17. NoMembers("new") \in [state : {"new", "attached", "detached"}, members : MemberMaps]
  BY NoMembersType
<1>4. ASSUME NEW c \in Clients, NEW action \in {"enter", "leave"},
             EnterBy(NewEntry(c, action), tasks), Called(c, action),
             UNCHANGED <<link, channel, mine, service, count>>
      PROVE  Typed'
  <2>1. NewEntry(c, action) \in Entries
    BY <1>1, EntryType
  <2>2. /\ pending' \in Seq(Entries) /\ tasks' \in Seq(Tasks)
        /\ unacked' \in Seq(Messages) /\ outbox' \in Seq(Requests) /\ msgSerial' \in Nat
    BY <1>1, <1>4, <2>1, EnterByType
  <2>3. calls' \in Seq(Calls)
    BY <1>1, <1>4, CalledOf
  <2> QED
    BY <1>4, <2>2, <2>3 DEF Typed, link, service
<1>5. CASE RunTask
  <2>1. tasks # <<>> /\ tasks[1] = Head(tasks) /\ Head(tasks) \in Tasks
          /\ Tail(tasks) \in Seq(Tasks)
    BY <1>1, <1>5 DEF RunTask
  <2>2. UNCHANGED <<connection, resumable, conn, mine, server, inbox, count>>
    BY <1>5 DEF RunTask, link, service
  <2>3. CASE RunAttach
    BY <1>1, <1>3, <2>1, <2>2, <2>3 DEF Typed, RunAttach, RequestAttach
  <2>4. CASE Head(tasks).type = "reenter" /\ RunReenter
    <3>1. Head(tasks).entry \in Entries
      BY <2>1, <2>4 DEF Tasks
    <3>2. CASE EnterBy(Head(tasks).entry, Tail(tasks))
      <4>1. /\ pending' \in Seq(Entries) /\ tasks' \in Seq(Tasks)
            /\ unacked' \in Seq(Messages) /\ outbox' \in Seq(Requests) /\ msgSerial' \in Nat
        BY <2>1, <3>1, <3>2, EnterByType
      <4> QED
        BY <2>2, <2>4, <4>1 DEF Typed, RunReenter
    <3>3. CASE tasks' = Tail(tasks) /\ UNCHANGED <<pending, sending>>
      BY <2>1, <2>2, <2>4, <3>3 DEF Typed, RunReenter, sending
    <3> QED
      BY <2>4, <3>2, <3>3 DEF RunReenter
  <2>5. CASE RunPending
    <3>1. tasks' = Tail(tasks) /\ UNCHANGED channel
      BY <2>5 DEF RunPending
    <3>2. CASE UNCHANGED <<pending, calls, sending>>
      BY <2>1, <2>2, <3>1, <3>2 DEF Typed, sending
    <3>3. CASE Send(pending) /\ Settle(CallsOf(pending), "sent") /\ pending' = <<>>
      <4>1. calls' \in Seq(Calls)
        <5>1. "sent" \in Ats
          BY DEF Ats
        <5> QED
          BY <1>1, <3>3, <5>1, SettleOf
      <4>2. unacked' \in Seq(Messages) /\ outbox' \in Seq(Requests) /\ msgSerial' \in Nat
        BY <1>1, <3>3, SendOf
      <4> QED
        BY <1>2, <2>1, <2>2, <3>1, <3>3, <4>1, <4>2 DEF Typed
    <3>4. CASE Settle(CallsOf(pending), "failed") /\ UNCHANGED sending /\ pending' = <<>>
      <4>1. calls' \in Seq(Calls)
        <5>1. "failed" \in Ats
          BY DEF Ats
        <5> QED
          BY <1>1, <3>4, <5>1, SettleOf
      <4> QED
        BY <1>2, <2>1, <2>2, <3>1, <3>4, <4>1 DEF Typed, sending
    <3> QED
      BY <2>5, <3>2, <3>3, <3>4 DEF RunPending, SendPending
  <2> QED
    BY <1>5, <2>3, <2>4, <2>5 DEF RunTask
<1>6. CASE ServerHandles
  <2>1. /\ outbox # <<>> /\ Head(outbox) \in Requests /\ outbox' = Tail(outbox)
        /\ Tail(outbox) \in Seq(Requests)
        /\ UNCHANGED <<connection, resumable, conn, channel, mine, pending, tasks, calls, msgSerial, unacked>>
    BY <1>1, <1>6 DEF ServerHandles, link
  <2>2. CASE ServerAttaches
    <3>1. PICK a, b \in Arrivals : a = [type |-> "attached"] /\ b = Present
      BY <1>2, PresentOf
    <3>2. inbox \o <<a, b>> \in Seq(Arrivals)
      BY <1>1, ConcatProperties
    <3>3. inbox' \in Seq(Arrivals) /\ count' = count
      BY <2>2, <3>1, <3>2 DEF ServerAttaches
    <3>4. server' \in [state : {"new", "attached", "detached"}, members : MemberMaps]
      BY <1>1, <2>2 DEF ServerAttaches
    <3> QED
      BY <2>1, <3>3, <3>4 DEF Typed
  <2>3. CASE ServerDetaches
    BY <1>2, <2>1, <2>3, NoMembersType DEF Typed, ServerDetaches
  <2>4. CASE ServerTakes
    <3>1. PICK m \in Messages : m = Head(outbox)
      BY <2>1, <2>4 DEF ServerTakes, Requests
    <3>2. PICK ms \in MemberMaps : ms = Members(m)
      <4>1. server.members \in MemberMaps /\ conn \in Nat
        BY <1>1
      <4>2. CASE Clients = {}
        <5>1. \E after \in [0..Len(m.entries) -> MemberMaps] : Members(m) = after[Len(m.entries)]
          BY <4>1, MembersFold
        <5>2. Len(m.entries) \in 0..Len(m.entries)
          BY LenProperties DEF Messages
        <5> QED
          BY <5>1, <5>2
      <4>3. CASE Clients # {}
        BY <4>1, <4>3, MembersOf
      <4> QED
        BY <4>2, <4>3
    <3>3. server' = [server EXCEPT !.members = ms]
      BY <2>4, <3>1, <3>2 DEF ServerTakes
    <3>4. server' \in [state : {"new", "attached", "detached"}, members : MemberMaps]
      BY <1>1, <3>3
    <3>5. PICK s \in Seq(Arrivals), t \in Seq(Arrivals) :
             s = (IF server.state = "attached" THEN <<Told(m)>> ELSE <<>>)
               /\ t = <<[type |-> "ack"]>>
      <4>1. Told(m) \in Arrivals
        BY ToldOf
      <4>2. <<Told(m)>> \in Seq(Arrivals) /\ <<[type |-> "ack"]>> \in Seq(Arrivals)
        BY <1>2, <4>1
      <4> QED
        BY <1>2, <4>2
    <3>6. inbox' = inbox \o s \o t /\ count' = count
      BY <2>4, <3>1, <3>5 DEF ServerTakes
    <3>7. inbox' \in Seq(Arrivals)
      BY <1>1, <3>5, <3>6, ConcatProperties
    <3> QED
      BY <2>1, <3>4, <3>6, <3>7 DEF Typed
  <2>5. CASE ServerRefuses
    BY <1>1, <1>2, <2>1, <2>5 DEF Typed, ServerRefuses, Disrupt
  <2> QED
    BY <1>6, <2>2, <2>3, <2>4, <2>5 DEF ServerHandles
<1>7. ASSUME NEW type \in {"detached", "failed"}, ServerEnds(type)
      PROVE  Typed'
  BY <1>1, <1>2, <1>7, NoMembersType DEF Typed, ServerEnds, Disrupt, link, sending
<1>8. CASE Receive
  <2>1. /\ inbox # <<>> /\ Head(inbox) \in Arrivals /\ Head(inbox) = inbox[1]
        /\ inbox' = Tail(inbox) /\ Tail(inbox) \in Seq(Arrivals)
        /\ UNCHANGED <<connection, resumable, conn, server, count>>
    BY <1>1, <1>8 DEF Receive, link
  <2>2. CASE ReceiveAttached
    <3>1. tasks' \in Seq(Tasks)
      BY <1>1, <2>2, OnAttachedType DEF ReceiveAttached
    <3> QED
      BY <2>1, <2>2, <3>1 DEF Typed, ReceiveAttached, sending
  <2>3. CASE ReceiveDetached
    <3>1. CASE channel = "detaching"
      <4>1. channel' = "detached" /\ ActOnDetached
              /\ UNCHANGED <<outbox, tasks, msgSerial, unacked>>
        BY <2>3, <3>1 DEF ReceiveDetached
      <4>2. calls' \in Seq(Calls) /\ pending' = <<>> /\ mine' \in OwnMaps
        BY <1>1, <4>1, DetachedOf, EmptyMapType DEF ActOnDetached
      <4> QED
        BY <1>2, <2>1, <4>1, <4>2 DEF Typed
    <3>2. CASE channel = "attaching"
      <4>1. channel' = "suspended" /\ ActOnSuspended
              /\ UNCHANGED <<outbox, tasks, msgSerial, unacked>>
        BY <2>3, <3>2 DEF ReceiveDetached
      <4>2. Settle(CallsOf(pending), "failed") /\ pending' = <<>> /\ mine' = mine
        BY <4>1 DEF ActOnSuspended, FailPending
      <4>3. calls' \in Seq(Calls)
        <5>1. "failed" \in Ats
          BY DEF Ats
        <5> QED
          BY <1>1, <4>2, <5>1, SettleOf
      <4> QED
        BY <1>2, <2>1, <4>1, <4>2, <4>3 DEF Typed
    <3>3. CASE channel \notin {"attaching", "detaching"}
      <4>1. RequestAttach /\ UNCHANGED <<mine, pending, calls, tasks, msgSerial, unacked>>
        BY <2>3, <3>3 DEF ReceiveDetached
      <4> QED
        BY <1>3, <2>1, <4>1 DEF Typed, RequestAttach
    <3> QED
      BY <3>1, <3>2, <3>3
  <2>4. CASE ReceiveError
    <3>1. channel' = "failed" /\ ActOnDetached /\ UNCHANGED <<tasks, outbox, msgSerial, unacked>>
      BY <2>4 DEF ReceiveError, sending
    <3>2. calls' \in Seq(Calls) /\ pending' = <<>> /\ mine' \in OwnMaps
      BY <1>1, <3>1, DetachedOf, EmptyMapType DEF ActOnDetached
    <3> QED
      BY <1>2, <2>1, <3>1, <3>2 DEF Typed
  <2>5. CASE ReceivePresence
    <3>1. PICK items \in Seq(ToldItems) : items = Head(inbox).items
      BY <2>1, <2>5 DEF ReceivePresence, Arrivals
    <3>2. mine' \in OwnMaps
      <4>1. \E after \in [0..Len(items) -> OwnMaps] : OwnMembers(items) = after[Len(items)]
        BY <1>1, OwnMembersFold
      <4>2. Len(items) \in 0..Len(items)
        BY LenProperties
      <4> QED
        BY <2>5, <3>1, <4>1, <4>2 DEF ReceivePresence
    <3>3. calls' \in Seq(Calls)
      BY <1>1, <2>1, <2>5, ShownOf
    <3> QED
      BY <2>1, <2>5, <3>2, <3>3 DEF Typed, ReceivePresence, sending
  <2>6. CASE ReceiveAnswer
    <3>1. calls' \in Seq(Calls)
      BY <1>1, <2>1, <2>6, AnsweredOf
    <3>2. unacked # <<>> /\ unacked' = Tail(unacked)
      <4>1. inbox[1].type \in Answers /\ 1 \in DOMAIN inbox
        BY <1>1, <2>1, <2>6 DEF ReceiveAnswer, Answers
      <4>2. \E n \in DOMAIN unacked : TRUE
        BY <1>8, <4>1 DEF Receive, Linked, Answered, Matches
      <4> QED
        BY <2>6, <4>2 DEF ReceiveAnswer
    <3>3. unacked' \in Seq(Messages)
      BY <1>1, <3>2
    <3> QED
      BY <2>1, <2>6, <3>1, <3>3 DEF Typed, ReceiveAnswer
  <2> QED
    BY <1>8, <2>2, <2>3, <2>4, <2>5, <2>6 DEF Receive
<1>9. ASSUME NEW kind \in {"resumed", "lost"}, Lose(kind)
      PROVE  Typed'
  <2>1. /\ connection' = "down" /\ resumable' = (kind = "resumed") /\ count' = count + 1
        /\ UNCHANGED <<conn, channel, mine, pending, tasks, calls, msgSerial, unacked>>
    BY <1>9 DEF Lose, Disrupt
  <2>2. resumable' \in BOOLEAN
    BY <2>1
  <2>3. /\ outbox' \in Seq(Requests) /\ inbox' \in Seq(Arrivals)
        /\ server' \in [state : {"new", "attached", "detached"}, members : MemberMaps]
    BY <1>1, <1>2, <1>9, <1>17 DEF Lose, service
  <2> QED
    BY <1>1, <2>1, <2>2, <2>3 DEF Typed
<1>10. ASSUME NEW state \in {"suspended", "closed"}, GiveUp(state)
       PROVE  Typed'
  <2>1. /\ connection' = state /\ resumable' = FALSE /\ unacked' = <<>> /\ outbox' = <<>>
           /\ inbox' = <<>>
        /\ server' = NoMembers("new") /\ msgSerial' = 0 /\ conn' = conn /\ tasks' = tasks
        /\ count' = count + 1
    BY <1>10 DEF GiveUp, Disrupt
  <2>2. /\ unacked' \in Seq(Messages) /\ outbox' \in Seq(Requests) /\ inbox' \in Seq(Arrivals)
        /\ server' \in [state : {"new", "attached", "detached"}, members : MemberMaps]
    BY <1>2, <1>17, <2>1
  <2>3. resumable' \in BOOLEAN /\ tasks' \in Seq(Tasks)
    BY <1>1, <2>1
  <2>4. connection' \in {"connected", "opening", "down", "suspended", "closed"}
    BY <2>1
  <2>5. calls' \in Seq(Calls)
    BY <1>1, <1>10, GivenUpOf
  <2>6. /\ channel' \in {"detached", "suspended", channel} /\ pending' \in {<<>>, pending}
        /\ mine' \in {Map!EmptyMap, mine}
    BY <1>10 DEF GiveUp
  <2>7. mine' \in OwnMaps /\ pending' \in Seq(Entries)
    BY <1>1, <1>2, <2>6, EmptyMapType
  <2> QED
    BY <1>1, <2>1, <2>2, <2>3, <2>4, <2>5, <2>6, <2>7 DEF Typed
<1>11. CASE Connect
  <2>1. PICK resent \in Seq(Requests) : resent = (IF resumable THEN outbox ELSE unacked)
    <3>1. Messages \subseteq Requests
      BY DEF Requests
    <3>2. unacked \in Seq(Requests)
      <4> HIDE DEF Messages, Requests
      <4> QED
        BY <1>1, <3>1
    <3> QED
      BY <1>1, <3>2
  <2>2. PICK asked \in Seq(Requests) :
          asked = (IF channel \in {"attaching", "attached"} THEN <<[type |-> "attach"]>>
                   ELSE IF channel = "detaching" THEN <<[type |-> "detach"]>> ELSE <<>>)
    <3>1. PICK a, d \in Requests : a = [type |-> "attach"] /\ d = [type |-> "detach"]
      BY DEF Requests
    <3>2. <<a>> \in Seq(Requests) /\ <<d>> \in Seq(Requests)
      OBVIOUS
    <3> QED
      BY <1>2, <3>1, <3>2
  <2>3. outbox' = resent \o asked
    BY <1>11, <2>1, <2>2 DEF Connect
  <2>4. outbox' \in Seq(Requests)
    BY <2>3, ConcatProperties
  <2>5. tasks' \in Seq(Tasks)
    BY <1>1, <1>2, <1>11 DEF Connect
  <2> QED
    BY <1>1, <1>11, <2>4, <2>5 DEF Typed, Connect, service
<1>12. CASE ConnectAgain
  BY <1>1, <1>12 DEF Typed, ConnectAgain, sending, service
<1>13. CASE Attach
  BY <1>1, <1>3, <1>13 DEF Typed, Attach, RequestAttach, link, service
<1>14. CASE Detach
  <2>1. UNCHANGED <<connection, resumable, conn, tasks, msgSerial, unacked, server, inbox>>
          /\ count' = count + 1
    BY <1>14 DEF Detach, Disrupt, link, service
  <2>2. CASE channel' = "detached" /\ ActOnDetached /\ UNCHANGED outbox
    <3>1. calls' \in Seq(Calls) /\ pending' = <<>> /\ mine' \in OwnMaps
      BY <1>1, <2>2, DetachedOf, EmptyMapType DEF ActOnDetached
    <3> QED
      BY <1>1, <1>2, <2>1, <2>2, <3>1 DEF Typed
  <2>3. CASE channel' = "detaching" /\ outbox' = Append(outbox, [type |-> "detach"])
             /\ UNCHANGED <<mine, pending, calls>>
    BY <1>1, <1>3, <2>1, <2>3 DEF Typed
  <2> QED
    BY <1>14, <2>2, <2>3 DEF Detach
<1>15. CASE TimeOut
  <2>1. UNCHANGED <<connection, resumable, conn, outbox, msgSerial, unacked, server, inbox>>
          /\ count' = count + 1
    BY <1>15 DEF TimeOut, Disrupt, link, service, sending
  <2>2. CASE channel' = "suspended" /\ ActOnSuspended /\ UNCHANGED tasks
    <3>1. Settle(CallsOf(pending), "failed") /\ pending' = <<>> /\ mine' = mine
      BY <2>2 DEF ActOnSuspended, FailPending
    <3>2. calls' \in Seq(Calls)
      <4>1. "failed" \in Ats
        BY DEF Ats
      <4> QED
        BY <1>1, <3>1, <4>1, SettleOf
    <3> QED
      BY <1>1, <1>2, <2>1, <2>2, <3>1, <3>2 DEF Typed
  <2>3. CASE channel' = "attached" /\ OnAttached /\ UNCHANGED <<mine, pending, calls>>
    <3>1. tasks' \in Seq(Tasks)
      BY <2>3, OnAttachedType
    <3> QED
      BY <1>1, <2>1, <2>3, <3>1 DEF Typed
  <2> QED
    BY <1>15, <2>2, <2>3 DEF TimeOut
<1>16. CASE RetryAttach
  BY <1>1, <1>3, <1>16 DEF Typed, RetryAttach, RequestAttach, link, service
<1> QED
  BY <1>4, <1>5, <1>6, <1>7, <1>8, <1>9, <1>10, <1>11, <1>12, <1>13, <1>14, <1>15, <1>16
     DEF Next, Enter, Leave
-----------------------------------------------------------------------------
(* What becomes of the calls.                                               *)

\* Whether an acknowledgement of call i is received, and whether a message that shows it is.
Acknowledged(i) ==
  Receive /\ ReceiveAnswer /\ inbox[1].type = "ack" /\ i \in CallsOf(Head(unacked).entries)
Shown(i) == Receive /\ ReceivePresence /\ Shows(inbox[1], i)

\* Calls are added at the end, and what they are stays; they are queued, sent and answered, in
\* this order.
Evolution ==
  /\ DOMAIN calls \subseteq DOMAIN calls'
  /\ \A i \in DOMAIN calls :
       /\ calls'[i].client = calls[i].client /\ calls'[i].action = calls[i].action
       /\ calls'[i].at = "queued" => calls[i].at = "queued"
       /\ calls'[i].at = "sent" => calls[i].at \in {"queued", "sent"}
       /\ calls'[i].at = "done" => calls[i].at = "done" \/ Acknowledged(i)
       /\ calls'[i].at = "gone" => calls[i].at \in {"done", "gone"}
       /\ calls'[i].shown => calls[i].shown \/ Shown(i)
  /\ \A i \in DOMAIN calls' \ DOMAIN calls :
       /\ i = Len(calls) + 1 /\ \A j \in DOMAIN calls : j < i
       /\ ~calls'[i].shown /\ calls'[i].at \in {"queued", "sent"}
       /\ calls'[i].at = "sent" => channel = "attached" /\ MayAct

\* Every step is an evolution of the calls.
LEMMA CallsEvolve ==
  ASSUME Typed, Linked, Accounted, Next
  PROVE  Evolution
<1>1. /\ calls \in Seq(Calls) /\ inbox \in Seq(Arrivals)
      /\ \A i \in DOMAIN calls : calls[i].at \in Ats /\ calls[i].shown \in BOOLEAN
  <2>1. calls \in Seq(Calls) /\ inbox \in Seq(Arrivals)
    BY DEF Typed
  <2>2. \A i \in DOMAIN calls : calls[i] \in Calls
    BY <2>1, ElementOfSeq, LenProperties
  <2> QED
    BY <2>1, <2>2 DEF Calls
<1>2. \A i \in DOMAIN calls : i \in CallsOf(pending) => calls[i].at = "queued"
  BY DEF Accounted
<1>3. ASSUME UNCHANGED calls PROVE Evolution
  BY <1>3 DEF Evolution
<1>4. ASSUME Settle(CallsOf(pending), "failed") PROVE Evolution
  <2>1. PICK which : which = CallsOf(pending) /\ Settle(which, "failed")
    BY <1>4
  <2>2. "failed" \in Ats
    BY DEF Ats
  <2>3. /\ DOMAIN calls' = DOMAIN calls
        /\ \A i \in DOMAIN calls :
              /\ calls'[i].client = calls[i].client /\ calls'[i].action = calls[i].action
              /\ calls'[i].shown = calls[i].shown
              /\ calls'[i].at = IF i \in which THEN "failed" ELSE calls[i].at
    BY <1>1, <2>1, <2>2, SettleOf
  <2> QED
    BY <1>1, <2>3 DEF Evolution
<1>5. ASSUME Settle(CallsOf(pending), "sent") PROVE Evolution
  <2>1. PICK which : which = CallsOf(pending) /\ Settle(which, "sent")
    BY <1>5
  <2>2. "sent" \in Ats
    BY DEF Ats
  <2>3. /\ DOMAIN calls' = DOMAIN calls
        /\ \A i \in DOMAIN calls :
              /\ calls'[i].client = calls[i].client /\ calls'[i].action = calls[i].action
              /\ calls'[i].shown = calls[i].shown
              /\ calls'[i].at = IF i \in which THEN "sent" ELSE calls[i].at
    BY <1>1, <2>1, <2>2, SettleOf
  <2> QED
    BY <1>1, <1>2, <2>1, <2>3 DEF Evolution
<1>6. ASSUME ActOnDetached PROVE Evolution
  BY <1>1, <1>6, DetachedOf DEF Evolution
<1>7. ASSUME NEW c \in Clients, NEW action \in {"enter", "leave"}, Called(c, action), MayAct
      PROVE  Evolution
  <2>1. /\ Len(calls) \in Nat
        /\ DOMAIN calls = 1..Len(calls) /\ DOMAIN calls' = 1..(Len(calls) + 1)
        /\ \A i \in DOMAIN calls : calls'[i] = calls[i]
        /\ calls'[Len(calls) + 1] = [client |-> c, action |-> action, shown |-> FALSE,
                                     at |-> IF channel = "attached" THEN "sent" ELSE "queued"]
    BY <1>1, <1>7, CalledOf
  <2>2. /\ ~calls'[Len(calls) + 1].shown /\ calls'[Len(calls) + 1].at \in {"queued", "sent"}
        /\ calls'[Len(calls) + 1].at = "sent" => channel = "attached"
    BY <2>1
  <2>3. \A i \in DOMAIN calls' \ DOMAIN calls : i = Len(calls) + 1 /\ \A j \in DOMAIN calls : j < i
    BY <2>1
  <2> QED
    BY <1>1, <1>7, <2>1, <2>2, <2>3 DEF Evolution
<1>8. CASE RunTask
  BY <1>3, <1>4, <1>5, <1>8 DEF RunTask, RunAttach, RunReenter, RunPending, SendPending
<1>9. CASE Receive
  <2>1. inbox # <<>>
    BY <1>9 DEF Receive
  <2>2. CASE ReceiveAttached
    BY <1>3, <2>2 DEF ReceiveAttached
  <2>3. CASE ReceiveDetached
    BY <1>3, <1>4, <1>6, <2>3 DEF ReceiveDetached, ActOnSuspended, FailPending
  <2>4. CASE ReceiveError
    BY <1>6, <2>4 DEF ReceiveError
  <2>5. CASE ReceivePresence
    BY <1>1, <1>9, <2>1, <2>5, ShownOf DEF Evolution, Shown
  <2>6. CASE ReceiveAnswer
    <3>1. PICK which, again : which = CallsOf(Head(unacked).entries)
            /\ again = Again(Head(unacked).entries)
      OBVIOUS
    <3>2. /\ DOMAIN calls' = DOMAIN calls
          /\ \A i \in DOMAIN calls :
                  /\ calls'[i].client = calls[i].client /\ calls'[i].action = calls[i].action
                  /\ calls'[i].shown = calls[i].shown
                  /\ calls'[i].at = IF inbox[1].type = "ack"
                       THEN IF i \in which THEN "done" ELSE calls[i].at
                       ELSE IF i \in which THEN "failed"
                       ELSE IF calls[i].client \in again /\ calls[i].at = "done" THEN "gone"
                       ELSE calls[i].at
      BY <1>1, <2>1, <2>6, <3>1, AnsweredOf
    <3> QED
      BY <1>1, <1>9, <2>6, <3>1, <3>2 DEF Evolution, Acknowledged
  <2> QED
    BY <1>9, <2>2, <2>3, <2>4, <2>5, <2>6 DEF Receive
<1>10. ASSUME NEW state \in {"suspended", "closed"}, GiveUp(state) PROVE Evolution
  BY <1>1, <1>10, GivenUpOf DEF Evolution
<1>11. CASE Detach
  BY <1>3, <1>6, <1>11 DEF Detach
<1>12. CASE TimeOut
  BY <1>3, <1>4, <1>12 DEF TimeOut, ActOnSuspended, FailPending
<1> QED
  BY <1>3, <1>7, <1>8, <1>9, <1>10, <1>11, <1>12 DEF Next, Enter, Leave, ServerHandles, ServerEnds,
     Lose, Connect, ConnectAgain, Attach, RetryAttach

\* What is known of an entry or an item stays so.
LEMMA KnownStays ==
  ASSUME Evolution
  PROVE  /\ \A c, d : Entered(c, d) => Entered(c, d)'
         /\ \A e : KnownEntry(e) => KnownEntry(e)'
         /\ \A c, item : KnownItem(c, item) => KnownItem(c, item)'
<1>1. \A c, d : Entered(c, d) => Entered(c, d)'
  BY DEF Evolution, Entered
<1>2. \A e : KnownEntry(e) => KnownEntry(e)'
  BY <1>1 DEF Evolution, KnownEntry
<1>3. \A c, item : KnownItem(c, item) => KnownItem(c, item)'
  BY DEF Evolution, KnownItem
<1> QED
  BY <1>1, <1>2, <1>3

\* The calls of a message that gets its entries one by one.
LEMMA CallsOfAppend ==
  ASSUME NEW s \in Seq(Entries), NEW e \in Entries
  PROVE  CallsOf(Append(s, e)) = CallsOf(s) \union {e.call}
<1>1. PICK t \in Seq(Entries) : t = Append(s, e)
  BY AppendProperties
<1>2. /\ Len(s) \in Nat /\ DOMAIN s = 1..Len(s) /\ DOMAIN t = 1..(Len(s) + 1)
      /\ \A i \in 1..Len(s) : t[i] = s[i]
      /\ t[Len(s) + 1] = e
  BY <1>1, AppendProperties, LenProperties
<1>3. CallsOf(t) = CallsOf(s) \union {e.call}
  <2>1. ASSUME NEW x \in CallsOf(t) PROVE x \in CallsOf(s) \union {e.call}
    BY <1>2, <2>1 DEF CallsOf
  <2>2. ASSUME NEW x \in CallsOf(s) PROVE x \in CallsOf(t)
    BY <1>2, <2>2 DEF CallsOf
  <2>3. e.call \in CallsOf(t)
    BY <1>2 DEF CallsOf
  <2> QED
    BY <2>1, <2>2, <2>3
<1> QED
  BY <1>1, <1>3

\* The calls of a message of one entry.
LEMMA CallsOfOne ==
  ASSUME NEW e \in Entries
  PROVE  CallsOf(<<e>>) = {e.call} /\ <<e>> \in Seq(Entries) /\ DOMAIN <<e>> = {1} /\ <<e>>[1] = e
<1>1. DOMAIN <<e>> = {1} /\ <<e>>[1] = e /\ <<e>> \in Seq(Entries)
  OBVIOUS
<1> QED
  BY <1>1 DEF CallsOf

\* What a step can make of the calls that are queued and sent.
SentIn(i, messages) == \E m \in DOMAIN messages : i \in CallsOf(messages[m].entries)

\* What is sent with one message more.
LEMMA SentAppend ==
  ASSUME NEW s \in Seq(Messages), NEW m \in Messages, NEW i
  PROVE  SentIn(i, Append(s, m)) <=> SentIn(i, s) \/ i \in CallsOf(m.entries)
<1>1. PICK t \in Seq(Messages) : t = Append(s, m)
  BY AppendProperties
<1>2. /\ Len(s) \in Nat /\ DOMAIN s = 1..Len(s) /\ DOMAIN t = 1..(Len(s) + 1)
      /\ \A n \in 1..Len(s) : t[n] = s[n]
      /\ t[Len(s) + 1] = m
  BY <1>1, AppendProperties, LenProperties
<1> HIDE DEF Messages, CallsOf
<1>3. SentIn(i, t) <=> SentIn(i, s) \/ i \in CallsOf(m.entries)
  BY <1>2 DEF SentIn
<1> QED
  BY <1>1, <1>3

\* An operation is in one message only.
LEMMA SentOnce ==
  ASSUME Typed, KnownUnacked, SentInOrder, NEW i \in DOMAIN calls, unacked # <<>>,
         i \in CallsOf(Head(unacked).entries)
  PROVE  ~SentIn(i, Tail(unacked))
<1> SUFFICES ASSUME SentIn(i, Tail(unacked)) PROVE FALSE
  OBVIOUS
<1>1. unacked \in Seq(Messages) /\ calls \in Seq(Calls) /\ i \in Nat \ {0}
  BY LenProperties DEF Typed
<1>2. /\ Head(unacked) = unacked[1] /\ 1 \in DOMAIN unacked
      /\ \A m \in DOMAIN Tail(unacked) : m + 1 \in DOMAIN unacked /\ 1 < m + 1
                                         /\ Tail(unacked)[m] = unacked[m + 1]
  BY <1>1
<1>3. PICK m \in DOMAIN unacked : 1 < m /\ i \in CallsOf(unacked[m].entries)
  BY <1>2 DEF SentIn
<1>4. PICK q \in DOMAIN unacked[1].entries : unacked[1].entries[q].call = i
  BY <1>2 DEF CallsOf
<1>5. PICK r \in DOMAIN unacked[m].entries : unacked[m].entries[r].call = i
  BY <1>3 DEF CallsOf
<1>6. Follows(unacked[1].entries[q], unacked[m].entries[r])
  BY <1>2, <1>3, <1>4, <1>5 DEF SentInOrder
<1>7. KnownEntry(unacked[1].entries[q]) /\ KnownEntry(unacked[m].entries[r])
  BY <1>2, <1>3, <1>4, <1>5 DEF KnownUnacked
<1> QED
  BY <1>1, <1>4, <1>5, <1>6, <1>7 DEF Follows, KnownEntry

\* Every step keeps the account of the calls.
LEMMA AccountedStep ==
  ASSUME Typed, Linked, Answered, Known, SentInOrder, Accounted, Next
  PROVE  Accounted'
<1>1. /\ calls \in Seq(Calls) /\ pending \in Seq(Entries) /\ unacked \in Seq(Messages)
      /\ inbox \in Seq(Arrivals) /\ tasks \in Seq(Tasks)
      /\ Len(calls) \in Nat /\ DOMAIN calls = 1..Len(calls)
  BY LenProperties DEF Typed
<1>2. \A i \in DOMAIN calls :
         /\ calls[i].at = "queued" <=> i \in CallsOf(pending)
         /\ calls[i].at = "sent" <=> SentIn(i, unacked)
  BY DEF Accounted, SentIn
<1>3. ASSUME \A i \in DOMAIN calls' :
         /\ calls'[i].at = "queued" <=> i \in CallsOf(pending)'
         /\ calls'[i].at = "sent" <=> SentIn(i, unacked')
      PROVE  Accounted'
  BY <1>3 DEF Accounted, SentIn, CallsOf
<1>4. /\ \A i \in DOMAIN calls : i # 0 /\ i # Len(calls) + 1
      /\ Len(calls) + 1 \notin CallsOf(pending) /\ ~SentIn(Len(calls) + 1, unacked)
  <2>1. \A q \in DOMAIN pending : pending[q].call = 0 \/ pending[q].call \in DOMAIN calls
    BY DEF Known, KnownPending, KnownEntry
  <2>2. \A n \in DOMAIN unacked : \A q \in DOMAIN unacked[n].entries :
           unacked[n].entries[q].call = 0 \/ unacked[n].entries[q].call \in DOMAIN calls
    BY DEF Known, KnownUnacked, KnownEntry
  <2>3. Len(calls) + 1 \notin DOMAIN calls /\ Len(calls) + 1 # 0
    BY <1>1
  <2> QED
    BY <1>1, <2>1, <2>2, <2>3 DEF CallsOf, SentIn
<1>5. CallsOf(<<>>) = {} /\ \A i : ~SentIn(i, <<>>)
  BY DEF CallsOf, SentIn
<1>6. ASSUME UNCHANGED <<calls, pending, unacked>> PROVE Accounted'
  BY <1>6 DEF Accounted, CallsOf
<1>7. ASSUME NEW entry \in Entries, entry.call = 0, Append(pending, entry) = pending',
             UNCHANGED <<calls, unacked>>
      PROVE  Accounted'
  <2>1. CallsOf(pending)' = CallsOf(pending) \union {0}
    <3>1. PICK new : new = pending' /\ new = Append(pending, entry)
      BY <1>7
    <3>2. CallsOf(new) = CallsOf(pending) \union {0}
      BY <1>1, <1>7, <3>1, CallsOfAppend
    <3>3. CallsOf(pending)' = CallsOf(new)
      BY <3>1 DEF CallsOf
    <3> QED
      BY <3>2, <3>3
  <2> QED
    BY <1>2, <1>3, <1>4, <1>7, <2>1
<1>8. ASSUME NEW entry \in Entries, entry.call = 0, Send(<<entry>>), UNCHANGED <<calls, pending>>
      PROVE  Accounted'
  <2>1. PICK m \in Messages : m.entries = <<entry>> /\ unacked' = Append(unacked, m)
    BY <1>8, SendOf, CallsOfOne
  <2>2. CallsOf(m.entries) = {0}
    BY <1>8, <2>1, CallsOfOne
  <2>3. \A i : SentIn(i, unacked') <=> SentIn(i, unacked) \/ i = 0
    BY <1>1, <2>1, <2>2, SentAppend
  <2> QED
    BY <1>2, <1>3, <1>4, <1>8, <2>3 DEF CallsOf
<1>9. ASSUME pending' = <<>>, Settle(CallsOf(pending), "failed"), UNCHANGED unacked
      PROVE  Accounted'
  <2>1. PICK which : which = CallsOf(pending) /\ Settle(which, "failed")
    BY <1>9
  <2>2. "failed" \in Ats
    BY DEF Ats
  <2>3. DOMAIN calls' = DOMAIN calls
        /\ \A i \in DOMAIN calls : calls'[i].at = IF i \in which THEN "failed" ELSE calls[i].at
    BY <1>1, <2>1, <2>2, SettleOf
  <2>4. CallsOf(pending)' = {}
    BY <1>5, <1>9 DEF CallsOf
  <2> QED
    BY <1>2, <1>3, <1>9, <2>1, <2>3, <2>4
<1>10. ASSUME ActOnDetached, UNCHANGED unacked
       PROVE  Accounted'
  <2>1. CallsOf(pending)' = {}
    BY <1>5, <1>10 DEF CallsOf, ActOnDetached
  <2> QED
    BY <1>1, <1>2, <1>3, <1>10, <2>1, DetachedOf
<1>11. ASSUME NEW c \in Clients, NEW action \in {"enter", "leave"},
              EnterBy(NewEntry(c, action), tasks), Called(c, action)
       PROVE  Accounted'
  <2>1. PICK entry \in Entries : entry = NewEntry(c, action) /\ entry.call = Len(calls) + 1
    BY <1>1, EntryType
  <2>2. /\ DOMAIN calls' = 1..(Len(calls) + 1)
        /\ \A i \in DOMAIN calls : calls'[i] = calls[i]
        /\ calls'[Len(calls) + 1].at = IF channel = "attached" THEN "sent" ELSE "queued"
    <3>1. PICK n : n = Len(calls)
      OBVIOUS
    <3>2. /\ DOMAIN calls' = 1..(n + 1) /\ \A i \in DOMAIN calls : calls'[i] = calls[i]
          /\ calls'[n + 1] = [client |-> c, action |-> action, shown |-> FALSE,
                              at |-> IF channel = "attached" THEN "sent" ELSE "queued"]
      BY <1>1, <1>11, <3>1, CalledOf
    <3> QED
      BY <3>1, <3>2
  <2>3. CASE channel = "attached"
    <3>1. Send(<<entry>>) /\ UNCHANGED pending
      BY <1>11, <2>1, <2>3 DEF EnterBy
    <3>2. PICK m \in Messages : m.entries = <<entry>> /\ unacked' = Append(unacked, m)
      BY <3>1, SendOf, CallsOfOne
    <3>3. CallsOf(m.entries) = {Len(calls) + 1}
      BY <2>1, <3>2, CallsOfOne
    <3>4. \A i : SentIn(i, unacked') <=> SentIn(i, unacked) \/ i = Len(calls) + 1
      BY <1>1, <3>2, <3>3, SentAppend
    <3>5. CallsOf(pending)' = CallsOf(pending)
      BY <3>1 DEF CallsOf
    <3>6. ASSUME NEW i \in DOMAIN calls
          PROVE  /\ calls'[i].at = "queued" <=> i \in CallsOf(pending)'
                 /\ calls'[i].at = "sent" <=> SentIn(i, unacked')
      BY <1>2, <1>4, <2>2, <3>4, <3>5
    <3>7. /\ calls'[Len(calls) + 1].at = "queued" <=> Len(calls) + 1 \in CallsOf(pending)'
          /\ calls'[Len(calls) + 1].at = "sent" <=> SentIn(Len(calls) + 1, unacked')
      BY <1>4, <2>2, <2>3, <3>4, <3>5
    <3>8. \A i \in DOMAIN calls' : i \in DOMAIN calls \/ i = Len(calls) + 1
      BY <1>1, <2>2
    <3> QED
      BY <1>3, <3>6, <3>7, <3>8
  <2>4. CASE channel # "attached"
    <3>1. pending' = Append(pending, entry) /\ UNCHANGED unacked
      BY <1>11, <2>1, <2>4 DEF EnterBy, sending
    <3>2. CallsOf(pending)' = CallsOf(pending) \union {Len(calls) + 1}
      <4>1. PICK new : new = pending' /\ new = Append(pending, entry)
        BY <3>1
      <4>2. CallsOf(new) = CallsOf(pending) \union {Len(calls) + 1}
        BY <1>1, <2>1, <4>1, CallsOfAppend
      <4>3. CallsOf(pending)' = CallsOf(new)
        BY <4>1 DEF CallsOf
      <4> QED
        BY <4>2, <4>3
    <3>3. ASSUME NEW i \in DOMAIN calls
          PROVE  /\ calls'[i].at = "queued" <=> i \in CallsOf(pending)'
                 /\ calls'[i].at = "sent" <=> SentIn(i, unacked')
      BY <1>2, <1>4, <2>2, <3>1, <3>2
    <3>4. /\ calls'[Len(calls) + 1].at = "queued" <=> Len(calls) + 1 \in CallsOf(pending)'
          /\ calls'[Len(calls) + 1].at = "sent" <=> SentIn(Len(calls) + 1, unacked')
      BY <1>4, <2>2, <2>4, <3>1, <3>2
    <3>5. \A i \in DOMAIN calls' : i \in DOMAIN calls \/ i = Len(calls) + 1
      BY <1>1, <2>2
    <3> QED
      BY <1>3, <3>3, <3>4, <3>5
  <2> QED
    BY <2>3, <2>4
<1>12. CASE RunTask
  <2>1. CASE RunAttach
    BY <1>6, <2>1 DEF RunAttach
  <2>2. CASE Head(tasks).type = "reenter" /\ RunReenter
    <3>1. PICK entry \in Entries : entry = Head(tasks).entry /\ entry.call = 0
      <4>1. tasks # <<>> /\ 1 \in DOMAIN tasks /\ Head(tasks) = tasks[1] /\ tasks[1] \in Tasks
        BY <1>1, <1>12 DEF RunTask
      <4>2. Head(tasks).entry \in Entries
        BY <2>2, <4>1 DEF Tasks
      <4> QED
        BY <2>2, <4>1, <4>2 DEF Known, KnownTasks
    <3>2. CASE EnterBy(entry, Tail(tasks))
      BY <1>7, <1>8, <2>2, <3>1, <3>2 DEF EnterBy, RunReenter, sending
    <3>3. CASE UNCHANGED <<pending, sending>>
      BY <1>6, <2>2, <3>3 DEF RunReenter, sending
    <3> QED
      BY <2>2, <3>1, <3>2, <3>3 DEF RunReenter
  <2>3. CASE RunPending
    <3>1. CASE UNCHANGED <<pending, calls, sending>>
      BY <1>6, <3>1 DEF sending
    <3>2. CASE Send(pending) /\ Settle(CallsOf(pending), "sent") /\ pending' = <<>>
      <4>1. PICK m \in Messages : m.entries = pending /\ unacked' = Append(unacked, m)
        BY <1>1, <3>2, SendOf
      <4>2. \A i : SentIn(i, unacked') <=> SentIn(i, unacked) \/ i \in CallsOf(pending)
        BY <1>1, <4>1, SentAppend
      <4>3. PICK which : which = CallsOf(pending) /\ Settle(which, "sent")
        BY <3>2
      <4>4. "sent" \in Ats
        BY DEF Ats
      <4>5. DOMAIN calls' = DOMAIN calls
            /\ \A i \in DOMAIN calls : calls'[i].at = IF i \in which THEN "sent" ELSE calls[i].at
        BY <1>1, <4>3, <4>4, SettleOf
      <4>6. CallsOf(pending)' = {}
        BY <1>5, <3>2 DEF CallsOf
      <4> QED
        BY <1>2, <1>3, <4>2, <4>3, <4>5, <4>6
    <3>3. CASE Settle(CallsOf(pending), "failed") /\ UNCHANGED sending /\ pending' = <<>>
      BY <1>9, <3>3 DEF sending
    <3> QED
      BY <2>3, <3>1, <3>2, <3>3 DEF RunPending, SendPending
  <2> QED
    BY <1>12, <2>1, <2>2, <2>3 DEF RunTask
<1>13. CASE Receive
  <2>1. inbox # <<>>
    BY <1>13 DEF Receive
  <2>2. CASE ReceiveAttached
    BY <1>6, <2>2 DEF ReceiveAttached, sending
  <2>3. CASE ReceiveDetached
    BY <1>6, <1>9, <1>10, <2>3 DEF ReceiveDetached, ActOnSuspended, FailPending
  <2>4. CASE ReceiveError
    BY <1>10, <2>4 DEF ReceiveError, sending
  <2>5. CASE ReceivePresence
    <3>1. DOMAIN calls' = DOMAIN calls /\ \A i \in DOMAIN calls : calls'[i].at = calls[i].at
      BY <1>1, <2>1, <2>5, ShownOf
    <3>2. CallsOf(pending)' = CallsOf(pending) /\ unacked' = unacked
      BY <2>5 DEF ReceivePresence, sending, CallsOf
    <3> QED
      BY <1>2, <1>3, <3>1, <3>2
  <2>6. CASE ReceiveAnswer
    <3>1. inbox[1].type \in Answers /\ 1 \in DOMAIN inbox
      BY <1>1, <2>1, <2>6 DEF ReceiveAnswer, Answers
    <3>2. \E n \in DOMAIN unacked : TRUE
      BY <1>13, <3>1 DEF Receive, Linked, Answered, Matches
    <3>3. unacked # <<>> /\ unacked' = Tail(unacked) /\ pending' = pending
      BY <2>6, <3>2 DEF ReceiveAnswer
    <3>4. PICK which, again : which = CallsOf(Head(unacked).entries)
            /\ again = Again(Head(unacked).entries)
      OBVIOUS
    <3>5. /\ DOMAIN calls' = DOMAIN calls
          /\ \A i \in DOMAIN calls :
               calls'[i].at = IF inbox[1].type = "ack"
                       THEN IF i \in which THEN "done" ELSE calls[i].at
                       ELSE IF i \in which THEN "failed"
                       ELSE IF calls[i].client \in again /\ calls[i].at = "done" THEN "gone"
                       ELSE calls[i].at
      BY <1>1, <2>1, <2>6, <3>4, AnsweredOf
    <3>6. \A i \in DOMAIN calls : SentIn(i, unacked) <=> i \in which \/ SentIn(i, Tail(unacked))
      <4>1. /\ Head(unacked) = unacked[1] /\ 1 \in DOMAIN unacked
            /\ \A m \in DOMAIN Tail(unacked) : m + 1 \in DOMAIN unacked
                                               /\ Tail(unacked)[m] = unacked[m + 1]
            /\ \A m \in DOMAIN unacked : m # 1 => m - 1 \in DOMAIN Tail(unacked)
                                                  /\ Tail(unacked)[m - 1] = unacked[m]
        BY <1>1, <3>3, SMTT(60)
      <4> QED
        BY <3>4, <4>1 DEF SentIn
    <3>7. \A i \in DOMAIN calls : i \in which => ~SentIn(i, Tail(unacked))
      BY <3>3, <3>4, SentOnce DEF Known
    <3>8. \A i \in DOMAIN calls : i \in which => calls[i].at = "sent"
      BY <1>2, <3>6
    <3>9. CallsOf(pending)' = CallsOf(pending)
      BY <3>3 DEF CallsOf
    <3>10. \A i \in DOMAIN calls :
              /\ calls'[i].at = "queued" <=> calls[i].at = "queued"
              /\ calls'[i].at = "sent" <=> calls[i].at = "sent" /\ i \notin which
      BY <3>5, <3>8
    <3> QED
      BY <1>2, <1>3, <3>3, <3>5, <3>6, <3>7, <3>9, <3>10
  <2> QED
    BY <1>13, <2>2, <2>3, <2>4, <2>5, <2>6 DEF Receive
<1>14. ASSUME NEW state \in {"suspended", "closed"}, GiveUp(state) PROVE Accounted'
  <2>1. /\ unacked' = <<>>
        /\ IF IsTold THEN pending' = <<>> ELSE pending' = pending
    BY <1>14 DEF GiveUp, IsTold
  <2>2. \A i \in DOMAIN calls : i \in Settled <=> SentIn(i, unacked)
    BY DEF Settled, SentIn
  <2>3. /\ DOMAIN calls' = DOMAIN calls
        /\ \A i \in DOMAIN calls :
             calls'[i].at = IF i \in Settled \/ (IsTold /\ i \in CallsOf(pending)) THEN "failed"
                            ELSE IF IsTold /\ state = "closed" /\ calls[i].at = "done" THEN "gone"
                            ELSE calls[i].at
    BY <1>1, <1>14, GivenUpOf
  <2>4. CallsOf(pending)' = IF IsTold THEN {} ELSE CallsOf(pending)
    BY <1>5, <2>1 DEF CallsOf
  <2> QED
    BY <1>2, <1>3, <1>5, <2>1, <2>2, <2>3, <2>4
<1>15. CASE Detach
  BY <1>6, <1>10, <1>15 DEF Detach
<1>16. CASE TimeOut
  BY <1>6, <1>9, <1>16 DEF TimeOut, ActOnSuspended, FailPending, sending
<1> QED
  BY <1>6, <1>11, <1>12, <1>13, <1>14, <1>15, <1>16 DEF Next, Enter, Leave, ServerHandles,
     ServerEnds, Lose, Connect, ConnectAgain, Attach, RetryAttach, sending
-----------------------------------------------------------------------------
(* What moves between the client and the service.                           *)

\* Nothing moves, or the client asks for the channel, ...
Still == UNCHANGED <<unacked, outbox, inbox, server, resumable>>
AsksFor(type) ==
  /\ connection = "connected" /\ outbox' = Append(outbox, [type |-> type])
  /\ UNCHANGED <<unacked, inbox, server, resumable>>

\* ... or it sends a new call, a member that is entered again, or what was pending, ...
NewCall(entries) ==
  \E c \in Clients, action \in {"enter", "leave"} :
     /\ entries = <<NewEntry(c, action)>> /\ Called(c, action)
     /\ channel = "attached" /\ MayAct /\ UNCHANGED pending
Reentry(entries) ==
  /\ \E entry \in Entries : entries = <<entry>> /\ KnownEntry(entry) /\ entry.call = 0
  /\ UNCHANGED <<calls, pending>>
Flush(entries) == entries = pending /\ pending' = <<>> /\ Settle(CallsOf(pending), "sent")

Sends(entries) ==
  /\ entries \in Seq(Entries)
  /\ NewCall(entries) \/ Reentry(entries) \/ Flush(entries)
  /\ Send(entries) /\ UNCHANGED <<inbox, server, resumable>>

\* ... or what was on its way is lost, or sent again.
Forgotten ==
  /\ resumable' = FALSE /\ outbox' = <<>> /\ inbox' = <<>> /\ server' = NoMembers("new")
  /\ unacked' \in {unacked, <<>>}
Reconnects ==
  /\ connection # "connected" /\ resumable' = TRUE /\ UNCHANGED <<unacked, inbox, server, calls>>
  /\ \E asked \in Seq(Requests) :
       /\ \A p \in DOMAIN asked : asked[p].type # "presence"
       /\ outbox' = (IF resumable THEN outbox ELSE unacked) \o asked

\* ... or the service or the client handles what arrives.
Moves ==
  \/ Still \/ Forgotten \/ Reconnects \/ ServerHandles \/ Receive
  \/ \E type \in {"attach", "detach"} : AsksFor(type)
  \/ \E entries \in Seq(Entries) : Sends(entries)
  \/ \E type \in {"detached", "failed"} : ServerEnds(type)

\* Every step is one of these.
LEMMA StepMoves ==
  ASSUME Typed, Linked, Known, Next
  PROVE  Moves
<1>1. tasks \in Seq(Tasks) /\ pending \in Seq(Entries) /\ calls \in Seq(Calls)
  BY DEF Typed
<1>2. ASSUME NEW c \in Clients, NEW action \in {"enter", "leave"}, MayAct,
             EnterBy(NewEntry(c, action), tasks), Called(c, action),
             UNCHANGED <<link, service>>
      PROVE  Moves
  <2>1. NewEntry(c, action) \in Entries
    BY <1>1, EntryType
  <2>2. CASE channel = "attached"
    <3>1. PICK entries \in Seq(Entries) : entries = <<NewEntry(c, action)>>
      BY <2>1, CallsOfOne
    <3>2. Sends(entries)
      BY <1>2, <2>2, <3>1 DEF EnterBy, Sends, NewCall, link, service
    <3> QED
      BY <3>2 DEF Moves
  <2>3. CASE channel # "attached"
    BY <1>2, <2>3 DEF Moves, Still, EnterBy, link, service, sending
  <2> QED
    BY <2>2, <2>3
<1>3. CASE RunTask
  <2>1. UNCHANGED <<connection, resumable, inbox, server>> /\ tasks # <<>>
    BY <1>3 DEF RunTask, link, service
  <2>2. CASE RunAttach
    <3>1. outbox' = outbox \/ (connection = "connected" /\ outbox' = Append(outbox, [type |-> "attach"]))
      BY <2>2 DEF RunAttach, RequestAttach, Asks
    <3> QED
      BY <2>1, <2>2, <3>1 DEF Moves, Still, AsksFor, RunAttach
  <2>3. CASE Head(tasks).type = "reenter" /\ RunReenter
    <3>1. PICK entry \in Entries : entry = Head(tasks).entry /\ entry.call = 0 /\ KnownEntry(entry)
      <4>1. 1 \in DOMAIN tasks /\ Head(tasks) = tasks[1] /\ tasks[1] \in Tasks
        BY <1>1, <2>1
      <4>2. Head(tasks).entry \in Entries
        BY <2>3, <4>1 DEF Tasks
      <4> QED
        BY <2>3, <4>1, <4>2 DEF Known, KnownTasks
    <3>2. CASE Send(<<entry>>) /\ UNCHANGED pending
      <4>1. PICK entries \in Seq(Entries) : entries = <<entry>>
        BY CallsOfOne
      <4>2. Sends(entries)
        BY <2>1, <2>3, <3>1, <3>2, <4>1 DEF Sends, Reentry, RunReenter
      <4> QED
        BY <4>2 DEF Moves
    <3>3. CASE UNCHANGED sending
      BY <2>1, <3>3 DEF Moves, Still, sending
    <3> QED
      BY <2>3, <3>1, <3>2, <3>3 DEF RunReenter, EnterBy
  <2>4. CASE RunPending
    <3>1. CASE UNCHANGED sending
      BY <2>1, <3>1 DEF Moves, Still, sending
    <3>2. CASE Send(pending) /\ Settle(CallsOf(pending), "sent") /\ pending' = <<>>
      BY <1>1, <2>1, <3>2 DEF Moves, Sends, Flush
    <3> QED
      BY <2>4, <3>1, <3>2 DEF RunPending, SendPending
  <2> QED
    BY <1>3, <2>2, <2>3, <2>4 DEF RunTask
<1>4. ASSUME NEW kind \in {"resumed", "lost"}, Lose(kind)
      PROVE  Moves
  <2>1. CASE kind = "resumed"
    BY <1>4, <2>1 DEF Linked, Lose, Moves, Still, service, Typed
  <2>2. CASE kind # "resumed"
    BY <1>4, <2>2 DEF Lose, Moves, Forgotten
  <2> QED
    BY <2>1, <2>2
<1>5. ASSUME NEW state \in {"suspended", "closed"}, GiveUp(state)
      PROVE  Moves
  BY <1>5 DEF GiveUp, Moves, Forgotten
<1>6. CASE Connect
  <2>1. PICK a \in Requests, d \in Requests : a = [type |-> "attach"] /\ d = [type |-> "detach"]
    BY DEF Requests
  <2>2. PICK asked \in Seq(Requests) :
          asked = (IF channel \in {"attaching", "attached"} THEN <<[type |-> "attach"]>>
                   ELSE IF channel = "detaching" THEN <<[type |-> "detach"]>> ELSE <<>>)
    <3>1. <<a>> \in Seq(Requests) /\ <<d>> \in Seq(Requests) /\ <<>> \in Seq(Requests)
      OBVIOUS
    <3> QED
      BY <2>1, <3>1
  <2>3. \A p \in DOMAIN asked : asked[p].type # "presence"
    BY <2>2
  <2>4. outbox' = (IF resumable THEN outbox ELSE unacked) \o asked
    BY <1>6, <2>2 DEF Connect
  <2>5. Reconnects
    BY <1>6, <2>3, <2>4 DEF Connect, Reconnects, service
  <2> QED
    BY <2>5 DEF Moves
<1>7. CASE ConnectAgain
  BY <1>7 DEF ConnectAgain, Moves, Still, sending, service
<1>8. ASSUME RequestAttach, UNCHANGED <<link, unacked, service>>
      PROVE  Moves
  <2>1. outbox' = outbox \/ (connection = "connected" /\ outbox' = Append(outbox, [type |-> "attach"]))
    BY <1>8 DEF RequestAttach, Asks
  <2> QED
    BY <1>8, <2>1 DEF Moves, Still, AsksFor, link, service
<1>9. CASE Detach
  BY <1>9 DEF Detach, Moves, Still, AsksFor, link, service
<1>10. CASE TimeOut
  BY <1>10 DEF TimeOut, Moves, Still, link, service, sending
<1>11. CASE ServerHandles \/ Receive \/ \E type \in {"detached", "failed"} : ServerEnds(type)
  BY <1>11 DEF Moves
<1>12. CASE \E c \in Clients : Enter(c) \/ Leave(c)
  BY <1>2, <1>12 DEF Enter, Leave
<1>13. CASE Attach \/ RetryAttach
  BY <1>8, <1>13 DEF Attach, RetryAttach
<1> QED
  BY <1>3, <1>4, <1>5, <1>6, <1>7, <1>9, <1>10, <1>11, <1>12, <1>13 DEF Next

\* Without a connection that can be resumed there is nothing on its way.
LEMMA LinkedStep ==
  ASSUME Typed, Linked, Known, Next
  PROVE  Linked'
<1>1. Moves
  BY StepMoves
<1>2. resumable' \in BOOLEAN /\ (connection' = "connected" => resumable')
  <2>1. resumable \in BOOLEAN /\ (connection = "connected" => resumable)
    BY DEF Typed, Linked
  <2>2. CASE \E kind \in {"resumed", "lost"} : Lose(kind)
    BY <2>2 DEF Lose
  <2>3. CASE \E state \in {"suspended", "closed"} : GiveUp(state)
    BY <2>3 DEF GiveUp
  <2>4. CASE Connect
    BY <2>4 DEF Connect
  <2>5. CASE ConnectAgain
    BY <2>1, <2>5 DEF ConnectAgain
  <2>6. CASE UNCHANGED link
    BY <2>1, <2>6 DEF link
  <2> QED
    BY <2>2, <2>3, <2>4, <2>5, <2>6 DEF Next, Enter, Leave, RunTask, ServerHandles, Receive,
       ServerEnds, Attach, Detach, TimeOut, RetryAttach
<1>3. ASSUME ~resumable'
      PROVE  outbox' = <<>> /\ inbox' = <<>> /\ server' = NoMembers("new")
  <2>1. CASE Still
    BY <1>3, <2>1 DEF Linked, Still
  <2>2. CASE Forgotten
    BY <2>2 DEF Forgotten
  <2>3. CASE Reconnects
    BY <1>3, <2>3 DEF Reconnects
  <2>4. CASE ServerHandles \/ Receive \/ \E type \in {"detached", "failed"} : ServerEnds(type)
    BY <1>3, <2>4 DEF ServerHandles, Receive, ServerEnds, Linked, link
  <2>5. CASE \E type \in {"attach", "detach"} : AsksFor(type)
    BY <1>3, <2>5 DEF AsksFor, Linked
  <2>6. CASE \E entries \in Seq(Entries) : Sends(entries)
    <3>1. PICK entries \in Seq(Entries) : Sends(entries)
      BY <2>6
    <3>2. /\ ~resumable /\ connection # "connected" /\ inbox' = inbox /\ server' = server
          /\ outbox' = outbox
      BY <1>3, <3>1, SendOf DEF Sends, Linked
    <3> QED
      BY <3>2 DEF Linked
  <2> QED
    BY <1>1, <2>1, <2>2, <2>3, <2>4, <2>5, <2>6 DEF Moves
<1>4. NoMembers("new")' = NoMembers("new")
  BY SMTT(60) DEF NoMembers
<1> QED
  BY <1>2, <1>3, <1>4 DEF Linked

\* What a step can make of the operations that are pending.
Queues(entry) ==
  /\ pending' = Append(pending, entry) /\ channel # "attached" /\ UNCHANGED <<channel, unacked>>
  /\ \/ entry.call = 0 /\ KnownEntry(entry) /\ UNCHANGED calls
     \/ \E c \in Clients, action \in {"enter", "leave"} : entry = NewEntry(c, action)
        /\ Called(c, action)

\* What waits for the channel stays, is taken, or grows by one entry.
LEMMA PendingMoves ==
  ASSUME Typed, Known, Next
  PROVE  pending' = pending \/ pending' = <<>> \/ \E entry \in Entries : Queues(entry)
<1>1. tasks \in Seq(Tasks) /\ calls \in Seq(Calls)
  BY DEF Typed
<1>2. ASSUME NEW c \in Clients, NEW action \in {"enter", "leave"},
             EnterBy(NewEntry(c, action), tasks), Called(c, action), UNCHANGED channel
      PROVE  pending' = pending \/ \E entry \in Entries : Queues(entry)
  <2>1. PICK entry \in Entries : entry = NewEntry(c, action)
    BY <1>1, EntryType
  <2>2. pending' = pending \/ (pending' = Append(pending, entry) /\ channel # "attached" /\ UNCHANGED unacked)
    BY <1>2, <2>1 DEF EnterBy, sending
  <2> QED
    BY <1>2, <2>1, <2>2 DEF Queues
<1>3. CASE RunTask
  <2>1. CASE RunAttach
    BY <2>1 DEF RunAttach
  <2>2. CASE Head(tasks).type = "reenter" /\ RunReenter
    <3>1. PICK entry \in Entries : entry = Head(tasks).entry /\ entry.call = 0 /\ KnownEntry(entry)
      <4>1. 1 \in DOMAIN tasks /\ Head(tasks) = tasks[1] /\ tasks[1] \in Tasks
        BY <1>1, <1>3 DEF RunTask
      <4>2. Head(tasks).entry \in Entries
        BY <2>2, <4>1 DEF Tasks
      <4> QED
        BY <2>2, <4>1, <4>2 DEF Known, KnownTasks
    <3>2. pending' = pending \/ Queues(entry)
      BY <2>2, <3>1 DEF RunReenter, EnterBy, Queues, sending
    <3> QED
      BY <3>1, <3>2
  <2>3. CASE RunPending
    BY <2>3, SMTT(60) DEF RunPending, SendPending
  <2> QED
    BY <1>3, <2>1, <2>2, <2>3 DEF RunTask
<1>4. CASE Receive
  BY <1>4, Zenon DEF Receive, ReceiveAttached, ReceiveDetached, ReceiveError, ReceivePresence,
     ReceiveAnswer, ActOnDetached, ActOnSuspended, FailPending
<1>5. CASE \E c \in Clients : Enter(c) \/ Leave(c)
  BY <1>2, <1>5 DEF Enter, Leave
<1> QED
  BY <1>3, <1>4, <1>5 DEF Next, ServerHandles, ServerEnds, Lose, GiveUp, Connect, ConnectAgain,
     Attach, Detach, TimeOut, RetryAttach, ActOnDetached, ActOnSuspended, FailPending

\* What was queued before a call stays in the queue until the call is in it, or it is flushed.
LEMMA QueueIsLastStep ==
  ASSUME Typed, Linked, Known, Accounted, Accounted', QueueIsLast, QueueIsFlushed, Next,
         "eager" \notin Disruptions
  PROVE  QueueIsLast'
<1>1. Evolution
  BY CallsEvolve
<1> SUFFICES ASSUME NEW i \in DOMAIN calls', NEW j \in DOMAIN calls', i <= j,
                    calls'[i].at = "queued"
             PROVE  calls'[j].at = "queued"
  BY DEF QueueIsLast
<1>2. /\ calls \in Seq(Calls) /\ pending \in Seq(Entries) /\ Len(calls) \in Nat
      /\ DOMAIN calls = 1..Len(calls)
  BY LenProperties DEF Typed
<1>3. CASE i \notin DOMAIN calls
  <2>1. i = Len(calls) + 1 /\ j \notin DOMAIN calls
    BY <1>1, <1>2, <1>3 DEF Evolution
  <2>2. j = Len(calls) + 1
    BY <1>1, <2>1 DEF Evolution
  <2> QED
    BY <2>1, <2>2
<1>4. CASE i \in DOMAIN calls
  <2>1. calls[i].at = "queued" /\ i \in CallsOf(pending)
    BY <1>1, <1>4 DEF Evolution, Accounted
  <2>2. i \in CallsOf(pending)'
    BY DEF Accounted
  <2>3. CASE j \in DOMAIN calls
    <3>1. calls[j].at = "queued" /\ j \in CallsOf(pending)
      BY <1>4, <2>1, <2>3 DEF QueueIsLast, Accounted
    <3>2. j \in CallsOf(pending)'
      <4>1. CASE pending' = pending
        BY <3>1, <4>1 DEF CallsOf
      <4>2. CASE pending' = <<>>
        BY <2>2, <4>2 DEF CallsOf
      <4>3. CASE \E entry \in Entries : Queues(entry)
        <5>1. PICK new : new = pending'
          OBVIOUS
        <5>2. PICK entry \in Entries : new = Append(pending, entry)
          BY <4>3, <5>1 DEF Queues
        <5>3. j \in CallsOf(new)
          BY <1>2, <3>1, <5>2, CallsOfAppend
        <5> QED
          BY <5>1, <5>3 DEF CallsOf
      <4> QED
        BY <4>1, <4>2, <4>3, PendingMoves
    <3> QED
      BY <3>2 DEF Accounted
  <2>4. CASE j \notin DOMAIN calls
    <3>1. pending # <<>>
      BY <2>1 DEF CallsOf
    <3>2. ASSUME calls'[j].at = "sent" PROVE FALSE
      <4>1. channel = "attached" /\ MayAct
        BY <1>1, <2>4, <3>2 DEF Evolution
      <4>2. \E t \in DOMAIN tasks : tasks[t].type = "pending"
        BY <3>1, <4>1 DEF QueueIsFlushed
      <4> QED
        BY <4>1, <4>2 DEF MayAct
    <3> QED
      BY <1>1, <2>4, <3>2 DEF Evolution
  <2> QED
    BY <2>3, <2>4
<1> QED
  BY <1>3, <1>4

\* A task leaves the queue of tasks.
LEMMA TailTasks ==
  ASSUME tasks \in Seq(Tasks), tasks # <<>>, NEW t \in DOMAIN tasks, t # 1
  PROVE  t - 1 \in DOMAIN Tail(tasks) /\ Tail(tasks)[t - 1] = tasks[t]
OBVIOUS

\* A queue that is not empty while the channel is attached has its task.
LEMMA QueueIsFlushedStep ==
  ASSUME Typed, Known, QueueIsFlushed, Next
  PROVE  QueueIsFlushed'
<1> SUFFICES ASSUME channel' = "attached", pending' # <<>>
             PROVE  \E t \in DOMAIN tasks' : tasks'[t].type = "pending"
  BY DEF QueueIsFlushed
<1>1. tasks \in Seq(Tasks)
  BY DEF Typed
<1>2. ASSUME UNCHANGED <<channel, pending, tasks>>
      PROVE  \E t \in DOMAIN tasks' : tasks'[t].type = "pending"
  BY <1>2 DEF QueueIsFlushed
<1>3. ASSUME OnAttached
      PROVE  \E t \in DOMAIN tasks' : tasks'[t].type = "pending"
  <2>1. /\ tasks' \in Seq(Tasks) /\ Len(tasks') = Len(tasks) + Len(Reentries) + 1
        /\ tasks'[Len(tasks) + Len(Reentries) + 1] = [type |-> "pending"]
    BY <1>3, OnAttachedType
  <2>2. PICK n \in Nat : n = Len(tasks') /\ DOMAIN tasks' = 1..n
    BY <2>1, LenProperties
  <2>3. n # 0
    <3>1. Len(tasks) \in Nat /\ Len(Reentries) \in Nat
      BY <1>1, ReentriesOf, LenProperties DEF Typed
    <3> QED
      BY <2>1, <2>2, <3>1
  <2> QED
    BY <2>1, <2>2, <2>3
<1>4. CASE RunTask
  <2>1. tasks # <<>> /\ Head(tasks) = tasks[1]
    BY <1>1, <1>4 DEF RunTask
  <2>2. CASE pending' = pending /\ channel = "attached" /\ tasks' = Tail(tasks)
          /\ Head(tasks).type # "pending"
    <3>1. PICK t \in DOMAIN tasks : tasks[t].type = "pending"
      BY <2>2 DEF QueueIsFlushed
    <3>2. t # 1
      BY <2>1, <2>2, <3>1
    <3> QED
      BY <1>1, <2>1, <2>2, <3>1, <3>2, TailTasks
  <2>3. CASE Head(tasks).type = "attach" /\ RunAttach
    <3>1. channel = "attached"
      BY <2>3 DEF RunAttach, RequestAttach
    <3> QED
      BY <2>2, <2>3, <3>1 DEF RunAttach
  <2>4. CASE Head(tasks).type = "reenter" /\ RunReenter
    BY <2>2, <2>4 DEF RunReenter, EnterBy
  <2>5. CASE Head(tasks).type = "pending" /\ RunPending
    BY <2>5 DEF RunPending, SendPending
  <2> QED
    BY <1>4, <2>3, <2>4, <2>5 DEF RunTask
<1>5. CASE \E c \in Clients : Enter(c) \/ Leave(c)
  <2>1. channel = "attached"
    BY <1>5 DEF Enter, Leave
  <2> QED
    BY <1>2, <1>5, <2>1 DEF Enter, Leave, EnterBy
<1>6. CASE Receive
  BY <1>2, <1>3, <1>6 DEF Receive, ReceiveAttached, ReceiveDetached, ReceiveError, ReceivePresence,
     ReceiveAnswer, RequestAttach
<1>7. CASE TimeOut
  BY <1>3, <1>7 DEF TimeOut
<1>8. CASE Connect
  BY <1>2, <1>8 DEF Connect
<1>9. CASE \E state \in {"suspended", "closed"} : GiveUp(state)
  BY <1>2, <1>9 DEF GiveUp
<1> QED
  BY <1>2, <1>4, <1>5, <1>6, <1>7, <1>8, <1>9 DEF Next, ServerHandles, ServerEnds, Lose,
     ConnectAgain, Attach, Detach, RetryAttach, RequestAttach
-----------------------------------------------------------------------------
(* The order of the operations.                                             *)

\* An entry of a message.
LEMMA EntryFields ==
  ASSUME NEW s \in Seq(Entries), NEW q \in DOMAIN s
  PROVE  s[q] \in Entries /\ s[q].call \in Nat /\ s[q].data \in Nat /\ s[q].client \in Clients
         /\ s[q].action \in {"enter", "leave"}
<1>1. s[q] \in Entries
  BY ElementOfSeq, LenProperties
<1> QED
  BY <1>1 DEF Entries

\* What is sent is known, follows what was sent before, and is in order.
LEMMA EntriesSent ==
  ASSUME Typed, Known, Accounted, QueueIsLast, PendingInOrder, Evolution,
         NEW entries \in Seq(Entries), Sends(entries)
  PROVE  \A r \in DOMAIN entries :
           /\ KnownEntry(entries[r])'
           /\ entries[r].call # 0 =>
                \A d \in DOMAIN calls : calls[d].at # "queued" => d < entries[r].call
           /\ \A s \in DOMAIN entries : r < s => Follows(entries[r], entries[s])
<1>1. /\ calls \in Seq(Calls) /\ pending \in Seq(Entries) /\ Len(calls) \in Nat
      /\ DOMAIN calls = 1..Len(calls)
  BY LenProperties DEF Typed
<1>2. CASE NewCall(entries)
  <2>1. PICK c \in Clients, action \in {"enter", "leave"} :
           entries = <<NewEntry(c, action)>> /\ Called(c, action)
    BY <1>2 DEF NewCall
  <2>2. PICK e \in Entries : /\ e = NewEntry(c, action) /\ e.call = Len(calls) + 1
                                /\ e.data = Len(calls) + 1
                             /\ e.client = c /\ e.action = action
    BY <1>1, EntryType
  <2>3. DOMAIN entries = {1} /\ entries[1] = e
    BY <2>1, <2>2, CallsOfOne
  <2>4. PICK n : n = Len(calls) + 1
    OBVIOUS
  <2>5. /\ n \in DOMAIN calls' /\ calls'[n].client = c /\ calls'[n].action = action
    <3>1. /\ DOMAIN calls' = 1..n
          /\ calls'[n] = [client |-> c, action |-> action, shown |-> FALSE,
                          at |-> IF channel = "attached" THEN "sent" ELSE "queued"]
      BY <1>1, <2>1, <2>4, CalledOf
    <3>2. n \in 1..n
      BY <1>1, <2>4
    <3> QED
      BY <3>1, <3>2
  <2>6. KnownEntry(e)'
    BY <1>1, <2>2, <2>4, <2>5 DEF KnownEntry
  <2>7. \A d \in DOMAIN calls : d < e.call
    BY <1>1, <2>2
  <2> QED
    BY <2>3, <2>6, <2>7
<1>3. CASE Reentry(entries)
  <2>1. PICK e \in Entries : entries = <<e>> /\ KnownEntry(e) /\ e.call = 0
    BY <1>3 DEF Reentry
  <2>2. DOMAIN entries = {1} /\ entries[1] = e
    BY <2>1, CallsOfOne
  <2>3. KnownEntry(e)'
    BY <2>1, KnownStays
  <2> QED
    BY <2>1, <2>2, <2>3
<1>4. CASE Flush(entries)
  <2>1. entries = pending
    BY <1>4 DEF Flush
  <2>2. \A r \in DOMAIN pending : KnownEntry(pending[r])
    BY DEF Known, KnownPending
  <2>3. \A r \in DOMAIN entries : KnownEntry(entries[r])'
    <3>1. \A r \in DOMAIN entries : KnownEntry(entries[r])
      BY <2>1, <2>2
    <3> QED
      BY <3>1, KnownStays
  <2>4. \A r, s \in DOMAIN pending : r < s => Follows(pending[r], pending[s])
    BY DEF PendingInOrder
  <2>5. ASSUME NEW r \in DOMAIN pending, pending[r].call # 0, NEW d \in DOMAIN calls,
               calls[d].at # "queued"
        PROVE  d < pending[r].call
    <3>1. PICK j \in DOMAIN calls : j = pending[r].call
      BY <2>2, <2>5 DEF KnownEntry
    <3>2. calls[j].at = "queued"
      BY <3>1 DEF Accounted, CallsOf
    <3>3. ~(j <= d)
      BY <2>5, <3>2 DEF QueueIsLast
    <3> QED
      BY <1>1, <3>1, <3>3
  <2>6. \A r \in DOMAIN entries : entries[r].call # 0 =>
           \A d \in DOMAIN calls : calls[d].at # "queued" => d < entries[r].call
    BY <2>1, <2>5
  <2>7. \A r, s \in DOMAIN entries : r < s => Follows(entries[r], entries[s])
    BY <2>1, <2>4
  <2> QED
    BY <2>3, <2>6, <2>7
<1> QED
  BY <1>2, <1>3, <1>4 DEF Sends

\* Entries wait in the order of their calls.
LEMMA PendingInOrderStep ==
  ASSUME Typed, Known, PendingInOrder, Next
  PROVE  PendingInOrder'
<1>1. /\ calls \in Seq(Calls) /\ pending \in Seq(Entries) /\ Len(calls) \in Nat
      /\ DOMAIN calls = 1..Len(calls)
  BY LenProperties DEF Typed
<1>2. CASE pending' = pending
  BY <1>2 DEF PendingInOrder
<1>3. CASE pending' = <<>>
  BY <1>3 DEF PendingInOrder
<1>4. CASE \E entry \in Entries : Queues(entry)
  <2>1. PICK entry \in Entries : Queues(entry)
    BY <1>4
  <2>2. \A q \in DOMAIN pending : pending[q].data \in DOMAIN calls
    BY DEF Known, KnownPending, KnownEntry, Entered
  <2>3. entry.call = 0 \/ entry.call = Len(calls) + 1
    BY <1>1, <2>1, EntryType DEF Queues
  <2>4. \A q \in DOMAIN pending : Follows(pending[q], entry)
    BY <1>1, <2>2, <2>3 DEF Follows
  <2>5. /\ Len(pending) \in Nat /\ DOMAIN pending = 1..Len(pending)
        /\ DOMAIN pending' = 1..(Len(pending) + 1)
        /\ pending'[Len(pending) + 1] = entry
        /\ \A q \in 1..Len(pending) : pending'[q] = pending[q]
    BY <1>1, <2>1, AppendProperties, LenProperties DEF Queues
  <2>6. ASSUME NEW q \in DOMAIN pending', NEW r \in DOMAIN pending', q < r
        PROVE  Follows(pending'[q], pending'[r])
    <3>1. q \in DOMAIN pending /\ pending'[q] = pending[q]
      BY <2>5, <2>6
    <3>2. CASE r = Len(pending) + 1
      BY <2>4, <2>5, <3>1, <3>2
    <3>3. CASE r # Len(pending) + 1
      <4>1. r \in DOMAIN pending /\ pending'[r] = pending[r]
        BY <2>5, <3>3
      <4> QED
        BY <2>6, <3>1, <4>1 DEF PendingInOrder
    <3> QED
      BY <3>2, <3>3
  <2> QED
    BY <2>6 DEF PendingInOrder, Follows
<1> QED
  BY <1>2, <1>3, <1>4, PendingMoves

\* What a step can make of the messages that are not acknowledged.
LEMMA UnackedMoves ==
  ASSUME Typed, Linked, Known, Answered, Next
  PROVE  \/ unacked' = unacked \/ unacked' = <<>>
         \/ unacked # <<>> /\ unacked' = Tail(unacked)
         \/ \E entries \in Seq(Entries), m \in Messages :
              Sends(entries) /\ m.entries = entries /\ unacked' = Append(unacked, m)
<1>1. CASE Receive
  <2>1. CASE ReceiveAnswer
    <3>1. inbox[1].type \in Answers /\ 1 \in DOMAIN inbox
      BY <1>1, <2>1, SMTT(60) DEF ReceiveAnswer, Answers, Receive, Typed
    <3>2. \E n \in DOMAIN unacked : TRUE
      BY <1>1, <3>1 DEF Receive, Linked, Answered, Matches
    <3> QED
      BY <2>1, <3>2, SMTT(60) DEF ReceiveAnswer
  <2>2. CASE ~ReceiveAnswer
    BY <1>1, <2>2 DEF Receive, ReceiveAttached, ReceiveDetached, ReceiveError, ReceivePresence,
       sending
  <2> QED
    BY <2>1, <2>2
<1>2. CASE \E entries \in Seq(Entries) : Sends(entries)
  <2>1. PICK entries \in Seq(Entries) : Sends(entries)
    BY <1>2
  <2>2. \E m \in Messages : m.entries = entries /\ unacked' = Append(unacked, m)
    BY <2>1, SendOf DEF Sends
  <2> QED
    BY <2>1, <2>2
<1>3. Moves
  BY StepMoves
<1> QED
  BY <1>1, <1>2, <1>3 DEF Moves, Still, Forgotten, Reconnects, ServerHandles, AsksFor, ServerEnds,
     sending

\* Entries are sent in the order of their calls.
LEMMA SentInOrderStep ==
  ASSUME Typed, Linked, Known, Accounted, Answered, QueueIsLast, PendingInOrder, SentInOrder, Next
  PROVE  SentInOrder'
<1>1. /\ calls \in Seq(Calls) /\ unacked \in Seq(Messages) /\ Len(calls) \in Nat
      /\ DOMAIN calls = 1..Len(calls) /\ Len(unacked) \in Nat /\ DOMAIN unacked = 1..Len(unacked)
  BY LenProperties DEF Typed
<1>2. CASE unacked' = unacked
  BY <1>2 DEF SentInOrder
<1>3. CASE unacked' = <<>>
  BY <1>3 DEF SentInOrder
<1>4. CASE unacked # <<>> /\ unacked' = Tail(unacked)
  <2>1. \A n \in DOMAIN unacked' : n \in Nat /\ n + 1 \in DOMAIN unacked
          /\ unacked'[n] = unacked[n + 1]
    BY <1>1, <1>4
  <2>2. \A n, m \in DOMAIN unacked' : (n < m => n + 1 < m + 1) /\ (n = m => n + 1 = m + 1)
    BY <2>1
  <2> QED
    BY <2>1, <2>2 DEF SentInOrder, Follows
<1>5. CASE \E entries \in Seq(Entries), m \in Messages :
              Sends(entries) /\ m.entries = entries /\ unacked' = Append(unacked, m)
  <2>1. PICK entries \in Seq(Entries), new \in Messages :
           Sends(entries) /\ new.entries = entries /\ unacked' = Append(unacked, new)
    BY <1>5
  <2>2. Evolution
    BY CallsEvolve
  <2>3. \A r \in DOMAIN entries :
           /\ entries[r].call # 0 =>
                \A d \in DOMAIN calls : calls[d].at # "queued" => d < entries[r].call
           /\ \A s \in DOMAIN entries : r < s => Follows(entries[r], entries[s])
    BY <2>1, <2>2, EntriesSent
  <2>4. /\ DOMAIN unacked' = 1..(Len(unacked) + 1)
        /\ unacked'[Len(unacked) + 1] = new
        /\ \A n \in 1..Len(unacked) : unacked'[n] = unacked[n]
    BY <1>1, <2>1, AppendProperties, LenProperties
  <2>5. ASSUME NEW n \in DOMAIN unacked, NEW q \in DOMAIN unacked[n].entries
        PROVE  unacked[n].entries[q].data \in DOMAIN calls
          /\ calls[unacked[n].entries[q].data].at # "queued"
    <3>1. KnownEntry(unacked[n].entries[q])
      BY DEF Known, KnownUnacked
    <3>2. CASE unacked[n].entries[q].call = 0
      BY <3>1, <3>2 DEF KnownEntry, Entered
    <3>3. CASE unacked[n].entries[q].call # 0
      <4>1. PICK j \in DOMAIN calls : j = unacked[n].entries[q].call
              /\ j = unacked[n].entries[q].data
        BY <3>1, <3>3 DEF KnownEntry
      <4>2. calls[j].at = "sent"
        BY <4>1, ZenonT(60) DEF Accounted, CallsOf
      <4> QED
        BY <4>1, <4>2
    <3> QED
      BY <3>2, <3>3
  <2>6. ASSUME NEW n \in DOMAIN unacked', NEW m \in DOMAIN unacked',
               NEW q \in DOMAIN unacked'[n].entries, NEW r \in DOMAIN unacked'[m].entries,
               n < m \/ (n = m /\ q < r)
        PROVE  Follows(unacked'[n].entries[q], unacked'[m].entries[r])
    <3>1. CASE m # Len(unacked) + 1
      <4>1. n \in DOMAIN unacked /\ m \in DOMAIN unacked /\ unacked'[n] = unacked[n]
              /\ unacked'[m] = unacked[m]
        BY <1>1, <2>4, <2>6, <3>1
      <4> QED
        BY <2>6, <4>1 DEF SentInOrder
    <3>2. CASE m = Len(unacked) + 1 /\ n # Len(unacked) + 1
      <4>1. n \in DOMAIN unacked /\ unacked'[n] = unacked[n] /\ unacked'[m].entries = entries
        BY <1>1, <2>1, <2>4, <2>6, <3>2
      <4>2. /\ unacked[n].entries[q].data \in DOMAIN calls
            /\ calls[unacked[n].entries[q].data].at # "queued"
        BY <2>5, <4>1
      <4> QED
        BY <2>3, <4>1, <4>2 DEF Follows
    <3>3. CASE m = Len(unacked) + 1 /\ n = Len(unacked) + 1
      <4>1. q < r /\ unacked'[n].entries = entries /\ unacked'[m].entries = entries
        BY <1>1, <2>1, <2>4, <2>6, <3>3
      <4> QED
        BY <2>3, <4>1
    <3> QED
      BY <3>1, <3>2, <3>3
  <2> QED
    BY <2>6 DEF SentInOrder, Follows
<1> QED
  BY <1>2, <1>3, <1>4, <1>5, UnackedMoves

\* Two operations of a client are answered in the order they were called.
LEMMA AnsweredInOrderStep ==
  ASSUME Typed, Linked, Known, Accounted, Accounted', Answered, QueueIsLast, SentInOrder,
         AnsweredInOrder,
         Next
  PROVE  AnsweredInOrder'
<1>1. Evolution
  BY CallsEvolve
<1>2. /\ calls \in Seq(Calls) /\ unacked \in Seq(Messages) /\ Len(calls) \in Nat
      /\ DOMAIN calls = 1..Len(calls) /\ inbox \in Seq(Arrivals)
  BY LenProperties DEF Typed
<1> SUFFICES ASSUME NEW i \in DOMAIN calls', NEW j \in DOMAIN calls', i < j,
                    calls'[i].client = calls'[j].client, calls'[i].at = "sent",
                    calls'[j].at \in {"done", "gone"}
             PROVE  FALSE
  BY DEF AnsweredInOrder
<1>3. i \in DOMAIN calls /\ j \in DOMAIN calls
  <2>1. j \in DOMAIN calls
    BY <1>1 DEF Evolution
  <2>2. i \in DOMAIN calls
    <3> SUFFICES ASSUME i \notin DOMAIN calls PROVE FALSE
      OBVIOUS
    <3>1. i = Len(calls) + 1
      BY <1>1 DEF Evolution
    <3> QED
      BY <1>2, <2>1, <3>1
  <2> QED
    BY <2>1, <2>2
<1>4. calls[i].client = calls[j].client /\ calls[i].at \in {"queued", "sent"}
  BY <1>1, <1>3 DEF Evolution
<1>5. CASE calls[j].at \in {"done", "gone"}
  <2>1. calls[i].at = "queued"
    BY <1>3, <1>4, <1>5 DEF AnsweredInOrder
  <2>2. calls[j].at = "queued"
    <3>1. i <= j
      BY <1>2, <1>3
    <3> QED
      BY <1>3, <2>1, <3>1 DEF QueueIsLast
  <2> QED
    BY <1>5, <2>2
<1>6. CASE calls[j].at \notin {"done", "gone"}
  <2>1. Acknowledged(j)
    BY <1>1, <1>3, <1>6 DEF Evolution
  <2>2. unacked # <<>> /\ unacked' = Tail(unacked) /\ UNCHANGED pending
    <3>1. inbox[1].type \in Answers /\ 1 \in DOMAIN inbox
      BY <1>2, <2>1 DEF Acknowledged, Answers, Receive
    <3>2. \E n \in DOMAIN unacked : TRUE
      BY <2>1, <3>1 DEF Acknowledged, Receive, Linked, Answered, Matches
    <3> QED
      BY <2>1, <3>2 DEF Acknowledged, ReceiveAnswer
  <2>3. PICK n \in DOMAIN unacked' : i \in CallsOf(unacked'[n].entries)
    BY DEF Accounted, CallsOf
  <2>4. n + 1 \in DOMAIN unacked /\ 1 < n + 1 /\ unacked'[n] = unacked[n + 1]
          /\ 1 \in DOMAIN unacked
        /\ Head(unacked) = unacked[1]
    BY <1>2, <2>2
  <2>5. PICK m \in DOMAIN unacked : 1 < m /\ i \in CallsOf(unacked[m].entries)
    BY <2>3, <2>4
  <2>6. PICK q \in DOMAIN unacked[1].entries : unacked[1].entries[q].call = j
    BY <2>1, <2>4 DEF Acknowledged, CallsOf
  <2>7. PICK r \in DOMAIN unacked[m].entries : unacked[m].entries[r].call = i
    BY <2>5 DEF CallsOf
  <2>8. KnownEntry(unacked[1].entries[q]) /\ KnownEntry(unacked[m].entries[r])
    BY <2>4 DEF Known, KnownUnacked
  <2>9. Follows(unacked[1].entries[q], unacked[m].entries[r])
    BY <2>4, <2>5 DEF SentInOrder
  <2>10. j < i
    BY <1>2, <1>3, <1>4, <2>6, <2>7, <2>8, <2>9 DEF KnownEntry, Follows
  <2> QED
    BY <1>2, <1>3, <2>10
<1> QED
  BY <1>5, <1>6
-----------------------------------------------------------------------------
(* What arrives.                                                            *)

\* The elements of two sequences one after the other.
LEMMA ConcatAt ==
  ASSUME NEW S, NEW s \in Seq(S), NEW t \in Seq(S)
  PROVE  /\ s \o t \in Seq(S) /\ Len(s) \in Nat /\ Len(t) \in Nat
         /\ DOMAIN s = 1..Len(s) /\ DOMAIN t = 1..Len(t)
         /\ Len(s \o t) = Len(s) + Len(t) /\ DOMAIN (s \o t) = 1..(Len(s) + Len(t))
         /\ \A i \in 1..Len(s) : (s \o t)[i] = s[i]
         /\ \A i \in 1..Len(t) : (s \o t)[Len(s) + i] = t[i]
OBVIOUS

\* Two elements that are added to a sequence, at once or one by one.
IsPair(s, a, b, t) ==
  t = <<a, b>> /\ Len(t) = 2 /\ t[1] = a /\ t[2] = b /\ s \o <<a>> \o <<b>> = s \o t

\* Two arrivals, as a sequence of two.
LEMMA TwoMore ==
  ASSUME NEW S, NEW s \in Seq(S), NEW a \in S, NEW b \in S
  PROVE  \E t \in Seq(S) : IsPair(s, a, b, t)
<1>1. <<a, b>> \in Seq(S) /\ Len(<<a, b>>) = 2 /\ <<a, b>>[1] = a /\ <<a, b>>[2] = b
  OBVIOUS
<1>2. /\ <<a>> \in Seq(S) /\ Len(<<a>>) = 1 /\ <<a>>[1] = a
      /\ <<b>> \in Seq(S) /\ Len(<<b>>) = 1 /\ <<b>>[1] = b
  OBVIOUS
<1>3. PICK t, x, y : t = <<a, b>> /\ x = <<a>> /\ y = <<b>>
  OBVIOUS
<1>4. /\ x \in Seq(S) /\ Len(x) = 1 /\ x[1] = a
      /\ y \in Seq(S) /\ Len(y) = 1 /\ y[1] = b
      /\ t \in Seq(S) /\ Len(t) = 2 /\ t[1] = a /\ t[2] = b
  BY <1>1, <1>2, <1>3
<1>5. x \o y = t
  <2>1. /\ x \o y \in Seq(S) /\ Len(x \o y) = 2
        /\ \A i \in 1..2 : (x \o y)[i] = IF i <= 1 THEN x[i] ELSE y[i - 1]
    <3>1. /\ x \o y \in Seq(S)
          /\ Len(x \o y) = Len(x) + Len(y)
          /\ \A i \in 1 .. Len(x) + Len(y) : (x \o y)[i] = IF i <= Len(x)
                                                           THEN x[i] ELSE y[i - Len(x)]
      BY <1>4, ConcatProperties, Zenon
    <3> QED
      BY <1>4, <3>1
  <2>2. \A i \in 1..Len(t) : (x \o y)[i] = t[i]
    BY <1>4, <2>1
  <2>3. PICK u \in Seq(S) : u = x \o y /\ Len(u) = Len(t) /\ \A i \in 1..Len(u) : u[i] = t[i]
    BY <1>4, <2>1, <2>2, ZenonT(60)
  <2> QED
    BY <1>4, <2>3, SeqEqual
<1>6. (s \o x) \o y = s \o (x \o y)
  BY <1>4, ConcatAssociative, SMTT(60)
<1>7. s \o x \o y = s \o t
  BY <1>5, <1>6
<1>8. IsPair(s, a, b, t)
  BY <1>3, <1>4, <1>7 DEF IsPair
<1> QED
  BY <1>4, <1>8, Zenon

\* What the service tells at once.
Arrives(new) ==
  \/ /\ ServerHandles /\ ServerAttaches
     /\ Len(new) = 2 /\ new[1].type = "attached" /\ new[2] = Present
  \/ /\ ServerHandles /\ ServerTakes
     /\ IF server.state = "attached"
        THEN Len(new) = 2 /\ new[1] = Told(Head(outbox)) /\ new[2].type = "ack"
        ELSE Len(new) = 1 /\ new[1].type = "ack"
  \/ /\ ServerHandles /\ ServerRefuses
     /\ Len(new) = 1 /\ new[1].type = "nack"
  \/ /\ (ServerHandles /\ ServerDetaches) \/ \E type \in {"detached", "failed"} : ServerEnds(type)
     /\ Len(new) = 1 /\ new[1].type \in Drops

\* Whenever the service acts, something arrives.
LEMMA ServerSays ==
  ASSUME Typed, ServerHandles \/ \E type \in {"detached", "failed"} : ServerEnds(type)
  PROVE  \E new \in Seq(Arrivals) : inbox' = inbox \o new /\ Arrives(new)
<1>1. inbox \in Seq(Arrivals) /\ outbox \in Seq(Requests)
  BY DEF Typed
<1>2. \A s \in {"attached", "detached", "failed", "ack", "nack"} :
         \E x \in Arrivals : x = [type |-> s]
  BY DEF Arrivals
<1>3. \A x \in Arrivals : <<x>> \in Seq(Arrivals) /\ Len(<<x>>) = 1 /\ <<x>>[1] = x
                          /\ Append(inbox, x) = inbox \o <<x>>
  BY <1>1
<1>4. ASSUME NEW s \in {"detached", "failed", "nack"}, inbox' = Append(inbox, [type |-> s])
      PROVE  \E new \in Seq(Arrivals) : inbox' = inbox \o new /\ Len(new) = 1 /\ new[1].type = s
  <2>1. PICK x \in Arrivals : x = [type |-> s]
    BY <1>2
  <2> QED
    BY <1>3, <1>4, <2>1
<1>5. CASE ServerHandles
  <2>1. CASE ServerAttaches
    <3>1. PICK a, b \in Arrivals : a = [type |-> "attached"] /\ b = Present
      BY <1>2, PresentOf
    <3>2. PICK new \in Seq(Arrivals) : IsPair(inbox, a, b, new)
      BY <1>1, TwoMore, Zenon
    <3>3. inbox' = inbox \o new
      BY <2>1, <3>1, <3>2 DEF ServerAttaches, IsPair
    <3>4. Arrives(new)
      BY <1>5, <2>1, <3>1, <3>2 DEF Arrives, IsPair
    <3> QED
      BY <3>3, <3>4
  <2>2. CASE ServerTakes
    <3>1. PICK m \in Messages : m = Head(outbox)
      <4>1. outbox # <<>> /\ Head(outbox) \in Requests
        BY <1>1, <1>5 DEF ServerHandles
      <4> QED
        BY <2>2, <4>1 DEF ServerTakes, Requests
    <3>2. PICK a, b \in Arrivals : a = Told(m) /\ b = [type |-> "ack"]
      BY <1>2, <3>1, ToldOf
    <3>3. CASE server.state = "attached"
      <4>1. PICK new \in Seq(Arrivals) : IsPair(inbox, a, b, new)
        BY <1>1, TwoMore, Zenon
      <4>2. inbox' = inbox \o <<a>> \o <<b>>
        BY <2>2, <3>1, <3>2, <3>3 DEF ServerTakes
      <4>3. inbox' = inbox \o new
        BY <4>1, <4>2 DEF IsPair
      <4>4. Arrives(new)
        BY <1>5, <2>2, <3>1, <3>2, <3>3, <4>1 DEF Arrives, IsPair
      <4> QED
        BY <4>3, <4>4
    <3>4. CASE server.state # "attached"
      <4>1. PICK new \in Seq(Arrivals) : new = <<b>> /\ Len(new) = 1 /\ new[1] = b
        BY <1>3
      <4>2. inbox' = inbox \o <<>> \o <<b>>
        BY <2>2, <3>2, <3>4 DEF ServerTakes
      <4>3. inbox' = inbox \o new
        BY <1>1, <4>1, <4>2, ConcatEmptySeq
      <4>4. Arrives(new)
        BY <1>5, <2>2, <3>2, <3>4, <4>1 DEF Arrives
      <4> QED
        BY <4>3, <4>4
    <3> QED
      BY <3>3, <3>4
  <2>3. CASE ServerDetaches
    <3>1. inbox' = Append(inbox, [type |-> "detached"])
      BY <2>3 DEF ServerDetaches
    <3>2. PICK new \in Seq(Arrivals) : inbox' = inbox \o new /\ Len(new) = 1
            /\ new[1].type = "detached"
      BY <1>4, <3>1
    <3> QED
      BY <1>5, <2>3, <3>2 DEF Arrives, Drops
  <2>4. CASE ServerRefuses
    <3>1. inbox' = Append(inbox, [type |-> "nack"])
      BY <2>4 DEF ServerRefuses
    <3>2. PICK new \in Seq(Arrivals) : inbox' = inbox \o new /\ Len(new) = 1 /\ new[1].type = "nack"
      BY <1>4, <3>1
    <3> QED
      BY <1>5, <2>4, <3>2 DEF Arrives
  <2> QED
    BY <1>5, <2>1, <2>2, <2>3, <2>4 DEF ServerHandles
<1>6. ASSUME NEW type \in {"detached", "failed"}, ServerEnds(type)
      PROVE  \E new \in Seq(Arrivals) : inbox' = inbox \o new /\ Arrives(new)
  <2>1. inbox' = Append(inbox, [type |-> type])
    BY <1>6 DEF ServerEnds
  <2>2. PICK new \in Seq(Arrivals) : inbox' = inbox \o new /\ Len(new) = 1 /\ new[1].type = type
    BY <1>4, <2>1, Zenon
  <2> QED
    BY <1>6, <2>2 DEF Arrives, Drops
<1> QED
  BY <1>5, <1>6

\* What arrives stays, is lost, is received from its head, or grows.
LEMMA InboxMoves ==
  ASSUME Typed, Next
  PROVE  \/ inbox' = inbox \/ inbox' = <<>>
         \/ Receive /\ inbox # <<>> /\ inbox' = Tail(inbox)
         \/ \E new \in Seq(Arrivals) : inbox' = inbox \o new /\ Arrives(new)
<1>1. CASE ServerHandles \/ \E type \in {"detached", "failed"} : ServerEnds(type)
  BY <1>1, ServerSays
<1>2. CASE Receive
  BY <1>2 DEF Receive
<1> QED
  BY <1>1, <1>2 DEF Next, Enter, Leave, RunTask, Lose, GiveUp, Connect, ConnectAgain, Attach,
     Detach, TimeOut, RetryAttach, service

\* What it tells of members is the members it has, or those of the message that it takes.
LEMMA TellsNow ==
  ASSUME NEW new, Arrives(new), NEW i \in 1..Len(new), new[i].type = "presence"
  PROVE  \/ ServerHandles /\ ServerAttaches /\ new[i] = Present
         \/ ServerHandles /\ ServerTakes /\ server.state = "attached" /\ i = 1
            /\ new[i] = Told(Head(outbox))
<1>1. CASE ServerHandles /\ ServerAttaches /\ Len(new) = 2 /\ new[1].type = "attached"
        /\ new[2] = Present
  <2>1. i = 1 \/ i = 2
    BY <1>1
  <2> QED
    BY <1>1, <2>1
<1>2. CASE /\ ServerHandles /\ ServerTakes /\ server.state = "attached"
           /\ Len(new) = 2 /\ new[1] = Told(Head(outbox)) /\ new[2].type = "ack"
  <2>1. i = 1 \/ i = 2
    BY <1>2
  <2> QED
    BY <1>2, <2>1
<1>3. CASE Len(new) = 1 /\ new[1].type # "presence"
  <2>1. i = 1
    BY <1>3
  <2> QED
    BY <1>3, <2>1
<1> QED
  BY <1>1, <1>2, <1>3 DEF Arrives, Drops
-----------------------------------------------------------------------------
(* What is known of entries and members.                                    *)

\* What is not acknowledged names calls that are not queued.
LEMMA UnackedNames ==
  ASSUME Typed, Known, Accounted, NEW n \in DOMAIN unacked, NEW q \in DOMAIN unacked[n].entries
  PROVE  LET e == unacked[n].entries[q]
         IN  /\ e \in Entries /\ KnownEntry(e)
             /\ e.data \in DOMAIN calls /\ calls[e.data].client = e.client
                /\ calls[e.data].at # "queued"
             /\ e.action = "enter" => calls[e.data].action = "enter"
             /\ e.call # 0 => e.data = e.call /\ calls[e.call].at = "sent"
                /\ calls[e.call].action = e.action
<1>1. PICK e : e = unacked[n].entries[q]
  OBVIOUS
<1>2. KnownEntry(e)
  BY <1>1 DEF Known, KnownUnacked
<1>3. e \in Entries
  <2>1. unacked[n] \in Messages
    BY ElementOfSeq, LenProperties DEF Typed
  <2> QED
    BY <1>1, <2>1, EntryFields DEF Messages
<1>4. CASE e.call = 0
  BY <1>1, <1>2, <1>3, <1>4 DEF KnownEntry, Entered
<1>5. CASE e.call # 0
  <2>1. PICK j \in DOMAIN calls : j = e.call /\ j = e.data /\ calls[j].client = e.client
          /\ calls[j].action = e.action
    BY <1>2, <1>5 DEF KnownEntry
  <2>2. calls[j].at = "sent"
    BY <1>1, <2>1 DEF Accounted, CallsOf
  <2> QED
    BY <1>1, <1>2, <1>3, <2>1, <2>2
<1> QED
  BY <1>4, <1>5

\* What is on its way to the service is not acknowledged.
LEMMA OutboxIsUnacked ==
  ASSUME Typed, Linked, Answered, NEW p \in DOMAIN outbox, outbox[p].type = "presence"
  PROVE  resumable /\ \E n \in DOMAIN unacked : outbox[p] = unacked[n]
<1>1. outbox \in Seq(Requests) /\ inbox \in Seq(Arrivals) /\ Len(inbox) \in Nat /\ p \in Nat \ {0}
  BY LenProperties DEF Typed
<1>2. resumable
  <2>1. outbox # <<>>
    BY <1>1
  <2> QED
    BY <2>1 DEF Linked
<1>3. PICK pos \in [DOMAIN unacked -> 1..(Len(inbox) + Len(outbox))] : Matches(pos)
  BY <1>2 DEF Answered
<1>4. PICK n \in DOMAIN unacked : pos[n] = Len(inbox) + p
  BY <1>3 DEF Matches
<1>5. ~(pos[n] <= Len(inbox)) /\ pos[n] - Len(inbox) = p
  BY <1>1, <1>4
<1> QED
  BY <1>2, <1>3, <1>5 DEF Matches

\* Entries and members keep naming the calls they come from.
LEMMA KnownStep ==
  ASSUME Typed, Linked, Known, Accounted, Answered, QueueIsLast, PendingInOrder, Next
  PROVE  Known'
<1>1. Evolution
  BY CallsEvolve
<1>2. Typed'
  BY TypedStep
<1>3. /\ calls \in Seq(Calls) /\ pending \in Seq(Entries) /\ tasks \in Seq(Tasks)
      /\ unacked \in Seq(Messages) /\ inbox \in Seq(Arrivals) /\ outbox \in Seq(Requests)
      /\ mine \in OwnMaps /\ conn \in Nat /\ server.members \in MemberMaps
      /\ Len(calls) \in Nat /\ DOMAIN calls = 1..Len(calls)
  BY LenProperties DEF Typed
<1>4. /\ \A c, d : Entered(c, d) => Entered(c, d)'
      /\ \A e : KnownEntry(e) => KnownEntry(e)'
      /\ \A c, item : KnownItem(c, item) => KnownItem(c, item)'
  BY <1>1, KnownStays
<1>5. ASSUME NEW c \in Clients, NEW action \in {"enter", "leave"}, Called(c, action),
             NEW e, e = NewEntry(c, action)
      PROVE  KnownEntry(e)'
  <2>1. PICK n : /\ n = Len(calls) + 1
                 /\ e.call = n /\ e.data = n /\ e.client = c /\ e.action = action
    BY <1>3, <1>5, EntryType
  <2>2. /\ DOMAIN calls' = 1..n
        /\ calls'[n] = [client |-> c, action |-> action, shown |-> FALSE,
                        at |-> IF channel = "attached" THEN "sent" ELSE "queued"]
    BY <1>3, <1>5, <2>1, CalledOf
  <2>3. n \in DOMAIN calls' /\ calls'[n].client = c /\ calls'[n].action = action /\ n # 0
    BY <1>3, <2>1, <2>2
  <2> QED
    BY <2>1, <2>3 DEF KnownEntry
<1>6. KnownPending'
  <2>1. \A q \in DOMAIN pending : KnownEntry(pending[q])
    BY DEF Known, KnownPending
  <2>2. PICK old \in Seq(Entries) : old = pending
    BY <1>3
  <2>3. \A q \in DOMAIN old : KnownEntry(old[q])'
    <3>1. \A q \in DOMAIN old : KnownEntry(old[q])
      BY <2>1, <2>2
    <3> QED
      BY <1>4, <3>1
  <2>4. CASE pending' = pending
    BY <2>2, <2>3, <2>4 DEF KnownPending
  <2>5. CASE pending' = <<>>
    BY <2>5 DEF KnownPending
  <2>6. CASE \E entry \in Entries : Queues(entry)
    <3>1. PICK entry \in Entries : Queues(entry)
      BY <2>6
    <3>2. KnownEntry(entry)'
      BY <1>4, <1>5, <3>1 DEF Queues
    <3>3. PICK new : new = pending' /\ new = Append(old, entry)
      BY <2>2, <3>1 DEF Queues
    <3>4. \A q \in DOMAIN new : new[q] = entry \/ (q \in DOMAIN old /\ new[q] = old[q])
      BY <2>2, <3>3, AppendProperties, LenProperties
    <3>5. \A q \in DOMAIN new : KnownEntry(new[q])'
      BY <2>3, <3>2, <3>4
    <3> QED
      BY <3>3, <3>5 DEF KnownPending
  <2> QED
    BY <2>4, <2>5, <2>6, PendingMoves
<1>7. KnownUnacked'
  <2>1. PICK old \in Seq(Messages) : old = unacked
    BY <1>3
  <2>2. \A n \in DOMAIN old : \A q \in DOMAIN old[n].entries : KnownEntry(old[n].entries[q])'
    <3>1. \A n \in DOMAIN old : \A q \in DOMAIN old[n].entries : KnownEntry(old[n].entries[q])
      BY <2>1 DEF Known, KnownUnacked
    <3> QED
      BY <1>4, <3>1
  <2>3. CASE unacked' = unacked
    BY <2>1, <2>2, <2>3 DEF KnownUnacked
  <2>4. CASE unacked' = <<>>
    BY <2>4 DEF KnownUnacked
  <2>5. CASE unacked # <<>> /\ unacked' = Tail(unacked)
    <3>1. \A n \in DOMAIN unacked' : n + 1 \in DOMAIN old /\ unacked'[n] = old[n + 1]
      BY <2>1, <2>5
    <3>2. \A n \in DOMAIN unacked' : \E m \in DOMAIN old : unacked'[n] = old[m]
      BY <3>1
    <3>3. PICK new : new = unacked'
      OBVIOUS
    <3>4. \A n \in DOMAIN new : \A q \in DOMAIN new[n].entries : KnownEntry(new[n].entries[q])'
      BY <2>2, <3>2, <3>3
    <3> QED
      BY <3>3, <3>4 DEF KnownUnacked
  <2>6. CASE \E entries \in Seq(Entries), m \in Messages :
              Sends(entries) /\ m.entries = entries /\ unacked' = Append(unacked, m)
    <3>1. PICK entries \in Seq(Entries), m \in Messages :
              Sends(entries) /\ m.entries = entries /\ unacked' = Append(unacked, m)
      BY <2>6
    <3>2. \A q \in DOMAIN m.entries : KnownEntry(m.entries[q])'
      BY <1>1, <3>1, EntriesSent
    <3>3. PICK new : new = unacked' /\ new = Append(old, m)
      BY <2>1, <3>1
    <3>4. \A n \in DOMAIN new : new[n] = m \/ (n \in DOMAIN old /\ new[n] = old[n])
      BY <2>1, <3>3, AppendProperties, LenProperties
    <3>5. \A n \in DOMAIN new : \A q \in DOMAIN new[n].entries : KnownEntry(new[n].entries[q])'
      BY <2>2, <3>2, <3>4, SMTT(60)
    <3> QED
      BY <3>3, <3>5 DEF KnownUnacked
  <2> QED
    BY <2>3, <2>4, <2>5, <2>6, UnackedMoves
<1>8. KnownTasks'
  <2> DEFINE Fine(task) == task.type = "reenter" => KnownEntry(task.entry) /\ task.entry.call = 0
  <2>1. PICK old \in Seq(Tasks) : old = tasks
    BY <1>3
  <2>2. \A t \in DOMAIN old : old[t].type = "reenter"
          => KnownEntry(old[t].entry)' /\ old[t].entry.call = 0
    <3>1. \A t \in DOMAIN old : old[t].type = "reenter"
            => KnownEntry(old[t].entry) /\ old[t].entry.call = 0
      BY <2>1 DEF Known, KnownTasks
    <3> QED
      BY <1>4, <3>1
  <2>3. ASSUME \A t \in DOMAIN tasks' :
                  \/ \E s \in DOMAIN old : tasks'[t] = old[s]
                  \/ tasks'[t].type # "reenter"
                  \/ \E s \in DOMAIN Reentries : tasks'[t] = Reentries[s]
        PROVE  KnownTasks'
    <3>1. PICK new, again : new = tasks' /\ again = Reentries
      OBVIOUS
    <3>2. ASSUME NEW s \in DOMAIN again PROVE KnownEntry(again[s].entry)' /\ again[s].entry.call = 0
      <4>1. PICK e, d : /\ e = again[s].entry /\ e.call = 0 /\ e.action = "enter" /\ d = e.data
                        /\ mine.items[e.client] # None /\ d = mine.items[e.client].data
        BY <1>3, <3>1, <3>2, ReentriesOf
      <4>2. e.client \in Clients
        <5>1. Reentries \in Seq(Tasks)
          BY <1>3, ReentriesOf
        <5>2. again[s] \in Tasks
          BY <3>1, <3>2, <5>1, ElementOfSeq, LenProperties
        <5>3. again[s].type = "reenter"
          BY <1>3, <3>1, <3>2, ReentriesOf
        <5>4. again[s].entry \in Entries
          BY <5>2, <5>3, SMTT(60) DEF Tasks
        <5> QED
          BY <4>1, <5>4 DEF Entries
      <4>3. Entered(e.client, d)
        BY <4>1, <4>2, SMTT(60) DEF Known, KnownMine, KnownItem, Entered
      <4>4. KnownEntry(e)
        BY <4>1, <4>3 DEF KnownEntry
      <4> QED
        BY <1>4, <4>1, <4>4
    <3>3. \A t \in DOMAIN new : new[t].type = "reenter"
            => KnownEntry(new[t].entry)' /\ new[t].entry.call = 0
      BY <2>2, <2>3, <3>1, <3>2
    <3> QED
      BY <3>1, <3>3 DEF KnownTasks
  <2>4. ASSUME tasks' = Tail(tasks), tasks # <<>> PROVE KnownTasks'
    <3>1. \A t \in DOMAIN tasks' : t + 1 \in DOMAIN old /\ tasks'[t] = old[t + 1]
      BY <2>1, <2>4
    <3> QED
      BY <2>3, <3>1
  <2>5. ASSUME NEW s \in Seq(Tasks), tasks' = Append(s, [type |-> "attach"]),
               \A t \in DOMAIN s : \E r \in DOMAIN old : s[t] = old[r]
        PROVE  KnownTasks'
    <3>1. PICK x \in Tasks : x = [type |-> "attach"]
      BY DEF Tasks
    <3>2. \A t \in DOMAIN tasks' : tasks'[t] = x \/ (t \in DOMAIN s /\ tasks'[t] = s[t])
      BY <2>5, <3>1, AppendProperties, LenProperties
    <3>3. x.type # "reenter"
      BY <3>1
    <3> QED
      BY <2>3, <2>5, <3>2, <3>3
  <2>6. ASSUME OnAttached PROVE KnownTasks'
    <3>1. /\ tasks' \in Seq(Tasks) /\ Len(tasks') = Len(tasks) + Len(Reentries) + 1
          /\ \A t \in DOMAIN tasks : tasks'[t] = tasks[t]
          /\ \A t \in DOMAIN Reentries : tasks'[Len(tasks) + t] = Reentries[t]
          /\ tasks'[Len(tasks) + Len(Reentries) + 1] = [type |-> "pending"]
      BY <2>6, OnAttachedType
    <3>2. PICK n, k \in Nat : /\ n = Len(tasks) /\ k = Len(Reentries)
                                 /\ DOMAIN tasks' = 1..(n + k + 1)
                              /\ DOMAIN tasks = 1..n /\ DOMAIN Reentries = 1..k
      BY <1>3, <3>1, ReentriesOf, LenProperties
    <3>3. ASSUME NEW t \in DOMAIN tasks'
          PROVE  \/ \E s \in DOMAIN old : tasks'[t] = old[s]
                 \/ tasks'[t].type # "reenter"
                 \/ \E s \in DOMAIN Reentries : tasks'[t] = Reentries[s]
      <4>1. CASE t <= n
        BY <2>1, <3>1, <3>2, <4>1
      <4>2. CASE t = n + k + 1
        BY <3>1, <3>2, <4>2
      <4>3. CASE n < t /\ t < n + k + 1
        <5>1. PICK s \in 1..k : s = t - n /\ n + s = t
          BY <3>2, <4>3, SMTT(60)
        <5> QED
          BY <3>1, <3>2, <5>1
      <4> QED
        BY <3>2, <4>1, <4>2, <4>3
    <3> QED
      BY <2>3, <3>3
  <2>7. ASSUME UNCHANGED tasks PROVE KnownTasks'
    BY <2>1, <2>3, <2>7
  <2>8. ASSUME tasks' = Append(tasks, [type |-> "attach"]) PROVE KnownTasks'
    BY <1>3, <2>1, <2>5, <2>8
  <2>9. ASSUME tasks # <<>>, tasks' = Append(Tail(tasks), [type |-> "attach"]) PROVE KnownTasks'
    <3>1. Tail(tasks) \in Seq(Tasks) /\ \A t \in DOMAIN Tail(tasks) : t + 1 \in DOMAIN old
            /\ Tail(tasks)[t] = old[t + 1]
      BY <1>3, <2>1, <2>9
    <3>2. \A t \in DOMAIN Tail(tasks) : \E r \in DOMAIN old : Tail(tasks)[t] = old[r]
      BY <3>1
    <3>3. PICK s \in Seq(Tasks) : s = Tail(tasks)
      BY <3>1
    <3> QED
      BY <2>5, <2>9, <3>2, <3>3
  <2>10. CASE RunTask
    BY <2>4, <2>9, <2>10 DEF RunTask, RunAttach, RunReenter, RunPending, EnterBy
  <2>11. CASE \E c \in Clients : Enter(c) \/ Leave(c)
    BY <2>7, <2>8, <2>11 DEF Enter, Leave, EnterBy
  <2>12. CASE Receive
    BY <2>6, <2>7, <2>12 DEF Receive, ReceiveAttached, ReceiveDetached, ReceiveError,
       ReceivePresence, ReceiveAnswer
  <2>13. CASE Connect
    BY <2>7, <2>8, <2>13 DEF Connect
  <2> QED
    BY <2>6, <2>7, <2>10, <2>11, <2>12, <2>13 DEF Next, ServerHandles, ServerEnds, Lose, GiveUp,
       ConnectAgain, Attach, Detach, TimeOut, RetryAttach
<1>9. KnownMine'
  <2> SUFFICES ASSUME NEW c \in Clients, NEW new, new = mine'.items[c], new # None
               PROVE  new.action = "present" /\ KnownItem(c, new)'
    BY DEF KnownMine, KnownItem
  <2>1. mine.items[c] # None => mine.items[c].action = "present" /\ KnownItem(c, mine.items[c])
    BY DEF Known, KnownMine
  <2>2. PICK old : old = mine.items[c]
    OBVIOUS
  <2>3. CASE mine' = mine
    <3>1. KnownItem(c, old)'
      BY <1>4, <2>1, <2>2, <2>3
    <3> QED
      BY <2>1, <2>2, <2>3, <3>1
  <2>4. CASE mine' = Map!EmptyMap
    BY <2>4 DEF Map!EmptyMap
  <2>5. CASE Receive /\ ReceivePresence
    <3>1. PICK items \in Seq(ToldItems) : /\ items = inbox[1].items /\ mine' = OwnMembers(items)
                                          /\ inbox[1].type = "presence" /\ 1 \in DOMAIN inbox
      <4>1. Head(inbox) = inbox[1] /\ 1 \in DOMAIN inbox /\ inbox[1] \in Arrivals
        BY <1>3, <2>5 DEF Receive
      <4> QED
        BY <2>5, <4>1 DEF ReceivePresence, Arrivals
    <3>2. \/ new = old
          \/ \E q \in DOMAIN items : /\ items[q].client = c /\ items[q].item.action # "leave"
                                     /\ new.data = items[q].item.data /\ new.action = "present"
      BY <1>3, <2>2, <3>1, OwnMembersOf, ZenonT(60)
    <3>3. CASE new = old
      <4>1. KnownItem(c, old)'
        BY <1>4, <2>1, <2>2, <3>3
      <4> QED
        BY <2>1, <2>2, <3>3, <4>1
    <3>4. ASSUME NEW q \in DOMAIN items, items[q].client = c, items[q].item.action # "leave",
                 new.data = items[q].item.data, new.action = "present"
          PROVE  new.action = "present" /\ KnownItem(c, new)'
      <4>1. PICK told : told = items[q].item /\ KnownItem(c, told)
        BY <3>1, <3>4 DEF Known, KnownInbox
      <4>2. KnownItem(c, told)'
        BY <1>4, <4>1, SMTT(60)
      <4> QED
        BY <3>4, <4>1, <4>2 DEF KnownItem
    <3> QED
      BY <2>2, <3>2, <3>3, <3>4
  <2> QED
    BY <2>3, <2>4, <2>5, Zenon DEF Next, Enter, Leave, RunTask, ServerHandles, ServerEnds, Receive,
       ReceiveAttached, ReceiveDetached, ReceiveError, ReceiveAnswer, ActOnDetached,
       ActOnSuspended, Lose, GiveUp, Connect, ConnectAgain, Attach, Detach, TimeOut, RetryAttach
<1>10. KnownServer'
  <2> SUFFICES ASSUME NEW c \in Clients, NEW new, new = server'.members[c], new # None
               PROVE  new.action = "enter" /\ KnownItem(c, new)'
    BY DEF KnownServer, KnownItem
  <2>1. server.members[c] # None => server.members[c].action = "enter"
          /\ KnownItem(c, server.members[c])
    BY DEF Known, KnownServer
  <2>2. PICK old : old = server.members[c]
    OBVIOUS
  <2>3. CASE server'.members = server.members
    <3>1. KnownItem(c, old)'
      BY <1>4, <2>1, <2>2, <2>3
    <3> QED
      BY <2>1, <2>2, <2>3, <3>1
  <2>4. CASE \E s \in {"new", "attached", "detached"} : server' = NoMembers(s)
    BY <2>4, NoMembersType
  <2>5. CASE ServerHandles /\ ServerTakes
    <3>1. 1 \in DOMAIN outbox /\ Head(outbox) = outbox[1] /\ outbox[1].type = "presence"
            /\ outbox[1] \in Requests
      BY <1>3, <2>5 DEF ServerHandles, ServerTakes
    <3>2. PICK m \in Messages, k \in DOMAIN unacked : m = outbox[1] /\ m = unacked[k]
      BY <3>1, OutboxIsUnacked DEF Requests
    <3>3. server' = [server EXCEPT !.members = Members(m)]
      BY <2>5, <3>1, <3>2 DEF ServerTakes
    <3>4. server'.members = Members(m)
      <4>1. server \in [state : {"new", "attached", "detached"}, members : MemberMaps]
        BY DEF Typed
      <4> QED
        BY <3>3, <4>1
    <3>5. \/ new = old
          \/ \E q \in DOMAIN m.entries : /\ m.entries[q].client = c /\ m.entries[q].action = "enter"
                                         /\ new.data = m.entries[q].data /\ new.action = "enter"
      BY <1>3, <2>2, <3>4, MembersOf, SMTT(60)
    <3>6. CASE new = old
      <4>1. KnownItem(c, old)'
        BY <1>4, <2>1, <2>2, <3>6
      <4> QED
        BY <2>1, <2>2, <3>6, <4>1
    <3>7. ASSUME NEW q \in DOMAIN m.entries, m.entries[q].client = c, m.entries[q].action = "enter",
                 new.data = m.entries[q].data, new.action = "enter"
          PROVE  new.action = "enter" /\ KnownItem(c, new)'
      <4>1. /\ new.data \in DOMAIN calls /\ calls[new.data].client = c
            /\ calls[new.data].at # "queued" /\ calls[new.data].action = "enter"
        BY <3>2, <3>7, UnackedNames
      <4>2. KnownItem(c, new)
        BY <4>1 DEF KnownItem
      <4> QED
        BY <1>4, <3>7, <4>2
    <3> QED
      BY <2>2, <3>5, <3>6, <3>7
  <2>6. CASE ServerHandles /\ ~ServerTakes
    BY <2>3, <2>4, <2>6 DEF ServerHandles, ServerAttaches, ServerDetaches, ServerRefuses, Typed
  <2> QED
    BY <2>3, <2>4, <2>5, <2>6 DEF Next, Enter, Leave, RunTask, ServerEnds, Receive, Lose, GiveUp,
       Connect, ConnectAgain, Attach, Detach, TimeOut, RetryAttach, service
<1>11. KnownInbox'
  <2> DEFINE Fine(x) == x.type = "presence" =>
               \A q \in DOMAIN x.items :
                  /\ x.items[q].item.data \in DOMAIN calls'
                  /\ calls'[x.items[q].item.data].client = x.items[q].client
                  /\ calls'[x.items[q].item.data].at # "queued"
                  /\ x.items[q].item.action # "leave"
                     => calls'[x.items[q].item.data].action = "enter"
  <2>1. ASSUME \A p \in DOMAIN inbox' : Fine(inbox'[p])
        PROVE  KnownInbox'
    BY <2>1 DEF KnownInbox, KnownItem
  <2>2. \A p \in DOMAIN inbox : Fine(inbox[p])
    <3> SUFFICES ASSUME NEW p \in DOMAIN inbox, inbox[p].type = "presence",
                        NEW q \in DOMAIN inbox[p].items
                 PROVE  LET c == inbox[p].items[q].client
                            item == inbox[p].items[q].item
                        IN  /\ item.data \in DOMAIN calls' /\ calls'[item.data].client = c
                            /\ calls'[item.data].at # "queued"
                            /\ item.action # "leave" => calls'[item.data].action = "enter"
      BY Zenon
    <3>1. PICK c, item : c = inbox[p].items[q].client /\ item = inbox[p].items[q].item
      OBVIOUS
    <3>2. KnownItem(c, item)
      BY <3>1 DEF Known, KnownInbox
    <3>3. KnownItem(c, item)'
      BY <1>4, <3>2, SMTT(60)
    <3> QED
      BY <3>1, <3>3 DEF KnownItem
  <2>3. ASSUME ServerHandles, ServerTakes PROVE Fine(Told(Head(outbox)))
    <3>1. 1 \in DOMAIN outbox /\ Head(outbox) = outbox[1] /\ outbox[1].type = "presence"
            /\ outbox[1] \in Requests
      BY <1>3, <2>3 DEF ServerHandles, ServerTakes
    <3>2. PICK m \in Messages, k \in DOMAIN unacked : m = outbox[1] /\ m = unacked[k]
      BY <3>1, OutboxIsUnacked DEF Requests
    <3>3. PICK told : /\ told = Told(m) /\ DOMAIN told.items = DOMAIN m.entries
                      /\ \A q \in DOMAIN m.entries :
                           /\ told.items[q].client = m.entries[q].client
                           /\ told.items[q].item.data = m.entries[q].data
                           /\ told.items[q].item.action = m.entries[q].action
      BY ToldOf
    <3>4. ASSUME NEW q \in DOMAIN m.entries
          PROVE  KnownItem(told.items[q].client, told.items[q].item)
      <4>1. PICK e : e = m.entries[q] /\ e \in Entries /\ e.data \in DOMAIN calls
                     /\ calls[e.data].client = e.client /\ calls[e.data].at # "queued"
                     /\ (e.action = "enter" => calls[e.data].action = "enter")
        BY <3>2, UnackedNames
      <4>2. e.action \in {"enter", "leave"}
        BY <4>1 DEF Entries
      <4> QED
        BY <3>3, <4>1, <4>2 DEF KnownItem
    <3>5. \A q \in DOMAIN m.entries : KnownItem(told.items[q].client, told.items[q].item)'
      BY <1>4, <3>4
    <3> QED
      BY <3>1, <3>2, <3>3, <3>5 DEF KnownItem
  <2>4. Fine(Present)
    <3>1. PICK present : present = Present
      OBVIOUS
    <3>2. ASSUME NEW q \in DOMAIN present.items
          PROVE  KnownItem(present.items[q].client, present.items[q].item)'
      <4>1. PICK c \in Clients : /\ c = present.items[q].client /\ server.members[c] # None
                                 /\ present.items[q].item = server.members[c]
        BY <3>1, PresentOf
      <4>2. PICK item : item = server.members[c] /\ KnownItem(c, item)
        BY <4>1 DEF Known, KnownServer
      <4>3. KnownItem(c, item)'
        BY <1>4, <4>2
      <4>4. present.items[q].client = c /\ present.items[q].item = item
        BY <4>1, <4>2, SMTT(60)
      <4> QED
        BY <4>3, <4>4
    <3> QED
      BY <3>1, <3>2 DEF KnownItem
  <2>5. CASE inbox' = inbox
    BY <2>1, <2>2, <2>5
  <2>6. CASE inbox' = <<>>
    BY <2>1, <2>6
  <2>7. CASE inbox # <<>> /\ inbox' = Tail(inbox)
    <3>1. \A p \in DOMAIN inbox' : p + 1 \in DOMAIN inbox /\ inbox'[p] = inbox[p + 1]
      BY <1>3, <2>7, SMTT(60)
    <3> HIDE DEF Fine
    <3> QED
      BY <2>1, <2>2, <3>1
  <2>8. CASE \E new \in Seq(Arrivals) : inbox' = inbox \o new /\ Arrives(new)
    <3>1. PICK new \in Seq(Arrivals) : inbox' = inbox \o new /\ Arrives(new)
      BY <2>8
    <3>2. /\ Len(inbox) \in Nat /\ Len(new) \in Nat
          /\ DOMAIN inbox = 1..Len(inbox) /\ DOMAIN new = 1..Len(new)
          /\ DOMAIN inbox' = 1..(Len(inbox) + Len(new))
          /\ \A i \in 1..Len(inbox) : inbox'[i] = inbox[i]
          /\ \A i \in 1..Len(new) : inbox'[Len(inbox) + i] = new[i]
      BY <1>3, <3>1, ConcatAt, SMTT(60)
    <3>3. ASSUME NEW i \in 1..Len(new) PROVE Fine(new[i])
      <4>1. CASE new[i].type # "presence"
        BY <4>1, SMTT(60)
      <4>2. CASE new[i].type = "presence"
        <5>1. CASE new[i] = Present
          BY <2>4, <5>1, Zenon
        <5>2. CASE ServerHandles /\ ServerTakes /\ new[i] = Told(Head(outbox))
          BY <2>3, <5>2, Zenon
        <5> QED
          BY <3>1, <4>2, <5>1, <5>2, TellsNow
      <4> QED
        BY <4>1, <4>2, SMTT(60)
    <3>4. ASSUME NEW p \in DOMAIN inbox' PROVE Fine(inbox'[p])
      <4> HIDE DEF Fine
      <4>1. CASE p <= Len(inbox)
        BY <2>2, <3>2, <4>1
      <4>2. CASE ~(p <= Len(inbox))
        <5>1. PICK i \in 1..Len(new) : i = p - Len(inbox) /\ Len(inbox) + i = p
          BY <3>2, <4>2
        <5> QED
          BY <3>2, <3>3, <5>1
      <4> QED
        BY <4>1, <4>2
    <3> QED
      BY <2>1, <3>4
  <2> QED
    BY <2>5, <2>6, <2>7, <2>8, InboxMoves
<1>12. KnownShown'
  <2> SUFFICES ASSUME NEW i \in DOMAIN calls', NEW c, c = calls'[i].client, calls'[i].shown
               PROVE  Entered(c, i)'
    BY DEF KnownShown, Entered
  <2>1. i \in DOMAIN calls /\ c = calls[i].client /\ (calls[i].shown \/ Shown(i))
    BY <1>1 DEF Evolution
  <2>2. CASE calls[i].shown
    <3>1. Entered(c, i)
      BY <2>1, <2>2 DEF Known, KnownShown
    <3> QED
      BY <1>4, <3>1
  <2>3. CASE Shown(i)
    <3>1. 1 \in DOMAIN inbox /\ inbox[1].type = "presence"
      BY <1>3, <2>3 DEF Shown, Receive, ReceivePresence
    <3>2. PICK q \in DOMAIN inbox[1].items : /\ inbox[1].items[q].item.data = i
                                             /\ inbox[1].items[q].item.action # "leave"
      BY <2>3 DEF Shown, Shows
    <3>3. KnownItem(inbox[1].items[q].client, inbox[1].items[q].item)
      BY <3>1 DEF Known, KnownInbox
    <3>4. Entered(c, i)
      BY <2>1, <3>2, <3>3 DEF KnownItem, Entered
    <3> QED
      BY <1>4, <3>4
  <2> QED
    BY <2>1, <2>2, <2>3
<1> QED
  BY <1>6, <1>7, <1>8, <1>9, <1>10, <1>11, <1>12 DEF Known
-----------------------------------------------------------------------------
(* The answers.                                                             *)

\* The lengths of what is on its way, and what a message is.
LEMMA Lengths ==
  ASSUME Typed
  PROVE  /\ inbox \in Seq(Arrivals) /\ outbox \in Seq(Requests) /\ unacked \in Seq(Messages)
         /\ Len(inbox) \in Nat /\ Len(outbox) \in Nat /\ Len(unacked) \in Nat
         /\ DOMAIN inbox = 1..Len(inbox) /\ DOMAIN outbox = 1..Len(outbox)
         /\ DOMAIN unacked = 1..Len(unacked)
         /\ \A n \in DOMAIN unacked : unacked[n] \in Messages /\ unacked[n].type = "presence"
<1>1. /\ inbox \in Seq(Arrivals) /\ outbox \in Seq(Requests) /\ unacked \in Seq(Messages)
      /\ Len(inbox) \in Nat /\ Len(outbox) \in Nat /\ Len(unacked) \in Nat
      /\ DOMAIN inbox = 1..Len(inbox) /\ DOMAIN outbox = 1..Len(outbox)
      /\ DOMAIN unacked = 1..Len(unacked)
  BY LenProperties DEF Typed
<1>2. \A n \in DOMAIN unacked : unacked[n] \in Messages
  BY <1>1, ElementOfSeq
<1> QED
  BY <1>1, <1>2 DEF Messages

\* The answers to U messages are among L arrivals and O requests.
At(pos, u, U, in, L, out, O) ==
  /\ U \in Nat /\ L \in Nat /\ O \in Nat
  /\ pos = [n \in 1..U |-> pos[n]]
  /\ \A n \in 1..U : pos[n] \in Nat /\ 1 <= pos[n] /\ pos[n] <= L + O
  /\ \A n, k \in 1..U : n < k => pos[n] < pos[k]
  /\ \A p \in 1..L : in[p].type \in Answers => \E n \in 1..U : pos[n] = p
  /\ \A p \in 1..O : out[p].type = "presence" => \E n \in 1..U : pos[n] = L + p
  /\ \A n \in 1..U : IF pos[n] <= L THEN in[pos[n]].type \in Answers ELSE out[pos[n] - L] = u[n]

\* It is what Matches says.
LEMMA MatchesAt ==
  ASSUME Typed
  PROVE  \A pos : Matches(pos) <=> At(pos, unacked, Len(unacked), inbox, Len(inbox), outbox, Len(outbox))
<1>1. \A U, L, O \in Nat : \A pos :
         pos \in [1..U -> 1..(L + O)] <=> /\ pos = [n \in 1..U |-> pos[n]]
                                        /\ \A n \in 1..U : pos[n] \in Nat /\ 1 <= pos[n]
                                           /\ pos[n] <= L + O
  OBVIOUS
<1> QED
  BY <1>1, Lengths, SMTT(60) DEF Matches, At

\* A sequence of n elements is kept at the start of another, or loses its first element.
Keeps(s, n, t) == \A p \in 1..n : t[p] = s[p]
Loses(s, n, t) == 1 <= n /\ \A p \in 1..(n - 1) : t[p] = s[p + 1]

\* Where the answers are then.
SentAt(pos, U, L, O) == [n \in 1..(U + 1) |-> IF n <= U THEN pos[n] ELSE L + O + 1]
HandledAt(pos, U, L, K) == [n \in 1..U |-> IF pos[n] <= L THEN pos[n] ELSE pos[n] + K - 1]
ToldAt(pos, U, L) == [n \in 1..U |-> IF pos[n] <= L THEN pos[n] ELSE pos[n] + 1]
ReceivedAt(pos, U) == [n \in 1..U |-> pos[n] - 1]
AnsweredAt(pos, U) == [n \in 1..(U - 1) |-> pos[n + 1] - 1]

\* K arrivals handle the first of what is on its way.
Handles(told, L, K, out) ==
  /\ K \in Nat /\ 1 <= K
  /\ \A i \in 1..K : told[L + i].type \in Answers => i = K /\ out[1].type = "presence"
  /\ out[1].type = "presence" => told[L + K].type \in Answers
AreMessages(u, U) == \A n \in 1..U : u[n].type = "presence"

\* One more message, at the end of what is on its way.
LEMMA AtSent ==
  ASSUME NEW U, NEW L, NEW O, NEW pos, NEW u, NEW in, NEW out, NEW m,
         At(pos, u, U, in, L, out, O),
         NEW v, Keeps(u, U, v), v[U + 1] = m, NEW sent, Keeps(out, O, sent), sent[O + 1] = m
  PROVE  At(SentAt(pos, U, L, O), v, U + 1, in, L, sent, O + 1)
<1> SUFFICES ASSUME NEW new, U \in Nat, L \in Nat, O \in Nat,
                    new = [n \in 1..(U + 1) |-> IF n <= U THEN pos[n] ELSE L + O + 1],
                    \A n \in 1..U : v[n] = u[n], \A p \in 1..O : sent[p] = out[p]
             PROVE  At(new, v, U + 1, in, L, sent, O + 1)
  BY DEF SentAt, Keeps, At
<1>1. /\ \A n \in 1..U : new[n] = pos[n] /\ pos[n] \in Nat /\ 1 <= pos[n] /\ pos[n] <= L + O
      /\ new[U + 1] = L + O + 1
  BY DEF At
<1>s. ASSUME NEW n \in 1..(U + 1), n # U + 1 PROVE n \in 1..U
  BY <1>s
<1>t. U + 1 \in 1..(U + 1)
  OBVIOUS
<1>2. /\ new = [n \in 1..(U + 1) |-> new[n]]
      /\ \A n \in 1..(U + 1) : new[n] \in Nat /\ 1 <= new[n] /\ new[n] <= L + (O + 1)
  <2>1. ASSUME NEW n \in 1..(U + 1) PROVE new[n] \in Nat /\ 1 <= new[n] /\ new[n] <= L + (O + 1)
    <3>1. CASE n = U + 1
      BY <1>1, <3>1
    <3>2. CASE n # U + 1
      <4>1. n \in 1..U
        BY <1>s, <3>2
      <4>2. new[n] = pos[n] /\ pos[n] \in Nat /\ 1 <= pos[n] /\ pos[n] <= L + O
        BY <1>1, <4>1, Zenon
      <4> QED
        BY <4>2
    <3> QED
      BY <3>1, <3>2
  <2> QED
    BY <2>1
<1>3. \A n, k \in 1..(U + 1) : n < k => new[n] < new[k]
  <2> SUFFICES ASSUME NEW n \in 1..(U + 1), NEW k \in 1..(U + 1), n < k PROVE new[n] < new[k]
    OBVIOUS
  <2>1. CASE k <= U
    BY <1>1, <2>1 DEF At
  <2>2. CASE k = U + 1
    <3>1. n \in 1..U
      BY <1>s, <2>2
    <3>2. new[n] = pos[n] /\ pos[n] \in Nat /\ pos[n] <= L + O /\ new[k] = L + O + 1
      BY <1>1, <2>2, <3>1, Zenon
    <3> QED
      BY <3>2
  <2> QED
    BY <2>1, <2>2
<1>4. \A p \in 1..L : in[p].type \in Answers => \E n \in 1..(U + 1) : new[n] = p
  BY <1>1 DEF At
<1>5. ASSUME NEW p \in 1..(O + 1), sent[p].type = "presence"
      PROVE  \E n \in 1..(U + 1) : new[n] = L + p
  <2>1. CASE p <= O
    <3>1. p \in 1..O /\ out[p].type = "presence"
      BY <1>5, <2>1
    <3>2. PICK n \in 1..U : pos[n] = L + p
      BY <3>1 DEF At
    <3>3. n \in 1..(U + 1) /\ new[n] = pos[n]
      BY <1>1
    <3> QED
      BY <3>2, <3>3
  <2>2. CASE p = O + 1
    <3>1. new[U + 1] = L + p
      BY <1>1, <2>2
    <3> QED
      BY <1>t, <3>1
  <2> QED
    BY <2>1, <2>2
<1>6. ASSUME NEW n \in 1..(U + 1)
      PROVE  IF new[n] <= L THEN in[new[n]].type \in Answers ELSE sent[new[n] - L] = v[n]
  <2>1. CASE n <= U
    <3>1. n \in 1..U /\ pos[n] \in Nat /\ 1 <= pos[n] /\ pos[n] <= L + O /\ new[n] = pos[n]
      <4>1. n \in 1..U
        BY <2>1
      <4> QED
        BY <1>1, <4>1, Zenon
    <3>2. ~(pos[n] <= L) => pos[n] - L \in 1..O
      BY <3>1
    <3>3. IF pos[n] <= L THEN in[pos[n]].type \in Answers ELSE out[pos[n] - L] = u[n]
      BY <3>1 DEF At
    <3> QED
      BY <3>1, <3>2, <3>3
  <2>2. CASE n = U + 1
    BY <1>1, <2>2
  <2> QED
    BY <2>1, <2>2
<1> QED
  BY <1>2, <1>3, <1>4, <1>5, <1>6 DEF At

\* The first of what is on its way is handled: K arrivals, the last of which is an answer if it
\* was a message.
LEMMA AtHandled ==
  ASSUME NEW U, NEW L, NEW O, NEW K,
         NEW pos, NEW u, NEW in, NEW out, At(pos, u, U, in, L, out, O),
         AreMessages(u, U), NEW told, Keeps(in, L, told), Handles(told, L, K, out),
         NEW left, Loses(out, O, left)
  PROVE  At(HandledAt(pos, U, L, K), u, U, told, L + K, left, O - 1)
<1> SUFFICES ASSUME NEW new, U \in Nat, L \in Nat, O \in Nat, K \in Nat, 1 <= K, 1 <= O,
                    new = [n \in 1..U |-> IF pos[n] <= L THEN pos[n] ELSE pos[n] + K - 1],
                    \A n \in 1..U : u[n].type = "presence",
                    \A p \in 1..L : told[p] = in[p],
                    \A i \in 1..K : told[L + i].type \in Answers
                      => i = K /\ out[1].type = "presence",
                    out[1].type = "presence" => told[L + K].type \in Answers,
                    \A p \in 1..(O - 1) : left[p] = out[p + 1]
             PROVE  At(new, u, U, told, L + K, left, O - 1)
  BY DEF HandledAt, Keeps, Loses, Handles, AreMessages, At
<1>1. \A n \in 1..U : /\ pos[n] \in Nat /\ 1 <= pos[n] /\ pos[n] <= L + O
                      /\ pos[n] <= L => new[n] = pos[n]
                      /\ ~(pos[n] <= L) => new[n] = pos[n] + K - 1
  BY DEF At
<1>2. /\ new = [n \in 1..U |-> new[n]]
      /\ \A n \in 1..U : new[n] \in Nat /\ 1 <= new[n] /\ new[n] <= (L + K) + (O - 1)
  <2>1. ASSUME NEW n \in 1..U PROVE new[n] \in Nat /\ 1 <= new[n] /\ new[n] <= (L + K) + (O - 1)
    <3>1. pos[n] \in Nat /\ 1 <= pos[n] /\ pos[n] <= L + O
      BY <1>1
    <3>2. CASE pos[n] <= L
      BY <1>1, <3>1, <3>2
    <3>3. CASE ~(pos[n] <= L)
      BY <1>1, <3>1, <3>3
    <3> QED
      BY <3>2, <3>3
  <2> QED
    BY <2>1
<1>3. \A n, k \in 1..U : n < k => new[n] < new[k]
  BY <1>1, SMTT(60) DEF At
<1>4. ASSUME NEW p \in 1..(L + K), told[p].type \in Answers
      PROVE  \E n \in 1..U : new[n] = p
  <2>1. CASE p <= L
    <3>1. p \in 1..L /\ told[p] = in[p]
      BY <2>1
    <3>2. PICK n \in 1..U : pos[n] = p
      BY <1>4, <3>1 DEF At
    <3> QED
      BY <1>1, <2>1, <3>2
  <2>2. CASE ~(p <= L)
    <3>1. PICK i \in 1..K : i = p - L /\ L + i = p
      BY <2>2
    <3>2. i = K /\ out[1].type = "presence"
      BY <1>4, <3>1
    <3>3. PICK n \in 1..U : pos[n] = L + 1
      <4>1. 1 \in 1..O
        OBVIOUS
      <4> QED
        BY <3>2, <4>1 DEF At
    <3>4. ~(pos[n] <= L)
      BY <3>3
    <3>5. new[n] = pos[n] + K - 1
      BY <1>1, <3>4, Zenon
    <3>6. (L + 1) + K - 1 = L + K
      OBVIOUS
    <3>7. new[n] = p
      BY <3>1, <3>2, <3>3, <3>5, <3>6, Zenon
    <3> QED
      BY <3>7
  <2> QED
    BY <2>1, <2>2
<1>5. ASSUME NEW p \in 1..(O - 1), left[p].type = "presence"
      PROVE  \E n \in 1..U : new[n] = (L + K) + p
  <2>1. PICK n \in 1..U : pos[n] = L + (p + 1)
    BY <1>5, SMTT(60) DEF At
  <2>2. ~(pos[n] <= L)
    BY <2>1
  <2>3. new[n] = pos[n] + K - 1
    BY <1>1, <2>2, Zenon
  <2> QED
    BY <2>1, <2>3
<1>6. ASSUME NEW n \in 1..U
      PROVE  IF new[n] <= L + K
             THEN told[new[n]].type \in Answers ELSE left[new[n] - (L + K)] = u[n]
  <2>1. CASE pos[n] <= L
    <3>1. pos[n] \in 1..L /\ new[n] = pos[n]
      BY <1>1, <2>1
    <3>2. in[pos[n]].type \in Answers
      BY <2>1 DEF At
    <3> QED
      BY <3>1, <3>2
  <2>2. CASE pos[n] = L + 1
    <3>1. out[1] = u[n]
      <4>1. pos[n] - L = 1 /\ ~(pos[n] <= L)
        BY <1>1, <2>2
      <4> QED
        BY <4>1 DEF At
    <3>2. new[n] = L + K /\ told[L + K].type \in Answers
      <4>1. ~(pos[n] <= L) /\ new[n] = (L + 1) + K - 1
        BY <1>1, <2>2
      <4> QED
        BY <3>1, <4>1
    <3> QED
      BY <3>2
  <2>3. CASE pos[n] > L + 1
    <3>1. out[pos[n] - L] = u[n] /\ pos[n] - L - 1 \in 1..(O - 1)
      BY <1>1, <2>3, SMTT(60) DEF At
    <3>2. left[pos[n] - L - 1] = out[pos[n] - L]
      <4>1. PICK r \in 1..(O - 1) : r = pos[n] - L - 1
        BY <3>1
      <4>2. r + 1 = pos[n] - L
        BY <1>1, <4>1, SMTT(60)
      <4> QED
        BY <4>1, <4>2
    <3>3. ~(new[n] <= L + K) /\ new[n] - (L + K) = pos[n] - L - 1
      BY <1>1, <2>3, SMTT(60)
    <3> QED
      BY <3>1, <3>2, <3>3
  <2> QED
    BY <1>1, <2>1, <2>2, <2>3, SMTT(60)
<1> QED
  BY <1>2, <1>3, <1>4, <1>5, <1>6 DEF At

\* Something that is no answer arrives.
LEMMA AtTold ==
  ASSUME NEW U, NEW L, NEW O,
         NEW pos, NEW u, NEW in, NEW out, At(pos, u, U, in, L, out, O),
         NEW told, Keeps(in, L, told), told[L + 1].type \notin Answers
  PROVE  At(ToldAt(pos, U, L), u, U, told, L + 1, out, O)
<1> SUFFICES ASSUME NEW new, U \in Nat, L \in Nat, O \in Nat,
                    new = [n \in 1..U |-> IF pos[n] <= L THEN pos[n] ELSE pos[n] + 1],
                    \A p \in 1..L : told[p] = in[p]
             PROVE  At(new, u, U, told, L + 1, out, O)
  BY DEF ToldAt, Keeps, At
<1>1. \A n \in 1..U : /\ pos[n] \in Nat /\ 1 <= pos[n] /\ pos[n] <= L + O
                      /\ pos[n] <= L => new[n] = pos[n]
                      /\ ~(pos[n] <= L) => new[n] = pos[n] + 1
  BY DEF At
<1>2. /\ new = [n \in 1..U |-> new[n]]
      /\ \A n \in 1..U : new[n] \in Nat /\ 1 <= new[n] /\ new[n] <= (L + 1) + O
  BY <1>1
<1>3. \A n, k \in 1..U : n < k => new[n] < new[k]
  BY <1>1 DEF At
<1>4. \A p \in 1..(L + 1) : told[p].type \in Answers => \E n \in 1..U : new[n] = p
  BY <1>1 DEF At
<1>5. ASSUME NEW p \in 1..O, out[p].type = "presence"
      PROVE  \E n \in 1..U : new[n] = (L + 1) + p
  <2>1. PICK n \in 1..U : pos[n] = L + p
    BY <1>5 DEF At
  <2> QED
    BY <1>1, <2>1
<1>6. ASSUME NEW n \in 1..U
      PROVE  IF new[n] <= L + 1 THEN told[new[n]].type \in Answers ELSE out[new[n] - (L + 1)] = u[n]
  <2>1. CASE pos[n] <= L
    BY <1>1, <2>1 DEF At
  <2>2. CASE ~(pos[n] <= L)
    <3>1. ~(new[n] <= L + 1) /\ new[n] - (L + 1) = pos[n] - L
      BY <1>1, <2>2, SMTT(60)
    <3> QED
      BY <2>2, <3>1 DEF At
  <2> QED
    BY <2>1, <2>2
<1> QED
  BY <1>2, <1>3, <1>4, <1>5, <1>6 DEF At

\* The first arrival is received, no answer, ...
LEMMA AtReceived ==
  ASSUME NEW U, NEW L, NEW O,
         NEW pos, NEW u, NEW in, NEW out, At(pos, u, U, in, L, out, O), in[1].type \notin Answers,
         NEW left, Loses(in, L, left)
  PROVE  At(ReceivedAt(pos, U), u, U, left, L - 1, out, O)
<1> SUFFICES ASSUME NEW new, U \in Nat, L \in Nat, O \in Nat, 1 <= L,
                    new = [n \in 1..U |-> pos[n] - 1], \A p \in 1..(L - 1) : left[p] = in[p + 1]
             PROVE  At(new, u, U, left, L - 1, out, O)
  BY DEF ReceivedAt, Loses, At
<1>1. \A n \in 1..U : pos[n] \in Nat /\ 2 <= pos[n] /\ pos[n] <= L + O /\ new[n] = pos[n] - 1
  <2> SUFFICES ASSUME NEW n \in 1..U PROVE pos[n] \in Nat /\ 2 <= pos[n] /\ pos[n] <= L + O
        /\ new[n] = pos[n] - 1
    OBVIOUS
  <2>1. pos[n] \in Nat /\ 1 <= pos[n] /\ pos[n] <= L + O
    BY DEF At
  <2>2. pos[n] # 1
    BY DEF At
  <2> QED
    BY <2>1, <2>2
<1>2. /\ new = [n \in 1..U |-> new[n]]
      /\ \A n \in 1..U : new[n] \in Nat /\ 1 <= new[n] /\ new[n] <= (L - 1) + O
  <2>1. ASSUME NEW n \in 1..U PROVE new[n] \in Nat /\ 1 <= new[n] /\ new[n] <= (L - 1) + O
    <3>1. pos[n] \in Nat /\ 2 <= pos[n] /\ pos[n] <= L + O /\ new[n] = pos[n] - 1
      BY <1>1, Zenon
    <3> QED
      BY <3>1
  <2>2. new = [n \in 1..U |-> new[n]]
    OBVIOUS
  <2> QED
    BY <2>1, <2>2
<1>3. \A n, k \in 1..U : n < k => new[n] < new[k]
  BY <1>1 DEF At
<1>4. ASSUME NEW p \in 1..(L - 1), left[p].type \in Answers
      PROVE  \E n \in 1..U : new[n] = p
  <2>1. PICK n \in 1..U : pos[n] = p + 1
    BY <1>4, SMTT(60) DEF At
  <2>2. new[n] = pos[n] - 1
    BY <1>1, Zenon
  <2>3. new[n] = p
    BY <2>1, <2>2
  <2> QED
    BY <2>3
<1>5. ASSUME NEW p \in 1..O, out[p].type = "presence"
      PROVE  \E n \in 1..U : new[n] = (L - 1) + p
  <2>1. PICK n \in 1..U : pos[n] = L + p
    BY <1>5 DEF At
  <2> QED
    BY <1>1, <2>1
<1>6. ASSUME NEW n \in 1..U
      PROVE  IF new[n] <= L - 1 THEN left[new[n]].type \in Answers ELSE out[new[n] - (L - 1)] = u[n]
  <2>1. CASE pos[n] <= L
    <3>1. in[pos[n]].type \in Answers /\ new[n] \in 1..(L - 1) /\ new[n] + 1 = pos[n]
      BY <1>1, <2>1 DEF At
    <3>2. left[new[n]] = in[new[n] + 1]
      BY <3>1
    <3> QED
      BY <3>1, <3>2
  <2>2. CASE ~(pos[n] <= L)
    <3>1. ~(new[n] <= L - 1) /\ new[n] - (L - 1) = pos[n] - L
      BY <1>1, <2>2
    <3> QED
      BY <2>2, <3>1 DEF At
  <2> QED
    BY <2>1, <2>2
<1> QED
  BY <1>2, <1>3, <1>4, <1>5, <1>6 DEF At

\* ... or the answer to the first message.
LEMMA AtAnswered ==
  ASSUME NEW U \in Nat, NEW L \in Nat, NEW O \in Nat, 1 <= L,
         NEW pos, NEW u, NEW in, NEW out, At(pos, u, U, in, L, out, O), in[1].type \in Answers
  PROVE  /\ 1 <= U /\ pos[1] = 1
         /\ \A left, v : Loses(in, L, left) /\ Loses(u, U, v)
              => At(AnsweredAt(pos, U), v, U - 1, left, L - 1, out, O)
<1>1. 1 <= U /\ pos[1] = 1
  <2>1. PICK n \in 1..U : pos[n] = 1
    BY DEF At
  <2>2. 1 \in 1..U /\ pos[1] \in Nat /\ 1 <= pos[1]
    BY <2>1 DEF At
  <2>3. 1 < n => pos[1] < pos[n]
    BY <2>1, <2>2 DEF At
  <2>4. ~(1 < n)
    <3>1. ~(pos[1] < 1)
      BY <2>2
    <3> QED
      BY <2>1, <2>3, <3>1
  <2>5. n = 1
    BY <2>4
  <2> QED
    BY <2>1, <2>2, <2>5
<1> SUFFICES ASSUME NEW left, NEW v, NEW new,
                    \A p \in 1..(L - 1) : left[p] = in[p + 1],
                    \A n \in 1..(U - 1) : v[n] = u[n + 1],
                    new = [n \in 1..(U - 1) |-> pos[n + 1] - 1]
             PROVE  At(new, v, U - 1, left, L - 1, out, O)
  BY <1>1 DEF Loses, AnsweredAt
<1>2. \A n \in 1..(U - 1) : n + 1 \in 1..U /\ pos[n + 1] \in Nat /\ 2 <= pos[n + 1]
        /\ pos[n + 1] <= L + O /\ new[n] = pos[n + 1] - 1
  <2> SUFFICES ASSUME NEW n \in 1..(U - 1)
               PROVE  n + 1 \in 1..U /\ pos[n + 1] \in Nat /\ 2 <= pos[n + 1]
                 /\ pos[n + 1] <= L + O /\ new[n] = pos[n + 1] - 1
    OBVIOUS
  <2>1. n + 1 \in 1..U /\ 1 \in 1..U /\ 1 < n + 1
    BY <1>1
  <2>2. pos[n + 1] \in Nat /\ 1 <= pos[n + 1] /\ pos[n + 1] <= L + O /\ pos[1] < pos[n + 1]
    BY <2>1 DEF At
  <2> QED
    BY <1>1, <2>1, <2>2
<1>3. /\ new = [n \in 1..(U - 1) |-> new[n]]
      /\ \A n \in 1..(U - 1) : new[n] \in Nat /\ 1 <= new[n] /\ new[n] <= (L - 1) + O
  <2>1. ASSUME NEW n \in 1..(U - 1) PROVE new[n] \in Nat /\ 1 <= new[n] /\ new[n] <= (L - 1) + O
    <3>1. pos[n + 1] \in Nat /\ 2 <= pos[n + 1] /\ pos[n + 1] <= L + O /\ new[n] = pos[n + 1] - 1
      BY <1>2
    <3> QED
      BY <3>1, SMTT(60)
  <2>2. new = [n \in 1..(U - 1) |-> new[n]]
    OBVIOUS
  <2> QED
    BY <2>1, <2>2
<1>4. \A n, k \in 1..(U - 1) : n < k => new[n] < new[k]
  <2> SUFFICES ASSUME NEW n \in 1..(U - 1), NEW k \in 1..(U - 1), n < k PROVE new[n] < new[k]
    OBVIOUS
  <2>1. pos[n + 1] < pos[k + 1]
    BY <1>2, SMTT(60) DEF At
  <2> QED
    BY <1>2, <2>1, SMTT(60)
<1>5. ASSUME NEW k \in 1..U, pos[k] > 1
      PROVE  k - 1 \in 1..(U - 1) /\ new[k - 1] = pos[k] - 1
  <2>1. k # 1
    BY <1>1, <1>5
  <2>2. k - 1 \in 1..(U - 1) /\ (k - 1) + 1 = k
    BY <2>1
  <2> QED
    BY <1>2, <2>2
<1>6. ASSUME NEW p \in 1..(L - 1), left[p].type \in Answers
      PROVE  \E n \in 1..(U - 1) : new[n] = p
  <2>1. p + 1 \in 1..L /\ in[p + 1].type \in Answers
    BY <1>6
  <2>2. PICK n \in 1..U : pos[n] = p + 1
    BY <2>1 DEF At
  <2>3. n - 1 \in 1..(U - 1) /\ new[n - 1] = pos[n] - 1
    <3>1. pos[n] > 1
      BY <2>2
    <3> QED
      BY <1>5, <3>1, Zenon
  <2>4. (p + 1) - 1 = p
    OBVIOUS
  <2>5. new[n - 1] = p
    BY <2>2, <2>3, <2>4, Zenon
  <2> QED
    BY <2>3, <2>5, Zenon
<1>7. ASSUME NEW p \in 1..O, out[p].type = "presence"
      PROVE  \E n \in 1..(U - 1) : new[n] = (L - 1) + p
  <2>1. PICK n \in 1..U : pos[n] = L + p
    BY <1>7 DEF At
  <2>2. n - 1 \in 1..(U - 1) /\ new[n - 1] = pos[n] - 1
    <3>1. pos[n] > 1
      BY <2>1
    <3> QED
      BY <1>5, <3>1, Zenon
  <2>3. (L + p) - 1 = (L - 1) + p
    OBVIOUS
  <2>4. new[n - 1] = (L - 1) + p
    BY <2>1, <2>2, <2>3, Zenon
  <2> QED
    BY <2>2, <2>4, Zenon
<1>8. ASSUME NEW n \in 1..(U - 1)
      PROVE  IF new[n] <= L - 1 THEN left[new[n]].type \in Answers ELSE out[new[n] - (L - 1)] = v[n]
  <2>1. n + 1 \in 1..U /\ pos[n + 1] \in Nat /\ 2 <= pos[n + 1] /\ pos[n + 1] <= L + O
          /\ new[n] = pos[n + 1] - 1 /\ v[n] = u[n + 1]
    BY <1>2
  <2>2. CASE pos[n + 1] <= L
    <3>1. in[pos[n + 1]].type \in Answers /\ new[n] \in 1..(L - 1) /\ new[n] + 1 = pos[n + 1]
      BY <2>1, <2>2, SMTT(60) DEF At
    <3>2. left[new[n]] = in[new[n] + 1]
      BY <3>1
    <3> QED
      BY <3>1, <3>2, SMTT(60)
  <2>3. CASE ~(pos[n + 1] <= L)
    <3>1. ~(new[n] <= L - 1) /\ new[n] - (L - 1) = pos[n + 1] - L
      BY <2>1, <2>3
    <3>2. out[pos[n + 1] - L] = u[n + 1]
      BY <2>1, <2>3 DEF At
    <3> QED
      BY <2>1, <3>1, <3>2
  <2> QED
    BY <2>2, <2>3
<1> QED
  <2>1. U - 1 \in Nat /\ L - 1 \in Nat
    BY <1>1
  <2> QED
    BY <1>3, <1>4, <1>6, <1>7, <1>8, <2>1 DEF At

\* One more request, at the end of what is on its way.
LEMMA AtAsked ==
  ASSUME NEW U, NEW L, NEW O, NEW pos, NEW u, NEW in, NEW out, At(pos, u, U, in, L, out, O),
         NEW asked, Keeps(out, O, asked), asked[O + 1].type # "presence"
  PROVE  At(pos, u, U, in, L, asked, O + 1)
<1> SUFFICES ASSUME U \in Nat, L \in Nat, O \in Nat, \A p \in 1..O : asked[p] = out[p]
             PROVE  At(pos, u, U, in, L, asked, O + 1)
  BY DEF At, Keeps
<1>1. \A n \in 1..U : pos[n] \in Nat /\ 1 <= pos[n] /\ pos[n] <= L + O
  BY DEF At
<1>2. ASSUME NEW p \in 1..(O + 1), asked[p].type = "presence"
      PROVE  \E n \in 1..U : pos[n] = L + p
  <2>1. p # O + 1
    BY <1>2
  <2>2. p \in 1..O
    BY <2>1
  <2>3. out[p].type = "presence"
    BY <1>2, <2>2
  <2> QED
    BY <2>2, <2>3 DEF At
<1>3. ASSUME NEW n \in 1..U
      PROVE  IF pos[n] <= L THEN in[pos[n]].type \in Answers ELSE asked[pos[n] - L] = u[n]
  <2>1. pos[n] \in Nat /\ 1 <= pos[n] /\ pos[n] <= L + O
    BY <1>1, Zenon
  <2>2. ~(pos[n] <= L) => pos[n] - L \in 1..O
    BY <2>1
  <2>3. IF pos[n] <= L THEN in[pos[n]].type \in Answers ELSE out[pos[n] - L] = u[n]
    BY DEF At
  <2> QED
    BY <2>2, <2>3
<1>4. \A n \in 1..U : pos[n] \in Nat /\ 1 <= pos[n] /\ pos[n] <= L + (O + 1)
  <2>1. ASSUME NEW n \in 1..U PROVE pos[n] \in Nat /\ 1 <= pos[n] /\ pos[n] <= L + (O + 1)
    <3>1. pos[n] \in Nat /\ 1 <= pos[n] /\ pos[n] <= L + O
      BY <1>1, Zenon
    <3> QED
      BY <3>1
  <2> QED
    BY <2>1
<1> QED
  BY <1>2, <1>3, <1>4 DEF At
\* Where the answer to a message is moves with what is before it.
LEMMA SameMatch ==
  ASSUME Typed, NEW pos \in [DOMAIN unacked -> 1..(Len(inbox) + Len(outbox))], Matches(pos),
         Taken(pos),
         UNCHANGED <<unacked, inbox, server>>,
         NEW more \in Seq(Requests), outbox' = outbox \o more,
         \A p \in DOMAIN more : more[p].type # "presence"
  PROVE  /\ pos \in [DOMAIN unacked' -> 1..(Len(inbox') + Len(outbox'))]
         /\ Matches(pos)' /\ Taken(pos)'
<1>1. /\ Len(inbox) \in Nat /\ Len(outbox) \in Nat /\ Len(unacked) \in Nat
         /\ outbox \in Seq(Requests)
      /\ DOMAIN inbox = 1..Len(inbox) /\ DOMAIN outbox = 1..Len(outbox)
      /\ DOMAIN unacked = 1..Len(unacked)
  BY Lengths
<1>2. /\ Len(more) \in Nat /\ DOMAIN more = 1..Len(more) /\ Len(outbox') = Len(outbox) + Len(more)
      /\ DOMAIN outbox' = 1..(Len(outbox) + Len(more))
      /\ \A p \in 1..Len(outbox) : outbox'[p] = outbox[p]
      /\ \A p \in 1..Len(more) : outbox'[Len(outbox) + p] = more[p]
  BY <1>1, ConcatAt
<1>3. pos \in [DOMAIN unacked' -> 1..(Len(inbox') + Len(outbox'))]
  BY <1>1, <1>2
<1>4. ASSUME NEW p \in DOMAIN outbox', outbox'[p].type = "presence"
      PROVE  p \in DOMAIN outbox /\ outbox'[p] = outbox[p]
  <2>1. CASE p <= Len(outbox)
    BY <1>1, <1>2, <2>1
  <2>2. CASE ~(p <= Len(outbox))
    <3>1. PICK r \in 1..Len(more) : r = p - Len(outbox) /\ Len(outbox) + r = p
      BY <1>1, <1>2, <2>2, SMTT(60)
    <3> QED
      BY <1>2, <1>4, <3>1
  <2> QED
    BY <2>1, <2>2
<1>5. ASSUME NEW n \in DOMAIN unacked
      PROVE  IF pos[n] <= Len(inbox) THEN inbox[pos[n]].type \in Answers
             ELSE outbox'[pos[n] - Len(inbox)] = unacked[n]
  <2>1. IF pos[n] <= Len(inbox) THEN inbox[pos[n]].type \in Answers
        ELSE outbox[pos[n] - Len(inbox)] = unacked[n]
    BY DEF Matches
  <2>2. ~(pos[n] <= Len(inbox)) => pos[n] - Len(inbox) \in 1..Len(outbox)
    BY <1>1
  <2> QED
    BY <1>2, <2>1, <2>2
<1>6. Matches(pos)'
  BY <1>3, <1>4, <1>5 DEF Matches
<1>7. Taken(pos)'
  <2>1. \A n, q, c : MakesMember(n, q, c)' <=> MakesMember(n, q, c)
    BY DEF MakesMember
  <2>2. \A p : DroppedAfter(p)' <=> DroppedAfter(p)
    BY DEF DroppedAfter
  <2> QED
    BY <2>1, <2>2 DEF Taken
<1> QED
  BY <1>3, <1>6, <1>7

\* The same of the state after a step.
LEMMA NextAt ==
  ASSUME Typed'
  PROVE  \A pos : At(pos, unacked', Len(unacked'), inbox', Len(inbox'), outbox', Len(outbox'))
                    => Matches(pos)' /\ pos \in [DOMAIN unacked' -> 1..(Len(inbox') + Len(outbox'))]
<1>1. \A U, L, O \in Nat : \A pos :
         pos \in [1..U -> 1..(L + O)] <=> /\ pos = [n \in 1..U |-> pos[n]]
                                        /\ \A n \in 1..U : pos[n] \in Nat /\ 1 <= pos[n]
                                           /\ pos[n] <= L + O
  OBVIOUS
<1>2. /\ Len(inbox') \in Nat /\ Len(outbox') \in Nat /\ Len(unacked') \in Nat
      /\ DOMAIN inbox' = 1..Len(inbox') /\ DOMAIN outbox' = 1..Len(outbox')
      /\ DOMAIN unacked' = 1..Len(unacked')
  BY LenProperties DEF Typed
<1> QED
  BY <1>1, <1>2 DEF Matches, At

\* Where the answers are after a step.
Remains ==
  \E pos \in [DOMAIN unacked' -> 1..(Len(inbox') + Len(outbox'))] : Matches(pos)' /\ Taken(pos)'

\* There are places for the answers if these are.
LEMMA RemainsIf ==
  ASSUME Typed', NEW pos, Taken(pos)',
         At(pos, unacked', Len(unacked'), inbox', Len(inbox'), outbox', Len(outbox'))
  PROVE  Remains
BY NextAt DEF Remains

\* The client asks, is not heard, or sends.
LEMMA AsksRemains ==
  ASSUME Typed, Typed', NEW pos, Matches(pos), Taken(pos), UNCHANGED <<unacked, inbox, server>>,
         NEW more \in Seq(Requests), outbox' = outbox \o more,
         \A p \in DOMAIN more : more[p].type # "presence"
  PROVE  Remains
<1>1. pos \in [DOMAIN unacked -> 1..(Len(inbox) + Len(outbox))]
  BY DEF Matches
<1> QED
  BY <1>1, SameMatch DEF Remains

\* A message more is sent.
LEMMA SendsRemains ==
  ASSUME Typed, Typed', NEW pos, Matches(pos), Taken(pos), UNCHANGED <<inbox, server>>,
         NEW m \in Messages, unacked' = Append(unacked, m), outbox' = Append(outbox, m)
  PROVE  Remains
<1>1. /\ Len(inbox) \in Nat /\ Len(outbox) \in Nat /\ Len(unacked) \in Nat /\ m \in Requests
      /\ outbox \in Seq(Requests) /\ unacked \in Seq(Messages)
      /\ DOMAIN inbox = 1..Len(inbox) /\ DOMAIN unacked = 1..Len(unacked)
  BY Lengths DEF Requests
<1>2. /\ Len(unacked') = Len(unacked) + 1 /\ DOMAIN unacked' = 1..(Len(unacked) + 1)
      /\ \A n \in 1..Len(unacked) : unacked'[n] = unacked[n]
      /\ unacked'[Len(unacked) + 1] = m
  BY <1>1, AppendProperties, LenProperties
<1>3. /\ Len(outbox') = Len(outbox) + 1
      /\ \A p \in 1..Len(outbox) : outbox'[p] = outbox[p]
      /\ outbox'[Len(outbox) + 1] = m
  BY <1>1, AppendProperties, LenProperties, SMTT(60)
<1>4. PICK U, L, O \in Nat : U = Len(unacked) /\ L = Len(inbox) /\ O = Len(outbox)
  BY <1>1, Zenon
<1>5. At(pos, unacked, U, inbox, L, outbox, O)
  BY <1>4, MatchesAt
<1>6. PICK new : new = SentAt(pos, U, L, O)
        /\ new = [n \in 1..(U + 1) |-> IF n <= U THEN pos[n] ELSE L + O + 1]
  BY DEF SentAt
<1>7. At(new, unacked', U + 1, inbox, L, outbox', O + 1)
  <2>1. PICK u, v, in, out, sent : u = unacked /\ v = unacked' /\ in = inbox /\ out = outbox
          /\ sent = outbox'
    OBVIOUS
  <2>2. Keeps(u, U, v) /\ v[U + 1] = m /\ Keeps(out, O, sent) /\ sent[O + 1] = m
    BY <1>2, <1>3, <1>4, <2>1 DEF Keeps
  <2>3. At(pos, u, U, in, L, out, O)
    BY <1>5, <2>1
  <2>4. At(SentAt(pos, U, L, O), v, U + 1, in, L, sent, O + 1)
    BY <2>2, <2>3, AtSent
  <2> QED
    BY <1>6, <2>1, <2>4
<1>8. Taken(new)'
  <2> SUFFICES ASSUME NEW n \in DOMAIN unacked', NEW q \in DOMAIN unacked'[n].entries,
                      NEW c \in Clients,
                      MakesMember(n, q, c)', new[n] <= Len(inbox'), inbox'[new[n]].type = "ack"
               PROVE  server'.members[c] # None \/ DroppedAfter(new[n])'
    BY DEF Taken
  <2>0. inbox' = inbox /\ server' = server
    OBVIOUS
  <2>1. n # U + 1
    <3> SUFFICES ASSUME n = U + 1 PROVE FALSE
      OBVIOUS
    <3>1. new[n] = L + O + 1
      BY <1>6
    <3> QED
      BY <1>4, <2>0, <3>1
  <2>2. n \in DOMAIN unacked /\ unacked'[n] = unacked[n] /\ new[n] = pos[n]
    BY <1>1, <1>2, <1>4, <1>6, <2>1
  <2>3. MakesMember(n, q, c)
    <3>1. \A k \in DOMAIN unacked : k \in DOMAIN unacked' /\ unacked'[k] = unacked[k]
      BY <1>1, <1>2
    <3> QED
      BY <2>2, <3>1 DEF MakesMember
  <2>4. server.members[c] # None \/ DroppedAfter(pos[n])
    BY <2>0, <2>2, <2>3 DEF Taken
  <2> QED
    BY <2>0, <2>2, <2>4 DEF DroppedAfter
<1>9. inbox' = inbox /\ Len(unacked') = U + 1 /\ Len(outbox') = O + 1 /\ Len(inbox') = L
  BY <1>2, <1>3, <1>4
<1> QED
  BY <1>7, <1>8, <1>9, RemainsIf

\* What was not acknowledged is sent again.
LEMMA ResendsRemains ==
  ASSUME Typed, Typed', inbox = <<>>, UNCHANGED <<unacked, inbox>>,
         NEW more \in Seq(Requests), outbox' = unacked \o more,
         \A p \in DOMAIN more : more[p].type # "presence"
  PROVE  Remains
<1>1. /\ Len(unacked) \in Nat /\ unacked \in Seq(Messages) /\ unacked \in Seq(Requests)
      /\ DOMAIN unacked = 1..Len(unacked)
  BY Lengths DEF Requests
<1>2. /\ Len(more) \in Nat /\ DOMAIN more = 1..Len(more) /\ Len(outbox') = Len(unacked) + Len(more)
      /\ \A p \in 1..Len(unacked) : outbox'[p] = unacked[p]
      /\ \A p \in 1..Len(more) : outbox'[Len(unacked) + p] = more[p]
  BY <1>1, ConcatAt, SMTT(60)
<1>3. PICK U, M \in Nat : U = Len(unacked) /\ M = Len(more)
  BY <1>1, <1>2, Zenon
<1>4. PICK new : new = [n \in 1..U |-> n]
  OBVIOUS
<1>5. PICK u, out : u = unacked /\ out = outbox'
  OBVIOUS
<1>6. /\ \A p \in 1..U : out[p] = u[p]
      /\ \A p \in 1..M : out[U + p].type # "presence"
  BY <1>2, <1>3, <1>5, SMTT(60)
<1>7. At(new, u, U, inbox, 0, out, U + M)
  <2>1. ASSUME NEW p \in 1..(U + M), out[p].type = "presence"
        PROVE  \E n \in 1..U : new[n] = 0 + p
    <3>1. p <= U
      <4> SUFFICES ASSUME ~(p <= U) PROVE FALSE
        OBVIOUS
      <4>1. PICK r \in 1..M : r = p - U /\ U + r = p
        OBVIOUS
      <4> QED
        BY <1>6, <2>1, <4>1
    <3>2. p \in 1..U
      BY <3>1
    <3> QED
      BY <1>4, <3>2
  <2>2. \A n \in 1..U : new[n] = n /\ n \in Nat /\ 1 <= n /\ n <= 0 + (U + M) /\ ~(n <= 0)
          /\ n - 0 = n
    BY <1>4
  <2>3. new = [n \in 1..U |-> new[n]]
    BY <1>4
  <2>4. \A n, k \in 1..U : n < k => new[n] < new[k]
    BY <1>4
  <2>5. \A n \in 1..U : IF new[n] <= 0
                        THEN inbox[new[n]].type \in Answers ELSE out[new[n] - 0] = u[n]
    BY <1>6, <2>2
  <2>6. \A n \in 1..U : new[n] \in Nat /\ 1 <= new[n] /\ new[n] <= 0 + (U + M)
    BY <2>2
  <2>7. \A p \in 1..0 : inbox[p].type \in Answers => \E n \in 1..U : new[n] = p
    OBVIOUS
  <2> QED
    BY <2>1, <2>3, <2>4, <2>5, <2>6, <2>7 DEF At
<1>8. inbox' = <<>> /\ Len(inbox') = 0 /\ Len(unacked') = U /\ Len(outbox') = U + M
        /\ unacked' = unacked
      /\ inbox' = inbox
  BY <1>2, <1>3
<1>9. Taken(new)'
  <2> SUFFICES ASSUME NEW n \in DOMAIN unacked', new[n] <= Len(inbox') PROVE FALSE
    BY DEF Taken
  <2>1. n \in 1..U
    BY <1>1, <1>3, <1>8
  <2>2. new[n] = n
    BY <1>4, <2>1
  <2> QED
    BY <1>8, <2>1, <2>2
<1> QED
  BY <1>5, <1>7, <1>8, <1>9, RemainsIf

\* A first request that is handled: K arrivals, of which an answer is the last.
LEMMA HandledRemains ==
  ASSUME Typed, Typed', NEW pos, Matches(pos), outbox # <<>>, outbox' = Tail(outbox),
         UNCHANGED unacked,
         NEW new \in Seq(Arrivals), inbox' = inbox \o new, Len(new) >= 1,
         \A i \in 1..Len(new) : new[i].type \in Answers
           => i = Len(new) /\ outbox[1].type = "presence",
         outbox[1].type = "presence" => new[Len(new)].type \in Answers,
         \A n \in DOMAIN unacked : \A q \in DOMAIN unacked[n].entries, c \in Clients :
            MakesMember(n, q, c) =>
              \/ /\ pos[n] <= Len(inbox)
                 /\ server.members[c] # None =>
                      server'.members[c] # None \/ \E i \in 1..Len(new) : new[i].type \in Drops
              \/ pos[n] = Len(inbox) + 1 /\ (new[Len(new)].type = "ack" => server'.members[c] # None)
              \/ pos[n] > Len(inbox) + 1,
         Taken(pos)
  PROVE  Remains
<1>1. /\ Len(inbox) \in Nat /\ Len(outbox) \in Nat /\ Len(unacked) \in Nat
      /\ outbox \in Seq(Requests) /\ inbox \in Seq(Arrivals)
      /\ DOMAIN inbox = 1..Len(inbox) /\ DOMAIN unacked = 1..Len(unacked)
      /\ \A n \in DOMAIN unacked : unacked[n].type = "presence"
  BY Lengths
<1>2. /\ Len(new) \in Nat /\ DOMAIN inbox' = 1..(Len(inbox) + Len(new))
      /\ Len(inbox') = Len(inbox) + Len(new)
      /\ \A p \in 1..Len(inbox) : inbox'[p] = inbox[p]
      /\ \A p \in 1..Len(new) : inbox'[Len(inbox) + p] = new[p]
  BY <1>1, ConcatAt
<1>3. /\ Len(outbox) >= 1 /\ Len(outbox') = Len(outbox) - 1
      /\ \A p \in 1..(Len(outbox) - 1) : outbox'[p] = outbox[p + 1]
  BY <1>1, SMTT(60)
<1>4. PICK U, L, O, K \in Nat : U = Len(unacked) /\ L = Len(inbox) /\ O = Len(outbox)
        /\ K = Len(new)
  BY <1>1, <1>2, Zenon
<1>5. At(pos, unacked, U, inbox, L, outbox, O)
  BY <1>4, MatchesAt
<1>6. PICK moved : /\ moved = HandledAt(pos, U, L, K)
                   /\ moved = [n \in 1..U |-> IF pos[n] <= L THEN pos[n] ELSE pos[n] + K - 1]
  BY DEF HandledAt
<1>7. At(moved, unacked, U, inbox', L + K, outbox', O - 1)
  <2>1. PICK u, in, told, out, left : u = unacked /\ in = inbox /\ told = inbox' /\ out = outbox
          /\ left = outbox'
    OBVIOUS
  <2>2. AreMessages(u, U) /\ Keeps(in, L, told) /\ Loses(out, O, left) /\ 1 <= K /\ 1 <= O
    BY <1>1, <1>2, <1>3, <1>4, <2>1 DEF AreMessages, Keeps, Loses
  <2>3. Handles(told, L, K, out)
    <3>1. \A i \in 1..K : told[L + i] = new[i]
      BY <1>2, <1>4, <2>1
    <3>2. K \in 1..K
      BY <2>2
    <3> QED
      BY <1>4, <2>1, <3>1, <3>2 DEF Handles
  <2>4. At(pos, u, U, in, L, out, O)
    BY <1>5, <2>1
  <2>5. At(HandledAt(pos, U, L, K), u, U, told, L + K, left, O - 1)
    BY <2>2, <2>3, <2>4, AtHandled
  <2> QED
    BY <1>6, <2>1, <2>5
<1>8. Taken(moved)'
  <2> SUFFICES ASSUME NEW n \in DOMAIN unacked', NEW q \in DOMAIN unacked'[n].entries,
                      NEW c \in Clients,
                      MakesMember(n, q, c)', moved[n] <= Len(inbox'), inbox'[moved[n]].type = "ack"
               PROVE  server'.members[c] # None \/ DroppedAfter(moved[n])'
    BY DEF Taken
  <2>1. n \in DOMAIN unacked /\ n \in 1..U /\ q \in DOMAIN unacked[n].entries
          /\ MakesMember(n, q, c)
    BY <1>1, <1>4 DEF MakesMember
  <2>2. pos[n] \in Nat /\ 1 <= pos[n]
    BY <1>5, <2>1 DEF At
  <2>3. moved[n] = IF pos[n] <= L THEN pos[n] ELSE pos[n] + K - 1
    BY <1>6, <2>1
  <2>4. CASE pos[n] <= L
    <3>1. moved[n] = pos[n] /\ inbox'[pos[n]] = inbox[pos[n]] /\ inbox[pos[n]].type = "ack"
      BY <1>2, <1>4, <2>2, <2>3, <2>4
    <3>2. server.members[c] # None \/ DroppedAfter(pos[n])
      BY <1>4, <2>1, <2>4, <3>1 DEF Taken
    <3>3. CASE DroppedAfter(pos[n])
      <4>1. PICK r \in DOMAIN inbox : r > pos[n] /\ inbox[r].type \in Drops
        BY <3>3 DEF DroppedAfter
      <4>2. r \in DOMAIN inbox' /\ inbox'[r] = inbox[r]
        BY <1>1, <1>2, <4>1
      <4>3. DroppedAfter(moved[n])'
        <5>1. PICK k : k = moved[n] /\ r > k
          BY <3>1, <4>1
        <5>2. \E s \in DOMAIN inbox' : s > k /\ inbox'[s].type \in Drops
          BY <4>1, <4>2, <5>1
        <5> QED
          BY <5>1, <5>2 DEF DroppedAfter
      <4> QED
        BY <4>3
    <3>4. CASE server.members[c] # None
      <4>1. server'.members[c] # None \/ \E i \in 1..Len(new) : new[i].type \in Drops
        <5>1. ~(pos[n] = Len(inbox) + 1) /\ ~(pos[n] > Len(inbox) + 1)
          BY <1>4, <2>2, <2>4
        <5> QED
          BY <2>1, <3>4, <5>1
      <4>2. ASSUME NEW i \in 1..Len(new), new[i].type \in Drops PROVE DroppedAfter(moved[n])'
        <5>1. PICK r, k : r = L + i /\ k = moved[n] /\ r > k /\ r \in DOMAIN inbox'
                /\ inbox'[r].type \in Drops
          <6>1. inbox'[L + i] = new[i] /\ L + i \in DOMAIN inbox'
            BY <1>2, <1>4, <4>2
          <6>2. L + i > moved[n]
            BY <1>4, <2>2, <2>4, <3>1, <4>2, SMTT(60)
          <6> QED
            BY <4>2, <6>1, <6>2
        <5>2. \E s \in DOMAIN inbox' : s > k /\ inbox'[s].type \in Drops
          BY <5>1
        <5> QED
          BY <5>1, <5>2 DEF DroppedAfter
      <4> QED
        BY <4>1, <4>2
    <3> QED
      BY <3>2, <3>3, <3>4
  <2>5. CASE pos[n] = L + 1
    <3>1. moved[n] = L + K
      BY <2>3, <2>5
    <3>2. inbox'[L + K] = new[K]
      BY <1>2, <1>4
    <3> QED
      BY <1>4, <2>1, <2>5, <3>1, <3>2, SMTT(60)
  <2>6. CASE pos[n] > L + 1
    BY <1>2, <1>4, <2>2, <2>3, <2>6
  <2> QED
    BY <2>2, <2>4, <2>5, <2>6, SMTT(60)
<1>9. Len(unacked') = U /\ Len(outbox') = O - 1 /\ Len(inbox') = L + K /\ unacked' = unacked
  BY <1>2, <1>3, <1>4
<1> QED
  BY <1>7, <1>8, <1>9, RemainsIf

\* One element more.
LEMMA ConcatOne ==
  ASSUME NEW S, NEW s \in Seq(S), NEW t \in Seq(S)
  PROVE  Len(t) = 1 => /\ DOMAIN (s \o t) = 1..(Len(s) + 1) /\ Len(s \o t) = Len(s) + 1
                       /\ \A i \in 1..Len(s) : (s \o t)[i] = s[i]
                       /\ (s \o t)[Len(s) + 1] = t[1]
<1>1. /\ DOMAIN (s \o t) = 1..(Len(s) + Len(t)) /\ Len(s \o t) = Len(s) + Len(t)
      /\ \A i \in 1..Len(s) : (s \o t)[i] = s[i]
      /\ \A i \in 1..Len(t) : (s \o t)[Len(s) + i] = t[i]
  BY ConcatAt
<1> QED
  BY <1>1

\* The service drops the channel of itself.
LEMMA ToldRemains ==
  ASSUME Typed, Typed', NEW pos, Matches(pos), UNCHANGED <<unacked, outbox>>,
         NEW new \in Seq(Arrivals), inbox' = inbox \o new, Len(new) = 1, new[1].type \in Drops
  PROVE  Remains
<1>1. /\ Len(inbox) \in Nat /\ Len(outbox) \in Nat /\ Len(unacked) \in Nat
      /\ inbox \in Seq(Arrivals) /\ DOMAIN inbox = 1..Len(inbox) /\ DOMAIN unacked = 1..Len(unacked)
  BY Lengths
<1>2. /\ DOMAIN inbox' = 1..(Len(inbox) + 1) /\ Len(inbox') = Len(inbox) + 1
      /\ \A p \in 1..Len(inbox) : inbox'[p] = inbox[p]
      /\ inbox'[Len(inbox) + 1] = new[1]
  <2>1. inbox \in Seq(Arrivals) /\ new \in Seq(Arrivals) /\ Len(new) = 1
    BY <1>1, SMTT(60)
  <2> QED
    BY <2>1, ConcatOne
<1>4. PICK U, L, O \in Nat : U = Len(unacked) /\ L = Len(inbox) /\ O = Len(outbox)
  BY <1>1, Zenon
<1>5. At(pos, unacked, U, inbox, L, outbox, O)
  BY <1>4, MatchesAt
<1>6. PICK moved : /\ moved = ToldAt(pos, U, L)
                   /\ moved = [n \in 1..U |-> IF pos[n] <= L THEN pos[n] ELSE pos[n] + 1]
  BY DEF ToldAt
<1>7. At(moved, unacked, U, inbox', L + 1, outbox, O)
  <2>1. PICK u, in, told, out : u = unacked /\ in = inbox /\ told = inbox' /\ out = outbox
    OBVIOUS
  <2>2. Keeps(in, L, told) /\ told[L + 1].type \notin Answers
    BY <1>2, <1>4, <2>1 DEF Keeps, Answers, Drops
  <2>3. At(pos, u, U, in, L, out, O)
    BY <1>5, <2>1
  <2>4. At(ToldAt(pos, U, L), u, U, told, L + 1, out, O)
    BY <2>2, <2>3, AtTold
  <2> QED
    BY <1>6, <2>1, <2>4
<1>8. Taken(moved)'
  <2> SUFFICES ASSUME NEW n \in DOMAIN unacked', moved[n] <= Len(inbox'),
                      inbox'[moved[n]].type = "ack"
               PROVE  DroppedAfter(moved[n])'
    BY DEF Taken
  <2>1. n \in 1..U /\ moved[n] \in Nat
    BY <1>1, <1>4, <1>7 DEF At
  <2>2. moved[n] # L + 1
    BY <1>2, <1>4 DEF Drops
  <2>3. PICK r, k : r = L + 1 /\ k = moved[n] /\ r > k /\ r \in DOMAIN inbox'
          /\ inbox'[r].type \in Drops
    BY <1>2, <1>4, <2>1, <2>2
  <2>4. \E s \in DOMAIN inbox' : s > k /\ inbox'[s].type \in Drops
    BY <2>3
  <2> QED
    BY <2>3, <2>4 DEF DroppedAfter
<1>9. Len(unacked') = U /\ Len(outbox') = O /\ Len(inbox') = L + 1 /\ unacked' = unacked
        /\ outbox' = outbox
  BY <1>2, <1>4
<1> QED
  BY <1>7, <1>8, <1>9, RemainsIf

\* What arrived first is received.
LEMMA ReceivedRemains ==
  ASSUME Typed, Typed', NEW pos, Matches(pos), Taken(pos), UNCHANGED <<unacked, server>>,
         inbox # <<>>, inbox' = Tail(inbox), inbox[1].type \notin Answers,
         outbox' = outbox \/ outbox' = Append(outbox, [type |-> "attach"])
  PROVE  Remains
<1>1. /\ Len(inbox) \in Nat /\ Len(outbox) \in Nat /\ Len(unacked) \in Nat
      /\ inbox \in Seq(Arrivals) /\ outbox \in Seq(Requests)
      /\ DOMAIN inbox = 1..Len(inbox) /\ DOMAIN unacked = 1..Len(unacked)
  BY Lengths
<1>2. /\ 1 <= Len(inbox) /\ Len(inbox') = Len(inbox) - 1 /\ DOMAIN inbox' = 1..(Len(inbox) - 1)
      /\ \A p \in 1..(Len(inbox) - 1) : inbox'[p] = inbox[p + 1]
  BY <1>1, SMTT(60)
<1>4. PICK U, L, O \in Nat : U = Len(unacked) /\ L = Len(inbox) /\ O = Len(outbox)
  BY <1>1, Zenon
<1>5. At(pos, unacked, U, inbox, L, outbox, O)
  BY <1>4, MatchesAt
<1>6. PICK moved : moved = ReceivedAt(pos, U) /\ moved = [n \in 1..U |-> pos[n] - 1]
  BY DEF ReceivedAt
<1>7. At(moved, unacked, U, inbox', L - 1, outbox, O)
  <2>1. PICK u, in, left, out : u = unacked /\ in = inbox /\ left = inbox' /\ out = outbox
    OBVIOUS
  <2>2. Loses(in, L, left) /\ in[1].type \notin Answers
    BY <1>2, <1>4, <2>1 DEF Loses
  <2>3. At(pos, u, U, in, L, out, O)
    BY <1>5, <2>1
  <2>4. At(ReceivedAt(pos, U), u, U, left, L - 1, out, O)
    BY <2>2, <2>3, AtReceived
  <2> QED
    BY <1>6, <2>1, <2>4
<1>8. At(moved, unacked', Len(unacked'), inbox', Len(inbox'), outbox', Len(outbox'))
  <2>0. Len(unacked') = U /\ unacked' = unacked /\ Len(inbox') = L - 1
    BY <1>2, <1>4
  <2>1. CASE outbox' = outbox
    BY <1>4, <1>7, <2>0, <2>1
  <2>2. CASE outbox' = Append(outbox, [type |-> "attach"])
    <3>1. PICK x \in Requests : x = [type |-> "attach"]
      BY DEF Requests
    <3>2. PICK out, asked : out = outbox /\ asked = outbox' /\ asked = Append(out, x)
      BY <2>2, <3>1
    <3>3. Len(asked) = O + 1 /\ Keeps(out, O, asked) /\ asked[O + 1] = x
      BY <1>1, <1>4, <3>2, AppendProperties, LenProperties DEF Keeps
    <3>4. asked[O + 1].type # "presence"
      BY <3>1, <3>3
    <3>5. PICK u, in : u = unacked /\ in = inbox' /\ At(moved, u, U, in, L - 1, out, O)
      BY <1>7, <3>2
    <3>6. At(moved, u, U, in, L - 1, asked, O + 1)
      BY <3>3, <3>4, <3>5, AtAsked
    <3> QED
      BY <2>0, <3>2, <3>3, <3>5, <3>6
  <2> QED
    BY <2>1, <2>2
<1>9. Taken(moved)'
  <2> SUFFICES ASSUME NEW n \in DOMAIN unacked', NEW q \in DOMAIN unacked'[n].entries,
                      NEW c \in Clients,
                      MakesMember(n, q, c)', moved[n] <= Len(inbox'), inbox'[moved[n]].type = "ack"
               PROVE  server'.members[c] # None \/ DroppedAfter(moved[n])'
    BY DEF Taken
  <2>1. n \in DOMAIN unacked /\ n \in 1..U /\ q \in DOMAIN unacked[n].entries
          /\ MakesMember(n, q, c)
    BY <1>1, <1>4 DEF MakesMember
  <2>2. moved[n] \in Nat /\ 1 <= moved[n] /\ pos[n] \in Nat
    BY <1>5, <1>7, <2>1 DEF At
  <2>3. moved[n] = pos[n] - 1
    BY <1>6, <2>1
  <2>4. pos[n] <= Len(inbox) /\ inbox[pos[n]].type = "ack"
    <3>1. PICK p \in 1..(Len(inbox) - 1) : p = moved[n] /\ p + 1 = pos[n]
      BY <1>2, <2>2, <2>3
    <3> QED
      BY <1>1, <1>2, <3>1
  <2>5. server.members[c] # None \/ DroppedAfter(pos[n])
    BY <2>1, <2>4 DEF Taken
  <2>6. ASSUME DroppedAfter(pos[n]) PROVE DroppedAfter(moved[n])'
    <3>1. PICK r \in DOMAIN inbox : r > pos[n] /\ inbox[r].type \in Drops
      BY <2>6 DEF DroppedAfter
    <3>2. PICK k, s : k = moved[n] /\ s = r - 1 /\ s > k /\ s \in DOMAIN inbox'
            /\ inbox'[s] = inbox[r]
      BY <1>1, <1>2, <2>2, <2>3, <3>1, SMTT(60)
    <3>3. \E t \in DOMAIN inbox' : t > k /\ inbox'[t].type \in Drops
      BY <3>1, <3>2
    <3> QED
      BY <3>2, <3>3 DEF DroppedAfter
  <2> QED
    BY <2>5, <2>6
<1> QED
  BY <1>8, <1>9, RemainsIf

\* The first message is answered.
LEMMA AnswerRemains ==
  ASSUME Typed, Typed', NEW pos, Matches(pos), Taken(pos), UNCHANGED <<outbox, server>>,
         inbox # <<>>, inbox' = Tail(inbox), inbox[1].type \in Answers, unacked' = Tail(unacked)
  PROVE  Remains
<1>1. /\ Len(inbox) \in Nat /\ Len(outbox) \in Nat /\ Len(unacked) \in Nat
      /\ inbox \in Seq(Arrivals) /\ unacked \in Seq(Messages)
      /\ DOMAIN inbox = 1..Len(inbox) /\ DOMAIN unacked = 1..Len(unacked)
  BY Lengths
<1>2. /\ 1 <= Len(inbox) /\ Len(inbox') = Len(inbox) - 1 /\ DOMAIN inbox' = 1..(Len(inbox) - 1)
      /\ \A p \in 1..(Len(inbox) - 1) : inbox'[p] = inbox[p + 1]
  BY <1>1
<1>4. PICK U, L, O \in Nat : U = Len(unacked) /\ L = Len(inbox) /\ O = Len(outbox)
  BY <1>1, Zenon
<1>5. At(pos, unacked, U, inbox, L, outbox, O)
  BY <1>4, MatchesAt
<1>6. /\ 1 <= U /\ pos[1] = 1
      /\ \A left, v : Loses(inbox, L, left) /\ Loses(unacked, U, v)
           => At(AnsweredAt(pos, U), v, U - 1, left, L - 1, outbox, O)
  <2>1. PICK u, in, out : u = unacked /\ in = inbox /\ out = outbox
    OBVIOUS
  <2>2. At(pos, u, U, in, L, out, O) /\ in[1].type \in Answers /\ 1 <= L
    BY <1>2, <1>4, <1>5, <2>1
  <2>3. /\ 1 <= U /\ pos[1] = 1
        /\ \A left, v : Loses(in, L, left) /\ Loses(u, U, v)
             => At(AnsweredAt(pos, U), v, U - 1, left, L - 1, out, O)
    BY <2>2, AtAnswered
  <2> QED
    BY <2>1, <2>3
<1>7. /\ Len(unacked') = Len(unacked) - 1 /\ DOMAIN unacked' = 1..(Len(unacked) - 1)
      /\ \A n \in 1..(Len(unacked) - 1) : unacked'[n] = unacked[n + 1]
  <2>1. unacked # <<>>
    BY <1>1, <1>4, <1>6
  <2> QED
    BY <1>1, <2>1
<1>8. PICK moved : moved = AnsweredAt(pos, U) /\ moved = [n \in 1..(U - 1) |-> pos[n + 1] - 1]
  BY DEF AnsweredAt
<1>9. At(moved, unacked', U - 1, inbox', L - 1, outbox, O)
  <2>1. Loses(inbox, L, inbox') /\ Loses(unacked, U, unacked')
    BY <1>2, <1>4, <1>6, <1>7 DEF Loses
  <2> QED
    BY <1>6, <1>8, <2>1
<1>10. Taken(moved)'
  <2> SUFFICES ASSUME NEW n \in DOMAIN unacked', NEW q \in DOMAIN unacked'[n].entries,
                      NEW c \in Clients,
                      MakesMember(n, q, c)', moved[n] <= Len(inbox'), inbox'[moved[n]].type = "ack"
               PROVE  server'.members[c] # None \/ DroppedAfter(moved[n])'
    BY DEF Taken
  <2>0. n \in 1..(U - 1) /\ n \in Nat /\ moved[n] = pos[n + 1] - 1
    BY <1>4, <1>7, <1>8
  <2>1. /\ n + 1 \in DOMAIN unacked /\ n + 1 \in 1..U /\ unacked'[n] = unacked[n + 1]
        /\ q \in DOMAIN unacked[n + 1].entries
    BY <1>1, <1>4, <1>7, <2>0
  <2>2. moved[n] \in Nat /\ 1 <= moved[n] /\ pos[n + 1] \in Nat
    BY <1>5, <1>9, <2>0, <2>1 DEF At
  <2>3. PICK k : k = n + 1 /\ k \in DOMAIN unacked /\ unacked'[n] = unacked[k]
          /\ moved[n] = pos[k] - 1
                 /\ q \in DOMAIN unacked[k].entries
    BY <2>0, <2>1
  <2>4. MakesMember(k, q, c)
    <3> SUFFICES ASSUME NEW m \in DOMAIN unacked, NEW r \in DOMAIN unacked[m].entries,
                        k < m \/ (k = m /\ q < r)
                 PROVE  unacked[m].entries[r].client # c \/ unacked[m].entries[r].action # "leave"
      BY <2>3 DEF MakesMember
    <3>1. PICK j : j = m - 1 /\ j \in DOMAIN unacked' /\ unacked'[j] = unacked[m]
                   /\ (n < j \/ (n = j /\ q < r))
      <4>1. m \in 1..U /\ U = Len(unacked) /\ 2 <= m
        BY <1>1, <1>4, <2>0, <2>3
      <4>2. m - 1 \in 1..(U - 1) /\ (m - 1) + 1 = m
        BY <4>1, SMTT(60)
      <4>3. m - 1 \in DOMAIN unacked' /\ unacked'[m - 1] = unacked[m]
        BY <1>7, <4>1, <4>2
      <4>4. n < m - 1 \/ (n = m - 1 /\ q < r)
        BY <2>0, <2>3, <4>1
      <4> QED
        BY <4>3, <4>4
    <3> QED
      BY <3>1 DEF MakesMember
  <2>5. pos[k] <= Len(inbox) /\ inbox[pos[k]].type = "ack"
    <3>1. PICK p \in 1..(Len(inbox) - 1) : p = moved[n] /\ p + 1 = pos[k]
      BY <1>2, <2>2, <2>3
    <3> QED
      BY <1>1, <1>2, <3>1
  <2>6. server.members[c] # None \/ DroppedAfter(pos[k])
    BY <2>3, <2>4, <2>5 DEF Taken
  <2>7. ASSUME DroppedAfter(pos[k]) PROVE DroppedAfter(moved[n])'
    <3>1. PICK r \in DOMAIN inbox : r > pos[k] /\ inbox[r].type \in Drops
      BY <2>7 DEF DroppedAfter
    <3>2. PICK j, s : j = moved[n] /\ s = r - 1 /\ s > j /\ s \in DOMAIN inbox'
            /\ inbox'[s] = inbox[r]
      <4>1. pos[k] \in Nat /\ 1 <= pos[k] /\ moved[n] \in Nat
        BY <2>0, <2>2, <2>3
      <4> QED
        BY <1>1, <1>2, <2>3, <3>1, <4>1, SMTT(60)
    <3>3. \E t \in DOMAIN inbox' : t > j /\ inbox'[t].type \in Drops
      BY <3>1, <3>2
    <3> QED
      BY <3>2, <3>3 DEF DroppedAfter
  <2> QED
    BY <2>6, <2>7
<1>11. Len(unacked') = U - 1 /\ Len(outbox') = O /\ Len(inbox') = L - 1 /\ outbox' = outbox
  BY <1>2, <1>4, <1>7
<1> QED
  BY <1>9, <1>10, <1>11, RemainsIf
\* What the service takes leaves those members whom the message, or one before it, makes members.
LEMMA TakesRemains ==
  ASSUME Typed, NEW pos, Matches(pos), outbox # <<>>, outbox[1].type = "presence",
         server'.members = Members(outbox[1]),
         NEW n \in DOMAIN unacked, NEW q \in DOMAIN unacked[n].entries, NEW c \in Clients,
         MakesMember(n, q, c)
  PROVE  \/ pos[n] <= Len(inbox) /\ (server.members[c] # None => server'.members[c] # None)
         \/ pos[n] = Len(inbox) + 1 /\ server'.members[c] # None
         \/ pos[n] > Len(inbox) + 1
<1>1. /\ Len(inbox) \in Nat /\ Len(outbox) \in Nat /\ outbox \in Seq(Requests)
      /\ DOMAIN inbox = 1..Len(inbox) /\ DOMAIN outbox = 1..Len(outbox) /\ 1 \in DOMAIN outbox
      /\ DOMAIN unacked = 1..Len(unacked) /\ Len(unacked) \in Nat
      /\ \A k \in DOMAIN unacked : unacked[k] \in Messages /\ pos[k] \in Nat
  <2>1. /\ Len(inbox) \in Nat /\ Len(outbox) \in Nat /\ outbox \in Seq(Requests)
        /\ DOMAIN inbox = 1..Len(inbox) /\ DOMAIN outbox = 1..Len(outbox)
        /\ DOMAIN unacked = 1..Len(unacked) /\ Len(unacked) \in Nat
        /\ \A k \in DOMAIN unacked : unacked[k] \in Messages
    BY Lengths
  <2>2. \A k \in DOMAIN unacked : pos[k] \in Nat
    <3>1. pos \in [DOMAIN unacked -> 1..(Len(inbox) + Len(outbox))]
      BY DEF Matches
    <3> QED
      BY <2>1, <3>1
  <2>3. 1 \in DOMAIN outbox
    BY <2>1
  <2> QED
    BY <2>1, <2>2, <2>3
<1>2. PICK h \in DOMAIN unacked : pos[h] = Len(inbox) + 1
  BY <1>1 DEF Matches
<1>3. outbox[1] = unacked[h]
  <2>1. ~(pos[h] <= Len(inbox)) /\ pos[h] - Len(inbox) = 1
    BY <1>1, <1>2
  <2>2. outbox[pos[h] - Len(inbox)] = unacked[h]
    BY <2>1 DEF Matches
  <2> QED
    BY <2>1, <2>2
<1>4. PICK m \in Messages : m = unacked[h] /\ server'.members = Members(m)
  BY <1>1, <1>3
<1>5. conn \in Nat /\ server.members \in MemberMaps
  BY DEF Typed
<1>6. CASE pos[n] <= Len(inbox)
  <2>1. n < h
    <3>1. ~(pos[h] <= pos[n])
      BY <1>1, <1>2, <1>6
    <3>2. n # h /\ ~(h < n)
      BY <1>1, <3>1 DEF Matches
    <3> QED
      BY <1>1, <3>2
  <2>2. \A r \in DOMAIN m.entries : m.entries[r].client # c \/ m.entries[r].action # "leave"
    BY <1>4, <2>1 DEF MakesMember
  <2>3. server.members[c] # None => Members(m)[c] # None
    BY <1>5, <2>2, MembersOf
  <2> QED
    BY <1>4, <1>6, <2>3
<1>7. CASE pos[n] = Len(inbox) + 1
  <2>1. n = h
    <3>1. ~(pos[n] < pos[h]) /\ ~(pos[h] < pos[n])
      BY <1>1, <1>2, <1>7
    <3>2. ~(n < h) /\ ~(h < n)
      BY <3>1 DEF Matches
    <3> QED
      BY <1>1, <3>2
  <2>2. /\ q \in DOMAIN m.entries /\ m.entries[q].client = c /\ m.entries[q].action = "enter"
        /\ \A r \in DOMAIN m.entries : q < r
           => m.entries[r].client # c \/ m.entries[r].action # "leave"
    BY <1>4, <2>1 DEF MakesMember
  <2>3. Members(m)[c] # None
    BY <1>5, <2>2, MembersOf
  <2> QED
    BY <1>4, <1>7, <2>3
<1> QED
  BY <1>1, <1>6, <1>7

\* The service handles what arrives at it.
LEMMA ServerRemains ==
  ASSUME Typed, Typed', NEW pos, Matches(pos), Taken(pos), ServerHandles
  PROVE  Remains
<1>1. PICK new \in Seq(Arrivals) : inbox' = inbox \o new /\ Arrives(new)
  BY ServerSays
<1>2. outbox # <<>> /\ outbox' = Tail(outbox) /\ UNCHANGED unacked
  BY DEF ServerHandles
<1>3. /\ Len(inbox) \in Nat /\ outbox \in Seq(Requests) /\ Head(outbox) = outbox[1]
      /\ \A n \in DOMAIN unacked : pos[n] \in Nat
  <2>1. Len(inbox) \in Nat /\ outbox \in Seq(Requests) /\ Len(outbox) \in Nat
    BY Lengths
  <2>2. pos \in [DOMAIN unacked -> 1..(Len(inbox) + Len(outbox))]
    BY DEF Matches
  <2> QED
    BY <1>2, <2>1, <2>2
<1>e. \A type \in {"detached", "failed"} : ~ServerEnds(type)
  <2>1. outbox' # outbox
    <3> SUFFICES ASSUME outbox' = outbox PROVE FALSE
      OBVIOUS
    <3>1. Len(Tail(outbox)) = Len(outbox) - 1 /\ Len(outbox) \in Nat
      BY <1>2, <1>3
    <3>2. Tail(outbox) = outbox
      BY <1>2
    <3>3. PICK n \in Nat : n = Len(outbox)
      BY <3>1
    <3>4. n = n - 1
      BY <3>1, <3>2, <3>3
    <3> QED
      BY <3>4
  <2> QED
    BY <2>1 DEF ServerEnds, sending
<1>4. ASSUME Len(new) >= 1,
             \A i \in 1..Len(new) : new[i].type \in Answers
               => i = Len(new) /\ outbox[1].type = "presence",
             outbox[1].type = "presence" => new[Len(new)].type \in Answers,
             \A n \in DOMAIN unacked : \A q \in DOMAIN unacked[n].entries, c \in Clients :
                MakesMember(n, q, c) =>
                  \/ /\ pos[n] <= Len(inbox)
                     /\ server.members[c] # None =>
                          server'.members[c] # None \/ \E i \in 1..Len(new) : new[i].type \in Drops
                  \/ pos[n] = Len(inbox) + 1
                     /\ (new[Len(new)].type = "ack" => server'.members[c] # None)
                  \/ pos[n] > Len(inbox) + 1
      PROVE  Remains
  BY <1>1, <1>2, <1>4, HandledRemains
<1>5. CASE /\ ServerAttaches /\ Len(new) = 2 /\ new[1].type = "attached" /\ new[2] = Present
  <2>1. new[2].type = "presence"
    BY <1>5, PresentOf
  <2>2. \A i \in 1..Len(new) : i = 1 \/ i = 2
    BY <1>5
  <2>3. server'.members = server.members /\ outbox[1].type = "attach"
    <3>1. server \in [state : {"new", "attached", "detached"}, members : MemberMaps]
      BY DEF Typed
    <3> QED
      BY <1>3, <1>5, <3>1 DEF ServerAttaches
  <2>4. \A n \in DOMAIN unacked : pos[n] <= Len(inbox) \/ pos[n] = Len(inbox) + 1
          \/ pos[n] > Len(inbox) + 1
    BY <1>3
  <2>5. \A i \in 1..Len(new) : new[i].type \notin Answers
    BY <1>5, <2>1, <2>2 DEF Answers
  <2>6. Len(new) >= 1 /\ new[Len(new)].type # "ack"
    BY <1>5, <2>1
  <2> QED
    BY <1>4, <2>3, <2>4, <2>5, <2>6
<1>6. CASE /\ ServerTakes
           /\ IF server.state = "attached"
              THEN Len(new) = 2 /\ new[1] = Told(Head(outbox)) /\ new[2].type = "ack"
              ELSE Len(new) = 1 /\ new[1].type = "ack"
  <2>1. outbox[1].type = "presence" /\ server'.members = Members(outbox[1])
    <3>1. server \in [state : {"new", "attached", "detached"}, members : MemberMaps]
      BY DEF Typed
    <3> QED
      BY <1>3, <1>6, <3>1 DEF ServerTakes
  <2>2. /\ Len(new) >= 1
        /\ \A i \in 1..Len(new) : new[i].type \in Answers => i = Len(new)
        /\ new[Len(new)].type \in Answers
    <3>1. PICK m \in Messages : m = Head(outbox)
      <4>1. Head(outbox) \in Requests
        BY <1>2, <1>3
      <4> QED
        BY <1>3, <2>1, <4>1 DEF Requests
    <3>2. Told(Head(outbox)).type = "presence"
      BY <3>1, ToldOf
    <3>3. \/ Len(new) = 2 /\ new[1] = Told(Head(outbox)) /\ new[2].type = "ack"
          \/ Len(new) = 1 /\ new[1].type = "ack"
      BY <1>6
    <3>4. CASE Len(new) = 2 /\ new[1] = Told(Head(outbox)) /\ new[2].type = "ack"
      <4>1. \A i \in 1..Len(new) : i = 1 \/ i = 2
        BY <3>4
      <4> QED
        BY <3>2, <3>4, <4>1 DEF Answers
    <3>5. CASE Len(new) = 1 /\ new[1].type = "ack"
      BY <3>5 DEF Answers
    <3> QED
      BY <3>3, <3>4, <3>5
  <2>3. \A n \in DOMAIN unacked : \A q \in DOMAIN unacked[n].entries, c \in Clients :
          MakesMember(n, q, c) =>
            \/ pos[n] <= Len(inbox) /\ (server.members[c] # None => server'.members[c] # None)
            \/ pos[n] = Len(inbox) + 1 /\ server'.members[c] # None
            \/ pos[n] > Len(inbox) + 1
    BY <1>2, <2>1, TakesRemains
  <2> QED
    BY <1>4, <2>1, <2>2, <2>3
<1>7. CASE ServerRefuses /\ Len(new) = 1 /\ new[1].type = "nack"
  <2>1. server' = server /\ outbox[1].type = "presence"
    BY <1>3, <1>7 DEF ServerRefuses
  <2>2. \A n \in DOMAIN unacked : pos[n] <= Len(inbox) \/ pos[n] = Len(inbox) + 1
          \/ pos[n] > Len(inbox) + 1
    BY <1>3
  <2>3. \A i \in 1..Len(new) : i = 1
    BY <1>7
  <2>4. Len(new) >= 1 /\ new[Len(new)].type = "nack" /\ "nack" \in Answers
    BY <1>7 DEF Answers
  <2> QED
    BY <1>4, <1>7, <2>1, <2>2, <2>3, <2>4
<1>8. CASE ServerDetaches /\ Len(new) = 1 /\ new[1].type \in Drops
  <2>1. outbox[1].type = "detach"
    BY <1>3, <1>8 DEF ServerDetaches
  <2>2. \A n \in DOMAIN unacked : pos[n] <= Len(inbox) \/ pos[n] = Len(inbox) + 1
          \/ pos[n] > Len(inbox) + 1
    BY <1>3
  <2>3. \A i \in 1..Len(new) : i = 1
    BY <1>8
  <2>4. Len(new) >= 1 /\ new[Len(new)].type \notin Answers /\ 1 \in 1..Len(new)
          /\ new[Len(new)].type # "ack"
    BY <1>8 DEF Answers, Drops
  <2> QED
    BY <1>4, <1>8, <2>1, <2>2, <2>3, <2>4
<1> QED
  BY <1>1, <1>e, <1>5, <1>6, <1>7, <1>8 DEF Arrives

\* One more request, as a sequence of one.
LEMMA AppendsOne ==
  ASSUME NEW S, NEW s \in Seq(S), NEW x \in S
  PROVE  \E t \in Seq(S) : Append(s, x) = s \o t /\ Len(t) = 1 /\ t[1] = x /\ DOMAIN t = {1}
<1>1. <<x>> \in Seq(S) /\ Append(s, x) = s \o <<x>> /\ Len(<<x>>) = 1 /\ <<x>>[1] = x
        /\ DOMAIN <<x>> = {1}
  OBVIOUS
<1>2. PICK t : t = <<x>>
  OBVIOUS
<1>3. t \in Seq(S) /\ Append(s, x) = s \o t /\ Len(t) = 1 /\ t[1] = x /\ DOMAIN t = {1}
  BY <1>1, <1>2, Zenon
<1> QED
  BY <1>3, Zenon

\* Every unanswered message keeps its place, whatever the step.
LEMMA AnsweredStep ==
  ASSUME Typed, Linked, Known, Answered, Next
  PROVE  Answered'
<1>1. Typed'
  BY TypedStep
<1> SUFFICES ASSUME resumable' PROVE Remains
  BY DEF Answered, Remains
<1>2. /\ outbox \in Seq(Requests) /\ inbox \in Seq(Arrivals) /\ unacked \in Seq(Messages)
      /\ unacked \in Seq(Requests)
  BY Lengths DEF Requests
<1>3. ASSUME resumable PROVE \E pos : Matches(pos) /\ Taken(pos)
  BY <1>3 DEF Answered
<1>4. CASE Still
  <2>1. PICK pos : Matches(pos) /\ Taken(pos)
    BY <1>3, <1>4 DEF Still
  <2>2. PICK more \in Seq(Requests) : more = <<>>
    <3>1. <<>> \in Seq(Requests)
      OBVIOUS
    <3> QED
      BY <3>1, Zenon
  <2>3. outbox' = outbox \o more /\ \A p \in DOMAIN more : more[p].type # "presence"
    BY <1>2, <1>4, <2>2, ConcatEmptySeq DEF Still
  <2> QED
    BY <1>1, <1>4, <2>1, <2>3, AsksRemains DEF Still
<1>5. ASSUME NEW type \in {"attach", "detach"}, AsksFor(type) PROVE Remains
  <2>1. PICK pos : Matches(pos) /\ Taken(pos)
    BY <1>3, <1>5 DEF AsksFor, Linked
  <2>2. PICK x \in Requests : x = [type |-> type]
    BY DEF Requests
  <2>3. PICK more \in Seq(Requests) : /\ outbox' = outbox \o more /\ more[1] = x
                                         /\ DOMAIN more = {1}
    BY <1>2, <1>5, <2>2, AppendsOne DEF AsksFor
  <2>4. \A p \in DOMAIN more : more[p].type # "presence"
    BY <2>2, <2>3
  <2> QED
    BY <1>1, <1>5, <2>1, <2>3, <2>4, AsksRemains DEF AsksFor
<1>6. ASSUME NEW entries \in Seq(Entries), Sends(entries) PROVE Remains
  <2>1. PICK pos : Matches(pos) /\ Taken(pos)
    BY <1>3, <1>6 DEF Sends
  <2>2. PICK m \in Messages : unacked' = Append(unacked, m) /\ outbox' = Append(outbox, m)
    BY <1>6, SendOf DEF Sends
  <2> QED
    BY <1>1, <1>6, <2>1, <2>2, SendsRemains DEF Sends
<1>7. CASE Reconnects
  <2>1. PICK more \in Seq(Requests) :
          /\ \A p \in DOMAIN more : more[p].type # "presence"
          /\ outbox' = (IF resumable THEN outbox ELSE unacked) \o more
    BY <1>7 DEF Reconnects
  <2>2. UNCHANGED <<unacked, inbox, server>>
    BY <1>7 DEF Reconnects
  <2>3. CASE resumable
    <3>1. PICK pos : Matches(pos) /\ Taken(pos)
      BY <1>3, <2>3
    <3> QED
      BY <1>1, <2>1, <2>2, <2>3, <3>1, AsksRemains
  <2>4. CASE ~resumable
    BY <1>1, <2>1, <2>2, <2>4, ResendsRemains DEF Linked
  <2> QED
    BY <2>3, <2>4
<1>8. CASE ServerHandles
  <2>1. PICK pos : Matches(pos) /\ Taken(pos)
    BY <1>3, <1>8 DEF ServerHandles, Linked
  <2> QED
    BY <1>1, <1>8, <2>1, ServerRemains
<1>9. ASSUME NEW type \in {"detached", "failed"}, ServerEnds(type) PROVE Remains
  <2>1. PICK pos : Matches(pos) /\ Taken(pos)
    BY <1>3, <1>9 DEF ServerEnds, Linked
  <2>2. PICK x \in Arrivals : x = [type |-> type]
    BY DEF Arrivals
  <2>3. PICK new \in Seq(Arrivals) : inbox' = inbox \o new /\ Len(new) = 1 /\ new[1] = x
    <3>1. inbox' = Append(inbox, x)
      BY <1>9, <2>2 DEF ServerEnds
    <3>2. inbox \in Seq(Arrivals)
      BY <1>2
    <3>3. \E new \in Seq(Arrivals) : Append(inbox, x) = inbox \o new /\ Len(new) = 1 /\ new[1] = x
            /\ DOMAIN new = {1}
      BY <3>2, AppendsOne, ZenonT(60)
    <3>4. PICK new \in Seq(Arrivals) : Append(inbox, x) = inbox \o new /\ Len(new) = 1 /\ new[1] = x
      BY <3>3, Zenon
    <3> QED
      BY <3>1, <3>4, Zenon
  <2>4. new[1].type \in Drops
    BY <2>2, <2>3 DEF Drops
  <2>5. UNCHANGED <<unacked, outbox>>
    BY <1>9 DEF ServerEnds, sending
  <2> QED
    BY <1>1, <2>1, <2>3, <2>4, <2>5, ToldRemains
<1>10. CASE Receive
  <2>1. PICK pos : Matches(pos) /\ Taken(pos)
    BY <1>3, <1>10 DEF Receive, Linked
  <2>2. inbox # <<>> /\ inbox' = Tail(inbox) /\ UNCHANGED server /\ Head(inbox) = inbox[1]
    BY <1>2, <1>10 DEF Receive
  <2>3. CASE ReceiveAnswer
    <3>1. inbox[1].type \in Answers /\ unacked' = Tail(unacked) /\ UNCHANGED outbox
      BY <2>2, <2>3 DEF ReceiveAnswer, Answers
    <3> QED
      BY <1>1, <2>1, <2>2, <3>1, AnswerRemains
  <2>4. CASE ~ReceiveAnswer
    <3>1. /\ inbox[1].type \notin Answers /\ UNCHANGED unacked
          /\ outbox' = outbox \/ outbox' = Append(outbox, [type |-> "attach"])
      BY <1>10, <2>2, <2>4 DEF Receive, ReceiveAttached, ReceiveDetached, ReceiveError,
         ReceivePresence, Answers, RequestAttach, Asks, sending
    <3> QED
      BY <1>1, <2>1, <2>2, <3>1, ReceivedRemains
  <2> QED
    BY <2>3, <2>4
<1>11. Moves
  BY StepMoves
<1> QED
  BY <1>4, <1>5, <1>6, <1>7, <1>8, <1>9, <1>10, <1>11 DEF Moves, Forgotten
-----------------------------------------------------------------------------
(* What is on its way, before and after a step.                             *)

\* No call is the last of its client only afterwards.
LEMMA StillLast ==
  ASSUME Evolution, NEW i \in DOMAIN calls, IsLast(i)'
  PROVE  IsLast(i)
BY DEF IsLast, Evolution

\* The arrivals after a step: those before it, without the one received or with what the service says.
LEMMA ArrivalsOf ==
  ASSUME Typed, Next, NEW p \in DOMAIN inbox'
  PROVE  IF Receive THEN p + 1 \in DOMAIN inbox /\ inbox'[p] = inbox[p + 1]
         ELSE \/ p \in DOMAIN inbox /\ inbox'[p] = inbox[p]
              \/ p > Len(inbox) /\ inbox'[p].type # "presence"
              \/ p > Len(inbox) /\ ServerHandles /\ ServerAttaches /\ inbox'[p] = Present
              \/ /\ p = Len(inbox) + 1 /\ ServerHandles /\ ServerTakes /\ server.state = "attached"
                 /\ inbox'[p] = Told(outbox[1])
<1>1. /\ inbox \in Seq(Arrivals) /\ outbox \in Seq(Requests) /\ Len(inbox) \in Nat
      /\ DOMAIN inbox = 1..Len(inbox)
  BY Lengths
<1>2. CASE Receive
  <2>1. inbox # <<>> /\ inbox' = Tail(inbox)
    BY <1>2 DEF Receive
  <2> QED
    BY <1>1, <1>2, <2>1
<1>3. CASE ~Receive /\ inbox' = inbox
  BY <1>3
<1>4. CASE ~Receive /\ inbox' = <<>>
  BY <1>4
<1>5. CASE ~Receive /\ \E new \in Seq(Arrivals) : inbox' = inbox \o new /\ Arrives(new)
  <2>1. PICK new \in Seq(Arrivals) : inbox' = inbox \o new /\ Arrives(new)
    BY <1>5
  <2>2. /\ Len(new) \in Nat /\ DOMAIN inbox' = 1..(Len(inbox) + Len(new))
        /\ \A i \in 1..Len(inbox) : inbox'[i] = inbox[i]
        /\ \A i \in 1..Len(new) : inbox'[Len(inbox) + i] = new[i]
    BY <1>1, <2>1, ConcatAt
  <2>3. CASE p <= Len(inbox)
    BY <1>1, <1>5, <2>2, <2>3
  <2>4. CASE ~(p <= Len(inbox))
    <3>1. PICK i \in 1..Len(new) : i = p - Len(inbox) /\ Len(inbox) + i = p /\ p > Len(inbox)
            /\ inbox'[p] = new[i]
      <4>1. PICK L, K \in Nat : L = Len(inbox) /\ K = Len(new)
        BY <1>1, <2>2
      <4>2. p - L \in 1..K /\ L + (p - L) = p /\ p > L
        BY <2>2, <2>4, <4>1, SMTT(60)
      <4> QED
        BY <2>2, <4>1, <4>2
    <3>2. CASE new[i].type # "presence"
      BY <1>5, <3>1, <3>2
    <3>3. CASE new[i].type = "presence"
      <4>1. \/ ServerHandles /\ ServerAttaches /\ new[i] = Present
            \/ /\ ServerHandles /\ ServerTakes /\ server.state = "attached" /\ i = 1
               /\ new[i] = Told(Head(outbox))
        BY <2>1, <3>3, TellsNow
      <4>2. ServerHandles => Head(outbox) = outbox[1]
        BY <1>1 DEF ServerHandles
      <4>3. i = 1 => p = Len(inbox) + 1
        BY <3>1
      <4> QED
        BY <1>5, <3>1, <4>1, <4>2, <4>3
    <3> QED
      BY <3>2, <3>3
  <2> QED
    BY <2>3, <2>4
<1> QED
  BY <1>2, <1>3, <1>4, <1>5, InboxMoves

\* A drop stays on its way until it is received or everything is lost.
LEMMA DropsStay ==
  ASSUME Typed, Next, NEW p \in Nat
  PROVE  /\ Receive /\ DroppedAfter(p + 1) => DroppedAfter(p)'
         /\ ~Receive /\ inbox' # <<>> /\ DroppedAfter(p) => DroppedAfter(p)'
<1>1. inbox \in Seq(Arrivals) /\ Len(inbox) \in Nat /\ DOMAIN inbox = 1..Len(inbox)
  BY Lengths
<1>2. ASSUME Receive, DroppedAfter(p + 1) PROVE DroppedAfter(p)'
  <2>1. PICK r \in DOMAIN inbox : r > p + 1 /\ inbox[r].type \in Drops
    BY <1>2 DEF DroppedAfter
  <2>2. inbox # <<>> /\ inbox' = Tail(inbox)
    BY <1>2 DEF Receive
  <2>3. r - 1 \in DOMAIN inbox' /\ inbox'[r - 1] = inbox[r] /\ r - 1 > p
    <3>1. r \in 2..Len(inbox)
      BY <1>1, <2>1
    <3> QED
      BY <1>1, <2>1, <2>2, <3>1
  <2> QED
    BY <2>1, <2>3 DEF DroppedAfter
<1>3. ASSUME ~Receive, inbox' # <<>>, DroppedAfter(p) PROVE DroppedAfter(p)'
  <2>1. CASE inbox' = inbox
    BY <1>3, <2>1 DEF DroppedAfter
  <2>2. CASE \E new \in Seq(Arrivals) : inbox' = inbox \o new /\ Arrives(new)
    <3>1. PICK new \in Seq(Arrivals) : inbox' = inbox \o new
      BY <2>2
    <3>2. \A r \in DOMAIN inbox : r \in DOMAIN inbox' /\ inbox'[r] = inbox[r]
      <4>1. /\ Len(new) \in Nat /\ DOMAIN inbox' = 1..(Len(inbox) + Len(new))
            /\ \A i \in 1..Len(inbox) : inbox'[i] = inbox[i]
        BY <1>1, <3>1, ConcatAt
      <4> QED
        BY <1>1, <4>1
    <3> QED
      BY <1>3, <3>2 DEF DroppedAfter
  <2> QED
    BY <1>3, <2>1, <2>2, InboxMoves
<1> QED
  BY <1>2, <1>3

\* When the service drops the channel it says so.
LEMMA DropsTell ==
  ASSUME Typed, \/ ServerHandles /\ ServerDetaches
                \/ \E type \in {"detached", "failed"} : ServerEnds(type)
  PROVE  \A p : p \in 0..Len(inbox) => DroppedAfter(p)'
<1>1. inbox \in Seq(Arrivals) /\ Len(inbox) \in Nat /\ DOMAIN inbox = 1..Len(inbox)
  BY Lengths
<1>2. PICK type \in {"detached", "failed"} : inbox' = Append(inbox, [type |-> type])
  BY DEF ServerDetaches, ServerEnds
<1>3. PICK x \in Arrivals : x = [type |-> type]
  BY DEF Arrivals
<1>4. Len(inbox) + 1 \in DOMAIN inbox' /\ inbox'[Len(inbox) + 1] = x
  BY <1>1, <1>2, <1>3
<1>5. x.type \in Drops
  BY <1>3 DEF Drops
<1> SUFFICES ASSUME NEW p \in 0..Len(inbox) PROVE DroppedAfter(p)'
  OBVIOUS
<1>6. Len(inbox) + 1 > p
  BY <1>1
<1>7. \E r \in DOMAIN inbox' : r > p /\ inbox'[r].type \in Drops
  BY <1>4, <1>5, <1>6
<1> QED
  BY <1>7 DEF DroppedAfter

\* The messages on their way to the service after a step.
LEMMA RequestsOf ==
  ASSUME Typed, Linked, Known, Next, NEW p \in DOMAIN outbox', outbox'[p].type = "presence"
  PROVE  \/ /\ ~ServerHandles /\ p \in DOMAIN outbox
            /\ \A r \in 1..p : r \in DOMAIN outbox /\ outbox'[r] = outbox[r]
         \/ /\ ServerHandles /\ p + 1 \in DOMAIN outbox
            /\ \A r \in 1..p : outbox'[r] = outbox[r + 1]
         \/ \E entries \in Seq(Entries) : Sends(entries) /\ outbox'[p].entries = entries
         \/ /\ Reconnects /\ ~resumable /\ p \in DOMAIN unacked
            /\ \A r \in 1..p : r \in DOMAIN unacked /\ outbox'[r] = unacked[r]
<1>1. /\ outbox \in Seq(Requests) /\ Len(outbox) \in Nat /\ DOMAIN outbox = 1..Len(outbox)
      /\ unacked \in Seq(Messages) /\ unacked \in Seq(Requests) /\ Len(unacked) \in Nat
      /\ DOMAIN unacked = 1..Len(unacked)
  BY Lengths DEF Requests
<1>2. CASE ServerHandles
  <2>1. outbox # <<>> /\ outbox' = Tail(outbox)
    BY <1>2 DEF ServerHandles
  <2>2. \A r \in DOMAIN outbox' : r + 1 \in DOMAIN outbox /\ outbox'[r] = outbox[r + 1]
    BY <1>1, <2>1
  <2>3. \A r \in 1..p : r \in DOMAIN outbox'
    BY <1>1, <2>1
  <2> QED
    BY <1>2, <2>2, <2>3
<1>3. ASSUME ~ServerHandles, outbox' = outbox
      PROVE  /\ p \in DOMAIN outbox
             /\ \A r \in 1..p : r \in DOMAIN outbox /\ outbox'[r] = outbox[r]
  BY <1>1, <1>3
<1>4. ASSUME NEW s \in Seq(Requests), NEW more \in Seq(Requests), outbox' = s \o more,
             \A r \in DOMAIN more : more[r].type # "presence"
      PROVE  p \in DOMAIN s /\ \A r \in 1..p : r \in DOMAIN s /\ outbox'[r] = s[r]
  <2>1. /\ Len(s) \in Nat /\ Len(more) \in Nat /\ DOMAIN outbox' = 1..(Len(s) + Len(more))
        /\ DOMAIN s = 1..Len(s) /\ DOMAIN more = 1..Len(more)
        /\ \A i \in 1..Len(s) : outbox'[i] = s[i]
        /\ \A i \in 1..Len(more) : outbox'[Len(s) + i] = more[i]
    BY <1>4, ConcatAt
  <2>2. p <= Len(s)
    <3> SUFFICES ASSUME ~(p <= Len(s)) PROVE FALSE
      OBVIOUS
    <3>1. PICK i \in 1..Len(more) : i = p - Len(s) /\ Len(s) + i = p
      <4>1. PICK L, K \in Nat : L = Len(s) /\ K = Len(more)
        BY <2>1, Zenon
      <4>2. p - L \in 1..K /\ L + (p - L) = p
        BY <2>1, <4>1
      <4> QED
        BY <4>1, <4>2, SMTT(60)
    <3> QED
      BY <1>4, <2>1, <3>1
  <2> QED
    BY <2>1, <2>2
<1>5. CASE ~ServerHandles /\ Reconnects
  <2>1. PICK more \in Seq(Requests) :
          /\ \A r \in DOMAIN more : more[r].type # "presence"
          /\ outbox' = (IF resumable THEN outbox ELSE unacked) \o more
    BY <1>5 DEF Reconnects
  <2> QED
    BY <1>1, <1>4, <1>5, <2>1
<1>6. ASSUME ~ServerHandles, NEW type \in {"attach", "detach"}, outbox' = Append(outbox, [type |-> type])
      PROVE  /\ p \in DOMAIN outbox
             /\ \A r \in 1..p : r \in DOMAIN outbox /\ outbox'[r] = outbox[r]
  <2>1. PICK x \in Requests : x = [type |-> type]
    BY DEF Requests
  <2>2. outbox' = Append(outbox, x)
    BY <1>6, <2>1
  <2>3. outbox \in Seq(Requests)
    BY <1>1
  <2>4. PICK more \in Seq(Requests) : outbox' = outbox \o more /\ more[1] = x /\ DOMAIN more = {1}
    <3>2. \A S : \A s \in Seq(S) : \A e \in S : \E t \in Seq(S) : Append(s, e) = s \o t
            /\ Len(t) = 1 /\ t[1] = e /\ DOMAIN t = {1}
      BY AppendsOne, Zenon
    <3>3. \A s \in Seq(Requests) : \A e \in Requests : \E t \in Seq(Requests) :
            Append(s, e) = s \o t /\ Len(t) = 1 /\ t[1] = e /\ DOMAIN t = {1}
      BY <3>2, Zenon
    <3>4. \A e \in Requests : \E t \in Seq(Requests) : Append(outbox, e) = outbox \o t
            /\ Len(t) = 1 /\ t[1] = e /\ DOMAIN t = {1}
      BY <3>3, <2>3, Zenon
    <3>5. \E t \in Seq(Requests) : Append(outbox, x) = outbox \o t /\ Len(t) = 1 /\ t[1] = x
            /\ DOMAIN t = {1}
      BY <3>4, <2>1, Zenon
    <3> QED
      BY <2>2, <3>5
  <2>5. \A r \in DOMAIN more : more[r].type # "presence"
    BY <2>1, <2>4
  <2> QED
    BY <1>1, <1>4, <2>4, <2>5
<1>7. ASSUME ~ServerHandles, NEW entries \in Seq(Entries), Sends(entries)
      PROVE  \/ /\ p \in DOMAIN outbox
                /\ \A r \in 1..p : r \in DOMAIN outbox /\ outbox'[r] = outbox[r]
             \/ outbox'[p].entries = entries
  <2>1. PICK m \in Messages : m.entries = entries /\ outbox' \in {outbox, Append(outbox, m)}
    BY <1>7, SendOf DEF Sends
  <2>2. CASE outbox' = outbox
    BY <1>3, <1>7, <2>2
  <2>3. CASE outbox' = Append(outbox, m)
    <3>1. /\ DOMAIN outbox' = 1..(Len(outbox) + 1) /\ outbox'[Len(outbox) + 1] = m
          /\ \A r \in 1..Len(outbox) : outbox'[r] = outbox[r]
      <4>1. m \in Requests
        BY DEF Requests
      <4> QED
        BY <1>1, <2>3, <4>1, AppendProperties, LenProperties
    <3>2. CASE p = Len(outbox) + 1
      BY <2>1, <3>1, <3>2
    <3>3. CASE p # Len(outbox) + 1
      BY <1>1, <3>1, <3>3
    <3> QED
      BY <3>2, <3>3
  <2> QED
    BY <2>1, <2>2, <2>3
<1>8. ASSUME ~ServerHandles, Still \/ Receive \/ \E type \in {"attach", "detach"} : AsksFor(type)
      PROVE  /\ p \in DOMAIN outbox
             /\ \A r \in 1..p : r \in DOMAIN outbox /\ outbox'[r] = outbox[r]
  <2>1. CASE Still
    BY <1>3, <1>8, <2>1 DEF Still
  <2>2. CASE Receive
    <3>1. outbox' = outbox \/ outbox' = Append(outbox, [type |-> "attach"])
      BY <2>2 DEF Receive, ReceiveAttached, ReceiveDetached, ReceiveError, ReceivePresence,
         ReceiveAnswer, RequestAttach, Asks, sending
    <3> QED
      BY <1>3, <1>6, <1>8, <3>1
  <2>3. CASE \E type \in {"attach", "detach"} : AsksFor(type)
    BY <1>6, <1>8, <2>3 DEF AsksFor
  <2> QED
    BY <1>8, <2>1, <2>2, <2>3
<1>9. ASSUME ~ServerHandles, NEW type \in {"detached", "failed"}, ServerEnds(type)
      PROVE  /\ p \in DOMAIN outbox
             /\ \A r \in 1..p : r \in DOMAIN outbox /\ outbox'[r] = outbox[r]
  <2>1. outbox' = outbox
    BY <1>9 DEF ServerEnds, sending
  <2> QED
    BY <1>3, <1>9, <2>1
<1>10. ~Forgotten
  BY DEF Forgotten
<1>11. CASE ServerHandles
  BY <1>2, <1>11
<1>12. CASE ~ServerHandles
  BY <1>5, <1>7, <1>8, <1>9, <1>10, <1>12, StepMoves DEF Moves
<1> QED
  BY <1>11, <1>12

\* Of two messages on their way the first was sent before the second.
LEMMA HeadBefore ==
  ASSUME Typed, Linked, Answered, SentInOrder, NEW p \in DOMAIN outbox, NEW r \in DOMAIN outbox,
         p < r,
         outbox[p].type = "presence", outbox[r].type = "presence"
  PROVE  \A q \in DOMAIN outbox[p].entries, s \in DOMAIN outbox[r].entries :
            Follows(outbox[p].entries[q], outbox[r].entries[s])
<1>1. /\ outbox \in Seq(Requests) /\ Len(outbox) \in Nat /\ DOMAIN outbox = 1..Len(outbox)
      /\ Len(inbox) \in Nat /\ DOMAIN unacked = 1..Len(unacked) /\ Len(unacked) \in Nat
  BY Lengths
<1>2. resumable
  <2>1. outbox # <<>>
    BY <1>1
  <2> QED
    BY <2>1 DEF Linked
<1>3. PICK pos : Matches(pos)
  BY <1>2 DEF Answered
<1>4. PICK n, m \in DOMAIN unacked : pos[n] = Len(inbox) + p /\ pos[m] = Len(inbox) + r
  BY <1>3 DEF Matches
<1>5. outbox[p] = unacked[n] /\ outbox[r] = unacked[m]
  <2>1. ~(pos[n] <= Len(inbox)) /\ pos[n] - Len(inbox) = p
    BY <1>1, <1>4
  <2>2. ~(pos[m] <= Len(inbox)) /\ pos[m] - Len(inbox) = r
    BY <1>1, <1>4
  <2> QED
    BY <1>3, <2>1, <2>2 DEF Matches
<1>6. n < m
  <2>1. ~(pos[m] <= pos[n])
    BY <1>1, <1>4
  <2>2. ~(m < n) /\ m # n
    <3>1. ~(pos[m] < pos[n])
      BY <1>1, <1>4
    <3> QED
      BY <1>1, <1>3, <1>4, <2>1, <3>1 DEF Matches
  <2> QED
    BY <1>1, <2>2
<1> QED
  BY <1>5, <1>6 DEF SentInOrder
-----------------------------------------------------------------------------
(* What is told, and the order it is told in.                               *)

\* What the service holds stays, is dropped, or takes the entries of a message.
LEMMA ServerMoves ==
  ASSUME Typed, Linked, Known, Next
  PROVE  /\ \/ server'.members = server.members
            \/ /\ \A c \in Clients : server'.members[c] = None
               /\ \/ inbox' = <<>> /\ ~resumable'
                  \/ ServerHandles /\ ServerDetaches
                  \/ \E type \in {"detached", "failed"} : ServerEnds(type)
            \/ /\ ServerHandles /\ ServerTakes /\ outbox # <<>> /\ outbox[1] \in Messages
               /\ server'.members = Members(outbox[1])
         /\ server'.state = "attached" => server.state = "attached"
            \/ (ServerHandles /\ ServerAttaches)
<1>1. /\ server \in [state : {"new", "attached", "detached"}, members : MemberMaps]
      /\ outbox \in Seq(Requests)
  BY DEF Typed
<1>2. CASE server' = server
  BY <1>2
<1>3. CASE Forgotten
  <2>1. \A c \in Clients : server'.members[c] = None
    BY <1>3, NoMembersType DEF Forgotten
  <2>2. server'.state = "new" /\ inbox' = <<>> /\ ~resumable'
    BY <1>3, NoMembersType DEF Forgotten
  <2> QED
    BY <2>1, <2>2
<1>4. CASE \E type \in {"detached", "failed"} : ServerEnds(type)
  <2>1. server' = NoMembers("detached")
    BY <1>4 DEF ServerEnds
  <2>2. (\A c \in Clients : server'.members[c] = None) /\ server'.state = "detached"
    BY <2>1, NoMembersType
  <2> QED
    BY <1>4, <2>2
<1>5. CASE ServerHandles
  <2>1. CASE ServerAttaches
    BY <1>1, <1>5, <2>1 DEF ServerAttaches
  <2>2. CASE ServerDetaches
    <3>1. server' = NoMembers("detached")
      BY <2>2 DEF ServerDetaches
    <3>2. (\A c \in Clients : server'.members[c] = None) /\ server'.state = "detached"
      BY <3>1, NoMembersType
    <3> QED
      BY <1>5, <2>2, <3>2
  <2>3. CASE ServerTakes
    <3>1. outbox # <<>> /\ Head(outbox) = outbox[1] /\ outbox[1] \in Requests
      BY <1>1, <1>5 DEF ServerHandles
    <3>2. outbox[1] \in Messages
      BY <2>3, <3>1 DEF ServerTakes, Requests
    <3>3. server'.members = Members(outbox[1]) /\ server'.state = server.state
      BY <1>1, <2>3, <3>1 DEF ServerTakes
    <3> QED
      BY <1>5, <2>3, <3>1, <3>2, <3>3
  <2>4. CASE ServerRefuses
    BY <2>4 DEF ServerRefuses
  <2> QED
    BY <1>5, <2>1, <2>2, <2>3, <2>4 DEF ServerHandles
<1>6. Still \/ Receive \/ Reconnects \/ (\E type \in {"attach", "detach"} : AsksFor(type))
        \/ (\E entries \in Seq(Entries) : Sends(entries)) => server' = server
  BY DEF Still, Receive, Reconnects, AsksFor, Sends
<1> QED
  BY <1>2, <1>3, <1>4, <1>5, <1>6, StepMoves DEF Moves

\* An entry on its way to the service names a call; that of a leave is its own.
LEMMA EntryOnItsWay ==
  ASSUME Typed, Linked, Known, Answered, NEW p \in DOMAIN outbox, outbox[p].type = "presence",
         NEW q \in DOMAIN outbox[p].entries
  PROVE  /\ outbox[p].entries[q].client \in Clients
         /\ outbox[p].entries[q].action = "leave" =>
              /\ outbox[p].entries[q].call # 0
              /\ outbox[p].entries[q].data = outbox[p].entries[q].call
<1>1. PICK n \in DOMAIN unacked : outbox[p] = unacked[n]
  BY OutboxIsUnacked
<1>2. KnownEntry(unacked[n].entries[q])
  BY <1>1 DEF Known, KnownUnacked
<1>3. unacked[n].entries \in Seq(Entries)
  BY <1>1, Lengths DEF Messages
<1>4. unacked[n].entries[q].client \in Clients
  BY <1>1, <1>3, EntryFields
<1> QED
  BY <1>1, <1>2, <1>4 DEF KnownEntry

\* What is told of a client names a call of it that is not queued.
LEMMA ToldIsKnown ==
  ASSUME Typed, Known, NEW c \in Clients, NEW d, Tells(c, d)
  PROVE  d \in DOMAIN calls /\ calls[d].client = c /\ calls[d].at # "queued"
<1>1. CASE server.members[c] # None /\ server.members[c].data = d
  BY <1>1 DEF Known, KnownServer, KnownItem
<1>2. ASSUME NEW p \in DOMAIN inbox, inbox[p].type = "presence", NEW q \in DOMAIN inbox[p].items,
             inbox[p].items[q].client = c, inbox[p].items[q].item.data = d
      PROVE  d \in DOMAIN calls /\ calls[d].client = c /\ calls[d].at # "queued"
  BY <1>2 DEF Known, KnownInbox, KnownItem
<1> QED
  BY <1>1, <1>2 DEF Tells

\* What is told after a step was told before it, or is what the service takes.
LEMMA TellsStep ==
  ASSUME Typed, Linked, Known, Next, NEW c \in Clients, NEW d, Tells(c, d)'
  PROVE  \/ Tells(c, d)
         \/ /\ ServerHandles /\ ServerTakes /\ outbox # <<>> /\ outbox[1] \in Messages
            /\ \E q \in DOMAIN outbox[1].entries :
                 outbox[1].entries[q].client = c /\ outbox[1].entries[q].data = d
<1>1. server.members \in MemberMaps /\ conn \in Nat /\ outbox \in Seq(Requests)
  BY DEF Typed
<1>2. CASE server'.members[c] # None /\ server'.members[c].data = d
  <2>1. CASE server'.members = server.members
    BY <1>2, <2>1 DEF Tells
  <2>2. CASE /\ ServerHandles /\ ServerTakes /\ outbox # <<>> /\ outbox[1] \in Messages
             /\ server'.members = Members(outbox[1])
    <3>1. PICK m \in Messages : m = outbox[1]
      BY <2>2
    <3>2. \/ Members(m)[c] = server.members[c]
          \/ \E q \in DOMAIN m.entries : m.entries[q].client = c
             /\ Members(m)[c].data = m.entries[q].data
      BY <1>1, <1>2, <2>2, <3>1, MembersOf
    <3> QED
      BY <1>2, <2>2, <3>1, <3>2 DEF Tells
  <2> QED
    BY <1>2, <2>1, <2>2, ServerMoves
<1>3. ASSUME NEW p \in DOMAIN inbox', inbox'[p].type = "presence", NEW q \in DOMAIN inbox'[p].items,
             inbox'[p].items[q].client = c, inbox'[p].items[q].item.data = d
      PROVE  \/ Tells(c, d)
             \/ /\ ServerHandles /\ ServerTakes /\ outbox # <<>> /\ outbox[1] \in Messages
                /\ \E e \in DOMAIN outbox[1].entries :
                     outbox[1].entries[e].client = c /\ outbox[1].entries[e].data = d
  <2>1. CASE \E r \in DOMAIN inbox : inbox'[p] = inbox[r]
    BY <1>3, <2>1 DEF Tells
  <2>2. CASE inbox'[p] = Present
    BY <1>3, <2>2, PresentOf DEF Tells
  <2>3. CASE ServerHandles /\ ServerTakes /\ inbox'[p] = Told(outbox[1])
    <3>1. outbox # <<>> /\ outbox[1] \in Requests /\ Head(outbox) = outbox[1]
      BY <1>1, <2>3 DEF ServerHandles
    <3>2. outbox[1] \in Messages
      BY <2>3, <3>1 DEF ServerTakes, Requests
    <3> QED
      BY <1>3, <2>3, <3>1, <3>2, ToldOf
  <2> QED
    BY <1>3, <2>1, <2>2, <2>3, ArrivalsOf
<1> QED
  BY <1>2, <1>3 DEF Tells

\* What is told comes from earlier calls than what is on its way to the service.
LEMMA ToldIsPastStep ==
  ASSUME Typed, Linked, Known, Accounted, Answered, QueueIsLast, PendingInOrder, SentInOrder,
         ToldIsPast,
         Evolution, Typed', Next
  PROVE  ToldIsPast'
<1> SUFFICES ASSUME NEW c \in Clients, NEW d \in DOMAIN calls', Tells(c, d)',
                    NEW p \in DOMAIN outbox', outbox'[p].type = "presence",
                    NEW q \in DOMAIN outbox'[p].entries,
                    outbox'[p].entries[q].client = c, outbox'[p].entries[q].call # 0
             PROVE  d < outbox'[p].entries[q].call
  BY DEF ToldIsPast
<1>1. Tells(c, d) => d \in DOMAIN calls /\ calls[d].client = c /\ calls[d].at # "queued"
  BY ToldIsKnown
<1>2. ASSUME Tells(c, d), NEW r \in DOMAIN outbox, outbox'[p] = outbox[r]
      PROVE  d < outbox'[p].entries[q].call
  BY <1>1, <1>2 DEF ToldIsPast
<1>3. CASE ~ServerHandles /\ p \in DOMAIN outbox /\ outbox'[p] = outbox[p]
  BY <1>2, <1>3, TellsStep
<1>4. CASE ServerHandles /\ p + 1 \in DOMAIN outbox /\ outbox'[p] = outbox[p + 1]
  <2>1. CASE Tells(c, d)
    BY <1>2, <1>4, <2>1
  <2>2. CASE /\ ServerTakes /\ outbox # <<>> /\ outbox[1] \in Messages
             /\ \E e \in DOMAIN outbox[1].entries :
                  outbox[1].entries[e].client = c /\ outbox[1].entries[e].data = d
    <3>1. PICK e \in DOMAIN outbox[1].entries : outbox[1].entries[e].client = c
            /\ outbox[1].entries[e].data = d
      BY <2>2
    <3>2. 1 \in DOMAIN outbox /\ 1 < p + 1 /\ outbox[1].type = "presence"
            /\ outbox[p + 1].type = "presence"
      <4>1. outbox' \in Seq(Requests) /\ outbox \in Seq(Requests)
        BY <1>4 DEF Typed, ServerHandles
      <4> QED
        BY <1>4, <2>2, <4>1 DEF Messages
    <3>3. Follows(outbox[1].entries[e], outbox[p + 1].entries[q])
      BY <1>4, <3>1, <3>2, HeadBefore
    <3> QED
      BY <1>4, <3>1, <3>3 DEF Follows
  <2> QED
    BY <2>1, <2>2, TellsStep
<1>5. ASSUME NEW entries \in Seq(Entries), Sends(entries), outbox'[p].entries = entries
      PROVE  d < outbox'[p].entries[q].call
  <2>1. Tells(c, d)
    BY <1>5 DEF Sends, Tells
  <2> QED
    BY <1>1, <1>5, <2>1, EntriesSent
<1>6. CASE Reconnects /\ ~resumable
  <2>1. inbox' = <<>> /\ \A k \in Clients : server'.members[k] = None
    BY <1>6, NoMembersType DEF Reconnects, Linked
  <2> QED
    BY <2>1 DEF Tells
<1>7. p \in 1..p /\ p \in Nat
  <2>1. outbox' \in Seq(Requests)
    BY DEF Typed
  <2> QED
    BY <2>1
<1> QED
  BY <1>3, <1>4, <1>5, <1>6, <1>7, RequestsOf


\* What is told of a client before a leave of it comes from an earlier call.
LEMMA ToldInOrderStep ==
  ASSUME Typed, Linked, Known, Answered, SentInOrder, ToldIsPast, ToldInOrder, Typed', Next
  PROVE  ToldInOrder'
<1> SUFFICES ASSUME NEW p \in DOMAIN inbox', NEW r \in DOMAIN inbox',
                    inbox'[p].type = "presence", inbox'[r].type = "presence",
                    NEW q \in DOMAIN inbox'[p].items, NEW s \in DOMAIN inbox'[r].items,
                    p < r \/ (p = r /\ q < s),
                    inbox'[p].items[q].client = inbox'[r].items[s].client,
                    inbox'[r].items[s].item.action = "leave"
             PROVE  inbox'[p].items[q].item.data < inbox'[r].items[s].item.data
  BY DEF ToldInOrder
<1>1. p \in Nat /\ r \in Nat /\ Len(inbox) \in Nat /\ DOMAIN inbox = 1..Len(inbox)
  <2>1. inbox' \in Seq(Arrivals) /\ inbox \in Seq(Arrivals)
    BY DEF Typed
  <2> QED
    BY <2>1
<1>2. CASE Receive
  <2>1. p + 1 \in DOMAIN inbox /\ r + 1 \in DOMAIN inbox /\ inbox'[p] = inbox[p + 1]
          /\ inbox'[r] = inbox[r + 1]
    BY <1>2, ArrivalsOf
  <2>2. p + 1 < r + 1 \/ (p + 1 = r + 1 /\ q < s)
    BY <1>1
  <2> QED
    BY <2>1, <2>2 DEF ToldInOrder
<1>3. CASE ~Receive /\ r \in DOMAIN inbox /\ inbox'[r] = inbox[r]
  <2>1. ~(p > Len(inbox)) /\ ~(p = Len(inbox) + 1)
    BY <1>1, <1>3
  <2>2. p \in DOMAIN inbox /\ inbox'[p] = inbox[p]
    BY <1>3, <2>1, ArrivalsOf
  <2> QED
    BY <1>3, <2>2 DEF ToldInOrder
<1>4. CASE inbox'[r] = Present
  BY <1>4, PresentOf DEF Known, KnownServer
<1>5. CASE /\ ~Receive /\ r = Len(inbox) + 1 /\ ServerHandles /\ ServerTakes
           /\ inbox'[r] = Told(outbox[1])
  <2>1. PICK m \in Messages : m = outbox[1] /\ 1 \in DOMAIN outbox
    <3>1. outbox \in Seq(Requests) /\ outbox # <<>>
      BY <1>5 DEF Typed, ServerHandles
    <3>2. 1 \in DOMAIN outbox /\ outbox[1] \in Requests /\ Head(outbox) = outbox[1]
      BY <3>1
    <3> QED
      BY <1>5, <3>2 DEF ServerTakes, Requests
  <2>2. /\ DOMAIN Told(m).items = DOMAIN m.entries
        /\ Told(m).items[s].client = m.entries[s].client
        /\ Told(m).items[s].item.data = m.entries[s].data
        /\ Told(m).items[s].item.action = m.entries[s].action
        /\ s \in DOMAIN m.entries
    BY <1>5, <2>1, ToldOf
  <2>3. /\ m.entries[s].action = "leave" /\ m.entries[s].client \in Clients
        /\ m.entries[s].call # 0 /\ m.entries[s].data = m.entries[s].call
    BY <1>5, <2>1, <2>2, EntryOnItsWay DEF Messages
  <2>4. inbox'[p].items[q].client = m.entries[s].client
          /\ inbox'[r].items[s].item.data = m.entries[s].call
    BY <1>5, <2>1, <2>2, <2>3
  <2>5. CASE p \in DOMAIN inbox /\ inbox'[p] = inbox[p]
    <3>1. Tells(m.entries[s].client, inbox[p].items[q].item.data)
      BY <2>4, <2>5 DEF Tells
    <3>2. inbox[p].items[q].item.data \in DOMAIN calls
      BY <2>3, <3>1, ToldIsKnown
    <3> QED
      BY <2>1, <2>2, <2>3, <2>4, <2>5, <3>1, <3>2 DEF ToldIsPast, Messages
  <2>6. CASE p = Len(inbox) + 1
    <3>1. p = r /\ q < s
      BY <1>1, <1>5, <2>6
    <3>2. q \in DOMAIN m.entries /\ m.entries[q].client = inbox'[p].items[q].client
          /\ m.entries[q].data = inbox'[p].items[q].item.data
      BY <1>5, <2>1, <3>1, ToldOf
    <3>3. PICK n \in DOMAIN unacked : m = unacked[n]
      BY <2>1, OutboxIsUnacked DEF Messages
    <3>4. Follows(m.entries[q], m.entries[s])
      BY <2>2, <3>1, <3>2, <3>3 DEF SentInOrder
    <3> QED
      BY <2>3, <2>4, <3>2, <3>4 DEF Follows
  <2>7. ~(p > Len(inbox)) \/ p = Len(inbox) + 1
    BY <1>1, <1>5
  <2>8. CASE inbox'[p] = Present /\ ServerAttaches
    <3>1. Head(outbox).type = "attach" /\ Head(outbox).type = "presence"
      BY <1>5, <2>8 DEF ServerAttaches, ServerTakes
    <3> QED
      BY <3>1, SMTT(60)
  <2> QED
    BY <1>5, <2>5, <2>6, <2>7, <2>8, ArrivalsOf, SMTT(60)
<1> QED
  BY <1>2, <1>3, <1>4, <1>5, ArrivalsOf

-----------------------------------------------------------------------------
(* No leave is on its way for a call that was shown.                        *)

\* A call that is shown was shown, or is told of by what is received.
LEMMA ShownNow ==
  ASSUME Typed, Known, Evolution, NEW i \in DOMAIN calls', calls'[i].shown
  PROVE  /\ i \in DOMAIN calls /\ calls'[i].client = calls[i].client
         /\ \/ calls[i].shown
            \/ /\ Receive /\ ReceivePresence /\ inbox # <<>> /\ 1 \in DOMAIN inbox
               /\ inbox[1].type = "presence"
               /\ \E k \in DOMAIN inbox[1].items :
                    /\ inbox[1].items[k].item.data = i /\ inbox[1].items[k].item.action # "leave"
                    /\ inbox[1].items[k].client = calls[i].client
<1>1. i \in DOMAIN calls /\ calls'[i].client = calls[i].client /\ (calls[i].shown \/ Shown(i))
  BY DEF Evolution
<1>2. ASSUME Shown(i)
      PROVE  /\ Receive /\ ReceivePresence /\ inbox # <<>> /\ 1 \in DOMAIN inbox
                /\ inbox[1].type = "presence"
             /\ \E k \in DOMAIN inbox[1].items :
                  /\ inbox[1].items[k].item.data = i /\ inbox[1].items[k].item.action # "leave"
                  /\ inbox[1].items[k].client = calls[i].client
  <2>1. Receive /\ ReceivePresence /\ Shows(inbox[1], i)
    BY <1>2 DEF Shown
  <2>2. inbox \in Seq(Arrivals) /\ inbox # <<>> /\ Head(inbox).type = "presence"
    BY <2>1 DEF Typed, Receive, ReceivePresence
  <2>3. 1 \in DOMAIN inbox /\ inbox[1].type = "presence"
    BY <2>2
  <2>4. PICK k \in DOMAIN inbox[1].items :
          inbox[1].items[k].item.data = i /\ inbox[1].items[k].item.action # "leave"
    BY <2>1 DEF Shows
  <2>5. calls[i].client = inbox[1].items[k].client
    BY <2>3, <2>4 DEF Known, KnownInbox, KnownItem
  <2> QED
    BY <2>1, <2>2, <2>3, <2>4, <2>5
<1> QED
  BY <1>1, <1>2

\* A leave on its way to the client is of a later call than what was shown of it.
LEMMA NoLeaveToldStep ==
  ASSUME Typed, Linked, Known, Answered, ToldInOrder, NoLeaveTold, NoLeaveToTell, Typed',
         Evolution, Next
  PROVE  NoLeaveTold'
<1> SUFFICES ASSUME NEW i \in DOMAIN calls', calls'[i].shown,
                    NEW p \in DOMAIN inbox', inbox'[p].type = "presence",
                    NEW q \in DOMAIN inbox'[p].items,
                    inbox'[p].items[q].client = calls'[i].client, inbox'[p].items[q].item.action = "leave"
             PROVE  i < inbox'[p].items[q].item.data
  BY DEF NoLeaveTold
<1>1. i \in DOMAIN calls /\ calls'[i].client = calls[i].client
  BY ShownNow
<1>2. p \in Nat /\ p >= 1
  <2>1. inbox' \in Seq(Arrivals)
    BY DEF Typed
  <2> QED
    BY <2>1
<1>3. CASE calls[i].shown
  <2>1. CASE \E r \in DOMAIN inbox : inbox'[p] = inbox[r]
    BY <1>1, <1>3, <2>1 DEF NoLeaveTold
  <2>2. CASE inbox'[p] = Present
    BY <2>2, PresentOf DEF Known, KnownServer
  <2>3. CASE ServerHandles /\ ServerTakes /\ server.state = "attached"
          /\ inbox'[p] = Told(outbox[1])
    <3>1. PICK m \in Messages : m = outbox[1] /\ 1 \in DOMAIN outbox
      <4>1. outbox \in Seq(Requests) /\ outbox # <<>>
        BY <2>3 DEF Typed, ServerHandles
      <4>2. 1 \in DOMAIN outbox /\ outbox[1] \in Requests /\ Head(outbox) = outbox[1]
        BY <4>1
      <4> QED
        BY <2>3, <4>2 DEF ServerTakes, Requests
    <3>2. /\ q \in DOMAIN m.entries /\ m.entries[q].client = calls[i].client
          /\ m.entries[q].action = "leave" /\ m.entries[q].data = inbox'[p].items[q].item.data
      BY <1>1, <2>3, <3>1, ToldOf
    <3>3. m.entries[q].data = m.entries[q].call /\ m.type = "presence"
      BY <3>1, <3>2, EntryOnItsWay DEF Messages
    <3>4. i < m.entries[q].call
      BY <1>1, <1>3, <2>3, <3>1, <3>2, <3>3 DEF NoLeaveToTell
    <3> QED
      BY <3>2, <3>3, <3>4
  <2> QED
    BY <2>1, <2>2, <2>3, ArrivalsOf
<1>4. CASE /\ Receive /\ 1 \in DOMAIN inbox /\ inbox[1].type = "presence"
           /\ \E k \in DOMAIN inbox[1].items :
                inbox[1].items[k].item.data = i /\ inbox[1].items[k].client = calls[i].client
  <2>1. p + 1 \in DOMAIN inbox /\ inbox'[p] = inbox[p + 1] /\ 1 < p + 1
    BY <1>2, <1>4, ArrivalsOf
  <2> QED
    BY <1>1, <1>4, <2>1 DEF ToldInOrder
<1> QED
  BY <1>3, <1>4, ShownNow

\* A leave on its way to the service is of a later call than what was shown of it, unless the
\* service will not tell of it.
LEMMA NoLeaveToTellStep ==
  ASSUME Typed, Linked, Known, Accounted, Answered, QueueIsLast, PendingInOrder, ToldIsPast,
         NoLeaveToTell,
         Typed', Evolution, Next
  PROVE  NoLeaveToTell'
<1> SUFFICES ASSUME NEW i \in DOMAIN calls', calls'[i].shown,
                    NEW p \in DOMAIN outbox', outbox'[p].type = "presence",
                    NEW q \in DOMAIN outbox'[p].entries,
                    outbox'[p].entries[q].client = calls'[i].client, outbox'[p].entries[q].action = "leave"
             PROVE  \/ i < outbox'[p].entries[q].call
                    \/ server'.state # "attached"
                       /\ \A r \in 1..(p - 1) : outbox'[r].type # "attach"
  BY DEF NoLeaveToTell
<1>1. i \in DOMAIN calls /\ calls'[i].client = calls[i].client
  BY ShownNow
<1>2. p \in Nat /\ p >= 1 /\ p \in 1..p
  <2>1. outbox' \in Seq(Requests)
    BY DEF Typed
  <2> QED
    BY <2>1
<1>3. server'.state = "attached" => server.state = "attached" \/ (ServerHandles /\ ServerAttaches)
  BY ServerMoves
<1>4. CASE calls[i].shown
  <2>1. CASE ~ServerHandles /\ p \in DOMAIN outbox /\ \A r \in 1..p : outbox'[r] = outbox[r]
    <3>1. outbox'[p] = outbox[p]
      BY <1>2, <2>1
    <3>2. \/ i < outbox[p].entries[q].call
          \/ server.state # "attached" /\ \A r \in 1..(p - 1) : outbox[r].type # "attach"
      BY <1>1, <1>4, <2>1, <3>1 DEF NoLeaveToTell
    <3>3. \A r \in 1..(p - 1) : r \in 1..p
      BY <1>2
    <3> QED
      BY <1>3, <2>1, <3>1, <3>2, <3>3
  <2>2. CASE ServerHandles /\ p + 1 \in DOMAIN outbox /\ \A r \in 1..p : outbox'[r] = outbox[r + 1]
    <3>1. outbox'[p] = outbox[p + 1] /\ (p + 1) - 1 = p
      BY <1>2, <2>2
    <3>2. \/ i < outbox[p + 1].entries[q].call
          \/ server.state # "attached" /\ \A r \in 1..p : outbox[r].type # "attach"
      BY <1>1, <1>4, <2>2, <3>1 DEF NoLeaveToTell
    <3>3. CASE server.state # "attached" /\ \A r \in 1..p : outbox[r].type # "attach"
      <4>1. 1 \in 1..p /\ \A r \in 1..(p - 1) : r \in 1..p /\ r + 1 \in 1..p
        BY <1>2
      <4>2. outbox \in Seq(Requests) /\ outbox # <<>>
        BY <2>2 DEF Typed, ServerHandles
      <4>3. Head(outbox).type # "attach"
        BY <3>3, <4>1, <4>2
      <4> QED
        BY <1>3, <2>2, <3>3, <4>1, <4>3 DEF ServerAttaches
    <3> QED
      BY <3>1, <3>2, <3>3
  <2>3. ASSUME NEW entries \in Seq(Entries), Sends(entries), outbox'[p].entries = entries
        PROVE  i < outbox'[p].entries[q].call
    <3>1. PICK e : e = entries[q] /\ e = outbox'[p].entries[q]
      BY <2>3
    <3>2. KnownEntry(e)' /\ (e.call # 0 => \A d \in DOMAIN calls :
            calls[d].at # "queued" => d < e.call)
      BY <2>3, <3>1, EntriesSent
    <3>3. e.call # 0
      BY <3>1, <3>2 DEF KnownEntry
    <3>4. calls[i].at # "queued"
      BY <1>1, <1>4 DEF Known, KnownShown, Entered
    <3> QED
      BY <1>1, <3>1, <3>2, <3>3, <3>4
  <2>4. CASE Reconnects /\ ~resumable /\ \A r \in 1..p : r \in DOMAIN unacked
          /\ outbox'[r] = unacked[r]
    <3>1. server'.state = "new"
      BY <2>4, NoMembersType DEF Reconnects, Linked
    <3>2. \A r \in 1..(p - 1) : r \in 1..p
      BY <1>2
    <3>3. \A r \in 1..(p - 1) : outbox'[r].type = "presence"
      BY <2>4, <3>2, Lengths
    <3> QED
      BY <3>1, <3>3
  <2> QED
    BY <2>1, <2>2, <2>3, <2>4, RequestsOf
<1>5. CASE /\ Receive /\ ReceivePresence /\ 1 \in DOMAIN inbox /\ inbox[1].type = "presence"
           /\ \E k \in DOMAIN inbox[1].items :
                inbox[1].items[k].item.data = i /\ inbox[1].items[k].client = calls[i].client
  <2>1. outbox' = outbox
    BY <1>5 DEF ReceivePresence, sending
  <2>2. Tells(calls[i].client, i)
    BY <1>5 DEF Tells
  <2>3. outbox[p].entries[q].call # 0 /\ outbox[p].entries[q].client \in Clients
    BY <2>1, EntryOnItsWay
  <2> QED
    BY <1>1, <2>1, <2>2, <2>3 DEF ToldIsPast
<1> QED
  BY <1>4, <1>5, ShownNow

-----------------------------------------------------------------------------
(* Who was shown is an own member, and who is told of is a member.          *)

\* The calls that the entries on their way to the service name.
LEMMA NamesOnItsWay ==
  ASSUME Typed, Linked, Known, Accounted, Answered, NEW p \in DOMAIN outbox,
         outbox[p].type = "presence",
         NEW q \in DOMAIN outbox[p].entries
  PROVE  LET e == outbox[p].entries[q]
         IN  /\ e.client \in Clients
             /\ e.data \in DOMAIN calls /\ calls[e.data].client = e.client
             /\ e.action = "leave" => e.call # 0 /\ e.call \in DOMAIN calls
                /\ calls[e.call].client = e.client
<1>1. PICK n \in DOMAIN unacked : outbox[p] = unacked[n]
  BY OutboxIsUnacked
<1>2. PICK e : e = outbox[p].entries[q] /\ e = unacked[n].entries[q]
  BY <1>1
<1>3. /\ e \in Entries /\ KnownEntry(e)
      /\ e.data \in DOMAIN calls /\ calls[e.data].client = e.client
  BY <1>1, <1>2, UnackedNames
<1>4. e.action = "leave" => e.call # 0 /\ e.call \in DOMAIN calls /\ calls[e.call].client = e.client
  BY <1>3 DEF KnownEntry
<1> QED
  BY <1>2, <1>3, <1>4 DEF Entries

\* The own members stay, are dropped with what was shown, or are set.
LEMMA MineMoves ==
  ASSUME Typed, Next
  PROVE  \/ mine' = mine /\ ~(Receive /\ ReceivePresence)
         \/ mine' = mine /\ inbox # <<>> /\ inbox[1].type # "presence"
         \/ \A i \in DOMAIN calls' : ~calls'[i].shown
         \/ /\ Receive /\ ReceivePresence /\ 1 \in DOMAIN inbox /\ inbox[1].type = "presence"
            /\ mine' = OwnMembers(inbox[1].items)
<1>1. calls \in Seq(Calls) /\ inbox \in Seq(Arrivals)
  BY DEF Typed
<1>2. CASE Receive
  <2>1. inbox # <<>> /\ Head(inbox) = inbox[1] /\ 1 \in DOMAIN inbox
    BY <1>1, <1>2 DEF Receive
  <2>2. CASE ReceivePresence
    BY <1>2, <2>1, <2>2 DEF ReceivePresence
  <2>3. CASE ActOnDetached
    BY <1>1, <2>3, DetachedOf
  <2>4. CASE ReceiveDetached /\ ~ActOnDetached
    <3>1. mine' = mine
      BY <2>4 DEF ReceiveDetached, ActOnSuspended
    <3>2. inbox[1].type # "presence"
      BY <2>1, <2>4 DEF ReceiveDetached
    <3> QED
      BY <2>1, <3>1, <3>2
  <2>5. CASE ReceiveAttached
    BY <2>1, <2>5 DEF ReceiveAttached
  <2>6. CASE ReceiveAnswer
    BY <2>1, <2>6 DEF ReceiveAnswer
  <2> QED
    BY <1>2, <2>2, <2>3, <2>4, <2>5, <2>6 DEF Receive, ReceiveError
<1>3. CASE ~Receive /\ mine' = mine
  BY <1>3
<1>4. ASSUME NEW state \in {"suspended", "closed"}, GiveUp(state)
      PROVE  mine' = mine \/ \A i \in DOMAIN calls' : ~calls'[i].shown
  <2>1. CASE state = "closed" /\ IsTold
    BY <1>1, <1>4, <2>1, GivenUpOf
  <2>2. CASE ~(state = "closed" /\ IsTold)
    BY <1>4, <2>2 DEF GiveUp, IsTold
  <2> QED
    BY <2>1, <2>2
<1>5. CASE Detach
  <2>1. CASE ActOnDetached
    BY <1>1, <2>1, DetachedOf
  <2>2. CASE mine' = mine
    BY <1>3, <2>2, <1>2
  <2> QED
    BY <1>5, <2>1, <2>2 DEF Detach
<1>6. (\E c \in Clients : Enter(c) \/ Leave(c)) => mine' = mine
  BY DEF Enter, Leave
<1>7. RunTask \/ ServerHandles => mine' = mine
  BY DEF RunTask, ServerHandles
<1>8. (\E type \in {"detached", "failed"} : ServerEnds(type))
        \/ (\E kind \in {"resumed", "lost"} : Lose(kind))
         => mine' = mine
  BY DEF ServerEnds, Lose
<1>9. Connect \/ ConnectAgain \/ Attach \/ RetryAttach => mine' = mine
  BY DEF Connect, ConnectAgain, Attach, RetryAttach
<1>10. TimeOut => mine' = mine
  BY DEF TimeOut, ActOnSuspended
<1> QED
  BY <1>2, <1>3, <1>4, <1>5, <1>6, <1>7, <1>8, <1>9, <1>10 DEF Next

\* Whoever was shown and has not been called since is an own member.
LEMMA ShownIsOwnStep ==
  ASSUME Typed, Known, ToldInOrder, NoLeaveTold, ShownIsOwn, Evolution, Next
  PROVE  ShownIsOwn'
<1> SUFFICES ASSUME NEW i \in DOMAIN calls', calls'[i].shown, IsLast(i)'
             PROVE  mine'.items[calls'[i].client] # None
  BY DEF ShownIsOwn
<1>1. i \in DOMAIN calls /\ calls'[i].client = calls[i].client
  BY ShownNow
<1>2. IsLast(i) /\ i \in Nat /\ calls[i].client \in Clients
  <2>1. calls \in Seq(Calls)
    BY DEF Typed
  <2>2. i \in Nat /\ calls[i] \in Calls
    BY <1>1, <2>1
  <2>3. IsLast(i)
    BY <1>1, StillLast
  <2> QED
    BY <2>2, <2>3 DEF Calls
<1>3. CASE mine' = mine /\ (~(Receive /\ ReceivePresence) \/ (inbox # <<>> /\ inbox[1].type # "presence"))
  BY <1>1, <1>2, <1>3, ShownNow DEF ShownIsOwn
<1>4. CASE /\ Receive /\ ReceivePresence /\ 1 \in DOMAIN inbox /\ inbox[1].type = "presence"
           /\ mine' = OwnMembers(inbox[1].items)
  <2>1. inbox[1].items \in Seq(ToldItems) /\ mine \in OwnMaps
    <3>1. inbox \in Seq(Arrivals) /\ mine \in OwnMaps
      BY DEF Typed
    <3>2. inbox[1] \in Arrivals
      BY <1>4, <3>1
    <3> QED
      BY <1>4, <3>1, <3>2 DEF Arrivals
  <2>2. ASSUME NEW r \in DOMAIN inbox[1].items, inbox[1].items[r].client = calls[i].client,
               inbox[1].items[r].item.action = "leave"
        PROVE  ~(i < inbox[1].items[r].item.data)
    <3>1. PICK d \in DOMAIN calls : d = inbox[1].items[r].item.data
            /\ calls[d].client = calls[i].client
      BY <1>4, <2>2 DEF Known, KnownInbox, KnownItem
    <3>2. d <= i /\ d \in Nat
      <4>1. calls \in Seq(Calls)
        BY DEF Typed
      <4>2. d \in Nat
        BY <3>1, <4>1
      <4> QED
        BY <1>2, <3>1, <4>2 DEF IsLast
    <3> QED
      BY <1>2, <3>1, <3>2
  <2>3. CASE calls[i].shown
    <3>1. mine.items[calls[i].client] # None
      BY <1>1, <1>2, <2>3 DEF ShownIsOwn
    <3>2. \A r \in DOMAIN inbox[1].items :
            inbox[1].items[r].client # calls[i].client \/ inbox[1].items[r].item.action # "leave"
      BY <1>1, <1>4, <2>2, <2>3 DEF NoLeaveTold
    <3>3. OwnMembers(inbox[1].items).items[calls[i].client] # None
      BY <1>2, <2>1, <3>1, <3>2, OwnMembersOf
    <3> QED
      BY <1>1, <1>4, <3>3
  <2>4. ASSUME NEW k \in DOMAIN inbox[1].items, inbox[1].items[k].item.data = i,
               inbox[1].items[k].item.action # "leave", inbox[1].items[k].client = calls[i].client
        PROVE  mine'.items[calls'[i].client] # None
    <3>1. \A r \in DOMAIN inbox[1].items :
            k < r => inbox[1].items[r].client # calls[i].client
              \/ inbox[1].items[r].item.action # "leave"
      BY <1>4, <2>2, <2>4 DEF ToldInOrder
    <3>2. OwnMembers(inbox[1].items).items[calls[i].client] # None
      BY <1>2, <2>1, <2>4, <3>1, OwnMembersOf
    <3> QED
      BY <1>1, <1>4, <3>2
  <2> QED
    BY <1>4, <2>3, <2>4, ShownNow
<1>5. ~(\A j \in DOMAIN calls' : ~calls'[j].shown)
  OBVIOUS
<1> QED
  BY <1>3, <1>4, <1>5, MineMoves

\* A call is of a client.
LEMMA ClientOf ==
  ASSUME Typed, NEW i \in DOMAIN calls
  PROVE  calls[i] \in Calls /\ calls[i].client \in Clients /\ i \in Nat
<1>1. calls \in Seq(Calls)
  BY DEF Typed
<1>2. calls[i] \in Calls /\ i \in Nat
  BY <1>1
<1> QED
  BY <1>2 DEF Calls

\* A later leave, of a call that is the last of its client: there is none.
LEMMA NoLaterLeave ==
  ASSUME Typed, NEW i \in DOMAIN calls, IsLast(i), NEW d \in DOMAIN calls,
         calls[d].client = calls[i].client
  PROVE  ~(i < d) /\ i \in Nat /\ d \in Nat
<1>1. calls \in Seq(Calls)
  BY DEF Typed
<1>2. i \in Nat /\ d \in Nat
  BY <1>1
<1>3. d <= i
  BY DEF IsLast
<1> QED
  BY <1>2, <1>3

\* A member stays one while the service takes a message, where what was told of it is its last call.
LEMMA StaysThere ==
  ASSUME Typed, Linked, Known, Accounted, Answered, ToldIsPast,
         NEW i \in DOMAIN calls, IsLast(i), Tells(calls[i].client, i),
         server.members[calls[i].client] # None,
         outbox # <<>>, outbox[1] \in Messages
  PROVE  Members(outbox[1])[calls[i].client] # None
<1>1. PICK m \in Messages : m = outbox[1]
  OBVIOUS
<1>2. PICK c \in Clients : c = calls[i].client
  BY ClientOf
<1>3. 1 \in DOMAIN outbox /\ outbox[1].type = "presence"
  <2>1. outbox \in Seq(Requests)
    BY DEF Typed
  <2> QED
    BY <2>1 DEF Messages
<1>4. ASSUME NEW r \in DOMAIN m.entries, m.entries[r].client = c, m.entries[r].action = "leave"
      PROVE  FALSE
  <2>1. PICK d \in DOMAIN calls : d = m.entries[r].call /\ d # 0 /\ calls[d].client = c
    BY <1>1, <1>3, <1>4, NamesOnItsWay
  <2>2. i < d
    BY <1>1, <1>2, <1>3, <1>4, <2>1 DEF ToldIsPast
  <2> QED
    BY <1>2, <2>1, <2>2, NoLaterLeave
<1>5. server.members \in MemberMaps /\ conn \in Nat
  BY DEF Typed
<1> QED
  BY <1>1, <1>2, <1>4, <1>5, MembersOf

\* Who is told of last is a member, unless a drop is on its way behind.
LEMMA ToldIsThereStep ==
  ASSUME Typed, Linked, Known, Accounted, Answered, SentInOrder, ToldIsPast, ToldIsThere, Typed',
         Evolution,
         Next
  PROVE  ToldIsThere'
<1> SUFFICES ASSUME NEW i \in DOMAIN calls', IsLast(i)',
                    NEW p \in DOMAIN inbox', inbox'[p].type = "presence",
                    NEW q \in DOMAIN inbox'[p].items,
                    inbox'[p].items[q].item.data = i, inbox'[p].items[q].item.action # "leave"
             PROVE  server'.members[calls'[i].client] # None \/ DroppedAfter(p)'
  BY DEF ToldIsThere
<1>1. /\ p \in Nat /\ p >= 1 /\ Len(inbox) \in Nat /\ DOMAIN inbox = 1..Len(inbox) /\ inbox' # <<>>
  <2>1. inbox' \in Seq(Arrivals) /\ inbox \in Seq(Arrivals)
    BY DEF Typed
  <2> QED
    BY <2>1
<1>2. i \in DOMAIN calls => IsLast(i) /\ calls'[i].client = calls[i].client
        /\ calls[i].client \in Clients
  <2>1. i \in DOMAIN calls => IsLast(i)
    BY StillLast
  <2>2. i \in DOMAIN calls => calls[i].client \in Clients
    BY ClientOf
  <2> QED
    BY <2>1, <2>2 DEF Evolution
<1>3. CASE Receive
  <2>1. p + 1 \in DOMAIN inbox /\ inbox'[p] = inbox[p + 1]
    BY <1>3, ArrivalsOf
  <2>2. i \in DOMAIN calls
    BY <2>1 DEF Known, KnownInbox, KnownItem
  <2>3. server.members[calls[i].client] # None \/ DroppedAfter(p + 1)
    BY <1>2, <2>1, <2>2 DEF ToldIsThere
  <2>4. server' = server
    BY <1>3 DEF Receive
  <2>5. DroppedAfter(p + 1) => DroppedAfter(p)'
    BY <1>1, <1>3, DropsStay
  <2> QED
    BY <1>2, <2>2, <2>3, <2>4, <2>5
<1>4. CASE ~Receive /\ p \in DOMAIN inbox /\ inbox'[p] = inbox[p]
  <2>1. i \in DOMAIN calls /\ calls[i].client = inbox[p].items[q].client
    BY <1>4 DEF Known, KnownInbox, KnownItem
  <2>2. server.members[calls[i].client] # None \/ DroppedAfter(p)
    BY <1>2, <1>4, <2>1 DEF ToldIsThere
  <2>3. CASE DroppedAfter(p)
    BY <1>1, <1>4, <2>3, DropsStay
  <2>4. CASE server.members[calls[i].client] # None
    <3>1. CASE server'.members = server.members
      BY <1>2, <2>1, <2>4, <3>1
    <3>2. CASE (ServerHandles /\ ServerDetaches)
            \/ \E type \in {"detached", "failed"} : ServerEnds(type)
      <4>1. p \in 0..Len(inbox)
        BY <1>1, <1>4
      <4> QED
        BY <3>2, <4>1, DropsTell
    <3>3. CASE outbox # <<>> /\ outbox[1] \in Messages /\ server'.members = Members(outbox[1])
      <4>1. Tells(calls[i].client, i)
        BY <1>4, <2>1 DEF Tells
      <4>2. Members(outbox[1])[calls[i].client] # None
        BY <1>2, <2>1, <2>4, <3>3, <4>1, StaysThere
      <4> QED
        BY <1>2, <2>1, <3>3, <4>2
    <3> QED
      BY <1>1, <3>1, <3>2, <3>3, ServerMoves
  <2> QED
    BY <2>2, <2>3, <2>4
<1>5. CASE ServerHandles /\ ServerAttaches /\ inbox'[p] = Present
  <2>1. PICK x \in Clients : x = Present.items[q].client /\ server.members[x] # None
          /\ server.members[x].data = i
    BY <1>5, PresentOf
  <2>2. i \in DOMAIN calls /\ calls[i].client = x
    BY <2>1 DEF Known, KnownServer, KnownItem
  <2>3. server'.members = server.members
    BY <1>5 DEF ServerAttaches, Typed
  <2> QED
    BY <1>2, <2>1, <2>2, <2>3
<1>6. CASE ServerHandles /\ ServerTakes /\ inbox'[p] = Told(outbox[1])
  <2>1. PICK m \in Messages : m = outbox[1] /\ 1 \in DOMAIN outbox /\ server'.members = Members(m)
    <3>1. outbox \in Seq(Requests) /\ outbox # <<>>
      BY <1>6 DEF Typed, ServerHandles
    <3>2. 1 \in DOMAIN outbox /\ outbox[1] \in Requests /\ Head(outbox) = outbox[1]
      BY <3>1, SMTT(60)
    <3>3. outbox[1] \in Messages
      BY <1>6, <3>2, SMTT(60) DEF ServerTakes, Requests
    <3>4. server'.members = Members(outbox[1])
      BY <1>6, <3>2 DEF ServerTakes, Typed
    <3> QED
      BY <3>2, <3>3, <3>4
  <2>2. q \in DOMAIN m.entries /\ m.entries[q].data = i /\ m.entries[q].action # "leave"
          /\ m.type = "presence"
    BY <1>6, <2>1, ToldOf DEF Messages
  <2>3. m.entries[q].client \in Clients /\ i \in DOMAIN calls
          /\ calls[i].client = m.entries[q].client
    BY <2>1, <2>2, NamesOnItsWay
  <2>4. m.entries[q].action = "enter"
    <3>1. m.entries \in Seq(Entries)
      BY DEF Messages
    <3> QED
      BY <2>2, <3>1, EntryFields
  <2>5. PICK n \in DOMAIN unacked : m = unacked[n]
    BY <2>1, <2>2, OutboxIsUnacked
  <2>6. ASSUME NEW r \in DOMAIN m.entries, q < r, m.entries[r].client = m.entries[q].client,
               m.entries[r].action = "leave"
        PROVE  FALSE
    <3>1. PICK d \in DOMAIN calls : d = m.entries[r].call /\ d # 0
            /\ calls[d].client = calls[i].client
      BY <2>1, <2>2, <2>3, <2>6, NamesOnItsWay
    <3>2. Follows(m.entries[q], m.entries[r])
      BY <2>2, <2>5, <2>6 DEF SentInOrder
    <3>3. i < d
      BY <2>2, <2>6, <3>1, <3>2 DEF Follows
    <3> QED
      BY <1>2, <2>3, <3>1, <3>3, NoLaterLeave
  <2>7. server.members \in MemberMaps /\ conn \in Nat
    BY DEF Typed
  <2>8. Members(m)[m.entries[q].client] # None
    BY <2>2, <2>3, <2>4, <2>6, <2>7, MembersOf
  <2> QED
    BY <1>2, <2>1, <2>3, <2>8
<1> QED
  BY <1>3, <1>4, <1>5, <1>6, ArrivalsOf

-----------------------------------------------------------------------------
(* Whoever was entered stays entered, or is about to be.                    *)

\* A channel that comes to be attached enters the own members again.
LEMMA BecomesAttached ==
  ASSUME Typed, Next, channel' = "attached", connection' = "connected"
  PROVE  \/ channel = "attached" /\ connection = "connected"
         \/ OnAttached /\ UNCHANGED <<mine, calls>>
<1>1. \A c \in Clients : Enter(c) \/ Leave(c) => UNCHANGED <<channel, connection>>
  BY DEF Enter, Leave, link
<1>2. CASE RunTask
  <2>1. connection' = connection
    BY <1>2 DEF RunTask, link
  <2>2. RunAttach => channel' = channel
    BY DEF RunAttach, RequestAttach
  <2>3. channel' = channel
    BY <1>2, <2>2 DEF RunTask, RunReenter, RunPending
  <2> QED
    BY <2>1, <2>3
<1>3. CASE ServerHandles
  BY <1>3 DEF ServerHandles, link
<1>4. CASE Receive
  <2>1. connection' = connection
    BY <1>4 DEF Receive, link
  <2>2. CASE ReceiveAttached
    BY <2>1, <2>2 DEF ReceiveAttached
  <2>3. ReceiveDetached => channel' # "attached"
    BY DEF ReceiveDetached, RequestAttach
  <2>4. ReceiveError => channel' # "attached"
    BY DEF ReceiveError
  <2>5. ReceivePresence \/ ReceiveAnswer => channel' = channel
    BY DEF ReceivePresence, ReceiveAnswer
  <2> QED
    BY <1>4, <2>1, <2>2, <2>3, <2>4, <2>5 DEF Receive
<1>5. \A type \in {"detached", "failed"} : ServerEnds(type) => UNCHANGED <<channel, connection>>
  BY DEF ServerEnds, link
<1>6. \A kind \in {"resumed", "lost"} : Lose(kind) => connection' # "connected"
  BY DEF Lose
<1>7. \A state \in {"suspended", "closed"} : GiveUp(state) => connection' # "connected"
  BY DEF GiveUp
<1>8. Connect => channel' # "attached"
  BY DEF Connect
<1>9. ConnectAgain => connection' # "connected"
  BY DEF ConnectAgain
<1>10. Attach \/ RetryAttach => channel' # "attached"
  BY DEF Attach, RetryAttach, RequestAttach
<1>11. Detach => channel' # "attached"
  BY DEF Detach
<1>12. CASE TimeOut
  <2>1. connection' = connection
    BY <1>12 DEF TimeOut, link
  <2>2. channel = "detaching" => OnAttached /\ UNCHANGED <<mine, calls>>
    BY <1>12 DEF TimeOut
  <2>3. channel = "attaching" => channel' = "suspended"
    BY <1>12 DEF TimeOut
  <2> QED
    BY <1>12, <2>2, <2>3 DEF TimeOut
<1> QED
  BY <1>1, <1>2, <1>3, <1>4, <1>5, <1>6, <1>7, <1>8, <1>9, <1>10, <1>11, <1>12 DEF Next

\* What was told by the service to an attached channel, that it still is.
LEMMA NoDropReceived ==
  ASSUME Typed, Receive, channel = "attached", channel' = "attached"
  PROVE  inbox # <<>> /\ inbox[1].type \notin Drops
<1>1. inbox # <<>> /\ Head(inbox) = inbox[1]
  BY DEF Typed, Receive
<1>2. ~ReceiveDetached /\ ~ReceiveError
  BY DEF ReceiveDetached, ReceiveError, RequestAttach
<1> QED
  BY <1>1, <1>2 DEF Receive, ReceiveAttached, ReceivePresence, ReceiveAnswer, Drops

\* What is on its way to the client is lost only with the connection.
LEMMA NotLost ==
  ASSUME Typed, Linked, Known, Next, resumable', inbox # <<>>, ~Receive
  PROVE  inbox' # <<>>
<1>1. CASE inbox' = inbox
  BY <1>1
<1>2. CASE \E new \in Seq(Arrivals) : inbox' = inbox \o new
  BY <1>2 DEF Typed
<1>3. CASE Forgotten
  BY <1>3 DEF Forgotten
<1>4. CASE ServerHandles \/ \E type \in {"detached", "failed"} : ServerEnds(type)
  BY <1>2, <1>4, ServerSays
<1>5. Still \/ Reconnects \/ (\E type \in {"attach", "detach"} : AsksFor(type))
        \/ (\E entries \in Seq(Entries) : Sends(entries)) => inbox' = inbox
  BY DEF Still, Reconnects, AsksFor, Sends
<1> QED
  BY <1>1, <1>3, <1>4, <1>5, StepMoves DEF Moves

\* A message that is acknowledged has made a member of whoever it entered, unless it was dropped.
LEMMA AckMakes ==
  ASSUME Typed, Linked, Answered, connection = "connected", inbox # <<>>, inbox[1].type = "ack",
         NEW c \in Clients, NEW q \in DOMAIN unacked[1].entries, MakesMember(1, q, c)
  PROVE  server.members[c] # None \/ DroppedAfter(1)
<1>1. /\ Len(inbox) \in Nat /\ Len(outbox) \in Nat /\ Len(unacked) \in Nat /\ 1 <= Len(inbox)
      /\ DOMAIN unacked = 1..Len(unacked)
  BY Lengths
<1>2. PICK pos : Matches(pos) /\ Taken(pos)
  BY SMTT(60) DEF Answered, Linked
<1>3. PICK L, O, U \in Nat : L = Len(inbox) /\ O = Len(outbox) /\ U = Len(unacked) /\ 1 <= L
  BY <1>1
<1>4. At(pos, unacked, U, inbox, L, outbox, O)
  BY <1>2, <1>3, MatchesAt
<1>5. inbox[1].type \in Answers
  BY DEF Answers
<1>6. 1 <= U /\ pos[1] = 1
  BY <1>3, <1>4, <1>5, AtAnswered
<1>7. 1 \in DOMAIN unacked /\ pos[1] <= Len(inbox)
  BY <1>1, <1>3, <1>6
<1> QED
  BY <1>2, <1>6, <1>7 DEF Taken

\* Only the task that runs leaves the queue, from its head.
LEMMA TasksStay ==
  ASSUME Typed, Next, NEW t \in DOMAIN tasks
  PROVE  \/ t \in DOMAIN tasks' /\ tasks'[t] = tasks[t]
         \/ RunTask
<1>1. tasks \in Seq(Tasks)
  BY DEF Typed
<1>2. ASSUME NEW x, tasks' = Append(tasks, x)
      PROVE  t \in DOMAIN tasks' /\ tasks'[t] = tasks[t]
  BY <1>1, <1>2
<1>3. ASSUME OnAttached PROVE t \in DOMAIN tasks' /\ tasks'[t] = tasks[t]
  <2>1. /\ tasks' \in Seq(Tasks) /\ Len(tasks') = Len(tasks) + Len(Reentries) + 1
        /\ tasks'[t] = tasks[t]
    BY <1>3, OnAttachedType
  <2>2. Reentries \in Seq(Tasks)
    BY ReentriesOf DEF Typed
  <2>3. PICK L, K \in Nat : L = Len(tasks) /\ K = Len(Reentries) /\ DOMAIN tasks = 1..L
          /\ DOMAIN tasks' = 1..(L + K + 1)
    BY <1>1, <2>1, <2>2
  <2>4. t \in 1..(L + K + 1)
    BY <2>3
  <2> QED
    BY <2>1, <2>3, <2>4
<1>4. ASSUME NEW c \in Clients,
             Enter(c) \/ Leave(c) PROVE t \in DOMAIN tasks' /\ tasks'[t] = tasks[t]
  <2>1. tasks' = tasks \/ tasks' = Append(tasks, [type |-> "attach"])
    BY <1>4 DEF Enter, Leave, EnterBy
  <2> QED
    BY <1>2, <2>1
<1>5. CASE Receive
  <2>1. ReceiveAttached => OnAttached \/ tasks' = tasks
    BY DEF ReceiveAttached
  <2>2. ReceiveDetached \/ ReceiveError \/ ReceivePresence \/ ReceiveAnswer => tasks' = tasks
    BY DEF ReceiveDetached, ReceiveError, ReceivePresence, ReceiveAnswer
  <2> QED
    BY <1>3, <1>5, <2>1, <2>2 DEF Receive
<1>6. TimeOut => OnAttached \/ tasks' = tasks
  BY DEF TimeOut
<1>7. Connect => tasks' = tasks \/ tasks' = Append(tasks, [type |-> "attach"])
  BY DEF Connect
<1>8. ServerHandles \/ (\E type \in {"detached", "failed"} : ServerEnds(type)) => tasks' = tasks
  BY SMTT(60) DEF ServerHandles, ServerEnds
<1>9. (\E kind \in {"resumed", "lost"} : Lose(kind))
        \/ (\E state \in {"suspended", "closed"} : GiveUp(state))
        => tasks' = tasks
  BY DEF Lose, GiveUp
<1>10. ConnectAgain \/ Attach \/ Detach \/ RetryAttach => tasks' = tasks
  BY DEF ConnectAgain, Attach, Detach, RetryAttach
<1> QED
  BY <1>2, <1>3, <1>4, <1>5, <1>6, <1>7, <1>8, <1>9, <1>10 DEF Next

\* The task that enters a member again sends it, where the channel is attached.
LEMMA TaskKeeps ==
  ASSUME Typed, Known, Next, channel = "attached", connection = "connected",
         NEW c \in Clients, NEW t \in DOMAIN tasks, tasks[t].type = "reenter",
         tasks[t].entry.client = c
  PROVE  Reentered(c)'
<1>1. tasks \in Seq(Tasks) /\ unacked \in Seq(Messages)
  BY DEF Typed
<1>2. CASE t \in DOMAIN tasks' /\ tasks'[t] = tasks[t]
  BY <1>2 DEF Reentered
<1>3. CASE RunTask
  <2>1. tasks # <<>> /\ Head(tasks) = tasks[1]
    BY <1>1, <1>3 DEF RunTask
  <2>2. CASE tasks' = Tail(tasks) /\ t # 1
    <3>1. t - 1 \in DOMAIN Tail(tasks) /\ Tail(tasks)[t - 1] = tasks[t]
      BY <1>1, <2>1, <2>2, TailTasks
    <3>2. \E s \in DOMAIN tasks' : tasks'[s].type = "reenter" /\ tasks'[s].entry.client = c
      BY <2>2, <3>1
    <3> QED
      BY <3>2 DEF Reentered
  <2>3. CASE t = 1
    <3>1. RunReenter /\ tasks[1] \in Tasks
      BY <1>1, <1>3, <2>1, <2>3 DEF RunTask
    <3>2. PICK e \in Entries : e = tasks[1].entry /\ e.call = 0 /\ e.client = c
      BY <2>3, <3>1 DEF Tasks, Known, KnownTasks
    <3>3. Send(<<e>>)
      BY <2>1, <3>1, <3>2 DEF RunReenter, EnterBy, Takes
    <3>4. <<e>> \in Seq(Entries) /\ DOMAIN <<e>> = {1} /\ <<e>>[1] = e
      BY CallsOfOne
    <3>5. PICK m \in Messages : m.entries = <<e>> /\ unacked' = Append(unacked, m)
      BY <3>3, <3>4, SendOf
    <3>6. Len(unacked) + 1 \in DOMAIN unacked' /\ unacked'[Len(unacked) + 1] = m
      BY <1>1, <3>5
    <3>7. 1 \in DOMAIN m.entries /\ m.entries[1].call = 0 /\ m.entries[1].client = c
      BY <3>2, <3>4, <3>5
    <3> QED
      BY <3>6, <3>7 DEF Reentered
  <2>4. tasks' = Tail(tasks)
    BY <1>3, <2>1 DEF RunTask, RunAttach, RunReenter, RunPending, EnterBy
  <2> QED
    BY <2>2, <2>3, <2>4
<1> QED
  BY <1>2, <1>3, TasksStay

\* A drop on its way is what becomes of an attached channel.
LEMMA DropKeeps ==
  ASSUME Typed, Linked, Known, Next, resumable', channel = "attached", channel' = "attached",
         NEW c \in Clients, DroppedAfter(0)
  PROVE  Reentered(c)'
<1>1. inbox \in Seq(Arrivals) /\ inbox # <<>> /\ DOMAIN inbox = 1..Len(inbox) /\ Len(inbox) \in Nat
  BY Lengths DEF DroppedAfter
<1>2. CASE Receive
  <2>1. inbox[1].type \notin Drops
    BY <1>2, NoDropReceived
  <2>2. DroppedAfter(0 + 1)
    <3>1. PICK r \in DOMAIN inbox : inbox[r].type \in Drops
      BY DEF DroppedAfter
    <3>2. r # 1
      BY <2>1, <3>1
    <3>3. r > 0 + 1
      BY <1>1, <3>2
    <3> QED
      BY <3>1, <3>3 DEF DroppedAfter
  <2>3. DroppedAfter(0)'
    BY <1>2, <2>2, DropsStay
  <2> QED
    BY <2>3 DEF Reentered
<1>3. CASE ~Receive
  <2>1. inbox' # <<>>
    BY <1>1, <1>3, NotLost
  <2>2. DroppedAfter(0)'
    BY <1>3, <2>1, DropsStay
  <2> QED
    BY <2>2 DEF Reentered
<1> QED
  BY <1>2, <1>3

\* What a message that is received leaves behind.
LEMMA ReceiptKeeps ==
  ASSUME Typed, Next, Receive, NEW c \in Clients, server.members[c] # None \/ DroppedAfter(1)
  PROVE  Reentered(c)'
<1>1. server' = server
  BY DEF Receive
<1>2. DroppedAfter(0 + 1) => DroppedAfter(0)'
  BY DropsStay
<1>3. DroppedAfter(1) => DroppedAfter(0)'
  BY <1>2
<1> QED
  BY <1>1, <1>3 DEF Reentered

\* A leave that is sent is of an earlier call than the last, which is not answered before it.
LEMMA NoLeaveSent ==
  ASSUME Typed, Known, Accounted, AnsweredInOrder, NEW i \in DOMAIN calls, IsLast(i),
         calls[i].at = "done",
         NEW n \in DOMAIN unacked, NEW q \in DOMAIN unacked[n].entries,
         unacked[n].entries[q].client = calls[i].client
  PROVE  unacked[n].entries[q].action # "leave"
<1> SUFFICES ASSUME unacked[n].entries[q].action = "leave" PROVE FALSE
  OBVIOUS
<1>1. PICK e : e = unacked[n].entries[q]
  OBVIOUS
<1>2. KnownEntry(e) /\ (e.call # 0 => e.data = e.call /\ calls[e.call].at = "sent")
        /\ e.client = calls[i].client
  BY <1>1, UnackedNames
<1>3. PICK d \in DOMAIN calls : d = e.call /\ calls[d].at = "sent"
        /\ calls[d].client = calls[i].client
  BY <1>1, <1>2 DEF KnownEntry
<1>4. i \in Nat /\ d \in Nat /\ ~(i < d)
  BY <1>3, NoLaterLeave
<1>5. d < i \/ d = i
  BY <1>4
<1> QED
  BY <1>3, <1>5 DEF AnsweredInOrder

\* A member stays one, where its last call is answered.
LEMMA MemberKeeps ==
  ASSUME Typed, Linked, Known, Accounted, Answered, AnsweredInOrder, Next, resumable',
         NEW i \in DOMAIN calls, IsLast(i), calls[i].at = "done",
         NEW c \in Clients, c = calls[i].client, server.members[c] # None
  PROVE  Reentered(c)'
<1>1. c \in Clients /\ c = calls[i].client /\ server.members[c] # None
  OBVIOUS
<1>2. CASE server'.members = server.members
  BY <1>1, <1>2 DEF Reentered
<1>3. CASE (ServerHandles /\ ServerDetaches)
        \/ \E type \in {"detached", "failed"} : ServerEnds(type)
  <2>1. 0 \in 0..Len(inbox)
    BY Lengths
  <2>2. DroppedAfter(0)'
    BY <1>3, <2>1, DropsTell
  <2> QED
    BY <2>2 DEF Reentered
<1>4. CASE outbox # <<>> /\ outbox[1] \in Messages /\ server'.members = Members(outbox[1])
  <2>1. PICK m \in Messages : m = outbox[1] /\ m.type = "presence" /\ 1 \in DOMAIN outbox
    <3>1. outbox \in Seq(Requests)
      BY DEF Typed
    <3> QED
      BY <1>4, <3>1 DEF Messages
  <2>2. PICK n \in DOMAIN unacked : m = unacked[n]
    BY <2>1, OutboxIsUnacked
  <2>3. \A q \in DOMAIN m.entries : m.entries[q].client # c \/ m.entries[q].action # "leave"
    BY <1>1, <2>2, NoLeaveSent
  <2>4. server.members \in MemberMaps /\ conn \in Nat
    BY DEF Typed
  <2>5. server'.members[c] # None
    BY <1>1, <1>4, <2>1, <2>3, <2>4, MembersOf
  <2> QED
    BY <1>1, <2>5 DEF Reentered
<1> QED
  BY <1>2, <1>3, <1>4, ServerMoves

\* What is answered is not answered yet.
LEMMA AnswerIsOfOne ==
  ASSUME Typed, Linked, Answered, connection = "connected", inbox # <<>>, inbox[1].type \in Answers
  PROVE  1 \in DOMAIN unacked
<1>1. /\ Len(inbox) \in Nat /\ Len(outbox) \in Nat /\ Len(unacked) \in Nat /\ 1 <= Len(inbox)
      /\ DOMAIN unacked = 1..Len(unacked)
  BY Lengths
<1>2. PICK pos : Matches(pos)
  BY SMTT(60) DEF Answered, Linked
<1>3. PICK L, O, U \in Nat : L = Len(inbox) /\ O = Len(outbox) /\ U = Len(unacked) /\ 1 <= L
  BY <1>1
<1>4. At(pos, unacked, U, inbox, L, outbox, O)
  BY <1>2, <1>3, MatchesAt
<1>5. 1 <= U
  BY <1>3, <1>4, AtAnswered
<1> QED
  BY <1>1, <1>3, <1>5

\* A message of re-entries is answered for good, or the answer says that the client is gone.
LEMMA AnswerKeeps ==
  ASSUME Typed, Linked, Known, Accounted, Answered, SentInOrder, AnsweredInOrder, Next,
         Receive, ReceiveAnswer, connection = "connected", NEW i \in DOMAIN calls, IsLast(i),
         NEW c \in Clients, c = calls[i].client, calls'[i].at = "done",
         1 \in DOMAIN unacked, NEW q \in DOMAIN unacked[1].entries, unacked[1].entries[q].client = c,
         \/ calls[i].at = "done" /\ unacked[1].entries[q].call = 0
         \/ inbox[1].type = "ack" /\ calls[i].action = "enter" /\ unacked[1].entries[q].call = i
  PROVE  Reentered(c)'
<1>1. calls \in Seq(Calls) /\ inbox \in Seq(Arrivals) /\ inbox # <<>> /\ Head(inbox) = inbox[1]
  BY DEF Typed, Receive
<1>2. PICK m : m = unacked[1] /\ m = Head(unacked) /\ m \in Messages
  <2>1. unacked \in Seq(Messages)
    BY DEF Typed
  <2> QED
    BY <2>1
<1>3. PICK e \in Entries : e = m.entries[q] /\ KnownEntry(e) /\ e.client = c
  <2>1. unacked[1].entries[q] \in Entries /\ KnownEntry(unacked[1].entries[q])
    BY UnackedNames
  <2> QED
    BY <1>2, <2>1
<1>4. e.action = "enter"
  <2>1. i # 0
    BY <1>1
  <2> QED
    BY <1>2, <1>3, <2>1 DEF KnownEntry
<1>5. inbox[1].type = "ack"
  <2> SUFFICES ASSUME inbox[1].type # "ack" PROVE FALSE
    OBVIOUS
  <2>1. calls[i].at = "done" /\ e.call = 0
    BY <1>2, <1>3
  <2>2. c \in Again(m.entries)
    BY <1>2, <1>3, <2>1 DEF Again
  <2>3. calls'[i].at = (IF i \in CallsOf(m.entries) THEN "failed"
                        ELSE IF calls[i].client \in Again(m.entries) /\ calls[i].at = "done"
                             THEN "gone"
                        ELSE calls[i].at)
    BY <1>1, <1>2, AnsweredOf
  <2> QED
    BY <2>1, <2>2, <2>3
<1>6. ASSUME NEW n \in DOMAIN unacked, NEW r \in DOMAIN unacked[n].entries,
             1 < n \/ (1 = n /\ q < r), unacked[n].entries[r].client = c, unacked[n].entries[r].action = "leave"
      PROVE  FALSE
  <2>1. CASE calls[i].at = "done"
    BY <1>6, <2>1, NoLeaveSent
  <2>2. CASE unacked[1].entries[q].call = i
    <3>1. PICK f : f = unacked[n].entries[r] /\ f.client = c /\ f.action = "leave" /\ KnownEntry(f)
      BY <1>6, UnackedNames
    <3>2. PICK d \in DOMAIN calls : d = f.call /\ calls[d].client = c /\ d # 0
      BY <3>1 DEF KnownEntry
    <3>3. Follows(e, f)
      BY <1>2, <1>3, <1>6, <3>1 DEF SentInOrder
    <3>4. e.data = i
      <4>1. i # 0
        BY <1>1
      <4> QED
        BY <1>2, <1>3, <2>2, <4>1 DEF KnownEntry
    <3>5. i < d
      BY <1>3, <3>1, <3>2, <3>3, <3>4 DEF Follows
    <3> QED
      BY <3>2, <3>5, NoLaterLeave, SMTT(60)
  <2> QED
    BY <2>1, <2>2
<1>7. MakesMember(1, q, c)
  BY <1>2, <1>3, <1>4, <1>6 DEF MakesMember
<1>8. server.members[c] # None \/ DroppedAfter(1)
  BY <1>1, <1>5, <1>7, AckMakes
<1> QED
  BY <1>8, ReceiptKeeps

\* A member that is entered again stays on its way until it is answered.
LEMMA ReentryKeeps ==
  ASSUME Typed, Linked, Known, Accounted, Answered, SentInOrder, AnsweredInOrder, Next, Linked',
         Typed',
         connection = "connected", connection' = "connected", NEW i \in DOMAIN calls, IsLast(i),
         NEW c \in Clients, c = calls[i].client, calls[i].at = "done", calls'[i].at = "done",
         NEW n \in DOMAIN unacked, NEW q \in DOMAIN unacked[n].entries,
         unacked[n].entries[q].call = 0, unacked[n].entries[q].client = c
  PROVE  Reentered(c)'
<1>1. unacked \in Seq(Messages) /\ n \in Nat /\ DOMAIN unacked = 1..Len(unacked)
        /\ Len(unacked) \in Nat
  BY SMTT(60) DEF Typed
<1>2. ASSUME NEW k \in DOMAIN unacked', unacked'[k] = unacked[n] PROVE Reentered(c)'
  BY <1>2 DEF Reentered
<1>3. CASE unacked' = unacked
  BY <1>2, <1>3
<1>4. ASSUME NEW m \in Messages, unacked' = Append(unacked, m) PROVE Reentered(c)'
  <2>1. n \in DOMAIN unacked' /\ unacked'[n] = unacked[n]
    BY <1>1, <1>4
  <2> QED
    BY <1>2, <2>1
<1>5. CASE Receive /\ ReceiveAnswer
  <2>1. unacked' = Tail(unacked)
    BY <1>5 DEF ReceiveAnswer
  <2>2. CASE n = 1
    BY <1>5, <2>2, AnswerKeeps
  <2>3. CASE n # 1
    <3>1. PICK U \in Nat : U = Len(unacked) /\ DOMAIN unacked = 1..U
      BY <1>1
    <3>2. n - 1 \in 1..(U - 1) /\ (n - 1) + 1 = n /\ unacked # <<>>
      BY <1>1, <2>3, <3>1
    <3>3. n - 1 \in DOMAIN unacked' /\ unacked'[n - 1] = unacked[n]
      BY <1>1, <2>1, <3>1, <3>2
    <3> QED
      BY <1>2, <3>3
  <2> QED
    BY <2>2, <2>3
<1>6. CASE Receive /\ ~ReceiveAnswer
  <2>1. unacked' = unacked
    BY <1>6 DEF Receive, ReceiveAttached, ReceiveDetached, ReceiveError, ReceivePresence, sending
  <2> QED
    BY <1>3, <2>1
<1>7. Forgotten => FALSE
  BY DEF Forgotten, Linked
<1>8. Still \/ Reconnects \/ ServerHandles \/ (\E type \in {"attach", "detach"} : AsksFor(type))
         \/ (\E type \in {"detached", "failed"} : ServerEnds(type)) => unacked' = unacked
  BY DEF Still, Reconnects, ServerHandles, AsksFor, ServerEnds, sending
<1>9. ASSUME NEW entries \in Seq(Entries), Sends(entries) PROVE Reentered(c)'
  <2>1. PICK m \in Messages : unacked' = Append(unacked, m)
    BY <1>9, SendOf DEF Sends
  <2> QED
    BY <1>4, <2>1
<1> QED
  BY <1>3, <1>5, <1>6, <1>7, <1>8, <1>9, StepMoves DEF Moves

\* Whoever was entered and shown, and has not been called since, is entered again, is a member, or
\* the channel is about to be dropped.
LEMMA KeptStep ==
  ASSUME Typed, Linked, Known, Accounted, Answered, SentInOrder, AnsweredInOrder, ShownIsOwn,
         ToldIsThere, Kept,
         Typed', Linked', Evolution, Next
  PROVE  Kept'
<1> SUFFICES ASSUME channel' = "attached", connection' = "connected",
                    NEW i \in DOMAIN calls', IsLast(i)', calls'[i].shown, calls'[i].at = "done",
                    NEW c, c = calls'[i].client
             PROVE  Reentered(c)'
  BY DEF Kept
<1>1. i \in DOMAIN calls /\ c = calls[i].client
  BY ShownNow
<1>2. IsLast(i) /\ c \in Clients
  BY <1>1, StillLast, ClientOf
<1>3. CASE OnAttached /\ UNCHANGED <<mine, calls>>
  <2>1. mine.items[c] # None
    BY <1>1, <1>2, <1>3 DEF ShownIsOwn
  <2>2. Reentries \in Seq(Tasks)
    BY ReentriesOf DEF Typed
  <2>3. PICK t \in DOMAIN Reentries : Reentries[t].entry.client = c /\ Reentries[t].type = "reenter"
    BY <1>2, <2>1, ReentriesOf, ZenonT(60) DEF Typed
  <2>4. tasks' \in Seq(Tasks) /\ Len(tasks') = Len(tasks) + Len(Reentries) + 1
          /\ tasks'[Len(tasks) + t] = Reentries[t]
    BY <1>3, OnAttachedType
  <2>5. Len(tasks) + t \in DOMAIN tasks'
    <3>1. PICK L, K \in Nat : L = Len(tasks) /\ K = Len(Reentries)
            /\ DOMAIN tasks' = 1..(L + K + 1) /\ t \in 1..K
      <4>1. Len(tasks) \in Nat
        BY DEF Typed
      <4>2. Len(Reentries) \in Nat /\ t \in 1..Len(Reentries)
        BY <2>2, <2>3
      <4>3. DOMAIN tasks' = 1..(Len(tasks) + Len(Reentries) + 1)
        BY <2>4
      <4> QED
        BY <4>1, <4>2, <4>3
    <3>2. L + t \in 1..(L + K + 1)
      BY <3>1
    <3> QED
      BY <3>1, <3>2
  <2> QED
    BY <2>3, <2>4, <2>5 DEF Reentered
<1>4. CASE channel = "attached" /\ connection = "connected"
  <2>1. resumable'
    BY DEF Linked
  <2>2. CASE calls[i].shown /\ calls[i].at = "done"
    <3>1. Reentered(c)
      BY <1>1, <1>2, <1>4, <2>2 DEF Kept
    <3>2. ASSUME NEW t \in DOMAIN tasks, tasks[t].type = "reenter",
                 tasks[t].entry.client = c PROVE Reentered(c)'
      BY <1>2, <1>4, <3>2, TaskKeeps
    <3>3. ASSUME NEW n \in DOMAIN unacked, NEW q \in DOMAIN unacked[n].entries,
                 unacked[n].entries[q].call = 0, unacked[n].entries[q].client = c
          PROVE  Reentered(c)'
      BY <1>1, <1>2, <1>4, <2>2, <3>3, ReentryKeeps
    <3>4. ASSUME server.members[c] # None PROVE Reentered(c)'
      BY <1>1, <1>2, <2>1, <2>2, <3>4, MemberKeeps
    <3>5. ASSUME DroppedAfter(0) PROVE Reentered(c)'
      BY <1>2, <1>4, <2>1, <3>5, DropKeeps
    <3> QED
      BY <3>1, <3>2, <3>3, <3>4, <3>5 DEF Reentered
  <2>3. ASSUME Receive, ReceivePresence, 1 \in DOMAIN inbox, inbox[1].type = "presence",
               NEW k \in DOMAIN inbox[1].items,
               inbox[1].items[k].item.data = i, inbox[1].items[k].item.action # "leave"
        PROVE  Reentered(c)'
    <3>1. server.members[c] # None \/ DroppedAfter(1)
      BY <1>1, <1>2, <2>3 DEF ToldIsThere
    <3> QED
      BY <1>2, <2>3, <3>1, ReceiptKeeps
  <2>4. CASE Acknowledged(i) /\ calls[i].shown
    <3>1. /\ Receive /\ ReceiveAnswer /\ inbox[1].type = "ack"
             /\ i \in CallsOf(Head(unacked).entries)
          /\ calls[i].action = "enter"
      BY <1>1, <2>4 DEF Acknowledged, Known, KnownShown, Entered
    <3>2. unacked \in Seq(Messages)
      BY DEF Typed
    <3>3. 1 \in DOMAIN unacked /\ Head(unacked) = unacked[1]
      <4>1. inbox # <<>> /\ inbox[1].type \in Answers
        BY <3>1 DEF Receive, Answers
      <4>2. 1 \in DOMAIN unacked
        BY <1>4, <4>1, AnswerIsOfOne
      <4> QED
        BY <3>2, <4>2
    <3>4. PICK q \in DOMAIN unacked[1].entries : unacked[1].entries[q].call = i
      BY <3>1, <3>3 DEF CallsOf
    <3>5. unacked[1].entries[q].client = c
      <4>1. i # 0
        BY <1>1, SMTT(60) DEF Typed
      <4>2. KnownEntry(unacked[1].entries[q])
        BY <3>3, UnackedNames
      <4> QED
        BY <1>1, <3>4, <4>1, <4>2 DEF KnownEntry
    <3> QED
      BY <1>1, <1>2, <1>4, <3>1, <3>3, <3>4, <3>5, AnswerKeeps
  <2>5. calls[i].at = "done" \/ Acknowledged(i)
    BY <1>1 DEF Evolution
  <2> QED
    BY <2>2, <2>3, <2>4, <2>5, ShownNow
<1> QED
  BY <1>3, <1>4, BecomesAttached

-----------------------------------------------------------------------------
(* The invariant, and what follows from it.                                 *)

\* At first nothing is entered.
LEMMA InitInv ==
  ASSUME Init
  PROVE  Inv
<1>1. /\ connection = "opening" /\ resumable = FALSE /\ conn = 0 /\ msgSerial = 0
         /\ channel = "initialized"
      /\ mine = Map!EmptyMap /\ pending = <<>> /\ tasks = <<>> /\ calls = <<>> /\ unacked = <<>>
      /\ outbox = <<>> /\ inbox = <<>> /\ server = NoMembers("new") /\ count = 0
  BY DEF Init
<1>2. \A c \in Clients : mine.items[c] = None /\ server.members[c] = None
  BY <1>1, NoMembersType DEF Map!EmptyMap
<1>3. Typed
  <2>1. mine \in OwnMaps /\ server \in [state : {"new", "attached", "detached"}, members : MemberMaps]
    BY <1>1, EmptyMapType, NoMembersType
  <2>2. /\ pending \in Seq(Entries) /\ tasks \in Seq(Tasks) /\ calls \in Seq(Calls)
        /\ unacked \in Seq(Messages) /\ outbox \in Seq(Requests) /\ inbox \in Seq(Arrivals)
    BY <1>1
  <2> QED
    BY <1>1, <2>1, <2>2 DEF Typed
<1>4. Linked
  BY <1>1 DEF Linked
<1>5. Known
  BY <1>1, <1>2 DEF Known, KnownPending, KnownTasks, KnownUnacked, KnownMine, KnownServer,
     KnownInbox, KnownShown
<1>6. Accounted /\ QueueIsLast /\ QueueIsFlushed /\ AnsweredInOrder
  BY <1>1 DEF Accounted, QueueIsLast, QueueIsFlushed, AnsweredInOrder
<1>7. PendingInOrder /\ SentInOrder
  BY <1>1 DEF PendingInOrder, SentInOrder
<1>8. Answered
  BY <1>1 DEF Answered
<1>9. ToldIsPast /\ ToldInOrder
  BY <1>1 DEF ToldIsPast, ToldInOrder
<1>10. NoLeaveTold /\ NoLeaveToTell /\ ShownIsOwn /\ ToldIsThere /\ Kept
  BY <1>1 DEF NoLeaveTold, NoLeaveToTell, ShownIsOwn, ToldIsThere, Kept
<1> QED
  BY <1>3, <1>4, <1>5, <1>6, <1>7, <1>8, <1>9, <1>10 DEF Inv

\* Every step keeps it, where the application acts between the steps of the client.
LEMMA NextInv ==
  ASSUME "eager" \notin Disruptions, Inv, Next
  PROVE  Inv'
<1>1. /\ Typed /\ Linked /\ Known /\ Accounted /\ QueueIsLast /\ QueueIsFlushed
      /\ PendingInOrder /\ SentInOrder /\ AnsweredInOrder /\ Answered
      /\ ToldIsPast /\ ToldInOrder /\ NoLeaveTold /\ NoLeaveToTell /\ ShownIsOwn /\ ToldIsThere
         /\ Kept
  BY DEF Inv
<1>2. Typed'
  BY <1>1, TypedStep
<1>3. Linked' /\ Evolution
  BY <1>1, LinkedStep, CallsEvolve
<1>4. Accounted'
  BY <1>1, AccountedStep
<1>5. Known'
  BY <1>1, KnownStep
<1>6. QueueIsLast'
  BY <1>1, <1>4, QueueIsLastStep
<1>7. QueueIsFlushed' /\ PendingInOrder'
  BY <1>1, QueueIsFlushedStep, PendingInOrderStep
<1>8. SentInOrder'
  BY <1>1, SentInOrderStep
<1>9. AnsweredInOrder'
  BY <1>1, <1>4, AnsweredInOrderStep
<1>10. Answered'
  BY <1>1, AnsweredStep
<1>11. ToldIsPast' /\ ToldInOrder'
  BY <1>1, <1>2, <1>3, ToldIsPastStep, ToldInOrderStep
<1>12. NoLeaveTold'
  BY <1>1, <1>2, <1>3, NoLeaveToldStep
<1>13. NoLeaveToTell'
  BY <1>1, <1>2, <1>3, NoLeaveToTellStep
<1>14. ShownIsOwn' /\ ToldIsThere'
  BY <1>1, <1>2, <1>3, ShownIsOwnStep, ToldIsThereStep
<1>15. Kept'
  BY <1>1, <1>2, <1>3, KeptStep
<1> QED
  BY <1>2, <1>3, <1>4, <1>5, <1>6, <1>7, <1>8, <1>9, <1>10, <1>11, <1>12, <1>13, <1>14, <1>15 DEF
     Inv

\* So does a step of something else.
LEMMA SameInv ==
  ASSUME Inv, UNCHANGED vars
  PROVE  Inv'
<1>1. UNCHANGED <<connection, resumable, conn, msgSerial, channel, mine, pending, tasks, calls, unacked, outbox,
                  server, inbox, count>>
  BY DEF vars, link, sending, service
<1>2. Typed' /\ Linked'
  BY <1>1, SMTT(60) DEF Inv, Typed, Linked
<1>3. Known'
  BY <1>1, SMTT(60) DEF Inv, Known, KnownPending, KnownTasks, KnownUnacked, KnownMine, KnownServer,
     KnownInbox, KnownShown, KnownEntry, KnownItem, Entered
<1>4. Accounted' /\ QueueIsLast' /\ QueueIsFlushed' /\ AnsweredInOrder'
  BY <1>1 DEF Inv, Accounted, QueueIsLast, QueueIsFlushed, AnsweredInOrder
<1>5. PendingInOrder' /\ SentInOrder'
  BY <1>1 DEF Inv, PendingInOrder, SentInOrder
<1>6. Answered'
  <2> SUFFICES ASSUME resumable PROVE Answered'
    BY <1>1 DEF Answered
  <2>1. PICK pos \in [DOMAIN unacked -> 1..(Len(inbox) + Len(outbox))] : Matches(pos) /\ Taken(pos)
    BY DEF Inv, Answered
  <2>2. Matches(pos)'
    BY <1>1, <2>1 DEF Matches
  <2>3. Taken(pos)'
    BY <1>1, <2>1 DEF Taken, MakesMember, DroppedAfter
  <2>4. pos \in [DOMAIN unacked' -> 1..(Len(inbox') + Len(outbox'))]
    BY <1>1, <2>1
  <2> QED
    BY <2>2, <2>3, <2>4 DEF Answered
<1>7. ToldIsPast' /\ ToldInOrder'
  BY <1>1 DEF Inv, ToldIsPast, ToldInOrder, Tells
<1>8. NoLeaveTold' /\ NoLeaveToTell' /\ ShownIsOwn'
  BY <1>1 DEF Inv, NoLeaveTold, NoLeaveToTell, ShownIsOwn, IsLast
<1>9. ToldIsThere' /\ Kept'
  BY <1>1 DEF Inv, ToldIsThere, Kept, Reentered, IsLast, DroppedAfter
<1> QED
  BY <1>2, <1>3, <1>4, <1>5, <1>6, <1>7, <1>8, <1>9 DEF Inv

\* The invariant of the members a client enters itself, for any clients, calls and disruptions:
\* without an application that acts between an ATTACHED and the tasks it creates.
THEOREM OwnPresenceInvariant ==
  "eager" \notin Disruptions => (Spec => []Inv)
<1> SUFFICES ASSUME "eager" \notin Disruptions PROVE Spec => []Inv
  OBVIOUS
<1>1. Init => Inv
  BY InitInv
<1>2. Inv /\ [Next]_vars => Inv'
  BY NextInv, SameInv
<1> QED
  BY <1>1, <1>2, PTL DEF Spec

\* A call is queued exactly as long as its entry is pending, and sent as long as a message that
\* carries it is not answered.
THEOREM OwnPresenceTypes ==
  "eager" \notin Disruptions => (Spec => []TypeOK)
<1> SUFFICES ASSUME "eager" \notin Disruptions PROVE Spec => []TypeOK
  OBVIOUS
<1>1. ASSUME Inv PROVE TypeOK
  <2>1. calls \in Seq(Calls) /\ Accounted
    BY <1>1 DEF Inv, Typed
  <2>2. \A i \in DOMAIN calls : calls[i].at \in Ats
    <3> SUFFICES ASSUME NEW i \in DOMAIN calls PROVE calls[i].at \in Ats
      OBVIOUS
    <3>1. calls[i] \in Calls
      BY <2>1
    <3> QED
      BY <3>1 DEF Calls
  <2>3. /\ connection \in {"connected", "opening", "down", "suspended", "closed"}
        /\ channel \in {"initialized", "attaching", "attached", "detaching", "detached", "suspended", "failed"}
    BY <1>1 DEF Inv, Typed
  <2> QED
    BY <2>1, <2>2, <2>3 DEF TypeOK, Accounted
<1>2. Spec => []Inv
  BY OwnPresenceInvariant
<1>3. Inv => TypeOK
  BY <1>1
<1> QED
  BY <1>2, <1>3, PTL

\* Whoever was entered and told to be, and has not left since, is a member whenever the channel is
\* attached and quiet: what on_attached enters again arrives (presence.py: _ensure_my_members_present).
THEOREM EnteredStaysEntered ==
  "eager" \notin Disruptions => (Spec => []StaysEntered)
<1> SUFFICES ASSUME "eager" \notin Disruptions PROVE Spec => []StaysEntered
  OBVIOUS
<1>1. ASSUME Inv PROVE StaysEntered
  <2> SUFFICES ASSUME Quiet, NEW i \in DOMAIN calls,
                      IsLast(i), calls[i].at = "done", calls[i].action = "enter", calls[i].shown
               PROVE  server.members[calls[i].client] # None
    BY DEF StaysEntered
  <2>1. Reentered(calls[i].client)
    BY <1>1 DEF Inv, Kept, Quiet
  <2>2. tasks = <<>> /\ unacked = <<>> /\ inbox = <<>>
    BY DEF Quiet
  <2> QED
    BY <2>1, <2>2 DEF Reentered, DroppedAfter
<1>2. Spec => []Inv
  BY OwnPresenceInvariant
<1>3. Inv => StaysEntered
  BY <1>1
<1> QED
  BY <1>2, <1>3, PTL

=============================================================================
