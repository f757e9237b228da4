------------------------ MODULE Subscriptions_proofs ------------------------
(***************************************************************************)
(* Proofs about the listeners of an EventEmitter, for any listeners, names *)
(* and numbers of registrations and messages, as long as the application   *)
(* does not register a listener that is registered already.                *)
(***************************************************************************)
EXTENDS Subscriptions, Functions, SequenceTheorems, TLAPS

-----------------------------------------------------------------------------
(* What is left of a sequence that loses its first elements.               *)

\* Dropping the first k elements of a sequence leaves the others in their order.
LEMMA DropType ==
  ASSUME NEW S, NEW s \in Seq(S), NEW k \in 0..Len(s)
  PROVE  /\ SubSeq(s, k + 1, Len(s)) \in Seq(S)
         /\ Len(SubSeq(s, k + 1, Len(s))) = Len(s) - k
         /\ \A i \in 1..(Len(s) - k) : SubSeq(s, k + 1, Len(s))[i] = s[i + k]
  BY SMT

-----------------------------------------------------------------------------
\* The places of an event's listeners.
Items(e) == DOMAIN regs[e]

\* The types of the registry and of the emission.
Typed ==
  /\ made \in 0..MaxRegistrations
  /\ regs \in [Events -> Seq(Registration)]
  /\ wrapped \in [Listeners -> 0..made]
  /\ subscribed \subseteq Registration
  /\ batch \in Seq(Names)
  /\ phase \in {"named", "all", "over"}
  /\ handlers \in Seq(Registration)
  /\ calling \in BOOLEAN
  /\ number \in 0..MaxEmitted
  /\ present \subseteq Ids /\ gone \subseteq Ids /\ called \subseteq Ids

\* The types of the channel, of those that wait for it, and of the tasks.
Surroundings ==
  /\ kind \in Kinds
  /\ channel \in {"detached", "attaching", "attached", "suspended"}
  /\ awaiting \subseteq Listeners \X Events
  /\ woken \subseteq Listeners \X Events
  /\ tasks \in Seq(Ids \X (1..MaxEmitted))
  /\ heard \in [Ids -> 0..MaxEmitted]

\* The messages of the batch have numbers.
Counted == ~Idle => number \in 1..MaxEmitted /\ number + Len(batch) <= MaxEmitted + 1

\* The entry of a registered listener names its registration, and of what it is.
Owned ==
  \A e \in Events : \A i \in Items(e) :
    /\ regs[e][i].event = e
    /\ regs[e][i].id <= made
    /\ wrapped[regs[e][i].listener] = regs[e][i].id

\* No two listeners share an entry.
Separate == \A l, k \in Listeners : wrapped[l] = wrapped[k] /\ wrapped[l] # 0 => l = k

\* A registration is in one place only.
Once ==
  \A e, d \in Events : \A i \in Items(e), j \in Items(d) :
    regs[e][i].id = regs[d][j].id => e = d /\ i = j

\* What is registered is what off() says should be.
AsPromised == subscribed = Registered

\* Who is gone comes back neither to the registry nor to those about to be called.
StaysGone ==
  /\ present \subseteq 1..made /\ gone \subseteq 1..made
  /\ \A e \in Events : \A i \in Items(e) : regs[e][i].id \notin gone
  /\ \A i \in DOMAIN handlers : handlers[i].id \notin gone
  /\ \A id \in called : id \notin gone

\* Whoever the message is for has been called, is about to be, or waits for the second emitter.
Awaited ==
  ~Idle =>
    /\ phase = "over" => handlers = <<>>
    /\ \A e \in Events : \A i \in Items(e) :
         regs[e][i].id \in present =>
           \/ regs[e][i].id \in called
           \/ \E k \in DOMAIN handlers : handlers[k].id = regs[e][i].id
           \/ phase = "named" /\ e = All

\* The registry is in order.
Registry == Owned /\ Separate /\ Once /\ AsPromised

\* What the steps of the emitter keep.
Keeping == Typed /\ Counted /\ Registry /\ StaysGone /\ Awaited

-----------------------------------------------------------------------------
(* The registry.                                                           *)

\* What is registered, place by place.
LEMMA RegisteredPlaces ==
  ASSUME regs \in [Events -> Seq(Registration)]
  PROVE  /\ \A r : r \in Registered <=> \E e \in Events : \E i \in Items(e) : r = regs[e][i]
         /\ \A e \in Events : Items(e) = 1..Len(regs[e]) /\ Len(regs[e]) \in Nat
         /\ \A e \in Events : \A i \in Items(e) : regs[e][i] \in Registration
<1>1. \A e \in Events : regs[e] \in Seq(Registration)
  OBVIOUS
<1>2. \A e \in Events : Items(e) = 1..Len(regs[e]) /\ Len(regs[e]) \in Nat
  BY <1>1, LenProperties DEF Items
<1>3. \A e \in Events : \A i \in Items(e) : regs[e][i] \in Registration
  BY <1>1, <1>2, ElementOfSeq
<1>4. \A r : r \in Registered <=> \E e \in Events : \E i \in Items(e) : r = regs[e][i]
  BY DEF Registered, ToSet, Items
<1> QED
  BY <1>2, <1>3, <1>4

\* A sequence without its element at i.
LEMMA RemoveAtProperties ==
  ASSUME NEW S, NEW s \in Seq(S), NEW i \in 1..Len(s)
  PROVE  /\ RemoveAt(s, i) \in Seq(S)
         /\ Len(s) \in Nat
         /\ Len(RemoveAt(s, i)) = Len(s) - 1
         /\ \A j \in 1..(Len(s) - 1) : RemoveAt(s, i)[j] = IF j < i THEN s[j] ELSE s[j + 1]
<1>1. Len(s) \in Nat /\ i \in Nat
  BY LenProperties
<1> DEFINE a == SubSeq(s, 1, i - 1)
           b == SubSeq(s, i + 1, Len(s))
<1>2. a \in Seq(S) /\ Len(a) = i - 1 /\ \A j \in 1..(i - 1) : a[j] = s[j]
  BY <1>1, SMT
<1>3. b \in Seq(S) /\ Len(b) = Len(s) - i /\ \A j \in 1..(Len(s) - i) : b[j] = s[j + i]
  BY <1>1, DropType
<1> HIDE DEF a, b
<1>4. /\ a \o b \in Seq(S) /\ Len(a \o b) = Len(a) + Len(b)
      /\ \A j \in 1..(Len(a) + Len(b)) : (a \o b)[j] = IF j <= Len(a) THEN a[j] ELSE b[j - Len(a)]
  BY <1>2, <1>3, ConcatProperties
<1>5. Len(a) + Len(b) = Len(s) - 1
  BY <1>1, <1>2, <1>3
<1>6. ASSUME NEW j \in 1..(Len(s) - 1)
      PROVE  (a \o b)[j] = IF j < i THEN s[j] ELSE s[j + 1]
  <2>1. CASE j < i
    BY <1>1, <1>2, <1>4, <1>5, <2>1
  <2>2. CASE ~(j < i)
    <3>1. j - Len(a) = j - i + 1 /\ j - i + 1 \in 1..(Len(s) - i) /\ ~(j <= Len(a))
          /\ (j - i + 1) + i = j + 1
      BY <1>1, <1>2, <2>2
    <3> QED
      BY <1>3, <1>4, <1>5, <2>2, <3>1
  <2> QED
    BY <2>1, <2>2
<1> QED
  BY <1>1, <1>4, <1>5, <1>6 DEF RemoveAt, a, b

\* A listener of an event is registered at most once.
LEMMA OnePlace ==
  ASSUME Typed, Registry, NEW e \in Events, NEW d \in Events,
         NEW i \in Items(e), NEW j \in Items(d)
  PROVE  /\ regs[e][i] \in Registration /\ regs[e][i].listener \in Listeners
         /\ regs[e][i].id \in 1..made
         /\ regs[e][i].listener = regs[d][j].listener => e = d /\ i = j
         /\ regs[e][i].id = wrapped[regs[d][j].listener] => e = d /\ i = j
<1>1. regs[e][i] \in Registration /\ regs[d][j] \in Registration
  BY RegisteredPlaces DEF Typed
<1>2. wrapped[regs[e][i].listener] = regs[e][i].id /\ wrapped[regs[d][j].listener] = regs[d][j].id
      /\ regs[e][i].id <= made
  BY DEF Registry, Owned
<1>3. /\ regs[e][i].listener \in Listeners /\ regs[e][i].id \in Ids
      /\ regs[d][j].listener \in Listeners /\ regs[d][j].id \in Ids
  BY <1>1 DEF Registration
<1>4. regs[e][i].id \in 1..made
  <2>1. made \in Nat
    BY DEF Typed
  <2> QED
    BY <1>2, <1>3, <2>1 DEF Ids
<1>5. regs[e][i].id = regs[d][j].id => e = d /\ i = j
  BY DEF Registry, Once
<1> QED
  BY <1>1, <1>2, <1>3, <1>4, <1>5

\* on() keeps the registry in order when the listener is not registered yet.
LEMMA OnKeeps ==
  ASSUME Keeping, "twice" \notin Habits, NEW l \in Listeners, NEW e \in Events,
         On(l, e), UNCHANGED emission
  PROVE  Keeping'
<1> USE ConstantsAssumption
<1> DEFINE n == made + 1
           r == [id |-> n, listener |-> l, event |-> e]
           s == regs[e]
           t == Append(s, r)
<1>1. made \in Nat /\ n \in Ids /\ n \in 1..n /\ n \in Nat /\ 1..made \subseteq 1..n
      /\ 0..made \subseteq 0..n /\ n \in 0..n /\ n \in 0..MaxRegistrations
  BY DEF Keeping, Typed, On, Ids, ConstantsAssumption
<1>2. made' = n /\ regs' = [regs EXCEPT ![e] = t] /\ subscribed' = subscribed \union {r}
      /\ wrapped' = [wrapped EXCEPT ![l] = n]
  BY DEF On
<1>3. UNCHANGED <<batch, phase, handlers, calling, number, present, gone, called>>
  BY DEF emission
<1>4. r \in Registration /\ r.id = n /\ r.event = e /\ r.listener = l
  BY <1>1 DEF Registration
<1>5. s \in Seq(Registration) /\ Items(e) = 1..Len(s) /\ Len(s) \in Nat
  BY RegisteredPlaces DEF Keeping, Typed
<1>6. t \in Seq(Registration) /\ Len(t) = Len(s) + 1 /\ t[Len(s) + 1] = r
      /\ \A i \in 1..Len(s) : t[i] = s[i]
  BY <1>4, <1>5, AppendProperties
<1>7. DOMAIN t = 1..Len(s) \union {Len(s) + 1}
  BY <1>5, <1>6, LenProperties
<1> HIDE DEF n, r, s, t
<1>8. regs' \in [Events -> Seq(Registration)] /\ regs'[e] = t
      /\ \A d \in Events : d # e => regs'[d] = regs[d]
  BY <1>2, <1>6 DEF Keeping, Typed
<1>9. /\ Items(e)' = Items(e) \union {Len(s) + 1} /\ Len(s) + 1 \notin Items(e)
      /\ regs'[e][Len(s) + 1] = r
      /\ \A i \in Items(e) : regs'[e][i] = regs[e][i]
      /\ \A d \in Events : d # e => Items(d)' = Items(d) /\ regs'[d] = regs[d]
  BY <1>5, <1>6, <1>7, <1>8 DEF Items, s
<1>10. \A d \in Events : \A i \in Items(d) :
         /\ regs[d][i] \in Registration /\ regs[d][i].listener \in Listeners
         /\ regs[d][i].id \in 1..made
         /\ regs[d][i].listener # l
  BY OnePlace, RegisteredPlaces DEF Keeping, On, Typed
<1>11. wrapped' \in [Listeners -> 0..n] /\ wrapped'[l] = n
       /\ \A k \in Listeners : k # l => wrapped'[k] = wrapped[k] /\ wrapped[k] # n
  <2>1. wrapped \in [Listeners -> 0..made] /\ \A k \in Listeners : wrapped[k] \in 0..made
    BY DEF Keeping, Typed
  <2>2. n \notin 0..made
    BY <1>1 DEF n
  <2> QED
    BY <1>1, <1>2, <2>1, <2>2
<1>12. Typed'
  <2>1. subscribed' \subseteq Registration
    BY <1>2, <1>4 DEF Keeping, Typed
  <2> QED
    BY <1>1, <1>2, <1>3, <1>8, <1>11, <2>1 DEF Keeping, Typed
\* The places after on(): the old ones with what they held, and the new one.
<1>13. ASSUME NEW d \in Events, NEW i \in Items(d)'
       PROVE  \/ i \in Items(d) /\ regs'[d][i] = regs[d][i]
              \/ d = e /\ i = Len(s) + 1 /\ regs'[d][i] = r
  BY <1>9
<1>14. Owned'
  <2> SUFFICES ASSUME NEW d \in Events, NEW i \in Items(d)'
               PROVE  /\ regs'[d][i].event = d /\ regs'[d][i].id <= made'
                      /\ wrapped'[regs'[d][i].listener] = regs'[d][i].id
    BY DEF Owned, Items
  <2>1. CASE i \in Items(d) /\ regs'[d][i] = regs[d][i]
    <3>1. regs[d][i].event = d /\ wrapped[regs[d][i].listener] = regs[d][i].id
      BY <2>1 DEF Keeping, Registry, Owned
    <3>2. regs[d][i].id <= made'
      BY <1>1, <1>2, <1>10, <2>1 DEF n
    <3> QED
      BY <1>10, <1>11, <2>1, <3>1, <3>2
  <2>2. CASE d = e /\ i = Len(s) + 1 /\ regs'[d][i] = r
    BY <1>1, <1>2, <1>4, <1>11, <2>2
  <2> QED
    BY <1>13, <2>1, <2>2
<1>15. Separate'
  BY <1>1, <1>11 DEF Keeping, Registry, Separate
<1>16. Once'
  <2> SUFFICES ASSUME NEW d \in Events, NEW c \in Events, NEW i \in Items(d)', NEW j \in Items(c)',
                      regs'[d][i].id = regs'[c][j].id
               PROVE  d = c /\ i = j
    BY DEF Once, Items
  <2>1. \A a \in Events : \A k \in Items(a) : regs[a][k].id # n
    BY <1>1, <1>10 DEF n
  <2> QED
    BY <1>4, <1>13, <2>1 DEF Keeping, Registry, Once
<1>17. AsPromised'
  <2>1. \A q : q \in Registered <=> \E d \in Events : \E i \in Items(d) : q = regs[d][i]
    BY RegisteredPlaces DEF Keeping, Typed
  <2>2. \A q : q \in Registered' <=> \E d \in Events : \E i \in Items(d)' : q = regs'[d][i]
    BY <1>8 DEF Registered, ToSet, Items
  <2>3. ASSUME NEW q, q \in Registered' PROVE q \in Registered \union {r}
    BY <1>13, <2>1, <2>2, <2>3
  <2>4. ASSUME NEW q, q \in Registered \union {r} PROVE q \in Registered'
    BY <1>9, <2>1, <2>2, <2>4
  <2>5. subscribed' = Registered \union {r}
    BY <1>2 DEF Keeping, Registry, AsPromised
  <2> QED
    BY <2>3, <2>4, <2>5 DEF AsPromised
<1>18. StaysGone'
  <2>1. gone' \subseteq 1..made /\ present' \subseteq 1..made /\ made' = n /\ n \notin 1..made
    BY <1>1, <1>2, <1>3 DEF Keeping, StaysGone, n
  <2>2. ASSUME NEW d \in Events, NEW i \in Items(d)' PROVE regs'[d][i].id \notin gone'
    BY <1>3, <1>4, <1>13, <2>1 DEF Keeping, StaysGone
  <2> QED
    BY <1>1, <1>3, <2>1, <2>2 DEF Keeping, StaysGone, Items
<1>19. Awaited'
  <2> SUFFICES ASSUME ~Idle'
               PROVE  /\ phase' = "over" => handlers' = <<>>
                      /\ \A d \in Events : \A i \in Items(d)' :
                           regs'[d][i].id \in present' =>
                             \/ regs'[d][i].id \in called'
                             \/ \E k \in DOMAIN handlers' : handlers'[k].id = regs'[d][i].id
                             \/ phase' = "named" /\ d = All
    BY DEF Awaited, Items
  <2>1. ~Idle /\ (phase' = "over" => handlers' = <<>>)
    BY <1>3 DEF Keeping, Awaited, Idle
  <2>2. n \notin present'
    BY <1>1, <1>3 DEF Keeping, StaysGone, n
  <2>3. ASSUME NEW d \in Events, NEW i \in Items(d)', regs'[d][i].id \in present'
        PROVE  \/ regs'[d][i].id \in called'
               \/ \E k \in DOMAIN handlers' : handlers'[k].id = regs'[d][i].id
               \/ phase' = "named" /\ d = All
    <3>1. i \in Items(d) /\ regs'[d][i] = regs[d][i]
      BY <1>4, <1>13, <2>2, <2>3
    <3> QED
      BY <1>3, <2>1, <2>3, <3>1 DEF Keeping, Awaited
  <2> QED
    BY <2>1, <2>3
<1>20. Counted'
  BY <1>3 DEF Keeping, Counted, Idle
<1> QED
  BY <1>12, <1>14, <1>15, <1>16, <1>17, <1>18, <1>19, <1>20 DEF Keeping, Registry

\* off(event, listener) keeps the registry in order, and removes what it should.
LEMMA OffKeeps ==
  ASSUME Keeping, NEW l \in Listeners, NEW e \in Events,
         Off(l, e), UNCHANGED emission
  PROVE  Keeping'
<1>1. UNCHANGED <<batch, phase, handlers, calling, number, present, gone, called, made>>
  BY DEF emission, Off
<1>2. regs \in [Events -> Seq(Registration)] /\ made \in Nat /\ wrapped \in [Listeners -> 0..made]
  BY DEF Keeping, Typed
<1>3. subscribed' = {r \in subscribed : <<r.listener, r.event>> # <<l, e>>}
  BY DEF Off
<1>4. CASE \A i \in Items(e) : regs[e][i].id # wrapped[l]
  <2>1. UNCHANGED <<regs, wrapped>>
    BY <1>4 DEF Off, Items
  <2>2. \A r : r \in Registered <=> \E d \in Events : \E i \in Items(d) : r = regs[d][i]
    BY <1>2, RegisteredPlaces
  <2>3. ASSUME NEW r \in Registered PROVE <<r.listener, r.event>> # <<l, e>>
    BY <1>4, <2>2 DEF Keeping, Registry, Owned
  <2>4. subscribed' = subscribed
    BY <1>3, <2>3 DEF Keeping, Registry, AsPromised
  <2> QED
    BY <1>1, <2>1, <2>4, SMTT(60) DEF Keeping, Typed, Counted, Registry, Owned, Separate, Once, AsPromised,
       StaysGone, Awaited, Items, Registered, Idle
<1>5. ASSUME NEW i \in Items(e), regs[e][i].id = wrapped[l],
             regs' = [regs EXCEPT ![e] = RemoveAt(@, i)], wrapped' = [wrapped EXCEPT ![l] = 0]
      PROVE  Keeping'
  <2> DEFINE s == regs[e]
             t == RemoveAt(s, i)
  <2>1. s \in Seq(Registration) /\ Items(e) = 1..Len(s) /\ Len(s) \in Nat
        /\ \A d \in Events : Items(d) = 1..Len(regs[d]) /\ Len(regs[d]) \in Nat
    BY <1>2, RegisteredPlaces
  <2>2. t \in Seq(Registration) /\ Len(t) = Len(s) - 1
        /\ \A j \in 1..(Len(s) - 1) : t[j] = IF j < i THEN s[j] ELSE s[j + 1]
    BY <2>1, RemoveAtProperties
  <2>3. DOMAIN t = 1..(Len(s) - 1)
    BY <2>1, <2>2, LenProperties
  <2> HIDE DEF s, t
  <2>4. regs' \in [Events -> Seq(Registration)] /\ regs'[e] = t
        /\ \A d \in Events : d # e => regs'[d] = regs[d]
    BY <1>2, <1>5, <2>2 DEF s, t
\* The places after off() hold what other places held before, each one another.
  <2> DEFINE Before(d, j) == IF d = e /\ ~(j < i) THEN j + 1 ELSE j
  <2>5. ASSUME NEW d \in Events, NEW j \in Items(d)'
        PROVE  /\ Before(d, j) \in Items(d) /\ regs'[d][j] = regs[d][Before(d, j)]
               /\ d = e => Before(d, j) # i
               /\ j \in Nat
    <3>1. CASE d = e
      <4>1. j \in 1..(Len(s) - 1) /\ regs'[d][j] = t[j]
        BY <2>3, <2>4, <3>1 DEF Items
      <4>2. Before(d, j) \in 1..Len(s) /\ Before(d, j) # i /\ j \in Nat
        BY <2>1, <3>1, <4>1
      <4>3. t[j] = s[Before(d, j)]
        BY <2>2, <3>1, <4>1
      <4> QED
        BY <2>1, <3>1, <4>1, <4>2, <4>3 DEF s
    <3>2. CASE d # e
      BY <2>1, <2>4, <3>2 DEF Items
    <3> QED
      BY <3>1, <3>2
  <2>6. ASSUME NEW d \in Events, NEW k \in Items(d), ~(d = e /\ k = i)
        PROVE  \E j \in Items(d)' : regs'[d][j] = regs[d][k]
    <3>1. CASE d = e
      <4>1. k \in 1..Len(s) /\ i \in 1..Len(s) /\ k # i
        BY <2>1, <2>6, <3>1
      <4>2. CASE k < i
        <5>1. k \in 1..(Len(s) - 1)
          BY <2>1, <4>1, <4>2
        <5>2. t[k] = s[k]
          BY <2>2, <4>2, <5>1
        <5> QED
          BY <2>3, <2>4, <3>1, <5>1, <5>2 DEF Items, s
      <4>3. CASE ~(k < i)
        <5>1. k - 1 \in 1..(Len(s) - 1) /\ ~(k - 1 < i) /\ (k - 1) + 1 = k
          BY <2>1, <4>1, <4>3
        <5>2. t[k - 1] = s[k]
          BY <2>2, <5>1
        <5> QED
          BY <2>3, <2>4, <3>1, <5>1, <5>2 DEF Items, s
      <4> QED
        BY <4>2, <4>3
    <3>2. CASE d # e
      BY <2>4, <3>2 DEF Items
    <3> QED
      BY <3>1, <3>2
  <2>7. ASSUME NEW d \in Events, NEW j \in Items(d)', NEW c \in Events, NEW k \in Items(c)',
               d = c, Before(d, j) = Before(c, k)
        PROVE  j = k
    <3>1. j \in Nat /\ k \in Nat
      BY <2>5
    <3>2. i \in Nat
      BY <2>1
    <3> QED
      BY <2>7, <3>1, <3>2
  <2> HIDE DEF Before
  <2>8. ASSUME NEW d \in Events, NEW k \in Items(d)
        PROVE  /\ regs[d][k] \in Registration /\ regs[d][k].listener \in Listeners
               /\ regs[d][k].event = d /\ regs[d][k].id \in 1..made
               /\ regs[d][k].id = wrapped[regs[d][k].listener]
               /\ ~(d = e /\ k = i) => regs[d][k].listener # l
    <3>1. regs[d][k].id = wrapped[l] => d = e /\ k = i
      BY <1>5 DEF Keeping, Registry, Once
    <3> QED
      BY <3>1, OnePlace DEF Keeping, Registry, Owned
  <2>9. regs[e][i].listener = l
    <3>1. wrapped[regs[e][i].listener] = wrapped[l] /\ wrapped[l] # 0
      BY <1>2, <1>5, <2>8
    <3> QED
      BY <2>8, <3>1 DEF Keeping, Registry, Separate
  <2>10. wrapped' \in [Listeners -> 0..made] /\ wrapped'[l] = 0
         /\ \A k \in Listeners : k # l => wrapped'[k] = wrapped[k]
    BY <1>2, <1>5
  <2>11. Typed'
    <3>1. subscribed' \subseteq Registration
      BY <1>3 DEF Keeping, Typed
    <3> QED
      BY <1>1, <2>4, <2>10, <3>1 DEF Keeping, Typed
  <2>12. Owned'
    <3> SUFFICES ASSUME NEW d \in Events, NEW j \in Items(d)'
                 PROVE  /\ regs'[d][j].event = d /\ regs'[d][j].id <= made'
                        /\ wrapped'[regs'[d][j].listener] = regs'[d][j].id
      BY DEF Owned, Items
    <3>1. PICK k \in Items(d) : regs'[d][j] = regs[d][k] /\ ~(d = e /\ k = i)
      BY <2>5
    <3> QED
      BY <1>1, <1>2, <2>8, <2>10, <3>1
  <2>13. Separate'
    BY <2>10 DEF Keeping, Registry, Separate
  <2>14. Once'
    <3> SUFFICES ASSUME NEW d \in Events, NEW c \in Events,
                        NEW j \in Items(d)', NEW k \in Items(c)', regs'[d][j].id = regs'[c][k].id
                 PROVE  d = c /\ j = k
      BY DEF Once, Items
    <3>1. d = c /\ Before(d, j) = Before(c, k)
      BY <2>5 DEF Keeping, Registry, Once
    <3> QED
      BY <2>7, <3>1
  <2>15. AsPromised'
    <3>1. \A q : q \in Registered <=> \E d \in Events : \E k \in Items(d) : q = regs[d][k]
      BY <1>2, RegisteredPlaces
    <3>2. \A q : q \in Registered' <=> \E d \in Events : \E j \in Items(d)' : q = regs'[d][j]
      BY DEF Registered, ToSet, Items
    <3>3. ASSUME NEW q, q \in Registered'
          PROVE  q \in Registered /\ <<q.listener, q.event>> # <<l, e>>
      <4>1. PICK d \in Events : \E k \in Items(d) : q = regs[d][k] /\ ~(d = e /\ k = i)
        BY <2>5, <3>2, <3>3
      <4> QED
        BY <2>8, <3>1, <4>1
    <3>4. ASSUME NEW q, q \in Registered, <<q.listener, q.event>> # <<l, e>> PROVE q \in Registered'
      <4>1. PICK d \in Events : \E k \in Items(d) : q = regs[d][k]
        BY <3>1, <3>4
      <4>2. PICK k \in Items(d) : q = regs[d][k]
        BY <4>1
      <4>3. ~(d = e /\ k = i)
        BY <2>8, <2>9, <3>4, <4>2
      <4> QED
        BY <2>6, <3>2, <4>2, <4>3
    <3> QED
      BY <1>3, <3>3, <3>4 DEF Keeping, Registry, AsPromised
  <2>16. StaysGone'
    <3>1. ASSUME NEW d \in Events, NEW j \in Items(d)' PROVE regs'[d][j].id \notin gone'
      BY <1>1, <2>5 DEF Keeping, StaysGone
    <3> QED
      BY <1>1, <3>1 DEF Keeping, StaysGone, Items
  <2>17. Awaited'
    <3> SUFFICES ASSUME ~Idle'
                 PROVE  /\ phase' = "over" => handlers' = <<>>
                        /\ \A d \in Events : \A j \in Items(d)' :
                             regs'[d][j].id \in present' =>
                               \/ regs'[d][j].id \in called'
                               \/ \E k \in DOMAIN handlers' : handlers'[k].id = regs'[d][j].id
                               \/ phase' = "named" /\ d = All
      BY DEF Awaited, Items
    <3>1. ~Idle /\ (phase' = "over" => handlers' = <<>>)
      BY <1>1 DEF Keeping, Awaited, Idle
    <3>2. ASSUME NEW d \in Events, NEW j \in Items(d)', regs'[d][j].id \in present'
          PROVE  \/ regs'[d][j].id \in called'
                 \/ \E k \in DOMAIN handlers' : handlers'[k].id = regs'[d][j].id
                 \/ phase' = "named" /\ d = All
      <4>1. PICK k \in Items(d) : regs'[d][j] = regs[d][k]
        BY <2>5
      <4> QED
        BY <1>1, <3>1, <3>2, <4>1 DEF Keeping, Awaited
    <3> QED
      BY <3>1, <3>2
  <2>18. Counted'
    BY <1>1 DEF Keeping, Counted, Idle
  <2> QED
    BY <2>11, <2>12, <2>13, <2>14, <2>15, <2>16, <2>17, <2>18 DEF Keeping, Registry
<1> QED
  BY <1>4, <1>5 DEF Off, Items

\* off() empties the registry.
LEMMA OffAllKeeps ==
  ASSUME Keeping, OffAll, UNCHANGED emission
  PROVE  Keeping'
<1>1. UNCHANGED <<batch, phase, handlers, calling, number, present, gone, called, made, wrapped>>
  BY DEF emission, OffAll
<1>2. regs' \in [Events -> Seq(Registration)] /\ \A e \in Events : regs'[e] = <<>> /\ Items(e)' = {}
  <2>1. <<>> \in Seq(Registration) /\ DOMAIN <<>> = {}
    BY EmptySeq
  <2> QED
    BY <2>1 DEF OffAll, Items
<1>3. subscribed' = {} /\ Registered' = {}
  BY <1>2 DEF OffAll, Registered, ToSet, Items
<1>4. Typed'
  BY <1>1, <1>2, <1>3 DEF Keeping, Typed
<1>5. Registry'
  BY <1>1, <1>2, <1>3 DEF Keeping, Registry, Owned, Separate, Once, AsPromised, Items
<1>6. StaysGone' /\ Counted'
  BY <1>1, <1>2 DEF Keeping, StaysGone, Counted, Idle, Items
<1>7. Awaited'
  BY <1>1, <1>2 DEF Keeping, Awaited, Idle, Items
<1> QED
  BY <1>4, <1>5, <1>6, <1>7 DEF Keeping

-----------------------------------------------------------------------------
(* The emission.                                                           *)

\* While the registry stays as it is, it stays in order.
LEMMA RegistryStands ==
  ASSUME Registry, UNCHANGED registry
  PROVE  Registry'
BY DEF registry, Registry, Owned, Separate, Once, AsPromised, Registered, Items

\* An emission that begins copies the listeners of the name.
LEMMA BeginKeeps ==
  ASSUME Keeping, NEW n \in Names, Begin(n), UNCHANGED <<registry, calling>>,
         batch' \in Seq(Names), batch' # <<>>, number + Len(batch') <= MaxEmitted
  PROVE  Keeping'
<1> USE ConstantsAssumption
<1>1. UNCHANGED <<made, regs, wrapped, subscribed>>
  BY DEF registry
<1>2. /\ phase' = "named" /\ handlers' = regs[n] /\ number' = number + 1 /\ called' = {}
      /\ present' = IdsOf({r \in subscribed : r.event \in {n, All}})
      /\ gone' = (1..made) \ IdsOf(subscribed)
  BY DEF Begin
<1>3. n \in Events /\ All \in Events
  BY DEF Events
<1>4. /\ \A r : r \in subscribed <=> \E e \in Events : \E i \in Items(e) : r = regs[e][i]
      /\ \A e \in Events : \A i \in Items(e) : regs[e][i] \in Registration
  BY RegisteredPlaces DEF Keeping, Typed, Registry, AsPromised
<1>5. \A e \in Events : \A i \in Items(e) : regs[e][i].id \in 1..made /\ regs[e][i].event = e
  BY OnePlace DEF Keeping, Registry, Owned
<1>6. \A r \in subscribed : r.id \in 1..made
  BY <1>4, <1>5
<1>7. made \in 0..MaxRegistrations /\ 1..made \subseteq Ids
  BY DEF Keeping, Typed, Ids, ConstantsAssumption
<1>8. present' \subseteq 1..made /\ gone' \subseteq 1..made
  BY <1>2, <1>6 DEF IdsOf
<1>9. number \in Nat /\ Len(batch') \in Nat /\ Len(batch') # 0 /\ MaxEmitted \in Nat
  BY LenProperties, EmptySeq DEF Keeping, Typed, ConstantsAssumption
<1>10. number' \in 1..MaxEmitted /\ number' + Len(batch') <= MaxEmitted + 1
  BY <1>2, <1>9
<1>11. Typed'
  <2>1. handlers' \in Seq(Registration)
    BY <1>2, <1>3 DEF Keeping, Typed
  <2> QED
    BY <1>1, <1>2, <1>7, <1>8, <1>10, <2>1, SMTT(60) DEF Keeping, Typed
<1>12. Counted'
  BY <1>10 DEF Counted
<1>13. Registry'
  BY RegistryStands DEF Keeping
<1>14. \A e \in Events : \A i \in Items(e) : regs[e][i].id \notin gone'
  BY <1>2, <1>4 DEF IdsOf
<1>15. StaysGone'
  <2>1. \A i \in DOMAIN handlers' : handlers'[i].id \notin gone'
    BY <1>2, <1>3, <1>14 DEF Items
  <2> QED
    BY <1>1, <1>2, <1>8, <1>14, <2>1 DEF StaysGone, Items
<1>16. ASSUME NEW e \in Events, NEW i \in Items(e), regs[e][i].id \in present'
       PROVE  \/ \E k \in DOMAIN handlers' : handlers'[k].id = regs[e][i].id
              \/ e = All
  <2>1. PICK r \in subscribed : r.event \in {n, All} /\ r.id = regs[e][i].id
    BY <1>2, <1>16 DEF IdsOf
  <2>2. PICK d \in Events : \E j \in Items(d) : r = regs[d][j]
    BY <1>4, <2>1
  <2>3. e = d /\ e \in {n, All}
    BY <1>5, <2>1, <2>2 DEF Keeping, Registry, Once
  <2> QED
    BY <1>2, <2>3 DEF Items
<1>17. Awaited'
  BY <1>1, <1>2, <1>16 DEF Awaited, Items
<1> QED
  BY <1>11, <1>12, <1>13, <1>15, <1>17 DEF Keeping

\* A protocol message arrives.
LEMMA ReceiveKeeps ==
  ASSUME Keeping, NEW n \in Names, NEW ns \in {<<n>>} \union {<<n, o>> : o \in Names},
         Receive(ns)
  PROVE  Keeping'
<1>1. ns \in Seq(Names) /\ ns # <<>> /\ Head(ns) \in Names
  <2>1. CASE ns = <<n>>
    BY <2>1
  <2>2. CASE ns \in {<<n, o>> : o \in Names}
    <3>1. PICK o \in Names : ns = <<n, o>>
      BY <2>2
    <3> QED
      BY <3>1
  <2> QED
    BY <2>1, <2>2
<1>2. Begin(Head(ns)) /\ batch' = ns /\ UNCHANGED <<registry, calling>>
      /\ number + Len(ns) <= MaxEmitted
  BY DEF Receive
<1> QED
  BY <1>1, <1>2, BeginKeeps

\* A listener is called.
LEMMA CallListenerKeeps ==
  ASSUME Keeping, CallListener
  PROVE  Keeping' /\ Head(handlers) \in Registration
<1> DEFINE r == Head(handlers)
<1>1. /\ UNCHANGED <<made, regs, wrapped, subscribed, batch, phase, number, present, gone>>
      /\ handlers # <<>> /\ handlers' = Tail(handlers) /\ called' = called \union {r.id}
      /\ ~Idle /\ calling' \in BOOLEAN
  BY DEF CallListener, registry
<1>2. handlers \in Seq(Registration)
  BY DEF Keeping, Typed
<1>3. /\ r \in Registration /\ r = handlers[1] /\ handlers' \in Seq(Registration)
      /\ Len(handlers) \in Nat /\ Len(handlers) # 0 /\ Len(handlers') = Len(handlers) - 1
      /\ \A i \in 1..Len(handlers') : handlers'[i] = handlers[i + 1]
      /\ DOMAIN handlers = 1..Len(handlers) /\ DOMAIN handlers' = 1..Len(handlers')
  BY <1>1, <1>2, HeadTailProperties, LenProperties, EmptySeq
<1> HIDE DEF r
<1>4. r.id \in Ids /\ r.id \notin gone
  BY <1>3 DEF Registration, Keeping, StaysGone
<1>5. \A i \in DOMAIN handlers' : i + 1 \in DOMAIN handlers /\ handlers'[i] = handlers[i + 1]
  BY <1>3
<1>6. ASSUME NEW k \in DOMAIN handlers
      PROVE  handlers[k] = r \/ \E j \in DOMAIN handlers' : handlers'[j] = handlers[k]
  <2>1. CASE k = 1
    BY <1>3, <2>1
  <2>2. CASE k # 1
    <3>1. k - 1 \in 1..Len(handlers') /\ (k - 1) + 1 = k
      BY <1>3, <2>2
    <3> QED
      BY <1>3, <3>1
  <2> QED
    BY <2>1, <2>2
<1>7. Typed' /\ Counted'
  BY <1>1, <1>3, <1>4 DEF Keeping, Typed, Counted, Idle
<1>8. Registry'
  BY <1>1, RegistryStands DEF Keeping, registry
<1>9. StaysGone'
  BY <1>1, <1>4, <1>5 DEF Keeping, StaysGone, Items
<1>10. Awaited'
  <2>1. phase' # "over"
    BY <1>1 DEF Keeping, Awaited
  <2>2. ASSUME NEW e \in Events, NEW i \in Items(e), regs[e][i].id \in present
        PROVE  \/ regs[e][i].id \in called'
               \/ \E k \in DOMAIN handlers' : handlers'[k].id = regs[e][i].id
               \/ phase' = "named" /\ e = All
    BY <1>1, <1>6, <2>2 DEF Keeping, Awaited
  <2> QED
    BY <1>1, <2>1, <2>2 DEF Awaited, Items
<1> QED
  BY <1>3, <1>7, <1>8, <1>9, <1>10 DEF Keeping, r

\* The second emitter copies its listeners.
LEMMA TurnToAllKeeps ==
  ASSUME Keeping, TurnToAll
  PROVE  Keeping'
<1>1. /\ UNCHANGED <<made, regs, wrapped, subscribed, batch, number, present, gone, called>>
      /\ handlers = <<>> /\ phase' = "all" /\ handlers' = regs[All] /\ calling' = FALSE /\ ~Idle
  BY DEF TurnToAll, registry
<1>2. All \in Events
  BY DEF Events
<1>3. Typed' /\ Counted'
  BY <1>1, <1>2 DEF Keeping, Typed, Counted, Idle
<1>4. Registry'
  BY <1>1, RegistryStands DEF Keeping, registry
<1>5. StaysGone'
  BY <1>1, <1>2 DEF Keeping, StaysGone, Items
<1>6. DOMAIN handlers = {}
  BY <1>1
<1>7. Awaited'
  BY <1>1, <1>2, <1>6 DEF Keeping, Awaited, Items
<1> QED
  BY <1>3, <1>4, <1>5, <1>7 DEF Keeping

\* Nothing is left to call.
LEMMA EmissionEndsKeeps ==
  ASSUME Keeping, EmissionEnds
  PROVE  Keeping'
<1>1. /\ UNCHANGED <<made, regs, wrapped, subscribed, batch, handlers, number, present, gone,
                     called>>
      /\ handlers = <<>> /\ phase = "all" /\ phase' = "over" /\ calling' = FALSE /\ ~Idle
  BY DEF EmissionEnds, registry
<1>2. Typed' /\ Counted'
  BY <1>1 DEF Keeping, Typed, Counted, Idle
<1>3. Registry'
  BY <1>1, RegistryStands DEF Keeping, registry
<1>4. StaysGone' /\ Awaited'
  BY <1>1 DEF Keeping, StaysGone, Awaited, Items
<1> QED
  BY <1>2, <1>3, <1>4 DEF Keeping

\* The next message of the batch, or the end of it.
LEMMA EmitNextKeeps ==
  ASSUME Keeping, EmitNext
  PROVE  Keeping'
<1>1. /\ batch # <<>> /\ batch \in Seq(Names) /\ batch' = Tail(batch)
      /\ UNCHANGED <<registry, calling>>
  BY DEF EmitNext, Idle, Keeping, Typed
<1>2. batch' \in Seq(Names) /\ Len(batch') = Len(batch) - 1 /\ Len(batch) \in Nat
  BY <1>1, HeadTailProperties, LenProperties
<1>3. number \in 1..MaxEmitted /\ number + Len(batch) <= MaxEmitted + 1
  BY <1>1 DEF Keeping, Counted, Idle
<1>4. CASE batch' = <<>>
  <2>1. UNCHANGED <<made, regs, wrapped, subscribed, phase, handlers, number, calling>>
        /\ present' = {} /\ gone' = {} /\ called' = {} /\ Idle'
    BY <1>4 DEF EmitNext, registry, Idle
  <2>2. Typed' /\ Counted'
    BY <1>2, <2>1 DEF Keeping, Typed, Counted
  <2>3. Registry'
    BY <1>1, RegistryStands DEF Keeping
  <2>4. StaysGone' /\ Awaited'
    BY <2>1 DEF StaysGone, Awaited
  <2> QED
    BY <2>2, <2>3, <2>4 DEF Keeping
<1>5. CASE batch' # <<>>
  <2>1. Head(batch') \in Names
    BY <1>2, <1>5
  <2>2. Begin(Head(batch')) /\ number + Len(batch') <= MaxEmitted
    BY <1>2, <1>3, <1>5, ConstantsAssumption DEF EmitNext, ConstantsAssumption
  <2> QED
    BY <1>1, <1>2, <1>5, <2>1, <2>2, BeginKeeps
<1> QED
  BY <1>4, <1>5

-----------------------------------------------------------------------------
(* The steps.                                                              *)

\* The inductive invariant.
Live == Keeping /\ Surroundings

\* The types in two halves.
LEMMA TypeHalves == Typed /\ Surroundings => TypeOK
BY DEF Typed, Surroundings, TypeOK

\* Nothing is registered at the beginning.
LEMMA InitKeeps == Init => Live
<1> SUFFICES ASSUME Init PROVE Live
  OBVIOUS
<1> USE ConstantsAssumption
<1>1. \A S : <<>> \in Seq(S)
  BY EmptySeq
<1>2. /\ made = 0 /\ regs = [e \in Events |-> <<>>] /\ wrapped = [l \in Listeners |-> 0]
      /\ batch = <<>> /\ phase = "over" /\ handlers = <<>> /\ calling = FALSE /\ tasks = <<>>
      /\ number = 0 /\ subscribed = {} /\ present = {} /\ gone = {} /\ called = {}
      /\ heard = [id \in Ids |-> 0] /\ kind \in Kinds /\ channel = "detached"
      /\ awaiting = {} /\ woken = {}
  BY DEF Init
<1>3. \A e \in Events : Items(e) = {}
  BY <1>2 DEF Items
<1>4. regs \in [Events -> Seq(Registration)] /\ handlers \in Seq(Registration)
      /\ batch \in Seq(Names) /\ tasks \in Seq(Ids \X (1..MaxEmitted))
  BY <1>1, <1>2
<1>5. Typed
  <2>1. 0 \in 0..MaxRegistrations /\ 0 \in 0..MaxEmitted /\ wrapped \in [Listeners -> 0..0]
    BY <1>2 DEF ConstantsAssumption
  <2> QED
    BY <1>2, <1>4, <2>1 DEF Typed
<1>6. Surroundings
  BY <1>2, <1>4 DEF Surroundings, ConstantsAssumption
<1>7. Counted /\ Awaited
  BY <1>2 DEF Counted, Awaited, Idle
<1>8. StaysGone
  BY <1>2, <1>3 DEF StaysGone
<1>9. Registered = {}
  BY <1>2 DEF Registered, ToSet
<1>10. Registry
  BY <1>2, <1>3, <1>9 DEF Registry, Owned, Separate, Once, AsPromised
<1> QED
  BY <1>5, <1>6, <1>7, <1>8, <1>10 DEF Live, Keeping

\* What attach() makes of the channel.
LEMMA AttachType ==
  ASSUME channel \in {"detached", "attaching", "attached", "suspended"}, Attach
  PROVE  channel' \in {"detached", "attaching", "attached", "suspended"}
BY DEF Attach

\* The application subscribes and unsubscribes.
LEMMA ApplicationKeeps ==
  ASSUME Live, "twice" \notin Habits, NEW l \in Listeners, NEW e \in Events,
         \/ SubscribeMessages(l, e) \/ SubscribePresence(l, e) \/ SubscribeAnnotations(l, e)
         \/ SubscribeResumes(l, e) \/ Unsubscribe(l, e)
  PROVE  Live'
<1>1. Keeping'
  <2>1. UNCHANGED emission
    BY DEF SubscribeMessages, SubscribePresence, SubscribeAnnotations, SubscribeResumes,
       Unsubscribe
  <2>2. On(l, e) \/ Off(l, e) \/ UNCHANGED registry
    BY DEF SubscribeMessages, SubscribePresence, SubscribeAnnotations, SubscribeResumes,
       Unsubscribe
  <2>3. CASE UNCHANGED registry
    <3>1. UNCHANGED <<made, regs, wrapped, subscribed, batch, phase, handlers, calling, number,
                      present, gone, called>>
      BY <2>1, <2>3 DEF registry, emission
    <3>2. Registry'
      BY <2>3, RegistryStands DEF Live, Keeping
    <3> QED
      BY <3>1, <3>2 DEF Live, Keeping, Typed, Counted, StaysGone, Awaited, Items, Idle
  <2> QED
    BY <2>1, <2>2, <2>3, OnKeeps, OffKeeps DEF Live
<1>2. Surroundings
  BY DEF Live
<1>3. Surroundings'
  <2>1. channel' \in {"detached", "attaching", "attached", "suspended"}
    BY <1>2, AttachType DEF Surroundings, SubscribeMessages, SubscribePresence,
       SubscribeAnnotations, SubscribeResumes, Unsubscribe
  <2>2. UNCHANGED <<kind, tasks, heard>>
    BY DEF SubscribeMessages, SubscribePresence, SubscribeAnnotations, SubscribeResumes,
       Unsubscribe
  <2>3. awaiting' \subseteq awaiting \union {<<l, e>>} /\ woken' \subseteq woken
    BY DEF SubscribeMessages, SubscribePresence, SubscribeAnnotations, SubscribeResumes,
       Unsubscribe
  <2> QED
    BY <1>2, <2>1, <2>2, <2>3 DEF Surroundings
<1> QED
  BY <1>1, <1>3 DEF Live, Keeping

\* The channel changes its state, or a task runs: the emitter is not concerned.
LEMMA OthersKeep ==
  ASSUME Live,
         \/ \E new \in {"detached", "attached", "suspended"} : ChannelChanges(new)
         \/ RunTask
         \/ UNCHANGED vars
  PROVE  Live'
<1>1. UNCHANGED <<made, regs, wrapped, subscribed, batch, phase, handlers, calling, number,
                  present, gone, called>>
  BY DEF ChannelChanges, RunTask, vars, registry, emission
<1>2. Keeping'
  BY <1>1, RegistryStands
     DEF Live, Keeping, Typed, Counted, StaysGone, Awaited, Items, Idle, registry
<1>3. Surroundings
  BY DEF Live
<1>4. CASE \E new \in {"detached", "attached", "suspended"} : ChannelChanges(new)
  <2>1. Surroundings'
    BY <1>3, <1>4 DEF Surroundings, ChannelChanges, Wake
  <2> QED
    BY <1>2, <2>1 DEF Live, Keeping
<1>5. CASE RunTask
  <2> DEFINE S == Ids \X (1..MaxEmitted)
             t == Head(tasks)
  <2>1. tasks \in Seq(S) /\ tasks # <<>> /\ tasks' = Tail(tasks)
        /\ heard' = [heard EXCEPT ![t[1]] = t[2]] /\ UNCHANGED <<kind, channel, awaiting, woken>>
    BY <1>3, <1>5 DEF Surroundings, RunTask
  <2> HIDE DEF S
  <2>2. t \in S /\ tasks' \in Seq(S)
    BY <2>1, HeadTailProperties
  <2> HIDE DEF t
  <2>3. t[1] \in Ids /\ t[2] \in 0..MaxEmitted
    BY <2>2, ConstantsAssumption DEF S, ConstantsAssumption
  <2>4. Surroundings'
    BY <1>3, <2>1, <2>2, <2>3 DEF Surroundings, S
  <2> QED
    BY <1>2, <2>4 DEF Live, Keeping
<1>6. CASE UNCHANGED vars
  <2>1. Surroundings'
    BY <1>3, <1>6 DEF Surroundings, vars
  <2> QED
    BY <1>2, <2>1 DEF Live, Keeping
<1> QED
  BY <1>4, <1>5, <1>6

\* A message is emitted.
LEMMA EmissionKeeps ==
  ASSUME Live,
         \/ \E n \in Names : Receive(<<n>>) \/ \E o \in Names : Receive(<<n, o>>)
         \/ CallListener \/ TurnToAll \/ EmissionEnds \/ EmitNext
  PROVE  Live'
<1>1. Surroundings
  BY DEF Live
<1>2. CASE CallListener
  <2> DEFINE r == Head(handlers)
             S == Ids \X (1..MaxEmitted)
  <2>1. Keeping' /\ r \in Registration
    BY <1>2, CallListenerKeeps DEF Live
  <2>2. /\ \/ tasks' = Append(tasks, <<r.id, number>>) /\ heard' = heard
           \/ heard' = [heard EXCEPT ![r.id] = number] /\ tasks' = tasks
        /\ UNCHANGED <<kind, channel, awaiting, woken>> /\ ~Idle
    BY <1>2 DEF CallListener
  <2>3. r.id \in Ids /\ number \in 1..MaxEmitted /\ number \in 0..MaxEmitted
    BY <2>1, <2>2 DEF Registration, Live, Keeping, Counted, Typed
  <2>4. <<r.id, number>> \in S /\ tasks \in Seq(S)
    BY <1>1, <2>3 DEF Surroundings
  <2> HIDE DEF r, S
  <2>5. Append(tasks, <<r.id, number>>) \in Seq(S)
    BY <2>4, AppendProperties
  <2>6. Surroundings'
    BY <1>1, <2>2, <2>3, <2>4, <2>5 DEF Surroundings, S
  <2> QED
    BY <2>1, <2>6 DEF Live, Keeping
<1>3. CASE ~CallListener
  <2>1. Keeping'
    <3>1. ASSUME NEW n \in Names, Receive(<<n>>) \/ \E o \in Names : Receive(<<n, o>>)
          PROVE  Keeping'
      BY <3>1, ReceiveKeeps DEF Live
    <3> QED
      BY <1>3, <3>1, TurnToAllKeeps, EmissionEndsKeeps, EmitNextKeeps DEF Live
  <2>2. UNCHANGED <<kind, channel, awaiting, woken, tasks, heard>>
    BY <1>3 DEF Receive, TurnToAll, EmissionEnds, EmitNext
  <2> QED
    BY <1>1, <2>1, <2>2 DEF Live, Surroundings
<1> QED
  BY <1>2, <1>3

\* Every step keeps the invariant.
LEMMA StepKeeps == Live /\ "twice" \notin Habits /\ [Next]_vars => Live'
<1> SUFFICES ASSUME Live, "twice" \notin Habits, [Next]_vars PROVE Live'
  OBVIOUS
<1>1. ASSUME NEW l \in Listeners, NEW e \in Subscribable \union {All},
             \/ SubscribeMessages(l, e) \/ SubscribePresence(l, e) \/ SubscribeAnnotations(l, e)
             \/ SubscribeResumes(l, e) \/ Unsubscribe(l, e)
      PROVE  Live'
  <2>1. e \in Events
    BY ConstantsAssumption DEF ConstantsAssumption, Events
  <2> QED
    BY <1>1, <2>1, ApplicationKeeps
<1>2. CASE UnsubscribeAll
  <2>1. Keeping'
    BY <1>2, OffAllKeeps DEF Live, UnsubscribeAll
  <2>2. UNCHANGED <<kind, channel, awaiting, woken, tasks, heard>>
    BY <1>2 DEF UnsubscribeAll
  <2> QED
    BY <2>1, <2>2 DEF Live, Surroundings
<1> QED
  BY <1>1, <1>2, OthersKeep, EmissionKeeps DEF Next

-----------------------------------------------------------------------------
(* The theorems.                                                           *)

\* Every variable keeps its type when no listener is registered twice at a time.
THEOREM SubscriptionsTypeCorrect ==
  ASSUME "twice" \notin Habits
  PROVE  Spec => []TypeOK
<1>1. Live => TypeOK
  BY TypeHalves DEF Live, Keeping
<1> QED
  BY <1>1, InitKeeps, StepKeeps, PTL DEF Spec

\* Whoever was registered for a message when its emission began and still is when it is over
\* has been called, whatever the listeners before it registered and removed: CallListener
\* goes through a copy of the listeners, and TurnToAll makes its own only then.
THEOREM ListenersAreCalled ==
  ASSUME "twice" \notin Habits
  PROVE  Spec => []NobodyIsPassedOver
<1>1. Live => NobodyIsPassedOver
  <2> SUFFICES ASSUME Live, phase = "over", ~Idle, NEW id \in present, id \in IdsOf(subscribed)
               PROVE  id \in called
    BY DEF NobodyIsPassedOver
  <2>1. \A r : r \in subscribed <=> \E e \in Events : \E i \in Items(e) : r = regs[e][i]
    BY RegisteredPlaces DEF Live, Keeping, Typed, Registry, AsPromised
  <2>2. PICK e \in Events : \E i \in Items(e) : id = regs[e][i].id
    BY <2>1 DEF IdsOf
  <2>3. DOMAIN handlers = {}
    BY DEF Live, Keeping, Awaited
  <2> QED
    BY <2>2, <2>3 DEF Live, Keeping, Awaited
<1> QED
  BY <1>1, InitKeeps, StepKeeps, PTL DEF Spec

\* Who was removed before the emission of a message began is not called for it: the entry of
\* a listener always names the registration it has, so that off() removes that one.
THEOREM RemovedStayRemoved ==
  ASSUME "twice" \notin Habits
  PROVE  Spec => []NobodyIsCalledAfterwards
<1>1. Live => NobodyIsCalledAfterwards
  BY DEF Live, Keeping, StaysGone, NobodyIsCalledAfterwards
<1> QED
  BY <1>1, InitKeeps, StepKeeps, PTL DEF Spec

=============================================================================
