------------------------- MODULE Publishing_proofs -------------------------
(***************************************************************************)
(* Proofs about the send path, for any set of messages and connection ids. *)
(***************************************************************************)
EXTENDS Publishing, SequenceTheorems, TLAPS

-----------------------------------------------------------------------------
(* The elements of the sequences that queue operations build.              *)

\* Dropping the first k elements of a sequence leaves the others in their order.
LEMMA DropType ==
  ASSUME NEW S, NEW s \in Seq(S), NEW k \in 0..Len(s)
  PROVE  /\ SubSeq(s, k + 1, Len(s)) \in Seq(S)
         /\ Len(SubSeq(s, k + 1, Len(s))) = Len(s) - k
         /\ \A i \in 1..(Len(s) - k) : SubSeq(s, k + 1, Len(s))[i] = s[i + k]
  BY SMT

\* Every element of a sequence is in the part dropped or in the part kept.
LEMMA DropRange ==
  ASSUME NEW S, NEW s \in Seq(S), NEW k \in 0..Len(s)
  PROVE  Range(s) \subseteq {s[i] : i \in 1..k} \union Range(SubSeq(s, k + 1, Len(s)))
<1> DEFINE t == SubSeq(s, k + 1, Len(s))
<1>1. t \in Seq(S) /\ Len(t) = Len(s) - k /\ \A i \in 1..(Len(s) - k) : t[i] = s[i + k]
  BY DropType
<1> HIDE DEF t
<1>2. ASSUME NEW i \in 1..Len(s), i \notin 1..k
      PROVE  s[i] \in Range(t)
  <2>1. i - k \in 1..(Len(s) - k) /\ (i - k) + k = i
    BY <1>2, SMT
  <2>2. t[i - k] = s[i]
    BY <1>1, <2>1
  <2>3. i - k \in DOMAIN t
    BY <1>1, <2>1, LenProperties
  <2> QED
    BY <2>2, <2>3 DEF Range
<1>3. DOMAIN s = 1..Len(s)
  BY LenProperties
<1> QED
  BY <1>2, <1>3, Zenon DEF Range, t

\* The elements of an extended sequence.
LEMMA AppendRange ==
  ASSUME NEW S, NEW s \in Seq(S), NEW x \in S
  PROVE  /\ Append(s, x) \in Seq(S)
         /\ Range(Append(s, x)) = Range(s) \union {x}
<1> DEFINE t == Append(s, x)
<1>1. t \in Seq(S) /\ Len(t) = Len(s) + 1 /\ t[Len(s) + 1] = x
      /\ \A i \in 1..Len(s) : t[i] = s[i]
  BY AppendProperties
<1> HIDE DEF t
<1>2. DOMAIN s = 1..Len(s) /\ DOMAIN t = 1..(Len(s) + 1)
  BY <1>1, LenProperties
<1>3. 1..(Len(s) + 1) = 1..Len(s) \union {Len(s) + 1}
  BY SMT
<1>4. Range(t) = {t[i] : i \in 1..Len(s)} \union {t[Len(s) + 1]}
  BY <1>2, <1>3, Zenon DEF Range
<1>5. {t[i] : i \in 1..Len(s)} = Range(s)
  BY <1>1, <1>2, Zenon DEF Range
<1> QED
  BY <1>1, <1>4, <1>5 DEF t

\* The elements of a concatenation.
LEMMA ConcatRange ==
  ASSUME NEW S, NEW s \in Seq(S), NEW t \in Seq(S)
  PROVE  /\ s \o t \in Seq(S)
         /\ Range(s \o t) = Range(s) \union Range(t)
<1>1. s \o t \in Seq(S)
  BY ConcatProperties
<1>2. Range(s \o t) = Range(s) \union Range(t)
  BY RangeConcatenation
<1> QED
  BY <1>1, <1>2

\* The elements of a sequence are its head and those of its tail.
LEMMA TailRange ==
  ASSUME NEW S, NEW s \in Seq(S), s # <<>>
  PROVE  /\ Head(s) \in S /\ Tail(s) \in Seq(S)
         /\ Range(s) = {Head(s)} \union Range(Tail(s))
<1> DEFINE t == Tail(s)
<1>1. Head(s) \in S /\ t \in Seq(S) /\ Len(t) = Len(s) - 1 /\ Head(s) = s[1]
      /\ \A i \in 1..Len(t) : t[i] = s[i + 1]
  BY HeadTailProperties
<1>2. Len(s) \in Nat /\ Len(s) # 0
  BY LenProperties, EmptySeq
<1> HIDE DEF t
<1>3. DOMAIN s = 1..Len(s) /\ DOMAIN t = 1..(Len(s) - 1)
  BY <1>1, LenProperties
<1>4. 1..Len(s) = {1} \union {i + 1 : i \in 1..(Len(s) - 1)}
  <2>1. ASSUME NEW i \in 1..Len(s), i # 1
        PROVE  i - 1 \in 1..(Len(s) - 1) /\ i = (i - 1) + 1
    BY <2>1, <1>2, SMT
  <2>2. 1 \in 1..Len(s) /\ \A i \in 1..(Len(s) - 1) : i + 1 \in 1..Len(s)
    BY <1>2, SMT
  <2> QED
    BY <2>1, <2>2, Zenon
<1>5. Range(s) = {s[1]} \union {s[i + 1] : i \in 1..(Len(s) - 1)}
  BY <1>3, <1>4, Zenon DEF Range
<1>6. {s[i + 1] : i \in 1..(Len(s) - 1)} = Range(t)
  BY <1>1, <1>3, Zenon DEF Range
<1> QED
  BY <1>1, <1>5, <1>6 DEF t

\* An empty sequence has no elements.
LEMMA EmptyRange == Range(<<>>) = {}
  BY SMT DEF Range

\* A sequence over S has its elements in S.
LEMMA RangeType ==
  ASSUME NEW S, NEW s \in Seq(S)
  PROVE  Range(s) \subseteq S
  BY ElementOfSeq, LenProperties DEF Range

\* A sequence without repetitions that gets a new element repeats none, ...
LEMMA InjectiveAppend ==
  ASSUME NEW S, NEW s \in Seq(S), NEW x \in S, IsInjective(s), x \notin Range(s)
  PROVE  IsInjective(Append(s, x))
<1> DEFINE t == Append(s, x)
<1>1. Len(t) = Len(s) + 1 /\ t[Len(s) + 1] = x /\ \A i \in 1..Len(s) : t[i] = s[i]
  BY AppendProperties
<1>2. DOMAIN t = 1..(Len(s) + 1) /\ DOMAIN s = 1..Len(s) /\ Len(s) \in Nat
  BY <1>1, AppendProperties, LenProperties
<1> HIDE DEF t
<1>3. \A i \in 1..Len(s) : s[i] # x
  BY <1>2 DEF Range
<1>4. ASSUME NEW i \in DOMAIN t, NEW j \in DOMAIN t, t[i] = t[j] PROVE i = j
  BY <1>1, <1>2, <1>3, <1>4 DEF IsInjective
<1> QED
  BY <1>4 DEF IsInjective, t

\* ... nor does one that loses its first elements, ...
LEMMA InjectiveDrop ==
  ASSUME NEW S, NEW s \in Seq(S), NEW k \in 0..Len(s), IsInjective(s)
  PROVE  /\ IsInjective(SubSeq(s, k + 1, Len(s)))
         /\ Range(SubSeq(s, k + 1, Len(s))) \subseteq Range(s)
         /\ \A x \in Range(SubSeq(s, k + 1, Len(s))) : x \notin {s[i] : i \in 1..k}
<1> DEFINE t == SubSeq(s, k + 1, Len(s))
<1>1. t \in Seq(S) /\ Len(t) = Len(s) - k /\ \A i \in 1..(Len(s) - k) : t[i] = s[i + k]
  BY DropType
<1>2. DOMAIN t = 1..(Len(s) - k) /\ DOMAIN s = 1..Len(s) /\ Len(s) \in Nat /\ k \in Nat
  BY <1>1, LenProperties
<1> HIDE DEF t
<1>3. \A i \in DOMAIN t : i + k \in DOMAIN s /\ i + k \notin 1..k /\ t[i] = s[i + k]
  BY <1>1, <1>2
<1>4. \A i, j \in DOMAIN t : i + k = j + k => i = j
  BY <1>2
<1>5. \A i \in 1..k : i \in DOMAIN s
  BY <1>2
<1>6. IsInjective(t)
  BY <1>3, <1>4 DEF IsInjective
<1>7. Range(t) \subseteq Range(s)
  BY <1>3 DEF Range
<1>8. \A x \in Range(t) : x \notin {s[i] : i \in 1..k}
  BY <1>3, <1>5 DEF Range, IsInjective
<1> QED
  BY <1>6, <1>7, <1>8 DEF t

\* ... or its head, ...
LEMMA InjectiveTail ==
  ASSUME NEW S, NEW s \in Seq(S), s # <<>>, IsInjective(s)
  PROVE  /\ IsInjective(Tail(s))
         /\ Head(s) \notin Range(Tail(s))
<1> DEFINE t == Tail(s)
<1>1. t \in Seq(S) /\ Len(t) = Len(s) - 1 /\ Head(s) = s[1]
      /\ \A i \in 1..Len(t) : t[i] = s[i + 1]
  BY HeadTailProperties
<1>2. Len(s) \in Nat /\ Len(s) # 0
  BY LenProperties, EmptySeq
<1>3. DOMAIN s = 1..Len(s) /\ DOMAIN t = 1..(Len(s) - 1)
  BY <1>1, LenProperties
<1> HIDE DEF t
<1>4. 1 \in DOMAIN s /\ \A i \in DOMAIN t : i + 1 \in DOMAIN s /\ i + 1 # 1 /\ t[i] = s[i + 1]
  BY <1>1, <1>2, <1>3
<1>5. \A i, j \in DOMAIN t : i + 1 = j + 1 => i = j
  BY <1>3
<1>6. IsInjective(t)
  BY <1>4, <1>5 DEF IsInjective
<1>7. s[1] \notin Range(t)
  BY <1>4 DEF IsInjective, Range
<1> QED
  BY <1>1, <1>6, <1>7 DEF t

\* ... nor the empty one.
LEMMA InjectiveEmpty == IsInjective(<<>>)
  BY EmptySeq DEF IsInjective

\* Concatenating nothing.
LEMMA ConcatEmpty ==
  ASSUME NEW S, NEW s \in Seq(S)
  PROVE  s \o <<>> = s /\ <<>> \o s = s
  BY ConcatEmptySeq

\* The elements of a prefix.
LEMMA PrefixRange ==
  ASSUME NEW S, NEW s \in Seq(S), NEW k \in 0..Len(s)
  PROVE  Range(SubSeq(s, 1, k)) = {s[i] : i \in 1..k}
<1> DEFINE t == SubSeq(s, 1, k)
<1>1. Len(t) = k /\ (\A i \in 1..k : t[i] = s[i]) /\ t \in Seq(S)
  BY SubSeqProperties, LenProperties
<1>2. DOMAIN t = 1..k
  BY <1>1, LenProperties
<1> HIDE DEF t
<1>3. Range(t) = {s[i] : i \in 1..k}
  BY <1>1, <1>2 DEF Range
<1> QED
  BY <1>3 DEF t

-----------------------------------------------------------------------------
Frames == [msg : AckRequired, serial : Nat \union {-1}]
FutureStates == {"idle", "waiting", "ok", "error", "sent"}

-----------------------------------------------------------------------------
(* The helpers of the send path.                                           *)

\* Failing futures settles some of them and changes nothing else.
LEMMA FailingType ==
  ASSUME NEW fut \in [Messages -> FutureStates], NEW ms
  PROVE  Failing(fut, ms) \in [Messages -> FutureStates]
  BY DEF Failing, FutureStates

\* A transport without frames.
LEMMA NoFrames == <<>> \in Seq(Frames)
  BY EmptySeq

\* The program starts in a state of the declared types.
LEMMA InitType == Init => TypeOK
<1> SUFFICES ASSUME Init PROVE TypeOK
  OBVIOUS
<1>1. pending \in Seq(AckRequired) /\ queued \in Seq(Messages) /\ tasks \in Seq(Messages)
      /\ wire \in Seq([msg : AckRequired, serial : Nat \union {-1}])
  BY EmptySeq DEF Init
<1>2. serial \in [Messages -> Nat \union {-1}]
      /\ result \in [Messages -> Messages \union {NoResult}]
      /\ future \in [Messages -> {"idle", "waiting", "ok", "error", "sent"}]
  BY DEF Init
<1> QED
  BY <1>1, <1>2 DEF Init, TypeOK, ConnectionStates

\* complete_messages never settles more messages than there are.
LEMMA NumToCompleteBounds ==
  ASSUME TypeOK, NEW first \in Int, NEW count \in Nat
  PROVE  NumToComplete(first, count) \in 0..Len(pending)
<1>1. Len(pending) \in Nat
  BY LenProperties DEF TypeOK
<1>2. CASE pending = <<>>
  BY <1>1, <1>2 DEF NumToComplete
<1>3. CASE pending # <<>>
  <2>1. serial[Head(pending)] \in Int
    BY <1>3, HeadTailProperties DEF TypeOK, AckRequired
  <2> QED
    BY <1>1, <1>3, <2>1 DEF NumToComplete
<1> QED
  BY <1>2, <1>3

\* An answerable run of frames lies within the frames on the wire.
LEMMA AnswerableType ==
  ASSUME TypeOK, NEW n, Answerable(n)
  PROVE  /\ n \in 1..Len(wire) /\ n \in Nat
         /\ Len(wire) \in Nat
         /\ wire[1].serial \in Int
         /\ \A i \in 1..Len(wire) : wire[i].msg \in AckRequired
         /\ NumToComplete(wire[1].serial, n) \in 0..Len(pending)
<1>1. n \in 1..Len(wire) /\ Len(wire) \in Nat
  BY LenProperties DEF Answerable, TypeOK
<1>2. \A i \in 1..Len(wire) : wire[i] \in [msg : AckRequired, serial : Nat \union {-1}]
  BY ElementOfSeq DEF TypeOK
<1>3. n \in Nat /\ 1 \in 1..Len(wire)
  BY <1>1
<1>4. wire[1].serial \in Int
  BY <1>2, <1>3
<1> QED
  BY <1>1, <1>2, <1>3, <1>4, NumToCompleteBounds

\* Sending a message keeps the types of what it changes.
LEMMA SendOnConnectedStateType ==
  ASSUME TypeOK, NEW m \in Messages, NEW s \in Nat \union {-1},
         NEW pend \in Seq(AckRequired), NEW fut \in [Messages -> FutureStates],
         SendOnConnectedState(m, s, pend, fut)
  PROVE  /\ pending' \in Seq(AckRequired)
         /\ future' \in [Messages -> FutureStates]
         /\ wire' \in Seq(Frames)
<1>1. wire \in Seq(Frames)
  BY DEF TypeOK, Frames
<1>2. ASSUME m \in AckRequired
      PROVE  Append(wire, [msg |-> m, serial |-> s]) \in Seq(Frames)
  BY <1>1, <1>2, AppendRange DEF Frames
<1>3. m \notin Control => Append(pend, m) \in Seq(AckRequired)
  BY AppendRange DEF AckRequired
<1>4. wire' \in Seq(Frames)
  BY <1>1, <1>2 DEF SendOnConnectedState, Transmit
<1>5. pending' \in Seq(AckRequired)
  BY <1>3 DEF SendOnConnectedState
<1>6. future' \in [Messages -> FutureStates]
  BY FailingType DEF SendOnConnectedState
<1> QED
  BY <1>4, <1>5, <1>6

\* Requeueing loses no message of either queue.
LEMMA RequeuedType ==
  ASSUME NEW pend \in Seq(AckRequired), NEW q \in Seq(Messages)
  PROVE  /\ Requeued(pend, q) \in Seq(Messages)
         /\ Range(Requeued(pend, q)) = Range(pend) \union Range(q)
<1>1. pend \in Seq(Messages)
  BY LenProperties, IsASeq, ElementOfSeq DEF AckRequired
<1> QED
  BY <1>1, ConcatRange DEF Requeued

\* Failing the queues keeps their types.
LEMMA FailQueuedMessagesType ==
  ASSUME TypeOK, NEW pend, NEW q, FailQueuedMessages(pend, q)
  PROVE  /\ pending' \in Seq(AckRequired)
         /\ queued' \in Seq(Messages)
         /\ future' \in [Messages -> FutureStates]
  BY FailingType, EmptySeq DEF FailQueuedMessages, TypeOK, FutureStates

\* So does notify_state(DISCONNECTED).
LEMMA NotifyDisconnectedType ==
  ASSUME TypeOK, NEW pend \in Seq(AckRequired), NEW q \in Seq(Messages), NEW h \in BOOLEAN,
         NotifyDisconnected(pend, q, h)
  PROVE  /\ state' \in ConnectionStates /\ armed' \in BOOLEAN
         /\ pending' \in Seq(AckRequired)
         /\ queued' \in Seq(Messages)
         /\ future' \in [Messages -> FutureStates]
<1>1. Requeued(pend, q) \in Seq(Messages) /\ <<>> \in Seq(AckRequired)
  BY RequeuedType, EmptySeq
<1>2. state' \in ConnectionStates /\ armed' \in BOOLEAN
  BY DEF NotifyDisconnected, TypeOK, ConnectionStates
<1>3. pending' \in Seq(AckRequired) /\ queued' \in Seq(Messages)
  BY <1>1, EmptySeq DEF NotifyDisconnected, FailQueuedMessages
<1>4. future' \in [Messages -> FutureStates]
  BY FailingType DEF NotifyDisconnected, FailQueuedMessages, TypeOK, FutureStates
<1> QED
  BY <1>2, <1>3, <1>4

\* So does deactivate_transport.
LEMMA DeactivateTransportType ==
  ASSUME TypeOK, DeactivateTransport
  PROVE  /\ state' \in ConnectionStates /\ armed' \in BOOLEAN
         /\ pending' \in Seq(AckRequired)
         /\ queued' \in Seq(Messages)
         /\ future' \in [Messages -> FutureStates]
         /\ transport' = "none" /\ wire' = <<>>
<1> DEFINE p == IF transport # "none" THEN <<>> ELSE pending
           q == IF transport # "none" THEN Requeued(pending, queued) ELSE queued
<1>1. p \in Seq(AckRequired) /\ q \in Seq(Messages)
  BY RequeuedType, EmptySeq DEF TypeOK
<1>2. NotifyDisconnected(p, q, FALSE) /\ transport' = "none" /\ wire' = <<>>
  BY DEF DeactivateTransport
<1> HIDE DEF p, q
<1> QED
  BY <1>1, <1>2, NotifyDisconnectedType

-----------------------------------------------------------------------------
(* Type correctness.                                                       *)

\* Every step of the send path keeps the types of its state.
LEMMA NextType == TypeOK /\ [Next]_vars => TypeOK'
<1> SUFFICES ASSUME TypeOK, [Next]_vars PROVE TypeOK'
  OBVIOUS
<1> USE DEF lifecycle
<1>1. ASSUME NEW m \in Messages, SendProtocolMessage(m) PROVE TypeOK'
  <2> DEFINE pend == IF m \in AckRequired THEN Append(pending, m) ELSE pending
             fut == [future EXCEPT ![m] = IF m \in AckRequired THEN "waiting" ELSE "sent"]
  <2>1. pend \in Seq(AckRequired)
    BY AppendRange DEF TypeOK
  <2>2. fut \in [Messages -> FutureStates]
    BY DEF TypeOK, FutureStates
  <2>3. /\ serial' \in [Messages -> Nat \union {-1}] /\ msgSerial' \in Nat
        /\ raised' \subseteq Messages /\ UNCHANGED <<lifecycle, tasks, result>>
    BY <1>1 DEF SendProtocolMessage, TypeOK
  <2>4. CASE state = "connected"
    <3>1. SendOnConnectedState(m, msgSerial, pend, fut) /\ UNCHANGED queued
      BY <1>1, <2>4 DEF SendProtocolMessage
    <3> HIDE DEF pend, fut
    <3>2. msgSerial \in Nat \union {-1}
      BY DEF TypeOK
    <3>3. /\ pending' \in Seq(AckRequired)
          /\ future' \in [Messages -> FutureStates]
          /\ wire' \in Seq(Frames)
      BY <2>1, <2>2, <3>1, <3>2, SendOnConnectedStateType
    <3> QED
      BY <2>3, <3>1, <3>3 DEF TypeOK, FutureStates, Frames
  <2>5. CASE state # "connected"
    <3>1. queued' = Append(queued, m) /\ pending' = pend /\ future' = fut /\ UNCHANGED wire
      BY <1>1, <2>5 DEF SendProtocolMessage
    <3> HIDE DEF pend, fut
    <3>2. queued' \in Seq(Messages)
      BY <3>1, AppendRange DEF TypeOK
    <3> QED
      BY <2>1, <2>2, <2>3, <3>1, <3>2 DEF TypeOK, FutureStates
  <2> QED
    BY <2>4, <2>5
<1>2. ASSUME RunSendTask PROVE TypeOK'
  <2>1. Head(tasks) \in Messages /\ Tail(tasks) \in Seq(Messages)
    BY <1>2, TailRange DEF RunSendTask, TypeOK
  <2>2. serial[Head(tasks)] \in Nat \union {-1}
    BY <2>1 DEF TypeOK
  <2>3. pending \in Seq(AckRequired) /\ future \in [Messages -> FutureStates]
    BY DEF TypeOK, FutureStates
  <2>4. /\ pending' \in Seq(AckRequired)
        /\ future' \in [Messages -> FutureStates]
        /\ wire' \in Seq(Frames)
    BY <1>2, <2>1, <2>2, <2>3, SendOnConnectedStateType DEF RunSendTask
  <2> QED
    BY <1>2, <2>1, <2>4 DEF RunSendTask, TypeOK, FutureStates, Frames
<1>3. ASSUME NEW n \in 1..Len(wire), OnAck(n) PROVE TypeOK'
  <2> DEFINE k == NumToComplete(wire[1].serial, n)
             Position(m) == CHOOSE i \in 1..k : pending[i] = m
  <2>1. /\ n \in 1..Len(wire) /\ n \in Nat /\ Len(wire) \in Nat
        /\ \A i \in 1..Len(wire) : wire[i].msg \in AckRequired
        /\ k \in 0..Len(pending)
    BY <1>3, AnswerableType DEF OnAck
  <2>2. /\ pending' = SubSeq(pending, k + 1, Len(pending))
        /\ future' = [m \in Messages |-> IF m \in Completing(k) THEN "ok" ELSE future[m]]
        /\ result' = [m \in Messages |->
                        IF m \in Completing(k) /\ Position(m) <= n
                        THEN wire[Position(m)].msg
                        ELSE result[m]]
        /\ wire' = SubSeq(wire, n + 1, Len(wire))
        /\ UNCHANGED <<lifecycle, msgSerial, queued, tasks, serial, raised>>
    BY <1>3 DEF OnAck
  <2> HIDE DEF k
  <2>3. pending' \in Seq(AckRequired)
    BY <2>1, <2>2, DropType DEF TypeOK
  <2>4. wire' \in Seq(Frames)
    <3>1. wire \in Seq(Frames) /\ n \in 0..Len(wire)
      BY <2>1 DEF TypeOK, Frames
    <3> QED
      BY <2>2, <3>1, DropType
  <2>5. ASSUME NEW m \in Messages, m \in Completing(k), Position(m) <= n
        PROVE  wire[Position(m)].msg \in Messages
    <3>1. \E i \in 1..k : pending[i] = m
      BY <2>5 DEF Completing
    <3>2. Position(m) \in 1..k
      BY <3>1
    <3> HIDE DEF Position
    <3> QED
      BY <2>1, <2>5, <3>2 DEF AckRequired
  <2> HIDE DEF Position
  <2>6. result' \in [Messages -> Messages \union {NoResult}]
    BY <2>2, <2>5 DEF TypeOK
  <2>7. future' \in [Messages -> FutureStates]
    BY <2>2 DEF TypeOK, FutureStates
  <2> QED
    BY <2>2, <2>3, <2>4, <2>6, <2>7 DEF TypeOK, FutureStates, Frames
<1>4. ASSUME NEW n \in 1..Len(wire), OnNack(n) PROVE TypeOK'
  <2> DEFINE k == NumToComplete(wire[1].serial, n)
  <2>1. n \in 1..Len(wire) /\ n \in Nat /\ Len(wire) \in Nat /\ k \in 0..Len(pending)
    BY <1>4, AnswerableType DEF OnNack
  <2>2. /\ pending' = SubSeq(pending, k + 1, Len(pending))
        /\ future' = Failing(future, {pending[i] : i \in 1..k})
        /\ wire' = SubSeq(wire, n + 1, Len(wire))
        /\ UNCHANGED <<lifecycle, msgSerial, queued, tasks, serial, result, raised>>
    BY <1>4 DEF OnNack
  <2> HIDE DEF k
  <2>3. pending' \in Seq(AckRequired)
    BY <2>1, <2>2, DropType DEF TypeOK
  <2>4. wire' \in Seq(Frames)
    <3>1. wire \in Seq(Frames) /\ n \in 0..Len(wire)
      BY <2>1 DEF TypeOK, Frames
    <3> QED
      BY <2>2, <3>1, DropType
  <2>5. future' \in [Messages -> FutureStates]
    BY <2>2, FailingType DEF TypeOK, FutureStates
  <2> QED
    BY <2>2, <2>3, <2>4, <2>5 DEF TypeOK, FutureStates, Frames
<1>5. CASE RequestConnecting
  BY <1>5 DEF RequestConnecting, TypeOK, ConnectionStates
<1>6. CASE TryHost
  BY <1>6, EmptySeq DEF TryHost, TypeOK
<1>7. ASSUME NEW id \in Ids, OnConnected(id) PROVE TypeOK'
  <2>1. queued' \in Seq(Messages) /\ tasks' \in Seq(Messages)
    BY <1>7, EmptySeq DEF OnConnected, TypeOK
  <2>2. /\ state' \in ConnectionStates /\ armed' \in BOOLEAN /\ msgSerial' \in Nat
        /\ connectionId' \in Ids \union {NoId} /\ transport' = "open"
        /\ UNCHANGED <<disposing, closeImpl, pending, serial, future, result, raised, wire>>
    BY <1>7 DEF OnConnected, TypeOK, ConnectionStates
  <2> QED
    BY <2>1, <2>2 DEF TypeOK
<1>8. CASE OnConnectedIncompatible
  <2>1. pending' \in Seq(AckRequired) /\ queued' \in Seq(Messages)
        /\ future' \in [Messages -> FutureStates]
    BY <1>8, FailQueuedMessagesType DEF OnConnectedIncompatible
  <2> QED
    BY <1>8, <2>1 DEF OnConnectedIncompatible, ForgetConnection, TypeOK, FutureStates,
                      ConnectionStates
<1>9. CASE ConnectFails
  <2>1. /\ state' \in ConnectionStates /\ armed' \in BOOLEAN
        /\ pending' \in Seq(AckRequired) /\ queued' \in Seq(Messages)
        /\ future' \in [Messages -> FutureStates]
    <3>1. pending \in Seq(AckRequired) /\ queued \in Seq(Messages)
          /\ (transport # "none") \in BOOLEAN
      BY DEF TypeOK
    <3> QED
      BY <1>9, <3>1, NotifyDisconnectedType DEF ConnectFails
  <2>2. wire' \in Seq(Frames)
    BY <1>9, NoFrames DEF ConnectFails
  <2> QED
    BY <1>9, <2>1, <2>2 DEF ConnectFails, Dropped, TypeOK, FutureStates, Frames
<1>10. CASE Suspend
  <2>1. pending' \in Seq(AckRequired) /\ queued' \in Seq(Messages)
        /\ future' \in [Messages -> FutureStates]
    BY <1>10, FailQueuedMessagesType DEF Suspend
  <2>2. wire' \in Seq(Frames)
    BY <1>10, NoFrames DEF Suspend
  <2> QED
    BY <1>10, <2>1, <2>2 DEF Suspend, Dropped, ForgetConnection, TypeOK, FutureStates,
                             Frames, ConnectionStates
<1>11. ASSUME DeactivateTransport,
              disposing' \in {disposing, "no"},
              UNCHANGED <<closeImpl, connectionId, msgSerial, tasks, serial, result, raised>>
       PROVE  TypeOK'
  <2>1. /\ state' \in ConnectionStates /\ armed' \in BOOLEAN
        /\ pending' \in Seq(AckRequired) /\ queued' \in Seq(Messages)
        /\ future' \in [Messages -> FutureStates]
        /\ transport' = "none" /\ wire' = <<>>
    BY <1>11, DeactivateTransportType
  <2>2. wire' \in Seq(Frames)
    BY <2>1, NoFrames
  <2> QED
    BY <1>11, <2>1, <2>2 DEF TypeOK, FutureStates, Frames
<1>12. CASE SocketCloses
  BY <1>11, <1>12 DEF SocketCloses
<1>13. CASE IdleDisconnect
  BY <1>11, <1>13 DEF IdleDisconnect
<1>14. ASSUME NEW why \in Disruptions, BeginDispose(why) PROVE TypeOK'
  BY <1>14, EmptySeq DEF BeginDispose, TypeOK
<1>15. CASE OnDisconnected
  <2>1. /\ state' \in ConnectionStates /\ armed' \in BOOLEAN
        /\ pending' \in Seq(AckRequired) /\ queued' \in Seq(Messages)
        /\ future' \in [Messages -> FutureStates]
    <3>1. pending \in Seq(AckRequired) /\ queued \in Seq(Messages)
          /\ (transport # "none") \in BOOLEAN
      BY DEF TypeOK
    <3> QED
      BY <1>15, <3>1, NotifyDisconnectedType DEF OnDisconnected
  <2>2. wire' \in Seq(Frames)
    BY <1>15, NoFrames DEF OnDisconnected, TypeOK, Frames
  <2> QED
    BY <1>15, <2>1, <2>2 DEF OnDisconnected, Dropped, TypeOK, FutureStates, Frames
<1>16. CASE OnDisconnectedFallback
  BY <1>16, EmptySeq DEF OnDisconnectedFallback, TypeOK
<1>17. CASE OnError
  BY <1>17 DEF OnError, ForgetConnection, TypeOK, ConnectionStates
<1>18. CASE RequestClosing
  BY <1>18 DEF RequestClosing, TypeOK, ConnectionStates
<1>19. CASE CloseDisposes
  BY <1>19, EmptySeq DEF CloseDisposes, TypeOK
<1>20. CASE CloseCompletes
  <2>1. pending' \in Seq(AckRequired) /\ queued' \in Seq(Messages)
        /\ future' \in [Messages -> FutureStates]
    BY <1>20, FailQueuedMessagesType DEF CloseCompletes, TypeOK, FutureStates
  <2> QED
    BY <1>20, <2>1 DEF CloseCompletes, ForgetConnection, TypeOK, FutureStates,
                       ConnectionStates
<1>21. CASE UNCHANGED vars
  BY <1>21 DEF vars, TypeOK
<1> QED
  BY <1>1, <1>2, <1>3, <1>4, <1>5, <1>6, <1>7, <1>8, <1>9, <1>10, <1>12, <1>13, <1>14,
     <1>15, <1>16, <1>17, <1>18, <1>19, <1>20, <1>21 DEF Next

\* The state of the send path always has its declared types; in particular no
\* message without a msgSerial is ever waiting in the pending queue for an ACK.
THEOREM TypeCorrect == Spec => []TypeOK
<1>1. Init => TypeOK
  BY InitType
<1>2. TypeOK /\ [Next]_vars => TypeOK'
  BY NextType
<1> QED
  BY <1>1, <1>2, PTL DEF Spec

-----------------------------------------------------------------------------
(* No publish is dropped without an outcome.  NothingLost is not inductive *)
(* by itself: a send task of a message that takes no answer registers it   *)
(* nowhere, so it matters that such a message never waits.                 *)

ControlNeverWaits == \A m \in Control : future[m] # "waiting"

Kept == TypeOK /\ ControlNeverWaits /\ NothingLost

Held == Range(pending) \union Range(queued) \union Range(tasks)

\* NothingLost, message by message.
LEMMA NothingLostPointwise ==
  NothingLost <=> \A m \in Messages : future[m] = "waiting" => m \in Held
  BY DEF NothingLost, Waiting, Held

\* Failing futures makes none of them wait, and none of the failed ones is left.
LEMMA FailingWaiting ==
  ASSUME NEW fut, NEW ms, NEW m \in Messages, Failing(fut, ms)[m] = "waiting"
  PROVE  fut[m] = "waiting" /\ m \notin ms
  BY DEF Failing

\* fail_queued_messages leaves no message of the two queues waiting.
LEMMA FailQueuedMessagesKeeps ==
  ASSUME NEW pend, NEW q, FailQueuedMessages(pend, q),
         NEW m \in Messages, future'[m] = "waiting"
  PROVE  future[m] = "waiting" /\ m \notin Range(pend) \union Range(q)
  BY FailingWaiting DEF FailQueuedMessages

\* notify_state(DISCONNECTED) keeps every message that still waits queued.
LEMMA NotifyDisconnectedKeeps ==
  ASSUME NEW pend \in Seq(AckRequired), NEW q \in Seq(Messages), NEW h \in BOOLEAN,
         NotifyDisconnected(pend, q, h),
         NEW m \in Messages, future'[m] = "waiting"
  PROVE  /\ future[m] = "waiting"
         /\ m \in Range(pend) \union Range(q) => m \in Range(pending') \union Range(queued')
<1> DEFINE drop == state # "connected" /\ h
           p == IF drop THEN <<>> ELSE pend
           qs == IF drop THEN Requeued(pend, q) ELSE q
<1>1. Range(p) \union Range(qs) = Range(pend) \union Range(q)
  BY RequeuedType, EmptyRange
<1>2. CASE state = "disconnected"
  BY <1>2 DEF NotifyDisconnected
<1>3. CASE state # "disconnected" /\ QueueMessages
  <2>1. pending' = p /\ queued' = qs /\ UNCHANGED future
    BY <1>3 DEF NotifyDisconnected
  <2> HIDE DEF p, qs
  <2> QED
    BY <1>1, <2>1
<1>4. CASE state # "disconnected" /\ ~QueueMessages
  <2>1. FailQueuedMessages(p, qs)
    BY <1>4 DEF NotifyDisconnected
  <2> HIDE DEF p, qs
  <2> QED
    BY <1>1, <2>1, FailQueuedMessagesKeeps
<1> QED
  BY <1>2, <1>3, <1>4

\* And so does deactivate_transport, through the requeueing.
LEMMA DeactivateTransportKeeps ==
  ASSUME TypeOK, DeactivateTransport, NEW m \in Messages, future'[m] = "waiting"
  PROVE  /\ future[m] = "waiting"
         /\ m \in Range(pending) \union Range(queued)
              => m \in Range(pending') \union Range(queued')
<1> DEFINE p == IF transport # "none" THEN <<>> ELSE pending
           q == IF transport # "none" THEN Requeued(pending, queued) ELSE queued
<1>1. p \in Seq(AckRequired) /\ q \in Seq(Messages)
  BY RequeuedType, EmptySeq DEF TypeOK
<1>2. Range(p) \union Range(q) = Range(pending) \union Range(queued)
  BY RequeuedType, EmptyRange DEF TypeOK
<1>3. NotifyDisconnected(p, q, FALSE)
  BY DEF DeactivateTransport
<1> HIDE DEF p, q
<1> QED
  BY <1>1, <1>2, <1>3, NotifyDisconnectedKeeps

\* A message that waits after it was sent is registered as pending.
LEMMA SendOnConnectedStateKeeps ==
  ASSUME NEW m \in Messages, NEW s, NEW pend \in Seq(AckRequired), NEW fut,
         fut \in [Messages -> FutureStates],
         SendOnConnectedState(m, s, pend, fut),
         NEW n \in Messages, future'[n] = "waiting"
  PROVE  /\ fut[n] = "waiting"
         /\ Range(pend) \subseteq Range(pending')
         /\ n = m /\ m \notin Control => n \in Range(pending')
<1>1. CASE state = "connected" /\ transport # "none"
  <2>1. future' = fut
        /\ pending' = IF m \in Control \/ m \in Range(pend) THEN pend ELSE Append(pend, m)
    BY <1>1 DEF SendOnConnectedState
  <2>2. m \notin Control => Range(Append(pend, m)) = Range(pend) \union {m}
    BY AppendRange DEF AckRequired
  <2> QED
    BY <2>1, <2>2
<1>2. CASE ~(state = "connected" /\ transport # "none")
  <2>1. pending' = pend /\ future' = Failing(fut, {m})
    BY <1>2 DEF SendOnConnectedState
  <2> QED
    BY <2>1, FailingWaiting
<1> QED
  BY <1>1, <1>2

\* No handler drops a waiting publish, and none makes a caller wait for a
\* message that takes no answer.
LEMMA NextKeeps == Kept /\ [Next]_vars => Kept'
<1> SUFFICES ASSUME Kept, [Next]_vars
             PROVE  /\ \A m \in Control : future'[m] # "waiting"
                    /\ \A m \in Messages : future'[m] = "waiting" => m \in Held'
  BY NextType DEF Kept, ControlNeverWaits, NothingLost, Waiting, Held
<1> DEFINE Goal == /\ \A m \in Control : future'[m] # "waiting"
                   /\ \A m \in Messages : future'[m] = "waiting" => m \in Held'
<1> SUFFICES Goal
  OBVIOUS
<1> USE DEF lifecycle
<1>a. /\ TypeOK /\ Control \subseteq Messages
      /\ \A m \in Control : future[m] # "waiting"
      /\ \A m \in Messages : future[m] = "waiting" => m \in Held
  BY NothingLostPointwise, ConstantsAssumption DEF Kept, ControlNeverWaits
<1>b. ASSUME \A m \in Messages : future'[m] = "waiting" => future[m] = "waiting" /\ m \in Held'
      PROVE  Goal
  BY <1>a, <1>b
<1>c. ASSUME UNCHANGED <<future, pending, queued, tasks>>
      PROVE  Goal
  BY <1>a, <1>c DEF Held
<1> HIDE DEF Goal
<1>1. ASSUME NEW m \in Messages, SendProtocolMessage(m) PROVE Goal
  <2> DEFINE ack == m \in AckRequired
             pend == IF ack THEN Append(pending, m) ELSE pending
             fut == [future EXCEPT ![m] = IF ack THEN "waiting" ELSE "sent"]
  <2>1. pend \in Seq(AckRequired) /\ Range(pending) \subseteq Range(pend)
        /\ (ack => m \in Range(pend))
    BY <1>a, AppendRange DEF TypeOK
  <2>2. /\ fut \in [Messages -> FutureStates]
        /\ fut[m] = "waiting" => ack
        /\ \A n \in Messages \ {m} : fut[n] = future[n]
    BY <1>a DEF TypeOK, FutureStates
  <2>3. /\ \A n \in Messages : future'[n] = "waiting" => fut[n] = "waiting"
        /\ Range(pend) \subseteq Range(pending')
        /\ Range(queued) \subseteq Range(queued')
    <3>1. CASE state = "connected"
      <4>1. SendOnConnectedState(m, msgSerial, pend, fut) /\ UNCHANGED queued
        BY <1>1, <3>1 DEF SendProtocolMessage
      <4> HIDE DEF pend, fut
      <4>2. Range(pend) \subseteq Range(pending')
        BY <2>1, <4>1, AppendRange DEF SendOnConnectedState, AckRequired
      <4> QED
        BY <2>1, <2>2, <4>1, <4>2, SendOnConnectedStateKeeps
    <3>2. CASE state # "connected"
      <4>1. queued' = Append(queued, m) /\ pending' = pend /\ future' = fut
        BY <1>1, <3>2 DEF SendProtocolMessage
      <4>2. Range(queued) \subseteq Range(Append(queued, m))
        BY <1>a, AppendRange DEF TypeOK
      <4> HIDE DEF pend, fut
      <4> QED
        BY <4>1, <4>2
    <3> QED
      BY <3>1, <3>2
  <2>4. UNCHANGED tasks
    BY <1>1 DEF SendProtocolMessage
  <2> HIDE DEF pend, fut
  <2>5. m \in Control => fut[m] # "waiting"
    BY <2>2 DEF AckRequired
  <2> QED
    BY <1>a, <2>1, <2>2, <2>3, <2>4, <2>5 DEF Held, Goal
<1>2. CASE RunSendTask
  <2> DEFINE h == Head(tasks)
  <2>1. h \in Messages /\ Range(tasks) = {h} \union Range(Tail(tasks))
    BY <1>a, <1>2, TailRange DEF RunSendTask, TypeOK
  <2>2. SendOnConnectedState(h, serial[h], pending, future)
        /\ tasks' = Tail(tasks) /\ UNCHANGED queued
    BY <1>2 DEF RunSendTask
  <2> HIDE DEF h
  <2>3. ASSUME NEW n \in Messages, future'[n] = "waiting"
        PROVE  /\ future[n] = "waiting"
               /\ Range(pending) \subseteq Range(pending')
               /\ n = h /\ h \notin Control => n \in Range(pending')
    <3>1. pending \in Seq(AckRequired) /\ future \in [Messages -> FutureStates]
      BY <1>a DEF TypeOK, FutureStates
    <3> QED
      BY <2>1, <2>2, <2>3, <3>1, SendOnConnectedStateKeeps
  <2> QED
    BY <1>a, <1>b, <2>1, <2>2, <2>3 DEF Held
<1>3. ASSUME NEW n \in 1..Len(wire), NEW k \in 0..Len(pending),
             pending' = SubSeq(pending, k + 1, Len(pending)),
             \A m \in Messages : future'[m] = "waiting"
                => future[m] = "waiting" /\ m \notin {pending[i] : i \in 1..k},
             UNCHANGED <<queued, tasks>>
      PROVE  Goal
  <2>1. Range(pending) \subseteq {pending[i] : i \in 1..k} \union Range(pending')
    BY <1>a, <1>3, DropRange DEF TypeOK
  <2> QED
    BY <1>a, <1>b, <1>3, <2>1 DEF Held
<1>4. ASSUME NEW n \in 1..Len(wire), OnAck(n) PROVE Goal
  <2> DEFINE k == NumToComplete(wire[1].serial, n)
  <2>1. k \in 0..Len(pending)
    BY <1>a, <1>4, AnswerableType DEF OnAck
  <2>2. /\ pending' = SubSeq(pending, k + 1, Len(pending))
        /\ future' = [m \in Messages |-> IF m \in Completing(k) THEN "ok" ELSE future[m]]
        /\ UNCHANGED <<queued, tasks>>
    BY <1>4 DEF OnAck
  <2> HIDE DEF k
  <2>3. ASSUME NEW m \in Messages, future'[m] = "waiting"
        PROVE  future[m] = "waiting" /\ m \notin {pending[i] : i \in 1..k}
    BY <2>2, <2>3 DEF Completing, Waiting
  <2> QED
    BY <1>3, <2>1, <2>2, <2>3
<1>5. ASSUME NEW n \in 1..Len(wire), OnNack(n) PROVE Goal
  <2> DEFINE k == NumToComplete(wire[1].serial, n)
  <2>1. k \in 0..Len(pending)
    BY <1>a, <1>5, AnswerableType DEF OnNack
  <2>2. /\ pending' = SubSeq(pending, k + 1, Len(pending))
        /\ future' = Failing(future, {pending[i] : i \in 1..k})
        /\ UNCHANGED <<queued, tasks>>
    BY <1>5 DEF OnNack
  <2> HIDE DEF k
  <2>3. ASSUME NEW m \in Messages, future'[m] = "waiting"
        PROVE  future[m] = "waiting" /\ m \notin {pending[i] : i \in 1..k}
    BY <2>2, <2>3, FailingWaiting
  <2> QED
    BY <1>3, <2>1, <2>2, <2>3
<1>6. CASE RequestConnecting
  BY <1>c, <1>6 DEF RequestConnecting
<1>7. CASE TryHost
  BY <1>c, <1>7 DEF TryHost
<1>8. ASSUME NEW id \in Ids, OnConnected(id) PROVE Goal
  <2>1. UNCHANGED <<pending, future>>
        /\ Range(queued) \union Range(tasks) = Range(queued') \union Range(tasks')
    BY <1>8, EmptyRange DEF OnConnected, ConnectedArrives
  <2> QED
    BY <1>a, <1>b, <2>1 DEF Held
<1>9. ASSUME FailQueuedMessages(pending, queued), UNCHANGED tasks PROVE Goal
  BY <1>a, <1>b, <1>9, FailQueuedMessagesKeeps DEF Held
<1>10. ASSUME NEW h \in BOOLEAN, NotifyDisconnected(pending, queued, h), UNCHANGED tasks
       PROVE  Goal
  <2>1. pending \in Seq(AckRequired) /\ queued \in Seq(Messages)
    BY <1>a DEF TypeOK
  <2> QED
    BY <1>a, <1>b, <1>10, <2>1, NotifyDisconnectedKeeps DEF Held
<1>11. ASSUME DeactivateTransport, UNCHANGED tasks PROVE Goal
  BY <1>a, <1>b, <1>11, DeactivateTransportKeeps DEF Held
<1>12. CASE OnConnectedIncompatible
  BY <1>9, <1>12 DEF OnConnectedIncompatible
<1>13. CASE ConnectFails
  BY <1>10, <1>13 DEF ConnectFails
<1>14. CASE Suspend
  BY <1>9, <1>14 DEF Suspend
<1>15. CASE SocketCloses
  BY <1>11, <1>15 DEF SocketCloses
<1>16. ASSUME NEW why \in Disruptions, BeginDispose(why) PROVE Goal
  BY <1>c, <1>16 DEF BeginDispose
<1>17. CASE IdleDisconnect
  BY <1>11, <1>17 DEF IdleDisconnect
<1>18. CASE OnDisconnected
  BY <1>10, <1>18 DEF OnDisconnected
<1>19. CASE OnDisconnectedFallback
  BY <1>c, <1>19 DEF OnDisconnectedFallback
<1>20. CASE OnError
  BY <1>c, <1>20 DEF OnError
<1>21. CASE RequestClosing
  BY <1>c, <1>21 DEF RequestClosing
<1>22. CASE CloseDisposes
  BY <1>c, <1>22 DEF CloseDisposes
<1>23. CASE CloseCompletes
  BY <1>c, <1>9, <1>23 DEF CloseCompletes
<1>24. CASE UNCHANGED vars
  BY <1>c, <1>24 DEF vars
<1> QED
  BY <1>1, <1>2, <1>4, <1>5, <1>6, <1>7, <1>8, <1>12, <1>13, <1>14, <1>15, <1>16, <1>17,
     <1>18, <1>19, <1>20, <1>21, <1>22, <1>23, <1>24 DEF Next

\* Whatever the network, the server and the application do, and for any number
\* of messages, a publish whose caller is waiting is queued, pending or handed
\* to a send task: requeueing, resending and answering lose none.
THEOREM NoPublishLost == Spec => []NothingLost
<1>1. Init => Kept
  <2>1. Init => ControlNeverWaits /\ NothingLost
    BY ConstantsAssumption DEF Init, ControlNeverWaits, NothingLost, Waiting
  <2> QED
    BY <2>1, InitType DEF Kept
<1>2. Kept /\ [Next]_vars => Kept'
  BY NextKeeps
<1>3. Kept => NothingLost
  BY DEF Kept
<1> QED
  BY <1>1, <1>2, <1>3, PTL DEF Spec

-----------------------------------------------------------------------------
(* Giving up on the connection.  SUSPENDED and CLOSED are entered with     *)
(* both queues empty, and nothing is registered while they last; that, and *)
(* NothingLost, leaves only the messages in the hands of a send task.      *)

EmptyWhenGivenUp == state \in {"suspended", "closed"} => pending = <<>> /\ queued = <<>>

\* notify_state(DISCONNECTED) leaves no state in which the queues must be empty.
LEMMA NotifyDisconnectedState ==
  ASSUME NEW pend, NEW q, NEW h, NotifyDisconnected(pend, q, h)
  PROVE  state' = "disconnected"
  BY DEF NotifyDisconnected

\* No handler fills a queue in SUSPENDED or CLOSED, or enters them with one filled.
LEMMA NextEmpties == EmptyWhenGivenUp /\ [Next]_vars => EmptyWhenGivenUp'
<1> SUFFICES ASSUME EmptyWhenGivenUp, [Next]_vars PROVE EmptyWhenGivenUp'
  OBVIOUS
<1> USE DEF EmptyWhenGivenUp, lifecycle
<1>1. ASSUME state' \notin {"suspended", "closed"} PROVE EmptyWhenGivenUp'
  BY <1>1
<1>2. ASSUME UNCHANGED <<state, pending, queued>> PROVE EmptyWhenGivenUp'
  BY <1>2
<1>3. ASSUME NEW m \in Messages, SendProtocolMessage(m) PROVE EmptyWhenGivenUp'
  BY <1>3 DEF SendProtocolMessage, QueueingStates
<1>4. CASE RunSendTask
  BY <1>4 DEF RunSendTask, SendOnConnectedState
<1>5. ASSUME NEW n \in 1..Len(wire), OnAck(n) \/ OnNack(n) PROVE EmptyWhenGivenUp'
  <2>1. UNCHANGED <<state, queued>> /\ (pending = <<>> => pending' = <<>>)
    <3>1. ASSUME NEW k, k = NumToComplete(wire[1].serial, n), pending = <<>>
          PROVE  SubSeq(pending, k + 1, Len(pending)) = <<>>
      BY <3>1 DEF NumToComplete
    <3> QED
      BY <1>5, <3>1 DEF OnAck, OnNack
  <2> QED
    BY <2>1
<1>6. ASSUME FailQueuedMessages(pending, queued) PROVE EmptyWhenGivenUp'
  BY <1>6 DEF FailQueuedMessages
<1>7. ASSUME NEW pend, NEW q, NEW h, NotifyDisconnected(pend, q, h)
      PROVE  EmptyWhenGivenUp'
  BY <1>1, <1>7, NotifyDisconnectedState
<1>8. ASSUME DeactivateTransport PROVE EmptyWhenGivenUp'
  BY <1>7, <1>8 DEF DeactivateTransport
<1>9. RequestConnecting \/ TryHost \/ OnDisconnectedFallback \/ OnError \/ RequestClosing
        \/ CloseDisposes \/ (\E why \in Disruptions : BeginDispose(why))
      => EmptyWhenGivenUp'
  BY <1>1, <1>2 DEF RequestConnecting, TryHost, OnDisconnectedFallback, OnError,
                    RequestClosing, CloseDisposes, BeginDispose
<1>10. ASSUME NEW id \in Ids, OnConnected(id) PROVE EmptyWhenGivenUp'
  BY <1>1, <1>2, <1>10 DEF OnConnected
<1>11. OnConnectedIncompatible \/ Suspend => EmptyWhenGivenUp'
  BY <1>6 DEF OnConnectedIncompatible, Suspend
<1>12. ConnectFails \/ OnDisconnected => EmptyWhenGivenUp'
  BY <1>7 DEF ConnectFails, OnDisconnected
<1>13. SocketCloses \/ IdleDisconnect => EmptyWhenGivenUp'
  BY <1>8 DEF SocketCloses, IdleDisconnect
<1>14. CASE CloseCompletes
  BY <1>2, <1>6, <1>14 DEF CloseCompletes
<1>15. CASE UNCHANGED vars
  BY <1>2, <1>15 DEF vars
<1> QED
  BY <1>3, <1>4, <1>5, <1>9, <1>10, <1>11, <1>12, <1>13, <1>14, <1>15 DEF Next

\* In SUSPENDED and CLOSED every publish has been settled, except those that a
\* send task is about to settle, whatever led to these states.
THEOREM GivingUpDrains == Spec => []DrainedWhenGivenUp
<1>1. Init => EmptyWhenGivenUp
  BY DEF Init, EmptyWhenGivenUp
<1>2. EmptyWhenGivenUp /\ [Next]_vars => EmptyWhenGivenUp'
  BY NextEmpties
<1>3. NothingLost /\ EmptyWhenGivenUp => DrainedWhenGivenUp
  BY EmptyRange DEF NothingLost, EmptyWhenGivenUp, DrainedWhenGivenUp
<1> QED
  BY <1>1, <1>2, <1>3, NoPublishLost, PTL DEF Spec

-----------------------------------------------------------------------------
(* Publishing while no message is queued for lack of a connection and no   *)
(* transport is replaced behind the back of the state machine.  Then the   *)
(* frames on the wire are the pending messages, position by position, and  *)
(* complete_messages settles each publish with its own answer.             *)

Harmless == {"socket", "idle", "early", "clientid"}

\* With queue_messages off a DISCONNECTED message is harmless as well: what is pending fails.
Undisturbed ==
  \/ Disruptions \subseteq Harmless
  \/ ~QueueMessages /\ Disruptions \subseteq Harmless \union {"disconnected"}

Everything == Range(pending) \union Range(queued) \union Range(tasks)

\* What the state tells of the transport, of close_impl and of the handlers that wait.
TransportFollowsState ==
  /\ state = "connected" => transport \in {"open", "dead"} /\ ~armed
  /\ state = "closing" => closeImpl # "no"
  /\ closeImpl # "no" => state \notin {"connecting", "connected"}
  /\ closeImpl = "disposed" => transport \in {"none", "dead"}
  /\ disposing \in Disruptions \union {"no"}
  /\ transport # "open" => wire = <<>>

\* Messages are pending while CONNECTED, and queued while not.
OneContainer ==
  /\ pending # <<>> => /\ state \in {"connected", "closing"}
                       /\ transport # "none" /\ ~armed /\ queued = <<>>
  /\ state = "connected" => queued = <<>>
  /\ ~QueueMessages => queued = <<>> /\ tasks = <<>>

\* No message is held twice, and whoever made it waits.
HeldOnce ==
  /\ IsInjective(pending) /\ IsInjective(queued) /\ IsInjective(tasks)
  /\ Range(tasks) \intersect (Range(pending) \union Range(queued)) = {}
  /\ Everything \subseteq Waiting \intersect AckRequired

\* The server owes an answer for exactly the pending messages, in their order.
WireIsPending ==
  transport = "open" /\ (state = "connected" \/ pending # <<>>) =>
    /\ Len(wire) = Len(pending)
    /\ \A i \in 1..Len(wire) : wire[i].msg = pending[i] /\ wire[i].serial = serial[pending[i]]

UndisturbedInv ==
  TypeOK /\ TransportFollowsState /\ OneContainer /\ HeldOnce /\ WireIsPending /\ ResultIsOwn

\* The disruptions that are absent.
LEMMA AbsentDisruptions ==
  ASSUME Undisturbed
  PROVE /\ {"fallback", "fatal", "overlap", "offline"} \intersect Disruptions = {}
        /\ "disconnected" \in Disruptions => ~QueueMessages
  BY DEF Undisturbed, Harmless

\* Every handler leaves the transport as the state tells.
LEMMA NextTransportFollowsState ==
  ASSUME Undisturbed, UndisturbedInv, [Next]_vars
  PROVE  TransportFollowsState'
<1> USE DEF lifecycle
<1>0. /\ TransportFollowsState /\ TypeOK
      /\ {"fallback", "fatal", "overlap", "offline"} \intersect Disruptions = {}
      /\ disposing \notin {"fallback", "fatal"}
  BY AbsentDisruptions DEF UndisturbedInv, TransportFollowsState
<1> DEFINE Goal == TransportFollowsState'
<1> USE DEF TransportFollowsState
<1>a. ASSUME UNCHANGED <<lifecycle, wire>> PROVE Goal
  BY <1>0, <1>a
<1>b. ASSUME NEW pend, NEW q, NEW h, NotifyDisconnected(pend, q, h)
      PROVE  state' = "disconnected"
  BY <1>b, NotifyDisconnectedState
<1>c. ASSUME DeactivateTransport
      PROVE  state' = "disconnected" /\ transport' = "none" /\ wire' = <<>>
  BY <1>b, <1>c DEF DeactivateTransport
<1>1. ASSUME NEW m, SendProtocolMessage(m) PROVE Goal
  BY <1>0, <1>1 DEF SendProtocolMessage, SendOnConnectedState, Transmit
<1>2. CASE RunSendTask
  BY <1>0, <1>2 DEF RunSendTask, SendOnConnectedState, Transmit
<1>3. ASSUME NEW n, OnAck(n) \/ OnNack(n) PROVE Goal
  BY <1>0, <1>3 DEF OnAck, OnNack, Answerable
<1>4. CASE RequestConnecting
  BY <1>0, <1>4 DEF RequestConnecting
<1>5. CASE TryHost
  BY <1>0, <1>5 DEF TryHost
<1>6. ASSUME NEW id, OnConnected(id) PROVE Goal
  BY <1>0, <1>6 DEF OnConnected, ConnectedArrives, TypeOK
<1>7. CASE OnConnectedIncompatible
  BY <1>0, <1>7 DEF OnConnectedIncompatible, ConnectedArrives
<1>8. CASE ConnectFails
  BY <1>0, <1>b, <1>8 DEF ConnectFails, Dropped
<1>9. CASE Suspend
  BY <1>0, <1>9 DEF Suspend, Dropped
<1>10. CASE SocketCloses
  BY <1>0, <1>c, <1>10 DEF SocketCloses
<1>11. ASSUME NEW why \in Disruptions, BeginDispose(why) PROVE Goal
  BY <1>0, <1>11 DEF BeginDispose
<1>12. CASE IdleDisconnect
  BY <1>0, <1>c, <1>12 DEF IdleDisconnect
<1>13. CASE OnDisconnected
  BY <1>0, <1>b, <1>13 DEF OnDisconnected, Dropped
<1>14. CASE OnDisconnectedFallback \/ OnError
  BY <1>0, <1>14 DEF OnDisconnectedFallback, OnError
<1>15. CASE RequestClosing
  BY <1>0, <1>15 DEF RequestClosing
<1>16. CASE CloseDisposes
  BY <1>0, <1>16 DEF CloseDisposes
<1>17. CASE CloseCompletes
  BY <1>0, <1>17 DEF CloseCompletes
<1>18. CASE UNCHANGED vars
  BY <1>a, <1>18 DEF vars
<1> QED
  BY <1>1, <1>2, <1>3, <1>4, <1>5, <1>6, <1>7, <1>8, <1>9, <1>10, <1>11, <1>12, <1>13, <1>14,
     <1>15, <1>16, <1>17, <1>18 DEF Next

\* The pending messages are requeued, or every message is failed.
Moved ==
  /\ pending' = <<>> /\ queued' = Requeued(pending, queued) /\ UNCHANGED future
  /\ QueueMessages \/ pending = <<>>

Failed ==
  /\ pending' = <<>> /\ queued' = <<>>
  /\ future' = Failing(future, Range(pending) \union Range(queued))

\* Requeueing puts two queues together of which one is empty.
LEMMA RequeuedIsEither ==
  ASSUME TypeOK, OneContainer
  PROVE  Requeued(pending, queued) = IF pending = <<>> THEN queued ELSE pending
  BY ConcatEmpty DEF Requeued, OneContainer, TypeOK

\* Whatever ends in DISCONNECTED requeues what was pending, or fails everything.
LEMMA LosingTheTransport ==
  ASSUME Undisturbed, UndisturbedInv,
         ConnectFails \/ OnDisconnected \/ SocketCloses \/ IdleDisconnect
  PROVE  /\ state' = "disconnected"
         /\ UNCHANGED <<tasks, serial, result, msgSerial>>
         /\ Moved \/ Failed
<1>0. /\ TypeOK /\ OneContainer /\ TransportFollowsState
      /\ "disconnected" \in Disruptions => ~QueueMessages
  BY AbsentDisruptions DEF UndisturbedInv
<1>1. Requeued(pending, queued) = IF pending = <<>> THEN queued ELSE pending
  BY <1>0, RequeuedIsEither
<1>2. Range(<<>>) \union Range(Requeued(pending, queued)) = Range(pending) \union Range(queued)
  BY <1>0, RequeuedType, EmptyRange DEF TypeOK
<1>3. state' = "disconnected"
  BY NotifyDisconnectedState
     DEF ConnectFails, OnDisconnected, SocketCloses, IdleDisconnect, DeactivateTransport
<1>4. UNCHANGED <<tasks, serial, result, msgSerial>>
  BY DEF ConnectFails, OnDisconnected, SocketCloses, IdleDisconnect
<1>5. ASSUME NEW pend, NEW q, NEW h,
             NotifyDisconnected(pend, q, h),
             \/ pend = <<>> /\ q = Requeued(pending, queued)
             \/ pend = pending /\ q = queued /\ (pending = <<>> \/ ~QueueMessages)
      PROVE  Moved \/ Failed
  <2>1. CASE state = "disconnected"
    <3>1. pending = <<>>
      BY <1>0, <2>1 DEF OneContainer
    <3> QED
      BY <1>1, <1>5, <2>1, <3>1 DEF NotifyDisconnected, Moved
  <2>2. CASE state # "disconnected" /\ QueueMessages
    BY <1>1, <1>5, <2>2, RequeuedIsEither, SMTT(60) DEF NotifyDisconnected, Moved, Requeued
  <2>3. CASE state # "disconnected" /\ ~QueueMessages
    <3> DEFINE drop == state # "connected" /\ h
               p == IF drop THEN <<>> ELSE pend
               qs == IF drop THEN Requeued(pend, q) ELSE q
    <3>1. FailQueuedMessages(p, qs)
      BY <1>5, <2>3 DEF NotifyDisconnected
    <3>2. Range(p) \union Range(qs) = Range(pending) \union Range(queued)
      BY <1>0, <1>1, <1>2, <1>5, ConcatEmpty DEF Requeued, TypeOK
    <3> HIDE DEF p, qs
    <3> QED
      BY <3>1, <3>2 DEF FailQueuedMessages, Failed
  <2> QED
    BY <2>1, <2>2, <2>3
<1>6. CASE ConnectFails
  <2>1. pending = <<>> /\ NotifyDisconnected(pending, queued, transport # "none")
    BY <1>0, <1>6 DEF ConnectFails, OneContainer
  <2> QED
    BY <1>3, <1>4, <1>5, <2>1
<1>7. CASE OnDisconnected
  <2>1. ~QueueMessages /\ NotifyDisconnected(pending, queued, transport # "none")
    BY <1>0, <1>7 DEF OnDisconnected, TransportFollowsState
  <2> QED
    BY <1>3, <1>4, <1>5, <2>1
<1>8. CASE SocketCloses \/ IdleDisconnect
  <2>1. DeactivateTransport
    BY <1>8 DEF SocketCloses, IdleDisconnect
  <2>2. transport = "none" => pending = <<>>
    BY <1>0 DEF OneContainer
  <2>3. \/ NotifyDisconnected(<<>>, Requeued(pending, queued), FALSE)
        \/ NotifyDisconnected(pending, queued, FALSE) /\ pending = <<>>
    BY <2>1, <2>2 DEF DeactivateTransport
  <2> QED
    BY <1>3, <1>4, <1>5, <2>3
<1> QED
  BY <1>6, <1>7, <1>8

\* An answer for n frames settles the n oldest pending messages, those of the frames.
LEMMA AnswersMatch ==
  ASSUME UndisturbedInv, NEW n, Answerable(n)
  PROVE  /\ n \in 1..Len(wire)
         /\ NumToComplete(wire[1].serial, n) = IF pending = <<>> THEN 0 ELSE n
         /\ pending # <<>> => /\ n \in 0..Len(pending) /\ Len(wire) = Len(pending)
                             /\ \A i \in 1..n : wire[i].msg = pending[i]
<1>1. /\ n \in 1..Len(wire) /\ n \in Nat /\ Len(wire) \in Nat /\ wire[1].serial \in Int
  BY AnswerableType DEF UndisturbedInv
<1>2. CASE pending = <<>>
  BY <1>1, <1>2 DEF NumToComplete
<1>3. CASE pending # <<>>
  <2>1. /\ Len(wire) = Len(pending)
        /\ \A i \in 1..Len(wire) : wire[i].msg = pending[i] /\ wire[i].serial = serial[pending[i]]
    BY <1>3 DEF UndisturbedInv, WireIsPending, Answerable
  <2>2. Head(pending) = pending[1] /\ 1 \in 1..Len(wire)
    BY <1>1, <1>3, HeadTailProperties DEF UndisturbedInv, TypeOK
  <2>3. wire[1].serial = serial[Head(pending)]
    BY <2>1, <2>2
  <2>4. NumToComplete(wire[1].serial, n) = n
    BY <1>1, <1>3, <2>1, <2>3 DEF NumToComplete
  <2>5. \A i \in 1..n : i \in 1..Len(wire)
    BY <1>1
  <2>6. \A i \in 1..n : wire[i].msg = pending[i]
    BY <2>1, <2>5
  <2> QED
    BY <1>1, <1>3, <2>1, <2>4, <2>6
<1> QED
  BY <1>2, <1>3

\* The messages that an answer for n frames settles.
Oldest(n) == IF pending = <<>> THEN {} ELSE {pending[i] : i \in 1..n}

\* An answer settles the oldest messages, each with the result of its own frame.
LEMMA AnswerEffect ==
  ASSUME UndisturbedInv, NEW n, OnAck(n) \/ OnNack(n)
  PROVE  /\ UNCHANGED <<lifecycle, msgSerial, queued, tasks, serial>>
         /\ Oldest(n) \subseteq Waiting \intersect Range(pending)
         /\ \E k \in 0..Len(pending) :
              /\ pending' = SubSeq(pending, k + 1, Len(pending))
              /\ Oldest(n) = {pending[i] : i \in 1..k}
              /\ pending # <<>> => k = n
         /\ n \in 1..Len(wire)
         /\ pending # <<>> => Len(wire) = Len(pending)
         /\ wire' = SubSeq(wire, n + 1, Len(wire))
         /\ OnNack(n) => future' = Failing(future, Oldest(n)) /\ UNCHANGED result
         /\ OnAck(n) =>
              /\ future' = [m \in Messages |-> IF m \in Oldest(n) THEN "ok" ELSE future[m]]
              /\ result' = [m \in Messages |-> IF m \in Oldest(n) THEN m ELSE result[m]]
<1> DEFINE k == NumToComplete(wire[1].serial, n)
<1>1. /\ n \in 1..Len(wire) /\ n \in Nat /\ Len(wire) \in Nat
      /\ k = IF pending = <<>> THEN 0 ELSE n
      /\ pending # <<>> => /\ n \in 0..Len(pending) /\ Len(wire) = Len(pending)
                          /\ \A i \in 1..n : wire[i].msg = pending[i]
  BY AnswersMatch, AnswerableType DEF OnAck, OnNack, UndisturbedInv
<1>2. /\ pending' = SubSeq(pending, k + 1, Len(pending))
      /\ wire' = SubSeq(wire, n + 1, Len(wire))
      /\ UNCHANGED <<lifecycle, msgSerial, queued, tasks, serial>>
      /\ OnNack(n) => future' = Failing(future, {pending[i] : i \in 1..k}) /\ UNCHANGED result
  BY DEF OnAck, OnNack
<1>3. OnAck(n) =>
        /\ future' = [m \in Messages |-> IF m \in Completing(k) THEN "ok" ELSE future[m]]
        /\ result' = [m \in Messages |->
                        IF m \in Completing(k) /\ (CHOOSE i \in 1..k : pending[i] = m) <= n
                        THEN wire[CHOOSE i \in 1..k : pending[i] = m].msg
                        ELSE result[m]]
  BY DEF OnAck
<1> HIDE DEF k
<1>4. k \in 0..Len(pending) /\ k \in 0..n /\ (pending # <<>> => k = n)
  BY <1>1, LenProperties DEF UndisturbedInv, TypeOK
<1>5. Oldest(n) = {pending[i] : i \in 1..k}
  BY <1>1, <1>4 DEF Oldest
<1>6. Oldest(n) \subseteq Waiting \intersect Range(pending)
  <2>1. \A i \in 1..k : i \in DOMAIN pending
    BY <1>4, LenProperties DEF UndisturbedInv, TypeOK
  <2> QED
    BY <1>5, <2>1 DEF Range, UndisturbedInv, HeldOnce, Everything
<1>7. Completing(k) = Oldest(n)
  BY <1>5, <1>6 DEF Completing
<1>8. ASSUME NEW m \in Oldest(n)
      PROVE  /\ (CHOOSE i \in 1..k : pending[i] = m) <= n
             /\ wire[CHOOSE i \in 1..k : pending[i] = m].msg = m
  <2> DEFINE p == CHOOSE i \in 1..k : pending[i] = m
  <2>1. \E i \in 1..k : pending[i] = m
    BY <1>5
  <2>2. p \in 1..k /\ pending[p] = m
    BY <2>1
  <2> HIDE DEF p
  <2>3. pending # <<>> /\ p \in 1..n /\ p <= n
    BY <1>1, <1>4, <2>2
  <2>4. wire[p].msg = m
    BY <1>1, <2>2, <2>3
  <2> QED
    BY <2>3, <2>4 DEF p
<1>9. OnAck(n) =>
        /\ future' = [m \in Messages |-> IF m \in Oldest(n) THEN "ok" ELSE future[m]]
        /\ result' = [m \in Messages |-> IF m \in Oldest(n) THEN m ELSE result[m]]
  BY <1>3, <1>7, <1>8
<1>10. OnNack(n) => future' = Failing(future, Oldest(n)) /\ UNCHANGED result
  BY <1>2, <1>5
<1> QED
  BY <1>1, <1>2, <1>4, <1>5, <1>6, <1>9, <1>10

\* Sending one message on a connected transport.
LEMMA SendEffect ==
  ASSUME UndisturbedInv, Undisturbed, NEW m \in Messages, SendProtocolMessage(m)
  PROVE  /\ state = "connected" /\ transport \in {"open", "dead"}
         /\ m \notin Everything /\ future[m] = "idle"
         /\ UNCHANGED <<lifecycle, tasks, queued, result>>
         /\ m \in Control =>
              /\ UNCHANGED <<pending, serial, msgSerial, wire>>
              /\ future' = [future EXCEPT ![m] = "sent"]
         /\ m \in AckRequired =>
              /\ pending' = Append(pending, m)
              /\ serial' = [serial EXCEPT ![m] = msgSerial] /\ msgSerial' = msgSerial + 1
              /\ wire' = IF transport = "open"
                         THEN Append(wire, [msg |-> m, serial |-> msgSerial]) ELSE wire
              /\ future' = [future EXCEPT ![m] = "waiting"]
<1>1. state = "connected" /\ transport \in {"open", "dead"}
  BY AbsentDisruptions DEF SendProtocolMessage, UndisturbedInv, TransportFollowsState
<1>2. m \notin Everything /\ future[m] = "idle"
  BY DEF SendProtocolMessage, UndisturbedInv, HeldOnce, Waiting
<1>3. m \in AckRequired => m \in Range(Append(pending, m)) /\ m \notin Control
  BY AppendRange DEF AckRequired, UndisturbedInv, TypeOK
<1>4. m \in Control => m \notin AckRequired
  BY DEF AckRequired
<1> QED
  BY <1>1, <1>2, <1>3, <1>4 DEF SendProtocolMessage, SendOnConnectedState, Transmit

\* A send task resends its message as pending, or fails it.
LEMMA TaskEffect ==
  ASSUME UndisturbedInv, RunSendTask
  PROVE  /\ Head(tasks) \in AckRequired \intersect Waiting
         /\ Head(tasks) \notin Range(pending) \union Range(queued)
         /\ tasks # <<>> /\ tasks' = Tail(tasks)
         /\ UNCHANGED <<lifecycle, msgSerial, queued, serial, result>>
         /\ state = "connected" =>
              /\ UNCHANGED future
              /\ pending' = Append(pending, Head(tasks))
              /\ wire' = IF transport = "open"
                         THEN Append(wire, [msg |-> Head(tasks), serial |-> serial[Head(tasks)]])
                         ELSE wire
         /\ state # "connected" =>
              future' = Failing(future, {Head(tasks)}) /\ UNCHANGED <<pending, wire>>
<1>1. Head(tasks) \in Range(tasks)
  BY TailRange DEF RunSendTask, UndisturbedInv, TypeOK
<1>2. /\ Head(tasks) \in AckRequired \intersect Waiting
      /\ Head(tasks) \notin Range(pending) \union Range(queued)
  BY <1>1 DEF UndisturbedInv, HeldOnce, Everything
<1>3. state = "connected" => transport # "none"
  BY DEF UndisturbedInv, TransportFollowsState
<1> QED
  BY <1>2, <1>3 DEF RunSendTask, SendOnConnectedState, Transmit, AckRequired

\* A CONNECTED message finds nothing pending and no task, and the queue on its way.
LEMMA ConnectedEffect ==
  ASSUME UndisturbedInv, (\E id \in Ids : OnConnected(id)) \/ OnConnectedIncompatible
  PROVE  /\ state # "connected" /\ pending = <<>> /\ tasks = <<>> /\ wire = <<>>
         /\ UNCHANGED <<pending, serial, result, wire>> /\ queued' = <<>>
         /\ \/ /\ tasks' = queued /\ UNCHANGED future
               /\ ~OnConnectedIncompatible /\ state' = "connected"
            \/ UNCHANGED tasks /\ future' = Failing(future, Range(queued)) /\ state' = "failed"
<1>1. transport = "opening" /\ tasks = <<>> /\ closeImpl # "requested"
  BY DEF OnConnected, OnConnectedIncompatible, ConnectedArrives
<1>2. state \notin {"connected", "closing"} /\ wire = <<>> /\ pending = <<>>
  BY <1>1 DEF UndisturbedInv, TransportFollowsState, OneContainer, TypeOK
<1>3. CASE OnConnectedIncompatible
  BY <1>1, <1>2, <1>3, EmptyRange DEF OnConnectedIncompatible, FailQueuedMessages
<1>4. CASE ~OnConnectedIncompatible
  BY <1>1, <1>2, <1>4 DEF OnConnected
<1> QED
  BY <1>3, <1>4

\* Everything else leaves the messages where they are, moves the pending ones to the
\* queue, or fails all.
Shift ==
  /\ UNCHANGED <<tasks, serial, result>>
  /\ \/ /\ UNCHANGED <<pending, queued, future>>
        /\ transport' = "open" => transport = "open" /\ UNCHANGED wire
        /\ state' # state => state' # "connected"
        /\ pending # <<>> => state' \in {state, "closing"} /\ transport' # "none" /\ ~armed'
     \/ (Moved \/ Failed) /\ state' # "connected"

Shifting ==
  \/ RequestConnecting \/ TryHost \/ ConnectFails \/ Suspend \/ SocketCloses
  \/ (\E why \in Disruptions : BeginDispose(why))
  \/ IdleDisconnect \/ OnDisconnected \/ OnDisconnectedFallback \/ OnError
  \/ RequestClosing \/ CloseDisposes \/ CloseCompletes \/ UNCHANGED vars

\* None of the other handlers reorders, drops or doubles a message.
LEMMA ShiftEffect ==
  ASSUME UndisturbedInv, Undisturbed, Shifting
  PROVE  Shift
<1>0. /\ TransportFollowsState /\ OneContainer
      /\ {"fallback", "fatal", "overlap", "offline"} \intersect Disruptions = {}
  BY AbsentDisruptions DEF UndisturbedInv
<1> USE DEF lifecycle
<1>1. CASE ConnectFails \/ OnDisconnected \/ SocketCloses \/ IdleDisconnect
  BY <1>1, LosingTheTransport DEF Shift
<1>2. CASE Suspend
  BY <1>2 DEF Suspend, FailQueuedMessages, Shift, Failed
<1>3. CASE CloseCompletes
  BY <1>0, <1>3 DEF CloseCompletes, FailQueuedMessages, Shift, Failed, OneContainer
<1>4. CASE RequestConnecting
  BY <1>0, <1>4 DEF RequestConnecting, Shift, OneContainer, TransportFollowsState
<1>5. CASE TryHost \/ CloseDisposes \/ UNCHANGED vars
             \/ (\E why \in Disruptions : BeginDispose(why))
  BY <1>0, <1>5 DEF TryHost, BeginDispose, CloseDisposes, vars, Shift, OneContainer
<1>6. CASE RequestClosing
  BY <1>0, <1>6 DEF RequestClosing, Shift, OneContainer
<1>7. CASE OnDisconnectedFallback \/ OnError
  BY <1>0, <1>7 DEF OnDisconnectedFallback, OnError, TransportFollowsState
<1> QED
  BY <1>1, <1>2, <1>3, <1>4, <1>5, <1>6, <1>7 DEF Shifting

\* The steps of the send path, sorted by what they do to its queues.
LEMMA StepsSorted ==
  ASSUME [Next]_vars
  PROVE  \/ \E m \in Messages : SendProtocolMessage(m)
         \/ RunSendTask
         \/ \E n : OnAck(n) \/ OnNack(n)
         \/ (\E id \in Ids : OnConnected(id)) \/ OnConnectedIncompatible
         \/ Shifting
  BY DEF Next, Shifting

\* No handler leaves a message pending without a connection, or queued with one.
LEMMA NextOneContainer ==
  ASSUME UndisturbedInv, Undisturbed, [Next]_vars
  PROVE  OneContainer'
<1>0. OneContainer /\ TypeOK /\ TransportFollowsState
  BY DEF UndisturbedInv
<1> USE DEF OneContainer, lifecycle
<1>1. ASSUME NEW m \in Messages, SendProtocolMessage(m) PROVE OneContainer'
  BY <1>0, <1>1, SendEffect DEF AckRequired, TransportFollowsState
<1>2. CASE RunSendTask
  BY <1>0, <1>2, TaskEffect DEF TransportFollowsState
<1>3. ASSUME NEW n, OnAck(n) \/ OnNack(n) PROVE OneContainer'
  <2>1. pending = <<>> => pending' = <<>>
    <3>1. ASSUME NEW k \in 0..Len(pending), pending = <<>>
          PROVE  SubSeq(pending, k + 1, Len(pending)) = <<>>
      BY <3>1
    <3> QED
      BY <1>3, <3>1, AnswerEffect
  <2>2. UNCHANGED <<lifecycle, queued, tasks>>
    BY <1>3 DEF OnAck, OnNack
  <2> QED
    BY <1>0, <2>1, <2>2
<1>4. CASE (\E id \in Ids : OnConnected(id)) \/ OnConnectedIncompatible
  BY <1>0, <1>4, ConnectedEffect
<1>5. CASE Shifting
  <2>1. Moved => queued' = IF pending = <<>> THEN queued ELSE pending
    BY <1>0, RequeuedIsEither DEF Moved
  <2> QED
    BY <1>0, <1>5, <2>1, ShiftEffect DEF Shift, Moved, Failed
<1> QED
  BY <1>1, <1>2, <1>3, <1>4, <1>5, StepsSorted

\* No handler makes two of a message.
LEMMA NextHeldOnce ==
  ASSUME UndisturbedInv, Undisturbed, [Next]_vars
  PROVE  HeldOnce'
<1>0. OneContainer /\ TypeOK /\ HeldOnce /\ Control \intersect AckRequired = {}
  BY DEF UndisturbedInv, AckRequired
<1> USE DEF lifecycle
<1>i. IsInjective(<<>>) /\ Range(<<>>) = {}
  BY InjectiveEmpty, EmptyRange
<1>1. ASSUME NEW m \in Messages, SendProtocolMessage(m) PROVE HeldOnce'
  <2>1. CASE m \in AckRequired
    <3>1. pending' = Append(pending, m) /\ m \notin Everything
          /\ UNCHANGED <<queued, tasks>> /\ future' = [future EXCEPT ![m] = "waiting"]
      BY <1>1, <2>1, SendEffect
    <3>2. IsInjective(pending') /\ Range(pending') = Range(pending) \union {m}
      BY <1>0, <2>1, <3>1, InjectiveAppend, AppendRange DEF TypeOK, HeldOnce, Everything
    <3> QED
      BY <1>0, <2>1, <3>1, <3>2 DEF HeldOnce, Everything, Waiting, TypeOK
  <2>2. CASE m \in Control
    <3>1. UNCHANGED <<pending, queued, tasks>> /\ future' = [future EXCEPT ![m] = "sent"]
      BY <1>1, <2>2, SendEffect
    <3> QED
      BY <1>0, <2>2, <3>1 DEF HeldOnce, Everything, Waiting, TypeOK
  <2> QED
    BY <2>1, <2>2 DEF AckRequired
<1>2. CASE RunSendTask
  <2> DEFINE h == Head(tasks)
  <2>1. /\ h \in AckRequired \intersect Waiting /\ h \notin Range(pending) \union Range(queued)
        /\ tasks # <<>> /\ tasks' = Tail(tasks) /\ UNCHANGED queued
        /\ state = "connected" => UNCHANGED future /\ pending' = Append(pending, h)
        /\ state # "connected" => future' = Failing(future, {h}) /\ UNCHANGED pending
    BY <1>2, TaskEffect
  <2>2. /\ IsInjective(tasks') /\ h \notin Range(tasks')
        /\ Range(tasks) = {h} \union Range(tasks')
    BY <1>0, <2>1, InjectiveTail, TailRange DEF TypeOK, HeldOnce
  <2>3. CASE state = "connected"
    <3>1. IsInjective(pending') /\ Range(pending') = Range(pending) \union {h}
      <4>1. pending \in Seq(AckRequired) /\ IsInjective(pending) /\ pending' = Append(pending, h)
            /\ h \in AckRequired /\ h \notin Range(pending)
        BY <1>0, <2>1, <2>3 DEF TypeOK, HeldOnce
      <4> HIDE DEF h
      <4> QED
        BY <4>1, InjectiveAppend, AppendRange
    <3> QED
      BY <1>0, <2>1, <2>2, <2>3, <3>1 DEF HeldOnce, Everything, Waiting
  <2>4. CASE state # "connected"
    BY <1>0, <2>1, <2>2, <2>4 DEF HeldOnce, Everything, Waiting, Failing, AckRequired
  <2> QED
    BY <2>3, <2>4
<1>3. ASSUME NEW n, OnAck(n) \/ OnNack(n) PROVE HeldOnce'
  <2>1. PICK k \in 0..Len(pending) :
          pending' = SubSeq(pending, k + 1, Len(pending)) /\ Oldest(n) = {pending[i] : i \in 1..k}
    BY <1>3, AnswerEffect
  <2>2. /\ IsInjective(pending') /\ Range(pending') \subseteq Range(pending)
        /\ \A x \in Range(pending') : x \notin Oldest(n)
    BY <1>0, <2>1, InjectiveDrop DEF TypeOK, HeldOnce
  <2>3. /\ UNCHANGED <<queued, tasks>> /\ Oldest(n) \subseteq Range(pending)
        /\ \A m \in Messages \ Oldest(n) : future'[m] = future[m]
    BY <1>3, AnswerEffect DEF Failing
  <2>4. Range(queued) = {} \/ pending' = <<>>
    BY <1>0, <1>i, <1>3, NextOneContainer, <2>1, <2>3, EmptyRange DEF OneContainer
  <2>5. ASSUME NEW m \in Everything' PROVE m \in Waiting' \intersect AckRequired
    <3>1. m \in Everything /\ m \in Waiting /\ m \in AckRequired /\ m \in Messages
      BY <1>0, <2>2, <2>3, <2>5 DEF HeldOnce, Everything, AckRequired
    <3>2. m \notin Oldest(n)
      <4>1. CASE m \in Range(pending')
        BY <2>2, <4>1
      <4>2. CASE m \in Range(queued)
        <5>1. pending = <<>>
          BY <1>0, <1>i, <4>2 DEF OneContainer
        <5> QED
          BY <1>i, <2>3, <5>1
      <4>3. CASE m \in Range(tasks)
        BY <1>0, <2>3, <4>3 DEF HeldOnce
      <4> QED
        BY <2>3, <2>5, <4>1, <4>2, <4>3 DEF Everything
    <3> QED
      BY <2>3, <3>1, <3>2 DEF Waiting
  <2> QED
    BY <1>0, <2>2, <2>3, <2>5 DEF HeldOnce
<1>4. CASE (\E id \in Ids : OnConnected(id)) \/ OnConnectedIncompatible
  <2>1. /\ pending = <<>> /\ tasks = <<>> /\ UNCHANGED pending /\ queued' = <<>>
        /\ \/ tasks' = queued /\ UNCHANGED future
           \/ UNCHANGED tasks
    BY <1>4, ConnectedEffect
  <2> QED
    BY <1>0, <1>i, <2>1 DEF HeldOnce, Everything, Waiting
<1>5. CASE Shifting
  <2>1. Shift
    BY <1>5, ShiftEffect
  <2>2. CASE UNCHANGED <<pending, queued, future>>
    BY <1>0, <2>1, <2>2 DEF Shift, HeldOnce, Everything, Waiting
  <2>3. CASE Moved
    <3>1. /\ pending' = <<>> /\ UNCHANGED <<tasks, future>>
          /\ queued' = IF pending = <<>> THEN queued ELSE pending
      BY <1>0, <2>1, <2>3, RequeuedIsEither DEF Moved, Shift
    <3> QED
      BY <1>0, <1>i, <3>1 DEF HeldOnce, Everything, Waiting
  <2>4. CASE Failed
    BY <1>0, <1>i, <2>1, <2>4 DEF Failed, Shift, HeldOnce, Everything, Waiting, Failing
  <2> QED
    BY <2>1, <2>2, <2>3, <2>4 DEF Shift
<1> QED
  BY <1>1, <1>2, <1>3, <1>4, <1>5, StepsSorted

\* A message that is sent is pending and on the wire at the same place.
LEMMA BothGrow ==
  ASSUME TypeOK, WireIsPending, transport = "open", state = "connected",
         NEW m \in AckRequired, m \notin Range(pending), NEW s \in Nat \union {-1}, s = serial'[m],
         \A n \in Messages \ {m} : serial'[n] = serial[n],
         pending' = Append(pending, m), wire' = Append(wire, [msg |-> m, serial |-> s])
  PROVE  WireIsPending'
<1>1. /\ pending \in Seq(AckRequired) /\ wire \in Seq(Frames)
      /\ [msg |-> m, serial |-> s] \in Frames /\ AckRequired \subseteq Messages
  BY DEF TypeOK, Frames, AckRequired
<1>2. /\ Len(wire) = Len(pending) /\ Len(pending) \in Nat
      /\ \A i \in 1..Len(wire) : wire[i].msg = pending[i] /\ wire[i].serial = serial[pending[i]]
  BY <1>1, LenProperties DEF WireIsPending
<1>3. /\ Len(wire') = Len(wire) + 1 /\ Len(pending') = Len(pending) + 1
      /\ wire'[Len(wire) + 1] = [msg |-> m, serial |-> s] /\ pending'[Len(pending) + 1] = m
      /\ \A i \in 1..Len(wire) : wire'[i] = wire[i]
      /\ \A i \in 1..Len(pending) : pending'[i] = pending[i]
  BY <1>1, AppendProperties
<1>4. \A i \in 1..Len(pending) : pending[i] \in Messages \ {m}
  BY <1>1, ElementOfSeq, LenProperties DEF Range
<1>5. ASSUME NEW i \in 1..Len(wire')
      PROVE  wire'[i].msg = pending'[i] /\ wire'[i].serial = serial'[pending'[i]]
  <2>1. CASE i \in 1..Len(wire)
    BY <1>2, <1>3, <1>4, <2>1, SMTT(60)
  <2>2. CASE i = Len(wire) + 1
    BY <1>2, <1>3, <2>2
  <2> QED
    BY <1>2, <1>3, <2>1, <2>2
<1> QED
  BY <1>2, <1>3, <1>5 DEF WireIsPending

\* Every handler keeps the wire and the pending messages in step.
LEMMA NextWireIsPending ==
  ASSUME UndisturbedInv, Undisturbed, [Next]_vars
  PROVE  WireIsPending'
<1>0. OneContainer /\ TypeOK /\ HeldOnce /\ WireIsPending /\ Control \intersect AckRequired = {}
  BY DEF UndisturbedInv, AckRequired
<1> USE DEF lifecycle
<1>1. ASSUME NEW m \in Messages, SendProtocolMessage(m) PROVE WireIsPending'
  <2>1. CASE m \in AckRequired
    <3>1. /\ pending' = Append(pending, m) /\ m \notin Range(pending) /\ state = "connected"
          /\ serial' = [serial EXCEPT ![m] = msgSerial] /\ UNCHANGED transport
          /\ transport = "open" => wire' = Append(wire, [msg |-> m, serial |-> msgSerial])
      BY <1>1, <2>1, SendEffect DEF Everything
    <3>2. msgSerial \in Nat \union {-1} /\ serial'[m] = msgSerial
          /\ \A n \in Messages \ {m} : serial'[n] = serial[n]
      BY <1>0, <3>1 DEF TypeOK
    <3>3. CASE transport = "open"
      BY <1>0, <2>1, <3>1, <3>2, <3>3, BothGrow
    <3>4. CASE transport # "open"
      BY <3>1, <3>4 DEF WireIsPending
    <3> QED
      BY <3>3, <3>4
  <2>2. CASE m \in Control
    BY <1>0, <1>1, <2>2, SendEffect DEF WireIsPending
  <2> QED
    BY <2>1, <2>2 DEF AckRequired
<1>2. CASE RunSendTask
  <2>1. CASE state = "connected" /\ transport = "open"
    <3> DEFINE h == Head(tasks)
    <3>1. /\ h \in AckRequired /\ h \notin Range(pending) /\ UNCHANGED serial
          /\ pending' = Append(pending, h)
          /\ wire' = Append(wire, [msg |-> h, serial |-> serial[h]])
      BY <1>2, <2>1, TaskEffect
    <3>2. serial[h] \in Nat \union {-1} /\ serial[h] = serial'[h]
      BY <1>0, <3>1 DEF TypeOK, AckRequired
    <3> HIDE DEF h
    <3> QED
      BY <1>0, <2>1, <3>1, <3>2, BothGrow
  <2>2. CASE ~(state = "connected" /\ transport = "open")
    BY <1>0, <1>2, <2>2, TaskEffect DEF WireIsPending
  <2> QED
    BY <2>1, <2>2
<1>3. ASSUME NEW n, OnAck(n) \/ OnNack(n) PROVE WireIsPending'
  <2>1. /\ n \in 1..Len(wire) /\ transport = "open"
        /\ UNCHANGED <<transport, state, serial>>
        /\ wire' = SubSeq(wire, n + 1, Len(wire))
    BY <1>3, AnswerEffect DEF OnAck, OnNack, Answerable
  <2>2. PICK k \in 0..Len(pending) :
          pending' = SubSeq(pending, k + 1, Len(pending)) /\ (pending # <<>> => k = n)
    BY <1>3, AnswerEffect
  <2>3. CASE pending = <<>>
    <3>1. pending' = <<>>
      BY <2>2, <2>3
    <3>2. state # "connected"
      BY <1>0, <2>1, <2>3 DEF WireIsPending
    <3> QED
      BY <2>1, <3>1, <3>2 DEF WireIsPending
  <2>4. CASE pending # <<>>
    <3>1. /\ Len(wire) = Len(pending) /\ n \in 0..Len(wire) /\ Len(wire) \in Nat /\ n \in Nat
          /\ \A i \in 1..Len(wire) : wire[i].msg = pending[i] /\ wire[i].serial = serial[pending[i]]
          /\ pending' = SubSeq(pending, n + 1, Len(pending))
      BY <1>0, <2>1, <2>2, <2>4, LenProperties DEF WireIsPending, TypeOK
    <3>2. /\ Len(wire') = Len(wire) - n /\ Len(pending') = Len(pending) - n
          /\ \A i \in 1..(Len(wire) - n) : wire'[i] = wire[i + n] /\ pending'[i] = pending[i + n]
      BY <1>0, <2>1, <3>1, DropType DEF TypeOK
    <3>3. \A i \in 1..(Len(wire) - n) : i + n \in 1..Len(wire)
      BY <3>1
    <3>4. ASSUME NEW i \in 1..Len(wire')
          PROVE  wire'[i].msg = pending'[i] /\ wire'[i].serial = serial'[pending'[i]]
      <4>1. /\ wire'[i] = wire[i + n] /\ pending'[i] = pending[i + n] /\ i + n \in 1..Len(wire)
            /\ serial' = serial
        BY <2>1, <3>2, <3>3, <3>4
      <4> QED
        BY <3>1, <4>1
    <3>5. Len(wire') = Len(pending')
      BY <3>1, <3>2
    <3> QED
      BY <3>4, <3>5 DEF WireIsPending
  <2> QED
    BY <2>3, <2>4
<1>4. CASE (\E id \in Ids : OnConnected(id)) \/ OnConnectedIncompatible
  <2>1. pending' = <<>> /\ wire' = <<>>
    BY <1>4, ConnectedEffect
  <2> QED
    BY <2>1 DEF WireIsPending
<1>5. CASE Shifting
  <2>1. Shift
    BY <1>5, ShiftEffect
  <2> QED
    BY <1>0, <2>1 DEF Shift, Moved, Failed, WireIsPending
<1> QED
  BY <1>1, <1>2, <1>3, <1>4, <1>5, StepsSorted

\* No answer settles a message with the result of another.
LEMMA NextResultIsOwn ==
  ASSUME UndisturbedInv, Undisturbed, [Next]_vars
  PROVE  ResultIsOwn'
<1>0. TypeOK /\ ResultIsOwn
  BY DEF UndisturbedInv
<1>1. ASSUME NEW m \in Messages, SendProtocolMessage(m) PROVE ResultIsOwn'
  <2>1. /\ UNCHANGED result
        /\ future' \in {[future EXCEPT ![m] = "sent"], [future EXCEPT ![m] = "waiting"]}
    BY <1>1, SendEffect DEF AckRequired
  <2> QED
    BY <1>0, <2>1 DEF ResultIsOwn, TypeOK
<1>2. CASE RunSendTask
  <2>1. UNCHANGED result /\ future' \in {future, Failing(future, {Head(tasks)})}
    BY <1>2, TaskEffect
  <2> QED
    BY <1>0, <2>1 DEF ResultIsOwn, Failing
<1>3. ASSUME NEW n, OnAck(n) \/ OnNack(n) PROVE ResultIsOwn'
  BY <1>0, <1>3, AnswerEffect DEF ResultIsOwn, Failing
<1>4. CASE (\E id \in Ids : OnConnected(id)) \/ OnConnectedIncompatible
  BY <1>0, <1>4, ConnectedEffect DEF ResultIsOwn, Failing
<1>5. CASE Shifting
  BY <1>0, <1>5, ShiftEffect DEF Shift, Moved, Failed, ResultIsOwn, Failing
<1> QED
  BY <1>1, <1>2, <1>3, <1>4, <1>5, StepsSorted

\* The invariant holds at the start, and every step keeps it.
LEMMA InitUndisturbed == Init => UndisturbedInv
<1> SUFFICES ASSUME Init PROVE UndisturbedInv
  OBVIOUS
<1>1. TypeOK /\ IsInjective(<<>>) /\ Range(<<>>) = {}
  BY InitType, InjectiveEmpty, EmptyRange
<1> QED
  BY <1>1 DEF Init, UndisturbedInv, TransportFollowsState, OneContainer, HeldOnce, Everything,
              WireIsPending, ResultIsOwn

\* (The steps.)
LEMMA NextUndisturbed ==
  ASSUME Undisturbed, UndisturbedInv, [Next]_vars
  PROVE  UndisturbedInv'
<1>1. TypeOK'
  BY NextType DEF UndisturbedInv
<1> QED
  BY <1>1, NextTransportFollowsState, NextOneContainer, NextHeldOnce, NextWireIsPending,
     NextResultIsOwn DEF UndisturbedInv

\* Hence it always holds.
LEMMA UndisturbedInvariant ==
  ASSUME Undisturbed
  PROVE  Spec => []UndisturbedInv
  BY InitUndisturbed, NextUndisturbed, PTL DEF Spec

\* For any messages and connection ids, with or without queue_messages: a publish that is
\* reported as successful carries the result that the server gave to that very message.
THEOREM ResultsAreOwn ==
  ASSUME Undisturbed
  PROVE  Spec => []ResultIsOwn
<1>1. UndisturbedInv => ResultIsOwn
  BY DEF UndisturbedInv
<1> QED
  BY <1>1, UndisturbedInvariant, PTL

-----------------------------------------------------------------------------
(* What is settled is not sent.  While no message is queued for lack of a  *)
(* connection, a message is in one place at a time, whatever becomes of    *)
(* the transports; so the answer or failure that settles it also takes it  *)
(* out of its queue.                                                       *)

\* No message is in two places, and a send always finds a transport.
Apart ==
  /\ HeldOnce
  /\ Range(pending) \intersect Range(queued) = {}
  /\ state = "connected" => transport # "none"

ApartInv == TypeOK /\ Apart

\* Two sequences without repetitions that share no element, one after the other.
LEMMA InjectiveConcat ==
  ASSUME NEW S, NEW s \in Seq(S), NEW t \in Seq(S), IsInjective(s), IsInjective(t),
         Range(s) \intersect Range(t) = {}
  PROVE  IsInjective(s \o t)
<1> DEFINE u == s \o t
<1>1. /\ Len(u) = Len(s) + Len(t) /\ u \in Seq(S)
      /\ \A i \in 1..Len(s) : u[i] = s[i]
      /\ \A i \in 1..Len(t) : u[Len(s) + i] = t[i]
  BY ConcatProperties
<1>2. /\ DOMAIN u = 1..(Len(s) + Len(t)) /\ DOMAIN s = 1..Len(s) /\ DOMAIN t = 1..Len(t)
      /\ Len(s) \in Nat /\ Len(t) \in Nat
  BY <1>1, LenProperties
<1> HIDE DEF u
<1>3. ASSUME NEW i \in DOMAIN u
      PROVE  \/ i \in DOMAIN s /\ u[i] = s[i]
             \/ /\ i - Len(s) \in DOMAIN t /\ i = Len(s) + (i - Len(s))
                /\ u[i] = t[i - Len(s)]
  <2>1. CASE i \in 1..Len(s)
    BY <1>1, <1>2, <2>1
  <2>2. CASE i \notin 1..Len(s)
    <3>1. i - Len(s) \in 1..Len(t) /\ i = Len(s) + (i - Len(s))
      BY <1>2, <2>2
    <3> QED
      BY <1>1, <1>2, <3>1
  <2> QED
    BY <2>1, <2>2
<1>4. \A i \in DOMAIN s, j \in DOMAIN t : s[i] # t[j]
  BY DEF Range
<1>5. ASSUME NEW i \in DOMAIN u, NEW j \in DOMAIN u, u[i] = u[j] PROVE i = j
  BY <1>3, <1>4, <1>5 DEF IsInjective
<1> QED
  BY <1>5 DEF IsInjective, u

\* The queues stay as they are, or the pending messages go in front of the queued ones.
Stayed == UNCHANGED <<pending, queued, future>>

MovedInFront == pending' = <<>> /\ queued' = Requeued(pending, queued) /\ UNCHANGED future

\* notify_state(DISCONNECTED), after the requeueing or before it, moves all or fails all.
LEMMA LosingMoves ==
  ASSUME TypeOK, NEW pend, NEW q, NEW h, NotifyDisconnected(pend, q, h),
         \/ pend = pending /\ q = queued
         \/ pend = <<>> /\ q = Requeued(pending, queued)
  PROVE  Stayed \/ MovedInFront \/ Failed
<1>1. /\ pending \in Seq(AckRequired) /\ queued \in Seq(Messages)
      /\ Requeued(pending, queued) \in Seq(Messages)
      /\ Range(Requeued(pending, queued)) = Range(pending) \union Range(queued)
  BY RequeuedType DEF TypeOK
<1>2. Requeued(<<>>, Requeued(pending, queued)) = Requeued(pending, queued)
  BY <1>1, ConcatEmpty DEF Requeued
<1>3. CASE state = "disconnected"
  BY <1>3 DEF NotifyDisconnected, Stayed, MovedInFront
<1>4. CASE state # "disconnected"
  <2> DEFINE drop == state # "connected" /\ h
             p == IF drop THEN <<>> ELSE pend
             qs == IF drop THEN Requeued(pend, q) ELSE q
  <2>1. \/ p = pending /\ qs = queued
        \/ p = <<>> /\ qs = Requeued(pending, queued)
    BY <1>2
  <2>2. \/ pending' = p /\ queued' = qs /\ UNCHANGED future
        \/ FailQueuedMessages(p, qs)
    BY <1>4 DEF NotifyDisconnected
  <2> HIDE DEF p, qs
  <2>3. Range(p) \union Range(qs) = Range(pending) \union Range(queued)
    BY <1>1, <2>1, EmptyRange
  <2> QED
    BY <2>1, <2>2, <2>3 DEF FailQueuedMessages, Stayed, MovedInFront, Failed
<1> QED
  BY <1>3, <1>4

\* Whatever leaves the send tasks alone and moves all or fails all keeps messages apart.
LEMMA MovesKeepApart ==
  ASSUME ApartInv, UNCHANGED tasks, Stayed \/ MovedInFront \/ Failed,
         state' = "connected" => transport' # "none"
  PROVE  Apart'
<1>1. IsInjective(<<>>) /\ Range(<<>>) = {}
  BY InjectiveEmpty, EmptyRange
<1>2. CASE Stayed
  BY <1>2 DEF Stayed, ApartInv, Apart, HeldOnce, Everything, Waiting
<1>3. CASE MovedInFront
  <2>1. pending \in Seq(Messages) /\ queued \in Seq(Messages)
    <3>1. pending \in Seq(AckRequired) /\ AckRequired \subseteq Messages
      BY DEF ApartInv, TypeOK, AckRequired
    <3>2. pending \in Seq(Messages)
      BY <3>1
    <3> QED
      BY <3>2 DEF ApartInv, TypeOK
  <2>2. IsInjective(queued') /\ Range(queued') = Range(pending) \union Range(queued)
    BY <1>3, <2>1, InjectiveConcat, ConcatRange
       DEF MovedInFront, Requeued, ApartInv, Apart, HeldOnce
  <2> QED
    BY <1>1, <1>3, <2>2 DEF MovedInFront, ApartInv, Apart, HeldOnce, Everything, Waiting
<1>4. CASE Failed
  BY <1>1, <1>4 DEF Failed, Failing, ApartInv, Apart, HeldOnce, Everything, Waiting
<1> QED
  BY <1>2, <1>3, <1>4

\* No step settles a message and leaves it where it is, or makes two of it.
LEMMA NextApart ==
  ASSUME "offline" \notin Disruptions, ApartInv, [Next]_vars
  PROVE  Apart'
<1> USE DEF lifecycle
<1>0. /\ TypeOK /\ HeldOnce /\ Range(pending) \intersect Range(queued) = {}
      /\ state = "connected" => transport # "none"
  BY DEF ApartInv, Apart
<1>i. IsInjective(<<>>) /\ Range(<<>>) = {}
  BY InjectiveEmpty, EmptyRange
<1>1. ASSUME NEW m \in Messages, SendProtocolMessage(m) PROVE Apart'
  <2>1. /\ state = "connected" /\ transport # "none" /\ future[m] = "idle"
        /\ UNCHANGED <<state, transport, tasks, queued>>
    BY <1>0, <1>1 DEF SendProtocolMessage
  <2>2. m \notin Everything
    BY <1>0, <2>1 DEF HeldOnce, Waiting
  <2>3. CASE m \in AckRequired
    <3>1. /\ IsInjective(Append(pending, m)) /\ Range(Append(pending, m)) = Range(pending) \union {m}
      BY <1>0, <2>2, <2>3, InjectiveAppend, AppendRange DEF TypeOK, HeldOnce, Everything
    <3>2. pending' = Append(pending, m) /\ future' = [future EXCEPT ![m] = "waiting"]
      BY <1>1, <2>1, <2>3, <3>1 DEF SendProtocolMessage, SendOnConnectedState
    <3> QED
      BY <1>0, <2>1, <2>2, <2>3, <3>1, <3>2 DEF Apart, HeldOnce, Everything, Waiting, TypeOK
  <2>4. CASE m \notin AckRequired
    <3>1. pending' = pending /\ future' = [future EXCEPT ![m] = "sent"]
      BY <1>1, <2>1, <2>4 DEF SendProtocolMessage, SendOnConnectedState, AckRequired
    <3> QED
      BY <1>0, <2>1, <2>4, <3>1 DEF Apart, HeldOnce, Everything, Waiting, TypeOK
  <2> QED
    BY <2>3, <2>4
<1>2. CASE RunSendTask
  <2> DEFINE g == Head(tasks)
  <2>1. /\ tasks \in Seq(Messages) /\ tasks # <<>> /\ tasks' = Tail(tasks)
        /\ UNCHANGED <<state, transport, queued>>
        /\ SendOnConnectedState(g, serial[g], pending, future)
    BY <1>0, <1>2 DEF RunSendTask, TypeOK
  <2>2. /\ IsInjective(tasks') /\ g \notin Range(tasks')
        /\ Range(tasks) = {g} \union Range(tasks')
    BY <1>0, <2>1, InjectiveTail, TailRange DEF HeldOnce
  <2>3. /\ g \in AckRequired \intersect Waiting /\ g \notin Control
        /\ g \notin Range(pending) \union Range(queued)
    BY <1>0, <2>2 DEF HeldOnce, Everything, AckRequired
  <2> HIDE DEF g
  <2>4. CASE state = "connected"
    <3>1. pending' = Append(pending, g) /\ UNCHANGED future
      BY <1>0, <2>1, <2>3, <2>4 DEF SendOnConnectedState
    <3>2. IsInjective(pending') /\ Range(pending') = Range(pending) \union {g}
      BY <1>0, <2>3, <3>1, InjectiveAppend, AppendRange DEF TypeOK, HeldOnce
    <3> QED
      BY <1>0, <2>1, <2>2, <2>3, <3>1, <3>2 DEF Apart, HeldOnce, Everything, Waiting
  <2>5. CASE state # "connected"
    <3>1. pending' = pending /\ future' = Failing(future, {g})
      BY <2>1, <2>5 DEF SendOnConnectedState
    <3> QED
      BY <1>0, <2>1, <2>2, <2>3, <2>5, <3>1
         DEF Apart, HeldOnce, Everything, Waiting, Failing, AckRequired
  <2> QED
    BY <2>4, <2>5
<1>3. ASSUME NEW n \in 1..Len(wire), OnAck(n) \/ OnNack(n) PROVE Apart'
  <2> DEFINE k == NumToComplete(wire[1].serial, n)
             settled == {pending[i] : i \in 1..k}
  <2>1. k \in 0..Len(pending)
    BY <1>0, <1>3, AnswerableType DEF OnAck, OnNack
  <2>2. pending' = SubSeq(pending, k + 1, Len(pending)) /\ UNCHANGED <<state, transport, queued, tasks>>
    BY <1>3 DEF OnAck, OnNack
  <2>3. \A m \in Messages \ settled : future'[m] = future[m]
    BY <1>3 DEF OnAck, OnNack, Completing, Failing
  <2>4. settled \subseteq Range(pending)
    <3>1. \A i \in 1..k : i \in DOMAIN pending
      BY <1>0, <2>1, LenProperties DEF TypeOK
    <3> QED
      BY <3>1 DEF Range
  <2> HIDE DEF k
  <2>5. /\ IsInjective(pending') /\ Range(pending') \subseteq Range(pending)
        /\ \A x \in Range(pending') : x \notin settled
    BY <1>0, <2>1, <2>2, InjectiveDrop DEF TypeOK, HeldOnce
  <2> HIDE DEF settled
  <2>6. \A m \in Everything' : m \in Everything /\ m \notin settled
    BY <1>0, <2>2, <2>4, <2>5 DEF HeldOnce, Everything
  <2>7. Everything' \subseteq Waiting' \intersect AckRequired
    BY <1>0, <2>3, <2>6 DEF HeldOnce, Waiting
  <2> QED
    BY <1>0, <2>2, <2>5, <2>7 DEF Apart, HeldOnce
<1>4. ASSUME NEW id \in Ids, OnConnected(id) PROVE Apart'
  <2>1. /\ tasks = <<>> /\ transport' # "none" /\ UNCHANGED <<pending, future>>
        /\ \/ UNCHANGED <<queued, tasks>>
           \/ tasks' = queued /\ queued' = <<>>
    BY <1>4 DEF OnConnected, ConnectedArrives
  <2> QED
    BY <1>0, <1>i, <2>1 DEF Apart, HeldOnce, Everything, Waiting
<1>5. ASSUME Stayed \/ MovedInFront \/ Failed, UNCHANGED tasks,
             state' = "connected" => transport' # "none"
      PROVE  Apart'
  BY <1>5, MovesKeepApart
<1>6. OnConnectedIncompatible \/ Suspend => Apart'
  BY <1>5 DEF OnConnectedIncompatible, Suspend, FailQueuedMessages, Failed
<1>7. CASE CloseCompletes
  BY <1>5, <1>7 DEF CloseCompletes, FailQueuedMessages, Failed, Stayed
<1>8. ASSUME NEW pend, NEW q, NEW h, NotifyDisconnected(pend, q, h), UNCHANGED tasks,
             \/ pend = pending /\ q = queued
             \/ pend = <<>> /\ q = Requeued(pending, queued)
      PROVE  Apart'
  <2>1. state' = "disconnected"
    BY <1>8, NotifyDisconnectedState
  <2> QED
    BY <1>0, <1>5, <1>8, <2>1, LosingMoves
<1>9. CASE ConnectFails \/ OnDisconnected
  BY <1>8, <1>9 DEF ConnectFails, OnDisconnected
<1>10. CASE SocketCloses \/ IdleDisconnect
  <2>1. UNCHANGED tasks
    BY <1>10 DEF SocketCloses, IdleDisconnect
  <2>2. \/ NotifyDisconnected(<<>>, Requeued(pending, queued), FALSE)
        \/ NotifyDisconnected(pending, queued, FALSE)
    BY <1>10 DEF SocketCloses, IdleDisconnect, DeactivateTransport
  <2> QED
    BY <1>8, <2>1, <2>2
<1>11. CASE \/ RequestConnecting \/ TryHost \/ OnDisconnectedFallback \/ OnError
            \/ RequestClosing \/ CloseDisposes \/ (\E why \in Disruptions : BeginDispose(why))
            \/ UNCHANGED vars
  <2>1. Stayed /\ UNCHANGED tasks /\ (state' = "connected" => transport' # "none")
    BY <1>0, <1>11 DEF RequestConnecting, TryHost, OnDisconnectedFallback, OnError,
                       RequestClosing, CloseDisposes, BeginDispose, vars, Stayed
  <2> QED
    BY <1>5, <2>1
<1> QED
  BY <1>1, <1>2, <1>3, <1>4, <1>6, <1>7, <1>9, <1>10, <1>11 DEF Next

\* As long as nothing is published while the connection is down, and whatever else happens:
\* a publish that was answered or failed is in none of the queues, so that it is not sent
\* again after the application was told.
THEOREM SettledStaysUnsent ==
  ASSUME "offline" \notin Disruptions
  PROVE  Spec => []SettledIsNotSent
<1>1. Init => ApartInv
  <2>1. IsInjective(<<>>) /\ Range(<<>>) = {}
    BY InjectiveEmpty, EmptyRange
  <2> QED
    BY <2>1, InitType DEF Init, ApartInv, Apart, HeldOnce, Everything
<1>2. ApartInv /\ [Next]_vars => ApartInv'
  BY NextType, NextApart DEF ApartInv
<1>3. ApartInv => SettledIsNotSent
  BY DEF ApartInv, Apart, HeldOnce, Everything, SettledIsNotSent
<1> QED
  BY <1>1, <1>2, <1>3, PTL DEF Spec

-----------------------------------------------------------------------------
(* The refinement: pending messages are in flight, an answer answers the   *)
(* oldest of them, and losing the connection gives up on all.              *)

\* The send path starts where the contract does.
LEMMA InitKeepsContract == Init => Contract!Init
  BY DEF Init, Contract!Init, Outcome, AckRequired

\* Every step of the send path is a step of the contract, or none.
LEMMA NextKeepsContract ==
  ASSUME UndisturbedInv, Undisturbed, ~QueueMessages, [Next]_vars
  PROVE  [Contract!Next]_(Contract!vars)
<1> DEFINE Goal == [Contract!Next]_(Contract!vars)
<1> SUFFICES Goal
  OBVIOUS
<1>0. /\ TypeOK /\ OneContainer /\ HeldOnce /\ ResultIsOwn /\ ResultIsOwn'
      /\ queued = <<>> /\ tasks = <<>> /\ AckRequired \subseteq Messages
      /\ AckRequired \intersect Control = {}
  BY NextResultIsOwn DEF UndisturbedInv, OneContainer, AckRequired
<1>s. ASSUME UNCHANGED pending, \A m \in AckRequired : Outcome(m)' = Outcome(m) PROVE Goal
  BY <1>s DEF Contract!vars
<1>g. ASSUME Contract!Next PROVE Goal
  BY <1>g
<1>f. ASSUME NEW ms, NEW o \in {"delivered", "failed"},
             \A m \in AckRequired : Outcome(m)' = IF m \in ms THEN o ELSE Outcome(m)
      PROVE  Contract!Settle(ms, o)
  BY <1>f DEF Contract!Settle
<1> HIDE DEF Goal
<1>1. ASSUME NEW m \in Messages, SendProtocolMessage(m) PROVE Goal
  <2>1. CASE m \in Control
    <3>1. UNCHANGED <<pending, result>> /\ future' = [future EXCEPT ![m] = "sent"]
      BY <1>1, <2>1, SendEffect
    <3>2. \A n \in AckRequired : Outcome(n)' = Outcome(n)
      BY <1>0, <2>1, <3>1 DEF Outcome, TypeOK
    <3> QED
      BY <1>s, <3>1, <3>2
  <2>2. CASE m \in AckRequired
    <3>1. /\ pending' = Append(pending, m) /\ m \notin Range(pending) /\ future[m] = "idle"
          /\ future' = [future EXCEPT ![m] = "waiting"] /\ UNCHANGED result
      BY <1>1, <2>2, SendEffect DEF Everything
    <3>2. \A n \in AckRequired : Outcome(n)' = Outcome(n)
      BY <1>0, <3>1 DEF Outcome, TypeOK
    <3>3. Outcome(m) = "none"
      BY <3>1 DEF Outcome
    <3>4. Contract!Accept(m)
      BY <2>2, <3>1, <3>2, <3>3 DEF Contract!Accept, Contract!Range, Range
    <3> QED
      BY <1>g, <2>2, <3>4 DEF Contract!Next
  <2> QED
    BY <2>1, <2>2 DEF AckRequired
<1>2. CASE RunSendTask
  BY <1>0, <1>2 DEF RunSendTask
<1>3. ASSUME NEW n, OnAck(n) \/ OnNack(n) PROVE Goal
  <2>1. PICK k \in 0..Len(pending) :
          /\ pending' = SubSeq(pending, k + 1, Len(pending))
          /\ Oldest(n) = {pending[i] : i \in 1..k} /\ (pending # <<>> => k = n)
    BY <1>3, AnswerEffect
  <2>2. /\ n \in 1..Len(wire) /\ Oldest(n) \subseteq Waiting
        /\ pending # <<>> => Len(wire) = Len(pending)
    BY <1>3, AnswerEffect
  <2>3. \E o \in {"delivered", "failed"} :
          \A m \in AckRequired : Outcome(m)' = IF m \in Oldest(n) THEN o ELSE Outcome(m)
    <3>1. CASE OnAck(n)
      <4>1. /\ future' = [m \in Messages |-> IF m \in Oldest(n) THEN "ok" ELSE future[m]]
            /\ result' = [m \in Messages |-> IF m \in Oldest(n) THEN m ELSE result[m]]
        BY <3>1, AnswerEffect
      <4>2. \A m \in AckRequired : Outcome(m)' = IF m \in Oldest(n) THEN "delivered" ELSE Outcome(m)
        BY <1>0, <4>1 DEF Outcome
      <4> QED
        BY <4>2
    <3>2. CASE OnNack(n)
      <4>1. future' = Failing(future, Oldest(n)) /\ UNCHANGED result
        BY <3>2, AnswerEffect
      <4>2. \A m \in AckRequired : Outcome(m)' = IF m \in Oldest(n) THEN "failed" ELSE Outcome(m)
        BY <1>0, <2>2, <4>1 DEF Outcome, Failing, Waiting
      <4> QED
        BY <4>2
    <3> QED
      BY <1>3, <3>1, <3>2
  <2>4. CASE pending = <<>>
    <3>1. pending' = pending /\ Oldest(n) = {}
      BY <2>1, <2>4 DEF Oldest
    <3> QED
      BY <1>s, <2>3, <3>1
  <2>5. CASE pending # <<>>
    <3>1. Range(SubSeq(pending, 1, n)) = Oldest(n)
      BY <1>0, <2>1, <2>5, PrefixRange DEF TypeOK
    <3>2. n \in 1..Len(pending) /\ pending' = SubSeq(pending, n + 1, Len(pending))
      BY <2>1, <2>2, <2>5
    <3>3. \E o \in {"delivered", "failed"} : Contract!Answer(n, o)
      BY <1>f, <2>3, <3>1, <3>2 DEF Contract!Answer, Contract!Range, Range
    <3> QED
      BY <1>g, <3>2, <3>3 DEF Contract!Next
  <2> QED
    BY <2>4, <2>5
<1>4. CASE (\E id \in Ids : OnConnected(id)) \/ OnConnectedIncompatible
  <2>1. UNCHANGED <<pending, result>> /\ future' \in {future, Failing(future, {})}
    BY <1>0, <1>4, ConnectedEffect, EmptyRange
  <2>2. \A m \in AckRequired : Outcome(m)' = Outcome(m)
    BY <1>0, <2>1 DEF Outcome, Failing
  <2> QED
    BY <1>s, <2>1, <2>2
<1>5. CASE Shifting
  <2>1. Shift
    BY <1>5, ShiftEffect
  <2>2. CASE UNCHANGED <<pending, queued, future>> \/ Moved
    <3>1. UNCHANGED <<pending, future, result>>
      BY <1>0, <2>1, <2>2 DEF Shift, Moved
    <3>2. \A m \in AckRequired : Outcome(m)' = Outcome(m)
      BY <3>1 DEF Outcome
    <3> QED
      BY <1>s, <3>1, <3>2
  <2>3. CASE Failed
    <3>1. pending' = <<>> /\ future' = Failing(future, Range(pending)) /\ UNCHANGED result
      BY <1>0, <2>1, <2>3, EmptyRange DEF Failed, Shift
    <3>2. Range(pending) \subseteq Waiting
      BY <1>0 DEF HeldOnce, Everything
    <3>3. \A m \in AckRequired : Outcome(m)' = IF m \in Range(pending) THEN "failed" ELSE Outcome(m)
      BY <1>0, <3>1, <3>2 DEF Outcome, Failing, Waiting
    <3>4. Contract!GiveUp
      BY <1>f, <3>1, <3>3 DEF Contract!GiveUp, Contract!Range, Range
    <3> QED
      BY <1>g, <3>4 DEF Contract!Next
  <2> QED
    BY <2>1, <2>2, <2>3 DEF Shift
<1> QED
  BY <1>1, <1>2, <1>3, <1>4, <1>5, StepsSorted

\* With queue_messages off, the send path implements the promise of publish(): messages are
\* settled in the order they were sent, each with its own outcome, or all at once fail.
THEOREM DirectPublishingKeepsContract ==
  ASSUME Undisturbed, ~QueueMessages
  PROVE  Spec => KeepsContract
<1>1. Init => Contract!Init
  BY InitKeepsContract
<1>2. UndisturbedInv /\ [Next]_vars => [Contract!Next]_(Contract!vars)
  BY NextKeepsContract
<1> QED
  BY <1>1, <1>2, UndisturbedInvariant, PTL DEF Spec, KeepsContract, Contract!Spec

-----------------------------------------------------------------------------
(* Resending in order, as long as the server resumes the connection: a new *)
(* connection id starts the serials anew while older messages still wait.  *)

AlwaysResumed ==
  /\ Disruptions \subseteq Harmless \ {"early"}
  /\ \A i, j \in Ids : i = j

\* The serials rise along a queue, and stay below a bound.
Rising(ser, s) == \A i, j \in DOMAIN s : i < j => ser[s[i]] < ser[s[j]]

Below(ser, s, bound) == \A m \in Range(s) : ser[m] < bound

\* The serials rise along the pending messages and on through the tasks that resend.
SerialsRise ==
  /\ Rising(serial, pending) /\ Below(serial, pending, msgSerial)
  /\ Rising(serial, queued) /\ Below(serial, queued, msgSerial)
  /\ state = "connected" =>
       /\ Rising(serial, tasks) /\ Below(serial, tasks, msgSerial)
       /\ \A m \in Range(tasks) : Below(serial, pending, serial[m])

\* An empty queue is in order.
LEMMA RisingEmpty == \A ser, bound : Rising(ser, <<>>) /\ Below(ser, <<>>, bound)
  BY EmptySeq, EmptyRange DEF Rising, Below

\* A message with a serial above all others may be appended.
LEMMA RisingAppend ==
  ASSUME NEW s \in Seq(AckRequired), NEW m \in AckRequired, NEW ser,
         Rising(ser, s), Below(ser, s, ser[m])
  PROVE  Rising(ser, Append(s, m))
<1> DEFINE t == Append(s, m)
<1>1. Len(t) = Len(s) + 1 /\ t[Len(s) + 1] = m /\ \A i \in 1..Len(s) : t[i] = s[i]
  BY AppendProperties
<1>2. DOMAIN t = 1..(Len(s) + 1) /\ DOMAIN s = 1..Len(s) /\ Len(s) \in Nat
  BY <1>1, AppendProperties, LenProperties
<1> HIDE DEF t
<1>3. ASSUME NEW i \in DOMAIN t, NEW j \in DOMAIN t, i < j PROVE ser[t[i]] < ser[t[j]]
  <2>1. i \in DOMAIN s /\ t[i] = s[i]
    BY <1>1, <1>2, <1>3
  <2>2. CASE j = Len(s) + 1
    BY <1>1, <2>1, <2>2 DEF Below, Range
  <2>3. CASE j # Len(s) + 1
    <3>1. j \in DOMAIN s /\ t[j] = s[j]
      BY <1>1, <1>2, <2>3
    <3> QED
      BY <1>3, <2>1, <3>1 DEF Rising
  <2> QED
    BY <2>2, <2>3
<1> QED
  BY <1>3 DEF Rising, t

\* Settled messages leave the others in order.
LEMMA RisingDrop ==
  ASSUME NEW S, NEW s \in Seq(S), NEW k \in 0..Len(s), NEW ser, Rising(ser, s)
  PROVE  Rising(ser, SubSeq(s, k + 1, Len(s)))
<1> DEFINE t == SubSeq(s, k + 1, Len(s))
<1>1. t \in Seq(S) /\ Len(t) = Len(s) - k /\ \A i \in 1..(Len(s) - k) : t[i] = s[i + k]
  BY DropType
<1>2. DOMAIN t = 1..(Len(s) - k) /\ DOMAIN s = 1..Len(s) /\ Len(s) \in Nat /\ k \in Nat
  BY <1>1, LenProperties
<1> HIDE DEF t
<1>3. \A i \in DOMAIN t : i \in Nat /\ i + k \in DOMAIN s /\ t[i] = s[i + k]
  BY <1>1, <1>2
<1>4. \A i, j \in DOMAIN t : i < j => i + k < j + k
  BY <1>2, <1>3
<1>5. Rising(ser, t)
  BY <1>3, <1>4 DEF Rising
<1> QED
  BY <1>5 DEF t

\* The first message has the least serial.
LEMMA RisingTail ==
  ASSUME NEW S, NEW s \in Seq(S), s # <<>>, NEW ser, Rising(ser, s)
  PROVE  Rising(ser, Tail(s)) /\ \A m \in Range(Tail(s)) : ser[Head(s)] < ser[m]
<1> DEFINE t == Tail(s)
<1>1. t \in Seq(S) /\ Len(t) = Len(s) - 1 /\ Head(s) = s[1]
      /\ \A i \in 1..Len(t) : t[i] = s[i + 1]
  BY HeadTailProperties
<1>2. Len(s) \in Nat /\ Len(s) # 0
  BY LenProperties, EmptySeq
<1>3. DOMAIN s = 1..Len(s) /\ DOMAIN t = 1..(Len(s) - 1)
  BY <1>1, LenProperties
<1> HIDE DEF t
<1>4. 1 \in DOMAIN s /\ \A i \in DOMAIN t : i + 1 \in DOMAIN s /\ 1 < i + 1 /\ t[i] = s[i + 1]
  BY <1>1, <1>2, <1>3
<1>5. \A i, j \in DOMAIN t : i < j => i + 1 < j + 1
  BY <1>2, <1>3
<1>6. Rising(ser, t)
  BY <1>4, <1>5 DEF Rising
<1>7. \A m \in Range(t) : ser[s[1]] < ser[m]
  BY <1>4 DEF Rising, Range
<1> QED
  BY <1>1, <1>6, <1>7 DEF t

\* Only the serials of its own messages matter to a queue.
LEMMA RisingSame ==
  ASSUME NEW s, NEW ser, NEW ser2, \A m \in Range(s) : ser2[m] = ser[m]
  PROVE  /\ Rising(ser, s) => Rising(ser2, s)
         /\ \A bound : Below(ser, s, bound) => Below(ser2, s, bound)
  BY DEF Rising, Below, Range

ResumedInv == UndisturbedInv /\ EmptyWhenGivenUp /\ SerialsRise

\* The first section applies.
LEMMA ResumedIsUndisturbed == AlwaysResumed => Undisturbed
  BY DEF AlwaysResumed, Undisturbed

\* Sending, resending and requeueing keep the order of the serials.
LEMMA NextSerialsRise ==
  ASSUME ResumedInv, AlwaysResumed, [Next]_vars
  PROVE  SerialsRise'
<1>0. /\ UndisturbedInv /\ Undisturbed /\ TypeOK /\ OneContainer /\ HeldOnce
      /\ SerialsRise /\ EmptyWhenGivenUp
      /\ AckRequired \intersect Control = {} /\ AckRequired \subseteq Messages
      /\ pending \in Seq(AckRequired)
  BY ResumedIsUndisturbed DEF ResumedInv, UndisturbedInv, AckRequired, TypeOK
<1> USE DEF lifecycle
<1>1. ASSUME NEW m \in Messages, SendProtocolMessage(m) PROVE SerialsRise'
  <2>1. /\ state = "connected" /\ UNCHANGED <<state, tasks, queued>> /\ m \notin Everything
        /\ tasks = <<>> /\ queued = <<>>
    <3>1. tasks = <<>>
      <4>1. "early" \notin Disruptions
        BY DEF AlwaysResumed
      <4>2. state = "connected"
        BY <1>0, <1>1, SendEffect
      <4> QED
        BY <1>1, <4>1, <4>2 DEF SendProtocolMessage, QueueingStates
    <3> QED
      BY <1>0, <1>1, <3>1, SendEffect DEF OneContainer
  <2>2. CASE m \in Control
    BY <1>0, <1>1, <2>1, <2>2, SendEffect DEF SerialsRise
  <2>3. CASE m \in AckRequired
    <3>1. /\ pending' = Append(pending, m) /\ serial' = [serial EXCEPT ![m] = msgSerial]
          /\ msgSerial' = msgSerial + 1
      BY <1>0, <1>1, <2>3, SendEffect
    <3>2. /\ serial'[m] = msgSerial /\ msgSerial \in Nat
          /\ \A n \in Range(pending) : serial'[n] = serial[n] /\ serial[n] \in Int
      BY <1>0, <2>1, <3>1, RangeType DEF TypeOK, Everything
    <3>3. Rising(serial', pending) /\ Below(serial', pending, serial'[m])
      BY <1>0, <3>2, RisingSame DEF SerialsRise
    <3>4. Rising(serial', pending') /\ Range(pending') = Range(pending) \union {m}
      BY <1>0, <2>3, <3>1, <3>3, RisingAppend, AppendRange, ZenonT(60)
    <3>5. Below(serial', pending', msgSerial')
      BY <3>1, <3>2, <3>3, <3>4 DEF Below
    <3> QED
      BY <2>1, <3>4, <3>5, RisingEmpty, EmptyRange DEF SerialsRise
  <2> QED
    BY <2>2, <2>3 DEF AckRequired
<1>2. CASE RunSendTask
  <2> DEFINE h == Head(tasks)
  <2>1. /\ h \in AckRequired /\ tasks # <<>> /\ tasks' = Tail(tasks)
        /\ UNCHANGED <<state, msgSerial, queued, serial>>
        /\ state = "connected" => pending' = Append(pending, h)
        /\ state # "connected" => UNCHANGED pending
    BY <1>0, <1>2, TaskEffect
  <2>2. Range(tasks) = {h} \union Range(tasks') /\ h \in Range(tasks)
    BY <1>0, <2>1, TailRange DEF TypeOK
  <2>3. CASE state # "connected"
    BY <1>0, <2>1, <2>3 DEF SerialsRise
  <2>4. CASE state = "connected"
    <3>1. Rising(serial, tasks') /\ \A m \in Range(tasks') : serial[h] < serial[m]
      BY <1>0, <2>1, <2>4, RisingTail DEF TypeOK, SerialsRise
    <3>2. Below(serial, pending, serial[h]) /\ Rising(serial, pending)
      BY <1>0, <2>2, <2>4 DEF SerialsRise
    <3>3. pending' = Append(pending, h) /\ UNCHANGED <<serial, msgSerial, queued, state>>
      BY <2>1, <2>4
    <3>4. Rising(serial, pending') /\ Range(pending') = Range(pending) \union {h}
      <4>1. h \in AckRequired
        BY <2>1
      <4> HIDE DEF h
      <4> QED
        BY <1>0, <3>2, <3>3, <4>1, RisingAppend, AppendRange
    <3> HIDE DEF h
    <3> QED
      BY <1>0, <2>2, <2>4, <3>1, <3>3, <3>4 DEF SerialsRise, Below
  <2> QED
    BY <2>3, <2>4
<1>3. ASSUME NEW n, OnAck(n) \/ OnNack(n) PROVE SerialsRise'
  <2>1. PICK k \in 0..Len(pending) : pending' = SubSeq(pending, k + 1, Len(pending))
    BY <1>0, <1>3, AnswerEffect
  <2>2. UNCHANGED <<state, msgSerial, queued, tasks, serial>>
    BY <1>3 DEF OnAck, OnNack
  <2>3. Rising(serial, pending') /\ Range(pending') \subseteq Range(pending)
    BY <1>0, <2>1, RisingDrop, InjectiveDrop DEF SerialsRise, HeldOnce
  <2> QED
    BY <1>0, <2>2, <2>3 DEF SerialsRise, Below
<1>4. CASE (\E id \in Ids : OnConnected(id)) \/ OnConnectedIncompatible
  <2>1. /\ pending' = <<>> /\ queued' = <<>> /\ UNCHANGED serial
        /\ \/ tasks' = queued /\ ~OnConnectedIncompatible /\ state' = "connected"
           \/ state' = "failed"
    BY <1>0, <1>4, ConnectedEffect
  <2>2. ~OnConnectedIncompatible => msgSerial' = msgSerial
    <3>1. ASSUME NEW id \in Ids PROVE connectionId \in {NoId, id}
      BY <1>0 DEF TypeOK, AlwaysResumed
    <3> QED
      BY <1>4, <3>1 DEF OnConnected
  <2> QED
    BY <1>0, <2>1, <2>2, RisingEmpty, EmptyRange DEF SerialsRise, Below
<1>5. CASE Shifting
  <2>1. Shift
    BY <1>0, <1>5, ShiftEffect
  <2>2. UNCHANGED msgSerial \/ (pending' = <<>> /\ queued' = <<>> /\ state' # "connected")
    <3>1. CASE Suspend \/ CloseCompletes
      BY <1>0, <3>1 DEF Suspend, CloseCompletes, FailQueuedMessages, EmptyWhenGivenUp
    <3>2. ~OnError
      <4>1. disposing # "fatal"
        BY <1>0, AbsentDisruptions DEF UndisturbedInv, TransportFollowsState
      <4> QED
        BY <4>1 DEF OnError
    <3>3. CASE ConnectFails \/ OnDisconnected \/ SocketCloses \/ IdleDisconnect
      BY <1>0, <3>3, LosingTheTransport
    <3>4. CASE RequestConnecting \/ TryHost \/ RequestClosing \/ CloseDisposes \/ UNCHANGED vars
               \/ OnDisconnectedFallback \/ (\E why \in Disruptions : BeginDispose(why))
      BY <3>4 DEF RequestConnecting, TryHost, RequestClosing, CloseDisposes, vars,
                  OnDisconnectedFallback, BeginDispose
    <3> QED
      BY <1>5, <3>1, <3>2, <3>3, <3>4 DEF Shifting
  <2>3. /\ UNCHANGED <<tasks, serial>>
        /\ state' = "connected" => state = "connected" /\ UNCHANGED pending
    BY <2>1 DEF Shift
  <2>4. pending' \in {<<>>, pending} /\ queued' \in {<<>>, queued, pending}
    BY <1>0, <2>1, RequeuedIsEither DEF Shift, Moved, Failed
  <2> QED
    BY <1>0, <2>2, <2>3, <2>4, RisingEmpty DEF SerialsRise
<1> QED
  BY <1>0, <1>1, <1>2, <1>3, <1>4, <1>5, StepsSorted

\* The step to CONNECTED hands all waiting messages to tasks, in that order.
LEMMA NextResendsInOrder ==
  ASSUME ResumedInv, NothingLost, AlwaysResumed, [Next]_vars,
         state # "connected", state' = "connected"
  PROVE  /\ Waiting \subseteq Range(tasks')
         /\ \A i, j \in DOMAIN tasks' :
              i < j /\ {tasks'[i], tasks'[j]} \subseteq Waiting
                => serial[tasks'[i]] < serial[tasks'[j]]
<1>0. UndisturbedInv /\ Undisturbed
  BY ResumedIsUndisturbed DEF ResumedInv
<1> USE DEF lifecycle
<1>1. (\E id \in Ids : OnConnected(id)) \/ OnConnectedIncompatible
  <2>1. ASSUME NEW m \in Messages, SendProtocolMessage(m) PROVE FALSE
    BY <1>0, <2>1, SendEffect
  <2>2. ASSUME RunSendTask PROVE FALSE
    BY <1>0, <2>2, TaskEffect
  <2>3. ASSUME NEW n, OnAck(n) \/ OnNack(n) PROVE FALSE
    BY <1>0, <2>3, AnswerEffect
  <2>4. ASSUME Shifting PROVE FALSE
    BY <1>0, <2>4, ShiftEffect DEF Shift
  <2> QED
    BY <2>1, <2>2, <2>3, <2>4, StepsSorted
<1>2. pending = <<>> /\ tasks = <<>> /\ tasks' = queued
  BY <1>0, <1>1, ConnectedEffect
<1>3. Rising(serial, queued) /\ Waiting \subseteq Range(queued)
  BY <1>2, EmptyRange DEF ResumedInv, SerialsRise, NothingLost
<1> QED
  BY <1>2, <1>3 DEF Rising

\* For any number of messages: when the connection is back, every publish that still waits is
\* on its way to the new transport, in the order of the serials.
THEOREM LostPublishesAreResent ==
  ASSUME AlwaysResumed
  PROVE  Spec => ResentInOrder
<1>1. Init => ResumedInv
  <2>1. Init => SerialsRise /\ EmptyWhenGivenUp
    BY RisingEmpty, EmptyRange DEF Init, SerialsRise, EmptyWhenGivenUp
  <2>2. Init => UndisturbedInv
    BY InitUndisturbed
  <2> QED
    BY <2>1, <2>2 DEF ResumedInv
<1>2. ResumedInv /\ [Next]_vars => ResumedInv'
  BY ResumedIsUndisturbed, NextUndisturbed, NextEmpties, NextSerialsRise DEF ResumedInv
<1>3. ResumedInv /\ NothingLost /\ [Next]_vars =>
        [state # "connected" /\ state' = "connected" =>
           /\ Waiting \subseteq Range(tasks')
           /\ \A i, j \in DOMAIN tasks' :
                i < j /\ {tasks'[i], tasks'[j]} \subseteq Waiting
                  => serial[tasks'[i]] < serial[tasks'[j]]]_vars
  BY NextResendsInOrder
<1> QED
  BY <1>1, <1>2, <1>3, NoPublishLost, PTL DEF Spec, ResentInOrder

=============================================================================
