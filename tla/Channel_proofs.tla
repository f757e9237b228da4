---------------------------- MODULE Channel_proofs ----------------------------
(***************************************************************************)
(* Proofs about one channel: whatever disturbs it and however many         *)
(* messages are under way, a channel that waits for the server is timed,   *)
(* one that is SUSPENDED retries, and neither a call nor a recovery is     *)
(* left over when the state that ended it has been reached; an ATTACHED    *)
(* channel is attached at the server or will hear otherwise, every delta   *)
(* is applied to its base, and every message reaches the subscribers once. *)
(***************************************************************************)
EXTENDS Channel, Functions, SequenceTheorems, TLAPS

-----------------------------------------------------------------------------
(* The elements of the sequences that queue operations build.              *)

\* The elements of an extended sequence.
LEMMA AppendRange ==
  ASSUME NEW S, NEW s \in Seq(S), NEW x \in S
  PROVE  /\ Append(s, x) \in Seq(S)
         /\ Range(Append(s, x)) = Range(s) \union {x}
<1> DEFINE t == Append(s, x)
<1>1. t \in Seq(S) /\ Len(t) = Len(s) + 1 /\ t[Len(s) + 1] = x
      /\ \A i \in 1..Len(s) : t[i] = s[i]
  BY AppendProperties
<1> HIDE DEF t
<1>2. DOMAIN s = 1..Len(s) /\ DOMAIN t = 1..(Len(s) + 1)
  BY <1>1, LenProperties
<1>3. 1..(Len(s) + 1) = 1..Len(s) \union {Len(s) + 1}
  BY SMT
<1>4. Range(t) = {t[i] : i \in 1..Len(s)} \union {t[Len(s) + 1]}
  BY <1>2, <1>3, Zenon DEF Range
<1>5. {t[i] : i \in 1..Len(s)} = Range(s)
  BY <1>1, <1>2, Zenon DEF Range
<1> QED
  BY <1>1, <1>4, <1>5 DEF t

\* The elements of a sequence are its head and those of its tail.
LEMMA TailRange ==
  ASSUME NEW S, NEW s \in Seq(S), s # <<>>
  PROVE  /\ Head(s) \in S /\ Tail(s) \in Seq(S)
         /\ Range(s) = {Head(s)} \union Range(Tail(s))
<1> DEFINE t == Tail(s)
<1>1. Head(s) \in S /\ t \in Seq(S) /\ Len(t) = Len(s) - 1 /\ Head(s) = s[1]
      /\ \A i \in 1..Len(t) : t[i] = s[i + 1]
  BY HeadTailProperties
<1>2. Len(s) \in Nat /\ Len(s) # 0
  BY LenProperties, EmptySeq
<1> HIDE DEF t
<1>3. DOMAIN s = 1..Len(s) /\ DOMAIN t = 1..(Len(s) - 1)
  BY <1>1, LenProperties
<1>4. 1..Len(s) = {1} \union {i + 1 : i \in 1..(Len(s) - 1)}
  <2>1. ASSUME NEW i \in 1..Len(s), i # 1
        PROVE  i - 1 \in 1..(Len(s) - 1) /\ i = (i - 1) + 1
    BY <2>1, <1>2, SMT
  <2>2. 1 \in 1..Len(s) /\ \A i \in 1..(Len(s) - 1) : i + 1 \in 1..Len(s)
    BY <1>2, SMT
  <2> QED
    BY <2>1, <2>2, Zenon
<1>5. Range(s) = {s[1]} \union {s[i + 1] : i \in 1..(Len(s) - 1)}
  BY <1>3, <1>4, Zenon DEF Range
<1>6. {s[i + 1] : i \in 1..(Len(s) - 1)} = Range(t)
  BY <1>1, <1>3, Zenon DEF Range
<1> QED
  BY <1>1, <1>5, <1>6 DEF t

\* An empty sequence has no elements.
LEMMA EmptyRange == Range(<<>>) = {}
  BY SMT DEF Range

-----------------------------------------------------------------------------
(* The inductive invariant.                                                *)

\* _cancel_retry_timer: the retry timer is remembered in SUSPENDED alone, also when it
\* has expired.  Without it a channel could be SUSPENDED with an expired timer that is
\* not started again.
RetryTimerIsForSuspended == state # "suspended" => retryTimer = "none"

\* What ties the state to the timers, the waiters and the recovery.
Tied ==
  /\ PendingIsTimed
  /\ SuspendedRetries
  /\ WaitersPending
  /\ RecoveryEnds
  /\ RetryTimerIsForSuspended

\* The invariant that every step keeps.
IInv == TypeOK /\ Tied

\* The parts of TypeOK: the channel ...
ChannelType ==
  /\ state \in ChannelStates
  /\ stateTimer \in BOOLEAN
  /\ retryTimer \in {"none", "running", "expired"}
  /\ waiters \subseteq {"attach", "detach"}
  /\ implicitAttach \in BOOLEAN
  /\ recovering \in BOOLEAN
  /\ connection \in {"connected", "disconnected", "suspended", "closing", "closed", "failed"}

\* ... the messages, sent and not yet sent, and the server ...
MessageType ==
  /\ tasks \in Seq(SendTasks)
  /\ queued \in Seq(Requests)
  /\ toServer \in Seq(Requests)
  /\ toClient \in Seq(Replies)
  /\ serverAttached \in BOOLEAN
  /\ stream \in {"off", "start", "on"}
  /\ position \in 0..MaxMessages
  /\ newest \in 0..MaxMessages

\* ... and what was decoded and delivered.
DataType ==
  /\ channelSerial \in Serials
  /\ context \in [last : 0..MaxMessages, base : {Garbage} \union 0..MaxMessages]
  /\ got \in [Messages -> Fates]

\* The three parts are TypeOK.
LEMMA TypeInParts == TypeOK <=> ChannelType /\ MessageType /\ DataType
BY DEF TypeOK, ChannelType, MessageType, DataType

\* A channel starts INITIALIZED, with nothing under way.
LEMMA InitEstablishes == Init => IInv
<1> SUFFICES ASSUME Init PROVE IInv
  OBVIOUS
<1>1. ChannelType /\ Tied
  BY DEF Init, ChannelType, ChannelStates, Tied, PendingIsTimed, SuspendedRetries, WaitersPending,
         RecoveryEnds, RetryTimerIsForSuspended, Pending
<1>2. MessageType
  <2>1. 0 \in 0..MaxMessages
    BY ConstantsAssumption
  <2>2. /\ tasks \in Seq(SendTasks) /\ queued \in Seq(Requests)
        /\ toServer \in Seq(Requests) /\ toClient \in Seq(Replies)
    BY EmptySeq DEF Init
  <2> QED
    BY <2>1, <2>2 DEF Init, MessageType
<1>3. DataType
  <2>1. context \in [last : 0..MaxMessages, base : {Garbage} \union 0..MaxMessages]
    BY ConstantsAssumption DEF Init
  <2>2. got \in [Messages -> Fates]
    BY DEF Init, Fates
  <2> QED
    BY <2>1, <2>2 DEF Init, DataType, Serials
<1> QED
  BY <1>1, <1>2, <1>3, TypeInParts DEF IInv

-----------------------------------------------------------------------------
(* The messages.                                                           *)

\* A send task is added for a state that calls for one.
LEMMA SendingType ==
  ASSUME DataType, NEW new, NEW c, NEW ts \in Seq(SendTasks)
  PROVE  Sending(new, c, ts) \in Seq(SendTasks)
<1>1. Request(new) \in SendTasks
  BY DEF Request, SendTasks, DataType, Serials
<1>2. Append(ts, Request(new)) \in Seq(SendTasks)
  BY <1>1, AppendRange
<1> QED
  BY <1>2, Zenon DEF Sending

\* Every step that neither sends nor receives keeps the types of the messages.
LEMMA TasksKeepMessages ==
  ASSUME MessageType, DataType, NEW new, NEW c,
         tasks' = tasks \/ tasks' = Sending(new, c, tasks),
         UNCHANGED <<queued, wire>>
  PROVE  MessageType'
BY SendingType DEF MessageType, wire, server

\* Nor does one that cuts the wire and may clear the queue.
LEMMA CutKeepsMessages ==
  ASSUME MessageType, WireIsCut, UNCHANGED <<tasks, serverAttached>>,
         queued' = queued \/ queued' = <<>>
  PROVE  MessageType'
BY EmptySeq DEF MessageType, WireIsCut

-----------------------------------------------------------------------------
(* The state of the channel.                                               *)

\* Every handler leaves the state with the timers, the waiters and the recovery it calls for.
LEMMA NextKeepsState ==
  ASSUME ChannelType, MessageType, Tied, Next
  PROVE  ChannelType' /\ Tied'
<1> USE DEF ChannelType, ChannelStates, Tied, PendingIsTimed, SuspendedRetries, WaitersPending,
         RecoveryEnds, RetryTimerIsForSuspended, Pending
<1>1. CASE Attach
  BY <1>1 DEF Attach, AttachCall, RequestAndWait, RetryTimerAfter
<1>2. CASE Detach
  BY <1>2 DEF Detach, NotifyState, ChangeState, EnterState, RequestAndWait, RetryTimerAfter
<1>3. CASE SetOptions
  BY <1>3 DEF SetOptions, RequestAndWait, RetryTimerAfter
<1>4. CASE StateTimerExpires
  BY <1>4 DEF StateTimerExpires, ChangeState, EnterState, RetryTimerAfter
<1>5. CASE RetryTimerExpires
  BY <1>5 DEF RetryTimerExpires, RequestState, ChangeState, EnterState, RetryTimerAfter
<1>6. CASE AttachImplicitly
  BY <1>6 DEF AttachImplicitly, AttachCall, RequestAndWait, RetryTimerAfter, channel
<1>7. CASE SendTaskRuns
  BY <1>7 DEF SendTaskRuns, channel
<1>8. CASE ConnectionLost
  BY <1>8 DEF ConnectionLost, channel
<1>9. CASE ConnectionSuspends
  BY <1>9 DEF ConnectionSuspends, ConnectionEnds, Propagate, NotifyState, ChangeState, EnterState,
              RetryTimerAfter, channel
<1>10. CASE ConnectionFails
  BY <1>10 DEF ConnectionFails, ConnectionEnds, Propagate, NotifyState, ChangeState, EnterState,
               RetryTimerAfter, channel
<1>11. CASE CloseConnection
  BY <1>11 DEF CloseConnection, ConnectionEnacts, channel
<1>12. CASE ConnectionCloses
  BY <1>12 DEF ConnectionCloses, ConnectionEnds, Propagate, NotifyState, ChangeState, EnterState,
               RetryTimerAfter, channel
<1>13. CASE ConnectionErrors
  BY <1>13 DEF ConnectionErrors, ConnectionEnacts, channel
<1>14. CASE Connect
  BY <1>14 DEF Connect, NotifyState, ChangeState, EnterState, RetryTimerAfter, channel
<1>15. CASE Connected
  BY <1>15 DEF Connected, ResumeChannel, ChangeState, EnterState, RetryTimerAfter, channel
<1>16. CASE ConnectedAgain
  BY <1>16 DEF ConnectedAgain, ResumeChannel, ChangeState, EnterState, RetryTimerAfter, channel
<1>17. CASE ServerAnswers
  BY <1>17 DEF ServerAnswers, channel
<1>18. CASE ServerSends
  BY <1>18 DEF ServerSends, channel
<1>19. CASE OnMessage
  <2>1. UNCHANGED <<implicitAttach, connection>> /\ connection = "connected"
    BY <1>19 DEF OnMessage
  <2>2. CASE OnAttached(Head(toClient))
    BY <2>1, <2>2 DEF OnAttached, EnterState, RetryTimerAfter
  <2>3. CASE OnDetached
    BY <2>1, <2>3 DEF OnDetached, NotifyState, RequestState, ChangeState, EnterState,
                      RetryTimerAfter, channel
  <2>4. CASE OnError
    BY <2>1, <2>4 DEF OnError, NotifyState, ChangeState, EnterState, RetryTimerAfter
  <2>5. CASE OnUndecodable
    BY <2>1, <2>5 DEF OnUndecodable, channel
  <2>6. CASE OnUnreadable(Head(toClient)) \/ OnDecoded(Head(toClient))
    <3>1. UNCHANGED <<state, stateTimer, retryTimer, waiters, recovering>>
      BY <2>6, Zenon DEF OnUnreadable, OnDecoded, channel
    <3> QED
      BY <2>1, <3>1
  <2>7. Head(toClient).action \in {"ATTACHED", "DETACHED", "ERROR", "MESSAGE"}
    BY <1>19 DEF OnMessage, MessageType, Replies
  <2> QED
    BY <1>19, <2>2, <2>3, <2>4, <2>5, <2>6, <2>7 DEF OnMessage, OnBatch
<1> QED
  BY <1>1, <1>2, <1>3, <1>4, <1>5, <1>6, <1>7, <1>8, <1>9, <1>10, <1>11, <1>12, <1>13, <1>14,
     <1>15, <1>16, <1>17, <1>18, <1>19
     DEF Next, ApplicationStep, ConnectionStep
-----------------------------------------------------------------------------
(* The messages, continued.                                                *)

\* Every step sends and receives messages of their types.
LEMMA NextKeepsMessages ==
  ASSUME ChannelType, MessageType, DataType, Next
  PROVE  MessageType'
<1>1. CASE Attach \/ Detach \/ SetOptions
  <2>1. PICK new \in ChannelStates : tasks' = tasks \/ tasks' = Sending(new, connection, tasks)
    BY <1>1 DEF Attach, AttachCall, Detach, SetOptions, NotifyState, RequestAndWait, ChannelStates
  <2> QED
    BY <1>1, <2>1, TasksKeepMessages DEF Attach, Detach, SetOptions
<1>2. CASE StateTimerExpires \/ RetryTimerExpires \/ AttachImplicitly
  <2>1. PICK new \in ChannelStates : tasks' = tasks \/ tasks' = Sending(new, connection, tasks)
    BY <1>2 DEF StateTimerExpires, RetryTimerExpires, AttachImplicitly, AttachCall, RequestState,
                RequestAndWait, ChannelStates
  <2> QED
    BY <1>2, <2>1, TasksKeepMessages DEF StateTimerExpires, RetryTimerExpires, AttachImplicitly
<1>3. CASE SendTaskRuns
  <2>1. Head(tasks) \in SendTasks /\ tasks' \in Seq(SendTasks)
    BY <1>3, TailRange DEF SendTaskRuns, MessageType
  <2> DEFINE message == [action |-> Head(tasks).action, serial |-> Head(tasks).serial]
  <2>2. message \in Requests
    BY <2>1 DEF SendTasks, Requests
  <2>3. /\ Append(toServer, message) \in Seq(Requests)
        /\ Append(queued, message) \in Seq(Requests)
    BY <2>2, AppendRange DEF MessageType
  <2> QED
    BY <1>3, <2>1, <2>3 DEF SendTaskRuns, MessageType, server
<1>4. CASE ConnectionLost \/ CloseConnection \/ ConnectionErrors
  BY <1>4, CutKeepsMessages
     DEF ConnectionLost, CloseConnection, ConnectionErrors, ConnectionEnacts
<1>5. CASE ConnectionSuspends \/ ConnectionFails \/ ConnectionCloses
  BY <1>5, CutKeepsMessages
     DEF ConnectionSuspends, ConnectionFails, ConnectionCloses, ConnectionEnds
<1>6. CASE Connect
  BY <1>6 DEF Connect, MessageType, wire, server
<1>7. CASE Connected
  <2> DEFINE ts == [i \in 1..Len(queued) |->
                [action |-> queued[i].action, serial |-> queued[i].serial, fresh |-> FALSE]]
  <2>1. ts \in Seq(SendTasks)
    <3>1. \A i \in 1..Len(queued) : queued[i] \in Requests
      BY ElementOfSeq DEF MessageType
    <3>2. Len(queued) \in Nat
      BY LenProperties DEF MessageType
    <3>3. \A i \in 1..Len(queued) : ts[i] \in SendTasks
      BY <3>1 DEF Requests, SendTasks
    <3> QED
      BY <3>2, <3>3, IsASeq
  <2>2. PICK new \in ChannelStates : tasks' = ts \/ tasks' = Sending(new, "connected", ts)
    <3>1. ResumeChannel(ts)
      BY <1>7 DEF Connected
    <3> HIDE DEF ts
    <3> QED
      BY <3>1 DEF ResumeChannel, ChannelType, ChannelStates
  <2>3. tasks' \in Seq(SendTasks)
    BY <2>1, <2>2, SendingType
  <2> QED
    BY <1>7, <2>3, EmptySeq DEF Connected, WireIsCut, MessageType
<1>8. CASE ConnectedAgain
  <2>1. PICK new \in ChannelStates : tasks' = tasks \/ tasks' = Sending(new, "connected", tasks)
    BY <1>8 DEF ConnectedAgain, ResumeChannel, ChannelType, ChannelStates
  <2> QED
    BY <1>8, <2>1, TasksKeepMessages DEF ConnectedAgain
<1>9. CASE ServerAnswers
  <2>1. toServer' \in Seq(Requests) /\ Head(toServer) \in Requests
    BY <1>9, TailRange DEF ServerAnswers, MessageType
  <2>2. PICK answer \in Replies : toClient' = Append(toClient, answer)
    <3>1. CASE \E answer \in {"DETACHED", "ERROR"} : ServerRefuses(answer)
      BY <3>1 DEF ServerRefuses, Replies
    <3>2. CASE ServerAttaches(Head(toServer).serial)
      <4>1. PICK continues \in BOOLEAN :
              /\ continues => Head(toServer).serial # NoSerial
              /\ toClient' = Append(toClient,
                   [action |-> "ATTACHED",
                    serial |-> IF continues THEN Head(toServer).serial ELSE newest,
                    continues |-> continues])
        BY <3>2 DEF ServerAttaches
      <4>2. Head(toServer).serial \in Serials /\ newest \in Serials
        BY <2>1 DEF Requests, MessageType, Serials
      <4> QED
        BY <4>1, <4>2 DEF Replies
    <3> QED
      BY <1>9, <3>1, <3>2 DEF ServerAnswers
  <2>3. toClient' \in Seq(Replies)
    BY <2>2, AppendRange DEF MessageType
  <2>4. /\ serverAttached' \in BOOLEAN /\ stream' \in {"off", "start", "on"}
        /\ position' \in 0..MaxMessages
    BY <1>9, <2>1, ConstantsAssumption
       DEF ServerAnswers, ServerAttaches, ServerRefuses, MessageType, Requests, Serials, NoSerial
  <2> QED
    BY <1>9, <2>1, <2>3, <2>4 DEF ServerAnswers, MessageType
<1>10. CASE ServerSends
  <2>1. CASE SendMessages
    <3>1. PICK last \in {position + 1, position + 2}, whole \in BOOLEAN :
            /\ last <= MaxMessages
            /\ toClient' = Append(toClient,
                 [action |-> "MESSAGE", first |-> position + 1, last |-> last, whole |-> whole])
            /\ stream' = "on" /\ position' = last
            /\ newest' = IF last > newest THEN last ELSE newest
            /\ UNCHANGED serverAttached
      BY <2>1 DEF SendMessages
    <3>2. last \in Messages /\ position + 1 \in Messages
      BY <3>1, ConstantsAssumption DEF MessageType, Messages
    <3>3. toClient' \in Seq(Replies)
      BY <3>1, <3>2, AppendRange DEF Replies, MessageType
    <3>4. position' \in 0..MaxMessages /\ newest' \in 0..MaxMessages
      BY <3>1, <3>2 DEF Messages, MessageType
    <3> QED
      BY <1>10, <3>1, <3>3, <3>4 DEF ServerSends, MessageType
  <2>2. CASE SendAttached
    <3>1. [action |-> "ATTACHED", serial |-> position, continues |-> TRUE] \in Replies
      BY DEF Replies, MessageType, Serials
    <3>2. toClient' \in Seq(Replies)
      BY <2>2, <3>1, AppendRange DEF SendAttached, MessageType
    <3> QED
      BY <1>10, <2>2, <3>2 DEF ServerSends, SendAttached, MessageType, server
  <2>3. CASE SendDetached
    <3>1. [action |-> "DETACHED"] \in Replies
      BY DEF Replies
    <3>2. toClient' \in Seq(Replies)
      BY <2>3, <3>1, AppendRange DEF SendDetached, ServerRefuses, MessageType
    <3> QED
      BY <1>10, <2>3, <3>2 DEF ServerSends, SendDetached, ServerRefuses, MessageType
  <2> QED
    BY <1>10, <2>1, <2>2, <2>3 DEF ServerSends
<1>11. CASE OnMessage
  <2>1. toClient' \in Seq(Replies) /\ Head(toClient) \in Replies
    BY <1>11, TailRange DEF OnMessage, MessageType
  <2>2. Head(toClient).action \in {"ATTACHED", "DETACHED", "ERROR", "MESSAGE"}
    BY <2>1 DEF Replies
  <2>3. PICK new \in ChannelStates : tasks' = tasks \/ tasks' = Sending(new, connection, tasks)
    BY <1>11, <2>2 DEF OnMessage, OnAttached, OnDetached, OnError, OnBatch, OnUndecodable,
                       OnUnreadable, OnDecoded, RequestState, ChannelStates
  <2>4. tasks' \in Seq(SendTasks)
    BY <2>3, SendingType DEF MessageType
  <2> QED
    BY <1>11, <2>1, <2>4 DEF OnMessage, MessageType, server
<1> QED
  BY <1>1, <1>2, <1>3, <1>4, <1>5, <1>6, <1>7, <1>8, <1>9, <1>10, <1>11
     DEF Next, ApplicationStep, ConnectionStep

-----------------------------------------------------------------------------
(* What was decoded and delivered.                                         *)

\* A step that decodes nothing leaves the serial or clears it.
LEMMA SerialKeepsData ==
  ASSUME DataType, UNCHANGED data, channelSerial' \in {channelSerial, NoSerial}
  PROVE  DataType'
BY DEF DataType, data, Serials

\* Decoding yields the context of a message that there is.
LEMMA DecodedType ==
  ASSUME DataType, NEW b \in Replies, b.action = "MESSAGE", DecodeBatch(b) # Undecoded
  PROVE  DecodeBatch(b) \in [last : 0..MaxMessages, base : {Garbage} \union 0..MaxMessages]
<1>1. b.first \in Messages /\ b.last \in Messages
  BY DEF Replies
<1>2. ASSUME NEW c, NEW m \in Messages, NEW whole, DecodeMessage(c, m, whole) # Undecoded
      PROVE  DecodeMessage(c, m, whole)
               \in [last : 0..MaxMessages, base : {Garbage} \union 0..MaxMessages]
  BY <1>2 DEF DecodeMessage, Applied, Messages
<1> QED
  BY <1>1, <1>2 DEF DecodeBatch

\* Every step leaves a serial, a context and fates of messages.
LEMMA NextKeepsData ==
  ASSUME ChannelType, MessageType, DataType, Next
  PROVE  DataType'
<1>1. CASE ApplicationStep \/ StateTimerExpires \/ RetryTimerExpires \/ AttachImplicitly
  BY <1>1, SerialKeepsData
     DEF ApplicationStep, Attach, AttachCall, Detach, SetOptions, StateTimerExpires,
         RetryTimerExpires, AttachImplicitly, RequestAndWait, RequestState, NotifyState,
         ChangeState, EnterState, channel
<1>2. CASE ConnectionStep
  BY <1>2, SerialKeepsData
     DEF ConnectionStep, ConnectionLost, ConnectionSuspends, ConnectionFails, CloseConnection,
         ConnectionCloses, ConnectionErrors, Connect, Connected, ConnectedAgain, ConnectionEnds,
         ConnectionEnacts, Propagate, ResumeChannel, NotifyState, ChangeState, EnterState, channel
<1>3. CASE SendTaskRuns \/ ServerAnswers \/ ServerSends
  BY <1>3, SerialKeepsData DEF SendTaskRuns, ServerAnswers, ServerSends, channel
<1>4. CASE OnMessage
  <2> DEFINE m == Head(toClient)
  <2>1. m \in Replies
    BY <1>4 DEF OnMessage, MessageType
  <2>2. CASE m.action = "ATTACHED" /\ OnAttached(m)
    <3>1. m.serial \in Serials
      BY <2>1, <2>2 DEF Replies
    <3>2. got' \in [Messages -> Fates]
      BY <2>2 DEF OnAttached, Excused, DataType, Fates
    <3> QED
      BY <2>2, <3>1, <3>2 DEF OnAttached, EnterState, DataType, Serials
  <2>3. CASE OnDetached \/ OnError \/ OnUndecodable
    BY <2>3, SerialKeepsData
       DEF OnDetached, OnError, OnUndecodable, NotifyState, RequestState, ChangeState, EnterState,
           channel
  <2>4. CASE OnUnreadable(m)
    BY <2>4 DEF OnUnreadable, channel, DataType, Fates
  <2>5. CASE m.action = "MESSAGE" /\ DecodeBatch(m) # Undecoded /\ OnDecoded(m)
    <3>1. m.last \in Serials
      BY <2>1, <2>5 DEF Replies, Messages, Serials
    <3>2. context' \in [last : 0..MaxMessages, base : {Garbage} \union 0..MaxMessages]
      BY <2>1, <2>5, DecodedType DEF OnDecoded
    <3>3. got' \in [Messages -> Fates]
      <4>1. \A k \in Messages :
              Delivered(got[k]) \in Fates /\ Excused(Reattaching, m.last)[k] \in Fates
        BY DEF Delivered, Excused, DataType, Fates
      <4> QED
        BY <2>5, <4>1 DEF OnDecoded
    <3> QED
      BY <2>5, <3>1, <3>2, <3>3 DEF OnDecoded, DataType
  <2>6. m.action \in {"ATTACHED", "DETACHED", "ERROR", "MESSAGE"}
    BY <2>1 DEF Replies
  <2> QED
    BY <1>4, <2>2, <2>3, <2>4, <2>5, <2>6 DEF OnMessage, OnBatch
<1> QED
  BY <1>1, <1>2, <1>3, <1>4 DEF Next

\* The invariant is inductive.
LEMMA NextKeeps == IInv /\ [Next]_vars => IInv'
<1> SUFFICES ASSUME IInv, [Next]_vars PROVE IInv'
  OBVIOUS
<1>1. CASE Next
  <2>1. ChannelType /\ MessageType /\ DataType /\ Tied
    BY TypeInParts DEF IInv
  <2>2. ChannelType' /\ Tied'
    BY <1>1, <2>1, NextKeepsState
  <2>3. MessageType'
    BY <1>1, <2>1, NextKeepsMessages
  <2>4. DataType'
    BY <1>1, <2>1, NextKeepsData
  <2> QED
    BY <2>2, <2>3, <2>4 DEF IInv, TypeOK, ChannelType, MessageType, DataType
<1>2. CASE UNCHANGED vars
  BY <1>2 DEF vars, IInv, TypeOK, Tied, PendingIsTimed, SuspendedRetries, WaitersPending,
              RecoveryEnds, RetryTimerIsForSuspended
<1> QED
  BY <1>1, <1>2

-----------------------------------------------------------------------------
(* What is under way, as sets.                                             *)

\* The two names for the elements of a sequence.
LEMMA ToSetIsRange == ASSUME NEW s PROVE ToSet(s) = Range(s)
BY DEF ToSet, Range

\* What is added is under way besides what was ...
LEMMA ActionsOfAppend ==
  ASSUME NEW S, NEW s \in Seq(S), NEW x \in S
  PROVE  /\ ToSet(Append(s, x)) = ToSet(s) \union {x}
         /\ Actions(Append(s, x)) = Actions(s) \union {x.action}
<1>1. ToSet(Append(s, x)) = ToSet(s) \union {x}
  BY AppendRange, ToSetIsRange
<1> QED
  BY <1>1 DEF Actions

\* ... what is taken was under way ...
LEMMA ActionsOfTail ==
  ASSUME NEW S, NEW s \in Seq(S), s # <<>>
  PROVE  /\ ToSet(s) = {Head(s)} \union ToSet(Tail(s))
         /\ Actions(s) = {Head(s).action} \union Actions(Tail(s))
<1>1. ToSet(s) = {Head(s)} \union ToSet(Tail(s))
  BY TailRange, ToSetIsRange
<1> QED
  BY <1>1 DEF Actions

\* ... and nothing is in an empty sequence.
LEMMA ActionsOfNone == ToSet(<<>>) = {} /\ Actions(<<>>) = {}
BY EmptyRange, ToSetIsRange DEF Actions

\* The messages to the client after one has been added, place by place.
LEMMA Added ==
  ASSUME MessageType, NEW x \in Replies, toClient' = Append(toClient, x)
  PROVE  /\ Len(toClient) \in Nat /\ DOMAIN toClient = 1..Len(toClient)
         /\ toClient' \in Seq(Replies)
         /\ Len(toClient') = Len(toClient) + 1 /\ DOMAIN toClient' = 1..(Len(toClient) + 1)
         /\ toClient'[Len(toClient) + 1] = x
         /\ \A i \in 1..Len(toClient) : toClient'[i] = toClient[i]
<1>1. toClient \in Seq(Replies)
  BY DEF MessageType
<1> QED
  BY <1>1, AppendProperties, LenProperties

\* ... and after the first one has been taken.
LEMMA Taken ==
  ASSUME MessageType, toClient # <<>>, toClient' = Tail(toClient)
  PROVE  /\ Len(toClient) \in Nat /\ Len(toClient) >= 1 /\ DOMAIN toClient = 1..Len(toClient)
         /\ toClient' \in Seq(Replies)
         /\ Len(toClient') = Len(toClient) - 1 /\ DOMAIN toClient' = 1..(Len(toClient) - 1)
         /\ Head(toClient) = toClient[1] /\ Head(toClient) \in Replies
         /\ \A i \in 1..(Len(toClient) - 1) : toClient'[i] = toClient[i + 1]
<1>1. toClient \in Seq(Replies)
  BY DEF MessageType
<1>2. Len(toClient) \in Nat /\ Len(toClient) # 0
  BY <1>1, LenProperties, EmptySeq
<1> QED
  BY <1>1, <1>2, HeadTailProperties, LenProperties

-----------------------------------------------------------------------------
(* An ATTACHED channel is attached at the server.                          *)

\* With DETACHED and with ERROR the server lets go of the channel.
Refusal(m) == m.action \in {"DETACHED", "ERROR"}

\* The server holds the channel, or the client will hear that it does not.
Served ==
  \/ serverAttached
  \/ {"DETACHED", "ERROR"} \intersect Actions(toClient) # {}
  \/ "DETACH" \in Actions(toServer) \union Actions(tasks)

\* AttachedIsServed alone is not inductive: DETACHING goes back to ATTACHED in time.
ServedUntilLeft == state \in {"attached", "detaching"} /\ connection = "connected" => Served

\* What the server has confirmed it holds, or it has sent a refusal since.
ConfirmedIsHeld ==
  \A i \in DOMAIN toClient :
    toClient[i].action = "ATTACHED" =>
      serverAttached \/ \E j \in DOMAIN toClient : j > i /\ Refusal(toClient[j])

\* The application and the timers leave the wire alone.
LEMMA QuietKeepsServed ==
  ASSUME MessageType, DataType, ServedUntilLeft, ConfirmedIsHeld,
         UNCHANGED <<connection, toServer, toClient, serverAttached>>,
         NEW new, NEW c, tasks' = tasks \/ tasks' = Sending(new, c, tasks),
         state' \in {"attached", "detaching"} =>
           \/ state \in {"attached", "detaching"}
           \/ connection # "connected"
           \/ new = "detaching" /\ c = "connected" /\ tasks' = Sending(new, c, tasks)
  PROVE  ServedUntilLeft' /\ ConfirmedIsHeld'
<1>1. Request(new) \in SendTasks /\ (new = "detaching" => Request(new).action = "DETACH")
  BY DEF Request, SendTasks, DataType, Serials
<1>2. tasks' = tasks \/ tasks' = Append(tasks, Request(new))
  BY DEF Sending
<1>3. Actions(tasks) \subseteq Actions(tasks')
  <2>1. Actions(Append(tasks, Request(new))) = Actions(tasks) \union {Request(new).action}
    BY <1>1, ActionsOfAppend DEF MessageType
  <2> QED
    BY <1>2, <2>1
<1>4. new = "detaching" /\ c = "connected" /\ tasks' = Sending(new, c, tasks)
        => "DETACH" \in Actions(tasks')
  BY <1>1, <1>2, ActionsOfAppend DEF MessageType, Sending, Pending
<1>5. Actions(tasks)' = Actions(tasks') /\ Actions(toServer)' = Actions(toServer)
      /\ Actions(toClient)' = Actions(toClient)
  BY DEF Actions
<1>6. ServedUntilLeft'
  BY <1>3, <1>4, <1>5 DEF ServedUntilLeft, Served
<1> QED
  BY <1>6 DEF ConfirmedIsHeld

\* When the wire is cut there is nothing confirmed, and in CONNECTED nothing is ATTACHED.
LEMMA CutKeepsServed ==
  ASSUME toClient' = <<>>,
         state' \in {"attached", "detaching"} /\ connection' = "connected" => Served'
  PROVE  ServedUntilLeft' /\ ConfirmedIsHeld'
<1>1. DOMAIN toClient' = {}
  OBVIOUS
<1> QED
  BY <1>1 DEF ServedUntilLeft, ConfirmedIsHeld

\* The server adds a message.
LEMMA AddedKeepsServed ==
  ASSUME MessageType, ServedUntilLeft, ConfirmedIsHeld,
         NEW x \in Replies, toClient' = Append(toClient, x),
         UNCHANGED <<state, connection, tasks>>,
         \/ Refusal(x)
         \/ serverAttached'
         \/ x.action = "MESSAGE" /\ UNCHANGED <<serverAttached, toServer>>
  PROVE  ServedUntilLeft' /\ ConfirmedIsHeld'
<1>1. Actions(toClient)' = Actions(toClient) \union {x.action}
  <2>1. Actions(toClient)' = Actions(Append(toClient, x))
    BY DEF Actions
  <2> QED
    BY <2>1, ActionsOfAppend DEF MessageType
<1>2. Actions(tasks)' = Actions(tasks)
  BY DEF Actions
<1>3. ServedUntilLeft'
  <2>1. Served \/ Refusal(x) \/ serverAttached' => Served'
    <3>1. CASE Refusal(x)
      BY <1>1, <3>1 DEF Served, Refusal
    <3>2. CASE serverAttached'
      BY <3>2 DEF Served
    <3>3. CASE x.action = "MESSAGE" /\ UNCHANGED <<serverAttached, toServer>>
      BY <1>1, <1>2, <3>1, <3>2, <3>3 DEF Served, Actions
    <3> QED
      BY <3>1, <3>2, <3>3
  <2> QED
    BY <2>1 DEF ServedUntilLeft
<1>4. ConfirmedIsHeld'
  <2>1. CASE Refusal(x)
    <3>1. Len(toClient) + 1 \in DOMAIN toClient' /\ Refusal(toClient'[Len(toClient) + 1])
      BY <2>1, Added
    <3>2. \A i \in DOMAIN toClient' : i = Len(toClient) + 1 \/ Len(toClient) + 1 > i
      BY Added
    <3> QED
      BY <3>1, <3>2 DEF ConfirmedIsHeld, Refusal
  <2>2. CASE serverAttached'
    BY <2>2 DEF ConfirmedIsHeld
  <2>3. CASE x.action = "MESSAGE" /\ UNCHANGED serverAttached
    <3> SUFFICES ASSUME NEW i \in DOMAIN toClient', toClient'[i].action = "ATTACHED",
                        ~serverAttached
                 PROVE  \E j \in DOMAIN toClient' : j > i /\ Refusal(toClient'[j])
      BY <2>3 DEF ConfirmedIsHeld, Refusal
    <3>1. i \in DOMAIN toClient /\ toClient'[i] = toClient[i]
      BY <2>3, Added
    <3>2. PICK j \in DOMAIN toClient : j > i /\ Refusal(toClient[j])
      BY <3>1 DEF ConfirmedIsHeld
    <3> QED
      BY <3>2, Added
  <2> QED
    BY <2>1, <2>2, <2>3
<1> QED
  BY <1>3, <1>4

\* The client takes a message.
LEMMA TakenKeepsServed ==
  ASSUME MessageType, ServedUntilLeft, ConfirmedIsHeld,
         toClient # <<>>, toClient' = Tail(toClient),
         UNCHANGED <<connection, toServer, serverAttached>>,
         Actions(tasks) \subseteq Actions(tasks'),
         state' \in {"attached", "detaching"} =>
           \/ state \in {"attached", "detaching"} /\ ~Refusal(Head(toClient))
           \/ Head(toClient).action = "ATTACHED"
  PROVE  ServedUntilLeft' /\ ConfirmedIsHeld'
<1> DEFINE h == Head(toClient)
<1>1. Actions(toClient) = {h.action} \union Actions(toClient') /\ h = toClient[1]
  BY ActionsOfTail, Taken DEF MessageType
<1>2. \A i \in DOMAIN toClient :
        i = 1 \/ (i - 1 \in DOMAIN toClient' /\ toClient[i] = toClient'[i - 1])
  BY Taken
<1>3. Actions(toClient)' = Actions(toClient') /\ Actions(tasks)' = Actions(tasks')
      /\ Actions(toServer)' = Actions(toServer)
  BY DEF Actions
<1>4. ServedUntilLeft'
  <2> SUFFICES ASSUME state' \in {"attached", "detaching"}, connection = "connected" PROVE Served'
    BY DEF ServedUntilLeft
  <2>1. CASE state \in {"attached", "detaching"} /\ ~Refusal(h)
    BY <1>1, <1>3, <2>1 DEF ServedUntilLeft, Served, Refusal
  <2>2. CASE h.action = "ATTACHED"
    <3>1. serverAttached \/ \E j \in DOMAIN toClient : j > 1 /\ Refusal(toClient[j])
      BY <1>1, <2>2, Taken DEF ConfirmedIsHeld
    <3>2. ASSUME NEW j \in DOMAIN toClient, j > 1, Refusal(toClient[j])
          PROVE  {"DETACHED", "ERROR"} \intersect Actions(toClient') # {}
      <4>1. PICK k \in DOMAIN toClient' : Refusal(toClient'[k])
        BY <1>2, <3>2
      <4> QED
        BY <4>1, ZenonT(60) DEF Refusal, Actions, ToSet
    <3> QED
      BY <1>3, <3>1, <3>2 DEF Served
  <2> QED
    BY <2>1, <2>2
<1>5. ConfirmedIsHeld'
  <2> SUFFICES ASSUME NEW i \in DOMAIN toClient', toClient'[i].action = "ATTACHED", ~serverAttached
               PROVE  \E j \in DOMAIN toClient' : j > i /\ Refusal(toClient'[j])
    BY DEF ConfirmedIsHeld, Refusal
  <2>1. i + 1 \in DOMAIN toClient /\ toClient[i + 1] = toClient'[i] /\ i \in Nat
    BY Taken
  <2>2. PICK j \in DOMAIN toClient : j > i + 1 /\ Refusal(toClient[j])
    BY <2>1 DEF ConfirmedIsHeld
  <2>3. j - 1 \in DOMAIN toClient' /\ toClient'[j - 1] = toClient[j] /\ j - 1 > i
    BY <2>1, <2>2, Taken
  <2> QED
    BY <2>2, <2>3
<1> QED
  BY <1>4, <1>5

\* What the server does with a request.
LEMMA ServerAnswersWith ==
  ASSUME MessageType, ServerAnswers
  PROVE  /\ toServer # <<>> /\ toServer' = Tail(toServer) /\ Head(toServer) \in Requests
         /\ \E x \in Replies :
              /\ toClient' = Append(toClient, x)
              /\ \/ Refusal(x) /\ ~serverAttached' /\ stream' = "off" /\ UNCHANGED position
                 \/ /\ x.action = "ATTACHED" /\ serverAttached' /\ stream' = "start"
                    /\ Head(toServer).action = "ATTACH"
                    /\ position' = x.serial
                    /\ \/ /\ x.continues /\ x.serial = Head(toServer).serial
                          /\ Head(toServer).serial # NoSerial
                       \/ ~x.continues /\ x.serial = newest
<1>1. toServer # <<>> /\ toServer' = Tail(toServer) /\ Head(toServer) \in Requests
  BY TailRange DEF ServerAnswers, MessageType
<1>2. CASE \E answer \in {"DETACHED", "ERROR"} : ServerRefuses(answer)
  <2>1. PICK answer \in {"DETACHED", "ERROR"} : ServerRefuses(answer)
    BY <1>2
  <2>2. [action |-> answer] \in Replies /\ Refusal([action |-> answer])
    BY DEF Replies, Refusal
  <2> QED
    BY <1>1, <2>1, <2>2 DEF ServerRefuses
<1>3. CASE Head(toServer).action = "ATTACH" /\ ServerAttaches(Head(toServer).serial)
  <2>1. PICK continues \in BOOLEAN :
          /\ continues => Head(toServer).serial # NoSerial
          /\ position' = IF continues THEN Head(toServer).serial ELSE newest
          /\ toClient' = Append(toClient,
               [action |-> "ATTACHED",
                serial |-> IF continues THEN Head(toServer).serial ELSE newest,
                continues |-> continues])
          /\ serverAttached' = TRUE /\ stream' = "start"
    BY <1>3 DEF ServerAttaches
  <2>2. Head(toServer).serial \in Serials /\ newest \in Serials
    BY <1>1 DEF Requests, MessageType, Serials
  <2> DEFINE x == [action |-> "ATTACHED",
                   serial |-> IF continues THEN Head(toServer).serial ELSE newest,
                   continues |-> continues]
  <2>3. x \in Replies /\ x.action = "ATTACHED" /\ x.continues = continues
        /\ x.serial = IF continues THEN Head(toServer).serial ELSE newest
    BY <2>2 DEF Replies
  <2> QED
    BY <1>1, <1>3, <2>1, <2>3
<1>4. Head(toServer).action \in {"ATTACH", "DETACH"}
  BY <1>1 DEF Requests
<1> QED
  BY <1>2, <1>3, <1>4 DEF ServerAnswers

\* What the server sends unasked.
LEMMA ServerSendsWhat ==
  ASSUME MessageType, ServerSends
  PROVE  \E x \in Replies :
           /\ toClient' = Append(toClient, x) /\ serverAttached
           /\ \/ /\ Refusal(x) /\ ~serverAttached' /\ stream' = "off"
                 /\ UNCHANGED <<position, newest>>
              \/ /\ x.action = "ATTACHED" /\ x.serial = position /\ stream # "off"
                 /\ UNCHANGED <<serverAttached, stream, position, newest>>
              \/ /\ x.action = "MESSAGE" /\ x.first = position + 1 /\ x.first <= x.last
                 /\ stream # "off" /\ stream' = "on" /\ position' = x.last
                 /\ newest' = (IF x.last > newest THEN x.last ELSE newest)
                 /\ UNCHANGED serverAttached
<1>1. CASE SendMessages
  <2>1. PICK last \in {position + 1, position + 2}, whole \in BOOLEAN :
          /\ stream # "off" /\ last <= MaxMessages
          /\ toClient' = Append(toClient,
               [action |-> "MESSAGE", first |-> position + 1, last |-> last, whole |-> whole])
          /\ stream' = "on" /\ position' = last
          /\ newest' = IF last > newest THEN last ELSE newest
          /\ UNCHANGED serverAttached
    BY <1>1 DEF SendMessages
  <2> DEFINE x == [action |-> "MESSAGE", first |-> position + 1, last |-> last, whole |-> whole]
  <2>2. last \in Messages /\ position + 1 \in Messages /\ position + 1 <= last
    BY <2>1, ConstantsAssumption DEF MessageType, Messages
  <2>3. x \in Replies /\ x.action = "MESSAGE" /\ x.first = position + 1 /\ x.last = last
    BY <2>2 DEF Replies
  <2> QED
    BY <1>1, <2>1, <2>2, <2>3 DEF ServerSends
<1>2. CASE SendAttached
  <2> DEFINE x == [action |-> "ATTACHED", serial |-> position, continues |-> TRUE]
  <2>1. x \in Replies /\ x.action = "ATTACHED" /\ x.serial = position
    BY DEF Replies, MessageType, Serials
  <2> QED
    BY <1>2, <2>1 DEF ServerSends, SendAttached, server
<1>3. CASE SendDetached
  <2>1. [action |-> "DETACHED"] \in Replies /\ Refusal([action |-> "DETACHED"])
    BY DEF Replies, Refusal
  <2> QED
    BY <1>3, <2>1 DEF ServerSends, SendDetached, ServerRefuses
<1> QED
  BY <1>1, <1>2, <1>3 DEF ServerSends

\* Every step keeps what the client will hear, and what was confirmed.
LEMMA NextKeepsServed ==
  ASSUME ChannelType, MessageType, DataType, ServedUntilLeft, ConfirmedIsHeld, Next
  PROVE  ServedUntilLeft' /\ ConfirmedIsHeld'
<1>1. CASE ApplicationStep \/ StateTimerExpires \/ RetryTimerExpires \/ AttachImplicitly
  <2>1. UNCHANGED <<connection, toServer, toClient, serverAttached>>
    BY <1>1 DEF ApplicationStep, Attach, Detach, SetOptions, StateTimerExpires, RetryTimerExpires,
                AttachImplicitly, wire, server
  <2>2. \E new \in ChannelStates :
          /\ tasks' = tasks \/ tasks' = Sending(new, connection, tasks)
          /\ state' \in {"attached", "detaching"} =>
               \/ state \in {"attached", "detaching"}
               \/ connection # "connected"
               \/ /\ new = "detaching" /\ connection = "connected"
                  /\ tasks' = Sending(new, connection, tasks)
    BY <1>1 DEF ApplicationStep, Attach, AttachCall, Detach, SetOptions, StateTimerExpires,
                RetryTimerExpires, AttachImplicitly, RequestAndWait, RequestState, NotifyState,
                ChangeState, EnterState, channel, ChannelType, ChannelStates
  <2> QED
    BY <2>1, <2>2, QuietKeepsServed
<1>2. CASE ConnectedAgain
  <2>1. UNCHANGED <<connection, toServer, toClient, serverAttached>>
    BY <1>2 DEF ConnectedAgain, wire, server
  <2>2. \E new \in ChannelStates :
          /\ tasks' = tasks \/ tasks' = Sending(new, "connected", tasks)
          /\ state' \in {"attached", "detaching"} => state \in {"attached", "detaching"}
    BY <1>2 DEF ConnectedAgain, ResumeChannel, ChangeState, EnterState, channel, ChannelType,
                ChannelStates
  <2> QED
    BY <2>1, <2>2, QuietKeepsServed
<1>3. CASE Connect
  BY <1>3 DEF Connect, wire, server, ServedUntilLeft, ConfirmedIsHeld
<1>4. CASE \/ ConnectionLost \/ ConnectionSuspends \/ ConnectionFails \/ CloseConnection
           \/ ConnectionCloses \/ ConnectionErrors
  BY <1>4, CutKeepsServed
     DEF ConnectionLost, ConnectionSuspends, ConnectionFails, CloseConnection, ConnectionCloses,
         ConnectionErrors, ConnectionEnds, ConnectionEnacts, WireIsCut
<1>5. CASE Connected
  <2> DEFINE ts == [i \in 1..Len(queued) |->
                [action |-> queued[i].action, serial |-> queued[i].serial, fresh |-> FALSE]]
  <2>1. ts \in Seq(SendTasks)
    <3>1. \A i \in 1..Len(queued) : queued[i] \in Requests
      BY ElementOfSeq DEF MessageType
    <3>2. Len(queued) \in Nat
      BY LenProperties DEF MessageType
    <3>3. \A i \in 1..Len(queued) : ts[i] \in SendTasks
      BY <3>1 DEF Requests, SendTasks
    <3> QED
      BY <3>2, <3>3, IsASeq
  <2>2. ResumeChannel(ts) /\ toClient' = <<>>
    BY <1>5 DEF Connected, WireIsCut
  <2> HIDE DEF ts
  <2>3. state' \in {"attached", "detaching"} =>
          state = "detaching" /\ tasks' = Append(ts, Request("detaching"))
    BY <2>2 DEF ResumeChannel, Sending, ChangeState, EnterState, channel, Pending, ChannelType
  <2>4. Request("detaching") \in SendTasks /\ Request("detaching").action = "DETACH"
    BY DEF Request, SendTasks, DataType, Serials
  <2>5. "DETACH" \in Actions(Append(ts, Request("detaching")))
    BY <2>1, <2>4, ActionsOfAppend
  <2>6. state' \in {"attached", "detaching"} => "DETACH" \in Actions(tasks)'
    BY <2>3, <2>5 DEF Actions
  <2> QED
    BY <2>2, <2>6, CutKeepsServed DEF Served
<1>6. CASE SendTaskRuns
  <2> DEFINE h == Head(tasks)
             message == [action |-> h.action, serial |-> h.serial]
  <2>1. Actions(tasks) = {h.action} \union Actions(Tail(tasks)) /\ h \in SendTasks
    BY <1>6, ActionsOfTail, TailRange DEF SendTaskRuns, MessageType
  <2>2. message \in Requests /\ message.action = h.action
    BY <2>1 DEF SendTasks, Requests
  <2>3. Actions(Append(toServer, message)) = Actions(toServer) \union {h.action}
    BY <2>2, ActionsOfAppend DEF MessageType
  <2> HIDE DEF message
  <2>4. connection = "connected" => toServer' = Append(toServer, message)
    BY <1>6 DEF SendTaskRuns, message
  <2>5. connection = "connected" =>
          Actions(tasks) \union Actions(toServer)
            \subseteq Actions(tasks)' \union Actions(toServer)'
    <3>1. Actions(tasks)' = Actions(Tail(tasks))
      BY <1>6 DEF SendTaskRuns, Actions
    <3>2. connection = "connected" => Actions(toServer)' = Actions(Append(toServer, message))
      BY <2>4 DEF Actions
    <3> QED
      BY <2>1, <2>3, <3>1, <3>2
  <2>6. UNCHANGED <<state, connection, toClient, serverAttached>>
    BY <1>6 DEF SendTaskRuns, channel, server
  <2>7. ServedUntilLeft'
    BY <2>5, <2>6 DEF ServedUntilLeft, Served, Actions
  <2> QED
    BY <2>6, <2>7 DEF ConfirmedIsHeld
<1>7. CASE ServerAnswers
  <2>1. UNCHANGED <<state, connection, tasks>>
    BY <1>7 DEF ServerAnswers, channel
  <2> QED
    BY <1>7, <2>1, ServerAnswersWith, AddedKeepsServed
<1>8. CASE ServerSends
  <2>1. UNCHANGED <<state, connection, tasks, toServer>>
    BY <1>8 DEF ServerSends, channel
  <2> QED
    BY <1>8, <2>1, ServerSendsWhat, AddedKeepsServed
<1>9. CASE OnMessage
  <2> DEFINE h == Head(toClient)
  <2>1. toClient # <<>> /\ toClient' = Tail(toClient) /\ h \in Replies
        /\ UNCHANGED <<connection, toServer, serverAttached>>
    BY <1>9, Taken DEF OnMessage, server
  <2>2. h.action \in {"ATTACHED", "DETACHED", "ERROR", "MESSAGE"}
    BY <2>1 DEF Replies
  <2>3. \E new \in ChannelStates :
          /\ tasks' = tasks \/ tasks' = Sending(new, connection, tasks)
          /\ state' \in {"attached", "detaching"} =>
               \/ state \in {"attached", "detaching"} /\ ~Refusal(h)
               \/ h.action = "ATTACHED"
    BY <1>9, <2>2, ZenonT(60)
       DEF OnMessage, OnAttached, OnDetached, OnError, OnBatch, OnUndecodable, OnUnreadable,
           OnDecoded, RequestState, NotifyState, ChangeState, EnterState, channel, ChannelType,
           ChannelStates, Refusal
  <2>4. ASSUME NEW new PROVE Actions(tasks) \subseteq Actions(Sending(new, connection, tasks))
    <3>1. Request(new) \in SendTasks
      BY DEF Request, SendTasks, DataType, Serials
    <3>2. Actions(Append(tasks, Request(new))) = Actions(tasks) \union {Request(new).action}
      BY <3>1, ActionsOfAppend DEF MessageType
    <3> QED
      BY <3>2 DEF Sending
  <2> QED
    BY <2>1, <2>3, <2>4, TakenKeepsServed
<1> QED
  BY <1>1, <1>2, <1>3, <1>4, <1>5, <1>6, <1>7, <1>8, <1>9 DEF Next, ConnectionStep

-----------------------------------------------------------------------------
(* Every message reaches the subscribers once: the invariant.              *)

\* No message up to n is missing.
Covered(n) == \A m \in Messages : m <= n => got[m] # "no"
\* No message after n has been delivered for good.
UpTo(n) == \A m \in Messages : got[m] = "yes" => m <= n

\* The server may go on from here: nothing before it is missing, and nothing after it has
\* been delivered for good.
SafeStart(n) == n # NoSerial => Covered(n) /\ UpTo(n)

\* The requests that the server has not yet answered.
Asked == ToSet(tasks) \union ToSet(queued) \union ToSet(toServer)
\* An ATTACH is among them.
AskingAnew == \E r \in Asked : r.action = "ATTACH"

\* No message has been delivered again after it was delivered for good.
NeverTwice == \A m \in Messages : got[m] # "twice"

\* The serial, and the serial of every ATTACH under way, are safe starts.
StartsAreSafe ==
  SafeStart(channelSerial) /\ \A r \in Asked : r.action = "ATTACH" => SafeStart(r.serial)

\* What comes, and what the server will send next, has not been delivered for good.
NothingSentAgain ==
  /\ UpTo(newest)
  /\ stream # "off" => UpTo(position)
  /\ \A i \in DOMAIN toClient :
       /\ toClient[i].action = "ATTACHED" => UpTo(toClient[i].serial)
       /\ toClient[i].action = "MESSAGE" =>
            /\ UpTo(toClient[i].first - 1)
            /\ toClient[i].first <= toClient[i].last /\ toClient[i].last <= newest

\* From the i-th place on there are only messages on the wire.
MessagesFrom(i) == \A k \in DOMAIN toClient : i <= k => toClient[k].action = "MESSAGE"

\* Messages with no answer behind them come in their order.
InOrder ==
  \A i \in DOMAIN toClient : MessagesFrom(i) =>
    /\ \A j \in DOMAIN toClient : i < j => toClient[i].last < toClient[j].first
    /\ stream # "off" => toClient[i].last <= position

\* The place in the channel's history at which a message leaves the client.
EndsAt(m, n) ==
  \/ m.action = "MESSAGE" /\ m.last = n
  \/ m.action = "ATTACHED" /\ m.serial = n

\* An answer that starts from a safe place.
Anew(m) == Refusal(m) \/ (m.action = "ATTACHED" /\ (m.continues => Covered(m.serial)))

\* Each message begins where the one before it ends.
Seamless ==
  /\ \A i, j \in DOMAIN toClient : j = i + 1 =>
       /\ toClient[j].action = "MESSAGE" => EndsAt(toClient[i], toClient[j].first - 1)
       /\ toClient[j].action = "ATTACHED" =>
            Anew(toClient[j]) \/ EndsAt(toClient[i], toClient[j].serial)
  /\ stream # "off" /\ toClient # <<>> => EndsAt(toClient[Len(toClient)], position)

\* An ATTACH is under way, or an answer to one that starts from a safe place.
Foreseen == AskingAnew \/ \E i \in DOMAIN toClient : Anew(toClient[i])

\* What is missing before the next message will be asked for.
NothingMissed ==
  \/ Foreseen
  \/ toClient # <<>> /\ toClient[1].action = "MESSAGE" /\ Covered(toClient[1].first - 1)
  \/ toClient = <<>> /\ (stream # "off" => Covered(position))

\* While a recovery is under way, an ATTACH or its answer is.
RecoveryAsks == recovering /\ connection = "connected" => Foreseen

\* Without a connection nothing is on the wire.
CutOff == connection # "connected" => toClient = <<>> /\ toServer = <<>> /\ stream = "off"

\* The invariant from which DeliveredOnce follows.
Delivering ==
  /\ NeverTwice /\ StartsAreSafe /\ NothingSentAgain /\ InOrder /\ Seamless /\ NothingMissed
  /\ RecoveryAsks /\ CutOff

-----------------------------------------------------------------------------
(* Every message reaches the subscribers once: the steps.                  *)

\* Whoever asks the server asks to go on from the serial, or from anywhere.
LEMMA SendingIsSafe ==
  ASSUME MessageType, DataType, StartsAreSafe, NEW new, NEW c, NEW ts \in Seq(SendTasks)
  PROVE  /\ \A r \in ToSet(Sending(new, c, ts)) : r \in ToSet(ts) \/ SafeStart(r.serial)
         /\ ToSet(ts) \subseteq ToSet(Sending(new, c, ts))
         /\ c = "connected" /\ new = "attaching" =>
              \E r \in ToSet(Sending(new, c, ts)) : r.action = "ATTACH"
<1> DEFINE q == Request(new)
<1>1. q \in SendTasks /\ SafeStart(q.serial) /\ (new = "attaching" => q.action = "ATTACH")
  BY DEF Request, SendTasks, DataType, Serials, StartsAreSafe, SafeStart
<1>2. ToSet(Append(ts, q)) = ToSet(ts) \union {q}
  BY <1>1, ActionsOfAppend
<1> QED
  BY <1>1, <1>2 DEF Sending, Pending

\* The application, the timers and the connection leave what the server sends alone.
LEMMA QuietKeepsDelivering ==
  ASSUME Delivering, UNCHANGED <<got, toClient, stream, position, newest>>,
         channelSerial' \in {channelSerial, NoSerial},
         \A r \in Asked' : r \in Asked \/ (r.action = "ATTACH" => SafeStart(r.serial)),
         AskingAnew => AskingAnew',
         recovering' /\ connection' = "connected" =>
           AskingAnew' \/ (recovering /\ connection = "connected"),
         connection' # "connected" => connection # "connected" /\ UNCHANGED toServer
  PROVE  Delivering'
<1>1. \A n : Covered(n)' <=> Covered(n)
  BY DEF Covered
<1>2. \A n : UpTo(n)' <=> UpTo(n)
  BY DEF UpTo
<1>3. \A n : SafeStart(n)' <=> SafeStart(n)
  BY <1>1, <1>2 DEF SafeStart
<1>4. NeverTwice' /\ CutOff'
  BY DEF Delivering, NeverTwice, CutOff
<1>5. StartsAreSafe'
  <2>1. SafeStart(channelSerial')
    BY DEF Delivering, StartsAreSafe, SafeStart
  <2>2. \A r \in Asked' : r.action = "ATTACH" => SafeStart(r.serial)
    BY DEF Delivering, StartsAreSafe
  <2> QED
    BY <1>1, <1>2, <2>1, <2>2 DEF StartsAreSafe, SafeStart, Covered, UpTo
<1>6. NothingSentAgain' /\ InOrder'
  BY DEF Delivering, NothingSentAgain, InOrder, MessagesFrom, UpTo
<1>7. Seamless'
  BY DEF Delivering, Seamless, Anew, Covered
<1>8. Foreseen => Foreseen'
  BY DEF Foreseen, Anew, Covered
<1>9. NothingMissed' /\ RecoveryAsks'
  <2>1. RecoveryAsks'
    BY <1>8 DEF Delivering, RecoveryAsks, Foreseen
  <2>2. NothingMissed'
    BY <1>8 DEF Delivering, NothingMissed, Covered
  <2> QED
    BY <2>1, <2>2
<1> QED
  BY <1>4, <1>5, <1>6, <1>7, <1>9 DEF Delivering

\* When the wire is cut nothing comes until the server has been asked.
LEMMA CutKeepsDelivering ==
  ASSUME Delivering, UNCHANGED <<got, newest>>,
         toClient' = <<>>, toServer' = <<>>, stream' = "off",
         channelSerial' \in {channelSerial, NoSerial},
         \A r \in Asked' : r \in Asked \/ (r.action = "ATTACH" => SafeStart(r.serial)),
         recovering' /\ connection' = "connected" => AskingAnew'
  PROVE  Delivering'
<1>1. DOMAIN toClient' = {}
  OBVIOUS
<1>2. NeverTwice' /\ CutOff'
  BY DEF Delivering, NeverTwice, CutOff
<1>3. StartsAreSafe'
  <2>1. /\ SafeStart(channelSerial')
        /\ \A r \in Asked' : r.action = "ATTACH" => SafeStart(r.serial)
    BY DEF Delivering, StartsAreSafe, SafeStart
  <2> QED
    BY <2>1 DEF StartsAreSafe, SafeStart, Covered, UpTo
<1>4. NothingSentAgain'
  BY <1>1 DEF Delivering, NothingSentAgain, UpTo
<1>5. InOrder' /\ Seamless' /\ NothingMissed' /\ RecoveryAsks'
  BY <1>1 DEF InOrder, Seamless, NothingMissed, RecoveryAsks, Foreseen
<1> QED
  BY <1>2, <1>3, <1>4, <1>5 DEF Delivering

\* The server answers or sends.
LEMMA AddedKeepsDelivering ==
  ASSUME MessageType, Delivering, NEW x \in Replies, toClient' = Append(toClient, x),
         UNCHANGED <<got, channelSerial, recovering, connection, tasks, queued>>,
         connection = "connected",
         \A r \in Asked' : r \in Asked,
         UpTo(newest'), stream' # "off" => UpTo(position') /\ EndsAt(x, position'),
         newest' \in Int /\ newest <= newest',
         \/ Refusal(x) /\ stream' = "off"
         \/ /\ x.action = "ATTACHED" /\ x.serial = position' /\ stream' # "off"
            /\ (x.continues => Covered(x.serial))
         \/ /\ x.action = "ATTACHED" /\ x.serial = position /\ position' = position
            /\ stream # "off" /\ (AskingAnew => AskingAnew')
         \/ /\ x.action = "MESSAGE" /\ x.first = position + 1 /\ x.first <= x.last
            /\ x.last <= newest' /\ stream # "off" /\ position' = x.last
            /\ (AskingAnew => AskingAnew')
  PROVE  Delivering'
<1> DEFINE n == Len(toClient)
<1>1. /\ n \in Nat /\ DOMAIN toClient = 1..n /\ DOMAIN toClient' = 1..(n + 1)
      /\ Len(toClient') = n + 1 /\ toClient' # <<>> /\ toClient'[n + 1] = x
      /\ \A i \in 1..n : toClient'[i] = toClient[i]
      /\ (toClient # <<>> => n >= 1)
  <2>1. toClient # <<>> => n # 0
    BY EmptySeq DEF MessageType
  <2> QED
    BY <2>1, Added
<1> HIDE DEF n
<1>2. NeverTwice' /\ CutOff'
  BY DEF Delivering, NeverTwice, CutOff
<1>3. StartsAreSafe'
  BY DEF Delivering, StartsAreSafe, SafeStart, Covered, UpTo
<1> DEFINE IsMessage == /\ x.first = position + 1 /\ x.first <= x.last
                        /\ x.last <= newest' /\ stream # "off" /\ position' = x.last
                        /\ (AskingAnew => AskingAnew')
           IsRepeated == /\ x.serial = position /\ position' = position /\ stream # "off"
                         /\ (AskingAnew => AskingAnew')
           IsAnswer == /\ x.serial = position' /\ stream' # "off"
                       /\ (x.continues => Covered(x.serial))
<1>a. x.action = "MESSAGE" => IsMessage
  BY DEF Refusal
<1>b. x.action = "ATTACHED" => IsAnswer \/ IsRepeated
  BY DEF Refusal
<1>c. position \in Int /\ newest \in Int /\ position + 1 - 1 = position
  BY DEF MessageType
<1>d. x.action = "MESSAGE" => x.first - 1 = position
  BY <1>a, <1>c
<1>e. stream # "off" => UpTo(position)
  BY DEF Delivering, NothingSentAgain
<1>4. x.action = "ATTACHED" => UpTo(x.serial)
  <2>1. IsAnswer => UpTo(x.serial)
    OBVIOUS
  <2>2. IsRepeated => UpTo(x.serial)
    BY <1>e
  <2> QED
    BY <1>b, <2>1, <2>2
<1>5. x.action = "MESSAGE" => UpTo(x.first - 1) /\ x.first <= x.last /\ x.last <= newest'
  BY <1>a, <1>d, <1>e
<1> HIDE DEF IsMessage, IsRepeated, IsAnswer
<1>6. NothingSentAgain'
  <2> SUFFICES ASSUME NEW i \in 1..(n + 1)
               PROVE  /\ toClient'[i].action = "ATTACHED" => UpTo(toClient'[i].serial)
                      /\ toClient'[i].action = "MESSAGE" =>
                           /\ UpTo(toClient'[i].first - 1)
                           /\ toClient'[i].first <= toClient'[i].last
                           /\ toClient'[i].last <= newest'
    BY <1>1 DEF NothingSentAgain, UpTo
  <2>1. CASE i = n + 1
    BY <1>1, <1>4, <1>5, <2>1
  <2>2. CASE i \in 1..n
    <3>1. toClient[i] \in Replies
      BY <1>1, <2>2, ElementOfSeq DEF MessageType, n
    <3>2. toClient[i].action = "MESSAGE" => toClient[i].last \in Int
      BY <3>1 DEF Replies, Messages
    <3>3. /\ toClient[i].action = "ATTACHED" => UpTo(toClient[i].serial)
          /\ toClient[i].action = "MESSAGE" =>
               /\ UpTo(toClient[i].first - 1)
               /\ toClient[i].first <= toClient[i].last /\ toClient[i].last <= newest
      BY <1>1, <2>2 DEF Delivering, NothingSentAgain
    <3> QED
      BY <1>1, <1>c, <2>2, <3>2, <3>3
  <2> QED
    BY <1>1, <2>1, <2>2
\* A message is behind messages only if it is one and begins where they end.
<1>7. InOrder'
  <2> SUFFICES ASSUME NEW i \in 1..(n + 1), MessagesFrom(i)'
               PROVE  /\ \A j \in 1..(n + 1) : i < j => toClient'[i].last < toClient'[j].first
                      /\ stream' # "off" => toClient'[i].last <= position'
    BY <1>1 DEF InOrder
  <2>1. x.action = "MESSAGE"
    BY <1>1 DEF MessagesFrom
  <2>2. x.first = position + 1 /\ x.first <= x.last /\ position' = x.last /\ stream # "off"
    BY <1>a, <2>1 DEF IsMessage
  <2>3. x.first \in Int /\ x.last \in Int /\ position \in Int
    BY <2>1 DEF Replies, Messages, MessageType
  <2>4. CASE i = n + 1
    BY <1>1, <2>2, <2>3, <2>4
  <2>5. CASE i \in 1..n
    <3>1. MessagesFrom(i)
      BY <1>1 DEF MessagesFrom
    <3>2. /\ \A j \in 1..n : i < j => toClient[i].last < toClient[j].first
          /\ toClient[i].last <= position
      BY <1>1, <2>2, <2>5, <3>1 DEF Delivering, InOrder
    <3>3. toClient[i].last \in Int
      <4>1. toClient[i] \in Replies /\ toClient[i].action = "MESSAGE"
        BY <1>1, <2>5, <3>1, ElementOfSeq DEF MessageType, n, MessagesFrom
      <4> QED
        BY <4>1 DEF Replies, Messages
    <3>4. toClient[i].last < x.first /\ toClient[i].last <= position'
      BY <2>2, <2>3, <3>2, <3>3
    <3>5. ASSUME NEW j \in 1..(n + 1), i < j PROVE toClient'[i].last < toClient'[j].first
      <4>1. j \in 1..n \/ j = n + 1
        BY <1>1
      <4> QED
        BY <1>1, <2>5, <3>2, <3>4, <3>5, <4>1
    <3> QED
      BY <1>1, <2>5, <3>4, <3>5
  <2> QED
    BY <1>1, <2>4, <2>5
<1>8. \A m : Anew(m)' <=> Anew(m)
  BY DEF Anew, Covered
<1>9. Seamless'
  <2>1. ASSUME NEW i \in 1..(n + 1), NEW j \in 1..(n + 1), j = i + 1
        PROVE  /\ toClient'[j].action = "MESSAGE" => EndsAt(toClient'[i], toClient'[j].first - 1)
               /\ toClient'[j].action = "ATTACHED" =>
                    Anew(toClient'[j]) \/ EndsAt(toClient'[i], toClient'[j].serial)
    <3>1. i \in 1..n /\ toClient'[i] = toClient[i]
      BY <1>1, <2>1
    <3>2. CASE j \in 1..n
      <4>1. toClient'[j] = toClient[j]
        BY <1>1, <3>2
      <4> QED
        BY <1>1, <2>1, <3>1, <3>2, <4>1 DEF Delivering, Seamless
    <3>3. CASE j = n + 1
      <4>1. i = n /\ toClient'[j] = x
        BY <1>1, <2>1, <3>1, <3>3
      <4>2. stream # "off" => EndsAt(toClient[n], position)
        BY <1>1, <3>1 DEF Delivering, Seamless, n
      <4>3. x.action = "MESSAGE" => EndsAt(toClient[n], x.first - 1)
        <5>1. x.action = "MESSAGE" => x.first - 1 = position /\ stream # "off"
          BY <1>a, <1>d DEF IsMessage
        <5> QED
          BY <4>2, <5>1
      <4>4. x.action = "ATTACHED" => Anew(x) \/ EndsAt(toClient[n], x.serial)
        BY <1>b, <4>2 DEF Anew, IsAnswer, IsRepeated
      <4> QED
        BY <3>1, <4>1, <4>3, <4>4
    <3> QED
      BY <1>1, <3>2, <3>3
  <2>2. stream' # "off" => EndsAt(toClient'[n + 1], position')
    BY <1>1
  <2> QED
    BY <1>1, <1>8, <2>1, <2>2, SMTT(60) DEF Seamless, Anew, Covered, EndsAt
<1>10. Foreseen => Foreseen'
  <2>1. (\E i \in DOMAIN toClient : Anew(toClient[i]))
          => \E i \in DOMAIN toClient' : Anew(toClient'[i])
    BY <1>1
  <2>2. CASE Anew(x)
    BY <1>1, <1>8, <2>2 DEF Foreseen, Anew, Covered
  <2>3. CASE ~Anew(x)
    <3>1. AskingAnew => AskingAnew'
      BY <1>a, <1>b, <2>3 DEF Anew, Refusal, IsMessage, IsAnswer, IsRepeated, Replies
    <3> QED
      BY <1>8, <2>1, <3>1 DEF Foreseen, Anew, Covered
  <2> QED
    BY <2>2, <2>3
<1>11. RecoveryAsks'
  BY <1>10 DEF Delivering, RecoveryAsks
<1>12. NothingMissed'
  <2>1. CASE Foreseen
    BY <1>10, <2>1 DEF NothingMissed
  <2>2. CASE toClient # <<>> /\ toClient[1].action = "MESSAGE" /\ Covered(toClient[1].first - 1)
    <3>1. toClient'[1] = toClient[1]
      BY <1>1, <2>2
    <3> QED
      BY <1>1, <2>2, <3>1 DEF NothingMissed, Covered
  <2>3. CASE toClient = <<>> /\ (stream # "off" => Covered(position))
    <3>1. n = 0
      BY <2>3 DEF n
    <3>2. toClient'[1] = x
      BY <1>1, <3>1
    <3>3. CASE Anew(x)
      BY <1>1, <1>8, <3>3 DEF NothingMissed, Foreseen, Anew, Covered
    <3>4. CASE ~Anew(x)
      <4>1. x.action = "MESSAGE" /\ x.first - 1 = position /\ Covered(position)
        <5>1. x.action = "MESSAGE" \/ (x.action = "ATTACHED" /\ IsRepeated)
          BY <1>b, <3>4 DEF Anew, Refusal, IsAnswer, Replies
        <5> QED
          BY <1>a, <1>d, <2>3, <3>4, <5>1 DEF Anew, IsMessage, IsRepeated
      <4> QED
        BY <1>1, <3>2, <4>1 DEF NothingMissed, Covered
    <3> QED
      BY <3>3, <3>4
  <2> QED
    BY <2>1, <2>2, <2>3 DEF Delivering, NothingMissed
<1> QED
  BY <1>2, <1>3, <1>6, <1>7, <1>9, <1>11, <1>12 DEF Delivering

\* What of what follows the first message bears on whether it is delivered for good.
LEMMA ReattachingMeans ==
  ASSUME MessageType, toClient # <<>>
  PROVE  ~Reattaching =>
           /\ ~AskingAnew
           /\ \A i \in DOMAIN toClient : i > 1 => toClient[i].action = "MESSAGE"
<1> SUFFICES ASSUME ~Reattaching
             PROVE  /\ ~AskingAnew
                    /\ \A i \in DOMAIN toClient : i > 1 => toClient[i].action = "MESSAGE"
  OBVIOUS
<1>1. ~AskingAnew
  BY DEF Reattaching, AskingAnew, Asked, Actions
<1>2. ASSUME NEW i \in DOMAIN toClient, i > 1 PROVE toClient[i].action = "MESSAGE"
  <2> DEFINE t == Tail(toClient)
  <2>1. /\ toClient \in Seq(Replies) /\ t \in Seq(Replies) /\ DOMAIN toClient = 1..Len(toClient)
        /\ Len(t) = Len(toClient) - 1 /\ DOMAIN t = 1..Len(t) /\ Len(toClient) \in Nat
        /\ \A k \in 1..Len(t) : t[k] = toClient[k + 1]
    BY HeadTailProperties, LenProperties DEF MessageType
  <2> HIDE DEF t
  <2>2. i - 1 \in DOMAIN t /\ t[i - 1] = toClient[i] /\ toClient[i] \in Replies
    BY <1>2, <2>1
  <2>3. toClient[i].action \in Actions(t)
    BY <2>2 DEF Actions, ToSet
  <2>4. toClient[i].action \notin {"ATTACHED", "DETACHED", "ERROR"}
    BY <2>3 DEF Reattaching, t
  <2> QED
    BY <2>2, <2>4 DEF Replies
<1> QED
  BY <1>1, <1>2

\* The client takes a message, and delivers some, excuses some, or asks again.
LEMMA TakenKeepsDelivering ==
  ASSUME MessageType, DataType, Delivering, toClient # <<>>, toClient' = Tail(toClient),
         UNCHANGED <<connection, toServer, stream, position, newest>>, connection = "connected",
         NeverTwice', StartsAreSafe',
         \A m \in Messages : got[m] # "no" => got'[m] # "no",
         \/ \A m \in Messages : got'[m] = "yes" => got[m] = "yes"
         \/ /\ Head(toClient).action = "MESSAGE" /\ ~Reattaching
            /\ \A m \in Messages : got'[m] = "yes" => got[m] = "yes" \/ m <= Head(toClient).last,
         AskingAnew => AskingAnew',
         \/ Refusal(Head(toClient))
         \/ \E n \in Int : EndsAt(Head(toClient), n) /\ Covered(n)'
         \/ Head(toClient).action = "MESSAGE" /\ Foreseen
         \/ AskingAnew',
         recovering' => AskingAnew' \/ (recovering /\ Head(toClient).action = "MESSAGE")
  PROVE  Delivering'
\* What was on the wire, and what is left of it, as constants of the step.
<1>a. PICK c : c = toClient
  OBVIOUS
<1>b. PICK d : d = toClient'
  OBVIOUS
<1>c. PICK h : h = Head(toClient)
  OBVIOUS
<1>d. PICK n : n = Len(toClient)
  OBVIOUS
<1>1. /\ n \in Nat /\ n >= 1 /\ DOMAIN c = 1..n /\ DOMAIN d = 1..(n - 1)
      /\ Len(d) = n - 1 /\ Len(c) = n /\ h = c[1] /\ h \in Replies
      /\ \A i \in 1..(n - 1) : i + 1 \in 1..n /\ d[i] = c[i + 1]
  BY <1>a, <1>b, <1>c, <1>d, Taken
<1>2. \A i \in 1..n : c[i] \in Replies
  BY <1>1, <1>a, ElementOfSeq DEF MessageType
<1>3. \A i \in 1..n : i = 1 \/ (i - 1 \in 1..(n - 1) /\ c[i] = d[i - 1])
  BY <1>1
<1>4. \A k : Covered(k) => Covered(k)'
  BY DEF Covered
<1>5. \A m : Anew(m) => Anew(m)'
  BY DEF Anew, Covered
<1>6. CutOff'
  BY DEF CutOff
<1>e. d = <<>> <=> n = 1
  <2>1. d \in Seq(Replies)
    BY <1>b, Taken
  <2> QED
    BY <1>1, <2>1, EmptySeq
<1>7. NothingSentAgain'
  <2>1. CASE \A m \in Messages : got'[m] = "yes" => got[m] = "yes"
    <3>1. \A k : UpTo(k) => UpTo(k)'
      BY <2>1 DEF UpTo
    <3>2. /\ \A m \in Messages : got'[m] = "yes" => m <= newest
          /\ stream # "off" => \A m \in Messages : got'[m] = "yes" => m <= position
      BY <2>1 DEF Delivering, NothingSentAgain, UpTo
    <3>3. ASSUME NEW i \in 1..(n - 1)
          PROVE  /\ d[i].action = "ATTACHED" => UpTo(d[i].serial)'
                 /\ d[i].action = "MESSAGE" =>
                      /\ UpTo(d[i].first - 1)'
                      /\ d[i].first <= d[i].last /\ d[i].last <= newest
      <4>1. i + 1 \in DOMAIN c /\ d[i] = c[i + 1]
        BY <1>1
      <4>2. /\ d[i].action = "ATTACHED" => UpTo(d[i].serial)
            /\ d[i].action = "MESSAGE" =>
                 /\ UpTo(d[i].first - 1)
                 /\ d[i].first <= d[i].last /\ d[i].last <= newest
        BY <1>a, <4>1 DEF Delivering, NothingSentAgain
      <4> QED
        BY <3>1, <4>2
    <3> QED
      BY <1>1, <1>b, <3>2, <3>3 DEF NothingSentAgain, UpTo
  <2>2. CASE /\ h.action = "MESSAGE" /\ ~Reattaching
             /\ \A m \in Messages : got'[m] = "yes" => got[m] = "yes" \/ m <= h.last
    <3>1. \A i \in DOMAIN c : c[i].action = "MESSAGE"
      <4>1. \A i \in DOMAIN c : i > 1 => c[i].action = "MESSAGE"
        BY <1>a, <2>2, ReattachingMeans
      <4> QED
        BY <1>1, <2>2, <4>1
    <3>2. MessagesFrom(1) /\ 1 \in DOMAIN c
      BY <1>1, <1>a, <3>1 DEF MessagesFrom
    <3>3. /\ \A j \in DOMAIN c : 1 < j => h.last < c[j].first
          /\ stream # "off" => h.last <= position
          /\ h.last <= newest /\ h.first <= h.last
      BY <1>1, <1>a, <3>1, <3>2 DEF Delivering, InOrder, NothingSentAgain
    <3>4. h.last \in Int /\ h.first \in Int /\ newest \in Int /\ position \in Int
          /\ Messages \subseteq Int
      BY <1>1, <2>2 DEF Replies, Messages, MessageType
    <3>5. ASSUME NEW k \in Int, UpTo(k), h.last <= k
          PROVE  \A m \in Messages : got'[m] = "yes" => m <= k
      BY <2>2, <3>4, <3>5 DEF UpTo
    <3>6. /\ \A m \in Messages : got'[m] = "yes" => m <= newest
          /\ stream # "off" => \A m \in Messages : got'[m] = "yes" => m <= position
      <4>1. UpTo(newest) /\ (stream # "off" => UpTo(position))
        BY DEF Delivering, NothingSentAgain
      <4> QED
        BY <3>3, <3>4, <3>5, <4>1
    <3>7. ASSUME NEW i \in 1..(n - 1)
          PROVE  /\ d[i].action = "MESSAGE"
                 /\ \A m \in Messages : got'[m] = "yes" => m <= d[i].first - 1
                 /\ d[i].first <= d[i].last /\ d[i].last <= newest
      <4>1. i + 1 \in DOMAIN c /\ d[i] = c[i + 1] /\ 1 < i + 1
        BY <1>1
      <4>a. d[i] \in Replies /\ d[i].action = "MESSAGE" /\ h.last < d[i].first
        BY <1>1, <1>2, <3>1, <3>3, <4>1
      <4>2. d[i].action = "MESSAGE" /\ h.last < d[i].first /\ d[i].first \in Int
        BY <4>a DEF Replies, Messages
      <4>3. UpTo(d[i].first - 1) /\ d[i].first <= d[i].last /\ d[i].last <= newest
        BY <1>a, <4>1, <4>2 DEF Delivering, NothingSentAgain
      <4>4. d[i].first - 1 \in Int /\ h.last <= d[i].first - 1
        BY <3>4, <4>2
      <4>5. \A m \in Messages : got'[m] = "yes" => m <= d[i].first - 1
        BY <3>5, <4>3, <4>4
      <4> QED
        BY <4>2, <4>3, <4>5
    <3> QED
      BY <1>1, <1>b, <3>6, <3>7 DEF NothingSentAgain, UpTo
  <2> QED
    BY <1>c, <2>1, <2>2
<1>8. InOrder'
  <2> SUFFICES ASSUME NEW i \in 1..(n - 1),
                      \A k \in 1..(n - 1) : i <= k => d[k].action = "MESSAGE"
               PROVE  /\ \A j \in 1..(n - 1) : i < j => d[i].last < d[j].first
                      /\ stream # "off" => d[i].last <= position
    BY <1>1, <1>b DEF InOrder, MessagesFrom
  <2>1. i + 1 \in DOMAIN c /\ d[i] = c[i + 1]
    BY <1>1
  <2>2. MessagesFrom(i + 1)
    <3> SUFFICES ASSUME NEW k \in 1..n, i + 1 <= k PROVE c[k].action = "MESSAGE"
      BY <1>1, <1>a DEF MessagesFrom
    <3>1. k - 1 \in 1..(n - 1) /\ c[k] = d[k - 1] /\ i <= k - 1
      BY <1>1, <1>3
    <3> QED
      BY <3>1
  <2>3. ASSUME NEW j \in 1..(n - 1), i < j PROVE d[i].last < d[j].first
    <3>1. j + 1 \in DOMAIN c /\ i + 1 < j + 1 /\ d[j] = c[j + 1]
      BY <1>1, <2>3
    <3> QED
      BY <1>a, <2>1, <2>2, <3>1 DEF Delivering, InOrder
  <2> QED
    BY <1>a, <2>1, <2>2, <2>3 DEF Delivering, InOrder
<1>9. Seamless'
  <2>1. ASSUME NEW i \in 1..(n - 1), NEW j \in 1..(n - 1), j = i + 1
        PROVE  /\ d[j].action = "MESSAGE" => EndsAt(d[i], d[j].first - 1)
               /\ d[j].action = "ATTACHED" => Anew(d[j])' \/ EndsAt(d[i], d[j].serial)
    <3>1. i + 1 \in DOMAIN c /\ j + 1 \in DOMAIN c /\ j + 1 = (i + 1) + 1
          /\ d[i] = c[i + 1] /\ d[j] = c[j + 1]
      BY <1>1, <2>1
    <3>2. /\ d[j].action = "MESSAGE" => EndsAt(d[i], d[j].first - 1)
          /\ d[j].action = "ATTACHED" => Anew(d[j]) \/ EndsAt(d[i], d[j].serial)
      BY <1>a, <3>1 DEF Delivering, Seamless
    <3> QED
      BY <1>5, <3>2
  <2>2. stream # "off" /\ d # <<>> => EndsAt(d[n - 1], position)
    <3> SUFFICES ASSUME stream # "off", d # <<>> PROVE EndsAt(d[n - 1], position)
      OBVIOUS
    <3>1. n - 1 \in 1..(n - 1) /\ d[n - 1] = c[n]
      BY <1>1, <1>e
    <3> QED
      BY <1>a, <1>d, <3>1 DEF Delivering, Seamless
  <2> QED
    BY <1>1, <1>b, <2>1, <2>2, SMTT(60) DEF Seamless, Anew, Covered, EndsAt
<1>10. h.action = "MESSAGE" /\ Foreseen => AskingAnew' \/ \E i \in DOMAIN d : Anew(d[i])'
  <2> SUFFICES ASSUME h.action = "MESSAGE", Foreseen, ~AskingAnew
               PROVE  \E i \in DOMAIN d : Anew(d[i])'
    OBVIOUS
  <2>1. PICK i \in DOMAIN c : Anew(c[i])
    BY <1>a DEF Foreseen
  <2>2. i # 1
    BY <1>1, <2>1 DEF Anew, Refusal
  <2>3. i - 1 \in DOMAIN d /\ d[i - 1] = c[i]
    BY <1>1, <1>3, <2>1, <2>2
  <2>4. Anew(d[i - 1])'
    BY <1>5, <2>1, <2>3
  <2> QED
    BY <2>3, <2>4
<1>f. (AskingAnew' \/ \E i \in DOMAIN d : Anew(d[i])') <=> Foreseen'
  BY <1>b DEF Foreseen, Anew, Covered
<1>11. RecoveryAsks'
  <2>1. recovering' => AskingAnew' \/ (h.action = "MESSAGE" /\ Foreseen)
    BY <1>c DEF Delivering, RecoveryAsks
  <2>2. recovering' => Foreseen'
    BY <1>10, <1>f, <2>1
  <2> QED
    BY <2>2 DEF RecoveryAsks
<1>12. NothingMissed'
  <2>1. CASE AskingAnew' \/ (h.action = "MESSAGE" /\ Foreseen)
    BY <1>10, <1>f, <2>1 DEF NothingMissed
  <2>2. CASE Refusal(h) \/ \E k \in Int : EndsAt(h, k) /\ Covered(k)'
    <3>a. ASSUME NEW k, EndsAt(h, k) PROVE Covered(k)'
      BY <2>2, <3>a DEF EndsAt, Refusal
    <3>1. CASE d = <<>>
      <4>1. stream # "off" => EndsAt(h, position)
        BY <1>1, <1>a, <1>d, <1>e, <3>1 DEF Delivering, Seamless
      <4>2. PICK p : p = position
        OBVIOUS
      <4>3. stream # "off" => Covered(p)'
        BY <3>a, <4>1, <4>2
      <4> QED
        BY <1>b, <3>1, <4>2, <4>3 DEF NothingMissed, Covered
    <3>2. CASE d # <<>>
      <4>1. 2 \in DOMAIN c /\ 1 \in DOMAIN c /\ 2 = 1 + 1 /\ d[1] = c[2] /\ 1 \in DOMAIN d
        BY <1>1, <1>e, <3>2
      <4>2. PICK x : x = c[2]
        OBVIOUS
      <4>3. /\ x.action = "MESSAGE" => EndsAt(h, x.first - 1)
            /\ x.action = "ATTACHED" => Anew(x) \/ EndsAt(h, x.serial)
        BY <1>1, <1>a, <4>1, <4>2 DEF Delivering, Seamless
      <4>4. x \in Replies
        BY <1>1, <1>2, <4>1, <4>2
      <4>5. CASE x.action = "MESSAGE"
        <5>1. Covered(x.first - 1)'
          BY <3>a, <4>3, <4>5
        <5> QED
          BY <1>b, <3>2, <4>1, <4>2, <4>5, <5>1 DEF NothingMissed, Covered
      <4>6. CASE x.action # "MESSAGE"
        <5>1. x.action = "ATTACHED" => Anew(x)'
          <6>1. EndsAt(h, x.serial) => Covered(x.serial)'
            BY <3>a
          <6>2. Covered(x.serial)' /\ x.action = "ATTACHED" => Anew(x)'
            BY DEF Anew
          <6> QED
            BY <1>5, <4>3, <6>1, <6>2
        <5>2. Refusal(x) => Anew(x)'
          BY DEF Anew
        <5>3. Anew(x)'
          BY <4>4, <4>6, <5>1, <5>2 DEF Replies, Refusal
        <5> QED
          BY <1>f, <4>1, <4>2, <5>3 DEF NothingMissed
      <4> QED
        BY <4>5, <4>6
    <3> QED
      BY <3>1, <3>2
  <2> QED
    BY <1>c, <2>1, <2>2
<1> QED
  BY <1>6, <1>7, <1>8, <1>9, <1>11, <1>12 DEF Delivering

\* Starts stay safe while more is delivered or excused.
LEMMA StartsStaySafe ==
  ASSUME StartsAreSafe,
         \A m \in Messages : got[m] # "no" => got'[m] # "no",
         \A m \in Messages : got'[m] = "yes" => got[m] = "yes",
         \A r \in Asked' : r \in Asked \/ SafeStart(r.serial),
         SafeStart(channelSerial)'
  PROVE  StartsAreSafe'
<1>1. \A k : SafeStart(k) => SafeStart(k)'
  BY DEF SafeStart, Covered, UpTo
<1>2. \A r \in Asked' : r.action = "ATTACH" => SafeStart(r.serial)'
  BY <1>1 DEF StartsAreSafe
<1> QED
  BY <1>2 DEF StartsAreSafe, SafeStart, Covered, UpTo

\* What is passed over is excused.
LEMMA ExcusedFates ==
  ASSUME DataType, NEW excuse \in BOOLEAN, NEW upTo
  PROVE  /\ Excused(excuse, upTo) \in [Messages -> Fates]
         /\ \A m \in Messages :
              /\ got[m] # "no" => Excused(excuse, upTo)[m] = got[m]
              /\ Excused(excuse, upTo)[m] \in {got[m], "excused"}
              /\ excuse /\ m <= upTo => Excused(excuse, upTo)[m] # "no"
BY DEF Excused, DataType, Fates

\* Before the first message nothing is missing, unless it will be asked for.
LEMMA NothingBefore ==
  ASSUME MessageType, Delivering, toClient # <<>>, ~Reattaching
  PROVE  /\ Head(toClient).action = "MESSAGE" => Covered(Head(toClient).first - 1)
         /\ Head(toClient).action = "ATTACHED" /\ Head(toClient).continues =>
              Covered(Head(toClient).serial)
<1>1. ~AskingAnew /\ \A i \in DOMAIN toClient : i > 1 => toClient[i].action = "MESSAGE"
  BY ReattachingMeans
<1>2. Head(toClient) = toClient[1] /\ DOMAIN toClient = 1..Len(toClient) /\ Len(toClient) \in Nat
  BY HeadTailProperties, LenProperties DEF MessageType
<1>3. \A i \in DOMAIN toClient : Anew(toClient[i]) => i = 1
  <2>1. \A i \in DOMAIN toClient : i = 1 \/ i > 1
    BY <1>2
  <2> QED
    BY <1>1, <2>1 DEF Anew, Refusal
<1> QED
  BY <1>1, <1>2, <1>3 DEF Delivering, NothingMissed, Foreseen, Anew, Refusal

\* The requests under way when only a send task may have been added.
LEMMA AskedAfterSending ==
  ASSUME MessageType, DataType, StartsAreSafe, UNCHANGED <<queued, toServer>>,
         NEW new, NEW c, tasks' = tasks \/ tasks' = Sending(new, c, tasks)
  PROVE  /\ \A r \in Asked' : r \in Asked \/ SafeStart(r.serial)
         /\ AskingAnew => AskingAnew'
         /\ new = "attaching" /\ c = "connected" /\ tasks' = Sending(new, c, tasks) => AskingAnew'
<1>1. /\ \A r \in ToSet(Sending(new, c, tasks)) : r \in ToSet(tasks) \/ SafeStart(r.serial)
      /\ ToSet(tasks) \subseteq ToSet(Sending(new, c, tasks))
      /\ c = "connected" /\ new = "attaching" =>
           \E r \in ToSet(Sending(new, c, tasks)) : r.action = "ATTACH"
  BY SendingIsSafe DEF MessageType
<1>2. Asked' = ToSet(tasks') \union ToSet(queued) \union ToSet(toServer)
  BY DEF Asked, ToSet
<1>3. tasks' = tasks \/ ToSet(tasks') = ToSet(Sending(new, c, tasks))
  OBVIOUS
<1>4. \A r \in Asked' : r \in Asked \/ SafeStart(r.serial)
  BY <1>1, <1>2, <1>3 DEF Asked
<1>5. Asked \subseteq Asked'
  BY <1>1, <1>2, <1>3 DEF Asked
<1>6. new = "attaching" /\ c = "connected" /\ tasks' = Sending(new, c, tasks) => AskingAnew'
  <2> SUFFICES ASSUME new = "attaching", c = "connected", tasks' = Sending(new, c, tasks)
               PROVE  \E r \in Asked' : r.action = "ATTACH"
    BY DEF AskingAnew
  <2> QED
    BY <1>1, <1>2
<1> QED
  BY <1>4, <1>5, <1>6 DEF AskingAnew

\* The client takes what the server has sent first, and acts on it.
LEMMA OnMessageKeepsDelivering ==
  ASSUME ChannelType, MessageType, DataType, RecoveryEnds, Delivering, OnMessage
  PROVE  Delivering'
<1> DEFINE h == Head(toClient)
<1>1. /\ connection = "connected" /\ toClient # <<>> /\ toClient' = Tail(toClient)
      /\ UNCHANGED <<connection, queued, toServer, stream, position, newest>>
      /\ h \in Replies
  BY Taken DEF OnMessage, server
<1>2. NeverTwice /\ StartsAreSafe
  BY DEF Delivering
<1>3. \A m \in Messages : got[m] \in Fates
  BY DEF DataType
<1>4. CASE h.action = "ATTACHED"
  <2>1. OnAttached(h)
    BY <1>4 DEF OnMessage
  <2> DEFINE e == Reattaching \/ ~h.continues
  <2>2. /\ got' = Excused(e, h.serial) /\ channelSerial' = h.serial /\ tasks' = tasks
        /\ e \in BOOLEAN /\ h.serial \in Serials
    BY <1>1, <1>4, <2>1 DEF OnAttached, EnterState, Replies
  <2>3. ~recovering'
    BY <2>1 DEF OnAttached, EnterState, RecoveryEnds
  <2>4. /\ \A m \in Messages : got[m] # "no" => got'[m] = got[m]
        /\ \A m \in Messages : got'[m] \in {got[m], "excused"}
        /\ \A m \in Messages : e /\ m <= h.serial => got'[m] # "no"
    BY <2>2, ExcusedFates
  <2> PICK g : g = h.serial
    OBVIOUS
  <2>5. Covered(g)'
    <3>1. CASE e
      BY <2>4, <3>1 DEF Covered
    <3>2. CASE ~e
      <4>1. Covered(g)
        BY <1>1, <1>4, <3>2, NothingBefore
      <4> QED
        BY <2>4, <4>1 DEF Covered
    <3> QED
      BY <3>1, <3>2
  <2>6. UpTo(g)'
    <3>1. UpTo(g)
      BY <1>1, <1>4, Taken DEF Delivering, NothingSentAgain
    <3> QED
      BY <2>4, <3>1 DEF UpTo
  <2>7. Asked' = Asked /\ (AskingAnew => AskingAnew')
    BY <1>1, <2>2 DEF Asked, AskingAnew
  <2>8. SafeStart(channelSerial)'
    BY <2>2, <2>5, <2>6 DEF SafeStart, Covered, UpTo
  <2>9. StartsAreSafe'
    BY <1>2, <2>4, <2>7, <2>8, StartsStaySafe
  <2>10. NeverTwice'
    BY <1>2, <2>4 DEF NeverTwice
  <2>11. g \in Int /\ EndsAt(h, g)
    BY <1>4, <2>2 DEF EndsAt, Serials, NoSerial
  <2> QED
    BY <1>1, <2>3, <2>4, <2>5, <2>7, <2>9, <2>10, <2>11, TakenKeepsDelivering
<1>5. CASE h.action \in {"DETACHED", "ERROR"}
  <2>1. OnDetached \/ OnError
    BY <1>5 DEF OnMessage
  <2>2. /\ got' = got /\ channelSerial' \in {channelSerial, NoSerial} /\ ~recovering'
        /\ \E new \in ChannelStates : tasks' = tasks \/ tasks' = Sending(new, connection, tasks)
    BY <2>1 DEF OnDetached, OnError, NotifyState, RequestState, ChangeState, EnterState, channel,
                data, RecoveryEnds, ChannelStates
  <2>3. /\ \A r \in Asked' : r \in Asked \/ SafeStart(r.serial)
        /\ AskingAnew => AskingAnew'
    BY <1>1, <1>2, <2>2, AskedAfterSending
  <2>4. SafeStart(channelSerial)'
    BY <1>2, <2>2 DEF StartsAreSafe, SafeStart, Covered, UpTo
  <2>5. StartsAreSafe' /\ NeverTwice'
    BY <1>2, <2>2, <2>3, <2>4, StartsStaySafe DEF NeverTwice
  <2>6. Refusal(h)
    BY <1>5 DEF Refusal
  <2> QED
    BY <1>1, <2>2, <2>3, <2>5, <2>6, TakenKeepsDelivering
<1>6. CASE h.action = "MESSAGE"
  <2>1. h.first \in Messages /\ h.last \in Messages /\ h.last \in Int /\ h.first <= h.last
        /\ h.first - 1 \in Int /\ UpTo(h.first - 1)
    <3>1. h.first \in Messages /\ h.last \in Messages
      BY <1>1, <1>6 DEF Replies
    <3>2. h.first <= h.last /\ UpTo(h.first - 1)
      BY <1>1, <1>6, Taken DEF Delivering, NothingSentAgain
    <3> QED
      BY <3>1, <3>2 DEF Messages
  <2> PICK f : f = h.first
    OBVIOUS
  <2> PICK l : l = h.last
    OBVIOUS
  <2>2. Messages \subseteq Int
    BY DEF Messages
  <2>a. /\ f \in Int /\ l \in Int /\ f <= l
        /\ \A m \in Messages : got[m] = "yes" => m <= f - 1
    <3>1. UpTo(f - 1)
      BY <2>1
    <3> QED
      BY <2>1, <2>2, <3>1 DEF UpTo
  <2>b. ASSUME NEW m \in Messages PROVE m \in Int /\ (m \in f..l \/ m <= f - 1 \/ m > l)
    BY <2>2, <2>a
  <2>3. EndsAt(h, l)
    BY <1>6 DEF EndsAt
  <2>4. ~Reattaching => Covered(f - 1)
    BY <1>1, <1>6, NothingBefore
  <2>5. CASE OnUndecodable
    <3>1. got' = got /\ channelSerial' = channelSerial
      BY <2>5 DEF OnUndecodable, data, channel
    <3>2. \/ recovering /\ tasks' = tasks
          \/ tasks' = Sending("attaching", connection, tasks)
      BY <2>5 DEF OnUndecodable, channel
    <3>3. /\ \A r \in Asked' : r \in Asked \/ SafeStart(r.serial)
          /\ AskingAnew => AskingAnew'
          /\ tasks' = Sending("attaching", connection, tasks) => AskingAnew'
      BY <1>1, <1>2, <3>2, AskedAfterSending
    <3>4. AskingAnew' \/ (recovering /\ Foreseen)
      BY <1>1, <3>2, <3>3 DEF Delivering, RecoveryAsks
    <3>5. SafeStart(channelSerial)'
      BY <1>2, <3>1 DEF StartsAreSafe, SafeStart, Covered, UpTo
    <3>6. StartsAreSafe' /\ NeverTwice'
      BY <1>2, <3>1, <3>3, <3>5, StartsStaySafe DEF NeverTwice
    <3> QED
      BY <1>1, <1>6, <3>1, <3>3, <3>4, <3>6, TakenKeepsDelivering
  <2>6. CASE OnUnreadable(h)
    <3>1. /\ got' = [m \in Messages |->
                       IF m \in h.first..h.last /\ got[m] = "no" THEN "excused" ELSE got[m]]
          /\ UNCHANGED <<channelSerial, recovering, tasks>>
      BY <2>6 DEF OnUnreadable, channel
    <3>2. /\ \A m \in Messages : got[m] # "no" => got'[m] = got[m]
          /\ \A m \in Messages : got'[m] \in {got[m], "excused"}
          /\ \A m \in Messages : m \in f..l => got'[m] # "no"
      BY <3>1
    <3>3. Covered(f - 1) => Covered(l)'
      <4> SUFFICES ASSUME Covered(f - 1), NEW m \in Messages, m <= l PROVE got'[m] # "no"
        BY DEF Covered
      <4>1. CASE m \in f..l
        BY <3>2, <4>1
      <4>2. CASE m <= f - 1
        BY <3>2, <4>2 DEF Covered
      <4> QED
        BY <2>a, <2>b, <4>1, <4>2
    <3>4. Covered(f - 1) \/ Foreseen
      <4>1. toClient[1] = h
        BY <1>1, Taken
      <4> QED
        BY <1>1, <4>1 DEF Delivering, NothingMissed
    <3>5. Asked' = Asked /\ (AskingAnew => AskingAnew')
      BY <1>1, <3>1 DEF Asked, AskingAnew
    <3>6. SafeStart(channelSerial)'
      BY <1>2, <3>1, <3>2 DEF StartsAreSafe, SafeStart, Covered, UpTo
    <3>7. StartsAreSafe'
      BY <1>2, <3>2, <3>5, <3>6, StartsStaySafe
    <3>8. NeverTwice'
      BY <1>2, <3>2 DEF NeverTwice
    <3>9. \/ \E n \in Int : EndsAt(h, n) /\ Covered(n)'
          \/ h.action = "MESSAGE" /\ Foreseen
      BY <1>6, <2>1, <2>3, <3>3, <3>4
    <3> QED
      BY <1>1, <1>6, <3>1, <3>2, <3>5, <3>7, <3>8, <3>9, TakenKeepsDelivering
  <2>7. CASE OnDecoded(h)
    <3>1. /\ got' = [m \in Messages |-> IF m \in h.first..h.last THEN Delivered(got[m])
                                        ELSE Excused(Reattaching, h.last)[m]]
          /\ channelSerial' = h.last /\ UNCHANGED <<recovering, tasks>>
      BY <2>7 DEF OnDecoded
    <3>2. Reattaching \in BOOLEAN
      BY DEF Reattaching
    <3>3. \A m \in Messages : m \in f..l => got[m] # "yes"
      BY <2>2, <2>a
    <3>4. \A m \in Messages : m \in f..l => got'[m] = IF Reattaching THEN "early" ELSE "yes"
      BY <3>1, <3>3 DEF Delivered
    <3>5. \A m \in Messages : m \notin f..l => got'[m] = Excused(Reattaching, l)[m]
      BY <3>1
    <3>6. \A m \in Messages : m \notin f..l =>
            /\ got[m] # "no" => got'[m] = got[m]
            /\ got'[m] \in {got[m], "excused"}
            /\ Reattaching /\ m <= l => got'[m] # "no"
      BY <3>2, <3>5, ExcusedFates
    <3>7. \A m \in Messages : got[m] # "no" => got'[m] # "no"
      BY <3>4, <3>6
    <3>8. Covered(l)'
      <4>1. CASE Reattaching
        BY <3>4, <3>6, <4>1 DEF Covered
      <4>2. CASE ~Reattaching
        <5> SUFFICES ASSUME NEW m \in Messages, m <= l PROVE got'[m] # "no"
          BY DEF Covered
        <5>1. CASE m \in f..l
          BY <3>4, <5>1
        <5>2. CASE m <= f - 1
          BY <2>4, <3>7, <4>2, <5>2 DEF Covered
        <5> QED
          BY <2>a, <2>b, <5>1, <5>2
      <4> QED
        BY <4>1, <4>2
    <3>9. \A m \in Messages : got'[m] = "yes" => m <= l
      <4> SUFFICES ASSUME NEW m \in Messages, got'[m] = "yes" PROVE m <= l
        OBVIOUS
      <4>1. CASE m \in f..l
        BY <4>1
      <4>2. CASE m \notin f..l
        <5>1. got[m] = "yes"
          BY <3>6, <4>2
        <5> QED
          BY <2>2, <2>a, <5>1
      <4> QED
        BY <4>1, <4>2
    <3>10. NeverTwice'
      BY <1>2, <3>4, <3>6 DEF NeverTwice
    <3>11. SafeStart(channelSerial)'
      BY <3>1, <3>8, <3>9 DEF SafeStart, Covered, UpTo
    <3>12. Asked' = Asked /\ (AskingAnew => AskingAnew')
      BY <1>1, <3>1 DEF Asked, AskingAnew
    <3>13. \E n \in Int : EndsAt(h, n) /\ Covered(n)'
      BY <2>1, <2>3, <3>8
    <3>14. CASE Reattaching
      <4>1. \A m \in Messages : got'[m] = "yes" => got[m] = "yes"
        BY <3>4, <3>6, <3>14
      <4>2. StartsAreSafe'
        BY <1>2, <3>7, <3>11, <3>12, <4>1, StartsStaySafe
      <4> QED
        BY <1>1, <1>6, <3>1, <3>7, <3>10, <3>12, <3>13, <4>1, <4>2, TakenKeepsDelivering
    <3>15. CASE ~Reattaching
      <4>1. ~AskingAnew
        BY <1>1, <3>15, ReattachingMeans
      <4>2. StartsAreSafe'
        BY <3>11, <3>12, <4>1 DEF StartsAreSafe, AskingAnew
      <4>3. \A m \in Messages : got'[m] = "yes" => got[m] = "yes" \/ m <= h.last
        BY <3>9
      <4> QED
        BY <1>1, <1>6, <3>1, <3>7, <3>10, <3>12, <3>13, <3>15, <4>2, <4>3, TakenKeepsDelivering
    <3> QED
      BY <3>14, <3>15
  <2>8. OnBatch(h)
    BY <1>6 DEF OnMessage
  <2> QED
    BY <2>5, <2>6, <2>7, <2>8 DEF OnBatch
<1>7. h.action \in {"ATTACHED", "DETACHED", "ERROR", "MESSAGE"}
  BY <1>1 DEF Replies
<1> QED
  BY <1>4, <1>5, <1>6, <1>7

\* Every step keeps that invariant.
LEMMA NextKeepsDelivering ==
  ASSUME ChannelType, MessageType, DataType, RecoveryEnds, Delivering, Next
  PROVE  Delivering'
<1>0. StartsAreSafe /\ CutOff
  BY DEF Delivering
<1>1. CASE ApplicationStep \/ StateTimerExpires \/ RetryTimerExpires \/ AttachImplicitly
  <2>1. UNCHANGED <<connection, queued, got, toServer, toClient, stream, position, newest>>
    BY <1>1 DEF ApplicationStep, Attach, Detach, SetOptions, StateTimerExpires, RetryTimerExpires,
                AttachImplicitly, wire, server, data
  <2>2. \E new \in ChannelStates :
          /\ tasks' = tasks \/ tasks' = Sending(new, connection, tasks)
          /\ channelSerial' \in {channelSerial, NoSerial}
          /\ recovering' => recovering
    BY <1>1 DEF ApplicationStep, Attach, AttachCall, Detach, SetOptions, StateTimerExpires,
                RetryTimerExpires, AttachImplicitly, RequestAndWait, RequestState, NotifyState,
                ChangeState, EnterState, channel, ChannelType, ChannelStates
  <2>3. (\A r \in Asked' : r \in Asked \/ SafeStart(r.serial)) /\ (AskingAnew => AskingAnew')
    BY <1>0, <2>1, <2>2, AskedAfterSending
  <2> QED
    BY <2>1, <2>2, <2>3, QuietKeepsDelivering
<1>2. CASE ConnectedAgain
  <2>1. UNCHANGED <<connection, queued, got, toServer, toClient, stream, position, newest>>
        /\ connection = "connected"
    BY <1>2 DEF ConnectedAgain, wire, server, data
  <2>2. \E new \in ChannelStates :
          /\ tasks' = tasks \/ tasks' = Sending(new, "connected", tasks)
          /\ channelSerial' \in {channelSerial, NoSerial}
          /\ recovering' => recovering
    BY <1>2 DEF ConnectedAgain, ResumeChannel, ChangeState, EnterState, channel, ChannelType,
                ChannelStates
  <2>3. (\A r \in Asked' : r \in Asked \/ SafeStart(r.serial)) /\ (AskingAnew => AskingAnew')
    BY <1>0, <2>1, <2>2, AskedAfterSending
  <2> QED
    BY <2>1, <2>2, <2>3, QuietKeepsDelivering
<1>3. CASE Connect
  <2>1. UNCHANGED <<queued, tasks, got, toServer, toClient, stream, position, newest>>
        /\ connection # "connected" /\ connection' # "connected"
    BY <1>3 DEF Connect, wire, server, data
  <2>2. channelSerial' \in {channelSerial, NoSerial}
    BY <1>3 DEF Connect, NotifyState, ChangeState, EnterState, channel
  <2>3. Asked' = Asked /\ (AskingAnew => AskingAnew')
    BY <2>1 DEF Asked, AskingAnew
  <2> QED
    BY <2>1, <2>2, <2>3, QuietKeepsDelivering
<1>4. CASE \/ ConnectionLost \/ CloseConnection \/ ConnectionErrors
           \/ ConnectionSuspends \/ ConnectionFails \/ ConnectionCloses
  <2>1. /\ toServer' = <<>> /\ toClient' = <<>> /\ stream' = "off"
        /\ UNCHANGED <<got, newest, tasks>> /\ (queued' = queued \/ queued' = <<>>)
        /\ connection' # "connected"
    BY <1>4 DEF ConnectionLost, CloseConnection, ConnectionErrors, ConnectionSuspends,
                ConnectionFails, ConnectionCloses, ConnectionEnds, ConnectionEnacts, WireIsCut, data
  <2>2. channelSerial' \in {channelSerial, NoSerial}
    BY <1>4 DEF ConnectionLost, CloseConnection, ConnectionErrors, ConnectionSuspends,
                ConnectionFails, ConnectionCloses, ConnectionEnds, ConnectionEnacts, Propagate,
                NotifyState, ChangeState, EnterState, channel
  <2>3. Asked' = ToSet(tasks) \union ToSet(queued') \union ToSet(toServer')
    BY <2>1 DEF Asked
  <2>4. ToSet(toServer') = {} /\ (ToSet(queued') = ToSet(queued) \/ ToSet(queued') = {})
    BY <2>1, ActionsOfNone
  <2>5. \A r \in Asked' : r \in Asked
    BY <2>3, <2>4 DEF Asked
  <2> QED
    BY <2>1, <2>2, <2>5, CutKeepsDelivering
<1>5. CASE Connected
  <2> DEFINE ts == [i \in 1..Len(queued) |->
                [action |-> queued[i].action, serial |-> queued[i].serial, fresh |-> FALSE]]
  <2>1. /\ ts \in Seq(SendTasks)
        /\ \A r \in ToSet(ts) :
             \E q \in ToSet(queued) : r.action = q.action /\ r.serial = q.serial
    <3>1. \A i \in 1..Len(queued) : queued[i] \in Requests
      BY ElementOfSeq DEF MessageType
    <3>2. Len(queued) \in Nat /\ DOMAIN queued = 1..Len(queued)
      BY LenProperties DEF MessageType
    <3>3. \A i \in 1..Len(queued) : ts[i] \in SendTasks
      BY <3>1 DEF Requests, SendTasks
    <3>4. ts \in Seq(SendTasks)
      BY <3>2, <3>3, IsASeq
    <3>5. \A i \in 1..Len(queued) : queued[i] \in ToSet(queued)
      BY <3>2 DEF ToSet
    <3>6. ASSUME NEW r \in ToSet(ts)
          PROVE  \E q \in ToSet(queued) : r.action = q.action /\ r.serial = q.serial
      <4>1. PICK i \in 1..Len(queued) : r = ts[i]
        BY DEF ToSet
      <4> QED
        BY <3>5, <4>1
    <3> QED
      BY <3>4, <3>6
  <2>2. ResumeChannel(ts)
    BY <1>5 DEF Connected
  <2>a. /\ toServer' = <<>> /\ toClient' = <<>> /\ stream' = "off" /\ queued' = <<>>
        /\ UNCHANGED <<got, newest>>
    BY <1>5 DEF Connected, WireIsCut, data
  <2> HIDE DEF ts
  <2>3. /\ channelSerial' \in {channelSerial, NoSerial}
        /\ \E new \in ChannelStates :
             /\ tasks' = ts \/ tasks' = Sending(new, "connected", ts)
             /\ recovering' => tasks' = Sending("attaching", "connected", ts)
    BY <2>2 DEF ResumeChannel, ChangeState, EnterState, channel, ChannelType, ChannelStates,
                RecoveryEnds, Pending
  <2>4. \A r \in ToSet(ts) : r.action = "ATTACH" => SafeStart(r.serial)
    BY <1>0, <2>1 DEF StartsAreSafe, Asked
  <2>5. /\ \A new : \A r \in ToSet(Sending(new, "connected", ts)) :
              r \in ToSet(ts) \/ SafeStart(r.serial)
        /\ \E r \in ToSet(Sending("attaching", "connected", ts)) : r.action = "ATTACH"
    BY <1>0, <2>1, SendingIsSafe
  <2>6. Asked' = ToSet(tasks')
    <3>1. Asked' = ToSet(tasks') \union ToSet(queued') \union ToSet(toServer')
      BY DEF Asked
    <3> QED
      BY <2>a, <3>1, ActionsOfNone
  <2>7. \A r \in Asked' : r.action = "ATTACH" => SafeStart(r.serial)
    BY <2>3, <2>4, <2>5, <2>6
  <2>8. recovering' => AskingAnew'
    <3> SUFFICES ASSUME recovering' PROVE \E r \in Asked' : r.action = "ATTACH"
      BY DEF AskingAnew
    <3> QED
      BY <2>3, <2>5, <2>6
  <2> QED
    BY <2>3, <2>7, <2>8, <2>a, CutKeepsDelivering
<1>6. CASE SendTaskRuns
  <2> DEFINE h == Head(tasks)
             message == [action |-> h.action, serial |-> h.serial]
  <2>1. /\ UNCHANGED <<connection, got, toClient, stream, position, newest, channelSerial,
                        recovering>>
        /\ ToSet(tasks) = {h} \union ToSet(tasks') /\ h \in SendTasks
    BY <1>6, ActionsOfTail, TailRange DEF SendTaskRuns, MessageType, channel, server, data
  <2>2. message \in Requests
    BY <2>1 DEF SendTasks, Requests
  <2>3. /\ ToSet(Append(toServer, message)) = ToSet(toServer) \union {message}
        /\ ToSet(Append(queued, message)) = ToSet(queued) \union {message}
    BY <2>2, ActionsOfAppend DEF MessageType
  <2>4. message.action = h.action /\ message.serial = h.serial /\ h \in Asked
    BY <2>1 DEF Asked
  <2>a. /\ toServer' = (IF connection = "connected" THEN Append(toServer, message) ELSE toServer)
        /\ queued' = (IF connection = "disconnected" /\ h.fresh
                      THEN Append(queued, message) ELSE queued)
    BY <1>6 DEF SendTaskRuns
  <2> HIDE DEF message
  <2> HIDE DEF h
  <2>5. Asked' = ToSet(tasks') \union ToSet(queued') \union ToSet(toServer')
    BY DEF Asked
  <2>6. \A r \in Asked' : r \in Asked \/ r = message
    BY <2>1, <2>3, <2>5, <2>a DEF Asked
  <2>7. \A r \in Asked' : r.action = "ATTACH" => SafeStart(r.serial)
    BY <1>0, <2>4, <2>6 DEF StartsAreSafe
  <2>8. CASE connection = "connected"
    <3>1. message \in Asked' /\ \A r \in Asked : r \in Asked' \/ r = h
      BY <2>1, <2>3, <2>5, <2>8, <2>a DEF Asked
    <3>2. AskingAnew => AskingAnew'
      <4> SUFFICES ASSUME AskingAnew PROVE \E r \in Asked' : r.action = "ATTACH"
        BY DEF AskingAnew
      <4> QED
        BY <2>4, <3>1 DEF AskingAnew
    <3> QED
      BY <2>1, <2>7, <2>8, <3>2, QuietKeepsDelivering
  <2>9. CASE connection # "connected"
    <3>1. toClient' = <<>> /\ toServer' = <<>> /\ stream' = "off" /\ connection' # "connected"
      BY <1>0, <2>1, <2>9, <2>a DEF CutOff
    <3> QED
      BY <2>1, <2>7, <3>1, CutKeepsDelivering
  <2> QED
    BY <2>8, <2>9
<1>7. CASE ServerAnswers
  <2>1. /\ UNCHANGED <<got, channelSerial, recovering, connection, tasks, queued, newest>>
        /\ connection = "connected"
    BY <1>7 DEF ServerAnswers, channel, data
  <2>2. toServer # <<>> /\ toServer' = Tail(toServer)
    BY <1>7, ServerAnswersWith
  <2>3. ToSet(toServer) = {Head(toServer)} \union ToSet(toServer')
    BY <2>2, ActionsOfTail DEF MessageType
  <2>4. Asked' = ToSet(tasks) \union ToSet(queued) \union ToSet(toServer')
    BY <2>1 DEF Asked
  <2>5. (\A r \in Asked' : r \in Asked) /\ Head(toServer) \in Asked
    BY <2>3, <2>4 DEF Asked
  <2>6. UpTo(newest) /\ newest \in Int
    BY DEF Delivering, NothingSentAgain, MessageType
  <2>7. PICK x \in Replies :
              /\ toClient' = Append(toClient, x)
              /\ \/ Refusal(x) /\ ~serverAttached' /\ stream' = "off" /\ UNCHANGED position
                 \/ /\ x.action = "ATTACHED" /\ serverAttached' /\ stream' = "start"
                    /\ Head(toServer).action = "ATTACH"
                    /\ position' = x.serial
                    /\ \/ /\ x.continues /\ x.serial = Head(toServer).serial
                          /\ Head(toServer).serial # NoSerial
                       \/ ~x.continues /\ x.serial = newest
    BY <1>7, ServerAnswersWith
  <2>8. newest' \in Int /\ newest <= newest' /\ UpTo(newest')
    BY <2>1, <2>6
  <2>9. CASE Refusal(x) /\ stream' = "off"
    BY <2>1, <2>5, <2>7, <2>8, <2>9, AddedKeepsDelivering
  <2>10. CASE /\ x.action = "ATTACHED" /\ stream' = "start" /\ position' = x.serial
              /\ x.continues /\ x.serial = Head(toServer).serial
              /\ Head(toServer).serial # NoSerial /\ Head(toServer).action = "ATTACH"
    <3>1. SafeStart(x.serial) /\ x.serial # NoSerial
      BY <1>0, <2>5, <2>10 DEF StartsAreSafe
    <3>2. UpTo(position') /\ Covered(x.serial) /\ EndsAt(x, position') /\ stream' # "off"
      BY <2>10, <3>1 DEF SafeStart, EndsAt
    <3> QED
      BY <2>1, <2>5, <2>7, <2>8, <2>10, <3>2, AddedKeepsDelivering
  <2>11. CASE /\ x.action = "ATTACHED" /\ stream' = "start" /\ position' = x.serial
              /\ ~x.continues /\ x.serial = newest
    <3>1. UpTo(position') /\ EndsAt(x, position') /\ stream' # "off"
      BY <2>6, <2>11 DEF EndsAt
    <3> QED
      BY <2>1, <2>5, <2>7, <2>8, <2>11, <3>1, AddedKeepsDelivering
  <2> QED
    BY <2>7, <2>9, <2>10, <2>11
<1>8. CASE ServerSends
  <2>1. /\ UNCHANGED <<got, channelSerial, recovering, connection, tasks, queued, toServer>>
        /\ connection = "connected"
    BY <1>8 DEF ServerSends, channel, data
  <2>2. Asked' = Asked /\ (AskingAnew => AskingAnew')
    BY <2>1 DEF Asked, AskingAnew
  <2>3. UpTo(newest) /\ (stream # "off" => UpTo(position)) /\ newest \in Int /\ position \in Int
    BY DEF Delivering, NothingSentAgain, MessageType
  <2>4. PICK x \in Replies :
           /\ toClient' = Append(toClient, x)
           /\ \/ /\ Refusal(x) /\ stream' = "off" /\ UNCHANGED <<position, newest>>
              \/ /\ x.action = "ATTACHED" /\ x.serial = position /\ stream # "off"
                 /\ UNCHANGED <<stream, position, newest>>
              \/ /\ x.action = "MESSAGE" /\ x.first = position + 1 /\ x.first <= x.last
                 /\ stream # "off" /\ position' = x.last
                 /\ newest' = (IF x.last > newest THEN x.last ELSE newest)
    BY <1>8, ServerSendsWhat
  <2>5. CASE Refusal(x) /\ stream' = "off" /\ UNCHANGED <<position, newest>>
    BY <2>1, <2>2, <2>3, <2>4, <2>5, AddedKeepsDelivering
  <2>6. CASE /\ x.action = "ATTACHED" /\ x.serial = position /\ stream # "off"
             /\ UNCHANGED <<stream, position, newest>>
    <3>1. /\ UpTo(newest') /\ UpTo(position') /\ EndsAt(x, position')
          /\ newest' \in Int /\ newest <= newest'
      BY <2>3, <2>6 DEF EndsAt
    <3> QED
      BY <2>1, <2>2, <2>4, <2>6, <3>1, AddedKeepsDelivering
  <2>7. CASE /\ x.action = "MESSAGE" /\ x.first = position + 1 /\ x.first <= x.last
             /\ stream # "off" /\ position' = x.last
             /\ newest' = (IF x.last > newest THEN x.last ELSE newest)
    <3>1. x.last \in Int /\ x.first \in Int
      BY <2>7 DEF Replies, Messages
    <3>2. position <= position' /\ newest <= newest' /\ newest' \in Int /\ position' \in Int
          /\ x.last <= newest'
      BY <2>3, <2>7, <3>1
    <3>3. ASSUME NEW a \in Int, NEW b \in Int, a <= b, UpTo(a) PROVE UpTo(b)
      BY <3>3 DEF UpTo, Messages
    <3>4. UpTo(newest') /\ UpTo(position') /\ EndsAt(x, position')
      BY <2>3, <2>7, <3>2, <3>3 DEF EndsAt
    <3> QED
      BY <2>1, <2>2, <2>4, <2>7, <3>2, <3>4, AddedKeepsDelivering
  <2> QED
    BY <2>4, <2>5, <2>6, <2>7
<1>9. CASE OnMessage
  BY <1>9, OnMessageKeepsDelivering
<1> QED
  BY <1>1, <1>2, <1>3, <1>4, <1>5, <1>6, <1>7, <1>8, <1>9 DEF Next, ConnectionStep

\* At the start nothing is attached, asked for or delivered.
LEMMA InitServesAndDelivers == Init => ServedUntilLeft /\ ConfirmedIsHeld /\ Delivering
<1> SUFFICES ASSUME Init PROVE ServedUntilLeft /\ ConfirmedIsHeld /\ Delivering
  OBVIOUS
<1>1. DOMAIN toClient = {} /\ toClient = <<>>
  BY DEF Init
<1>2. Asked = {}
  BY ActionsOfNone DEF Init, Asked
<1>3. ServedUntilLeft /\ ConfirmedIsHeld
  BY <1>1 DEF Init, ServedUntilLeft, ConfirmedIsHeld
<1>4. NeverTwice /\ StartsAreSafe /\ NothingSentAgain
  BY <1>1, <1>2 DEF Init, NeverTwice, StartsAreSafe, SafeStart, NothingSentAgain, UpTo
<1>5. InOrder /\ Seamless /\ NothingMissed /\ RecoveryAsks /\ CutOff
  BY <1>1, <1>2 DEF Init, InOrder, Seamless, NothingMissed, RecoveryAsks, CutOff
<1> QED
  BY <1>3, <1>4, <1>5 DEF Delivering

\* Both invariants hold, whatever happens.
LEMMA ServesAndDelivers == Spec => [](IInv /\ ServedUntilLeft /\ ConfirmedIsHeld /\ Delivering)
<1> DEFINE Inv == IInv /\ ServedUntilLeft /\ ConfirmedIsHeld /\ Delivering
<1>1. Init => Inv
  BY InitEstablishes, InitServesAndDelivers
<1>2. Inv /\ [Next]_vars => Inv'
  <2> SUFFICES ASSUME Inv, [Next]_vars PROVE Inv'
    OBVIOUS
  <2>1. IInv'
    BY NextKeeps
  <2>2. CASE Next
    <3>1. ChannelType /\ MessageType /\ DataType /\ RecoveryEnds
      BY TypeInParts DEF IInv, Tied
    <3> QED
      BY <2>1, <2>2, <3>1, NextKeepsServed, NextKeepsDelivering
  <2>3. CASE UNCHANGED vars
    <3>1. ServedUntilLeft' /\ ConfirmedIsHeld'
      BY <2>3 DEF vars, ServedUntilLeft, ConfirmedIsHeld, Served, Actions, Refusal
    <3>2. Delivering'
      <4>1. /\ UNCHANGED <<got, toClient, stream, position, newest, channelSerial, recovering,
                           connection, toServer>>
            /\ Asked' = Asked /\ (AskingAnew => AskingAnew')
        BY <2>3 DEF vars, Asked, AskingAnew
      <4> QED
        BY <4>1, QuietKeepsDelivering
    <3> QED
      BY <2>1, <3>1, <3>2
  <2> QED
    BY <2>2, <2>3
<1> HIDE DEF Inv
<1>3. Spec => []Inv
  BY <1>1, <1>2, PTL DEF Spec
<1> QED
  BY <1>3, Zenon DEF Inv

-----------------------------------------------------------------------------
(* The theorems.                                                           *)

\* The inductive invariant holds, for any disturbances and any number of messages.
THEOREM IInvAlways == Spec => []IInv
BY InitEstablishes, NextKeeps, PTL DEF Spec

\* Type correctness, for any disturbances and any number of messages.
THEOREM ChannelTypeCorrect == Spec => []TypeOK
<1>1. IInv => TypeOK
  BY DEF IInv
<1> QED
  BY <1>1, IInvAlways, PTL

\* _check_pending_state restarts the timer wherever _notify_state has stopped it and the
\* server is still to answer.
THEOREM NoUntimedRequest == Spec => []PendingIsTimed
<1>1. IInv => PendingIsTimed
  BY DEF IInv, Tied
<1> QED
  BY <1>1, IInvAlways, PTL

\* A SUSPENDED channel has a retry before it as long as the connection is CONNECTED.
THEOREM NoSuspendedForGood == Spec => []SuspendedRetries
<1>1. IInv => SuspendedRetries
  BY DEF IInv, Tied
<1> QED
  BY <1>1, IInvAlways, PTL

\* No call waits on a channel at rest.
THEOREM NoCallAtRest == Spec => []WaitersPending
<1>1. IInv => WaitersPending
  BY DEF IInv, Tied
<1> QED
  BY <1>1, IInvAlways, PTL

\* The recovery from an undecodable delta ends with the attach that it made.
THEOREM RecoveryIsAttaching == Spec => []RecoveryEnds
<1>1. IInv => RecoveryEnds
  BY DEF IInv, Tied
<1> QED
  BY <1>1, IInvAlways, PTL

\* Whatever the batches, and whichever of them fail, a delta is applied to the very
\* payload it was made from: the context advances as one and only with what was decoded.
THEOREM DeltasApplyToTheirBase == Spec => []NothingGarbled
<1>1. Init => NothingGarbled
  BY DEF Init, NothingGarbled
<1>2. ASSUME NEW c, c.base = c.last, NEW m, NEW whole, DecodeMessage(c, m, whole) # Undecoded
      PROVE  DecodeMessage(c, m, whole).base = DecodeMessage(c, m, whole).last
  BY <1>2 DEF DecodeMessage, Applied
<1>3. ASSUME NothingGarbled, NEW b, DecodeBatch(b) # Undecoded
      PROVE  DecodeBatch(b).base = DecodeBatch(b).last
  BY <1>2, <1>3, ZenonT(60) DEF DecodeBatch, NothingGarbled
<1>4. NothingGarbled /\ IInv /\ [Next]_vars => NothingGarbled'
  <2> SUFFICES ASSUME NothingGarbled, IInv, [Next]_vars PROVE NothingGarbled'
    OBVIOUS
  <2>1. UNCHANGED context \/ OnMessage
    BY DEF Next, ApplicationStep, ConnectionStep, Attach, Detach, SetOptions, StateTimerExpires,
           RetryTimerExpires, AttachImplicitly, SendTaskRuns, ConnectionLost, ConnectionSuspends,
           ConnectionFails, CloseConnection, ConnectionCloses, ConnectionErrors, Connect, Connected,
           ConnectedAgain, ConnectionEnds, ConnectionEnacts, ServerAnswers, ServerSends, data, vars
  <2>2. CASE OnMessage
    <3>1. \/ UNCHANGED context
          \/ \E b \in Replies : DecodeBatch(b) # Undecoded /\ context' = DecodeBatch(b)
      <4>1. Head(toClient) \in Replies
        BY <2>2 DEF OnMessage, IInv, TypeOK
      <4>2. Head(toClient).action \in {"ATTACHED", "DETACHED", "ERROR", "MESSAGE"}
        BY <4>1 DEF Replies
      <4> QED
        BY <2>2, <4>1, <4>2 DEF OnMessage, OnAttached, OnDetached, OnError, OnBatch, OnUndecodable,
                                OnUnreadable, OnDecoded, data
    <3> QED
      BY <1>3, <3>1 DEF NothingGarbled
  <2> QED
    BY <2>1, <2>2 DEF NothingGarbled
<1> QED
  BY <1>1, <1>4, IInvAlways, PTL DEF Spec

\* An ATTACHED channel (realtime/channel.py) is attached at the server, or a refusal or a DETACH
\* is on its way, whatever the order of timers, answers and lost connections.
THEOREM AttachedIsAttachedAtServer == Spec => []AttachedIsServed
<1>1. ServedUntilLeft => AttachedIsServed
  BY DEF ServedUntilLeft, Served, AttachedIsServed
<1> QED
  BY <1>1, ServesAndDelivers, PTL

\* Every message is delivered once (_on_message): the serial never passes a message that was not
\* delivered and will not be asked for, and the server is never asked for one that was.
THEOREM MessagesArriveOnce == Spec => []DeliveredOnce
<1>1. Delivering => DeliveredOnce
  BY DEF Delivering, NeverTwice, StartsAreSafe, SafeStart, Covered, DeliveredOnce, NoSerial,
         Messages
<1> QED
  BY <1>1, ServesAndDelivers, PTL
=============================================================================
