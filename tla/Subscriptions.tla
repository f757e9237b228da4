---------------------------- MODULE Subscriptions ----------------------------
(***************************************************************************)
(* Who hears what: the EventEmitter under the messages, the annotations    *)
(* and the presence of a channel, and the subscribe() and unsubscribe() of *)
(* each (util/eventemitter.py, realtime/channel.py, annotations.py and     *)
(* presence.py).                                                           *)
(*                                                                         *)
(* An emission calls the listeners one after the other within one turn of  *)
(* the event loop, and a listener may subscribe and unsubscribe while it   *)
(* is being called.  A coroutine listener runs in a task of its own.  The  *)
(* channel is reduced to what subscribe() asks of it; Channel has it whole.*)
(* The three emitters share only the channel: a behaviour is about one.    *)
(***************************************************************************)
EXTENDS Integers, Sequences, FiniteSets, SequencesExt

CONSTANTS
  Kinds,             \* what there are emitters for
  Listeners,
  Coroutines,        \* those that are coroutine functions
  Names,             \* what a message, an action or an annotation can be called
  Subscribable,      \* the names that the application subscribes to
  All,               \* no name: the second emitter of an EventEmitter
  Habits,            \* what this application does
  MaxRegistrations,  \* bound: listeners registered, or to be registered, in all
  MaxEmitted         \* bound: messages emitted in all

ASSUME ConstantsAssumption ==
  /\ Kinds \subseteq {"messages", "annotations", "presence"}
  /\ Coroutines \subseteq Listeners
  /\ Subscribable \subseteq Names /\ All \notin Names
  /\ Habits \subseteq {"twice",   \* registers a listener that is registered already
                       "within"}  \* subscribes and unsubscribes within a callback
  /\ MaxRegistrations \in Nat /\ MaxEmitted \in Nat

Events == Names \union {All}
Ids == 1..MaxRegistrations

VARIABLES
  kind,       \* which of the emitters this is, a constant of the behaviour
  channel,    \* the state of the channel, as far as subscribe() looks at it
  awaiting,   \* <<listener, event>>: annotations.subscribe() awaits attach()
  woken,      \* those whose attach() has succeeded, and that have not resumed
  made,       \* registrations made
  regs,       \* the listeners of both its emitters, per event in the order of registration
  wrapped,    \* EventEmitter.__wrapped_listeners, 0 for None
  batch,      \* names of the message that is emitted and of those after it
  phase,      \* which of its two emitters calls its listeners
  handlers,   \* the listeners that it has yet to call
  calling,    \* a listener that is not a coroutine has been called
  tasks,      \* <<id, number>>: calls of coroutine listeners that have not begun
  subscribed, \* history: the registrations there should be, as off() describes it
  number,     \* number of the message that is emitted, or was last
  present,    \* history: those for it when its emission began
  gone,       \* history: those removed before
  called,     \* history: called, or given a task, for it
  heard       \* history: number of the last message each registration has begun on

registry == <<made, regs, wrapped, subscribed>>
emission == <<batch, phase, handlers, calling, number, present, gone, called>>
vars == <<kind, channel, awaiting, woken, registry, emission, tasks, heard>>

Registration == [id : Ids, listener : Listeners, event : Events]

TypeOK ==
  /\ kind \in Kinds
  /\ channel \in {"detached", "attaching", "attached", "suspended"}
  /\ awaiting \subseteq Listeners \X Events
  /\ woken \subseteq Listeners \X Events
  /\ made \in 0..MaxRegistrations
  /\ regs \in [Events -> Seq(Registration)]
  /\ wrapped \in [Listeners -> 0..made]
  /\ batch \in Seq(Names)
  /\ phase \in {"named", "all", "over"}
  /\ handlers \in Seq(Registration)
  /\ calling \in BOOLEAN
  /\ tasks \in Seq(Ids \X (1..MaxEmitted))
  /\ number \in 0..MaxEmitted
  /\ subscribed \subseteq Registration
  /\ present \subseteq Ids /\ gone \subseteq Ids /\ called \subseteq Ids
  /\ heard \in [Ids -> 0..MaxEmitted]

Init ==
  /\ kind \in Kinds
  /\ channel = "detached"
  /\ awaiting = {} /\ woken = {}
  /\ made = 0
  /\ regs = [e \in Events |-> <<>>]
  /\ wrapped = [l \in Listeners |-> 0]
  /\ batch = <<>> /\ phase = "over" /\ handlers = <<>>
  /\ calling = FALSE
  /\ tasks = <<>>
  /\ number = 0
  /\ subscribed = {} /\ present = {} /\ gone = {} /\ called = {}
  /\ heard = [id \in Ids |-> 0]

IdsOf(rs) == {r.id : r \in rs}
Registered == UNION {ToSet(regs[e]) : e \in Events}
Idle == batch = <<>>

\* The application acts in a turn of its own, or within a callback.
Turn == Idle \/ (calling /\ "within" \in Habits)

-----------------------------------------------------------------------------
(* The emitter.                                                            *)

OnKeepingWrapper(l, e) ==  \* mutant: only the first wrapper of a listener is kept
  /\ made < MaxRegistrations
  /\ made' = made + 1
  /\ LET r == [id |-> made', listener |-> l, event |-> e]
     IN  /\ regs' = [regs EXCEPT ![e] = Append(@, r)]
         /\ subscribed' = subscribed \union {r}
  /\ wrapped' = [wrapped EXCEPT ![l] = IF @ = 0 THEN made' ELSE @]

\* on(): each call makes a wrapper, and the listener's entry names the last one.
On(l, e) ==
  /\ made < MaxRegistrations
  /\ \A r \in Registered : r.listener = l => "twice" \in Habits
  /\ made' = made + 1
  /\ LET r == [id |-> made', listener |-> l, event |-> e]
     IN  /\ regs' = [regs EXCEPT ![e] = Append(@, r)]
         /\ subscribed' = subscribed \union {r}
  /\ wrapped' = [wrapped EXCEPT ![l] = made']

\* off(event, listener): without an entry it returns, and remove_listener raises, before
\* the entry is reset, when the wrapper is not registered for the event.
Off(l, e) ==
  LET matches(i) == regs[e][i].id = wrapped[l]
  IN  /\ \/ \E i \in DOMAIN regs[e] :
              /\ matches(i)
              /\ regs' = [regs EXCEPT ![e] = RemoveAt(@, i)]
              /\ wrapped' = [wrapped EXCEPT ![l] = 0]
         \/ /\ \A i \in DOMAIN regs[e] : ~matches(i)
            /\ UNCHANGED <<regs, wrapped>>
      /\ subscribed' = {r \in subscribed : <<r.listener, r.event>> # <<l, e>>}
      /\ UNCHANGED made

\* off(): both emitters are emptied, and the entries stay.
OffAll ==
  /\ regs' = [e \in Events |-> <<>>]
  /\ subscribed' = {}
  /\ UNCHANGED <<made, wrapped>>

-----------------------------------------------------------------------------
(* The application.                                                        *)

\* attach(): it raises when the connection is closed or failed.
Attach == IF channel = "attached" THEN UNCHANGED channel ELSE channel' \in {channel, "attaching"}

\* RealtimeChannel.subscribe: registered whatever becomes of the attach.
SubscribeMessages(l, e) ==
  /\ kind = "messages" /\ Turn
  /\ On(l, e)
  /\ Attach
  /\ UNCHANGED <<kind, awaiting, woken, emission, tasks, heard>>

\* RealtimePresence.subscribe: a suspended channel is left to reattach by itself.
SubscribePresence(l, e) ==
  /\ kind = "presence" /\ Turn
  /\ On(l, e)
  /\ IF channel = "detached" THEN Attach ELSE UNCHANGED channel
  /\ UNCHANGED <<kind, awaiting, woken, emission, tasks, heard>>

\* RealtimeAnnotations.subscribe: registered once attach() has returned.
SubscribeAnnotations(l, e) ==
  /\ kind = "annotations" /\ Turn
  /\ IF channel = "attached"
     THEN On(l, e) /\ UNCHANGED <<kind, channel, awaiting>>
     ELSE /\ <<l, e>> \notin awaiting
          /\ made + Cardinality(awaiting \union woken) < MaxRegistrations
          /\ Attach /\ channel' = "attaching"
          /\ awaiting' = awaiting \union {<<l, e>>}
          /\ UNCHANGED registry
  /\ UNCHANGED <<kind, woken, emission, tasks, heard>>

SubscribeResumes(l, e) ==
  /\ Idle
  /\ <<l, e>> \in woken
  /\ woken' = woken \ {<<l, e>>}
  /\ On(l, e)
  /\ UNCHANGED <<kind, channel, awaiting, emission, tasks, heard>>

Unsubscribe(l, e) ==
  /\ Turn
  /\ Off(l, e)
  /\ UNCHANGED <<kind, channel, awaiting, woken, emission, tasks, heard>>

UnsubscribeAll ==
  /\ Turn
  /\ OffAll
  /\ UNCHANGED <<kind, channel, awaiting, woken, emission, tasks, heard>>

-----------------------------------------------------------------------------
(* The channel.                                                            *)

\* once(): a registration is called for the next event, whatever it is, and is gone.
Wake(new) ==
  /\ woken' = IF new = "attached" THEN woken \union awaiting ELSE woken
  /\ awaiting' = {}

\* A state change: each once_async() on the channel's internal emitter returns, and
\* attach() raises unless it is ATTACHED.
ChannelChanges(new) ==
  /\ Idle
  /\ channel # new
  /\ new = "attached" => channel = "attaching"
  /\ new = "suspended" => channel \in {"attaching", "attached"}
  /\ channel' = new
  /\ Wake(new)
  /\ UNCHANGED <<kind, registry, emission, tasks, heard>>

-----------------------------------------------------------------------------
(* Emission.                                                               *)

\* The emission of the message called n begins: the listeners of its name are copied.
Begin(n) ==
  /\ phase' = "named"
  /\ handlers' = regs[n]
  /\ number' = number + 1
  /\ present' = IdsOf({r \in subscribed : r.event \in {n, All}})
  /\ gone' = (1..made) \ IdsOf(subscribed)
  /\ called' = {}

\* A protocol message with one or two messages, presence messages or annotations.
Receive(ns) ==
  /\ Idle
  /\ channel = "attached"
  /\ number + Len(ns) <= MaxEmitted
  /\ batch' = ns
  /\ Begin(Head(ns))
  /\ UNCHANGED <<kind, channel, awaiting, woken, registry, calling, tasks, heard>>

\* The next listener is called, although it may have been removed since.  A coroutine
\* function makes a task.
CallListener ==
  /\ ~Idle /\ handlers # <<>>
  /\ LET r == Head(handlers)
     IN  /\ called' = called \union {r.id}
         /\ IF r.listener \in Coroutines
            THEN /\ tasks' = Append(tasks, <<r.id, number>>)
                 /\ calling' = FALSE /\ UNCHANGED heard
            ELSE /\ heard' = [heard EXCEPT ![r.id] = number]
                 /\ calling' = TRUE /\ UNCHANGED tasks
  /\ handlers' = Tail(handlers)
  /\ UNCHANGED <<kind, channel, awaiting, woken, registry, batch, phase, number, present, gone>>

TurnToAllAtOnce ==  \* mutant: the unnamed listeners are only called when no named one was
  /\ ~Idle /\ handlers = <<>> /\ phase = "named"
  /\ phase' = "all"
  /\ handlers' = IF called = {} THEN regs[All] ELSE <<>>
  /\ calling' = FALSE
  /\ UNCHANGED <<kind, channel, awaiting, woken, registry, batch, number, present, gone, called,
                 tasks, heard>>

\* _emit: the second emitter copies its listeners after the first has called its own.
TurnToAll ==
  /\ ~Idle /\ handlers = <<>> /\ phase = "named"
  /\ phase' = "all"
  /\ handlers' = regs[All]
  /\ calling' = FALSE
  /\ UNCHANGED <<kind, channel, awaiting, woken, registry, batch, number, present, gone, called,
                 tasks, heard>>

EmissionEnds ==
  /\ ~Idle /\ handlers = <<>> /\ phase = "all"
  /\ phase' = "over"
  /\ calling' = FALSE
  /\ UNCHANGED <<kind, channel, awaiting, woken, registry, batch, handlers, number, present, gone,
                 called, tasks, heard>>

\* The next message of the protocol message, with the listeners there are by now.
EmitNext ==
  /\ ~Idle /\ phase = "over"
  /\ batch' = Tail(batch)
  /\ IF batch' = <<>>
     THEN /\ present' = {} /\ gone' = {} /\ called' = {}
          /\ UNCHANGED <<phase, handlers, number>>
     ELSE Begin(Head(batch'))
  /\ UNCHANGED <<kind, channel, awaiting, woken, registry, calling, tasks, heard>>

\* Tasks have their first turn in the order in which they were created.
RunTask ==
  /\ Idle /\ tasks # <<>>
  /\ tasks' = Tail(tasks)
  /\ heard' = [heard EXCEPT ![Head(tasks)[1]] = Head(tasks)[2]]
  /\ UNCHANGED <<kind, channel, awaiting, woken, registry, emission>>

Next ==
  \/ \E l \in Listeners, e \in Subscribable \union {All} :
       \/ SubscribeMessages(l, e) \/ SubscribePresence(l, e) \/ SubscribeAnnotations(l, e)
       \/ SubscribeResumes(l, e)
       \/ Unsubscribe(l, e)
  \/ UnsubscribeAll
  \/ \E new \in {"detached", "attached", "suspended"} : ChannelChanges(new)
  \/ \E n \in Names : Receive(<<n>>) \/ \E o \in Names : Receive(<<n, o>>)
  \/ CallListener \/ TurnToAll \/ EmissionEnds \/ EmitNext
  \/ RunTask

Spec == Init /\ [][Next]_vars

-----------------------------------------------------------------------------
(* Properties.                                                             *)

\* Whoever was registered for a message when its emission began, and has not been removed
\* by a listener called before it, has been called once it is over, although listeners
\* come and go during the emission.
NobodyIsPassedOver == phase = "over" /\ ~Idle => present \intersect IdsOf(subscribed) \subseteq called

\* A listener removed before the emission of a message began is not called for it, however
\* often it was registered and removed before, and also when the message came in one
\* protocol message with the one whose listener removed it: off() "Removes all
\* registrations that match both the specified listener and, if provided, the specified
\* event" (util/eventemitter.py).
NobodyIsCalledAfterwards == called \intersect gone = {}

=============================================================================
