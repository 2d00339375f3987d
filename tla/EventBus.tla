------------------------------ MODULE EventBus ------------------------------
(***************************************************************************)
(* The in-process event bus (events/bus.py, AsyncEventBus).                *)
(*                                                                         *)
(* Every front end, every agent and every runner of the program speaks     *)
(* through one bus: `emit` numbers an event and delivers it to the         *)
(* subscribers under a lock.  An emit made by a subscriber that handles an *)
(* event runs in the task that already holds the lock, so it is queued     *)
(* (`_nested`) and delivered when the current delivery is over.            *)
(*                                                                         *)
(* One step of the model is the code between two awaits: asyncio runs it   *)
(* without interruption.  A delivery awaits inside each handler, which is  *)
(* where other tasks run, where the handler emits, and where the           *)
(* delivering task can be cancelled.                                       *)
(***************************************************************************)
EXTENDS Naturals, Sequences

CONSTANTS
  Task,         \* the asyncio tasks that emit
  Subscriber,   \* the handlers that may be subscribed
  None,         \* nobody
  MaxNested,    \* MAX_NESTED_EVENTS: nested events one emit delivers
  MaxEmits      \* bound of the model: sequence numbers given to emitted events

ASSUME MaxNestedAssumption == MaxNested \in Nat \ {0}
ASSUME MaxEmitsAssumption == MaxEmits \in Nat
ASSUME NoneAssumption == None \notin Task \cup Subscriber

VARIABLES
  seq,          \* _sequence
  subscribers,  \* _subscribers (the order handlers are called in is left open)
  queue,        \* tasks waiting for _lock, first come first served
  holder,       \* _delivering: the task that holds _lock, or None
  current,      \* the envelope being delivered
  todo,         \* the snapshot of subscribers, those still to be called
  inside,       \* the handler that is running, or None
  failed,       \* a handler of this delivery raised
  own,          \* what is delivered is the bus's own report of a failure
  nested,       \* _nested
  drained       \* nested events delivered by this emit

VARIABLES       \* what an observer of the bus has seen
  got,          \* got[s]: the numbers handed to s
  due,          \* due[s]: the numbers whose delivery began while s was subscribed
  sent,         \* the numbers whose delivery began
  lost,         \* the numbers given up: past MaxNested, or their task cancelled
  ordinary,     \* ordinary[s]: the last number handed to s, the bus's own reports aside
  latest        \* latest[s]: the last number handed to s

lockVars == <<queue, holder>>
deliveryVars == <<current, todo, inside, failed, own, nested, drained>>
seenVars == <<got, ordinary, latest>>
sentVars == <<due, sent>>
vars == <<seq, subscribers, lockVars, deliveryVars, seenVars, sentVars, lost>>

Kind == {"event", "warning"}
Envelope == [n : Nat, kind : Kind]
NoEnvelope == [n |-> 0, kind |-> "event"]

Waiting == {queue[i] : i \in 1..Len(queue)}
NestedNumbers == {nested[i].n : i \in 1..Len(nested)}

TypeOK ==
  /\ seq \in Nat
  /\ subscribers \subseteq Subscriber
  /\ queue \in Seq(Task)
  /\ holder \in Task \cup {None}
  /\ current \in Envelope
  /\ todo \subseteq Subscriber
  /\ inside \in Subscriber \cup {None}
  /\ failed \in BOOLEAN
  /\ own \in BOOLEAN
  /\ nested \in Seq(Envelope)
  /\ drained \in 0..MaxNested
  /\ got \in [Subscriber -> SUBSET Nat]
  /\ due \in [Subscriber -> SUBSET Nat]
  /\ sent \subseteq Nat
  /\ lost \subseteq Nat
  /\ ordinary \in [Subscriber -> Nat]
  /\ latest \in [Subscriber -> Nat]

Init ==
  /\ seq = 0
  /\ subscribers = Subscriber
  /\ queue = <<>>
  /\ holder = None
  /\ current = NoEnvelope
  /\ todo = {}
  /\ inside = None
  /\ failed = FALSE
  /\ own = FALSE
  /\ nested = <<>>
  /\ drained = 0
  /\ got = [s \in Subscriber |-> {}]
  /\ due = [s \in Subscriber |-> {}]
  /\ sent = {}
  /\ lost = {}
  /\ ordinary = [s \in Subscriber |-> 0]
  /\ latest = [s \in Subscriber |-> 0]

-----------------------------------------------------------------------------
(* Delivery of one envelope.                                               *)

\* _deliver: the loop runs over a copy of the subscriber list.
Begin(envelope, report) ==
  /\ current' = envelope
  /\ own' = report
  /\ todo' = subscribers
  /\ inside' = None
  /\ failed' = FALSE
  /\ sent' = sent \cup {envelope.n}
  /\ due' = [s \in Subscriber |->
               IF s \in subscribers THEN due[s] \cup {envelope.n} ELSE due[s]]

\* Defect: the nested events are not cleared.
ReleaseKeepingNested ==
  /\ holder' = None /\ current' = NoEnvelope /\ todo' = {} /\ inside' = None
  /\ failed' = FALSE /\ own' = FALSE /\ drained' = 0
  /\ UNCHANGED nested

\* Defect: the count of delivered nested events outlives its emit.
ReleaseKeepingCount ==
  /\ holder' = None /\ current' = NoEnvelope /\ todo' = {} /\ inside' = None
  /\ failed' = FALSE /\ own' = FALSE /\ nested' = <<>>
  /\ UNCHANGED drained

\* The finally of emit: the lock is free and nothing of this emit is left.
Release ==
  /\ holder' = None
  /\ nested' = <<>>
  /\ current' = NoEnvelope
  /\ todo' = {}
  /\ inside' = None
  /\ failed' = FALSE
  /\ own' = FALSE
  /\ drained' = 0

Between == holder # None /\ inside = None
Delivered == Between /\ todo = {}
MustReport == failed /\ ~own /\ current.kind # "warning"

\* Defect: one nested event more than the cap.
CanDrainOneMore == nested # <<>> /\ drained <= MaxNested

\* Defect: a delivery in which a handler failed skips the nested events.
CanDrainUnlessFailed == nested # <<>> /\ drained < MaxNested /\ ~failed

CanDrain == nested # <<>> /\ drained < MaxNested

-----------------------------------------------------------------------------
(* Emitting.                                                               *)

\* emit called by a task that is not delivering: it queues for the lock.
Request(t) ==
  /\ t # holder /\ t \notin Waiting
  /\ seq + Len(queue) < MaxEmits
  /\ queue' = Append(queue, t)
  /\ UNCHANGED <<seq, subscribers, holder, deliveryVars, seenVars, sentVars, lost>>

\* The lock comes to the first in line, which numbers its event under it.
Acquire ==
  /\ holder = None /\ queue # <<>>
  /\ holder' = Head(queue)
  /\ queue' = Tail(queue)
  /\ seq' = seq + 1
  /\ \E kind \in Kind : Begin([n |-> seq + 1, kind |-> kind], FALSE)
  /\ UNCHANGED <<subscribers, nested, drained, seenVars, lost>>

\* emit called by the handler that is running: numbered now, delivered later.
HandlerEmits ==
  /\ inside # None
  /\ seq + Len(queue) < MaxEmits
  /\ seq' = seq + 1
  /\ \E kind \in Kind : nested' = Append(nested, [n |-> seq + 1, kind |-> kind])
  /\ UNCHANGED <<subscribers, lockVars, current, todo, inside, failed, own, drained,
                 seenVars, sentVars, lost>>

CallSubscriber(s) ==
  /\ Between /\ s \in todo
  /\ todo' = todo \ {s}
  /\ inside' = s
  /\ got' = [got EXCEPT ![s] = @ \cup {current.n}]
  /\ latest' = [latest EXCEPT ![s] = current.n]
  /\ ordinary' = IF own THEN ordinary ELSE [ordinary EXCEPT ![s] = current.n]
  /\ UNCHANGED <<seq, subscribers, lockVars, current, failed, own, nested, drained,
                 sentVars, lost>>

HandlerReturns ==
  /\ inside # None
  /\ inside' = None
  /\ UNCHANGED <<seq, subscribers, lockVars, current, todo, failed, own, nested, drained,
                 seenVars, sentVars, lost>>

\* An exception of one handler is kept from the others and from the emitter.
HandlerFails ==
  /\ inside # None
  /\ inside' = None
  /\ failed' = TRUE
  /\ UNCHANGED <<seq, subscribers, lockVars, current, todo, own, nested, drained,
                 seenVars, sentVars, lost>>

\* Handlers failed: a warning is numbered and delivered before anything else.
ReportFailure ==
  /\ Delivered /\ MustReport
  /\ seq' = seq + 1
  /\ Begin([n |-> seq + 1, kind |-> "warning"], TRUE)
  /\ UNCHANGED <<subscribers, lockVars, nested, drained, seenVars, lost>>

DeliverNested ==
  /\ Delivered /\ ~MustReport /\ CanDrain
  /\ nested' = Tail(nested)
  /\ drained' = drained + 1
  /\ Begin(Head(nested), FALSE)
  /\ UNCHANGED <<seq, subscribers, lockVars, seenVars, lost>>

\* Defect: emit insists on an empty _nested, which the cap may never give it.
EmitReturnsWhenEmpty ==
  /\ Delivered /\ ~MustReport /\ nested = <<>>
  /\ Release
  /\ UNCHANGED <<seq, subscribers, queue, seenVars, sentVars, lost>>

\* emit returns: what is left of _nested is past the cap and is dropped.
EmitReturns ==
  /\ Delivered /\ ~MustReport /\ ~CanDrain
  /\ Release
  /\ lost' = IF drained = MaxNested THEN lost \cup NestedNumbers ELSE lost
  /\ UNCHANGED <<seq, subscribers, queue, seenVars, sentVars>>

-----------------------------------------------------------------------------
(* Cancellation and subscription.                                          *)

\* The delivering task is cancelled at the await inside a handler.
CancelDelivery ==
  /\ inside # None
  /\ Release
  /\ lost' = lost \cup NestedNumbers \cup {current.n}
  /\ UNCHANGED <<seq, subscribers, queue, seenVars, sentVars>>

\* A task is cancelled while it waits for the lock.
CancelWaiter(t) ==
  /\ \E i \in 1..Len(queue) :
       /\ queue[i] = t
       /\ queue' = SubSeq(queue, 1, i - 1) \o SubSeq(queue, i + 1, Len(queue))
  /\ UNCHANGED <<seq, subscribers, holder, deliveryVars, seenVars, sentVars, lost>>

Subscribe(s) ==
  /\ s \notin subscribers
  /\ subscribers' = subscribers \cup {s}
  /\ UNCHANGED <<seq, lockVars, deliveryVars, seenVars, sentVars, lost>>

Unsubscribe(s) ==
  /\ s \in subscribers
  /\ subscribers' = subscribers \ {s}
  /\ UNCHANGED <<seq, lockVars, deliveryVars, seenVars, sentVars, lost>>

HandlerEnds == HandlerReturns \/ HandlerFails

Next ==
  \/ \E t \in Task : Request(t) \/ CancelWaiter(t)
  \/ \E s \in Subscriber : CallSubscriber(s) \/ Subscribe(s) \/ Unsubscribe(s)
  \/ Acquire \/ HandlerEmits \/ HandlerReturns \/ HandlerFails
  \/ ReportFailure \/ DeliverNested \/ EmitReturns \/ CancelDelivery

\* The event loop runs what can run, and a handler ends: nobody has to emit,
\* cancel or subscribe.
Fairness ==
  /\ WF_vars(Acquire)
  /\ WF_vars(\E s \in Subscriber : CallSubscriber(s))
  /\ WF_vars(HandlerEnds)
  /\ WF_vars(ReportFailure \/ DeliverNested \/ EmitReturns)

Spec == Init /\ [][Next]_vars
FairSpec == Spec /\ Fairness

-----------------------------------------------------------------------------
(* Properties.                                                             *)

\* The state of a delivery never outlives it: with the lock free, no nested
\* event waits (the next emit would deliver it as its own) and no handler is
\* running or waiting for its call.
NothingLeftBehind ==
  holder = None => nested = <<>> /\ todo = {} /\ inside = None /\ ~failed /\ drained = 0

\* No event disappears: every number given out was delivered, is waiting in
\* _nested, or was given up for a reason the code names (the cap, or the
\* cancellation of the delivering task); and a subscriber misses an event that
\* was delivered while it was subscribed only if that delivery was cancelled.
NothingVanishes ==
  /\ 1..seq \subseteq sent \cup lost \cup NestedNumbers
  /\ \A s \in Subscriber : \A n \in due[s] \ got[s] :
       n \in lost \/ (n = current.n /\ s \in todo)

\* "Subscribers always observe events in emission order" for every event but the
\* bus's own failure reports: a handler is never given a number it has passed.
OrdinaryInOrder ==
  [][\A s \in Subscriber : ordinary'[s] # ordinary[s] => ordinary'[s] > ordinary[s]]_vars

\* The same with the failure reports: the order the comment of emit promises.
EmissionOrder ==
  [][\A s \in Subscriber : latest'[s] # latest[s] => latest'[s] > latest[s]]_vars

\* An emit gets its turn and returns, however its subscribers emit, fail or
\* come and go, and whoever is cancelled.
EmitCompletes ==
  \A t \in Task : (t \in Waiting \/ holder = t) ~> (t \notin Waiting /\ holder # t)
=============================================================================
