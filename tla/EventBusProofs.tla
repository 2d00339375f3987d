--------------------------- MODULE EventBusProofs ---------------------------
(***************************************************************************)
(* Proofs about the event bus, for any number of tasks and subscribers and *)
(* any cap on nested events.                                               *)
(***************************************************************************)
EXTENDS EventBus, TLAPS

-----------------------------------------------------------------------------
(* Sequences.                                                              *)

\* What a queue holds after its first element was taken: the others, moved by one.
LEMMA TailElements ==
  ASSUME NEW S, NEW q \in Seq(S), q # <<>>
  PROVE  /\ Tail(q) \in Seq(S)
         /\ Len(Tail(q)) = Len(q) - 1
         /\ \A i \in 1..Len(Tail(q)) : i + 1 \in 1..Len(q) /\ Tail(q)[i] = q[i + 1]
         /\ 1 \in 1..Len(q)
         /\ Head(q) = q[1]
         /\ Head(q) \in S
  OBVIOUS

\* What a queue holds after an element was added at its end.
LEMMA AppendElements ==
  ASSUME NEW S, NEW q \in Seq(S), NEW e \in S
  PROVE  /\ Append(q, e) \in Seq(S)
         /\ Len(Append(q, e)) = Len(q) + 1
         /\ \A i \in 1..Len(q) : Append(q, e)[i] = q[i]
         /\ Append(q, e)[Len(q) + 1] = e
         /\ \A i \in 1..Len(Append(q, e)) : i \in 1..Len(q) \/ i = Len(q) + 1
  OBVIOUS

\* Removing a task from the waiting line leaves a line of tasks.
LEMMA ShortenedQueue ==
  ASSUME NEW S, NEW q \in Seq(S), NEW i \in 1..Len(q)
  PROVE  SubSeq(q, 1, i - 1) \o SubSeq(q, i + 1, Len(q)) \in Seq(S)
  <1>1. SubSeq(q, 1, i - 1) \in Seq(S)
    OBVIOUS
  <1>2. SubSeq(q, i + 1, Len(q)) \in Seq(S)
    OBVIOUS
  <1>3. QED
    BY <1>1, <1>2

-----------------------------------------------------------------------------
(* Types.                                                                  *)

\* What `_deliver` starts with is well typed whenever the envelope is.
LEMMA BeginTyped ==
  ASSUME TypeOK, NEW e \in Envelope, NEW r \in BOOLEAN, Begin(e, r)
  PROVE  /\ current' \in Envelope
         /\ todo' \subseteq Subscriber
         /\ inside' \in Subscriber \cup {None}
         /\ failed' \in BOOLEAN
         /\ own' \in BOOLEAN
         /\ due' \in [Subscriber -> SUBSET Nat]
         /\ sent' \subseteq Nat
  BY DEF TypeOK, Begin, Envelope

\* What the finally of emit leaves is well typed.
LEMMA ReleaseTyped ==
  ASSUME Release
  PROVE  /\ holder' \in Task \cup {None}
         /\ current' \in Envelope
         /\ todo' \subseteq Subscriber
         /\ inside' \in Subscriber \cup {None}
         /\ failed' \in BOOLEAN
         /\ own' \in BOOLEAN
         /\ nested' \in Seq(Envelope)
         /\ drained' \in 0..MaxNested
  <1>1. NoEnvelope \in Envelope
    BY DEF NoEnvelope, Envelope, Kind
  <1>2. nested' \in Seq(Envelope)
    BY DEF Release
  <1>3. 0 \in 0..MaxNested
    BY MaxNestedAssumption
  <1>4. QED
    BY <1>1, <1>2, <1>3 DEF Release

\* The variables of the bus keep their types: the model's steps are those of a
\* bus whose sequence only counts up and whose drained count respects the cap.
THEOREM TypeCorrect == Spec => []TypeOK
  <1> USE MaxNestedAssumption, MaxEmitsAssumption
  <1>1. Init => TypeOK
    <2>1. NoEnvelope \in Envelope
      BY DEF NoEnvelope, Envelope, Kind
    <2>2. 0 \in 0..MaxNested
      OBVIOUS
    <2>3. ASSUME Init
          PROVE  /\ seq \in Nat /\ subscribers \subseteq Subscriber
                 /\ queue \in Seq(Task) /\ holder \in Task \cup {None}
      BY <2>3 DEF Init
    <2>4. ASSUME Init
          PROVE  /\ current \in Envelope /\ todo \subseteq Subscriber
                 /\ inside \in Subscriber \cup {None}
                 /\ failed \in BOOLEAN /\ own \in BOOLEAN
                 /\ drained \in 0..MaxNested
      BY <2>1, <2>2, <2>4 DEF Init
    <2>41. ASSUME Init
           PROVE  nested \in Seq(Envelope)
      BY <2>41 DEF Init
    <2>5. ASSUME Init
          PROVE  /\ got \in [Subscriber -> SUBSET Nat] /\ due \in [Subscriber -> SUBSET Nat]
                 /\ sent \subseteq Nat /\ lost \subseteq Nat
                 /\ ordinary \in [Subscriber -> Nat] /\ latest \in [Subscriber -> Nat]
      BY <2>5 DEF Init
    <2>6. QED
      BY <2>3, <2>4, <2>41, <2>5 DEF TypeOK
  <1>2. TypeOK /\ [Next]_vars => TypeOK'
    <2> SUFFICES ASSUME TypeOK, [Next]_vars
                 PROVE  TypeOK'
      OBVIOUS
    <2> USE DEF TypeOK
    <2>1. ASSUME NEW t \in Task, Request(t)
          PROVE  TypeOK'
      BY <2>1, AppendElements DEF Request, deliveryVars, seenVars, sentVars
    <2>2. ASSUME NEW t \in Task, CancelWaiter(t)
          PROVE  TypeOK'
      <3>1. queue' \in Seq(Task)
        BY <2>2, ShortenedQueue DEF CancelWaiter
      <3>2. QED
        BY <2>2, <3>1 DEF CancelWaiter, deliveryVars, seenVars, sentVars
    <2>3. ASSUME NEW s \in Subscriber, CallSubscriber(s)
          PROVE  TypeOK'
      <3>1. current.n \in Nat
        BY DEF Envelope
      <3>2. QED
        BY <2>3, <3>1 DEF CallSubscriber, lockVars, sentVars
    <2>4. ASSUME NEW s \in Subscriber, Subscribe(s)
          PROVE  TypeOK'
      BY <2>4 DEF Subscribe, lockVars, deliveryVars, seenVars, sentVars
    <2>5. ASSUME NEW s \in Subscriber, Unsubscribe(s)
          PROVE  TypeOK'
      BY <2>5 DEF Unsubscribe, lockVars, deliveryVars, seenVars, sentVars
    <2>6. CASE Acquire
      <3>1. PICK kind \in Kind : Begin([n |-> seq + 1, kind |-> kind], FALSE)
        BY <2>6 DEF Acquire
      <3>2. [n |-> seq + 1, kind |-> kind] \in Envelope
        BY DEF Envelope
      <3>3. holder' \in Task /\ queue' \in Seq(Task) /\ seq' \in Nat
        BY <2>6, TailElements DEF Acquire
      <3>4. UNCHANGED <<subscribers, nested, drained, seenVars, lost>>
        BY <2>6 DEF Acquire
      <3> HIDE DEF TypeOK
      <3>5. /\ current' \in Envelope /\ todo' \subseteq Subscriber
            /\ inside' \in Subscriber \cup {None}
            /\ failed' \in BOOLEAN /\ own' \in BOOLEAN
            /\ due' \in [Subscriber -> SUBSET Nat] /\ sent' \subseteq Nat
        BY <3>1, <3>2, BeginTyped
      <3>6. QED
        BY <3>3, <3>4, <3>5 DEF TypeOK, seenVars
    <2>7. CASE HandlerEmits
      <3>1. PICK kind \in Kind :
              nested' = Append(nested, [n |-> seq + 1, kind |-> kind])
        BY <2>7 DEF HandlerEmits
      <3>2. nested' \in Seq(Envelope)
        BY <3>1, AppendElements DEF Envelope
      <3>3. QED
        BY <2>7, <3>2 DEF HandlerEmits, lockVars, seenVars, sentVars
    <2>8. CASE HandlerReturns
      BY <2>8 DEF HandlerReturns, lockVars, seenVars, sentVars
    <2>9. CASE HandlerFails
      BY <2>9 DEF HandlerFails, lockVars, seenVars, sentVars
    <2>10. CASE ReportFailure
      <3>1. [n |-> seq + 1, kind |-> "warning"] \in Envelope
        BY DEF Envelope, Kind
      <3>2. UNCHANGED <<subscribers, lockVars, nested, drained, seenVars, lost>> /\ seq' \in Nat
        BY <2>10 DEF ReportFailure
      <3>3. Begin([n |-> seq + 1, kind |-> "warning"], TRUE)
        BY <2>10 DEF ReportFailure
      <3> HIDE DEF TypeOK
      <3>4. /\ current' \in Envelope /\ todo' \subseteq Subscriber
            /\ inside' \in Subscriber \cup {None}
            /\ failed' \in BOOLEAN /\ own' \in BOOLEAN
            /\ due' \in [Subscriber -> SUBSET Nat] /\ sent' \subseteq Nat
        BY <3>1, <3>3, BeginTyped
      <3>5. QED
        BY <3>2, <3>4 DEF TypeOK, lockVars, seenVars
    <2>11. CASE DeliverNested
      <3>1. nested # <<>> /\ nested' = Tail(nested) /\ drained < MaxNested
        BY <2>11 DEF DeliverNested, CanDrain
      <3>2. nested' \in Seq(Envelope) /\ Head(nested) \in Envelope
        BY <3>1, TailElements
      <3>3. drained' \in 0..MaxNested
        BY <2>11, <3>1 DEF DeliverNested
      <3>4. UNCHANGED <<seq, subscribers, lockVars, seenVars, lost>> /\ Begin(Head(nested), FALSE)
        BY <2>11 DEF DeliverNested
      <3> HIDE DEF TypeOK
      <3>5. /\ current' \in Envelope /\ todo' \subseteq Subscriber
            /\ inside' \in Subscriber \cup {None}
            /\ failed' \in BOOLEAN /\ own' \in BOOLEAN
            /\ due' \in [Subscriber -> SUBSET Nat] /\ sent' \subseteq Nat
        BY <3>2, <3>4, BeginTyped
      <3>6. QED
        BY <3>2, <3>3, <3>4, <3>5 DEF TypeOK, lockVars, seenVars
    <2>12. /\ NestedNumbers \subseteq Nat
           /\ current.n \in Nat
      <3>1. \A e \in Envelope : e.n \in Nat
        BY DEF Envelope
      <3>2. \A i \in 1..Len(nested) : nested[i] \in Envelope
        OBVIOUS
      <3>3. QED
        BY <3>1, <3>2 DEF NestedNumbers
    <2>13. CASE EmitReturns
      <3>1. Release /\ lost' \subseteq Nat /\ UNCHANGED <<seq, subscribers, queue, seenVars, sentVars>>
        BY <2>12, <2>13 DEF EmitReturns
      <3> HIDE DEF TypeOK
      <3>2. QED
        BY <3>1, ReleaseTyped DEF TypeOK, seenVars, sentVars
    <2>14. CASE CancelDelivery
      <3>1. Release /\ lost' \subseteq Nat /\ UNCHANGED <<seq, subscribers, queue, seenVars, sentVars>>
        BY <2>12, <2>14 DEF CancelDelivery
      <3> HIDE DEF TypeOK
      <3>2. QED
        BY <3>1, ReleaseTyped DEF TypeOK, seenVars, sentVars
    <2>15. CASE UNCHANGED vars
      BY <2>15 DEF vars, lockVars, deliveryVars, seenVars, sentVars
    <2>16. QED
      BY <2>1, <2>2, <2>3, <2>4, <2>5, <2>6, <2>7, <2>8, <2>9, <2>10, <2>11, <2>13,
         <2>14, <2>15 DEF Next
  <1>3. QED
    BY <1>1, <1>2, PTL DEF Spec

-----------------------------------------------------------------------------
(* Nothing of a delivery outlives it.                                      *)

\* The finally of emit clears what the next emit would otherwise deliver as its
\* own: whenever the lock is free, the state of the last delivery is gone.
THEOREM LeavesNothing == Spec => []NothingLeftBehind
  <1> USE DEF NothingLeftBehind
  <1>1. Init => NothingLeftBehind
    BY DEF Init
  <1>2. TypeOK /\ NothingLeftBehind /\ [Next]_vars => NothingLeftBehind'
    <2> SUFFICES ASSUME TypeOK, NothingLeftBehind, [Next]_vars
                 PROVE  NothingLeftBehind'
      OBVIOUS
    <2>1. ASSUME NEW t \in Task, Request(t) \/ CancelWaiter(t)
          PROVE  NothingLeftBehind'
      BY <2>1 DEF Request, CancelWaiter, deliveryVars
    <2>2. ASSUME NEW s \in Subscriber, CallSubscriber(s) \/ Subscribe(s) \/ Unsubscribe(s)
          PROVE  NothingLeftBehind'
      BY <2>2 DEF CallSubscriber, Subscribe, Unsubscribe, Between, lockVars, deliveryVars
    <2>3. CASE Acquire
      <3>1. holder' \in Task
        BY <2>3, TailElements DEF Acquire, TypeOK
      <3>2. QED
        BY <3>1, NoneAssumption
    <2>4. CASE HandlerEmits
      BY <2>4 DEF HandlerEmits, lockVars
    <2>5. CASE HandlerReturns \/ HandlerFails
      BY <2>5 DEF HandlerReturns, HandlerFails, lockVars
    <2>6. CASE ReportFailure \/ DeliverNested
      BY <2>6 DEF ReportFailure, DeliverNested, Delivered, Between, lockVars
    <2>7. CASE EmitReturns \/ CancelDelivery
      BY <2>7 DEF EmitReturns, CancelDelivery, Release
    <2>8. CASE UNCHANGED vars
      BY <2>8 DEF vars, lockVars, deliveryVars
    <2>9. QED
      BY <2>1, <2>2, <2>3, <2>4, <2>5, <2>6, <2>7, <2>8 DEF Next
  <1>3. QED
    BY <1>1, <1>2, TypeCorrect, PTL DEF Spec

-----------------------------------------------------------------------------
(* The order of delivery.                                                  *)

\* Why the order holds: the nested events carry numbers beyond everything that
\* was handed out, in increasing order, and those who wait for the current
\* event have not passed it.
NestedAhead ==
  \A i \in 1..Len(nested) :
    /\ nested[i].n <= seq
    /\ \A s \in Subscriber : ordinary[s] < nested[i].n
    /\ ~own => current.n < nested[i].n

NestedSorted ==
  \A i, j \in 1..Len(nested) : i < j => nested[i].n < nested[j].n

NotPassed ==
  /\ current.n <= seq
  /\ \A s \in Subscriber : ordinary[s] <= seq
  /\ ~own => \A s \in todo : ordinary[s] < current.n

OrderInv == NestedAhead /\ NestedSorted /\ NotPassed

\* The induction step of OrderInv, one case per action.
LEMMA OrderStep ==
  ASSUME TypeOK, TypeOK', NothingLeftBehind, OrderInv, [Next]_vars
  PROVE  OrderInv'
  <1> USE DEF OrderInv, NestedAhead, NestedSorted, NotPassed
  <1>1. /\ seq \in Nat /\ nested \in Seq(Envelope) /\ current \in Envelope
        /\ ordinary \in [Subscriber -> Nat] /\ current.n \in Nat
        /\ \A i \in 1..Len(nested) : nested[i].n \in Nat
    <2>1. \A e \in Envelope : e.n \in Nat
      BY DEF Envelope
    <2>2. /\ seq \in Nat /\ nested \in Seq(Envelope) /\ current \in Envelope
          /\ ordinary \in [Subscriber -> Nat]
      BY DEF TypeOK
    <2>3. \A i \in 1..Len(nested) : nested[i] \in Envelope
      BY <2>2
    <2>4. QED
      BY <2>1, <2>2, <2>3
  <1>2. ASSUME NEW t \in Task, Request(t) \/ CancelWaiter(t)
        PROVE  OrderInv'
    <2>1. UNCHANGED <<seq, current, own, todo, nested, ordinary>>
      BY <1>2 DEF Request, CancelWaiter, deliveryVars, seenVars
    <2>2. QED
      BY <2>1
  <1>3. ASSUME NEW s \in Subscriber, Subscribe(s) \/ Unsubscribe(s)
        PROVE  OrderInv'
    BY <1>3 DEF Subscribe, Unsubscribe, deliveryVars, seenVars
  <1>4. ASSUME NEW s \in Subscriber, CallSubscriber(s)
        PROVE  OrderInv'
    <2>1. CASE own
      BY <1>1, <1>4, <2>1 DEF CallSubscriber
    <2>2. CASE ~own
      BY <1>1, <1>4, <2>2 DEF CallSubscriber
    <2>3. QED
      BY <2>1, <2>2
  <1>5. CASE Acquire
    <2>1. nested = <<>> /\ nested' = nested /\ seq' = seq + 1
      BY <1>5 DEF Acquire, NothingLeftBehind
    <2>2. current'.n = seq + 1 /\ ordinary' = ordinary
      BY <1>5 DEF Acquire, Begin, seenVars
    <2>3. todo' \subseteq Subscriber
      BY DEF TypeOK
    <2>4. 1..Len(nested') = {}
      BY <2>1
    <2>5. NestedAhead' /\ NestedSorted'
      BY <2>4
    <2>6. NotPassed'
      <3>1. \A s \in Subscriber : ordinary'[s] \in Nat /\ ordinary'[s] <= seq
        BY <1>1, <2>2
      <3>2. QED
        BY <1>1, <2>1, <2>2, <2>3, <3>1
    <2>7. QED
      BY <2>5, <2>6
  <1>6. CASE HandlerEmits
    <2>0. PICK kind \in Kind : nested' = Append(nested, [n |-> seq + 1, kind |-> kind])
      BY <1>6 DEF HandlerEmits
    <2>a. [n |-> seq + 1, kind |-> kind] \in Envelope
      BY <1>1 DEF Envelope
    <2>1. PICK e \in Envelope : nested' = Append(nested, e) /\ e.n = seq + 1
      BY <2>0, <2>a
    <2>2. seq' = seq + 1 /\ UNCHANGED <<ordinary, current, own, todo>>
      BY <1>6 DEF HandlerEmits, seenVars
    <2>3. /\ \A i \in 1..Len(nested) : nested'[i] = nested[i]
          /\ nested'[Len(nested) + 1].n = seq + 1
          /\ Len(nested') = Len(nested) + 1
      BY <1>1, <2>1, AppendElements
    <2>4. Len(nested) \in Nat
      BY <1>1
    <2>5. todo \subseteq Subscriber
      BY DEF TypeOK
    <2>6. \A i \in 1..Len(nested') :
            \/ i \in 1..Len(nested) /\ nested'[i] = nested[i]
            \/ i = Len(nested) + 1 /\ nested'[i].n = seq + 1
      BY <2>3, <2>4
    <2>7. NestedAhead'
      <3> SUFFICES ASSUME NEW i \in 1..Len(nested')
                   PROVE  /\ nested'[i].n <= seq'
                          /\ \A s \in Subscriber : ordinary'[s] < nested'[i].n
                          /\ ~own' => current'.n < nested'[i].n
        OBVIOUS
      <3>1. CASE i \in 1..Len(nested) /\ nested'[i] = nested[i]
        <4>1. nested[i].n \in Nat /\ nested[i].n <= seq
          BY <1>1, <3>1
        <4>2. QED
          BY <1>1, <2>2, <3>1, <4>1
      <3>2. CASE i = Len(nested) + 1 /\ nested'[i].n = seq + 1
        <4>1. \A s \in Subscriber : ordinary[s] \in Nat /\ ordinary[s] <= seq
          BY <1>1
        <4>2. QED
          BY <1>1, <2>2, <3>2, <4>1
      <3>3. QED
        BY <2>6, <3>1, <3>2
    <2>8. NestedSorted'
      <3> SUFFICES ASSUME NEW i \in 1..Len(nested'), NEW j \in 1..Len(nested'), i < j
                   PROVE  nested'[i].n < nested'[j].n
        OBVIOUS
      <3>1. i \in 1..Len(nested) /\ nested'[i] = nested[i]
        BY <2>3, <2>4, <2>6
      <3>2. nested[i].n \in Nat /\ nested[i].n <= seq
        BY <1>1, <3>1
      <3>3. CASE j \in 1..Len(nested) /\ nested'[j] = nested[j]
        BY <3>1, <3>3
      <3>4. CASE nested'[j].n = seq + 1
        BY <1>1, <3>1, <3>2, <3>4
      <3>5. QED
        BY <2>6, <3>3, <3>4
    <2>9. NotPassed'
      BY <1>1, <2>2
    <2>10. QED
      BY <2>7, <2>8, <2>9
  <1>7. CASE HandlerReturns \/ HandlerFails
    BY <1>7 DEF HandlerReturns, HandlerFails, seenVars
  <1>8. CASE ReportFailure
    <2>1. /\ seq' = seq + 1 /\ nested' = nested /\ ordinary' = ordinary
          /\ current'.n = seq + 1 /\ own' = TRUE
      BY <1>8 DEF ReportFailure, Begin, seenVars
    <2>2. QED
      BY <1>1, <2>1
  <1>9. CASE DeliverNested
    <2>1. nested # <<>> /\ nested' = Tail(nested) /\ current' = Head(nested)
      BY <1>9 DEF DeliverNested, CanDrain, Begin
    <2>2. seq' = seq /\ ordinary' = ordinary
      BY <1>9 DEF DeliverNested, seenVars
    <2>3. /\ \A i \in 1..Len(nested') : i + 1 \in 1..Len(nested) /\ nested'[i] = nested[i + 1]
          /\ Len(nested') = Len(nested) - 1
          /\ 1 \in 1..Len(nested)
          /\ current' = nested[1]
      BY <1>1, <2>1, TailElements
    <2>a. todo' \subseteq Subscriber
      BY DEF TypeOK
    <2>b. Len(nested) \in Nat
      BY <1>1
    <2>4. todo' \subseteq Subscriber /\ Len(nested) \in Nat
      BY <2>a, <2>b
    <2>5. \A i, j \in 1..Len(nested) : i < j => nested[i].n < nested[j].n
      OBVIOUS
    <2>6. \A i \in 1..Len(nested) :
            nested[i].n <= seq /\ \A s \in Subscriber : ordinary[s] < nested[i].n
      OBVIOUS
    <2>7. NestedSorted'
      <3> SUFFICES ASSUME NEW i \in 1..Len(nested'), NEW j \in 1..Len(nested'), i < j
                   PROVE  nested'[i].n < nested'[j].n
        OBVIOUS
      <3>1. i + 1 < j + 1
        BY <2>3, <2>4
      <3>2. QED
        BY <2>3, <2>5, <3>1
    <2>8. NestedAhead'
      <3> SUFFICES ASSUME NEW i \in 1..Len(nested')
                   PROVE  /\ nested'[i].n <= seq'
                          /\ \A s \in Subscriber : ordinary'[s] < nested'[i].n
                          /\ current'.n < nested'[i].n
        OBVIOUS
      <3>1. i + 1 \in 1..Len(nested) /\ nested'[i] = nested[i + 1] /\ 1 < i + 1
        BY <2>3, <2>4
      <3>2. nested[1].n < nested[i + 1].n
        BY <2>3, <2>5, <3>1
      <3>3. QED
        BY <2>2, <2>3, <2>6, <3>1, <3>2
    <2>9. NotPassed'
      BY <1>1, <2>2, <2>3, <2>4, <2>6
    <2>10. QED
      BY <2>7, <2>8, <2>9
  <1>10. CASE EmitReturns \/ CancelDelivery
    <2>1. Len(nested') = 0
      BY <1>10 DEF EmitReturns, CancelDelivery, Release
    <2>2. current'.n = 0 /\ todo' = {} /\ UNCHANGED <<seq, ordinary>>
      BY <1>10 DEF EmitReturns, CancelDelivery, Release, NoEnvelope, seenVars
    <2>3. NestedAhead' /\ NestedSorted'
      BY <2>1
    <2>4. NotPassed'
      BY <1>1, <2>2
    <2>5. QED
      BY <2>3, <2>4
  <1>11. CASE UNCHANGED vars
    BY <1>11 DEF vars, deliveryVars, seenVars
  <1>12. QED
    BY <1>2, <1>3, <1>4, <1>5, <1>6, <1>7, <1>8, <1>9, <1>10, <1>11 DEF Next

\* Whatever emits, fails, is cancelled or unsubscribes, no handler is given an
\* event (the bus's own failure reports aside) after a later one.
THEOREM InOrder == Spec => OrdinaryInOrder
  <1>1. Init => OrderInv
    BY DEF Init, OrderInv, NestedAhead, NestedSorted, NotPassed, NoEnvelope
  <1>2. Spec => []OrderInv
    BY <1>1, OrderStep, TypeCorrect, LeavesNothing, PTL DEF Spec
  <1>3. TypeOK /\ OrderInv /\ [Next]_vars =>
          [\A s \in Subscriber : ordinary'[s] # ordinary[s] => ordinary'[s] > ordinary[s]]_vars
    <2> SUFFICES ASSUME TypeOK, OrderInv, Next, NEW s \in Subscriber,
                        ordinary'[s] # ordinary[s]
                 PROVE  ordinary'[s] > ordinary[s]
      OBVIOUS
    <2>1. PICK r \in Subscriber : CallSubscriber(r)
      BY DEF Next, Request, CancelWaiter, Subscribe, Unsubscribe, Acquire, HandlerEmits,
             HandlerReturns, HandlerFails, ReportFailure, DeliverNested, EmitReturns,
             CancelDelivery, seenVars
    <2>2. ~own /\ r = s /\ ordinary'[s] = current.n /\ s \in todo
      BY <2>1 DEF CallSubscriber, TypeOK
    <2>3. QED
      BY <2>2 DEF OrderInv, NotPassed, TypeOK, Envelope
  <1>4. QED
    BY <1>2, <1>3, TypeCorrect, PTL DEF Spec, OrdinaryInOrder

-----------------------------------------------------------------------------
(* No event disappears.                                                    *)

\* A step that neither numbers, delivers nor drops an event.
LEMMA QuietStep ==
  ASSUME NothingVanishes,
         UNCHANGED <<seq, sent, lost, nested, due, got, current, todo>>
  PROVE  NothingVanishes'
  BY DEF NothingVanishes, NestedNumbers

\* An event that begins to be delivered is owed to all who are subscribed, and
\* the one before it is owed to nobody any more.
LEMMA BeginOwes ==
  ASSUME TypeOK, NothingVanishes, NEW e, NEW r, Begin(e, r), todo = {},
         UNCHANGED <<got, lost>>
  PROVE  \A s \in Subscriber : \A n \in due'[s] \ got'[s] :
           n \in lost' \/ (n = current'.n /\ s \in todo')
  <1>1. /\ current' = e /\ todo' = subscribers /\ got' = got /\ lost' = lost
        /\ \A s \in Subscriber :
             due'[s] = IF s \in subscribers THEN due[s] \cup {e.n} ELSE due[s]
    BY DEF Begin
  <1>2. \A s \in Subscriber : \A n \in due[s] \ got[s] : n \in lost
    BY DEF NothingVanishes
  <1>3. QED
    BY <1>1, <1>2

\* The induction step, one case per action.
LEMMA VanishStep ==
  ASSUME TypeOK, NothingLeftBehind, NothingVanishes, [Next]_vars
  PROVE  NothingVanishes'
  <1>1. /\ 1..seq \subseteq sent \cup lost \cup NestedNumbers
        /\ seq \in Nat /\ nested \in Seq(Envelope) /\ drained \in 0..MaxNested
    BY DEF NothingVanishes, TypeOK
  <1>2. 1..(seq + 1) = 1..seq \cup {seq + 1}
    BY <1>1
  <1>3. ASSUME NEW t \in Task, Request(t) \/ CancelWaiter(t)
        PROVE  NothingVanishes'
    BY <1>3, QuietStep DEF Request, CancelWaiter, deliveryVars, seenVars, sentVars
  <1>4. ASSUME NEW s \in Subscriber, Subscribe(s) \/ Unsubscribe(s)
        PROVE  NothingVanishes'
    BY <1>4, QuietStep DEF Subscribe, Unsubscribe, deliveryVars, seenVars, sentVars
  <1>5. ASSUME NEW s \in Subscriber, CallSubscriber(s)
        PROVE  NothingVanishes'
    <2>1. /\ UNCHANGED <<seq, sent, lost, nested, due, current>>
          /\ todo' = todo \ {s} /\ got' = [got EXCEPT ![s] = @ \cup {current.n}]
      BY <1>5 DEF CallSubscriber, sentVars
    <2>2. /\ got'[s] = got[s] \cup {current.n}
          /\ \A r \in Subscriber \ {s} : got'[r] = got[r]
      BY <2>1 DEF TypeOK
    <2>3. \A r \in Subscriber : \A n \in due'[r] \ got'[r] :
            n \in lost' \/ (n = current'.n /\ r \in todo')
      BY <2>1, <2>2 DEF NothingVanishes
    <2>4. QED
      BY <2>1, <2>3 DEF NothingVanishes, NestedNumbers
  <1>6. CASE Acquire
    <2>1. PICK kind \in Kind : Begin([n |-> seq + 1, kind |-> kind], FALSE)
      BY <1>6 DEF Acquire
    <2>2. UNCHANGED <<got, lost, nested>> /\ todo = {} /\ seq' = seq + 1
      BY <1>6 DEF Acquire, NothingLeftBehind, seenVars
    <2>3. sent' = sent \cup {seq + 1}
      BY <2>1 DEF Begin
    <2>4. 1..seq' \subseteq sent' \cup lost' \cup NestedNumbers'
      BY <1>1, <1>2, <2>2, <2>3 DEF NestedNumbers
    <2>5. QED
      BY <2>1, <2>2, <2>4, BeginOwes DEF NothingVanishes
  <1>7. CASE ReportFailure
    <2>1. Begin([n |-> seq + 1, kind |-> "warning"], TRUE)
      BY <1>7 DEF ReportFailure
    <2>2. UNCHANGED <<got, lost, nested>> /\ todo = {} /\ seq' = seq + 1
      BY <1>7 DEF ReportFailure, Delivered, seenVars
    <2>3. sent' = sent \cup {seq + 1}
      BY <2>1 DEF Begin
    <2>4. 1..seq' \subseteq sent' \cup lost' \cup NestedNumbers'
      BY <1>1, <1>2, <2>2, <2>3 DEF NestedNumbers
    <2>5. QED
      BY <2>1, <2>2, <2>4, BeginOwes DEF NothingVanishes
  <1>8. CASE DeliverNested
    <2>1. Begin(Head(nested), FALSE) /\ nested # <<>> /\ nested' = Tail(nested)
      BY <1>8 DEF DeliverNested, CanDrain
    <2>2. UNCHANGED <<seq, got, lost>> /\ todo = {}
      BY <1>8 DEF DeliverNested, Delivered, seenVars
    <2>3. sent' = sent \cup {nested[1].n}
      BY <1>1, <2>1, TailElements DEF Begin
    <2>4. NestedNumbers \subseteq {nested[1].n} \cup NestedNumbers'
      <3> SUFFICES ASSUME NEW i \in 1..Len(nested), i # 1
                   PROVE  nested[i].n \in NestedNumbers'
        BY DEF NestedNumbers
      <3>1. Len(nested') = Len(nested) - 1 /\ Len(nested) \in Nat
        BY <1>1, <2>1, TailElements
      <3>2. i - 1 \in 1..Len(nested') /\ (i - 1) + 1 = i
        BY <3>1
      <3>3. nested'[i - 1] = nested[i]
        BY <1>1, <2>1, <3>2, TailElements
      <3>4. QED
        BY <3>2, <3>3 DEF NestedNumbers
    <2>5. 1..seq' \subseteq sent' \cup lost' \cup NestedNumbers'
      BY <1>1, <2>2, <2>3, <2>4
    <2>6. QED
      BY <2>1, <2>2, <2>5, BeginOwes DEF NothingVanishes
  <1>9. CASE HandlerEmits
    <2>1. PICK kind \in Kind : nested' = Append(nested, [n |-> seq + 1, kind |-> kind])
      BY <1>9 DEF HandlerEmits
    <2>2. seq' = seq + 1 /\ UNCHANGED <<sent, lost, due, got, current, todo>>
      BY <1>9 DEF HandlerEmits, seenVars, sentVars
    <2>3. /\ Len(nested') = Len(nested) + 1 /\ Len(nested) \in Nat
          /\ \A i \in 1..Len(nested) : nested'[i] = nested[i]
          /\ nested'[Len(nested) + 1].n = seq + 1
      <3>1. [n |-> seq + 1, kind |-> kind] \in Envelope
        BY <1>1 DEF Envelope
      <3>2. QED
        BY <1>1, <2>1, <3>1, AppendElements
    <2>4. NestedNumbers \cup {seq + 1} \subseteq NestedNumbers'
      <3>1. \A i \in 1..Len(nested) : i \in 1..Len(nested') /\ nested'[i].n = nested[i].n
        BY <2>3
      <3>2. Len(nested) + 1 \in 1..Len(nested') /\ nested'[Len(nested) + 1].n = seq + 1
        BY <2>3
      <3>3. QED
        BY <3>1, <3>2 DEF NestedNumbers
    <2>5. 1..seq' \subseteq sent' \cup lost' \cup NestedNumbers'
      BY <1>1, <1>2, <2>2, <2>4
    <2>6. QED
      BY <2>2, <2>5 DEF NothingVanishes
  <1>10. CASE HandlerReturns \/ HandlerFails
    BY <1>10, QuietStep DEF HandlerReturns, HandlerFails, seenVars, sentVars
  <1>11. CASE EmitReturns
    <2>1. /\ UNCHANGED <<seq, sent, due, got>> /\ todo = {} /\ lost \subseteq lost'
      BY <1>11 DEF EmitReturns, Delivered, seenVars, sentVars
    <2>2. NestedNumbers \subseteq lost'
      <3>1. CASE drained = MaxNested
        BY <1>11, <3>1 DEF EmitReturns
      <3>2. CASE drained # MaxNested
        <4>1. nested = <<>>
          BY <1>1, <1>11, <3>2, MaxNestedAssumption DEF EmitReturns, CanDrain
        <4>2. QED
          BY <4>1 DEF NestedNumbers
      <3>3. QED
        BY <3>1, <3>2
    <2>3. QED
      BY <1>1, <2>1, <2>2 DEF NothingVanishes
  <1>12. CASE CancelDelivery
    <2>1. /\ UNCHANGED <<seq, sent, due, got>>
          /\ lost' = lost \cup NestedNumbers \cup {current.n}
      BY <1>12 DEF CancelDelivery, seenVars, sentVars
    <2>2. QED
      BY <1>1, <2>1 DEF NothingVanishes
  <1>13. CASE UNCHANGED vars
    BY <1>13, QuietStep DEF vars, deliveryVars, seenVars, sentVars
  <1>14. QED
    BY <1>3, <1>4, <1>5, <1>6, <1>7, <1>8, <1>9, <1>10, <1>11, <1>12, <1>13 DEF Next

\* Every number that was given out was delivered, waits to be, or was given up
\* at the cap or by a cancellation; nobody subscribed misses a delivery that
\* was not cancelled (emit, _deliver).
THEOREM NoneVanishes == Spec => []NothingVanishes
  <1>1. Init => NothingVanishes
    BY DEF Init, NothingVanishes
  <1>2. QED
    BY <1>1, VanishStep, TypeCorrect, LeavesNothing, PTL DEF Spec
=============================================================================
