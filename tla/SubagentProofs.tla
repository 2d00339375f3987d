--------------------------- MODULE SubagentProofs ---------------------------
(***************************************************************************)
(* What holds of SubagentDispatch for every number of profiles, slots,     *)
(* requests and attempts, and every threshold and cooldown: its types, the *)
(* balance of the slots, the probe behind every half-open circuit, and the *)
(* threshold at which a circuit trips.                                     *)
(***************************************************************************)
EXTENDS SubagentDispatch, FiniteSetTheorems, TLAPS

\* The breaker's operations stay within its entries.
LEMMA EntryOps ==
  ASSUME NEW e \in Entry
  PROVE  Admitting(e) \in Entry /\ RecordSuccess(e) \in Entry /\ RecordFailure(e) \in Entry
  <1>1. 0 \in 0..FailureThreshold /\ 0 \in 0..ResetTimeout
    BY BudgetAssumption
  <1>2. Admitting(e) \in Entry
    BY <1>1 DEF Admitting, Entry, State
  <1>3. RecordSuccess(e) \in Entry
    BY <1>1 DEF RecordSuccess, Entry, State
  <1>4. UpTo(FailureThreshold, e.failures + 1) \in 0..FailureThreshold
    BY BudgetAssumption DEF UpTo, Entry
  <1>5. RecordFailure(e) \in Entry
    BY <1>1, <1>4 DEF RecordFailure, Entry, State
  <1>6. QED
    BY <1>2, <1>3, <1>5

\* What each operation makes of the fields the invariants read.
LEMMA EntryFacts ==
  ASSUME NEW e \in Entry
  PROVE  /\ e.state = "closed" => Admitting(e) = e
         /\ e.state # "closed" => /\ Admitting(e).state = "half_open"
                                  /\ Admitting(e).probing
                                  /\ Admitting(e).failures = e.failures
         /\ RecordSuccess(e).state = "closed" /\ RecordSuccess(e).failures = 0
         /\ RecordFailure(e).state # "half_open"
         /\ e.state = "half_open" => /\ RecordFailure(e).state = "open"
                                     /\ RecordFailure(e).failures = e.failures
         /\ e.state # "half_open" =>
              /\ RecordFailure(e).failures = UpTo(FailureThreshold, e.failures + 1)
              /\ RecordFailure(e).state =
                   IF UpTo(FailureThreshold, e.failures + 1) = FailureThreshold
                     THEN "open" ELSE e.state
  BY DEF Entry, Admitting, RecordSuccess, RecordFailure

-----------------------------------------------------------------------------
(* Types and slots.  They are proved together: that a slot given back does *)
(* not exceed the limit follows from the balance.                          *)

\* The types of everything but the number of free slots.
Typed ==
  /\ breaker \in [Profile -> Entry]
  /\ batch \in Seq(Profile \cup {Unknown})
  /\ calls \in [1..Len(batch) -> Call]
  /\ slots \in Nat
  /\ cancel \in BOOLEAN
  /\ streak \in [Profile -> 0..FailureThreshold]

\* A request that runs or is backing off has a registered profile, and one
\* that is not at its end has an attempt left.
Known ==
  /\ \A i \in InPhase({"running", "backoff"}) : batch[i] \in Profile
  /\ \A i \in InPhase({"waiting", "running", "backoff"}) : calls[i].attempts < MaxAttempts

\* The steps of one call: it is changed alone, and only these phases follow.
LEMMA OneCall ==
  ASSUME Typed, NEW i \in DOMAIN calls, NEW c \in Call,
         calls' = [calls EXCEPT ![i] = c], batch' = batch
  PROVE  /\ calls' \in [1..Len(batch') -> Call]
         /\ DOMAIN calls' = DOMAIN calls
         /\ calls'[i] = c
         /\ \A j \in DOMAIN calls : j # i => calls'[j] = calls[j]
  BY DEF Typed

\* A batch is a finite set of calls.
LEMMA FiniteHolding ==
  ASSUME Typed
  PROVE  /\ IsFiniteSet(Holding)
         /\ Cardinality(Holding) \in Nat
         /\ \A i \in DOMAIN calls : i \in Holding => Cardinality(Holding) > 0
  <1>1. DOMAIN calls = 1..Len(batch) /\ Len(batch) \in Nat
    BY DEF Typed
  <1>2. IsFiniteSet(1..Len(batch))
    BY <1>1, FS_Interval
  <1>3. Holding \subseteq 1..Len(batch)
    BY <1>1 DEF Holding, InPhase
  <1>4. IsFiniteSet(Holding) /\ Cardinality(Holding) \in Nat
    BY <1>2, <1>3, FS_Subset, FS_CardinalityType
  <1>5. Holding # {} => Cardinality(Holding) # 0
    BY <1>4, FS_EmptySet
  <1>6. QED
    BY <1>4, <1>5

\* Taking a slot, keeping it and giving it back.
LEMMA TakenSlot ==
  ASSUME Typed, SlotsBalanced, NEW i \in DOMAIN calls, NEW c \in Call,
         calls[i].phase = "waiting", c.phase \in {"running", "reporting"}, slots > 0,
         calls' = [calls EXCEPT ![i] = c], batch' = batch, slots' = slots - 1
  PROVE  SlotsBalanced' /\ slots' \in Nat
  <1>1. /\ DOMAIN calls' = DOMAIN calls /\ calls'[i] = c
        /\ \A j \in DOMAIN calls : j # i => calls'[j] = calls[j]
    BY OneCall
  <1>2. Holding' = Holding \cup {i} /\ i \notin Holding
    BY <1>1 DEF Holding, InPhase
  <1>3. Cardinality(Holding') = Cardinality(Holding) + 1
    BY <1>2, FiniteHolding, FS_AddElement
  <1>4. slots \in Nat /\ Cardinality(Holding) \in Nat
    BY FiniteHolding DEF Typed
  <1>5. QED
    BY <1>3, <1>4 DEF SlotsBalanced

\* A step after which the same calls hold a slot keeps the balance.
LEMMA KeptSlot ==
  ASSUME Typed, SlotsBalanced, NEW i \in DOMAIN calls, NEW c \in Call,
         calls[i].phase \in {"running", "backoff"},
         c.phase \in {"running", "backoff", "reporting"},
         calls' = [calls EXCEPT ![i] = c], batch' = batch, slots' = slots
  PROVE  SlotsBalanced' /\ slots' \in Nat
  <1>1. /\ DOMAIN calls' = DOMAIN calls /\ calls'[i] = c
        /\ \A j \in DOMAIN calls : j # i => calls'[j] = calls[j]
    BY OneCall
  <1>2. Holding' = Holding
    BY <1>1 DEF Holding, InPhase
  <1>3. QED
    BY <1>2 DEF SlotsBalanced, Typed

\* A call that gives its slot back keeps the balance.
LEMMA GivenBackSlot ==
  ASSUME Typed, SlotsBalanced, NEW i \in DOMAIN calls, NEW c \in Call,
         calls[i].phase = "reporting", c.phase = "ended",
         calls' = [calls EXCEPT ![i] = c], batch' = batch, slots' = slots + 1
  PROVE  SlotsBalanced' /\ slots' \in Nat
  <1>1. /\ DOMAIN calls' = DOMAIN calls /\ calls'[i] = c
        /\ \A j \in DOMAIN calls : j # i => calls'[j] = calls[j]
    BY OneCall
  <1>2. Holding' = Holding \ {i} /\ i \in Holding
    BY <1>1 DEF Holding, InPhase
  <1>3. Cardinality(Holding') = Cardinality(Holding) - 1
    BY <1>2, FiniteHolding, FS_RemoveElement
  <1>4. slots \in Nat /\ Cardinality(Holding) \in Nat
    BY FiniteHolding DEF Typed
  <1>5. QED
    BY <1>3, <1>4 DEF SlotsBalanced

SlotInv == Typed /\ Known /\ SlotsBalanced

\* What the steps that do not touch the circuits leave alone.
LEMMA OtherTypes ==
  ASSUME Typed, UNCHANGED <<breaker, streak>>, batch' = batch, cancel' \in BOOLEAN,
         calls' \in [1..Len(batch') -> Call], slots' \in Nat
  PROVE  Typed'
  BY DEF Typed

\* Every step keeps the balance of slots.
LEMMA SlotStep ==
  ASSUME SlotInv, [Next]_vars
  PROVE  SlotInv'
  <1> USE DEF SlotInv
  <1>0. DOMAIN calls = Index /\ calls \in [Index -> Call]
    BY DEF Typed, Index
  <1>1. ASSUME NEW requests \in Batches, Dispatch(requests)
        PROVE  SlotInv'
    <2>1. Waiting \in Call /\ Ended \in Call
      BY BudgetAssumption DEF Waiting, Ended, Call, Phase
    <2>2. batch' \in Seq(Profile \cup {Unknown}) /\ calls' \in [1..Len(batch') -> Call]
      BY <1>1, <2>1, BatchesAssumption DEF Dispatch
    <2>3. slots' = MaxConcurrent /\ MaxConcurrent \in Nat
      BY <1>1, BudgetAssumption DEF Dispatch
    <2>4. UNCHANGED <<breaker, streak>>
      BY <1>1 DEF Dispatch
    <2>5. cancel' \in BOOLEAN
      BY <1>1 DEF Dispatch
    <2>6. Typed'
      BY <2>2, <2>3, <2>4, <2>5 DEF Typed
    <2>7. \A i \in DOMAIN calls' : calls'[i].phase \in {"waiting", "ended"}
      BY <1>1 DEF Dispatch, Waiting, Ended
    <2>8. Known'
      <3>1. \A i \in DOMAIN calls' : calls'[i].attempts < MaxAttempts
        BY <1>1, BudgetAssumption DEF Dispatch, Waiting, Ended
      <3>2. QED
        BY <2>7, <3>1 DEF Known, InPhase
    <2>9. Holding' = {}
      BY <2>7 DEF Holding, InPhase
    <2>10. SlotsBalanced'
      BY <2>3, <2>9, FS_EmptySet DEF SlotsBalanced
    <2>11. QED
      BY <2>6, <2>8, <2>10
  <1>2. ASSUME NEW i \in Index, Refuse(i)
        PROVE  SlotInv'
    <2> DEFINE c == [calls[i] EXCEPT !.phase = "reporting"]
    <2>1. c \in Call /\ c.phase = "reporting"
      BY <1>0 DEF Call, Phase
    <2>2. calls' = [calls EXCEPT ![i] = c] /\ batch' = batch /\ slots' = slots - 1 /\ slots > 0
      BY <1>2 DEF Refuse, TakeSlot
    <2>3. calls[i].phase = "waiting"
      BY <1>2 DEF Refuse, TakeSlot, InPhase
    <2>4. i \in DOMAIN calls
      BY <1>0
    <2> HIDE DEF c
    <2>5. SlotsBalanced' /\ slots' \in Nat
      BY <2>1, <2>2, <2>3, <2>4, TakenSlot
    <2>6. UNCHANGED <<breaker, streak>> /\ cancel' = cancel
      BY <1>2 DEF Refuse
    <2>7. /\ calls' \in [1..Len(batch') -> Call]
          /\ DOMAIN calls' = DOMAIN calls /\ calls'[i] = c
          /\ \A j \in DOMAIN calls : j # i => calls'[j] = calls[j]
      BY <2>1, <2>2, <2>4, OneCall
    <2>8. cancel \in BOOLEAN
      BY DEF Typed
    <2>9. Typed'
      BY <2>2, <2>5, <2>6, <2>7, <2>8, OtherTypes
    <2>10. Known'
      BY <2>1, <2>2, <2>7 DEF Known, InPhase
    <2>11. QED
      BY <2>5, <2>9, <2>10
  <1>3. ASSUME NEW i \in Index, Start(i)
        PROVE  SlotInv'
    <2> DEFINE c == [calls[i] EXCEPT !.phase = "running",
                                     !.probe = breaker[batch[i]].state # "closed"]
    <2>1. c \in Call /\ c.phase = "running" /\ c.attempts = calls[i].attempts
      BY <1>0 DEF Call, Phase
    <2>2. calls' = [calls EXCEPT ![i] = c] /\ batch' = batch /\ slots' = slots - 1 /\ slots > 0
      BY <1>3 DEF Start, TakeSlot
    <2>3. calls[i].phase = "waiting"
      BY <1>3 DEF Start, TakeSlot, InPhase
    <2>4. i \in DOMAIN calls
      BY <1>0
    <2> HIDE DEF c
    <2>5. SlotsBalanced' /\ slots' \in Nat
      BY <2>1, <2>2, <2>3, <2>4, TakenSlot
    <2>6. batch[i] \in Profile
      BY <1>3, <1>0 DEF Start, Typed, Index
    <2>7. breaker' = [breaker EXCEPT ![batch[i]] = Admitting(breaker[batch[i]])]
      BY <1>3 DEF Start
    <2>8. breaker' \in [Profile -> Entry]
      <3>1. breaker \in [Profile -> Entry] /\ breaker[batch[i]] \in Entry
        BY <2>6 DEF Typed
      <3>2. Admitting(breaker[batch[i]]) \in Entry
        BY <3>1, EntryOps
      <3>3. QED
        BY <2>7, <3>1, <3>2
    <2>9. /\ calls' \in [1..Len(batch') -> Call]
          /\ DOMAIN calls' = DOMAIN calls /\ calls'[i] = c
          /\ \A j \in DOMAIN calls : j # i => calls'[j] = calls[j]
      BY <2>1, <2>2, <2>4, OneCall
    <2>10. UNCHANGED <<streak, cancel>>
      BY <1>3 DEF Start
    <2>11. Typed'
      BY <2>2, <2>5, <2>8, <2>9, <2>10 DEF Typed
    <2>12. Known'
      BY <2>1, <2>2, <2>3, <2>4, <2>6, <2>9 DEF Known, InPhase
    <2>13. QED
      BY <2>5, <2>11, <2>12
  <1>4. ASSUME NEW i \in Index, BackOff(i) \/ Retry(i)
        PROVE  SlotInv'
    <2>1. PICK c \in Call : /\ c.phase \in {"running", "backoff"}
                         /\ calls' = [calls EXCEPT ![i] = c]
                         /\ c.attempts < MaxAttempts
      <3>1. CASE BackOff(i)
        <4> DEFINE c == [calls[i] EXCEPT !.phase = "backoff", !.attempts = calls[i].attempts + 1]
        <4>1. calls[i].attempts + 1 \in 0..MaxAttempts
          BY <1>0, <3>1, BudgetAssumption DEF BackOff, Retried, Call
        <4>2. c \in Call /\ c.phase = "backoff"
          BY <1>0, <4>1 DEF Call, Phase
        <4>3. calls' = [calls EXCEPT ![i] = c]
          BY <3>1 DEF BackOff
        <4>4. c.attempts < MaxAttempts
          BY <1>0, <3>1, BudgetAssumption DEF BackOff, Retried, Call
        <4>5. QED
          BY <4>2, <4>3, <4>4
      <3>2. CASE Retry(i)
        <4> DEFINE c == [calls[i] EXCEPT !.phase = "running"]
        <4>1. c \in Call /\ c.phase = "running"
          BY <1>0 DEF Call, Phase
        <4>2. calls' = [calls EXCEPT ![i] = c]
          BY <3>2 DEF Retry
        <4>3. c.attempts < MaxAttempts
          BY <1>0, <3>2 DEF Retry, Known, InPhase, Call
        <4>4. QED
          BY <4>1, <4>2, <4>3
      <3>3. QED
        BY <1>4, <3>1, <3>2
    <2>2. UNCHANGED <<breaker, streak>> /\ UNCHANGED <<batch, slots, cancel>>
      BY <1>4 DEF BackOff, Retry
    <2>3. i \in DOMAIN calls /\ calls[i].phase \in {"running", "backoff"}
      BY <1>0, <1>4 DEF BackOff, Retry, AttemptOutcome, InPhase
    <2>4. SlotsBalanced' /\ slots' \in Nat
      BY <2>1, <2>2, <2>3, KeptSlot
    <2>5. /\ calls' \in [1..Len(batch') -> Call]
          /\ DOMAIN calls' = DOMAIN calls /\ calls'[i] = c
          /\ \A j \in DOMAIN calls : j # i => calls'[j] = calls[j]
      BY <2>1, <2>2, <2>3, OneCall
    <2>6. cancel \in BOOLEAN
      BY DEF Typed
    <2>7. Typed'
      BY <2>2, <2>4, <2>5, <2>6, OtherTypes
    <2>8. Known'
      BY <2>1, <2>2, <2>3, <2>5 DEF Known, InPhase
    <2>9. QED
      BY <2>4, <2>7, <2>8
  <1>5. ASSUME NEW i \in Index, NEW outcome \in Outcome, Finish(i, outcome)
        PROVE  SlotInv'
    <2> DEFINE c == [calls[i] EXCEPT !.phase = "reporting", !.attempts = calls[i].attempts + 1]
               p == batch[i]
    <2>1. i \in DOMAIN calls /\ calls[i].phase = "running" /\ p \in Profile
      BY <1>0, <1>5 DEF Finish, AttemptOutcome, InPhase, Known
    <2>2. calls[i].attempts + 1 \in 0..MaxAttempts
      BY <1>0, <2>1, BudgetAssumption DEF Known, InPhase, Call
    <2>3. c \in Call /\ c.phase = "reporting"
      BY <1>0, <2>2 DEF Call, Phase
    <2>4. calls' = [calls EXCEPT ![i] = c] /\ UNCHANGED <<batch, slots, cancel>>
      BY <1>5 DEF Finish
    <2>5. breaker' \in [Profile -> Entry]
      <3>1. breaker \in [Profile -> Entry] /\ breaker[p] \in Entry
        BY <2>1 DEF Typed
      <3>2. RecordSuccess(breaker[p]) \in Entry /\ RecordFailure(breaker[p]) \in Entry
        BY <3>1, EntryOps
      <3>3. breaker' = [breaker EXCEPT ![p] = IF outcome = "completed"
                          THEN RecordSuccess(breaker[p]) ELSE RecordFailure(breaker[p])]
        BY <1>5 DEF Finish
      <3>4. QED
        BY <3>1, <3>2, <3>3
    <2>6. streak' \in [Profile -> 0..FailureThreshold]
      <3>1. streak[p] \in 0..FailureThreshold
        BY <2>1 DEF Typed
      <3>2. \A n \in 0..FailureThreshold : UpTo(FailureThreshold, n + 1) \in 0..FailureThreshold
        BY BudgetAssumption DEF UpTo
      <3>3. 0 \in 0..FailureThreshold
        BY BudgetAssumption
      <3>4. PICK m \in 0..FailureThreshold : streak' = [streak EXCEPT ![p] = m]
        BY <1>5, <3>1, <3>2, <3>3 DEF Finish
      <3>5. QED
        BY <3>4 DEF Typed
    <2> HIDE DEF c
    <2>7. SlotsBalanced' /\ slots' \in Nat
      BY <2>1, <2>3, <2>4, KeptSlot
    <2>8. /\ calls' \in [1..Len(batch') -> Call]
          /\ DOMAIN calls' = DOMAIN calls /\ calls'[i] = c
          /\ \A j \in DOMAIN calls : j # i => calls'[j] = calls[j]
      BY <2>1, <2>3, <2>4, OneCall
    <2>9. Typed'
      BY <2>4, <2>5, <2>6, <2>7, <2>8 DEF Typed
    <2>10. Known'
      BY <2>3, <2>4, <2>8 DEF Known, InPhase
    <2>11. QED
      BY <2>7, <2>9, <2>10
  <1>6. ASSUME NEW i \in Index, Report(i)
        PROVE  SlotInv'
    <2>1. i \in DOMAIN calls /\ calls[i].phase = "reporting"
      BY <1>0, <1>6 DEF Report, InPhase
    <2>2. Ended \in Call /\ Ended.phase = "ended"
      BY BudgetAssumption DEF Ended, Call, Phase
    <2>3. calls' = [calls EXCEPT ![i] = Ended] /\ batch' = batch /\ slots' = slots + 1
      BY <1>6 DEF Report
    <2>4. SlotsBalanced' /\ slots' \in Nat
      BY <2>1, <2>2, <2>3, GivenBackSlot
    <2>5. /\ calls' \in [1..Len(batch') -> Call]
          /\ DOMAIN calls' = DOMAIN calls /\ calls'[i] = Ended
          /\ \A j \in DOMAIN calls : j # i => calls'[j] = calls[j]
      BY <2>1, <2>2, <2>3, OneCall
    <2>6. UNCHANGED <<breaker, streak>> /\ cancel' = cancel
      BY <1>6 DEF Report
    <2>7. cancel \in BOOLEAN
      BY DEF Typed
    <2>8. Typed'
      BY <2>3, <2>4, <2>5, <2>6, <2>7, OtherTypes
    <2>9. Known'
      BY <2>2, <2>3, <2>5 DEF Known, InPhase
    <2>10. QED
      BY <2>4, <2>8, <2>9
  <1>7. CASE Return
    <2>1. Holding = {}
      BY <1>7 DEF Return, Holding, InPhase
    <2>2. Len(batch') = 0 /\ calls' = <<>> /\ slots' = slots
      BY <1>7 DEF Return
    <2>3. calls' \in [1..Len(batch') -> Call] /\ DOMAIN calls' = {}
      BY <2>2
    <2>4. batch' \in Seq(Profile \cup {Unknown})
      BY <1>7 DEF Return
    <2>5. Holding' = {}
      BY <2>3 DEF Holding, InPhase
    <2>6. SlotsBalanced'
      BY <2>1, <2>2, <2>5 DEF SlotsBalanced
    <2>7. Known'
      BY <2>3 DEF Known, InPhase
    <2>8. UNCHANGED <<breaker, slots, cancel, streak>>
      BY <1>7 DEF Return
    <2>9. Typed'
      BY <2>3, <2>4, <2>8 DEF Typed
    <2>10. QED
      BY <2>6, <2>7, <2>9
  <1>8. CASE Cancel
    <2>1. UNCHANGED <<breaker, batch, calls, slots, streak>>
      BY <1>8 DEF Cancel
    <2>2. cancel' \in BOOLEAN
      BY <1>8 DEF Cancel
    <2>3. Typed'
      BY <2>1, <2>2 DEF Typed
    <2>4. QED
      BY <2>1, <2>3 DEF Known, SlotsBalanced, Holding, InPhase
  <1>9. CASE Tick
    <2>1. UNCHANGED <<batch, calls, slots, cancel, streak>>
      BY <1>9 DEF Tick
    <2>2. breaker' \in [Profile -> Entry]
      <3>1. \A n \in 0..ResetTimeout : UpTo(ResetTimeout, n + 1) \in 0..ResetTimeout
        BY BudgetAssumption DEF UpTo
      <3>2. \A e \in Entry : [e EXCEPT !.age = UpTo(ResetTimeout, e.age + 1)] \in Entry
        BY <3>1 DEF Entry
      <3>3. breaker \in [Profile -> Entry]
        BY DEF Typed
      <3>4. breaker' = [p \in Profile |->
                         IF breaker[p].state = "open"
                           THEN [breaker[p] EXCEPT !.age = UpTo(ResetTimeout, breaker[p].age + 1)]
                           ELSE breaker[p]]
        BY <1>9 DEF Tick
      <3>5. QED
        BY <3>2, <3>3, <3>4
    <2>3. Typed'
      BY <2>1, <2>2 DEF Typed
    <2>4. QED
      BY <2>1, <2>3 DEF Known, SlotsBalanced, Holding, InPhase
  <1>10. CASE UNCHANGED vars
    BY <1>10 DEF vars, Typed, Known, SlotsBalanced, Holding, InPhase
  <1>11. QED
    BY <1>1, <1>2, <1>3, <1>4, <1>5, <1>6, <1>7, <1>8, <1>9, <1>10 DEF Next

\* Initially nothing is dispatched and all slots are free.
LEMMA SlotInit == Init => SlotInv
  <1> SUFFICES ASSUME Init PROVE SlotInv
    OBVIOUS
  <1>1. DOMAIN calls = {} /\ Len(batch) = 0 /\ calls \in [1..Len(batch) -> Call]
    BY DEF Init
  <1>2. batch \in Seq(Profile \cup {Unknown})
    BY DEF Init
  <1>3. slots = MaxConcurrent /\ slots \in Nat
    BY BudgetAssumption DEF Init
  <1>4. cancel \in BOOLEAN
    BY DEF Init
  <1>5. 0 \in 0..FailureThreshold /\ 0 \in 0..ResetTimeout
    BY BudgetAssumption
  <1>6. /\ breaker \in [Profile -> Entry]
        /\ streak \in [Profile -> 0..FailureThreshold]
    BY <1>5 DEF Init, Entry, State
  <1>7. Typed
    BY <1>1, <1>2, <1>3, <1>4, <1>6 DEF Typed
  <1>8. Known
    BY <1>1 DEF Known, InPhase
  <1>9. Holding = {}
    BY <1>1 DEF Holding, InPhase
  <1>10. SlotsBalanced
    BY <1>3, <1>9, FS_EmptySet DEF SlotsBalanced
  <1>11. QED
    BY <1>7, <1>8, <1>10 DEF SlotInv

\* The balance of slots holds in every reachable state.
LEMMA SlotInvariant == Spec => []SlotInv
  BY SlotInit, SlotStep, PTL DEF Spec

\* The types of the dispatcher: in particular no history of retries, refusals
\* and cancellations makes more free slots than the limit.
THEOREM TypeCorrect == Spec => []TypeOK
  <1>1. SlotInv => TypeOK
    <2> SUFFICES ASSUME SlotInv PROVE TypeOK
      OBVIOUS
    <2>1. slots \in Nat /\ Cardinality(Holding) \in Nat
      BY FiniteHolding DEF SlotInv, Typed
    <2>2. slots \in 0..MaxConcurrent
      BY <2>1, BudgetAssumption DEF SlotInv, SlotsBalanced
    <2>3. QED
      BY <2>2 DEF SlotInv, Typed, TypeOK
  <1>2. QED
    BY <1>1, SlotInvariant, PTL

\* At most MaxConcurrent sub-agents are at work, and every path through a call
\* (refused, retried, failed, cancelled) gives its slot back exactly once.
THEOREM SlotsNeverLeak == Spec => []SlotsBalanced
  <1>1. SlotInv => SlotsBalanced
    BY DEF SlotInv
  <1>2. QED
    BY <1>1, SlotInvariant, PTL

-----------------------------------------------------------------------------
(* The circuit.                                                            *)

\* What the threshold invariant needs: the breaker's own counter is the streak
\* an observer counts, also after a failed probe, which the code does not count.
Counted == \A p \in Profile : breaker[p].failures = streak[p]

CircuitInv == Counted /\ TripsAtThreshold /\ HalfOpenIsProbed

\* The circuits of the profiles change in three steps only.
LEMMA SameCircuits ==
  ASSUME SlotInv, CircuitInv, UNCHANGED <<breaker, streak, batch>>,
         DOMAIN calls' = DOMAIN calls,
         \A j \in InPhase({"running", "backoff"}) :
           calls'[j].phase \in {"running", "backoff"} /\ calls'[j].probe = calls[j].probe
  PROVE  CircuitInv'
  <1>1. Counted' /\ TripsAtThreshold'
    BY DEF CircuitInv, Counted, TripsAtThreshold
  <1>2. HalfOpenIsProbed'
    BY DEF CircuitInv, HalfOpenIsProbed, InFlight, InPhase
  <1>3. QED
    BY <1>1, <1>2 DEF CircuitInv

\* With no call in flight no circuit is half-open.
LEMMA NobodyHalfOpen ==
  ASSUME CircuitInv, InPhase({"running", "backoff"}) = {}
  PROVE  \A p \in Profile : breaker[p].state # "half_open"
  BY DEF CircuitInv, HalfOpenIsProbed, InFlight

\* Every step keeps the invariant of the circuits.
LEMMA CircuitStep ==
  ASSUME SlotInv, SlotInv', CircuitInv, [Next]_vars
  PROVE  CircuitInv'
  <1>0. /\ breaker \in [Profile -> Entry] /\ DOMAIN calls = Index
        /\ calls \in [Index -> Call] /\ streak \in [Profile -> 0..FailureThreshold]
    BY DEF SlotInv, Typed, Index
  <1>1. CASE Return \/ \E requests \in Batches : Dispatch(requests)
    <2>1. InPhase({"running", "backoff"}) = {}
      <3>1. CASE Return
        BY <3>1 DEF Return, InPhase
      <3>2. CASE \E requests \in Batches : Dispatch(requests)
        <4>1. Len(batch) = 0
          BY <3>2 DEF Dispatch
        <4>2. QED
          BY <1>0, <4>1 DEF Index, InPhase
      <3>3. QED
        BY <1>1, <3>1, <3>2
    <2>2. UNCHANGED <<breaker, streak>>
      BY <1>1 DEF Return, Dispatch
    <2>3. \A p \in Profile : breaker'[p].state # "half_open"
      BY <2>1, <2>2, NobodyHalfOpen
    <2>4. QED
      BY <2>2, <2>3 DEF CircuitInv, Counted, TripsAtThreshold, HalfOpenIsProbed
  <1>2. ASSUME NEW i \in Index, Refuse(i) \/ BackOff(i) \/ Retry(i) \/ Report(i)
        PROVE  CircuitInv'
    <2>1. UNCHANGED <<breaker, streak, batch>>
      BY <1>2 DEF Refuse, BackOff, Retry, Report
    <2>2. CASE Refuse(i)
      <3>1. calls[i].phase = "waiting" /\ calls' = [calls EXCEPT ![i].phase = "reporting"]
        BY <2>2 DEF Refuse, TakeSlot, InPhase
      <3>2. /\ DOMAIN calls' = DOMAIN calls
            /\ \A j \in InPhase({"running", "backoff"}) :
                 calls'[j].phase \in {"running", "backoff"} /\ calls'[j].probe = calls[j].probe
        BY <1>0, <3>1 DEF InPhase
      <3>3. QED
        BY <2>1, <3>2, SameCircuits
    <2>3. CASE BackOff(i)
      <3>1. calls' = [calls EXCEPT ![i].phase = "backoff", ![i].attempts = @ + 1]
        BY <2>3 DEF BackOff
      <3>2. /\ DOMAIN calls' = DOMAIN calls
            /\ \A j \in InPhase({"running", "backoff"}) :
                 calls'[j].phase \in {"running", "backoff"} /\ calls'[j].probe = calls[j].probe
        BY <1>0, <3>1 DEF InPhase, Call
      <3>3. QED
        BY <2>1, <3>2, SameCircuits
    <2>4. CASE Retry(i)
      <3>1. calls' = [calls EXCEPT ![i].phase = "running"]
        BY <2>4 DEF Retry
      <3>2. /\ DOMAIN calls' = DOMAIN calls
            /\ \A j \in InPhase({"running", "backoff"}) :
                 calls'[j].phase \in {"running", "backoff"} /\ calls'[j].probe = calls[j].probe
        BY <1>0, <3>1 DEF InPhase, Call
      <3>3. QED
        BY <2>1, <3>2, SameCircuits
    <2>5. CASE Report(i)
      <3>1. calls[i].phase = "reporting" /\ calls' = [calls EXCEPT ![i] = Ended]
        BY <2>5 DEF Report, InPhase
      <3>2. /\ DOMAIN calls' = DOMAIN calls
            /\ \A j \in InPhase({"running", "backoff"}) :
                 calls'[j].phase \in {"running", "backoff"} /\ calls'[j].probe = calls[j].probe
        BY <1>0, <3>1 DEF InPhase
      <3>3. QED
        BY <2>1, <3>2, SameCircuits
    <2>6. QED
      BY <1>2, <2>2, <2>3, <2>4, <2>5
  <1>3. ASSUME NEW i \in Index, Start(i)
        PROVE  CircuitInv'
    <2> DEFINE q == batch[i]
               e == breaker[q]
    <2>1. q \in Profile /\ e \in Entry
      BY <1>0, <1>3 DEF Start, SlotInv, Typed, Index
    <2>2. /\ breaker' = [breaker EXCEPT ![q] = Admitting(e)]
          /\ calls' = [calls EXCEPT ![i].phase = "running", ![i].probe = e.state # "closed"]
          /\ calls[i].phase = "waiting"
          /\ UNCHANGED <<batch, streak>>
      BY <1>3 DEF Start, TakeSlot, InPhase
    <2>3. /\ e.state = "closed" => Admitting(e) = e
          /\ e.state # "closed" => /\ Admitting(e).state = "half_open"
                                   /\ Admitting(e).probing
                                   /\ Admitting(e).failures = e.failures
      BY <2>1, EntryFacts
    <2>4. /\ breaker'[q] = Admitting(e)
          /\ \A p \in Profile : p # q => breaker'[p] = breaker[p]
      BY <1>0, <2>1, <2>2
    <2>5. Counted'
      BY <2>1, <2>2, <2>3, <2>4 DEF CircuitInv, Counted
    <2>6. TripsAtThreshold'
      BY <2>1, <2>2, <2>3, <2>4 DEF CircuitInv, TripsAtThreshold
    <2>7. /\ DOMAIN calls' = DOMAIN calls
          /\ calls'[i].phase = "running" /\ calls'[i].probe = (e.state # "closed")
          /\ \A j \in DOMAIN calls : j # i => calls'[j] = calls[j]
      BY <1>0, <2>2 DEF Call
    <2>8. HalfOpenIsProbed'
      <3> SUFFICES ASSUME NEW p \in Profile, breaker'[p].state = "half_open"
                   PROVE  /\ breaker'[p].probing
                          /\ \E j \in InFlight(p)' : calls'[j].probe
        BY DEF HalfOpenIsProbed
      <3>1. CASE p = q /\ e.state # "closed"
        <4>1. i \in InFlight(p)' /\ calls'[i].probe
          BY <1>0, <2>2, <2>7, <3>1 DEF InFlight, InPhase
        <4>2. QED
          BY <2>3, <2>4, <3>1, <4>1
      <3>2. CASE ~(p = q /\ e.state # "closed")
        <4>1. breaker'[p] = breaker[p]
          BY <2>3, <2>4, <3>2
        <4>2. breaker[p].probing
          BY <4>1 DEF CircuitInv, HalfOpenIsProbed
        <4>3. PICK j \in InFlight(p) : calls[j].probe
          BY <4>1 DEF CircuitInv, HalfOpenIsProbed
        <4>4. j \in DOMAIN calls /\ j # i
          BY <2>2, <4>3 DEF InFlight, InPhase
        <4>5. j \in InFlight(p)' /\ calls'[j].probe
          BY <2>2, <2>7, <4>3, <4>4 DEF InFlight, InPhase
        <4>6. QED
          BY <4>1, <4>2, <4>5
      <3>3. QED
        BY <3>1, <3>2
    <2>9. QED
      BY <2>5, <2>6, <2>8 DEF CircuitInv
  <1>4. ASSUME NEW i \in Index, NEW outcome \in Outcome, Finish(i, outcome)
        PROVE  CircuitInv'
    <2> DEFINE q == batch[i]
               e == breaker[q]
               n == streak[q]
    <2>1. q \in Profile /\ e \in Entry /\ calls[i].phase = "running" /\ n \in 0..FailureThreshold
      BY <1>0, <1>4 DEF Finish, AttemptOutcome, SlotInv, Known, InPhase
    <2>2. /\ breaker' = [breaker EXCEPT ![q] = IF outcome = "completed" THEN RecordSuccess(e)
                                               ELSE RecordFailure(e)]
          /\ streak' = [streak EXCEPT ![q] = IF outcome = "completed" THEN 0
                                             ELSE UpTo(FailureThreshold, n + 1)]
          /\ calls' = [calls EXCEPT ![i].phase = "reporting", ![i].attempts = @ + 1]
          /\ batch' = batch
      BY <1>4 DEF Finish
    <2>3. \A p \in Profile : p # q => breaker'[p] = breaker[p] /\ streak'[p] = streak[p]
      BY <1>0, <2>1, <2>2
    <2>4. /\ e.failures = n /\ (e.state = "closed" <=> n < FailureThreshold)
      BY <2>1 DEF CircuitInv, Counted, TripsAtThreshold
    <2>5. /\ breaker'[q].failures = streak'[q]
          /\ breaker'[q].state = "closed" <=> streak'[q] < FailureThreshold
          /\ breaker'[q].state # "half_open"
      <3>1. CASE outcome = "completed"
        <4>1. breaker'[q] = RecordSuccess(e) /\ streak'[q] = 0
          BY <1>0, <2>1, <2>2, <3>1
        <4>2. RecordSuccess(e).state = "closed" /\ RecordSuccess(e).failures = 0
          BY <2>1, EntryFacts
        <4>3. QED
          BY <4>1, <4>2, BudgetAssumption
      <3>2. CASE outcome # "completed"
        <4>1. breaker'[q] = RecordFailure(e) /\ streak'[q] = UpTo(FailureThreshold, n + 1)
          BY <1>0, <2>1, <2>2, <3>2
        <4>2. CASE e.state = "half_open"
          <5>1. RecordFailure(e).state = "open" /\ RecordFailure(e).failures = e.failures
            BY <2>1, <4>2, EntryFacts
          <5>2. n = FailureThreshold
            BY <2>1, <2>4, <4>2, BudgetAssumption
          <5>3. UpTo(FailureThreshold, n + 1) = FailureThreshold
            BY <5>2, BudgetAssumption DEF UpTo
          <5>4. QED
            BY <2>4, <4>1, <5>1, <5>2, <5>3, BudgetAssumption
        <4>3. CASE e.state # "half_open"
          <5>1. /\ RecordFailure(e).failures = UpTo(FailureThreshold, n + 1)
                /\ RecordFailure(e).state =
                     IF UpTo(FailureThreshold, n + 1) = FailureThreshold
                       THEN "open" ELSE e.state
                /\ RecordFailure(e).state # "half_open"
            BY <2>1, <2>4, <4>3, EntryFacts
          <5>2. /\ UpTo(FailureThreshold, n + 1) \in 0..FailureThreshold
                /\ UpTo(FailureThreshold, n + 1) # FailureThreshold => n < FailureThreshold
            BY <2>1, BudgetAssumption DEF UpTo
          <5>3. QED
            BY <2>4, <4>1, <5>1, <5>2, BudgetAssumption
        <4>4. QED
          BY <4>2, <4>3
      <3>3. QED
        BY <3>1, <3>2
    <2>6. Counted'
      BY <2>3, <2>5 DEF CircuitInv, Counted
    <2>7. TripsAtThreshold'
      BY <2>3, <2>5 DEF CircuitInv, TripsAtThreshold
    <2>8. /\ DOMAIN calls' = DOMAIN calls
          /\ \A j \in DOMAIN calls : j # i => calls'[j] = calls[j]
      BY <1>0, <2>2
    <2>9. HalfOpenIsProbed'
      <3> SUFFICES ASSUME NEW p \in Profile, breaker'[p].state = "half_open"
                   PROVE  /\ breaker'[p].probing
                          /\ \E j \in InFlight(p)' : calls'[j].probe
        BY DEF HalfOpenIsProbed
      <3>1. p # q /\ breaker'[p] = breaker[p]
        BY <2>3, <2>5
      <3>2. breaker[p].probing
        BY <3>1 DEF CircuitInv, HalfOpenIsProbed
      <3>3. PICK j \in InFlight(p) : calls[j].probe
        BY <3>1 DEF CircuitInv, HalfOpenIsProbed
      <3>4. j \in DOMAIN calls /\ j # i
        BY <3>1, <3>3 DEF InFlight, InPhase
      <3>5. j \in InFlight(p)' /\ calls'[j].probe
        BY <2>2, <2>8, <3>3, <3>4 DEF InFlight, InPhase
      <3>6. QED
        BY <3>1, <3>2, <3>5
    <2>10. QED
      BY <2>6, <2>7, <2>9 DEF CircuitInv
  <1>5. CASE Cancel \/ UNCHANGED vars
    <2>1. UNCHANGED <<breaker, streak, batch, calls>>
      BY <1>5 DEF Cancel, vars
    <2>2. QED
      BY <2>1, SameCircuits DEF InPhase
  <1>6. CASE Tick
    <2>1. UNCHANGED <<batch, calls, streak>>
      BY <1>6 DEF Tick
    <2>2. \A p \in Profile : /\ breaker'[p].state = breaker[p].state
                             /\ breaker'[p].failures = breaker[p].failures
                             /\ breaker'[p].probing = breaker[p].probing
      BY <1>0, <1>6 DEF Tick, Entry
    <2>3. Counted' /\ TripsAtThreshold'
      BY <2>1, <2>2 DEF CircuitInv, Counted, TripsAtThreshold
    <2>4. HalfOpenIsProbed'
      BY <2>1, <2>2 DEF CircuitInv, HalfOpenIsProbed, InFlight, InPhase
    <2>5. QED
      BY <2>3, <2>4 DEF CircuitInv
  <1>7. QED
    BY <1>1, <1>2, <1>3, <1>4, <1>5, <1>6 DEF Next

\* The invariant of the circuits holds in every reachable state.
LEMMA CircuitInvariant == Spec => []CircuitInv
  <1>1. Init => CircuitInv
    BY BudgetAssumption DEF Init, CircuitInv, Counted, TripsAtThreshold, HalfOpenIsProbed
  <1>2. QED
    BY <1>1, CircuitStep, SlotInvariant, PTL DEF Spec

\* A half-open circuit always has its probe in flight: no profile is refused for
\* ever because a probe was lost.
THEOREM ProbeNeverLost == Spec => []HalfOpenIsProbed
  <1>1. CircuitInv => HalfOpenIsProbed
    BY DEF CircuitInv
  <1>2. QED
    BY <1>1, CircuitInvariant, PTL

\* The circuit is shut exactly while fewer than FailureThreshold calls in a row
\* have ended otherwise than completed.
THEOREM TripsExactly == Spec => []TripsAtThreshold
  <1>1. CircuitInv => TripsAtThreshold
    BY DEF CircuitInv
  <1>2. QED
    BY <1>1, CircuitInvariant, PTL
=============================================================================
