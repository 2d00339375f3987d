-------------------------- MODULE SubagentDispatch --------------------------
(***************************************************************************)
(* Fan-out of sub-agents (core/subagents/coordinator.py) under the retry   *)
(* policy and the circuit breaker (core/subagents/resilience.py).          *)
(*                                                                         *)
(* The parent's turn hands `dispatch` a batch of requests and waits for    *)
(* all the reports.  Each accepted request is a coroutine: it takes a slot *)
(* of a semaphore, asks the breaker of its profile, runs a child agent up  *)
(* to MaxAttempts times, tells the breaker how it ended, announces the end *)
(* and gives the slot back.  The breaker outlives the batch.               *)
(*                                                                         *)
(* One step is the code between two awaits; the child's turn, the backoff  *)
(* and the announcements are the awaits.                                   *)
(***************************************************************************)
EXTENDS Naturals, Sequences, FiniteSets

CONSTANTS
  Profile,           \* the registered sub-agent types, each with its own circuit
  Unknown,           \* a type nobody registered, or a model that is not allowed
  Batches,           \* the batches of requests the parent's model may ask for
  MaxConcurrent,     \* budgets.max_concurrent_subagents
  MaxPerTurn,        \* budgets.max_subagents_per_turn
  MaxAttempts,       \* budgets.subagent_retry_max_attempts
  FailureThreshold,  \* budgets.subagent_circuit_failure_threshold
  ResetTimeout       \* budgets.subagent_circuit_reset_s, in ticks of the model's clock

ASSUME ProfileAssumption == Unknown \notin Profile
ASSUME BatchesAssumption == \A b \in Batches : b \in Seq(Profile \cup {Unknown}) /\ b # <<>>
ASSUME BudgetAssumption ==
  /\ MaxConcurrent \in Nat \ {0}
  /\ MaxPerTurn \in Nat \ {0}
  /\ MaxAttempts \in Nat \ {0}
  /\ FailureThreshold \in Nat \ {0}
  /\ ResetTimeout \in Nat \ {0}

VARIABLES
  breaker,  \* breaker[p]: _CircuitEntry; `age` is the time since opened_at
  batch,    \* the requests being dispatched, <<>> when no dispatch is under way
  calls,    \* calls[i]: the coroutine of the i-th request
  slots,    \* free slots of the semaphore
  cancel    \* the parent turn's cancel event

VARIABLE    \* what an observer of the reports counts, up to the threshold
  streak    \* streak[p]: calls of p that ended since the last one that completed

vars == <<breaker, batch, calls, slots, cancel, streak>>

State == {"closed", "open", "half_open"}
Phase == {"waiting", "running", "backoff", "reporting", "ended"}
Outcome == {"completed", "failed", "timeout", "cancelled"}

Entry == [state : State, failures : 0..FailureThreshold, age : 0..ResetTimeout,
          probing : BOOLEAN]
Call == [phase : Phase, attempts : 0..MaxAttempts, probe : BOOLEAN]

Waiting == [phase |-> "waiting", attempts |-> 0, probe |-> FALSE]
Ended == [phase |-> "ended", attempts |-> 0, probe |-> FALSE]

InPhase(phases) == {i \in DOMAIN calls : calls[i].phase \in phases}
Holding == InPhase({"running", "backoff", "reporting"})
InFlight(p) == {i \in InPhase({"running", "backoff"}) : batch[i] = p}

TypeOK ==
  /\ breaker \in [Profile -> Entry]
  /\ batch \in Seq(Profile \cup {Unknown})
  /\ calls \in [1..Len(batch) -> Call]
  /\ slots \in 0..MaxConcurrent
  /\ cancel \in BOOLEAN
  /\ streak \in [Profile -> 0..FailureThreshold]

Init ==
  /\ breaker = [p \in Profile |->
                  [state |-> "closed", failures |-> 0, age |-> 0, probing |-> FALSE]]
  /\ batch = <<>>
  /\ calls = <<>>
  /\ slots = MaxConcurrent
  /\ cancel = FALSE
  /\ streak = [p \in Profile |-> 0]

-----------------------------------------------------------------------------
(* CircuitBreaker.  Its counter is compared with the threshold and nothing  *)
(* else, so it is counted up to the threshold; opened_at is read only while *)
(* the circuit is open, so its age is kept only then, up to the cooldown.   *)

UpTo(bound, n) == IF n < bound THEN n ELSE bound

\* allows: an open circuit turns half-open when its cooldown is over.
Allows(e) ==
  \/ e.state = "closed"
  \/ e.state = "open" /\ e.age = ResetTimeout
  \/ e.state = "half_open" /\ ~e.probing

Admitting(e) ==
  IF e.state = "closed" THEN e
  ELSE [e EXCEPT !.state = "half_open", !.probing = TRUE, !.age = 0]

\* Defect: a success shuts the circuit and leaves the count.
RecordSuccessCounting(e) == [e EXCEPT !.state = "closed", !.probing = FALSE, !.age = 0]

RecordSuccess(e) == [state |-> "closed", failures |-> 0, age |-> 0, probing |-> FALSE]

\* Defect: a failed probe only makes room for the next one.
RecordFailureOfProbe(e) ==
  LET counted == UpTo(FailureThreshold, e.failures + 1) IN
  IF e.state = "half_open" \/ counted < FailureThreshold
    THEN [e EXCEPT !.probing = FALSE, !.failures = counted]
    ELSE [e EXCEPT !.state = "open", !.failures = counted, !.probing = FALSE, !.age = 0]

\* A failed probe reopens at once, any other failure at the threshold.
RecordFailure(e) ==
  LET counted == UpTo(FailureThreshold, e.failures + 1) IN
  IF e.state = "half_open"
    THEN [e EXCEPT !.state = "open", !.probing = FALSE, !.age = 0]
    ELSE IF counted = FailureThreshold
      THEN [e EXCEPT !.state = "open", !.failures = counted, !.probing = FALSE, !.age = 0]
      ELSE [e EXCEPT !.failures = counted, !.probing = FALSE]

-----------------------------------------------------------------------------
(* One call.                                                               *)

\* The semaphore serves its waiters in order.
TakeSlot(i) ==
  /\ slots > 0
  /\ i \in InPhase({"waiting"})
  /\ \A j \in InPhase({"waiting"}) : i <= j
  /\ slots' = slots - 1

\* Defect: a refusal takes no slot, and gives one back.
RefuseUnslotted(i) ==
  /\ slots > 0 /\ i \in InPhase({"waiting"})
  /\ batch[i] # Unknown => ~Allows(breaker[batch[i]])
  /\ calls' = [calls EXCEPT ![i].phase = "reporting"]
  /\ UNCHANGED <<breaker, batch, slots, cancel, streak>>

\* _dispatch_one: no such type or model, or the circuit refuses.
Refuse(i) ==
  /\ TakeSlot(i)
  /\ batch[i] # Unknown => ~Allows(breaker[batch[i]])
  /\ calls' = [calls EXCEPT ![i].phase = "reporting"]
  /\ UNCHANGED <<breaker, batch, cancel, streak>>

Start(i) ==
  /\ TakeSlot(i)
  /\ batch[i] # Unknown /\ Allows(breaker[batch[i]])
  /\ calls' = [calls EXCEPT ![i].phase = "running",
                            ![i].probe = breaker[batch[i]].state # "closed"]
  /\ breaker' = [breaker EXCEPT ![batch[i]] = Admitting(@)]
  /\ UNCHANGED <<batch, cancel, streak>>

\* The child's turn is over, or was silent too long, or was stopped by the
\* parent's cancellation.
AttemptOutcome(i, outcome) ==
  /\ i \in InPhase({"running"})
  /\ outcome = "cancelled" => cancel

\* Defect: one attempt more than the policy allows.
RetriedOnceMore(i, outcome) == outcome = "failed" /\ calls[i].attempts < MaxAttempts

\* RetryPolicy.until: only a failure is tried again.
Retried(i, outcome) == outcome = "failed" /\ calls[i].attempts + 1 < MaxAttempts

BackOff(i) ==
  /\ AttemptOutcome(i, "failed") /\ Retried(i, "failed")
  /\ calls' = [calls EXCEPT ![i].phase = "backoff", ![i].attempts = @ + 1]
  /\ UNCHANGED <<breaker, batch, slots, cancel, streak>>

Retry(i) ==
  /\ i \in InPhase({"backoff"})
  /\ calls' = [calls EXCEPT ![i].phase = "running"]
  /\ UNCHANGED <<breaker, batch, slots, cancel, streak>>

\* Defect: a cancelled call tells the breaker nothing.
FinishSilently(i, outcome) ==
  LET p == batch[i] IN
  /\ AttemptOutcome(i, outcome) /\ ~Retried(i, outcome)
  /\ calls' = [calls EXCEPT ![i].phase = "reporting", ![i].attempts = @ + 1]
  /\ breaker' = [breaker EXCEPT ![p] = CASE outcome = "completed" -> RecordSuccess(@)
                                         [] outcome = "cancelled" -> @
                                         [] OTHER -> RecordFailure(@)]
  /\ UNCHANGED <<batch, slots, cancel, streak>>

\* The last attempt: the breaker learns the outcome before anything else runs.
Finish(i, outcome) ==
  LET p == batch[i] IN
  /\ AttemptOutcome(i, outcome) /\ ~Retried(i, outcome)
  /\ calls' = [calls EXCEPT ![i].phase = "reporting", ![i].attempts = @ + 1]
  /\ breaker' = [breaker EXCEPT ![p] = IF outcome = "completed" THEN RecordSuccess(@)
                                       ELSE RecordFailure(@)]
  /\ streak' = [streak EXCEPT ![p] = IF outcome = "completed" THEN 0
                                     ELSE UpTo(FailureThreshold, @ + 1)]
  /\ UNCHANGED <<batch, slots, cancel>>

\* Defect: the slot is kept.
ReportKeepingSlot(i) ==
  /\ i \in InPhase({"reporting"})
  /\ calls' = [calls EXCEPT ![i] = Ended]
  /\ UNCHANGED <<breaker, batch, slots, cancel, streak>>

\* The end is announced and the slot goes back.
Report(i) ==
  /\ i \in InPhase({"reporting"})
  /\ calls' = [calls EXCEPT ![i] = Ended]
  /\ slots' = slots + 1
  /\ UNCHANGED <<breaker, batch, cancel, streak>>

-----------------------------------------------------------------------------
(* The batch, the user and the clock.                                      *)

\* dispatch: the first MaxPerTurn requests run, the others are refused.
Dispatch(requests) ==
  /\ batch = <<>>
  /\ batch' = requests
  /\ calls' = [i \in 1..Len(requests) |-> IF i <= MaxPerTurn THEN Waiting ELSE Ended]
  /\ slots' = MaxConcurrent
  /\ cancel' = FALSE
  /\ UNCHANGED <<breaker, streak>>

\* gather is over: every request has its report.
Return ==
  /\ batch # <<>>
  /\ \A i \in DOMAIN calls : calls[i].phase = "ended"
  /\ batch' = <<>>
  /\ calls' = <<>>
  /\ UNCHANGED <<breaker, slots, cancel, streak>>

\* The user stops the parent's turn.
Cancel ==
  /\ batch # <<>> /\ ~cancel
  /\ cancel' = TRUE
  /\ UNCHANGED <<breaker, batch, calls, slots, streak>>

\* Time passes while the coordinator waits for its children or for the parent;
\* admissions and announcements take no time next to a cooldown.
Settled == InPhase({"reporting"}) = {} /\ (slots = 0 \/ InPhase({"waiting"}) = {})

Tick ==
  /\ Settled
  /\ \E p \in Profile : breaker[p].state = "open" /\ breaker[p].age < ResetTimeout
  /\ breaker' = [p \in Profile |->
                   IF breaker[p].state = "open"
                     THEN [breaker[p] EXCEPT !.age = UpTo(ResetTimeout, @ + 1)]
                     ELSE breaker[p]]
  /\ UNCHANGED <<batch, calls, slots, cancel, streak>>

Ends(i) == BackOff(i) \/ \E outcome \in Outcome : Finish(i, outcome)
Admit(i) == Refuse(i) \/ Start(i)
Index == 1..Len(batch)

Next ==
  \/ \E requests \in Batches : Dispatch(requests)
  \/ \E i \in Index : Refuse(i) \/ Start(i) \/ BackOff(i) \/ Retry(i) \/ Report(i)
  \/ \E i \in Index, outcome \in Outcome : Finish(i, outcome)
  \/ Return \/ Cancel \/ Tick

\* The event loop runs what can run, and every child's turn ends: it answers,
\* it fails, or its silence is cut short by Pulse.watch.
Fairness ==
  /\ WF_vars(Return)
  /\ \A i \in 1..MaxPerTurn : /\ WF_vars(i \in Index /\ Admit(i))
                              /\ WF_vars(i \in Index /\ Ends(i))
                              /\ WF_vars(i \in Index /\ Retry(i))
                              /\ WF_vars(i \in Index /\ Report(i))

Spec == Init /\ [][Next]_vars
FairSpec == Spec /\ Fairness

-----------------------------------------------------------------------------
(* Properties.                                                             *)

\* The slots of the semaphore and the calls that hold one always make up the
\* limit: no path of a call gives a slot back twice or keeps it.
SlotsBalanced == slots + Cardinality(Holding) = MaxConcurrent

\* A half-open circuit has its probe in flight.  Without one it would refuse
\* every call, and nothing would ever resolve it.
HalfOpenIsProbed ==
  \A p \in Profile : breaker[p].state = "half_open" =>
    breaker[p].probing /\ \E i \in InFlight(p) : calls[i].probe

\* A circuit is shut exactly while fewer than FailureThreshold calls in a row
\* have ended otherwise than completed, however the calls admitted before it
\* opened and its probes are interleaved.
TripsAtThreshold ==
  \A p \in Profile : breaker[p].state = "closed" <=> streak[p] < FailureThreshold

\* "Admits exactly one probe.  While a probe is in flight, further calls are
\* refused" (CircuitBreaker.allows).
SingleProbe ==
  \A p \in Profile : Cardinality({i \in InFlight(p) : calls[i].probe}) <= 1

\* Every dispatch returns to the parent's turn.
DispatchReturns == batch # <<>> ~> batch = <<>>

\* A probe settles the circuit one way or the other.
ProbeResolves ==
  \A p \in Profile : breaker[p].state = "half_open" ~> breaker[p].state # "half_open"
=============================================================================
