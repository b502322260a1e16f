--------------------------- MODULE CircuitBreaker ---------------------------
(***************************************************************************)
(* The circuit breaker of backend/app/resilience.py, shared by every       *)
(* coroutine that calls one dependency (NIRA, the chain's RPC node).  A    *)
(* call is two critical sections, the preflight and the recording of its   *)
(* outcome, with the dependency's answer awaited in between: a call        *)
(* admitted in one state of the breaker may be recorded in another.        *)
(***************************************************************************)
EXTENDS Integers

CONSTANTS
    Caller,           \* concurrent calls
    Threshold,        \* failure_threshold
    ResetTimeout,     \* reset_timeout, in ticks of the clock
    MaxTimeout,       \* max_timeout, in ticks
    MaxInterventions  \* bound: outages, cancelled calls, forced changes, restarts

ASSUME BreakerAssumption ==
    /\ Threshold \in Nat \ {0}
    /\ ResetTimeout \in Nat \ {0} /\ MaxTimeout \in Nat /\ ResetTimeout <= MaxTimeout
    /\ MaxInterventions \in Nat

VARIABLES
    state,          \* _state
    failures,       \* _failures, saturated just above the threshold
    age,            \* monotonic() - _opened_at while open, saturated
    timeout,        \* _current_reset_timeout
    calls,          \* calls[c]: not in flight, or how c was admitted
    healthy,        \* whether the dependency answers every call
    interventions

breakerVars == <<state, failures, age, timeout, calls, healthy, interventions>>

BreakerTypeOK ==
    /\ state \in {"closed", "open", "half_open"}
    /\ failures \in 0..Threshold + 1
    /\ age \in 0..MaxTimeout
    /\ timeout \in ResetTimeout..MaxTimeout
    /\ calls \in [Caller -> {"idle", "admitted", "probe"}]
    /\ healthy \in BOOLEAN
    /\ interventions \in 0..MaxInterventions

BreakerInit ==
    /\ state = "closed" /\ failures = 0 /\ age = 0 /\ timeout = ResetTimeout
    /\ calls = [c \in Caller |-> "idle"]
    /\ healthy = TRUE /\ interventions = 0

-----------------------------------------------------------------------------
\* _maybe_half_open_locked: every access looks at the clock first.
Elapsed == state = "open" /\ age >= timeout
CurrentState == IF Elapsed THEN "half_open" ELSE state

\* Mutant: only a closed breaker lets a call through.
Admits_ClosedOnly == CurrentState = "closed"

Admits == CurrentState # "open"

\* _preflight lets the call through.
BeginCall(c) ==
    /\ calls[c] = "idle" /\ Admits
    /\ state' = CurrentState
    /\ calls' = [calls EXCEPT ![c] = IF CurrentState = "half_open" THEN "probe" ELSE "admitted"]
    /\ UNCHANGED <<failures, age, timeout, healthy, interventions>>

\* The health endpoint or the demo panel reads the `state` property.
ReadState ==
    /\ Elapsed
    /\ state' = "half_open"
    /\ UNCHANGED <<failures, age, timeout, calls, healthy, interventions>>

\* _record_success_locked, and the body of force_close.
Close ==
    /\ state' = "closed" /\ failures' = 0 /\ age' = 0
    /\ timeout' = ResetTimeout

\* Even during an outage some calls get through.
CallSucceeds(c) ==
    /\ calls[c] # "idle"
    /\ Close
    /\ calls' = [calls EXCEPT ![c] = "idle"]
    /\ UNCHANGED <<healthy, interventions>>

\* Mutant: the backoff is not capped.
Doubled_Uncapped == 2 * timeout

Doubled == IF 2 * timeout < MaxTimeout THEN 2 * timeout ELSE MaxTimeout

OneMore == IF failures > Threshold THEN failures ELSE failures + 1

\* _record_failure_locked
CallFails(c) ==
    /\ calls[c] # "idle" /\ ~ healthy
    /\ failures' = OneMore
    /\ \/ /\ state = "half_open"
          /\ state' = "open" /\ age' = 0 /\ timeout' = Doubled
       \/ /\ state # "half_open" /\ failures' >= Threshold
          /\ state' = "open" /\ age' = 0 /\ UNCHANGED timeout
       \/ /\ state # "half_open" /\ failures' < Threshold
          /\ UNCHANGED <<state, age, timeout>>
    /\ calls' = [calls EXCEPT ![c] = "idle"]
    /\ UNCHANGED <<healthy, interventions>>

Intervene == interventions < MaxInterventions /\ interventions' = interventions + 1

\* CancelledError is no Exception: the outcome is not recorded.
CallCancelled(c) ==
    /\ calls[c] # "idle" /\ Intervene
    /\ calls' = [calls EXCEPT ![c] = "idle"]
    /\ UNCHANGED <<state, failures, age, timeout, healthy>>

\* Mutant: force_open leaves the failure count alone.
ForceOpen_KeepsCount ==
    /\ Intervene
    /\ state' = "open" /\ age' = 0
    /\ UNCHANGED <<failures, timeout, calls, healthy>>

ForceOpen ==
    /\ Intervene
    /\ state' = "open" /\ age' = 0 /\ failures' = Threshold
    /\ UNCHANGED <<timeout, calls, healthy>>

ForceClose ==
    /\ Intervene
    /\ Close
    /\ UNCHANGED <<calls, healthy>>

\* The breaker lives in the process: a restart forgets it and the calls.
Restart ==
    /\ Intervene
    /\ state' = "closed" /\ failures' = 0 /\ age' = 0 /\ timeout' = ResetTimeout
    /\ calls' = [c \in Caller |-> "idle"]
    /\ UNCHANGED healthy

\* The clock; only an open breaker looks at it.
Tick ==
    /\ state = "open" /\ age < MaxTimeout
    /\ age' = age + 1
    /\ UNCHANGED <<state, failures, timeout, calls, healthy, interventions>>

OutageBegins ==
    /\ healthy /\ Intervene
    /\ healthy' = FALSE
    /\ UNCHANGED <<state, failures, age, timeout, calls>>

OutageEnds ==
    /\ ~ healthy /\ healthy' = TRUE
    /\ UNCHANGED <<state, failures, age, timeout, calls, interventions>>

BreakerNext ==
    \/ \E c \in Caller : BeginCall(c) \/ CallSucceeds(c) \/ CallFails(c) \/ CallCancelled(c)
    \/ ReadState \/ ForceOpen \/ ForceClose \/ Restart \/ Tick \/ OutageBegins \/ OutageEnds

BreakerSpec == BreakerInit /\ [][BreakerNext]_breakerVars

-----------------------------------------------------------------------------
\* The failure count decides the state: late answers of calls admitted in another
\* state, forced changes and cancelled probes never leave a tripped breaker with
\* a count below the threshold, or a closed one that a single failure would trip.
CountDecidesState == state = "closed" <=> failures < Threshold

\* A doubled timeout does not outlive the trip it was doubled in: every way back
\* to closed resets it, so the next outage starts from reset_timeout.
BackoffEndsWithTrip == state = "closed" => timeout = ResetTimeout

\* Once the dependency stays up the breaker closes and stays closed, whatever
\* calls of the outage still fail late or are cancelled as probes.
ClosesAfterOutage == <>[]healthy => <>[](state = "closed")
=============================================================================
