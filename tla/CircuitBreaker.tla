--------------------------- MODULE CircuitBreaker ---------------------------
(***************************************************************************)
(* The circuit breaker the v3 orchestrator keeps for one upstream node     *)
(* (apex_common/circuit_breaker.py) and the concurrent calls it gates      *)
(* (_safe_call of apex_common/node_adapters.py).                           *)
(*                                                                         *)
(* Breakers of different nodes share no state, so one node is modelled.    *)
(* Every method of the registry holds its lock over code without an await: *)
(* it is one atomic step.  A call is suspended only while it waits for the *)
(* node, so any number of calls may be in flight when the state changes.   *)
(*                                                                         *)
(* Only two facts about the monotonic clock matter: how long ago the       *)
(* breaker was opened and how long ago a failure was recorded.  Both are   *)
(* kept as ages that stop counting at Cooldown, and consecutive_failures   *)
(* stops counting at FailureThreshold: the code only compares them with    *)
(* those limits, so no behaviour is lost and no artificial bound is needed.*)
(***************************************************************************)
EXTENDS Integers

CONSTANTS
    Calls,              \* identities of concurrent _safe_call activations
    FailureThreshold,   \* failure_threshold
    Cooldown,           \* cooldown_s, in ticks of the model's clock
    OperatorActs        \* whether someone calls force_close and force_open

ASSUME BreakerAssumption ==
    /\ FailureThreshold \in Nat \ {0}
    /\ Cooldown \in Nat \ {0}
    /\ OperatorActs \in BOOLEAN

VARIABLES
    state,        \* _NodeBreaker.state
    failures,     \* _NodeBreaker.consecutive_failures, up to FailureThreshold
    openAge,      \* now - _NodeBreaker.opened_at, up to Cooldown
    failureAge,   \* now - _NodeBreaker.last_failure_ts, up to Cooldown
    call          \* where each call is, and in which state it was let through

vars == <<state, failures, openAge, failureAge, call>>

CBState == {"CLOSED", "OPEN", "HALF_OPEN"}
InFlight == {"normal", "probe"}

TypeOK ==
    /\ state \in CBState
    /\ failures \in 0..FailureThreshold
    /\ openAge \in 0..Cooldown
    /\ failureAge \in 0..Cooldown
    /\ call \in [Calls -> {"idle"} \cup InFlight]

CountUpTo(n, limit) == IF n < limit THEN n + 1 ELSE limit

-----------------------------------------------------------------------------
(* A fresh _NodeBreaker: both timestamps are 0.0, long before any reading  *)
(* of the monotonic clock.                                                 *)
Init ==
    /\ state = "CLOSED"
    /\ failures = 0
    /\ openAge = Cooldown
    /\ failureAge = Cooldown
    /\ call = [c \in Calls |-> "idle"]

(* is_available answers True and the call goes to the node.  A refusal     *)
(* changes nothing, so it is no step of the model.                         *)
AdmitClosed(c) ==
    /\ state = "CLOSED"
    /\ call[c] = "idle"
    /\ call' = [call EXCEPT ![c] = "normal"]
    /\ UNCHANGED <<state, failures, openAge, failureAge>>

AdmitProbe(c) ==
    /\ \/ state = "HALF_OPEN"
       \/ state = "OPEN" /\ openAge >= Cooldown
    /\ call[c] = "idle"
    /\ state' = "HALF_OPEN"
    /\ call' = [call EXCEPT ![c] = "probe"]
    /\ UNCHANGED <<failures, openAge, failureAge>>

IsAvailable(c) == AdmitClosed(c) \/ AdmitProbe(c)

(* Mutant: a success resets the counter but not the state.                 *)
SuccessKeepsState(c) ==
    /\ call[c] \in InFlight
    /\ call' = [call EXCEPT ![c] = "idle"]
    /\ failures' = 0
    /\ UNCHANGED <<state, openAge, failureAge>>

(* Mutant: a success closes the breaker but leaves the counter standing.   *)
SuccessKeepsCount(c) ==
    /\ call[c] \in InFlight
    /\ call' = [call EXCEPT ![c] = "idle"]
    /\ state' = "CLOSED"
    /\ UNCHANGED <<failures, openAge, failureAge>>

(* The awaited coroutine returned: record_success.                         *)
RecordSuccess(c) ==
    /\ call[c] \in InFlight
    /\ call' = [call EXCEPT ![c] = "idle"]
    /\ state' = "CLOSED"
    /\ failures' = 0
    /\ UNCHANGED <<openAge, failureAge>>

(* Mutant: a failed probe reopens the breaker with the old opening time.   *)
FailedProbeKeepsOpeningTime(c) ==
    /\ call[c] \in InFlight
    /\ call' = [call EXCEPT ![c] = "idle"]
    /\ failures' = CountUpTo(failures, FailureThreshold)
    /\ failureAge' = 0
    /\ IF state = "HALF_OPEN"
         THEN state' = "OPEN" /\ UNCHANGED openAge
         ELSE IF failures' >= FailureThreshold
                THEN state' = "OPEN" /\ openAge' = 0
                ELSE UNCHANGED <<state, openAge>>

(* Mutant: a failure that arrives while the breaker is OPEN is not taken   *)
(* as a reason to stay open longer.                                        *)
LateFailureIgnored(c) ==
    /\ call[c] \in InFlight
    /\ call' = [call EXCEPT ![c] = "idle"]
    /\ failures' = CountUpTo(failures, FailureThreshold)
    /\ failureAge' = 0
    /\ IF state = "HALF_OPEN" \/ (state = "CLOSED" /\ failures' >= FailureThreshold)
         THEN state' = "OPEN" /\ openAge' = 0
         ELSE UNCHANGED <<state, openAge>>

(* The awaited coroutine raised an Exception: record_failure.              *)
RecordFailure(c) ==
    /\ call[c] \in InFlight
    /\ call' = [call EXCEPT ![c] = "idle"]
    /\ failures' = CountUpTo(failures, FailureThreshold)
    /\ failureAge' = 0
    /\ IF state = "HALF_OPEN" \/ failures' >= FailureThreshold
         THEN state' = "OPEN" /\ openAge' = 0
         ELSE UNCHANGED <<state, openAge>>

(* The orchestrator cancels stragglers; CancelledError is no Exception, so *)
(* _safe_call records nothing.                                             *)
Cancelled(c) ==
    /\ call[c] \in InFlight
    /\ call' = [call EXCEPT ![c] = "idle"]
    /\ UNCHANGED <<state, failures, openAge, failureAge>>

ForceClose ==
    /\ OperatorActs
    /\ state' = "CLOSED"
    /\ failures' = 0
    /\ UNCHANGED <<openAge, failureAge, call>>

ForceOpen ==
    /\ OperatorActs
    /\ state' = "OPEN"
    /\ openAge' = 0
    /\ UNCHANGED <<failures, failureAge, call>>

Tick ==
    /\ openAge' = CountUpTo(openAge, Cooldown)
    /\ failureAge' = CountUpTo(failureAge, Cooldown)
    /\ UNCHANGED <<state, failures, call>>

Next ==
    \/ \E c \in Calls :
          IsAvailable(c) \/ RecordSuccess(c) \/ RecordFailure(c) \/ Cancelled(c)
    \/ ForceClose
    \/ ForceOpen
    \/ Tick

Spec == Init /\ [][Next]_vars

-----------------------------------------------------------------------------
(* Properties                                                              *)

Admitted(c) == call[c] = "idle" /\ call'[c] # "idle"

(* Once FailureThreshold failures in a row are on record, with no success  *)
(* and no reset after them, no further call reaches the node until a full  *)
(* cooldown has passed since the last of those failures: whatever late     *)
(* answers, operator actions and half-open periods came in between.  This  *)
(* is what the OPEN state and opened_at are for, stated without them       *)
(* (circuit_breaker.py:61-108).                                            *)
NodeIsLeftAlone ==
    [][\A c \in Calls :
          Admitted(c) /\ failures = FailureThreshold => failureAge = Cooldown]_vars

(* The facts that make NodeIsLeftAlone inductive: a breaker that counted   *)
(* enough failures is not CLOSED; while it is OPEN it was opened no        *)
(* earlier than its last failure; and it only became HALF_OPEN after that  *)
(* failure was a cooldown old.                                             *)
TripInvariant ==
    /\ state = "CLOSED" => failures < FailureThreshold
    /\ state = "OPEN" /\ failures = FailureThreshold => openAge <= failureAge
    /\ state = "HALF_OPEN" /\ failures = FailureThreshold => failureAge = Cooldown

(* The breaker implements the promise of BreakerPromise: the counter, the  *)
(* age of the last failure and the calls in flight are its abstract state. *)
Promise == INSTANCE BreakerPromise WITH
    Limit <- FailureThreshold,
    Rest <- Cooldown,
    streak <- failures,
    quiet <- failureAge,
    busy <- {c \in Calls : call[c] \in InFlight}

(* Every step of the breaker is a step of the promise or changes nothing   *)
(* the promise speaks of (circuit_breaker.py:61-148).                      *)
KeepsPromise == Promise!Spec
=============================================================================
