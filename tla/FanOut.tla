------------------------------- MODULE FanOut -------------------------------
(***************************************************************************)
(* How the v3 orchestrator calls one upstream node: _gather_signals of     *)
(* services/maestro_v3.py starts the adapter's _safe_call as a task, waits *)
(* parallel_timeout_s + 1.0 seconds for it and cancels it if it is not     *)
(* done; inside, retry_with_backoff (apex_common/retry.py) repeats the     *)
(* HTTP request, each attempt with its own timeout of parallel_timeout_s.  *)
(*                                                                         *)
(* The module adds the attempts and the two timers to the calls of         *)
(* CircuitBreaker and takes every change of the breaker from there.  The   *)
(* waits between attempts (0.25 to 1 second) are shorter than a tick.      *)
(***************************************************************************)
EXTENDS CircuitBreaker

CONSTANTS
    Attempts,   \* cfg.attempts
    Timeout,    \* cfg.parallel_timeout_s, the timeout of one attempt, in ticks
    Deadline,   \* cfg.parallel_timeout_s + 1.0, the patience of _gather_signals
    MaxActs     \* bound: how often the operator acts

ASSUME FanOutAssumption ==
    /\ Attempts \in Nat \ {0}
    /\ Timeout \in Nat \ {0}
    /\ Deadline \in Nat /\ Deadline > Timeout
    /\ MaxActs \in Nat

VARIABLES
    node,     \* how the upstream node behaves now
    attempt,  \* number of the attempt a call is in, 0 when idle
    waited,   \* ticks since the attempt was sent
    gathered, \* ticks since the task was started
    acts      \* how often the operator has acted

fanOutVars == <<vars, node, attempt, waited, gathered, acts>>

(* up: answers at once; failing: answers at once with a status that is     *)
(* retried; rejecting: with one that is not; hanging: does not answer.     *)
NodeModes == {"up", "failing", "rejecting", "hanging"}

FanOutTypeOK ==
    /\ TypeOK
    /\ node \in NodeModes
    /\ attempt \in [Calls -> 0..Attempts]
    /\ waited \in [Calls -> 0..Timeout]
    /\ gathered \in [Calls -> 0..Deadline]
    /\ acts \in 0..MaxActs

Active(c) == call[c] \in InFlight

FanOutInit ==
    /\ Init
    /\ node = "up"
    /\ attempt = [c \in Calls |-> 0]
    /\ waited = [c \in Calls |-> 0]
    /\ gathered = [c \in Calls |-> 0]
    /\ acts = 0

Finish(c) ==
    /\ attempt' = [attempt EXCEPT ![c] = 0]
    /\ waited' = [waited EXCEPT ![c] = 0]
    /\ gathered' = [gathered EXCEPT ![c] = 0]

(* _gather_signals creates the task and the breaker lets the call through. *)
Begin(c) ==
    /\ IsAvailable(c)
    /\ attempt' = [attempt EXCEPT ![c] = 1]
    /\ UNCHANGED <<node, waited, gathered, acts>>

Answer(c) ==
    /\ node = "up"
    /\ RecordSuccess(c)
    /\ Finish(c)
    /\ UNCHANGED <<node, acts>>

AttemptFailed(c) ==
    /\ Active(c)
    /\ \/ node = "failing"
       \/ node = "hanging" /\ waited[c] = Timeout

(* Mutant: the retry loop never counts its attempts.                       *)
RetryForever(c) ==
    /\ AttemptFailed(c)
    /\ attempt[c] <= Attempts
    /\ waited' = [waited EXCEPT ![c] = 0]
    /\ UNCHANGED <<vars, node, attempt, gathered, acts>>

(* retry_with_backoff: another attempt, unless this was the last.          *)
Retry(c) ==
    /\ AttemptFailed(c)
    /\ attempt[c] < Attempts
    /\ attempt' = [attempt EXCEPT ![c] = @ + 1]
    /\ waited' = [waited EXCEPT ![c] = 0]
    /\ UNCHANGED <<vars, node, gathered, acts>>

(* The last attempt failed, or the status is not one that is retried.      *)
GiveUp(c) ==
    /\ \/ AttemptFailed(c) /\ attempt[c] = Attempts
       \/ Active(c) /\ node = "rejecting"
    /\ RecordFailure(c)
    /\ Finish(c)
    /\ UNCHANGED <<node, acts>>

(* asyncio.wait returned and the straggler is cancelled.                   *)
CancelStraggler(c) ==
    /\ gathered[c] = Deadline
    /\ Cancelled(c)
    /\ Finish(c)
    /\ UNCHANGED <<node, acts>>

(* A timer that is due fires, and a node that answers does so, before time *)
(* goes on.                                                                *)
Due(c) ==
    /\ Active(c)
    /\ node # "hanging" \/ waited[c] = Timeout \/ gathered[c] = Deadline

Time ==
    /\ \A c \in Calls : ~Due(c)
    /\ Tick
    /\ waited' = [c \in Calls |-> IF Active(c) THEN waited[c] + 1 ELSE 0]
    /\ gathered' = [c \in Calls |-> IF Active(c) THEN gathered[c] + 1 ELSE 0]
    /\ UNCHANGED <<node, attempt, acts>>

NodeChanges ==
    /\ node' \in NodeModes \ {node}
    /\ UNCHANGED <<vars, attempt, waited, gathered, acts>>

(* The operator closes or opens the breaker whatever the calls do.         *)
Operator ==
    /\ acts < MaxActs /\ acts' = acts + 1
    /\ ForceClose \/ ForceOpen
    /\ UNCHANGED <<node, attempt, waited, gathered>>

FanOutNext ==
    \/ \E c \in Calls :
          Begin(c) \/ Answer(c) \/ Retry(c) \/ GiveUp(c) \/ CancelStraggler(c)
    \/ Time
    \/ NodeChanges
    \/ Operator

(* Time passes and the event loop runs what is due; that requests keep     *)
(* arriving (the fairness of Begin) is an assumption on the clients.       *)
FanOutFairness ==
    /\ WF_fanOutVars(Time)
    /\ \A c \in Calls :
          /\ WF_fanOutVars(Answer(c) \/ Retry(c) \/ GiveUp(c) \/ CancelStraggler(c))
          /\ WF_fanOutVars(Begin(c))

FanOutSpec == FanOutInit /\ [][FanOutNext]_fanOutVars /\ FanOutFairness

-----------------------------------------------------------------------------
(* Properties                                                              *)

(* A node that is up for good is used again for good: neither late         *)
(* failures nor the calls that ended without a verdict keep the breaker    *)
(* from closing (circuit_breaker.py:61-90).                                *)
Recovers == <>[](node = "up") => <>[](state = "CLOSED")

(* A node that fails every request for good is cut off, again and again    *)
(* (circuit_breaker.py:92-108, retry.py:20-33).                            *)
FailingNodeIsCutOff == <>[](node = "failing") => []<>(state = "OPEN")

=============================================================================
