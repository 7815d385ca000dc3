----------------------- MODULE CircuitBreaker_proofs -----------------------
(***************************************************************************)
(* Proofs about the circuit breaker, for every set of calls, every         *)
(* threshold and every cooldown; and that the fan-out of the orchestrator  *)
(* (FanOut.tla) uses it as a breaker is meant to be used, so that what is  *)
(* proved of the breaker holds for every number of attempts and every      *)
(* time-out.                                                               *)
(***************************************************************************)
EXTENDS FanOut, TLAPS

(* Every operation keeps the counters and ages in their ranges.            *)
LEMMA BreakerTypesStay == TypeOK /\ [Next]_vars => TypeOK'
<1> SUFFICES ASSUME TypeOK, [Next]_vars
             PROVE  TypeOK'
  OBVIOUS
<1> USE BreakerAssumption DEF TypeOK, CBState, InFlight, CountUpTo
<1>1. ASSUME NEW c \in Calls, IsAvailable(c)
      PROVE  TypeOK'
  BY <1>1 DEF IsAvailable, AdmitClosed, AdmitProbe
<1>2. ASSUME NEW c \in Calls, RecordSuccess(c)
      PROVE  TypeOK'
  BY <1>2 DEF RecordSuccess
<1>3. ASSUME NEW c \in Calls, RecordFailure(c)
      PROVE  TypeOK'
  BY <1>3 DEF RecordFailure
<1>4. ASSUME NEW c \in Calls, Cancelled(c)
      PROVE  TypeOK'
  BY <1>4 DEF Cancelled
<1>5. CASE ForceClose
  BY <1>5 DEF ForceClose
<1>6. CASE ForceOpen
  BY <1>6 DEF ForceOpen
<1>7. CASE Tick
  BY <1>7 DEF Tick
<1>8. CASE UNCHANGED vars
  BY <1>8 DEF vars
<1> QED
  BY <1>1, <1>2, <1>3, <1>4, <1>5, <1>6, <1>7, <1>8 DEF Next

(* The counters and ages stay in the ranges the model declares.            *)
THEOREM TypeCorrect == Spec => []TypeOK
<1>1. Init => TypeOK
  BY BreakerAssumption DEF Init, TypeOK, CBState, InFlight
<1>2. TypeOK /\ [Next]_vars => TypeOK'
  BY BreakerTypesStay
<1> QED
  BY <1>1, <1>2, PTL DEF Spec

(* A breaker that counted enough failures is closed to calls, and the time *)
(* it measures its cooldown from is not before the last failure.           *)
THEOREM TripInvariantHolds == Spec => []TripInvariant
<1>1. Init => TripInvariant
  BY BreakerAssumption DEF Init, TripInvariant
<1>2. TypeOK /\ TripInvariant /\ [Next]_vars => TripInvariant'
  <2> SUFFICES ASSUME TypeOK, TripInvariant, [Next]_vars
               PROVE  TripInvariant'
    OBVIOUS
  <2> USE BreakerAssumption DEF TypeOK, TripInvariant, CBState, CountUpTo
  <2>1. ASSUME NEW c \in Calls, IsAvailable(c)
        PROVE  TripInvariant'
    <3>1. CASE AdmitClosed(c)
      BY <3>1 DEF AdmitClosed
    <3>2. CASE AdmitProbe(c)
      BY <3>2 DEF AdmitProbe
    <3> QED
      BY <2>1, <3>1, <3>2 DEF IsAvailable
  <2>2. ASSUME NEW c \in Calls, RecordSuccess(c)
        PROVE  TripInvariant'
    BY <2>2 DEF RecordSuccess
  <2>3. ASSUME NEW c \in Calls, RecordFailure(c)
        PROVE  TripInvariant'
    BY <2>3 DEF RecordFailure
  <2>4. ASSUME NEW c \in Calls, Cancelled(c)
        PROVE  TripInvariant'
    BY <2>4 DEF Cancelled
  <2>5. CASE ForceClose
    BY <2>5 DEF ForceClose
  <2>6. CASE ForceOpen
    BY <2>6 DEF ForceOpen
  <2>7. CASE Tick
    BY <2>7 DEF Tick
  <2>8. CASE UNCHANGED vars
    BY <2>8 DEF vars
  <2> QED
    BY <2>1, <2>2, <2>3, <2>4, <2>5, <2>6, <2>7, <2>8 DEF Next
<1> QED
  BY <1>1, <1>2, TypeCorrect, PTL DEF Spec

-----------------------------------------------------------------------------
(* A call that is let through meets the condition of the promise.          *)
LEMMA AdmissionIsAllowed ==
    ASSUME TypeOK, TripInvariant, NEW c \in Calls, IsAvailable(c)
    PROVE  failures < FailureThreshold \/ failureAge = Cooldown
<1> USE BreakerAssumption DEF TypeOK, TripInvariant, CBState
<1>1. CASE AdmitClosed(c)
  BY <1>1 DEF AdmitClosed
<1>2. CASE AdmitProbe(c)
  BY <1>2 DEF AdmitProbe
<1> QED
  BY <1>1, <1>2 DEF IsAvailable

(* Only is_available starts a call.                                        *)
LEMMA OnlyIsAvailableAdmits ==
    ASSUME TypeOK, [Next]_vars, NEW c \in Calls, Admitted(c)
    PROVE  IsAvailable(c)
<1> USE DEF TypeOK, InFlight, Admitted
<1>1. ASSUME NEW d \in Calls, IsAvailable(d)
      PROVE  IsAvailable(c)
  BY <1>1 DEF IsAvailable, AdmitClosed, AdmitProbe
<1>2. ASSUME NEW d \in Calls, RecordSuccess(d) \/ RecordFailure(d) \/ Cancelled(d)
      PROVE  FALSE
  BY <1>2 DEF RecordSuccess, RecordFailure, Cancelled
<1>3. CASE ForceClose \/ ForceOpen \/ Tick \/ UNCHANGED vars
  BY <1>3 DEF ForceClose, ForceOpen, Tick, vars
<1> QED
  BY <1>1, <1>2, <1>3 DEF Next

(* A node that failed FailureThreshold times in a row is left alone for a  *)
(* whole cooldown after the last failure.                                  *)
THEOREM LeftAlone == Spec => NodeIsLeftAlone
<1>1. TypeOK /\ TripInvariant /\ [Next]_vars
        => [\A c \in Calls :
               Admitted(c) /\ failures = FailureThreshold => failureAge = Cooldown]_vars
  <2> SUFFICES ASSUME TypeOK, TripInvariant, [Next]_vars,
                      NEW c \in Calls, Admitted(c), failures = FailureThreshold
               PROVE  failureAge = Cooldown
    OBVIOUS
  <2>1. IsAvailable(c)
    BY OnlyIsAvailableAdmits
  <2> QED
    BY <2>1, AdmissionIsAllowed, BreakerAssumption DEF TypeOK
<1> QED
  BY <1>1, TypeCorrect, TripInvariantHolds, PTL DEF Spec, NodeIsLeftAlone

(* The breaker refines the promise: every behaviour of the code's breaker  *)
(* is one of BreakerPromise.                                               *)
THEOREM Refinement == Spec => KeepsPromise
<1> USE DEF InFlight
<1>1. Init => Promise!Init
  BY DEF Init, Promise!Init
<1>2. TypeOK /\ TripInvariant /\ [Next]_vars => [Promise!Next]_(Promise!promiseVars)
  <2> SUFFICES ASSUME TypeOK, TripInvariant, [Next]_vars
               PROVE  [Promise!Next]_(Promise!promiseVars)
    OBVIOUS
  <2> USE DEF TypeOK
  <2>1. ASSUME NEW c \in Calls, IsAvailable(c)
        PROVE  Promise!Begin(c)
    <3>1. Promise!MayCall
      BY <2>1, AdmissionIsAllowed DEF Promise!MayCall
    <3> QED
      BY <2>1, <3>1 DEF IsAvailable, AdmitClosed, AdmitProbe, Promise!Begin
  <2>2. ASSUME NEW c \in Calls, RecordSuccess(c)
        PROVE  Promise!Succeed(c)
    BY <2>2 DEF RecordSuccess, Promise!Succeed
  <2>3. ASSUME NEW c \in Calls, RecordFailure(c)
        PROVE  Promise!Fail(c)
    BY <2>3 DEF RecordFailure, CountUpTo, Promise!Fail
  <2>4. ASSUME NEW c \in Calls, Cancelled(c)
        PROVE  Promise!Abandon(c)
    BY <2>4 DEF Cancelled, Promise!Abandon
  <2>5. CASE ForceClose
    BY <2>5 DEF ForceClose, Promise!Reset, Promise!Next
  <2>6. CASE ForceOpen
    BY <2>6 DEF ForceOpen, Promise!promiseVars
  <2>7. CASE Tick
    BY <2>7 DEF Tick, CountUpTo, Promise!Wait, Promise!Next
  <2>8. CASE UNCHANGED vars
    BY <2>8 DEF vars, Promise!promiseVars
  <2> QED
    BY <2>1, <2>2, <2>3, <2>4, <2>5, <2>6, <2>7, <2>8 DEF Next, Promise!Next
<1> QED
  BY <1>1, <1>2, TypeCorrect, TripInvariantHolds, PTL
  DEF Spec, KeepsPromise, Promise!Spec

-----------------------------------------------------------------------------
(* Every step of the fan-out is an operation of the breaker or leaves it   *)
(* alone.                                                                  *)
LEMMA StepsOfTheBreaker == [FanOutNext]_fanOutVars => [Next]_vars
<1> SUFFICES ASSUME [FanOutNext]_fanOutVars PROVE [Next]_vars
  OBVIOUS
<1>1. ASSUME NEW c \in Calls, Begin(c) PROVE Next
  BY <1>1 DEF Begin, Next
<1>2. ASSUME NEW c \in Calls, Answer(c) PROVE Next
  BY <1>2 DEF Answer, Next
<1>3. ASSUME NEW c \in Calls, Retry(c) PROVE UNCHANGED vars
  BY <1>3 DEF Retry
<1>4. ASSUME NEW c \in Calls, GiveUp(c) PROVE Next
  BY <1>4 DEF GiveUp, Next
<1>5. ASSUME NEW c \in Calls, CancelStraggler(c) PROVE Next
  BY <1>5 DEF CancelStraggler, Next
<1>6. CASE Time
  BY <1>6 DEF Time, Next
<1>7. CASE NodeChanges
  BY <1>7 DEF NodeChanges
<1>8. CASE Operator
  BY <1>8 DEF Operator, Next
<1>9. CASE UNCHANGED fanOutVars
  BY <1>9 DEF fanOutVars
<1> QED
  BY <1>1, <1>2, <1>3, <1>4, <1>5, <1>6, <1>7, <1>8, <1>9 DEF FanOutNext

(* Attempts and timers stay within the limits of the configuration: no     *)
(* request is sent after the last attempt, no attempt and no task outlives *)
(* its time-out (retry.py:20-33, maestro_v3.py: _gather_signals).          *)
THEOREM FanOutTypeCorrect == FanOutSpec => []FanOutTypeOK
<1> USE FanOutAssumption DEF FanOutAssumption
<1>1. FanOutInit => FanOutTypeOK
  <2> SUFFICES ASSUME FanOutInit PROVE FanOutTypeOK
    OBVIOUS
  <2>1. TypeOK
    BY BreakerAssumption DEF BreakerAssumption, FanOutInit, Init, TypeOK, CBState, InFlight
  <2> QED BY <2>1 DEF FanOutInit, FanOutTypeOK, NodeModes
<1>2. FanOutTypeOK /\ [FanOutNext]_fanOutVars => FanOutTypeOK'
  <2> SUFFICES ASSUME FanOutTypeOK, [FanOutNext]_fanOutVars PROVE FanOutTypeOK'
    OBVIOUS
  <2>1. TypeOK'
    BY BreakerTypesStay, StepsOfTheBreaker DEF FanOutTypeOK
  <2> HIDE FanOutAssumption DEF FanOutAssumption
  <2> DEFINE Timers ==
        /\ node' \in NodeModes
        /\ attempt' \in [Calls -> 0..Attempts]
        /\ waited' \in [Calls -> 0..Timeout]
        /\ gathered' \in [Calls -> 0..Deadline]
        /\ acts' \in 0..MaxActs
  <2>2. /\ Attempts \in Nat \ {0} /\ Timeout \in Nat \ {0} /\ Deadline \in Nat
        /\ MaxActs \in Nat
    BY FanOutAssumption DEF FanOutAssumption
  <2> USE <2>2 DEF FanOutTypeOK
  <2>3. ASSUME NEW c \in Calls, Begin(c) PROVE Timers
    BY <2>3 DEF Begin
  <2>4. ASSUME NEW c \in Calls, Finish(c), UNCHANGED <<node, acts>> PROVE Timers
    BY <2>4 DEF Finish
  <2>5. ASSUME NEW c \in Calls, Retry(c) PROVE Timers
    BY <2>5 DEF Retry
  <2>6. ASSUME Time PROVE Timers
    <3>1. ASSUME NEW c \in Calls, Active(c)
          PROVE  waited[c] + 1 \in 0..Timeout /\ gathered[c] + 1 \in 0..Deadline
      <4>1. waited[c] # Timeout /\ gathered[c] # Deadline
        BY <2>6, <3>1 DEF Time, Due
      <4> QED BY <4>1
    <3> QED BY <2>6, <3>1 DEF Time
  <2>7. ASSUME NodeChanges PROVE Timers
    BY <2>7 DEF NodeChanges
  <2>8. ASSUME Operator PROVE Timers
    BY <2>8 DEF Operator
  <2>9. ASSUME UNCHANGED fanOutVars PROVE Timers
    BY <2>9 DEF fanOutVars
  <2>10. Timers
    BY <2>3, <2>4, <2>5, <2>6, <2>7, <2>8, <2>9
       DEF FanOutNext, Answer, GiveUp, CancelStraggler
  <2> QED BY <2>1, <2>10
<1> QED
  BY <1>1, <1>2, PTL DEF FanOutSpec

(* The orchestrator touches a breaker by the breaker's own operations      *)
(* alone: every behaviour of the fan-out is one of the breaker             *)
(* (node_adapters.py: _safe_call).                                         *)
THEOREM FanOutUsesTheBreaker == FanOutSpec => Spec
<1>1. FanOutInit => Init
  BY DEF FanOutInit
<1>2. [FanOutNext]_fanOutVars => [Next]_vars
  BY StepsOfTheBreaker
<1> QED
  BY <1>1, <1>2, PTL DEF FanOutSpec, Spec

(* So the fan-out, with any number of attempts and any time-outs, keeps    *)
(* the promise of the breaker: in particular it leaves a node alone that   *)
(* has failed often enough.                                                *)
THEOREM FanOutKeepsPromise ==
    FanOutSpec => ([]TripInvariant) /\ NodeIsLeftAlone /\ KeepsPromise
BY FanOutUsesTheBreaker, TripInvariantHolds, LeftAlone, Refinement
=============================================================================
