--------------------------- MODULE BreakerPromise ---------------------------
(***************************************************************************)
(* What a circuit breaker promises the node behind it, without states or   *)
(* an opening time: a node that failed Limit times in a row is left alone  *)
(* until Rest ticks after the last failure.                                *)
(***************************************************************************)
EXTENDS Integers

CONSTANTS Calls, Limit, Rest

VARIABLES
    streak,   \* failures since the last success or reset, up to Limit
    quiet,    \* ticks since the last failure, up to Rest
    busy      \* calls that are at the node

promiseVars == <<streak, quiet, busy>>

Init ==
    /\ streak = 0
    /\ quiet = Rest
    /\ busy = {}

MayCall == streak < Limit \/ quiet = Rest

Begin(c) ==
    /\ c \notin busy
    /\ MayCall
    /\ busy' = busy \cup {c}
    /\ UNCHANGED <<streak, quiet>>

Succeed(c) ==
    /\ c \in busy
    /\ busy' = busy \ {c}
    /\ streak' = 0
    /\ UNCHANGED quiet

Fail(c) ==
    /\ c \in busy
    /\ busy' = busy \ {c}
    /\ streak' = IF streak < Limit THEN streak + 1 ELSE Limit
    /\ quiet' = 0

Abandon(c) ==
    /\ c \in busy
    /\ busy' = busy \ {c}
    /\ UNCHANGED <<streak, quiet>>

Reset ==
    /\ streak' = 0
    /\ UNCHANGED <<quiet, busy>>

Wait ==
    /\ quiet' = IF quiet < Rest THEN quiet + 1 ELSE Rest
    /\ UNCHANGED <<streak, busy>>

Next ==
    \/ \E c \in Calls : Begin(c) \/ Succeed(c) \/ Fail(c) \/ Abandon(c)
    \/ Reset
    \/ Wait

Spec == Init /\ [][Next]_promiseVars
=============================================================================
