-------------------------------- MODULE Exits --------------------------------
(***************************************************************************)
(* The exit manager of predator-v4 (strategy/exits.py) against any price   *)
(* path: when check ends a position, and what its trailing stop keeps.  A  *)
(* behaviour follows one position from its fill.  The signal loop shows it *)
(* to the manager once in a turn, and not at all in a turn in which its    *)
(* symbol has no book (core.py): time and price go on meanwhile.           *)
(*                                                                         *)
(* A price is its distance from the entry price in the direction of the    *)
(* position: the LONG and SHORT branches of the code mirror each other.    *)
(***************************************************************************)
EXTENDS Integers

CONSTANTS
    Gains,          \* gains the path can visit
    MaxMove,        \* bound: the most the price moves between two looks
    MaxGap,         \* bound: the most ticks between two looks
    StopLoss, Activation, Callback,  \* limits at normal volatility
    MinHold, DecayStart, MaxHold     \* in ticks

NotEnded == 1000     \* a result that no price has

ASSUME ExitsAssumption ==
    /\ Gains \subseteq Int \ {NotEnded} /\ 0 \in Gains
    /\ MaxMove \in Nat /\ MaxGap \in Nat \ {0}
    /\ {StopLoss, Activation, Callback} \subseteq Nat \ {0}
    /\ MinHold \in Nat /\ DecayStart \in MinHold..MaxHold - 1 /\ MaxHold \in Nat

VARIABLES
    gain,     \* where the price was at the last look
    age,      \* ticks from the fill to that look
    peak,     \* the highest gain that the trailing stop has seen
    pred,     \* the trailing part of PositionState
    result    \* the gain the position ended with, if it has ended

vars == <<gain, age, peak, pred, result>>

Greater(a, b) == IF a >= b THEN a ELSE b

TypeOK ==
    /\ gain \in Gains /\ peak \in Gains /\ age \in 0..MaxHold + MaxGap
    /\ pred.trail \in BOOLEAN /\ pred.high \in Gains /\ pred.high >= 0
    /\ result \in Gains \cup {NotEnded}

Init ==
    /\ gain = 0 /\ age = 0 /\ peak = 0
    /\ pred = [trail |-> FALSE, high |-> 0]
    /\ result = NotEnded

-----------------------------------------------------------------------------
(* ExitManager.check after `now' ticks, with vol_scale in tenths.          *)

(* Mutant: the trail follows the last gain, up or down.                    *)
PredForgetsHigh(p, g, now) ==
    IF now >= MinHold /\ g >= Activation THEN [trail |-> TRUE, high |-> g] ELSE p

(* The trail is not looked at before the position has been held MinHold.   *)
PredTrail(p, g, now) ==
    IF now >= MinHold /\ g >= Activation
      THEN [trail |-> TRUE, high |-> Greater(p.high, g)]
      ELSE p

(* tightened_sl, and the profit that is taken when time is running out.    *)
TimeDecay(g, now, vol) ==
    LET span == MaxHold - DecayStart
        late == now - DecayStart
    IN /\ late > 0
       /\ \/ 100 * span * g <= -vol * StopLoss * Greater(3 * span, 10 * span - 7 * late)
          \/ 10 * late > 6 * span /\ g > Callback

SoftExit(p, g, now, t) ==
    \/ p.trail /\ 10 * (p.high - g) >= t.vol * Callback
    \/ TimeDecay(g, now, t.vol)
    \/ t.against
    \/ t.decel /\ g > 0

(* Mutant: protection against churn holds back every exit.                 *)
PredHoldsFirst(p, g, now, t) ==
    /\ now >= MinHold
    /\ 10 * g <= -t.vol * StopLoss \/ now >= MaxHold \/ SoftExit(p, g, now, t)

PredEnds(p, g, now, t) ==
    \/ 10 * g <= -t.vol * StopLoss
    \/ now >= MaxHold
    \/ now >= MinHold /\ SoftExit(p, g, now, t)

(* against: the model's direction, or the pressure of the book.  vol_scale *)
(* is between a half and two.                                              *)
PredTicks == [vol : {5, 10, 20}, against : BOOLEAN, decel : BOOLEAN]

(* The manager looks at a price.  A hard exit comes before the trail is    *)
(* updated, which nobody reads once the position has ended.                *)
Look(g, now) ==
    \E t \in PredTicks :
        LET p == PredTrail(pred, g, now) IN
        /\ pred' = p
        /\ peak' = IF now >= MinHold THEN Greater(peak, g) ELSE peak
        /\ result' = IF PredEnds(p, g, now, t) THEN g ELSE NotEnded

Held == result = NotEnded

(* One more look: the price has moved, and time has passed.                *)
Next ==
    /\ Held
    /\ \E g \in Gains, gap \in 1..MaxGap :
        /\ g - gain \in -MaxMove..MaxMove
        /\ gain' = g /\ age' = age + gap
        /\ Look(g, age + gap)

Spec == Init /\ [][Next]_vars

-----------------------------------------------------------------------------
(* What the manager promises.                                              *)

(* While a position that once reached the activation level is held, it has *)
(* given back less than the widest callback (twice the configured one, at  *)
(* high volatility) of the best it has been since the trail was looked at: *)
(* exits.py keeps the best gain over ticks whose volatility scales the     *)
(* callback up and down.                                                   *)
ProfitIsKept == (Held /\ peak >= Activation) => peak - gain < 2 * Callback

(* After a look a position that is still held has lost less than the       *)
(* widest stop, and one that has ended less than that and one move of the  *)
(* price, whatever ended it: neither the protection against churn nor the  *)
(* decay holds a stop back (exits.py:111-113).                             *)
LossIsBounded ==
    /\ Held => gain > -2 * StopLoss
    /\ ~Held => result > -2 * StopLoss - MaxMove
=============================================================================
