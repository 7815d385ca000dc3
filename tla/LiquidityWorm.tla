---------------------------- MODULE LiquidityWorm ----------------------------
(***************************************************************************)
(* services/liquidity_worm.py: the analysis that goes into every decision. *)
(* Numbers between zero and one are in thousandths, and so are percentages,*)
(* ratios and the change of the open interest; funding is in hundred-      *)
(* thousandths, volume in thousands, spreads in basis points.  A           *)
(* probability 1/(1+exp(-x)) is compared by its x: 0.62 and 0.66 are 0.489 *)
(* and 0.663.                                                              *)
(*                                                                         *)
(* A view has: net, spread, volume (of the market), atr, funding, oi,      *)
(* basis (of the macro state), imbalance, ghosts, iceberg (of the spoof    *)
(* state) and regime.                                                      *)
(***************************************************************************)
EXTENDS Integers

Clip(n, low, high) == IF n < low THEN low ELSE IF n > high THEN high ELSE n
Abs(n) == IF n < 0 THEN -n ELSE n
If(condition, n) == IF condition THEN n ELSE 0

Crowding(v) == Clip(25 * Abs(v.funding), 0, 4000) + Clip(Abs(v.oi), 0, 4000)

Instability(v) ==
    LET calm == Clip(v.atr \div 4, 150, 1000000)
    IN  Clip((2 * v.volume) \div 3, 0, 4000) - Clip((1000 * Abs(v.net)) \div calm, 0, 4000)

Wvi(v) == Crowding(v) + Instability(v)

CrowdingScore(v) == Clip(15 * Crowding(v) + 18 * Abs(v.oi) + 35 * Abs(v.basis), 0, 100000)

SqueezeRisk(v) ==
    Clip((65 * CrowdingScore(v)) \div 100 + 35 * Abs(v.imbalance) + 12 * Clip(Instability(v), 0, 4000),
         0, 100000)

(* A. How near the market is to where stops are.                           *)
Nearness(v) ==
    Clip(100000 - (20 * Abs(v.net) + 200 * v.spread + 800 * (v.spread % 25) + 40 * Clip(v.atr \div 10, 0, 1000)),
         0, 100000)

(* C. The sweep of a level and its reclaim.                                *)
ClosesInside(v) == Abs(v.net) < 180

Sweep(v) == v.spread > 12 /\ ClosesInside(v) /\ (v.volume > 2000 \/ Abs(v.oi) > 1500)

Reclaim(v) ==
    Clip((55 * Clip(1000 - Abs(v.net) \div 2, 0, 1000)) \div 100
         + If(v.volume > 2000, 250) + If(ClosesInside(v), 200), 0, 1000)

(* D. Whether a break is accepted.                                         *)
Aligned(v) == v.regime \in {"CONVERGENCE", "TREND"}

Acceptance(v) ==
    Clip(If(Abs(v.net) > 200, 220) + If(Abs(v.net) > 120 /\ Abs(v.net) < 550, 260)
         + If(v.volume > 900, 220) + If(Aligned(v), 220) + If(CrowdingScore(v) < 68000, 80)
         - If(Wvi(v) > 4000, 180), 0, 1000)

TrueBreak(v) == Clip(Acceptance(v) + (IF CrowdingScore(v) < 68000 THEN 80 ELSE -50), 0, 1000)
FailedBreak(v) == Clip(1000 - TrueBreak(v) + If(CrowdingScore(v) > 75000, 120), 0, 1000)

SweepLogit(v) ==
    Nearness(v) \div 50 + (22 * Crowding(v)) \div 100 + (18 * Clip(Instability(v), 0, 4000)) \div 100
    + If(Sweep(v), 250) + If(ClosesInside(v), 180) - 2100

TrendLogit(v) ==
    (9 * Acceptance(v)) \div 10 + If(v.volume > 900, 350) + If(Aligned(v), 250)
    - (22 * Clip(Instability(v), 0, 4000)) \div 100 - If(CrowdingScore(v) > 80000, 300) - 350

(* E. The integrity of the book.                                           *)
Persistence(v) == Clip(250 * v.ghosts, 0, 1000)
CancelVelocity(v) == Clip((3 * Abs(v.imbalance)) \div 2 + If(v.iceberg, 300), 0, 1000)
Stability(v) == Clip(1000 - (1000 * v.spread) \div 35, 0, 1000)

SpoofRisk(v) ==
    Clip(CancelVelocity(v) \div 2 + (3 * (1000 - Stability(v))) \div 10 + Persistence(v) \div 5, 0, 1000)

WallQuality(v) == 40 * Persistence(v) + 40 * Stability(v) + 20 * (1000 - CancelVelocity(v))

RegimeLabel(v) ==
    CASE SweepLogit(v) > 489 /\ Reclaim(v) > 450 -> "sweep_reversal"
      [] ~(SweepLogit(v) > 489 /\ Reclaim(v) > 450) /\ TrendLogit(v) > 489 /\ Acceptance(v) > 550
            -> "trend_continuation"
      [] OTHER -> "neutral_transition"

Analysis(v) ==
    [spoof_risk |-> SpoofRisk(v), wall_quality |-> WallQuality(v), crowding |-> CrowdingScore(v),
     squeeze |-> SqueezeRisk(v), wvi |-> Wvi(v), sweep |-> Sweep(v), reclaim |-> Reclaim(v),
     acceptance |-> Acceptance(v), true_break |-> TrueBreak(v), failed_break |-> FailedBreak(v),
     sweep_logit |-> SweepLogit(v), trend_logit |-> TrendLogit(v), regime |-> RegimeLabel(v)]
=============================================================================
