------------------------------ MODULE Newtonian ------------------------------
(***************************************************************************)
(* services/newtonian.py as functions: what the gravity engine knows of a  *)
(* pair of assets after the epochs it has computed, and what it answers    *)
(* about an asset.                                                         *)
(*                                                                         *)
(* An epoch sees the product of the masses of a pair, the correlation of   *)
(* its returns in percent, and the seconds since the epoch before.  An     *)
(* asset whose candles could not be read is seen as it was.  Accelerations *)
(* are in hundredths, confidences in percent.                              *)
(***************************************************************************)
EXTENDS Integers, Sequences, SequencesExt

CONSTANTS
    TrackedAssets,    \* TRACKED_ASSETS
    AccelThreshold,   \* ACCEL_THRESHOLD
    Multiplier        \* CONTAGION_MULTIPLIER

ASSUME NewtonianAssumption == AccelThreshold \in Nat \ {0} /\ Multiplier \in Nat \ {0}

LOCAL Size(x) == IF x < 0 THEN -x ELSE x
LOCAL Least(a, b) == IF a <= b THEN a ELSE b

NewPair == [correlation |-> 0, force |-> 0, acceleration |-> 0, regime |-> "UNKNOWN"]

(* compute_g_force: no two assets are closer than 5%.                      *)
GForce(mass, correlation) ==
    LET distance == IF Size(correlation) > 95 THEN 5 ELSE 100 - Size(correlation)
    IN  (10000 * mass) \div (distance * distance)

(* classify_regime: the first rule that fits.                              *)
Regime(correlation, acceleration) ==
    LET rules == << <<"CONTAGION", acceleration > AccelThreshold * Multiplier /\ correlation > 70>>,
                    <<"ISOLATION", Size(correlation) < 30>>,
                    <<"CONVERGENCE", acceleration > AccelThreshold /\ correlation > 50>>,
                    <<"DIVERGENCE", acceleration < -AccelThreshold>>,
                    <<"CONVERGENCE", correlation > 50>>,
                    <<"ISOLATION", TRUE>> >>
    IN  SelectSeq(rules, LAMBDA rule : rule[2])[1][1]

(* compute_epoch, for one pair: the first epoch has nothing to compare     *)
(* with, and contagion is over with the first epoch that brings no further *)
(* rise.                                                                   *)
Epoch(seen, pair) ==
    LET force == GForce(seen.mass, seen.correlation)
        rise == IF pair.force > 0 THEN (100 * (force - pair.force)) \div seen.since ELSE 0
    IN  [correlation |-> seen.correlation, force |-> force, acceleration |-> rise,
         regime |-> Regime(seen.correlation, rise)]

After(epochs) == FoldLeft(LAMBDA pair, seen : Epoch(seen, pair), NewPair, epochs)

(* signal_for_asset, over the pairs the asset is one of: contagion in one  *)
(* pair is contagion, and an asset that is not tracked has no pairs.       *)
GravitySignal(pairs) ==
    LET Some(regime) == \E i \in DOMAIN pairs : pairs[i].regime = regime
        Mean(Of(_)) == FoldLeft(LAMBDA sum, p : sum + Of(p), 0, pairs) \div Len(pairs)
        Near(p) == Size(p.correlation)
        Rise(p) == p.acceleration
        Says(action, side, confidence) ==
            [action |-> action, side |-> side, confidence |-> Least(100, confidence),
             regime |-> IF Some("CONTAGION") THEN "CONTAGION" ELSE pairs[1].regime]
    IN
    IF pairs = <<>>
      THEN [action |-> "WAIT", side |-> "NONE", confidence |-> 0, regime |-> "UNKNOWN"]
    ELSE IF Some("CONTAGION")
      THEN Says("KILL", "NONE", 60 + (30 * Mean(Near)) \div 100)
    ELSE IF \A i \in DOMAIN pairs : pairs[i].regime = "ISOLATION"
      THEN Says("WAIT", "NONE", 30)
    ELSE IF Some("CONVERGENCE")
      THEN IF Mean(Rise) > 0
             THEN Says("EXECUTE", "LONG", 50 + (30 * Mean(Near) + 20 * Mean(Rise)) \div 100)
             ELSE Says("EXECUTE", "SHORT", 50 + (20 * Mean(Near)) \div 100)
    ELSE IF Some("DIVERGENCE")
      THEN Says("EXECUTE", IF Mean(Rise) < 0 THEN "LONG" ELSE "SHORT",
                45 + (30 * Size(Mean(Rise))) \div 100)
    ELSE Says("WAIT", "NONE", 0)
=============================================================================
