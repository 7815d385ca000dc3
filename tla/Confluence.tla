----------------------------- MODULE Confluence -----------------------------
(***************************************************************************)
(* The gates that turn the signals of the upstream nodes into one decision *)
(* (apex_common/confluence.py) and the adapters that turn a node's answer  *)
(* into a signal (apex_common/node_adapters.py).                           *)
(*                                                                         *)
(* sig maps each node that was asked to its signal.  Confidences, weights  *)
(* and multipliers are percentages; averages are compared without dividing *)
(* and rounded down only where their value is passed on.                   *)
(***************************************************************************)
EXTENDS Integers, FiniteSets, FiniteSetsExt

CONSTANTS
    Weight,          \* node_weights: a function of all nodes
    Required,        \* required_nodes
    Fallback,        \* fallback_on_timeout
    MinConfidence    \* min_confidence of the default engine

Action == {"EXECUTE", "WAIT", "KILL"}
Side == {"LONG", "SHORT", "NONE"}
Modes == {"AND", "OR", "MAJORITY", "WEIGHTED"}

(* DEFAULT_NODE_ROLES.                                                     *)
DirectionNodes == {"brain", "shadowglass", "spoofhunter", "newtonian",
                   "narrative", "dreamer"}
SurvivalNodes == {"brain", "spoofhunter", "antirug_v3"}
RiskNodes == {"brain", "dreamer"}
Nodes == DirectionNodes \cup SurvivalNodes

ASSUME ConfluenceAssumption ==
    /\ Weight \in [Nodes -> Nat \ {0}]
    /\ Required \subseteq Nodes
    /\ Fallback \in Action
    /\ MinConfidence \in 0..100

Clamp(x, lo, hi) == IF x < lo THEN lo ELSE IF x > hi THEN hi ELSE x
Size(x) == IF x < 0 THEN -x ELSE x

-----------------------------------------------------------------------------
(* The signals                                                             *)

Signal(up, action, side, conf, mult) ==
    [up |-> up, action |-> action, side |-> side,
     conf |-> Clamp(conf, 0, 100), mult |-> Clamp(mult, 0, 100)]

(* NodeSignal(node, available=False): the call failed, was refused by the  *)
(* circuit breaker, or was cancelled at the deadline.                      *)
Unavailable == Signal(FALSE, "WAIT", "NONE", 0, 100)

(* call_brain, call_dreamer, call_spoofhunter, call_newtonian and          *)
(* call_narrative pass on what the node says.                              *)
AsSaid(d) == Signal(TRUE, d.action, d.side, d.conf, d.mult)

(* call_shadowglass: an imbalance of the book beyond 15% is a direction.   *)
FromImbalance(imb) ==
    IF Size(imb) > 15
      THEN Signal(TRUE, "EXECUTE", IF imb > 0 THEN "LONG" ELSE "SHORT", Size(imb), 100)
      ELSE Signal(TRUE, "WAIT", "NONE", 0, 100)

(* call_antirug: a token that is rejected (REJEITADO) kills.               *)
FromScreening(rejected, rugProbability) ==
    Signal(TRUE, IF rejected THEN "KILL" ELSE "WAIT", "NONE", 100 - rugProbability, 100)

-----------------------------------------------------------------------------
(* The gates                                                               *)

WithRole(sig, role) == {n \in role \cap DOMAIN sig : sig[n].up}

RequiredAnswered(sig) == \A n \in Required : n \in DOMAIN sig /\ sig[n].up

Survives(sig) == \A n \in WithRole(sig, SurvivalNodes) : sig[n].action # "KILL"

Executing(sig) ==
    {n \in WithRole(sig, DirectionNodes) :
        sig[n].action = "EXECUTE" /\ sig[n].side \in {"LONG", "SHORT"}}

Agreeing(sig, side) == {n \in Executing(sig) : sig[n].side = side}

Votes(sig, nodes) == MapThenSumSet(LAMBDA n : Weight[n] * sig[n].conf, nodes)

(* Whether the nodes on one side carry the vote of _eval_direction.  OR is *)
(* won by at least half of them, WEIGHTED by a tenth of all votes.         *)
Carries(sig, mode, side) ==
    LET with == Agreeing(sig, side)
        all == Executing(sig)
        margin == Votes(sig, with) - Votes(sig, all \ with)
    IN /\ all # {}
       /\ mode = "AND" => with = all
       /\ mode = "OR" => 2 * Cardinality(with) >= Cardinality(all)
       /\ mode = "MAJORITY" => 2 * Cardinality(with) > Cardinality(all)
       /\ mode = "WEIGHTED" => margin > 0 /\ 10 * margin >= Votes(sig, all)

(* _eval_direction: the side, "NONE" when the gate fails.  Where both      *)
(* sides carry, as many nodes of OR say one as the other.                  *)
Direction(sig, mode) ==
    IF Carries(sig, mode, "LONG") THEN "LONG"
    ELSE IF Carries(sig, mode, "SHORT") THEN "SHORT" ELSE "NONE"

TotalWeight(nodes) == MapThenSumSet(LAMBDA n : Weight[n], nodes)

(* _compute_risk_multiplier, in percent: a node that is not there takes    *)
(* nothing away.                                                           *)
RiskMultiplier(sig) ==
    LET of(n) == IF n \in WithRole(sig, RiskNodes) THEN sig[n].mult ELSE 100
    IN (of("brain") * of("dreamer")) \div 100

Result(action, side, conf, risk) ==
    [action |-> action, side |-> side, conf |-> conf, risk |-> risk]

(* Mutant: the survival gate is asked after the direction.                 *)
EvaluateDirectionFirst(sig, mode, minimum) ==
    LET side == Direction(sig, mode)
        agreeing == Agreeing(sig, side)
        confidence == Votes(sig, agreeing) \div TotalWeight(agreeing)
    IN IF ~RequiredAnswered(sig) THEN Result(Fallback, "NONE", 0, 0)
       ELSE IF side = "NONE"
              THEN Result(IF Survives(sig) THEN "WAIT" ELSE "KILL", "NONE", 0, 0)
       ELSE IF confidence < minimum THEN Result("WAIT", side, confidence, 0)
       ELSE Result("EXECUTE", side, confidence, RiskMultiplier(sig))

(* ConfluenceEngine.evaluate.                                              *)
Evaluate(sig, mode, minimum) ==
    LET side == Direction(sig, mode)
        agreeing == Agreeing(sig, side)
        votes == Votes(sig, agreeing)
        weight == TotalWeight(agreeing)
    IN IF ~RequiredAnswered(sig) THEN Result(Fallback, "NONE", 0, 0)
       ELSE IF ~Survives(sig) THEN Result("KILL", "NONE", 0, 0)
       ELSE IF side = "NONE" THEN Result("WAIT", "NONE", 0, 0)
       ELSE IF votes < minimum * weight THEN Result("WAIT", side, votes \div weight, 0)
       ELSE Result("EXECUTE", side, votes \div weight, RiskMultiplier(sig))
=============================================================================
