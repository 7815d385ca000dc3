------------------------------- MODULE Maestro -------------------------------
(***************************************************************************)
(* A synchronous request to the v3 orchestrator (services/maestro_v3.py):  *)
(* gathering the signals, the confluence decision, the order that is sent  *)
(* to the Executioner with retries, the registration with the position     *)
(* manager, and the loop that is meant to watch the registered positions.  *)
(* Version 2 of the pipeline (apex_common/maestro_pipeline.py) asks the    *)
(* brain alone and sends its order in the same way.                        *)
(*                                                                         *)
(* Requests share the breakers (FanOut.tla), the job queue (JobQueue.tla), *)
(* the rate limiters and the position manager.  One request is followed at *)
(* a time; others show as tokens of the limiter that are gone.             *)
(***************************************************************************)
EXTENDS Confluence

CONSTANTS
    Configured,    \* nodes whose URL is set
    Imbalances,    \* order book imbalances shadowglass may report, in percent
    Said,          \* answers a node that passes on its verdict may give
    RequestMin,    \* values of min_confidence in a request
    DefaultMode,   \* MAESTRO_V3_CONFLUENCE_MODE
    Attempts,      \* cfg.attempts
    Burst,         \* capacity of lim_exec
    BaseRisk       \* base_risk_pct, in hundredths of a percent

ASSUME MaestroAssumption ==
    /\ Configured \subseteq Nodes
    /\ DefaultMode \in Modes
    /\ Attempts \in Nat \ {0} /\ Burst \in Nat \ {0}
    /\ BaseRisk \in 1..500
    /\ RequestMin \subseteq 0..100 /\ 0 \in RequestMin
    /\ Imbalances \subseteq Int
    /\ \A n \in Configured \ {"shadowglass", "antirug_v3"} :
          Said[n] \subseteq [action : STRING, side : STRING, conf : Int, mult : Int]

VARIABLES
    pc,         \* how far the request is; "idle": it has been answered
    req,        \* what was asked
    signals,    \* the signals that were gathered
    order,      \* the decision to execute: side and risk of the order
    left,       \* attempts retry_with_backoff has left
    status,     \* status of the response
    tokens,     \* tokens of lim_exec
    watched,    \* whether the ActivePositionManager has a position
    loop,       \* how the last pass of the babysit loop ended
    opened,     \* the exchange: orders executed for the request
    lost        \* history: attempts whose answer did not arrive

vars == <<pc, req, signals, order, left, status, tokens, watched, loop,
          opened, lost>>
around == <<tokens, watched, loop>>

Statuses == {"none", "WAIT", "KILL", "SKIPPED", "DRY_RUN", "EXECUTED",
             "REJECTED", "400", "502"}

Request == [version : {2, 3}, mode : Modes \cup {"default"}, min : RequestMin,
            screened : BOOLEAN, dry : BOOLEAN]

NoRequest == [version |-> 3, mode |-> "default", min |-> 0,
              screened |-> FALSE, dry |-> FALSE]
NoOrder == [side |-> "none", risk |-> 0]

TypeOK ==
    /\ pc \in {"idle", "gather", "brain", "decide", "post", "register"}
    /\ req \in Request
    /\ DOMAIN signals \subseteq Nodes
    /\ order.side \in {"buy", "sell", "none"}
    /\ IF order.side = "none" THEN order.risk = 0 ELSE order.risk \in 5..500
    /\ left \in 0..Attempts /\ opened \in 0..Attempts /\ lost \in 0..Attempts
    /\ status \in Statuses
    /\ tokens \in 0..Burst
    /\ watched \in BOOLEAN /\ loop \in {"no positions", "error"}

-----------------------------------------------------------------------------
Init ==
    /\ pc = "idle"
    /\ req = NoRequest
    /\ signals = <<>>
    /\ order = NoOrder
    /\ left = 0 /\ opened = 0 /\ lost = 0
    /\ status = "none"
    /\ tokens = Burst /\ watched = FALSE /\ loop = "no positions"

(* The handler returns, and its local variables are gone.                  *)
Return ==
    /\ pc' = "idle"
    /\ req' = NoRequest /\ signals' = <<>> /\ order' = NoOrder /\ left' = 0

Answer(s) == Return /\ status' = s

(* POST /orchestrate or /orchestrate_v2.  Version 2 knows no modes and     *)
(* screens no token.                                                       *)
Ask ==
    /\ pc = "idle"
    /\ \E q \in Request :
          /\ q.version = 2 => q.mode = "default" /\ ~q.screened
          /\ req' = q
    /\ pc' = "gather"
    /\ opened' = 0 /\ lost' = 0 /\ status' = "none"
    /\ UNCHANGED <<signals, order, left, around>>

(* What can come back from node n: its answer or nothing.                  *)
Heard(n) ==
    {Unavailable} \cup
    IF n = "shadowglass" THEN {FromImbalance(i) : i \in Imbalances}
    ELSE IF n = "antirug_v3" THEN {FromScreening(b, IF b THEN 90 ELSE 10) : b \in BOOLEAN}
    ELSE {AsSaid(d) : d \in Said[n]}

(* The nodes _gather_signals asks in parallel; version 2 asks shadowglass  *)
(* and fails with it.                                                      *)
AskedAtOnce ==
    IF req.version = 2 THEN {}
    ELSE Configured \ ({"brain"} \cup (IF req.screened THEN {} ELSE {"antirug_v3"}))

HeardFrom(n) == IF n \in AskedAtOnce THEN Heard(n) ELSE {Unavailable}

Gather ==
    /\ pc = "gather"
    /\ \E heard \in [shadowglass : HeardFrom("shadowglass"),
                     spoofhunter : HeardFrom("spoofhunter"),
                     newtonian : HeardFrom("newtonian"),
                     narrative : HeardFrom("narrative"),
                     dreamer : HeardFrom("dreamer"),
                     antirug_v3 : HeardFrom("antirug_v3")] :
          signals' = [n \in AskedAtOnce |-> heard[n]]
    /\ pc' = "brain"
    /\ UNCHANGED <<req, order, left, status, opened, lost, around>>

(* The brain is asked after the others, with what shadowglass said.        *)
(* Version 2 cannot do without it.                                         *)
AskBrain ==
    /\ pc = "brain"
    /\ IF "brain" \in Configured
         THEN \E b \in Heard("brain") :
                 /\ req.version = 2 => b.up
                 /\ signals' = [n \in DOMAIN signals \cup {"brain"} |->
                                   IF n = "brain" THEN b ELSE signals[n]]
         ELSE req.version = 3 /\ UNCHANGED signals
    /\ pc' = "decide"
    /\ UNCHANGED <<req, order, left, status, opened, lost, around>>

(* An answer of an unexpected form raises; in version 2 so does a node     *)
(* that does not answer.  A ValueError is answered with 400.               *)
Raise ==
    /\ pc \in {"gather", "brain", "decide"}
    /\ \E s \in {"400", "502"} : Answer(s)
    /\ UNCHANGED <<opened, lost, around>>

(* Risk of the order, in hundredths of a percent.  Whether the request has *)
(* it scaled by the confidence is left open.                               *)
RiskOf(multiplier, conf) == Clamp((BaseRisk * multiplier * conf) \div 10000, 5, 500)

(* The side_map of _execute_trade.                                         *)
MappedSide(side) == IF side = "SHORT" THEN "sell" ELSE "buy"

(* The engine orchestrate evaluates the signals with: a mode in the        *)
(* request brings the request's threshold with it.                         *)
Decision ==
    IF req.mode = "default" THEN Evaluate(signals, DefaultMode, MinConfidence)
    ELSE Evaluate(signals, req.mode, req.min)

Order(side, risk) ==
    /\ order' = [side |-> side, risk |-> risk]
    /\ left' = Attempts
    /\ pc' = "post"
    /\ UNCHANGED <<req, signals, status>>

Decide ==
    /\ pc = "decide" /\ req.version = 3
    /\ LET d == Decision IN
       IF d.action # "EXECUTE" THEN Answer(d.action)
       ELSE IF req.dry THEN Answer("DRY_RUN")
       ELSE \E scale \in {d.conf, 100} :
               Order(MappedSide(d.side), RiskOf(d.risk, scale))
    /\ UNCHANGED <<opened, lost, around>>

(* run_pipeline after the brain's answer: a threshold of 0 counts as none, *)
(* and map_side raises for anything but a side.                            *)
DecideV2 ==
    /\ pc = "decide" /\ req.version = 2
    /\ LET b == signals["brain"]
           minimum == IF req.min = 0 THEN 55 ELSE req.min
       IN IF b.action # "EXECUTE" \/ b.conf < minimum THEN Answer("SKIPPED")
          ELSE IF b.side \notin {"LONG", "SHORT"} THEN Answer("400")
          ELSE IF req.dry THEN Answer("DRY_RUN")
          ELSE \E scale \in {Clamp(b.conf, 25, 100), 100} :
                  Order(MappedSide(b.side), RiskOf(b.mult, scale))
    /\ UNCHANGED <<opened, lost, around>>

-----------------------------------------------------------------------------
(* The order.  Each attempt takes a token and is one POST.                 *)

Attempt ==
    /\ pc = "post"
    /\ tokens > 0
    /\ tokens' = tokens - 1

(* An attempt that raised a retryable error.                               *)
AttemptLeft(codes) ==
    IF left = 1 THEN \E s \in codes : Answer(s)
    ELSE left' = left - 1 /\ UNCHANGED <<pc, req, signals, order, status>>

(* Version 3 registers what was executed before it answers.                *)
Reply(s) ==
    IF s = "EXECUTED" /\ req.version = 3
      THEN pc' = "register" /\ status' = s /\ UNCHANGED <<req, signals, order, left>>
      ELSE Answer(s)

Elsewhere == UNCHANGED <<watched, loop>>

(* Mutant: an answer without the status SUCCESS is asked for once more.    *)
ExecutedUnlessUnclear ==
    \E succeeded \in BOOLEAN :
        /\ Attempt
        /\ opened' = opened + 1
        /\ IF succeeded \/ left = 1 THEN Reply("EXECUTED") ELSE AttemptLeft({"502"})
        /\ UNCHANGED lost /\ Elsewhere

(* The Executioner opened the position and says so, with SUCCESS or        *)
(* without a status.                                                       *)
Executed ==
    /\ Attempt
    /\ opened' = opened + 1
    /\ Reply("EXECUTED")
    /\ UNCHANGED lost /\ Elsewhere

(* It refused, with a status in the answer.                                *)
Refused ==
    /\ Attempt
    /\ Reply("REJECTED")
    /\ UNCHANGED <<opened, lost>> /\ Elsewhere

(* Mutant: an attempt that failed is not counted.                          *)
RetriesForEver ==
    /\ Attempt
    /\ UNCHANGED <<pc, req, signals, order, status, left, opened, lost>>
    /\ Elsewhere

(* It could not be reached or was overloaded, and did nothing.             *)
NotReached ==
    /\ Attempt
    /\ AttemptLeft({"502"})
    /\ UNCHANGED <<opened, lost>> /\ Elsewhere

(* A status that retry_with_backoff does not repeat.                       *)
Fatal ==
    /\ Attempt
    /\ Answer("502")
    /\ UNCHANGED <<opened, lost>> /\ Elsewhere

(* It opened the position, and the answer timed out, was an error of a     *)
(* proxy, or could not be read (which is a ValueError).                    *)
AnswerLost ==
    /\ Attempt
    /\ opened' = opened + 1
    /\ lost' = lost + 1
    /\ AttemptLeft({"400", "502"})
    /\ Elsewhere

(* AsyncRateLimiter.acquire adds what the time since its last call allows. *)
Refill ==
    /\ tokens < Burst
    /\ tokens' = tokens + 1
    /\ UNCHANGED <<pc, req, signals, order, left, status, watched, loop,
                   opened, lost>>

(* Another request takes a token of the same limiter.                      *)
TokenTaken ==
    /\ tokens > 0
    /\ tokens' = tokens - 1
    /\ UNCHANGED <<pc, req, signals, order, left, status, watched, loop,
                   opened, lost>>

(* apm.register_position, or an exception on the way to it that is only    *)
(* noted in the response.                                                  *)
Register ==
    /\ pc = "register"
    /\ watched' \in {watched, TRUE}
    /\ Return
    /\ UNCHANGED <<status, tokens, loop, opened, lost>>

-----------------------------------------------------------------------------
(* One pass of _babysit_loop.  get_active returns a dict and the loop      *)
(* takes its keys for positions: with a position in it pos["position_id"]  *)
(* raises before anything is asked, the exception is logged, and the loop  *)
(* sleeps.                                                                 *)
BabysitPass ==
    /\ loop' = IF watched THEN "error" ELSE "no positions"
    /\ UNCHANGED <<pc, req, signals, order, left, status, tokens, watched,
                   opened, lost>>

Post == Executed \/ Refused \/ NotReached \/ Fatal \/ AnswerLost

Next ==
    \/ Ask \/ Gather \/ AskBrain \/ Raise \/ Decide \/ DecideV2
    \/ Post \/ Register
    \/ Refill \/ TokenTaken
    \/ BabysitPass

(* The event loop runs what is ready, and every wait for a node has a      *)
(* timeout.  A request is not kept from its token for ever by others.      *)
Fairness ==
    /\ WF_vars(Gather) /\ WF_vars(AskBrain) /\ WF_vars(Decide \/ DecideV2)
    /\ SF_vars(Post) /\ WF_vars(Register)
    /\ WF_vars(Refill) /\ WF_vars(BabysitPass)

Spec == Init /\ [][Next]_vars /\ Fairness

-----------------------------------------------------------------------------
(* A request opens one position, and one more for each answer of the       *)
(* Executioner that was lost: nothing else makes retry_with_backoff send   *)
(* the POST again after it took effect (maestro_v3.py:515-526,             *)
(* maestro_pipeline.py:182).                                               *)
OneOrderPerRequest == opened <= 1 + lost

(* What has to be true of the signals for an order: nobody who may veto    *)
(* did, everybody who is required answered, somebody confident enough said *)
(* this side, and the mode's idea of agreement holds.                      *)
OnSide(side) == {n \in Executing(signals) : MappedSide(signals[n].side) = side}

Threshold ==
    IF req.version = 2 THEN (IF req.min = 0 THEN 55 ELSE req.min)
    ELSE IF req.mode = "default" THEN MinConfidence ELSE req.min

Justified ==
    LET mode == IF req.mode = "default" THEN DefaultMode ELSE req.mode
        with == OnSide(order.side)
        against == Executing(signals) \ with
    IN /\ ~req.dry
       /\ \A n \in SurvivalNodes \cap DOMAIN signals :
             signals[n].up => signals[n].action # "KILL"
       /\ \E n \in with : signals[n].conf >= Threshold
       /\ req.version = 3 => RequiredAnswered(signals)
       /\ req.version = 3 /\ mode = "AND" => against = {}
       /\ req.version = 3 /\ mode = "MAJORITY" =>
             Cardinality(with) > Cardinality(against)

(* Whatever nodes are down, whatever the mode and the weights: an order    *)
(* is sent only if the signals justify it (confluence.py:126-332,          *)
(* maestro_pipeline.py:139-171).                                           *)
OrdersAreJustified == pc = "post" => Justified

(* Every request is answered, whatever the nodes do (maestro_v3.py:581).   *)
EveryRequestIsAnswered == pc # "idle" ~> pc = "idle"

=============================================================================
