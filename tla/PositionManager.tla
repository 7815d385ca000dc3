--------------------------- MODULE PositionManager ---------------------------
(***************************************************************************)
(* The ActivePositionManager of apm.py as functions from a position and a  *)
(* tick to what the manager does: the toxicity of the order flow (VPIN),   *)
(* the trailing stop, ghost liquidity, and the checks of process_tick in   *)
(* the order of the code.                                                  *)
(*                                                                         *)
(* Prices are whole numbers.  What the code computes as a share of a price *)
(* is kept in fine units: an ATR in tenths and a stop in hundredths of the *)
(* unit of price.                                                          *)
(***************************************************************************)
EXTENDS Integers, Sequences, SequencesExt

CONSTANTS
    HardStop, TakeProfit, MinMove,  \* percent of the entry price
    AlphaDecay, TimeLimit,          \* of the wall clock
    FirstBucket, Bucket, Samples,   \* of the VPIN: the volume of a bucket before and
                                    \* after so many trades (none: it is configured)
    MaxBuckets,                     \* how many buckets are kept
    Toxic, Critical                 \* thresholds of the VPIN, percent

ASSUME PositionManagerAssumption ==
    /\ {HardStop, TakeProfit, MinMove, AlphaDecay, TimeLimit} \subseteq Nat
    /\ {FirstBucket, Bucket, MaxBuckets} \subseteq Nat \ {0} /\ Samples \in Nat
    /\ Toxic \in 1..Critical /\ Critical \in 1..100

Larger(a, b) == IF a >= b THEN a ELSE b

ExitReason == {"macro_kill", "hard_stop", "take_profit", "vpin_critical", "vpin_toxic",
               "ghost_liquidity", "obi_trail_stop", "alpha_decay", "time_limit",
               "manual_exit"}

-----------------------------------------------------------------------------
(* VPINComputer.  A trade that fills several buckets at once puts all its  *)
(* imbalance in the first of them: the others count as balanced.  An       *)
(* imbalance is a share of its bucket, in parts of Whole.                  *)

NoTrades == [last |-> 0, net |-> 0, total |-> 0, imbalances |-> <<>>, samples |-> 0]

Whole == FirstBucket * Bucket

(* Without a configured volume the buckets are small until enough trades   *)
(* have been seen; the trade that completes the samples meets the new size.*)
Volume(samples) == IF samples >= Samples THEN Bucket ELSE FirstBucket

Direction(v, price) ==
    IF v.last = 0 \/ price = v.last THEN 0 ELSE IF price > v.last THEN 1 ELSE -1

LastOf(s, n) == SubSeq(s, Larger(1, Len(s) - n + 1), Len(s))

IngestTrade(v, price, volume) ==
    LET samples == IF v.samples < Samples THEN v.samples + 1 ELSE v.samples
        bucket == Volume(samples)
        net == v.net + Direction(v, price) * volume
        filled == (v.total + volume) \div bucket
        size == IF net >= 0 THEN net ELSE -net
        share == IF size >= bucket THEN Whole ELSE (size * Whole) \div bucket
    IN IF volume = 0 THEN v
       ELSE [last |-> price, net |-> IF filled > 0 THEN 0 ELSE net,
             total |-> (v.total + volume) % bucket, samples |-> samples,
             imbalances |-> LastOf(v.imbalances \o [i \in 1..filled |-> IF i > 1 THEN 0 ELSE share],
                                   MaxBuckets)]

(* Whether the mean of the imbalances reaches a threshold.                 *)
VpinReaches(v, threshold) ==
    LET sum == FoldSeq(LAMBDA x, y : x + y, 0, v.imbalances) IN
    v.imbalances # <<>> /\ 100 * sum >= threshold * Whole * Len(v.imbalances)

-----------------------------------------------------------------------------
(* Positions.  best and stop are gains: distances from the entry price in  *)
(* the direction of the position.                                          *)

Gain(side, entry, price) == IF side = "LONG" THEN price - entry ELSE entry - price

(* register_position, with an ATR of at least a thousandth of the price.   *)
Register(side, price, atr, now) ==
    LET widest == Larger(atr, price \div 100) IN
    [side |-> side, entry |-> price, opened |-> now, vpin |-> NoTrades,
     atr |-> widest, best |-> 0, stop |-> -12 * widest]

(* DynamicOBITrail.update, in tenths: the book leans against the position  *)
(* ("tight"), for it ("wide"), or neither.                                 *)
Multiplier(side, lean) ==
    IF lean = "even" THEN 10
    ELSE IF lean = (IF side = "LONG" THEN "ask" ELSE "bid") THEN 13 ELSE 16

Trail(p, price, lean) ==
    LET best == Larger(p.best, Gain(p.side, p.entry, price)) IN
    [p EXCEPT !.best = best,
              !.stop = Larger(@, 100 * best - Multiplier(p.side, lean) * p.atr)]

(* What process_tick changes before it looks for a reason to exit.         *)
Follow(p, price, tick) ==
    [Trail(p, price, tick.lean) EXCEPT !.vpin = IngestTrade(@, price, tick.volume)]

(* Mutant: the loss is looked at in the direction of a LONG.               *)
ChecksLongOnly(p, price, tick, now) ==
    LET gain == price - p.entry IN
    << <<"macro_kill", tick.kill>>,
       <<"hard_stop", 100 * gain <= -HardStop * p.entry>>,
       <<"take_profit", 100 * gain >= TakeProfit * p.entry>>,
       <<"obi_trail_stop", 100 * Gain(p.side, p.entry, price) <= p.stop>> >>

(* DynamicOBITrail.is_triggered.                                           *)
Triggered(p, price) == 100 * Gain(p.side, p.entry, price) <= p.stop

(* GhostLiquidityReactor.evaluate: what was ghost on the side that held    *)
(* the position up.  An event that ends no position the tick it comes has  *)
(* the other side, and ends none later.                                    *)
GhostsLeave(p, tick) ==
    \/ p.side = "LONG" /\ tick.ghost = "bid"
    \/ p.side = "SHORT" /\ tick.ghost = "ask"

(* AlphaDecayTimer.update.                                                 *)
Decayed(p, price, now) ==
    now - p.opened >= AlphaDecay /\ 100 * Gain(p.side, p.entry, price) < MinMove * p.entry

(* The checks of process_tick on a followed position, first to last.       *)
Checks(p, price, tick, now) ==
    LET gain == Gain(p.side, p.entry, price) IN
    << <<"macro_kill", tick.kill>>,
       <<"hard_stop", 100 * gain <= -HardStop * p.entry>>,
       <<"take_profit", 100 * gain >= TakeProfit * p.entry>>,
       <<"vpin_critical", VpinReaches(p.vpin, Critical)>>,
       <<"vpin_toxic", VpinReaches(p.vpin, Toxic) /\ gain < 0>>,
       <<"ghost_liquidity", GhostsLeave(p, tick)>>,
       <<"obi_trail_stop", Triggered(p, price)>>,
       <<"alpha_decay", Decayed(p, price, now)>>,
       <<"time_limit", now - p.opened > TimeLimit>> >>

(* The reason process_tick exits for, "hold" if it does not.               *)
Reason(p, price, tick, now) ==
    LET checks == Checks(p, price, tick, now)
        hits == {i \in DOMAIN checks : checks[i][2]}
    IN IF hits = {} THEN "hold"
       ELSE checks[CHOOSE i \in hits : \A j \in hits : i <= j][1]

(* get_stats knows the result of an exit only where _exit was given one.   *)
TellsResult(reason) == reason \in {"hard_stop", "take_profit"}
=============================================================================
