------------------------------ MODULE Backtest -------------------------------
(***************************************************************************)
(* services/backtester.py: BacktestEngine.run replays ticks through a real *)
(* ActivePositionManager.  The engine keeps its own table of active trades *)
(* and its own log beside the manager's positions and its list of exits,   *)
(* and gives every tick to each of its positions before it opens a new one.*)
(*                                                                         *)
(* The manager reads the wall clock, which has nothing to do with the time *)
(* of the ticks (run computes sim_elapsed_s and does not use it).  The     *)
(* entry strategy is any: it asks for a LONG, a SHORT or nothing.  Sizes   *)
(* and the equity, the product of the results in the log, are left out.    *)
(***************************************************************************)
EXTENDS PositionManager, FiniteSets

CONSTANTS
    Start, Moves,   \* the first price, and the steps of the path
    Ticks,          \* what else a tick can carry: lean, ghost, kill, volume
    Length,         \* bound: ticks in a replay
    MaxConcurrent,  \* max_concurrent
    MaxTrades,      \* bound: positions in a replay
    MaxWall,        \* bound: what the wall clock can show
    DefaultAtr,     \* atr_default, percent
    Lookback,       \* of _estimate_atr, in ticks
    Cost            \* 2 * (fee_pct + slippage_pct), in hundredths of a percent

ASSUME BacktestAssumption ==
    /\ Moves \subseteq Int /\ Moves # {}
    /\ Start \in Nat \ {0} /\ \A m \in Moves : Start + Length * m > 0
    /\ Ticks \subseteq [lean : {"even", "bid", "ask"}, ghost : {"none", "bid", "ask"},
                        kill : BOOLEAN, volume : Nat]
    /\ {Length, MaxConcurrent, MaxTrades} \subseteq Nat \ {0}
    /\ {MaxWall, DefaultAtr, Lookback, Cost} \subseteq Nat

VARIABLES
    idx,        \* how many ticks were replayed
    price,      \* of the last of them
    recent,     \* the prices of the last of them, as far as _estimate_atr looks back
    wall,       \* the wall clock
    positions,  \* the manager's positions, by the number they were given
    closed,     \* the manager's exits: the number, the reason and its details
    active,     \* the engine's table: the best and the worst gain of a trade
    trades,     \* the engine's log
    opened,     \* positions registered so far
    done

backtestVars == <<idx, price, recent, wall, positions, closed, active, trades, opened, done>>

Sides == {"LONG", "SHORT"}

Empty == [i \in {} |-> 0]

BacktestInit ==
    /\ idx = 0 /\ price = Start /\ recent = <<>>
    /\ wall = 0 /\ opened = 0 /\ done = FALSE
    /\ positions = Empty /\ active = Empty
    /\ closed = <<>> /\ trades = <<>>

-----------------------------------------------------------------------------
(* The engine's own arithmetic: it does not ask the manager for a result.  *)

TradeGain(side, entry, exit) == IF side = "LONG" THEN exit - entry ELSE entry - exit

(* active is a dict, in the order of the registrations.                    *)
InOrder(S) ==
    CHOOSE s \in [1..Cardinality(S) -> S] : \A i, j \in DOMAIN s : i < j => s[i] < s[j]

(* Mutant: the extremes are updated after the exit was looked for.         *)
ExtremesAreLate(info, p, x, ended) ==
    LET gain == TradeGain(p.side, p.entry, x) IN
    IF ended THEN info
    ELSE [best |-> Larger(info.best, gain), worst |-> -Larger(-info.worst, -gain)]

(* max_fav and max_adv after a price, whether or not the trade ends there. *)
Extremes(info, p, x, ended) ==
    LET gain == TradeGain(p.side, p.entry, x) IN
    [best |-> Larger(info.best, gain), worst |-> -Larger(-info.worst, -gain)]

(* pnl_pct: a gain less fees and slippage, here in ten thousandths of the  *)
(* unit of price.                                                          *)
Net(gain, entry) == 10000 * gain - Cost * entry

(* The extremes of a trade are logged as they were seen, its result net.   *)
Record(i, p, info, x, reason) ==
    [id |-> i, reason |-> reason,
     pnl |-> Net(TradeGain(p.side, p.entry, x), p.entry),
     entry |-> p.entry, best |-> info.best, worst |-> info.worst]

(* What the manager writes down of an exit.                                *)
Exit(i, p, x, reason) ==
    [id |-> i, reason |-> reason,
     pnl |-> IF TellsResult(reason) THEN <<Gain(p.side, p.entry, x)>> ELSE <<>>]

(* _estimate_atr, in tenths, of the prices it looks back at: of one tick   *)
(* nothing can be estimated.                                               *)
EstimateAtr(x, seen) ==
    LET high == Max({seen[k] : k \in DOMAIN seen})
        low == Min({seen[k] : k \in DOMAIN seen})
    IN IF Len(seen) < 2 THEN (x * DefaultAtr) \div 10
       ELSE (20 * x * (high - low)) \div (high + low)

(* should_enter of the four strategies, or none of them.                   *)
Signals == Sides \cup {"none"}

(* One iteration of run's loop.                                            *)
Replay(x, tick, now, signal) ==
    LET seen == [i \in DOMAIN positions |-> Follow(positions[i], x, tick)]
        reason == [i \in DOMAIN positions |-> Reason(seen[i], x, tick, now)]
        ended == {i \in DOMAIN positions : reason[i] # "hold"}
        info == [i \in DOMAIN active |-> Extremes(active[i], positions[i], x, i \in ended)]
        kept == DOMAIN active \ ended
        near == LastOf(Append(recent, x), Lookback + 1)
        enters == signal # "none" /\ Cardinality(kept) < MaxConcurrent
        new == IF enters THEN {opened + 1} ELSE {}
        order == InOrder(ended)
    IN /\ price' = x /\ recent' = near
       /\ opened' = opened + Cardinality(new)
       /\ positions' = [i \in (DOMAIN positions \ ended) \cup new |->
                IF i \in new THEN Register(signal, x, EstimateAtr(x, near), now) ELSE seen[i]]
       /\ active' = [i \in kept \cup new |->
                IF i \in new THEN [best |-> 0, worst |-> 0] ELSE info[i]]
       /\ closed' = closed \o [k \in DOMAIN order |->
                Exit(order[k], seen[order[k]], x, reason[order[k]])]
       /\ trades' = trades \o [k \in DOMAIN order |->
                Record(order[k], seen[order[k]], info[order[k]], x, reason[order[k]])]

ReplayTick ==
    /\ idx < Length
    /\ idx' = idx + 1
    /\ wall' \in wall..MaxWall /\ wall' - wall <= 1
    /\ \E move \in (IF idx = 0 THEN {0} ELSE Moves), tick \in Ticks,
          signal \in Signals :
        /\ signal # "none" => opened < MaxTrades
        /\ Replay(price + move, tick, wall', signal)
    /\ UNCHANGED done

(* After the last tick every trade left is closed at the last price, and   *)
(* the manager is told so.                                                 *)
ForceClose ==
    /\ idx = Length /\ ~done
    /\ done' = TRUE
    /\ LET order == InOrder(DOMAIN active) IN
        /\ trades' = trades \o [k \in DOMAIN order |->
                Record(order[k], positions[order[k]], active[order[k]], price, "forced_close_eod")]
        /\ closed' = closed \o [k \in DOMAIN order |->
                Exit(order[k], positions[order[k]], price, "manual_exit")]
    /\ positions' = [i \in DOMAIN positions \ DOMAIN active |-> positions[i]]
    /\ UNCHANGED <<idx, price, recent, wall, active, opened>>

BacktestNext == ReplayTick \/ ForceClose

BacktestSpec == BacktestInit /\ [][BacktestNext]_backtestVars

-----------------------------------------------------------------------------
(* What a replay promises.                                                 *)

(* The engine's log and the manager's list of exits are two accounts of    *)
(* the same replay: the same positions in the same order, each once, for   *)
(* the same reason (a forced close is a manual exit to the manager); the   *)
(* log's result is the manager's, wherever the manager tells one, less the *)
(* costs, and but for them within the extremes the engine has seen; what   *)
(* neither has ended both still hold.                                      *)
LogAgreesWithManager ==
    /\ Len(trades) = Len(closed)
    /\ \A k \in DOMAIN trades :
        LET t == trades[k]
            c == closed[k]
        IN /\ t.id = c.id
           /\ c.reason = IF t.reason = "forced_close_eod" THEN "manual_exit" ELSE t.reason
           /\ c.pnl # <<>> => t.pnl = Net(c.pnl[1], t.entry)
           /\ t.pnl \in Net(t.worst, t.entry)..Net(t.best, t.entry)
           /\ \A j \in DOMAIN trades : trades[j].id = t.id => j = k
    /\ DOMAIN positions = 1..opened \ {trades[k].id : k \in DOMAIN trades}
    /\ ~done => DOMAIN active = DOMAIN positions

(* A logged trade loses at most the hard stop, the one move of the price   *)
(* that took it there and its costs, whatever ended it.  The trailing      *)
(* stop, the toxicity and the forced close at the end of the data come     *)
(* after the hard stop or beside it: none of them may leave a trade open   *)
(* beyond it.                                                              *)
TradeLossIsBounded ==
    \A k \in DOMAIN trades : \E m \in Moves :
        trades[k].pnl + 10000 * Larger(m, -m) > -(100 * HardStop + Cost) * trades[k].entry
=============================================================================
