----------------------------- MODULE RiskEngine -----------------------------
(***************************************************************************)
(* The arithmetic and the decisions of core/robin_hood_risk.py as          *)
(* operators on the record of one RobinHoodRisk object.  Each process      *)
(* (scanner, executors) owns one such object; RobinHood.tla studies one of *)
(* them and TriNet.tla a network of them.                                  *)
(*                                                                         *)
(* Money is counted in integer units.  pause_until is kept as `left`, the  *)
(* time that remains until it (0 when it has passed).  `task` records that *)
(* is_allowed scheduled _activate_pause with ensure_future: it runs in the *)
(* next turn of the event loop, and more than one such task does nothing   *)
(* more than one does.                                                     *)
(***************************************************************************)
EXTENDS Integers

CONSTANTS
    CapitalTotal,     \* cfg.CAPITAL_TOTAL
    MaxPorCiclo,      \* cfg.MAX_POR_CICLO
    MaxDrawdownPct,   \* cfg.MAX_DRAWDOWN_PCT
    Cooldown,         \* cfg.ROBIN_HOOD_COOLDOWN_S, in ticks
    MinOrder          \* the executors' and the scanner's limit of 1.0 USDT

ASSUME RiskAssumption ==
    /\ CapitalTotal \in Nat \ {0}
    /\ MaxPorCiclo \in Nat
    /\ MaxDrawdownPct \in 1..100
    /\ Cooldown \in Nat \ {0}
    /\ MinOrder \in Nat \ {0}

Engine == [equity : Int, peak : Int, paused : BOOLEAN, left : 0..Cooldown,
           shutdown : BOOLEAN, task : BOOLEAN]

(* initialize: a balance that could not be read (0.0) leaves the configured*)
(* capital in place.                                                       *)
FreshEngine(balance) ==
    LET capital == IF balance > 0 THEN balance ELSE CapitalTotal
    IN  [equity |-> capital, peak |-> capital, paused |-> FALSE, left |-> 0,
         shutdown |-> FALSE, task |-> FALSE]

-----------------------------------------------------------------------------
(* drawdown_pct and cfg.equity_shutdown, compared without division.        *)
DrawdownAtLeast(r, pct) ==
    r.peak > 0 /\ (r.peak - r.equity) * 100 >= pct * r.peak

LimitReached(r) == DrawdownAtLeast(r, MaxDrawdownPct)

BelowShutdown(r) == r.equity + r.equity < CapitalTotal

InPause(r) == r.paused /\ r.left > 0

(* The value of is_allowed ...                                             *)
Allowed(r) ==
    /\ ~r.shutdown
    /\ ~InPause(r)
    /\ ~LimitReached(r)
    /\ ~BelowShutdown(r)

(* ... and what evaluating it does: an expired pause is lifted, then a     *)
(* reached limit schedules a new pause, and only below the limit is the    *)
(* minimum equity looked at.                                               *)
AfterAsking(r) ==
    IF r.shutdown \/ InPause(r)
      THEN r
      ELSE [r EXCEPT !.paused = FALSE,
                     !.task = @ \/ LimitReached(r),
                     !.shutdown = ~LimitReached(r) /\ BelowShutdown(r)]

(* Mutant: every request starts the pause anew.                            *)
PauseRestarts(r) == [r EXCEPT !.paused = TRUE, !.left = Cooldown]

(* _activate_pause; trigger_pause is this under the lock.                  *)
AfterPause(r) ==
    IF r.paused THEN r ELSE [r EXCEPT !.paused = TRUE, !.left = Cooldown]

(* record_trade.                                                           *)
AfterTrade(r, pnl) ==
    LET equity == r.equity + pnl
        s == [r EXCEPT !.equity = equity,
                       !.peak = IF equity > @ THEN equity ELSE @]
    IN  IF LimitReached(s) THEN AfterPause(s) ELSE s

(* The scheduled task runs.                                                *)
AfterTask(r) == [AfterPause(r) EXCEPT !.task = FALSE]

AfterTick(r) == [r EXCEPT !.left = IF @ > 0 THEN @ - 1 ELSE 0]

-----------------------------------------------------------------------------
(* Mutant: the share of the equity alone limits an order.                  *)
ShareAlone(r) == (r.equity * 40) \div 100

(* max_order_size where is_allowed holds: 40% of the equity, at most       *)
(* MaxPorCiclo, and above a drawdown of 2% reduced in proportion, down to  *)
(* one half at the limit.  Rounded down to whole units.                    *)
BaseSize(r) ==
    LET share == (r.equity * 40) \div 100
    IN  IF share < MaxPorCiclo THEN share ELSE MaxPorCiclo

OrderSize(r) ==
    IF r.peak > 0 /\ (r.peak - r.equity) * 100 > 2 * r.peak
      THEN LET scale == 2 * (MaxDrawdownPct - 2) * r.peak
               cut == (r.peak - r.equity) * 100 - 2 * r.peak
           IN  (BaseSize(r) * (scale - cut)) \div scale
      ELSE BaseSize(r)
=============================================================================
