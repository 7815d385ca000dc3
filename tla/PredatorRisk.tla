---------------------------- MODULE PredatorRisk ----------------------------
(***************************************************************************)
(* RiskManager of predator-v4 (risk/manager.py) as operators on its record.*)
(*                                                                         *)
(* Times are kept relative to now: dayAge is now - day_start_ts and stops  *)
(* counting when it exceeds a day; left is what remains until pause_until. *)
(* daily_pnl is equity - dayStart: both change by the same amount in       *)
(* record_trade and daily_pnl is reset when dayStart becomes the equity.   *)
(***************************************************************************)
EXTENDS Integers

CONSTANTS
    Capital,          \* capital
    MaxDrawdownPct,   \* max_drawdown_pct
    DailyLossPct,     \* daily_loss_pct
    MaxConcurrent,    \* max_concurrent
    PauseAfter,       \* pause_after_losses
    PauseDuration,    \* pause_duration_s, in ticks
    Day               \* 86400 seconds, in ticks

ASSUME RiskAssumption ==
    /\ Capital \in Nat \ {0}
    /\ MaxDrawdownPct \in 1..100
    /\ DailyLossPct \in 1..100
    /\ MaxConcurrent \in Nat \ {0}
    /\ PauseAfter \in Nat \ {0}
    /\ PauseDuration \in Nat \ {0}
    /\ Day \in Nat /\ PauseDuration <= Day

Risk == [equity : Int, peak : Int, dayStart : Int, dayAge : 0..Day + 1,
         losses : Nat, paused : BOOLEAN, left : 0..Day, shutdown : BOOLEAN,
         open : Int]

FreshRisk ==
    [equity |-> Capital, peak |-> Capital, dayStart |-> Capital, dayAge |-> 0,
     losses |-> 0, paused |-> FALSE, left |-> 0, shutdown |-> FALSE, open |-> 0]

(* record_trade.                                                           *)
AfterTrade(r, pnl) ==
    LET equity == r.equity + pnl
    IN  [r EXCEPT !.equity = equity,
                  !.losses = IF pnl > 0 THEN 0 ELSE @ + 1,
                  !.peak = IF equity > @ THEN equity ELSE @]

-----------------------------------------------------------------------------
(* check_allowed.  Its first half: the day ends, an expired pause ends.    *)
DrawdownReached(r) == (r.peak - r.equity) * 100 >= MaxDrawdownPct * r.peak

DailyLossReached(r) ==
    (r.dayStart - r.equity) * 100 >= DailyLossPct * r.dayStart

NewDay(r) ==
    IF r.dayAge > Day THEN [r EXCEPT !.dayStart = r.equity, !.dayAge = 0] ELSE r

InPause(r) == r.paused /\ r.left > 0

Pause(r, duration) == [r EXCEPT !.paused = TRUE, !.left = duration]

(* Mutant: the losses that led to a pause are still on record after it.    *)
StreakPausesAgain(r) ==
    IF r.shutdown THEN r
    ELSE IF InPause(r) THEN NewDay(r)
    ELSE LET s == [NewDay(r) EXCEPT !.paused = FALSE]
         IN  IF DrawdownReached(s) THEN [s EXCEPT !.shutdown = TRUE]
             ELSE IF DailyLossReached(s) THEN Pause(s, Day)
             ELSE IF s.losses >= PauseAfter THEN Pause(s, PauseDuration)
             ELSE s

(* What asking does, to a risk manager of which get_status asks as well.   *)
AfterCheck(r) ==
    IF r.shutdown THEN r
    ELSE IF InPause(r) THEN NewDay(r)
    ELSE LET s == [NewDay(r) EXCEPT !.paused = FALSE]
         IN  IF DrawdownReached(s) THEN [s EXCEPT !.shutdown = TRUE]
             ELSE IF DailyLossReached(s) THEN Pause(s, Day)
             ELSE IF s.losses >= PauseAfter
               THEN [Pause(s, PauseDuration) EXCEPT !.losses = 0]
             ELSE s

(* What stops a trade, whoever looks: nothing else does, but the number of *)
(* open positions.                                                         *)
Stopped(r) ==
    \/ r.shutdown
    \/ InPause(r)
    \/ DrawdownReached(r)
    \/ DailyLossReached(NewDay(r))
    \/ r.losses >= PauseAfter

(* The answer of check_allowed.                                            *)
Allowed(r) == ~Stopped(r) /\ r.open < MaxConcurrent

AfterTick(r) ==
    [r EXCEPT !.dayAge = IF @ <= Day THEN @ + 1 ELSE @,
              !.left = IF @ > 0 THEN @ - 1 ELSE 0]
=============================================================================
