------------------------------- MODULE ApexNeo -------------------------------
(***************************************************************************)
(* apex-neo: one asyncio process whose signal loop (main.py) reads a       *)
(* price, updates the regime gate (trading/regime.py), asks the risk       *)
(* manager (trading/risk.py) and lets the executor (trading/executor.py)   *)
(* enter or leave the one position it keeps.  The bot, the dashboard and   *)
(* the daily summary run beside it and ask the risk manager too, which     *)
(* changes it.  The exchange executes an order, refuses it, or executes it *)
(* and its answer is lost.                                                 *)
(*                                                                         *)
(* The signal engines are free to say anything.  A price is the gain of    *)
(* the position that is held, in the unit of the equity; a size is one     *)
(* lot.  Time passes while the loop sleeps, one unit a pass.               *)
(***************************************************************************)
EXTENDS Integers

CONSTANTS
    Capital,                \* capital
    MaxDrawdown, Floor,     \* max_drawdown_pct, equity_floor_pct
    PauseDuration,          \* pause_duration_s, in passes
    Cooldown, MinHold,      \* cooldown_s, min_hold_s
    BlockTimeout,           \* block_timeout_s
    StopLoss,               \* stop_loss_pct, as a gain
    TrailWidths,            \* trail_base_pct and trail_max_pct
    Fee,                    \* what _do_exit takes off a result
    MaxGain, MaxMove,       \* bounds: gains, and moves of the price in one pass
    MaxTrades,              \* bound: entries the loop tries
    MaxCrashes              \* bound

ASSUME ApexNeoAssumption ==
    /\ Capital \in Nat \ {0} /\ MaxDrawdown \in 1..100 /\ Floor \in 0..100
    /\ {PauseDuration, Cooldown, MinHold, BlockTimeout} \subseteq Nat
    /\ StopLoss \in Nat \ {0} /\ TrailWidths \subseteq Nat \ {0} /\ Fee \in Nat
    /\ MaxGain \in Nat /\ MaxMove \in Nat
    /\ MaxTrades \in Nat /\ MaxCrashes \in Nat

VARIABLES
    mode,      \* "paper" (or observe) or "live"
    pc,        \* where the signal loop is
    stop,      \* _running is False
    position,  \* the executor's position
    cooldown,  \* passes until on_cooldown is over
    session,   \* session_pnl
    tried,     \* entries so far
    risk,      \* RiskState
    gate,      \* RegimeState, and for how long the score has been low (-1: it is not)
    order,     \* the order in flight
    account,   \* lots the exchange holds for us: long positive, short negative
    wrong,     \* orders whose result the executor took for another
    unjournaled, \* exits that the journal could not record
    crashes

vars == <<mode, pc, stop, position, cooldown, session, tried, risk, gate, order,
          account, wrong, unjournaled, crashes>>

engine == <<position, cooldown, session, tried>>
outside == <<account, wrong, crashes, mode>>

Sides == {"long", "short"}
Flat == [side |-> "none", gain |-> 0, peak |-> 0, hold |-> 0]
NoOrder == [kind |-> "none", side |-> "none", gain |-> 0]
Sign(side) == IF side = "long" THEN 1 ELSE IF side = "short" THEN -1 ELSE 0
Larger(a, b) == IF a >= b THEN a ELSE b
CountUpTo(n, limit) == IF n < limit THEN n + 1 ELSE limit
CountDown(n) == IF n = 0 THEN 0 ELSE n - 1

(* The most that one trade can lose: the stop is looked at once a pass.    *)
WorstTrade == StopLoss + MaxMove + Fee

TypeOK ==
    /\ mode \in {"paper", "live"} /\ stop \in BOOLEAN
    /\ pc \in {"ticker", "decide", "order", "notice", "asleep", "ended", "down"}
    /\ position.side \in Sides \cup {"none"} /\ position.gain \in -MaxGain..MaxGain
    /\ position.peak \in 0..MaxGain /\ position.hold \in 0..MinHold
    /\ cooldown \in 0..Cooldown /\ tried \in 0..MaxTrades /\ session \in Int
    /\ risk.equity \in Int /\ risk.peak >= Capital /\ risk.equity <= risk.peak
    /\ risk.paused \in BOOLEAN /\ risk.left \in 0..PauseDuration
    /\ gate.blocked \in BOOLEAN /\ gate.since \in 0..BlockTimeout + 1
    /\ gate.low \in -1..BlockTimeout + 1
    /\ order.kind \in {"none", "entry", "exit"} /\ order.side \in Sides \cup {"none"}
    /\ (order.kind # "none") <=> (pc = "order")
    /\ (order.kind = "entry") => (position = Flat)
    /\ (order.kind = "exit") => (position.side = order.side)
    /\ account \in Int /\ wrong \in Nat /\ unjournaled \in Nat /\ crashes \in 0..MaxCrashes

NewRisk == [equity |-> Capital, peak |-> Capital, paused |-> FALSE, left |-> 0]
NewGate == [blocked |-> FALSE, since |-> 0, low |-> -1]

Init ==
    /\ mode \in {"paper", "live"} /\ pc = "ticker" /\ stop = FALSE
    /\ position = Flat /\ cooldown = 0 /\ session = 0 /\ tried = 0
    /\ risk = NewRisk /\ gate = NewGate /\ order = NoOrder
    /\ account = 0 /\ wrong = 0 /\ unjournaled = 0 /\ crashes = 0

-----------------------------------------------------------------------------
(* The risk manager.                                                       *)

InDrawdown(r) == 100 * (r.peak - r.equity) >= MaxDrawdown * r.peak
BelowFloor(r) == 100 * r.equity < Floor * Capital

UpdateEquity(r, pnl) ==
    [r EXCEPT !.equity = @ + pnl, !.peak = Larger(@, r.equity + pnl)]

(* Mutant: a pause that is over means that trading is allowed.             *)
TrustsThePause(r) ==
    IF r.paused /\ r.left > 0 THEN [allowed |-> FALSE, risk |-> r]
    ELSE IF r.paused THEN [allowed |-> TRUE, risk |-> [r EXCEPT !.paused = FALSE]]
    ELSE IF InDrawdown(r) \/ BelowFloor(r)
      THEN [allowed |-> FALSE, risk |-> [r EXCEPT !.paused = TRUE, !.left = PauseDuration]]
    ELSE [allowed |-> TRUE, risk |-> r]

(* check_allowed changes what it asks: a pause that is over ends, and      *)
(* begins anew in the same call while its cause is there.                  *)
CheckAllowed(r) ==
    IF r.paused /\ r.left > 0 THEN [allowed |-> FALSE, risk |-> r]
    ELSE IF InDrawdown(r) \/ BelowFloor(r)
      THEN [allowed |-> FALSE, risk |-> [r EXCEPT !.paused = TRUE, !.left = PauseDuration]]
    ELSE [allowed |-> TRUE, risk |-> [r EXCEPT !.paused = FALSE]]

(* get_status: asked by the dashboard after a pass, by the bot's /status   *)
(* and /pnl, and by the daily summary.                                     *)
GetStatus == risk' = CheckAllowed(risk).risk

-----------------------------------------------------------------------------
(* The regime gate.  The score, smoothed, is low or not.                   *)

LowFor(g, low) == IF low THEN Larger(g.low, 0) ELSE -1

(* Mutant: a new block keeps the time of the last one.                     *)
BlockKeepsTime(g, low) ==
    [blocked |-> low /\ g.since <= BlockTimeout, since |-> g.since, low |-> LowFor(g, low)]

(* update: blocks, unblocks, and lets a block that lasted too long go for  *)
(* one pass; the next pass that is low blocks again, from then on.         *)
UpdateGate(g, low) ==
    LET since == IF low /\ ~g.blocked THEN 0 ELSE g.since IN
    [blocked |-> low /\ since <= BlockTimeout, since |-> since, low |-> LowFor(g, low)]

-----------------------------------------------------------------------------
(* The executor.                                                           *)

(* What the engines say in one pass.                                       *)
Signals == [low : BOOLEAN, toxic : BOOLEAN, against : BOOLEAN, width : TrailWidths,
            wants : Sides \cup {"none"}]

(* check_exit: the stop, toxicity and cascades always, the others after    *)
(* min_hold.  There is no longest time.                                    *)
ShouldExit(p, s) ==
    \/ p.gain <= -StopLoss
    \/ s.toxic
    \/ /\ p.hold >= MinHold
       /\ s.against \/ (p.peak - p.gain >= s.width /\ p.peak > s.width)

(* check_entry: confidence, physics and direction are in s.wants.          *)
ShouldEnter(s, g) ==
    /\ position = Flat /\ cooldown = 0
    /\ ~g.blocked /\ ~s.toxic /\ s.wants # "none"

(* The rest of check_entry when its order is answered.                     *)
Entered(side) ==
    /\ position' = [Flat EXCEPT !.side = side]
    /\ cooldown' = Cooldown
    /\ UNCHANGED <<session, risk, unjournaled>>

(* The rest of _do_exit, whatever became of the order, and what the loop   *)
(* does with its result: a journal that cannot be written to raises, and   *)
(* the risk manager does not hear of the trade.                            *)
Exited(gain) ==
    /\ session' = session + gain - Fee
    /\ position' = Flat
    /\ cooldown' = Cooldown
    /\ \/ /\ risk' = UpdateEquity(risk, gain - Fee)
          /\ pc' = "notice"
          /\ UNCHANGED unjournaled
       \/ /\ unjournaled' = unjournaled + 1
          /\ pc' = "asleep"
          /\ UNCHANGED risk

-----------------------------------------------------------------------------
(* The signal loop.                                                        *)

(* fetch_ticker: a new price, or none. MaxMove bounds the move between two *)
(* prices the engine sees: what the market does while the ticker fails is  *)
(* the move to the next price that is seen, and no price is worse for a    *)
(* position than one that was not seen.                                    *)
Ticker ==
    /\ pc = "ticker"
    /\ \/ pc' = "asleep" /\ UNCHANGED position
       \/ /\ pc' = "decide"
          /\ IF position = Flat THEN UNCHANGED position
             ELSE \E g \in -MaxGain..MaxGain :
                    /\ g - position.gain \in -MaxMove..MaxMove
                    /\ position' = [position EXCEPT !.gain = g, !.peak = Larger(@, g)]
    /\ UNCHANGED <<stop, cooldown, session, tried, risk, gate, order, unjournaled, outside>>

(* From the answer of cross_intel to the order: the gate, the risk check,  *)
(* then the exit branch, or the entry branch of a flat engine.             *)
DecideExit(s) ==
    /\ position # Flat /\ ShouldExit(position, s)
    /\ tried' = tried
    /\ IF mode = "live"
         THEN /\ pc' = "order"
              /\ order' = [kind |-> "exit", side |-> position.side, gain |-> position.gain]
              /\ risk' = CheckAllowed(risk).risk
              /\ UNCHANGED <<position, cooldown, session, unjournaled>>
         ELSE /\ order' = order
              /\ Exited(position.gain)

DecideEntry(s) ==
    /\ position = Flat /\ CheckAllowed(risk).allowed
    /\ ShouldEnter(s, gate') /\ tried < MaxTrades
    /\ tried' = tried + 1
    /\ IF mode = "live"
         THEN /\ pc' = "order"
              /\ order' = [kind |-> "entry", side |-> s.wants, gain |-> 0]
              /\ risk' = CheckAllowed(risk).risk
              /\ UNCHANGED <<position, cooldown, session, unjournaled>>
         ELSE /\ order' = order /\ pc' = "notice"
              /\ Entered(s.wants)

DecideNothing(s) ==
    /\ IF position = Flat
         THEN ~(CheckAllowed(risk).allowed /\ ShouldEnter(s, gate'))
         ELSE ~ShouldExit(position, s)
    /\ pc' = "notice"
    /\ risk' = CheckAllowed(risk).risk
    /\ UNCHANGED <<engine, order, unjournaled>>

Decide ==
    /\ pc = "decide"
    /\ \E s \in Signals :
        /\ gate' = UpdateGate(gate, s.low)
        /\ DecideExit(s) \/ DecideEntry(s) \/ DecideNothing(s)
    /\ UNCHANGED <<stop, outside>>

(* Mutant: the position is closed with another order of its own side.      *)
SameSideAgain(o) == Sign(o.side)

(* The lots an order moves: an exit sells what is long.                    *)
Lots(o) == IF o.kind = "entry" THEN Sign(o.side) ELSE -Sign(o.side)

(* create_market_order returns or raises, with the order done or not.  An  *)
(* entry counts if it returned; the result of an exit is not looked at.    *)
OrderAnswered ==
    /\ pc = "order"
    /\ \E filled, answered \in BOOLEAN :
        /\ answered => filled
        /\ account' = IF filled THEN account + Lots(order) ELSE account
        /\ IF order.kind = "entry"
             THEN /\ wrong' = IF filled /\ ~answered THEN wrong + 1 ELSE wrong
                  /\ pc' = "notice"
                  /\ IF answered THEN Entered(order.side)
                     ELSE UNCHANGED <<position, cooldown, session, risk, unjournaled>>
             ELSE /\ wrong' = IF filled THEN wrong ELSE wrong + 1
                  /\ Exited(order.gain)
    /\ order' = NoOrder
    /\ UNCHANGED <<stop, tried, gate, crashes, mode>>

(* The message is sent, and _update_dashboard asks for the risk status,    *)
(* unless the journal or the state file raised first.                      *)
Dashboard ==
    /\ pc = "notice" /\ pc' = "asleep"
    /\ GetStatus \/ UNCHANGED risk
    /\ UNCHANGED <<stop, engine, gate, order, unjournaled, outside>>

(* The sleep between two passes, and the condition of the loop.            *)
Wake ==
    /\ pc = "asleep"
    /\ pc' = IF stop THEN "ended" ELSE "ticker"
    /\ cooldown' = CountDown(cooldown)
    /\ position' = IF position = Flat THEN Flat
                   ELSE [position EXCEPT !.hold = CountUpTo(@, MinHold)]
    /\ risk' = [risk EXCEPT !.left = CountDown(@)]
    /\ gate' = [gate EXCEPT !.since = CountUpTo(@, BlockTimeout + 1),
                            !.low = IF @ < 0 THEN @ ELSE CountUpTo(@, BlockTimeout + 1)]
    /\ UNCHANGED <<stop, session, tried, order, unjournaled, outside>>

-----------------------------------------------------------------------------
(* Beside the loop.                                                        *)

Up == pc # "down"

(* /status, /pnl, the daily summary.                                       *)
Status ==
    /\ Up /\ GetStatus
    /\ UNCHANGED <<pc, stop, engine, gate, order, unjournaled, outside>>

(* /kill, SIGINT and SIGTERM.  The bot's polling and the dashboard server  *)
(* do not end, so that start never comes to shutdown: the process stays up.*)
RequestStop ==
    /\ Up /\ ~stop /\ stop' = TRUE
    /\ UNCHANGED <<pc, engine, risk, gate, order, unjournaled, outside>>

(* The process dies; an order in flight is executed or not.                *)
Crash ==
    /\ Up /\ crashes < MaxCrashes
    /\ crashes' = crashes + 1
    /\ pc' = "down" /\ order' = NoOrder
    /\ \E filled \in BOOLEAN :
        account' = IF order # NoOrder /\ filled THEN account + Lots(order) ELSE account
    /\ UNCHANGED <<mode, stop, engine, risk, gate, unjournaled, wrong>>

(* A new process knows nothing of the last one's position and drawdown:    *)
(* only the calibration is in the state file.                              *)
Restart ==
    /\ pc = "down" /\ pc' = "ticker" /\ stop' = FALSE
    /\ position' = Flat /\ cooldown' = 0 /\ session' = 0
    /\ risk' = NewRisk /\ gate' = NewGate /\ unjournaled' = 0
    /\ UNCHANGED <<tried, order, outside>>

Loop == Ticker \/ Decide \/ OrderAnswered \/ Dashboard \/ Wake

Next == Loop \/ Status \/ RequestStop \/ Crash \/ Restart

(* The loop is a task of a running event loop, and an order is answered or *)
(* times out (the time limit of ccxt).                                     *)
Spec == Init /\ [][Next]_vars /\ WF_vars(Loop)

-----------------------------------------------------------------------------
(* What the engine promises.                                               *)

(* The result of a session is above the drawdown limit of the best equity, *)
(* less one worst trade: entries stop in a drawdown, pauses that expire    *)
(* and questions from other tasks notwithstanding.  Each exit the journal  *)
(* could not record is one more worst trade that the risk manager does not *)
(* know of.                                                                *)
DrawdownIsBounded ==
    100 * (Capital + session + WorstTrade * (1 + unjournaled))
        > (100 - MaxDrawdown) * risk.peak

(* Two positions at the exchange need a wrong answer or a restart in       *)
(* between: the account never holds more lots, either way, than one and    *)
(* one for each of those.                                                  *)
HoldingIsBounded ==
    LET most == 1 + wrong + crashes IN account \in -most..most

(* An entry order is sent in a low regime only when the score has been low *)
(* for longer than the time-out, which is what the time-out concedes: an   *)
(* old block, ended and begun anew, is not counted in.                     *)
EntriesFitTheRegime ==
    [][(order.kind = "none" /\ order'.kind = "entry")
        => (gate'.low = -1 \/ gate'.low > BlockTimeout)]_vars

=============================================================================
