------------------------------ MODULE Predator ------------------------------
(***************************************************************************)
(* The predator-v4 engine in live mode: the signal loop (core.py), the     *)
(* orders it waits for (exchange/executor.py), the positions it tracks,    *)
(* the exits (strategy/exits.py) and the dashboard that asks the risk      *)
(* manager, too.  Paper mode is the special case that every order fills.   *)
(*                                                                         *)
(* The loop is one coroutine: it visits the symbols in turn and lets other *)
(* coroutines run only while it waits for an order or sleeps.  Prices and  *)
(* signals are nondeterministic, and so is the result of a position.       *)
(***************************************************************************)
EXTENDS PredatorRisk, FiniteSets

CONSTANTS
    Symbols,      \* the number of symbols, numbered in the order of the loop
    Quantities,   \* what compute_position_size may return, in lots
    MaxLoss,      \* the most a position may lose: its notional and its fees
    MaxGain,      \* the most a position may win
    MaxHold,      \* max_hold_s, in ticks
    ExitPause,    \* cooldown_s of the exit manager, in ticks
    MaxEquity,    \* bound: no gain takes the equity above this
    MaxHeld       \* bound: lots of one symbol the account can hold

ASSUME PredatorAssumption ==
    /\ Symbols \in Nat \ {0}
    /\ Quantities \subseteq Nat \ {0}
    /\ MaxLoss \in Nat /\ MaxGain \in Nat
    /\ MaxHold \in Nat \ {0}
    /\ ExitPause \in Nat
    /\ MaxEquity \in Nat /\ MaxHeld \in Nat

Syms == 1..Symbols

VARIABLES
    risk,        \* the RiskManager
    position,    \* positions: what the engine believes to hold of each symbol
    turn,        \* the symbol the signal loop looks at
    order,       \* the order the loop waits for
    cooldown,    \* ticks until the exit manager's cooldown is over
    stopped,     \* whether the engine has shut down
    held,        \* the exchange: what the account holds of each symbol
    doubtful     \* history: symbols of which an answer was lost or empty

vars == <<risk, position, turn, order, cooldown, stopped, held, doubtful>>

NoOrder == [kind |-> "none", qty |-> 0]

(* priced: entry_price is not 0.                                           *)
Closed == [open |-> FALSE, qty |-> 0, age |-> 0, priced |-> TRUE]

TypeOK ==
    /\ risk \in Risk
    /\ position \in [Syms -> [open : BOOLEAN, qty : Nat, age : 0..MaxHold,
                              priced : BOOLEAN]]
    /\ turn \in Syms
    /\ order \in [kind : {"none", "entry", "exit"}, qty : Nat]
    /\ cooldown \in 0..ExitPause
    /\ stopped \in BOOLEAN
    /\ held \in [Syms -> Nat]
    /\ doubtful \subseteq Syms

Init ==
    /\ risk = FreshRisk
    /\ position = [s \in Syms |-> Closed]
    /\ turn = 1
    /\ order = NoOrder
    /\ cooldown = 0
    /\ stopped = FALSE
    /\ held = [s \in Syms |-> 0]
    /\ doubtful = {}

-----------------------------------------------------------------------------
(* The signal loop                                                         *)

(* A pass that has begun goes on to the last symbol, even in an engine that*)
(* was stopped meanwhile.                                                  *)
Looking == order = NoOrder /\ (~stopped \/ turn # 1)

NextTurn == turn' = IF turn = Symbols THEN 1 ELSE turn + 1

(* A symbol without a position: no book yet, the risk manager refuses, the *)
(* cooldown is on, or no signal.  Only asking the risk manager has effects.*)
NoEntry ==
    /\ Looking
    /\ ~position[turn].open
    /\ risk' \in {risk, AfterCheck(risk)}
    /\ NextTurn
    /\ UNCHANGED <<position, order, cooldown, stopped, held, doubtful>>

(* Mutant: the risk manager is asked, but its answer is not looked at.     *)
EnterUnasked ==
    /\ Looking
    /\ ~position[turn].open
    /\ cooldown = 0
    /\ risk' = AfterCheck(risk)
    /\ \E qty \in Quantities : order' = [kind |-> "entry", qty |-> qty]
    /\ UNCHANGED <<position, turn, cooldown, stopped, held, doubtful>>

(* A position whose symbol has no book at the moment, or none with two     *)
(* sides, is passed over: whatever its age is, nobody looks at it.         *)
NoBook ==
    /\ Looking
    /\ position[turn].open
    /\ NextTurn
    /\ UNCHANGED <<risk, position, order, cooldown, stopped, held, doubtful>>

(* Every filter passes and the entry order is sent.                        *)
Enter ==
    /\ Looking
    /\ ~position[turn].open
    /\ Allowed(risk)
    /\ cooldown = 0
    /\ risk' = AfterCheck(risk)
    /\ \E qty \in Quantities : order' = [kind |-> "entry", qty |-> qty]
    /\ UNCHANGED <<position, turn, cooldown, stopped, held, doubtful>>

(* Mutant: nothing ends a position but a signal.                           *)
HoldPastItsTime ==
    /\ Looking
    /\ position[turn].open /\ position[turn].priced
    /\ NextTurn
    /\ UNCHANGED <<risk, position, order, cooldown, stopped, held, doubtful>>

(* A position is kept, unless its time is up.                              *)
Hold ==
    /\ Looking
    /\ position[turn].open /\ position[turn].priced
    /\ position[turn].age < MaxHold
    /\ NextTurn
    /\ UNCHANGED <<risk, position, order, cooldown, stopped, held, doubtful>>

(* The exit manager decides to exit: a stop, a trailing stop, a reversal   *)
(* or the end of its time.                                                 *)
Exit ==
    /\ Looking
    /\ position[turn].open /\ position[turn].priced
    /\ order' = [kind |-> "exit", qty |-> position[turn].qty]
    /\ UNCHANGED <<risk, position, turn, cooldown, stopped, held, doubtful>>

(* An entry price of 0 makes the exit manager divide by zero: the pass is  *)
(* broken off, and the next one begins with the first symbol.              *)
PassFails ==
    /\ Looking
    /\ position[turn].open /\ ~position[turn].priced
    /\ turn' = 1
    /\ UNCHANGED <<risk, position, order, cooldown, stopped, held, doubtful>>

-----------------------------------------------------------------------------
(* Answers to a market order                                               *)

Executable(kind, qty) ==
    IF kind = "entry" THEN held[turn] + qty <= MaxHeld ELSE held[turn] >= qty

HeldAfter(kind, qty) ==
    [held EXCEPT ![turn] = IF kind = "entry" THEN @ + qty ELSE @ - qty]

(* The bookkeeping of a successful entry of qty.                           *)
Opened(qty) ==
    /\ position' = [position EXCEPT ![turn] =
                       [open |-> TRUE, qty |-> qty, age |-> 0, priced |-> qty > 0]]
    /\ risk' = [risk EXCEPT !.open = @ + 1]
    /\ UNCHANGED cooldown

(* Mutant: a loss that ends a position leaves it among the open ones.      *)
CloseKeepsCount(pnl) ==
    /\ position' = [position EXCEPT ![turn] = Closed]
    /\ risk' = [AfterTrade(risk, pnl) EXCEPT !.open = IF pnl < 0 THEN @ ELSE @ - 1]
    /\ cooldown' = ExitPause

(* The bookkeeping of a successful exit, of the whole position whatever    *)
(* was executed.                                                           *)
ClosedWith(pnl) ==
    /\ position' = [position EXCEPT ![turn] = Closed]
    /\ risk' = [AfterTrade(risk, pnl) EXCEPT !.open = @ - 1]
    /\ cooldown' = ExitPause

Answered == order' = NoOrder /\ NextTurn /\ UNCHANGED stopped

Results == {pnl \in -MaxLoss..MaxGain : pnl <= 0 \/ risk.equity + pnl <= MaxEquity}

EntryFilled ==
    /\ order.kind = "entry"
    /\ Executable("entry", order.qty)
    /\ Opened(order.qty)
    /\ held' = HeldAfter("entry", order.qty)
    /\ Answered
    /\ UNCHANGED doubtful

ExitFilled ==
    /\ order.kind = "exit"
    /\ Executable("exit", order.qty)
    /\ \E pnl \in Results : ClosedWith(pnl)
    /\ held' = HeldAfter("exit", order.qty)
    /\ Answered
    /\ UNCHANGED doubtful

(* The order expired with less than all, perhaps nothing, executed: the    *)
(* answer has an orderId, so it is a success.  Without fills the price is  *)
(* 0, and an exit at that price has lost its notional, or won it if it was *)
(* a short position.                                                       *)
EntryExpired ==
    /\ order.kind = "entry"
    /\ Executable("entry", order.qty)
    /\ \E qty \in 0..order.qty - 1 :
          /\ Opened(qty)
          /\ held' = HeldAfter("entry", qty)
          /\ doubtful' = IF qty = 0 THEN doubtful \cup {turn} ELSE doubtful
    /\ Answered

ExitExpired ==
    /\ order.kind = "exit"
    /\ Executable("exit", order.qty)
    /\ \E qty \in 0..order.qty - 1 :
          /\ \E pnl \in Results : /\ qty = 0 => pnl \in {-MaxLoss, MaxLoss}
                               /\ ClosedWith(pnl)
          /\ held' = HeldAfter("exit", qty)
    /\ Answered
    /\ UNCHANGED doubtful

(* Rejected, or the request did not reach the exchange.                    *)
Rejected ==
    /\ order.kind # "none"
    /\ Answered
    /\ UNCHANGED <<risk, position, cooldown, held, doubtful>>

(* Executed, but the answer did not arrive: taken for a failure.           *)
AnswerLost ==
    /\ order.kind # "none"
    /\ Executable(order.kind, order.qty)
    /\ held' = HeldAfter(order.kind, order.qty)
    /\ doubtful' = doubtful \cup {turn}
    /\ Answered
    /\ UNCHANGED <<risk, position, cooldown>>

-----------------------------------------------------------------------------
(* The other coroutines                                                    *)

(* The dashboard or the daily summary asks the risk manager; the dashboard *)
(* divides by the entry prices first, and its failure ends the engine.     *)
Dashboard ==
    /\ ~stopped
    /\ IF \E s \in Syms : position[s].open /\ ~position[s].priced
         THEN stopped' = TRUE /\ UNCHANGED risk
         ELSE risk' = AfterCheck(risk) /\ UNCHANGED stopped
    /\ UNCHANGED <<position, turn, order, cooldown, held, doubtful>>

(* SIGINT or SIGTERM: _request_stop.                                       *)
RequestStop ==
    /\ stopped' = TRUE
    /\ UNCHANGED <<risk, position, turn, order, cooldown, held, doubtful>>

Tick ==
    /\ risk' = AfterTick(risk)
    /\ position' = [s \in Syms |->
          [position[s] EXCEPT !.age = IF position[s].open /\ @ < MaxHold THEN @ + 1 ELSE @]]
    /\ cooldown' = IF cooldown > 0 THEN cooldown - 1 ELSE 0
    /\ UNCHANGED <<turn, order, stopped, held, doubtful>>

(* The exit manager looks at a position.                                   *)
LookedAt == Hold \/ Exit \/ PassFails

LoopStep == NoEntry \/ NoBook \/ Enter \/ LookedAt

Answer ==
    \/ EntryFilled \/ ExitFilled \/ EntryExpired \/ ExitExpired
    \/ Rejected \/ AnswerLost

Next == LoopStep \/ Answer \/ Dashboard \/ RequestStop \/ Tick

Spec == Init /\ [][Next]_vars

(* The clock advances, the coroutines run and every request ends.  No      *)
(* symbol is without a book whenever the loop comes to it, and of the exit *)
(* orders that are sent again and again one is filled.                     *)
Fairness ==
    /\ WF_vars(Tick)
    /\ WF_vars(Dashboard)
    /\ WF_vars(~stopped /\ LoopStep)
    /\ WF_vars(~stopped /\ Answer)
    /\ \A s \in Syms : SF_vars(~stopped /\ turn = s /\ LookedAt)
                      /\ SF_vars(~stopped /\ turn = s /\ ExitFilled)

FairSpec == Spec /\ Fairness

-----------------------------------------------------------------------------
(* Properties                                                              *)

OpenSyms == {s \in Syms : position[s].open}

(* The number the risk manager limits is the number of positions there     *)
(* are, and an order in flight never makes it exceed the limit, although   *)
(* the check and the bookkeeping are separated by an await                 *)
(* (core.py:262-272, 299-325).                                             *)
CountIsRight ==
    /\ risk.open = Cardinality(OpenSyms)
    /\ risk.open + (IF order.kind = "entry" THEN 1 ELSE 0) <= MaxConcurrent

(* When a fill opens a position nothing has stopped trading meanwhile,     *)
(* whatever the dashboard and the clock did during the await: no shutdown, *)
(* no pause, no limit reached (manager.py:118-169).                        *)
NoEntryWhileStopped ==
    [][\A s \in Syms : ~position[s].open /\ position'[s].open => ~Stopped(risk)]_vars

(* A losing streak goes on past the limit for at most the positions that   *)
(* were open when it was reached (manager.py:99-110, 155-163).             *)
StreakIsBounded == risk.losses < PauseAfter + MaxConcurrent

(* The equity never falls further below the limit of the drawdown than the *)
(* open positions can lose together (manager.py:118-169).                  *)
DrawdownIsBounded ==
    (risk.peak - risk.equity) * 100
        < MaxDrawdownPct * risk.peak + 100 * MaxLoss * MaxConcurrent

(* Every pause ends, unless the engine shuts down: neither the losses that *)
(* caused it nor those of the positions that end meanwhile renew it for    *)
(* ever (manager.py:125-163).                                              *)
PauseEnds == risk.paused ~> ~risk.paused \/ risk.shutdown \/ stopped

(* exits.py:14: "force exit at 180s".  A position ends at last, though not *)
(* at 180s, while the engine runs, as long as no answer was lost and no    *)
(* order expired without fills: a missing book and an order that is refused*)
(* or expires put the exit off.                                            *)
ForcedExit ==
    \A s \in Syms :
        position[s].open ~> ~position[s].open \/ stopped \/ doubtful # {}

=============================================================================
