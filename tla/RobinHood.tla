------------------------------ MODULE RobinHood ------------------------------
(***************************************************************************)
(* One process and its risk engine: trades are opened when the engine      *)
(* allows it, with a size it allows, and recorded when they end.           *)
(*                                                                         *)
(* The event loop switches only at awaits.  Between the two awaits of      *)
(* max_order_size and record_trade a trade is in flight, and the engine    *)
(* may be asked by a heartbeat, told to pause by another module, or run    *)
(* the pause it scheduled itself.                                          *)
(***************************************************************************)
EXTENDS RiskEngine

CONSTANTS
    Balances,    \* free balances the exchange may report, 0: no answer
    MaxGain,     \* the most a triangle may win
    MaxEquity    \* bound: no gain takes the equity above this

ASSUME RobinHoodAssumption ==
    /\ Balances \subseteq Nat
    /\ MaxGain \in Nat
    /\ MaxEquity \in Nat

VARIABLES
    engine,   \* robin_hood.state and the pause task
    stake,    \* capital of the triangle in flight, 0 when there is none
    misled    \* history: the largest loss that was recorded and not made

vars == <<engine, stake, misled>>

TypeOK ==
    /\ engine \in Engine
    /\ stake \in Nat
    /\ misled \in Nat

Init ==
    /\ \E balance \in Balances : engine = FreshEngine(balance)
    /\ stake = 0
    /\ misled = 0

(* is_allowed, from a heartbeat's summary or a message that is then dropped*)
Ask ==
    /\ engine' = AfterAsking(engine)
    /\ UNCHANGED <<stake, misled>>

(* Mutant: the size is taken from max_order_size without asking whether a  *)
(* trade is allowed.                                                       *)
OpenUnasked ==
    /\ stake = 0
    /\ \E size \in MinOrder..OrderSize(engine) : stake' = size
    /\ UNCHANGED <<engine, misled>>

(* _execute_triangle: the size is the smaller of what the opportunity      *)
(* needs and max_order_size, and less than MinOrder is not worth it.       *)
OpenTrade ==
    /\ stake = 0
    /\ Allowed(engine)
    /\ \E size \in MinOrder..OrderSize(engine) : stake' = size
    /\ engine' = AfterAsking(engine)
    /\ UNCHANGED misled

Recorded(pnl) ==
    /\ pnl <= 0 \/ engine.equity + pnl <= MaxEquity
    /\ engine' = AfterTrade(engine, pnl)

Greater(a, b) == IF a > b THEN a ELSE b

(* record_trade with the difference of the balances before and after the   *)
(* triangle.  It is the triangle's own result, at worst the loss of its    *)
(* whole capital, unless a request failed, which returns 0.0, or another   *)
(* process moved money of the account in between: then it is the difference*)
(* of any two balances.                                                    *)
CloseTrade ==
    /\ stake > 0
    /\ \/ /\ \E pnl \in -stake..MaxGain : Recorded(pnl)
          /\ UNCHANGED misled
       \/ \E before, after \in Balances :
             /\ Recorded(after - before)
             /\ misled' = Greater(misled, before - after)
    /\ stake' = 0

TriggerPause ==
    /\ engine' = AfterPause(engine)
    /\ UNCHANGED <<stake, misled>>

RunPauseTask ==
    /\ engine.task
    /\ engine' = AfterTask(engine)
    /\ UNCHANGED <<stake, misled>>

(* The process ends and is started again, and initialize reads the balance *)
(* of the account anew.  A triangle that was in flight is not resumed.     *)
Restart ==
    /\ \E balance \in Balances : engine' = FreshEngine(balance)
    /\ stake' = 0
    /\ misled' = 0

(* A turn of the event loop is short against the clock: a scheduled task   *)
(* runs before time passes.                                                *)
Tick ==
    /\ ~engine.task
    /\ engine' = AfterTick(engine)
    /\ UNCHANGED <<stake, misled>>

Next ==
    \/ Ask
    \/ OpenTrade
    \/ CloseTrade
    \/ TriggerPause
    \/ RunPauseTask
    \/ Restart
    \/ Tick

Spec == Init /\ [][Next]_vars

(* The clock advances, the event loop runs the tasks it was given, and the *)
(* heartbeat or the scan loop keeps asking.  Nothing makes a trade open.   *)
Fairness == WF_vars(Tick) /\ WF_vars(RunPauseTask) /\ WF_vars(Ask)

FairSpec == Spec /\ Fairness

-----------------------------------------------------------------------------
(* Properties                                                              *)

(* While the drawdown limit is reached no capital is in a triangle: the    *)
(* limit can only be crossed by the record of the one trade in flight, and *)
(* a new one is refused (robin_hood_risk.py:104-136, 160-190).             *)
NothingAtRiskInDrawdown == LimitReached(engine) => stake = 0

(* The protection of capital the header of robin_hood_risk.py announces,   *)
(* with its overshoot.  However the process's own triangles end, the equity*)
(* is never more than one order of MaxPorCiclo below the limit of          *)
(* MaxDrawdownPct.  A loss that is recorded because a balance could not be *)
(* read, or was changed by another process (base_executor.py:173-174,      *)
(* binance_connector.py:169), may be all there is; but such losses do not  *)
(* add up, and what is below the limit is less than the largest of them.   *)
CapitalProtected ==
    (engine.peak - engine.equity) * 100
        < MaxDrawdownPct * engine.peak + 100 * Greater(MaxPorCiclo, misled)

(* As long as no loss was recorded that was not made, the equity does not  *)
(* fall below 60% of what the limit leaves of the peak either, since an    *)
(* order takes at most 40% of the equity (robin_hood_risk.py:146-147): with*)
(* the default limit 57.6%, so one process that started with the configured*)
(* capital does not reach the threshold of its shutdown.                   *)
MostOfThePeakIsKept ==
    misled = 0 =>
        100 * 100 * engine.equity > 60 * (100 - MaxDrawdownPct) * engine.peak

(* A pause asked for by another module ends: without a drawdown and with   *)
(* the minimum equity, trades are allowed again, unless the limit is       *)
(* reached meanwhile (robin_hood_risk.py:110-117).                         *)
ProtectivePauseEnds ==
    engine.paused ~>
        Allowed(engine) \/ LimitReached(engine) \/ BelowShutdown(engine)

=============================================================================
