-------------------------- MODULE RobinHood_proofs --------------------------
(***************************************************************************)
(* Type correctness and the bounds on losses of RobinHood.tla, for every   *)
(* configuration that satisfies its assumptions: any capital, order limit, *)
(* drawdown limit and cooldown.                                            *)
(***************************************************************************)
EXTENDS RobinHood, TLAPS

-----------------------------------------------------------------------------
(* What the operators of RiskEngine.tla return, for every engine and every *)
(* configuration.  TriNet_proofs.tla uses these lemmas too.                *)

(* Arithmetic: a fraction of a quantity is at most the quantity.           *)
LEMMA FractionIsSmaller ==
    ASSUME NEW b \in Nat, NEW n \in Int, NEW d \in Nat \ {0}, n <= d
    PROVE  (b * n) \div d \in Int /\ (b * n) \div d <= b
<1> DEFINE q == (b * n) \div d
<1>1. b * n \in Int /\ d \in Int /\ d > 0
  OBVIOUS
<1>2. q \in Int /\ d * q <= b * n
  BY <1>1
<1>3. b * n <= b * d
  <2>1. b * (d - n) >= 0
    <3>1. d - n \in Nat
      OBVIOUS
    <3>2. \A x, y \in Nat : x * y >= 0
      OBVIOUS
    <3> QED BY <3>1, <3>2
  <2>2. b * (d - n) = b * d - b * n
    OBVIOUS
  <2> QED BY <2>1, <2>2
<1>4. d * q <= d * b
  BY <1>1, <1>2, <1>3
<1>5. q <= b
  <2>1. SUFFICES ASSUME q >= b + 1 PROVE FALSE
    BY <1>2
  <2>2. d * (q - b) >= d
    <3>1. q - b - 1 \in Nat
      BY <1>2, <2>1
    <3>2. \A x, y \in Nat : x * y >= 0
      OBVIOUS
    <3>3. d * (q - b - 1) >= 0
      BY <3>1, <3>2
    <3>4. d * (q - b - 1) = d * (q - b) - d
      BY <1>2
    <3> QED BY <1>2, <3>3, <3>4
  <2>3. d * (q - b) = d * q - d * b
    BY <1>2
  <2> QED BY <1>1, <1>2, <1>4, <2>2, <2>3
<1> QED BY <1>2, <1>5

(* The base of an order is at most MaxPorCiclo and 40% of the equity.      *)
LEMMA BaseSizeBounds ==
    ASSUME NEW r \in Engine, 0 < r.equity
    PROVE  /\ BaseSize(r) \in Nat
           /\ BaseSize(r) <= MaxPorCiclo
           /\ 100 * BaseSize(r) <= 40 * r.equity
<1> DEFINE share == (r.equity * 40) \div 100
<1>1. r.equity \in Nat
  BY DEF Engine
<1>2. share \in Nat /\ 100 * share <= 40 * r.equity
  BY <1>1
<1>3. BaseSize(r) = IF share < MaxPorCiclo THEN share ELSE MaxPorCiclo
  BY DEF BaseSize
<1> HIDE DEF share
<1> QED BY <1>1, <1>2, <1>3, RiskAssumption DEF RiskAssumption

(* Below the limit of the drawdown the reduction only makes it smaller.    *)
LEMMA OrderSizeBounds ==
    ASSUME NEW r \in Engine, 0 < r.equity, r.equity <= r.peak, Allowed(r)
    PROVE  OrderSize(r) \in Int /\ OrderSize(r) <= BaseSize(r)
<1> DEFINE loss == (r.peak - r.equity) * 100
           scale == 2 * (MaxDrawdownPct - 2) * r.peak
           cut == loss - 2 * r.peak
           reduced == (BaseSize(r) * (scale - cut)) \div scale
<1>1. r.peak \in Nat /\ r.equity \in Nat /\ MaxDrawdownPct \in Nat /\ r.peak > 0
  BY RiskAssumption DEF Engine, RiskAssumption
<1>2. BaseSize(r) \in Nat
  BY BaseSizeBounds
<1>3. loss \in Int /\ scale \in Int /\ cut \in Int
  BY <1>1
<1>4. CASE loss > 2 * r.peak
  <2>1. MaxDrawdownPct * r.peak \in Int /\ loss < MaxDrawdownPct * r.peak
    BY <1>1 DEF Allowed, LimitReached, DrawdownAtLeast
  <2>2. scale = 2 * (MaxDrawdownPct * r.peak) - 4 * r.peak
    BY <1>1
  <2>3. scale > 0 /\ cut > 0
    BY <1>1, <1>3, <1>4, <2>1, <2>2
  <2>4. reduced \in Int /\ reduced <= BaseSize(r)
    <3>1. scale - cut \in Int /\ scale \in Nat \ {0} /\ scale - cut <= scale
      BY <1>3, <2>3
    <3> HIDE DEF scale, cut
    <3> QED BY <1>2, <3>1, FractionIsSmaller
  <2>5. OrderSize(r) = reduced
    BY <1>1, <1>4 DEF OrderSize
  <2> QED BY <2>4, <2>5
<1>5. CASE ~(loss > 2 * r.peak)
  <2>1. OrderSize(r) = BaseSize(r)
    BY <1>5 DEF OrderSize
  <2> QED BY <1>2, <2>1
<1> QED BY <1>4, <1>5

(* Asking, pausing, the pause task and the clock leave the money alone.    *)
LEMMA MoneyUntouched ==
    ASSUME NEW r \in Engine,
           NEW s \in {AfterAsking(r), AfterPause(r), AfterTask(r), AfterTick(r)}
    PROVE  s \in Engine /\ s.equity = r.equity /\ s.peak = r.peak
<1>1. Cooldown \in 0..Cooldown
  BY RiskAssumption DEF RiskAssumption
<1>2. LimitReached(r) \in BOOLEAN /\ BelowShutdown(r) \in BOOLEAN
  BY DEF LimitReached, DrawdownAtLeast, BelowShutdown
<1>3. CASE s = AfterAsking(r)
  <2>1. (r.task \/ LimitReached(r)) \in BOOLEAN
        /\ (~LimitReached(r) /\ BelowShutdown(r)) \in BOOLEAN
    BY <1>2
  <2> QED BY <1>3, <2>1 DEF AfterAsking, Engine
<1>4. CASE s = AfterPause(r)
  BY <1>1, <1>4 DEF AfterPause, Engine
<1>5. CASE s = AfterTask(r)
  BY <1>1, <1>5 DEF AfterTask, AfterPause, Engine
<1>6. CASE s = AfterTick(r)
  BY <1>6, RiskAssumption DEF AfterTick, Engine, RiskAssumption
<1> QED BY <1>3, <1>4, <1>5, <1>6

(* The bounds, in terms of the product MaxDrawdownPct * peak.              *)
LEMMA LimitAsBound ==
    ASSUME NEW r \in Engine, 0 < r.peak
    PROVE  /\ MaxDrawdownPct * r.peak \in Nat
           /\ MaxDrawdownPct * r.peak > 0
           /\ ~LimitReached(r) => (r.peak - r.equity) * 100 < MaxDrawdownPct * r.peak
           /\ 60 * (100 - MaxDrawdownPct) * r.peak
                 = 6000 * r.peak - 60 * (MaxDrawdownPct * r.peak)
<1>1. r.peak \in Nat \ {0} /\ r.equity \in Int /\ MaxDrawdownPct \in Nat \ {0}
  BY RiskAssumption DEF Engine, RiskAssumption
<1>2. \A x, y \in Nat \ {0} : x * y \in Nat /\ x * y > 0
  OBVIOUS
<1>3. MaxDrawdownPct * r.peak \in Nat /\ MaxDrawdownPct * r.peak > 0
  BY <1>1, <1>2
<1>4. ~LimitReached(r) => (r.peak - r.equity) * 100 < MaxDrawdownPct * r.peak
  BY <1>1, <1>3 DEF LimitReached, DrawdownAtLeast
<1>5. 60 * (100 - MaxDrawdownPct) * r.peak
        = 6000 * r.peak - 60 * (MaxDrawdownPct * r.peak)
  BY <1>1
<1> QED BY <1>3, <1>4, <1>5

(* initialize yields an engine whose peak is its equity.                   *)
LEMMA FreshEngineTyped ==
    ASSUME NEW balance \in Nat, NEW r, r = FreshEngine(balance)
    PROVE  r \in Engine /\ 0 < r.equity /\ r.equity = r.peak
  BY RiskAssumption DEF RiskAssumption, FreshEngine, Engine

(* record_trade adds to the equity and keeps the peak above it.            *)
LEMMA TradeTyped ==
    ASSUME NEW r \in Engine, r.equity <= r.peak, NEW pnl \in Int,
           NEW s, s = AfterTrade(r, pnl)
    PROVE  s \in Engine /\ s.equity = r.equity + pnl /\ s.equity <= s.peak
<1> DEFINE e == r.equity + pnl
           p == IF e > r.peak THEN e ELSE r.peak
           t == [r EXCEPT !.equity = e, !.peak = p]
<1>1. r.equity \in Int /\ r.peak \in Int /\ e \in Int /\ p \in Int
  BY DEF Engine
<1>2. t \in Engine /\ t.equity = e /\ t.peak = p
  BY <1>1 DEF Engine
<1>3. s = t \/ s = AfterPause(t)
  BY DEF AfterTrade
<1>4. e <= p
  BY <1>1
<1> HIDE DEF t, p
<1>5. CASE s = t
  BY <1>2, <1>4, <1>5
<1>6. CASE s = AfterPause(t)
  BY <1>2, <1>4, <1>6, MoneyUntouched
<1> QED BY <1>3, <1>5, <1>6

(* An allowed order has an integer size of at most MaxPorCiclo.            *)
LEMMA AllowedOrder ==
    ASSUME NEW r \in Engine, r.equity <= r.peak, Allowed(r)
    PROVE  OrderSize(r) \in Int /\ OrderSize(r) <= MaxPorCiclo
<1>1. 0 < r.equity
  BY RiskAssumption DEF RiskAssumption, Allowed, BelowShutdown, Engine
<1>2. /\ OrderSize(r) \in Int
      /\ OrderSize(r) <= BaseSize(r)
      /\ BaseSize(r) \in Nat
      /\ BaseSize(r) <= MaxPorCiclo
  BY <1>1, OrderSizeBounds, BaseSizeBounds
<1> QED BY <1>2, RiskAssumption DEF RiskAssumption

-----------------------------------------------------------------------------
(* One engine and its owner.                                               *)

(* What is at stake is one permitted order, and only while the limit of    *)
(* the drawdown has not been reached.                                      *)
StakeIsAnOrder ==
    stake > 0 =>
        /\ ~LimitReached(engine)
        /\ stake <= MaxPorCiclo
        /\ 100 * stake <= 40 * engine.equity

(* The peak is positive and the equity no higher; while capital is at stake*)
(* the equity is positive, too.                                            *)
PeakIsHighest ==
    /\ 0 < engine.peak /\ engine.equity <= engine.peak
    /\ stake > 0 => 0 < engine.equity

IInv ==
    /\ TypeOK
    /\ PeakIsHighest
    /\ StakeIsAnOrder
    /\ CapitalProtected
    /\ MostOfThePeakIsKept

-----------------------------------------------------------------------------
(* What a trade makes of the money, in terms of the loss it may bring.     *)
LEMMA TradeKeepsBounds ==
    ASSUME NEW r \in Engine, 0 < r.peak, r.equity <= r.peak, ~LimitReached(r),
           NEW loss \in Nat, NEW pnl \in Int, -loss <= pnl,
           NEW s, s = AfterTrade(r, pnl)
    PROVE  /\ s \in Engine
           /\ s.equity = r.equity + pnl
           /\ 0 < s.peak /\ s.equity <= s.peak
           /\ s.peak = r.peak \/ s.peak = s.equity
           /\ (s.peak - s.equity) * 100 < MaxDrawdownPct * s.peak + 100 * loss
<1> DEFINE e == r.equity + pnl
           p == IF e > r.peak THEN e ELSE r.peak
           t == [r EXCEPT !.equity = e, !.peak = p]
<1>1. r.equity \in Int /\ r.peak \in Nat /\ e \in Int /\ p \in Int
  BY DEF Engine
<1>2. t \in Engine /\ t.equity = e /\ t.peak = p
  BY <1>1 DEF Engine
<1>3. s \in Engine /\ s.equity = e /\ s.peak = p
  <2>1. s = t \/ s = AfterPause(t)
    BY DEF AfterTrade
  <2> HIDE DEF t
  <2>2. CASE s = t
    BY <1>2, <2>2
  <2>3. CASE s = AfterPause(t)
    BY <1>2, <2>3, MoneyUntouched
  <2> QED BY <2>1, <2>2, <2>3
<1>4. 0 < p /\ e <= p
  BY <1>1
<1>5. /\ MaxDrawdownPct * r.peak \in Nat
      /\ (r.peak - r.equity) * 100 < MaxDrawdownPct * r.peak
  BY LimitAsBound
<1>6. MaxDrawdownPct * p \in Nat /\ MaxDrawdownPct * p > 0
  BY <1>3, <1>4, LimitAsBound
<1>7. CASE e > r.peak
  <2>1. p = e /\ e = r.equity + pnl
    BY <1>7
  <2> HIDE DEF e, p
  <2>2. s.peak - s.equity = 0 /\ 0 < MaxDrawdownPct * s.peak + 100 * loss
    BY <1>1, <1>3, <1>6, <2>1
  <2> QED BY <1>3, <1>4, <2>1, <2>2
<1>8. CASE ~(e > r.peak)
  <2>1. p = r.peak
    BY <1>8
  <2>2. 100 * e >= 100 * r.equity - 100 * loss
    BY <1>1
  <2>3. (r.peak - e) * 100 < MaxDrawdownPct * r.peak + 100 * loss
    BY <1>1, <1>5, <2>2
  <2>4. e = r.equity + pnl
    OBVIOUS
  <2> HIDE DEF e, p
  <2> QED BY <1>3, <1>4, <2>1, <2>3, <2>4
<1> QED BY <1>7, <1>8

(* A trade that loses at most 40% of the equity leaves most of the peak.   *)
LEMMA TradeKeepsMost ==
    ASSUME NEW r \in Engine, 0 < r.equity, r.equity <= r.peak, ~LimitReached(r),
           NEW size \in Nat, 100 * size <= 40 * r.equity,
           NEW e \in Int, r.equity - size <= e,
           NEW s \in Engine, s.equity = e, s.peak = r.peak \/ s.peak = e, 0 < s.peak
    PROVE  /\ 0 < e
           /\ 100 * 100 * e > 60 * (100 - MaxDrawdownPct) * s.peak
<1>1. r.equity \in Nat /\ r.peak \in Nat /\ 0 < r.peak
  BY DEF Engine
<1>2. /\ MaxDrawdownPct * r.peak \in Nat
      /\ (r.peak - r.equity) * 100 < MaxDrawdownPct * r.peak
  BY <1>1, LimitAsBound
<1>3. /\ MaxDrawdownPct * s.peak > 0 /\ MaxDrawdownPct * s.peak \in Nat
      /\ 60 * (100 - MaxDrawdownPct) * s.peak = 6000 * s.peak - 60 * (MaxDrawdownPct * s.peak)
  BY LimitAsBound
<1>4. 0 < e
  BY <1>1
<1>5. CASE s.peak = e
  BY <1>3, <1>4, <1>5
<1>6. CASE s.peak = r.peak
  <2>1. 100 * e >= 100 * r.equity - 100 * size
    BY <1>1
  <2>2. 100 * 100 * e > 6000 * r.peak - 60 * (MaxDrawdownPct * r.peak)
    BY <1>1, <1>2, <2>1
  <2> QED BY <1>3, <1>4, <1>6, <2>2
<1> QED BY <1>5, <1>6

-----------------------------------------------------------------------------
(* A freshly initialized engine satisfies every bound.                     *)
LEMMA FreshEngineIsSound ==
    ASSUME NEW r, NEW balance \in Balances, r = FreshEngine(balance)
    PROVE  /\ r \in Engine
           /\ 0 < r.peak /\ r.equity <= r.peak
           /\ (r.peak - r.equity) * 100 < MaxDrawdownPct * r.peak + 100 * Greater(MaxPorCiclo, 0)
           /\ 100 * 100 * r.equity > 60 * (100 - MaxDrawdownPct) * r.peak
<1> USE RiskAssumption, RobinHoodAssumption DEF RiskAssumption, RobinHoodAssumption
<1>1. r \in Engine /\ r.equity > 0 /\ r.peak = r.equity
  BY DEF FreshEngine, Engine
<1>2. r.equity \in Nat
  BY <1>1 DEF Engine
<1>3. Greater(MaxPorCiclo, 0) = MaxPorCiclo
  BY DEF Greater
<1>4. 0 < r.peak /\ r.peak - r.equity = 0
  BY <1>1, <1>2
<1> QED
  BY <1>1, <1>2, <1>3, <1>4, LimitAsBound

(* The invariant holds in the initial states.                              *)
LEMMA InvariantInitially == Init => IInv
<1> SUFFICES ASSUME Init PROVE IInv
  OBVIOUS
<1>1. PICK balance \in Balances : engine = FreshEngine(balance)
  BY DEF Init
<1>2. stake = 0 /\ misled = 0
  BY DEF Init
<1> QED
  BY <1>1, <1>2, FreshEngineIsSound
  DEF IInv, TypeOK, PeakIsHighest, StakeIsAnOrder, CapitalProtected, MostOfThePeakIsKept

(* A step that leaves the money alone and opens no trade.                  *)
LEMMA QuietStep ==
    ASSUME IInv, engine' \in Engine, engine'.equity = engine.equity,
           engine'.peak = engine.peak, UNCHANGED <<stake, misled>>
    PROVE  IInv'
<1>1. LimitReached(engine)' <=> LimitReached(engine)
  BY DEF LimitReached, DrawdownAtLeast
<1>2. TypeOK' /\ PeakIsHighest'
  BY DEF IInv, TypeOK, PeakIsHighest
<1>3. StakeIsAnOrder'
  BY <1>1 DEF IInv, StakeIsAnOrder
<1>4. CapitalProtected' /\ MostOfThePeakIsKept'
  BY DEF IInv, CapitalProtected, MostOfThePeakIsKept
<1> QED BY <1>2, <1>3, <1>4 DEF IInv

(* The record of a trade, whether it is its own result or not.             *)
LEMMA CloseTradeKeeps ==
    ASSUME IInv, CloseTrade
    PROVE  IInv'
<1>1. /\ engine \in Engine /\ stake \in Nat /\ misled \in Nat /\ stake > 0 /\ stake' = 0
      /\ 0 < engine.equity /\ engine.equity <= engine.peak /\ 0 < engine.peak
      /\ ~LimitReached(engine) /\ stake <= MaxPorCiclo /\ 100 * stake <= 40 * engine.equity
      /\ MaxPorCiclo \in Nat
  BY RiskAssumption DEF RiskAssumption, IInv, TypeOK, PeakIsHighest, StakeIsAnOrder, CloseTrade
<1>2. PICK pnl \in Int :
         /\ engine' = AfterTrade(engine, pnl)
         /\ \/ -stake <= pnl /\ misled' = misled
            \/ misled' = Greater(misled, -pnl)
  <2>1. CASE \E pnl \in -stake..MaxGain : Recorded(pnl) /\ misled' = misled
    <3>1. PICK pnl \in -stake..MaxGain : Recorded(pnl) /\ misled' = misled
      BY <2>1
    <3>2. pnl \in Int /\ -stake <= pnl
      BY <1>1, <3>1
    <3> QED BY <3>1, <3>2 DEF Recorded
  <2>2. CASE \E before, after \in Balances :
               Recorded(after - before) /\ misled' = Greater(misled, before - after)
    <3>1. PICK before \in Balances, after \in Balances :
               Recorded(after - before) /\ misled' = Greater(misled, before - after)
      BY <2>2
    <3>2. before \in Int /\ after \in Int
      BY RobinHoodAssumption DEF RobinHoodAssumption
    <3>3. after - before \in Int /\ -(after - before) = before - after
      BY <3>2
    <3> QED BY <3>1, <3>3 DEF Recorded
  <2> QED BY <2>1, <2>2 DEF CloseTrade
<1> DEFINE loss == Greater(MaxPorCiclo, misled')
<1>3. misled' \in Nat /\ loss \in Nat /\ -loss <= pnl
  BY <1>1, <1>2 DEF Greater
<1>4. MaxPorCiclo \in Int /\ loss = Greater(MaxPorCiclo, misled')
  BY <1>1
<1> HIDE DEF loss
<1>5. /\ engine' \in Engine
      /\ engine'.equity = engine.equity + pnl
      /\ 0 < engine'.peak /\ engine'.equity <= engine'.peak
      /\ engine'.peak = engine.peak \/ engine'.peak = engine'.equity
      /\ (engine'.peak - engine'.equity) * 100 < MaxDrawdownPct * engine'.peak + 100 * loss
  BY <1>1, <1>2, <1>3, TradeKeepsBounds
<1>6. TypeOK' /\ PeakIsHighest' /\ StakeIsAnOrder' /\ CapitalProtected'
  BY <1>1, <1>3, <1>4, <1>5 DEF TypeOK, PeakIsHighest, StakeIsAnOrder, CapitalProtected
<1>7. ASSUME misled' = 0
      PROVE  100 * 100 * engine'.equity > 60 * (100 - MaxDrawdownPct) * engine'.peak
  <2>1. -stake <= pnl
    BY <1>1, <1>2, <1>7 DEF Greater
  <2>2. engine'.equity \in Int /\ engine.equity - stake <= engine'.equity
    BY <1>1, <1>5, <2>1 DEF Engine
  <2> QED BY <1>1, <1>5, <2>2, TradeKeepsMost
<1> QED BY <1>6, <1>7 DEF IInv, MostOfThePeakIsKept

(* Every step keeps the invariant.                                         *)
LEMMA InvariantKept == IInv /\ [Next]_vars => IInv'
<1> SUFFICES ASSUME IInv, [Next]_vars PROVE IInv'
  OBVIOUS
<1>0. engine \in Engine /\ 0 < engine.peak /\ engine.equity <= engine.peak
      /\ stake \in Nat /\ misled \in Nat
  BY DEF IInv, TypeOK, PeakIsHighest
<1>1. CASE Ask
  BY <1>0, <1>1, MoneyUntouched, QuietStep DEF Ask
<1>2. CASE OpenTrade
  <2>1. PICK size \in MinOrder..OrderSize(engine) : stake' = size
    BY <1>2 DEF OpenTrade
  <2>2. Allowed(engine) /\ engine' = AfterAsking(engine) /\ misled' = misled
    BY <1>2 DEF OpenTrade
  <2>3. engine' \in Engine /\ engine'.equity = engine.equity /\ engine'.peak = engine.peak
    BY <1>0, <2>2, MoneyUntouched
  <2>9. 0 < engine.equity
    BY <1>0, <2>2, RiskAssumption DEF RiskAssumption, Allowed, BelowShutdown, Engine
  <2>4. /\ OrderSize(engine) \in Int
        /\ OrderSize(engine) <= BaseSize(engine)
        /\ BaseSize(engine) \in Nat
        /\ BaseSize(engine) <= MaxPorCiclo
        /\ 100 * BaseSize(engine) <= 40 * engine.equity
    BY <1>0, <2>2, <2>9, OrderSizeBounds, BaseSizeBounds
  <2>5. stake' \in Nat /\ stake' <= MaxPorCiclo /\ 100 * stake' <= 40 * engine'.equity
    <3>1. MinOrder \in Nat /\ MaxPorCiclo \in Nat /\ engine.equity \in Int
      BY <1>0, RiskAssumption DEF RiskAssumption, Engine
    <3> QED BY <2>1, <2>3, <2>4, <3>1
  <2>6. ~LimitReached(engine)'
    BY <2>2, <2>3 DEF Allowed, LimitReached, DrawdownAtLeast
  <2>7. TypeOK' /\ PeakIsHighest' /\ StakeIsAnOrder'
    BY <1>0, <2>2, <2>3, <2>5, <2>6, <2>9 DEF TypeOK, PeakIsHighest, StakeIsAnOrder
  <2>8. CapitalProtected' /\ MostOfThePeakIsKept'
    BY <2>2, <2>3 DEF IInv, CapitalProtected, MostOfThePeakIsKept
  <2> QED BY <2>7, <2>8 DEF IInv
<1>3. CASE CloseTrade
  BY <1>3, CloseTradeKeeps
<1>4. CASE TriggerPause
  BY <1>0, <1>4, MoneyUntouched, QuietStep DEF TriggerPause
<1>5. CASE RunPauseTask
  BY <1>0, <1>5, MoneyUntouched, QuietStep DEF RunPauseTask
<1>6. CASE Tick
  BY <1>0, <1>6, MoneyUntouched, QuietStep DEF Tick
<1>7. CASE Restart
  <2>1. PICK balance \in Balances : engine' = FreshEngine(balance)
    BY <1>7 DEF Restart
  <2>2. stake' = 0 /\ misled' = 0
    BY <1>7 DEF Restart
  <2> QED
    BY <2>1, <2>2, FreshEngineIsSound
    DEF IInv, TypeOK, PeakIsHighest, StakeIsAnOrder, CapitalProtected, MostOfThePeakIsKept
<1>8. CASE UNCHANGED vars
  <2>1. engine' = engine /\ stake' = stake /\ misled' = misled
    BY <1>8 DEF vars
  <2> QED BY <1>0, <2>1, QuietStep
<1> QED BY <1>1, <1>2, <1>3, <1>4, <1>5, <1>6, <1>7, <1>8 DEF Next

(* The stronger invariant that carries the others: what is at stake is one *)
(* order the engine permitted (max_order_size, record_trade).              *)
THEOREM Invariance == Spec => []IInv
<1> QED BY InvariantInitially, InvariantKept, PTL DEF Spec

(* The engine's record and the stake have their types in every state.      *)
THEOREM TypeCorrect == Spec => []TypeOK
<1>1. IInv => TypeOK
  BY DEF IInv
<1> QED BY <1>1, Invariance, PTL

(* No capital is in a triangle once the drawdown limit is reached          *)
(* (robin_hood_risk.py:104-136).                                           *)
THEOREM NothingAtRisk == Spec => []NothingAtRiskInDrawdown
<1>1. IInv => NothingAtRiskInDrawdown
  BY DEF IInv, TypeOK, StakeIsAnOrder, NothingAtRiskInDrawdown
<1> QED BY <1>1, Invariance, PTL

(* The losses overshoot the limit by less than one order, or than the      *)
(* largest loss that was recorded because a balance was not what the       *)
(* process took it for (robin_hood_risk.py:141-190,                        *)
(* base_executor.py:173-174, binance_connector.py:169).                    *)
THEOREM LossesAreBounded == Spec => []CapitalProtected
<1>1. IInv => CapitalProtected
  BY DEF IInv
<1> QED BY <1>1, Invariance, PTL

(* 60% of what the limit leaves of the peak is never lost by triangles     *)
(* (robin_hood_risk.py:146-147).                                           *)
THEOREM PeakMostlyKept == Spec => []MostOfThePeakIsKept
<1>1. IInv => MostOfThePeakIsKept
  BY DEF IInv
<1> QED BY <1>1, Invariance, PTL
=============================================================================
