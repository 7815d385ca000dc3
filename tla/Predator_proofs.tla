-------------------------- MODULE Predator_proofs --------------------------
(* The safety properties of Predator, for every number of symbols and every*)
(* choice of the limits; and of BookFeed, the books predator-v4 trades on, *)
(* for any levels, depth, and number of changes and breaks.                *)
EXTENDS Predator, BookFeed, FiniteSetTheorems, SequenceTheorems, TLAPS

-----------------------------------------------------------------------------
(* The invariant.  The two bounds leave room for what the open positions   *)
(* and the entry in flight may still lose, and an order in flight is about *)
(* the position it was sent for.                                           *)
Slots == risk.open + (IF order.kind = "entry" THEN 1 ELSE 0)

(* Room for what n positions can still lose.                               *)
StreakFits(r, n) == r.losses + n < PauseAfter + MaxConcurrent

DrawdownFits(r, n) ==
    (r.peak - r.equity) * 100 + 100 * (MaxLoss * n)
        < MaxDrawdownPct * r.peak + 100 * (MaxLoss * MaxConcurrent)

Solvent(r) == r.peak > 0 /\ r.equity <= r.peak

OrderFits ==
    /\ order.kind = "entry" => ~position[turn].open /\ ~Stopped(risk)
    /\ order.kind = "exit" => position[turn].open

IInv ==
    /\ TypeOK
    /\ CountIsRight
    /\ OrderFits
    /\ Solvent(risk) /\ StreakFits(risk, Slots) /\ DrawdownFits(risk, Slots)

-----------------------------------------------------------------------------
(* Arithmetic: products with a natural number keep the order.              *)
LEMMA ProductKeepsOrder ==
    ASSUME NEW c \in Nat, NEW a \in Int, NEW b \in Int, a <= b
    PROVE  c * a \in Int /\ c * b \in Int /\ c * a <= c * b
<1>1. c * a \in Int /\ c * b \in Int /\ c * (b - a) \in Int
  OBVIOUS
<1>2. c * (b - a) >= 0
  OBVIOUS
<1>3. c * b = c * a + c * (b - a)
  OBVIOUS
<1> QED BY <1>1, <1>2, <1>3

(* Below the drawdown limit the equity is positive.                        *)
LEMMA EquityIsPositive ==
    ASSUME NEW r \in Risk, r.peak > 0, ~DrawdownReached(r)
    PROVE  r.equity > 0
<1> DEFINE p == r.peak
<1>1. p \in Nat /\ r.equity \in Int
  BY DEF Risk
<1>2. MaxDrawdownPct \in Int /\ MaxDrawdownPct <= 100
  BY RiskAssumption DEF RiskAssumption
<1>3. p * MaxDrawdownPct <= p * 100
  BY <1>1, <1>2, ProductKeepsOrder
<1>4. MaxDrawdownPct * p = p * MaxDrawdownPct
  BY <1>1, <1>2
<1>5. (p - r.equity) * 100 < MaxDrawdownPct * p
  <2>1. ~((p - r.equity) * 100 >= MaxDrawdownPct * p)
    BY DEF DrawdownReached
  <2>2. MaxDrawdownPct * p \in Int /\ (p - r.equity) * 100 \in Int
    BY <1>1, <1>2
  <2> HIDE DEF p
  <2> QED BY <2>1, <2>2
<1>6. p * MaxDrawdownPct \in Int
  BY <1>1, <1>2
<1> HIDE DEF p
<1> QED BY <1>1, <1>3, <1>4, <1>5, <1>6

(* A pause.                                                                *)
LEMMA PauseEdit ==
    ASSUME NEW r \in Risk, NEW l \in 0..Day, NEW x,
           x = [r EXCEPT !.paused = TRUE, !.left = l]
    PROVE  /\ x \in Risk /\ x.equity = r.equity /\ x.peak = r.peak
           /\ x.open = r.open /\ x.losses = r.losses
BY Zenon DEF Risk

(* The end of a pause.                                                     *)
LEMMA LiftEdit ==
    ASSUME NEW r \in Risk, NEW x, x = [r EXCEPT !.paused = FALSE]
    PROVE  /\ x \in Risk /\ x.equity = r.equity /\ x.peak = r.peak
           /\ x.open = r.open /\ x.losses = r.losses
           /\ x.shutdown = r.shutdown /\ x.paused = FALSE
           /\ x.dayStart = r.dayStart /\ x.dayAge = r.dayAge
BY Zenon DEF Risk

(* A shutdown.                                                             *)
LEMMA ShutdownEdit ==
    ASSUME NEW r \in Risk, NEW x, x = [r EXCEPT !.shutdown = TRUE]
    PROVE  /\ x \in Risk /\ x.equity = r.equity /\ x.peak = r.peak
           /\ x.open = r.open /\ x.losses = r.losses
BY Zenon DEF Risk

(* A losing streak that is forgotten.                                      *)
LEMMA StreakEdit ==
    ASSUME NEW r \in Risk, NEW x, x = [r EXCEPT !.losses = 0]
    PROVE  /\ x \in Risk /\ x.equity = r.equity /\ x.peak = r.peak
           /\ x.open = r.open /\ x.losses = 0
<1>1. 0 \in Nat
  OBVIOUS
<1> QED BY <1>1, Zenon DEF Risk

(* A trade that is recorded.                                               *)
LEMMA TradeEdit ==
    ASSUME NEW r \in Risk, NEW e \in Int, NEW p \in Int, NEW n \in Nat, NEW x,
           x = [r EXCEPT !.equity = e, !.losses = n, !.peak = p]
    PROVE  /\ x \in Risk /\ x.equity = e /\ x.peak = p
           /\ x.open = r.open /\ x.losses = n
BY Zenon DEF Risk

(* A slot that is taken or given back.                                     *)
LEMMA OpenEdit ==
    ASSUME NEW r \in Risk, NEW o \in Int, NEW x, x = [r EXCEPT !.open = o]
    PROVE  /\ x \in Risk /\ x.equity = r.equity /\ x.peak = r.peak
           /\ x.open = o /\ x.losses = r.losses
BY Zenon DEF Risk

(* The types of the numbers in a risk record.                              *)
LEMMA RiskNumbers ==
    ASSUME NEW r \in Risk
    PROVE  /\ r.equity \in Int /\ r.peak \in Int /\ r.dayStart \in Int
           /\ r.dayAge \in 0..Day + 1 /\ r.left \in 0..Day
           /\ r.losses \in Nat /\ r.open \in Int
BY Zenon DEF Risk

(* A new day changes the start of the day alone.                           *)
LEMMA NewDayTyped ==
    ASSUME NEW r \in Risk
    PROVE  /\ NewDay(r) \in Risk
           /\ NewDay(r).equity = r.equity /\ NewDay(r).peak = r.peak
           /\ NewDay(r).open = r.open /\ NewDay(r).losses = r.losses
           /\ NewDay(r).shutdown = r.shutdown
           /\ NewDay(r).paused = r.paused /\ NewDay(r).left = r.left
           /\ NewDay(r).dayAge <= Day
           /\ r.dayAge > Day => NewDay(r).dayStart = r.equity
           /\ ~(r.dayAge > Day) => NewDay(r) = r
<1>1. /\ Day \in Nat /\ 0 \in 0..Day + 1 /\ 0 <= Day
      /\ r.dayAge \in 0..Day + 1 /\ r.equity \in Int
  BY RiskAssumption, RiskNumbers DEF RiskAssumption
<1>2. CASE r.dayAge > Day
  <2>1. NewDay(r) = [r EXCEPT !.dayStart = r.equity, !.dayAge = 0]
    BY <1>2 DEF NewDay
  <2>2. /\ NewDay(r) \in Risk
        /\ NewDay(r).equity = r.equity /\ NewDay(r).peak = r.peak
        /\ NewDay(r).open = r.open /\ NewDay(r).losses = r.losses
        /\ NewDay(r).shutdown = r.shutdown
        /\ NewDay(r).paused = r.paused /\ NewDay(r).left = r.left
        /\ NewDay(r).dayStart = r.equity /\ NewDay(r).dayAge = 0
    BY <1>1, <2>1, Zenon DEF Risk
  <2> QED BY <1>1, <1>2, <2>2, Zenon
<1>3. CASE ~(r.dayAge > Day)
  <2>1. NewDay(r) = r
    BY <1>3 DEF NewDay
  <2>2. r.dayAge <= Day
    BY <1>1, <1>3
  <2> QED BY <1>3, <2>1, <2>2, Zenon
<1> QED BY <1>2, <1>3

(* Asking the risk manager keeps the money and the number of positions.    *)
LEMMA CheckKeepsMoney ==
    ASSUME NEW r \in Risk
    PROVE  /\ AfterCheck(r) \in Risk
           /\ AfterCheck(r).equity = r.equity
           /\ AfterCheck(r).peak = r.peak
           /\ AfterCheck(r).open = r.open
           /\ AfterCheck(r).losses \in {r.losses, 0}
<1>1. PauseDuration \in 0..Day /\ Day \in 0..Day
  BY RiskAssumption DEF RiskAssumption
<1> DEFINE n == NewDay(r)
           s == [n EXCEPT !.paused = FALSE]
           Kept(x) == x \in Risk /\ x.equity = r.equity /\ x.peak = r.peak /\ x.open = r.open
<1>2. Kept(n) /\ n.losses = r.losses
  BY NewDayTyped, Zenon
<1>3. Kept(s) /\ s.losses = r.losses
  BY <1>2, LiftEdit, Zenon
<1>4. \/ AfterCheck(r) \in {r, n, s}
      \/ AfterCheck(r) = [s EXCEPT !.shutdown = TRUE]
      \/ AfterCheck(r) = Pause(s, Day)
      \/ AfterCheck(r) = [Pause(s, PauseDuration) EXCEPT !.losses = 0]
  BY Zenon DEF AfterCheck
<1> HIDE DEF s, n
<1>5. CASE AfterCheck(r) \in {r, n, s}
  BY <1>2, <1>3, <1>5, Zenon
<1>6. CASE AfterCheck(r) = [s EXCEPT !.shutdown = TRUE]
  BY <1>3, <1>6, ShutdownEdit, Zenon
<1>7. ASSUME NEW d \in 0..Day
      PROVE  Kept(Pause(s, d)) /\ Pause(s, d).losses = r.losses
  BY <1>3, PauseEdit, Zenon DEF Pause
<1>8. CASE AfterCheck(r) = Pause(s, Day)
  BY <1>1, <1>7, <1>8, Zenon
<1>9. CASE AfterCheck(r) = [Pause(s, PauseDuration) EXCEPT !.losses = 0]
  BY <1>1, <1>7, <1>9, StreakEdit, Zenon
<1> QED BY <1>4, <1>5, <1>6, <1>8, <1>9, Zenon

(* The clock keeps them, too.                                              *)
LEMMA TickKeepsMoney ==
    ASSUME NEW r \in Risk
    PROVE  /\ AfterTick(r) \in Risk
           /\ AfterTick(r).equity = r.equity
           /\ AfterTick(r).peak = r.peak
           /\ AfterTick(r).open = r.open
           /\ AfterTick(r).losses = r.losses
           /\ AfterTick(r).dayStart = r.dayStart
           /\ r.dayAge <= Day \/ AfterTick(r).dayAge > Day
           /\ AfterTick(r).paused = r.paused /\ AfterTick(r).left <= r.left
           /\ AfterTick(r).shutdown = r.shutdown
<1>1. Day \in Nat /\ r.dayAge \in 0..Day + 1 /\ r.left \in 0..Day
  BY RiskAssumption, RiskNumbers DEF RiskAssumption
<1>2. PICK a \in 0..Day + 1 : /\ a = IF r.dayAge <= Day THEN r.dayAge + 1 ELSE r.dayAge
                              /\ r.dayAge <= Day \/ a > Day
  BY <1>1
<1>3. PICK l \in 0..Day : /\ l = IF r.left > 0 THEN r.left - 1 ELSE 0
                          /\ l <= r.left
  BY <1>1
<1>4. AfterTick(r) = [r EXCEPT !.dayAge = a, !.left = l]
  BY <1>2, <1>3, Zenon DEF AfterTick
<1> DEFINE x == [r EXCEPT !.dayAge = a, !.left = l]
<1>5. /\ x \in Risk /\ x.equity = r.equity /\ x.peak = r.peak
      /\ x.open = r.open /\ x.losses = r.losses
      /\ x.shutdown = r.shutdown /\ x.paused = r.paused /\ x.left = l
      /\ x.dayStart = r.dayStart /\ x.dayAge = a
  BY Zenon DEF Risk
<1> HIDE DEF x
<1>6. AfterTick(r) = x
  BY <1>4 DEF x
<1> QED BY <1>2, <1>3, <1>5, <1>6

(* An equity above 0 that the day began with is no daily loss.             *)
LEMMA FreshDayAllows ==
    ASSUME NEW s \in Risk, s.equity > 0, s.dayStart = s.equity
    PROVE  ~DailyLossReached(s)
<1> DEFINE q == s.equity
           c == DailyLossPct
<1>1. q \in Nat /\ q > 0 /\ c \in Nat /\ c > 0
  BY RiskNumbers, RiskAssumption DEF RiskAssumption
<1>2. c * q > 0
  <2>1. c * 1 <= c * q
    BY <1>1, ProductKeepsOrder
  <2> QED BY <1>1, <2>1
<1>3. (q - q) * 100 = 0
  BY <1>1
<1>4. DailyLossReached(s) <=> (q - q) * 100 >= c * q
  BY DEF DailyLossReached
<1>5. c * q \in Int
  BY <1>1
<1> HIDE DEF q, c
<1> QED BY <1>2, <1>3, <1>4, <1>5

(* The clock does not stop a trade that was allowed.                       *)
LEMMA TickStaysAllowed ==
    ASSUME NEW r \in Risk, r.peak > 0, ~Stopped(r)
    PROVE  ~Stopped(AfterTick(r))
<1>1. r.equity > 0 /\ ~DrawdownReached(r) /\ ~DailyLossReached(NewDay(r))
      /\ ~InPause(r) /\ ~r.shutdown /\ ~(r.losses >= PauseAfter)
  BY EquityIsPositive DEF Stopped
<1> DEFINE s == AfterTick(r)
<1>2. /\ s \in Risk /\ s.equity = r.equity /\ s.peak = r.peak
      /\ s.losses = r.losses /\ s.dayStart = r.dayStart
      /\ r.dayAge <= Day \/ s.dayAge > Day
      /\ s.paused = r.paused /\ s.left <= r.left /\ s.shutdown = r.shutdown
  BY TickKeepsMoney
<1> HIDE DEF s
<1>3. ~DailyLossReached(NewDay(s))
  <2>1. CASE s.dayAge > Day
    <3>1. NewDay(s) \in Risk /\ NewDay(s).equity = s.equity /\ NewDay(s).dayStart = s.equity
      BY <1>2, <2>1, NewDayTyped, Zenon
    <3> QED BY <1>1, <1>2, <3>1, FreshDayAllows
  <2>2. CASE ~(s.dayAge > Day)
    <3>1. ~(r.dayAge > Day)
      BY <1>2, <2>2, RiskNumbers, RiskAssumption DEF RiskAssumption
    <3>2. NewDay(r) = r /\ NewDay(s) = s
      BY <1>2, <2>2, <3>1, NewDayTyped, Zenon
    <3> QED BY <1>1, <1>2, <3>2, Zenon DEF DailyLossReached
  <2> QED BY <2>1, <2>2
<1>4. ~InPause(s)
  <2>1. r.left \in Int /\ s.left \in Int
    BY <1>2, RiskNumbers
  <2> QED BY <1>1, <1>2, <2>1 DEF InPause
<1>5. ~DrawdownReached(s)
  BY <1>1, <1>2, Zenon DEF DrawdownReached
<1> QED BY <1>1, <1>2, <1>3, <1>4, <1>5, Zenon DEF Stopped, s

(* Nor does asking the risk manager again.                                 *)
LEMMA CheckStaysAllowed ==
    ASSUME NEW r \in Risk, r.peak > 0, ~Stopped(r)
    PROVE  ~Stopped(AfterCheck(r))
<1>1. ~DrawdownReached(r) /\ ~DailyLossReached(NewDay(r))
      /\ ~InPause(r) /\ ~r.shutdown /\ ~(r.losses >= PauseAfter)
  BY DEF Stopped
<1> DEFINE n == NewDay(r)
           s == [n EXCEPT !.paused = FALSE]
<1>2. /\ n \in Risk /\ n.equity = r.equity /\ n.peak = r.peak
      /\ n.losses = r.losses /\ n.shutdown = r.shutdown /\ n.dayAge <= Day
  BY NewDayTyped, Zenon
<1>3. /\ s \in Risk /\ s.equity = r.equity /\ s.peak = r.peak
      /\ s.losses = r.losses /\ s.shutdown = r.shutdown /\ s.paused = FALSE
      /\ s.dayStart = n.dayStart /\ s.dayAge = n.dayAge
  BY <1>2, LiftEdit, Zenon
<1>4. ~DrawdownReached(s)
  BY <1>1, <1>3, Zenon DEF DrawdownReached
<1>5. ~DailyLossReached(s)
  BY <1>1, <1>2, <1>3, Zenon DEF DailyLossReached
<1>6. ~(s.losses >= PauseAfter)
  BY <1>1, <1>3, Zenon
<1>7. AfterCheck(r) = s
  BY <1>1, <1>4, <1>5, <1>6, Zenon DEF AfterCheck
<1>8. NewDay(s) = s
  <2>1. ~(s.dayAge > Day)
    <3>1. n.dayAge \in Int /\ Day \in Int
      BY <1>2, RiskNumbers, RiskAssumption DEF RiskAssumption
    <3> HIDE DEF n, s
    <3> QED BY <1>2, <1>3, <3>1
  <2> QED BY <1>3, <2>1, NewDayTyped, Zenon
<1>9. ~InPause(s) /\ ~s.shutdown
  BY <1>1, <1>3, Zenon DEF InPause
<1> QED BY <1>4, <1>5, <1>6, <1>7, <1>8, <1>9, Zenon DEF Stopped

-----------------------------------------------------------------------------
(* The room of the two bounds, abstractly                                  *)

(* Products of the constants are integers.                                 *)
LEMMA ProductsTyped ==
    ASSUME NEW r \in Risk, NEW n \in Int
    PROVE  /\ (r.peak - r.equity) * 100 \in Int /\ 100 * (MaxLoss * n) \in Int
           /\ MaxDrawdownPct * r.peak \in Int /\ 100 * (MaxLoss * MaxConcurrent) \in Int
           /\ MaxLoss * n \in Int
BY RiskNumbers, RiskAssumption, PredatorAssumption DEF RiskAssumption, PredatorAssumption

(* Fewer positions need less room, and asking or waiting changes nothing.  *)
LEMMA RoomKept ==
    ASSUME NEW r \in Risk, NEW x \in Risk, NEW n \in Int, NEW m \in Int, m <= n,
           x.equity = r.equity, x.peak = r.peak, x.losses \in {r.losses, 0},
           Solvent(r), StreakFits(r, n), DrawdownFits(r, n)
    PROVE  Solvent(x) /\ StreakFits(x, m) /\ DrawdownFits(x, m)
<1>1. Solvent(x)
  BY Zenon DEF Solvent
<1>2. StreakFits(x, m)
  <2> DEFINE k == r.losses
             j == x.losses
  <2>1. k \in Nat /\ j \in {k, 0} /\ k + n < PauseAfter + MaxConcurrent
    BY RiskNumbers DEF StreakFits
  <2>2. PauseAfter \in Int /\ MaxConcurrent \in Int
    BY RiskAssumption DEF RiskAssumption
  <2> HIDE DEF k, j
  <2>3. j + m < PauseAfter + MaxConcurrent
    BY <2>1, <2>2
  <2> QED BY <2>3 DEF StreakFits, j
<1>3. DrawdownFits(x, m)
  <2> DEFINE d == (r.peak - r.equity) * 100
             l == MaxDrawdownPct * r.peak
             c == 100 * (MaxLoss * MaxConcurrent)
  <2>1. d \in Int /\ l \in Int /\ c \in Int
    BY ProductsTyped
  <2>2. MaxLoss * m \in Int /\ MaxLoss * n \in Int /\ MaxLoss * m <= MaxLoss * n
    BY ProductKeepsOrder, PredatorAssumption DEF PredatorAssumption
  <2>3. d + 100 * (MaxLoss * n) < l + c
    BY DEF DrawdownFits
  <2>4. (x.peak - x.equity) * 100 = d /\ MaxDrawdownPct * x.peak = l
    BY Zenon
  <2> HIDE DEF d, l, c
  <2>5. d + 100 * (MaxLoss * m) < l + c
    BY <2>1, <2>2, <2>3
  <2> QED BY <2>4, <2>5, Zenon DEF DrawdownFits, c
<1> QED BY <1>1, <1>2, <1>3

(* A trade that is allowed leaves room for all slots.                      *)
LEMMA RoomWhenAllowed ==
    ASSUME NEW r \in Risk, NEW n \in Int, n <= MaxConcurrent,
           Solvent(r), ~Stopped(r)
    PROVE  StreakFits(r, n) /\ DrawdownFits(r, n)
<1>1. StreakFits(r, n)
  <2>1. ~(r.losses >= PauseAfter)
    BY DEF Stopped
  <2>2. r.losses \in Int /\ PauseAfter \in Int /\ MaxConcurrent \in Int
    BY RiskNumbers, RiskAssumption DEF RiskAssumption
  <2> QED BY <2>1, <2>2 DEF StreakFits
<1>2. DrawdownFits(r, n)
  <2> DEFINE d == (r.peak - r.equity) * 100
             l == MaxDrawdownPct * r.peak
  <2>1. d \in Int /\ l \in Int
    BY ProductsTyped
  <2>2. ~(d >= l)
    BY DEF Stopped, DrawdownReached
  <2>3. /\ MaxLoss * n \in Int /\ MaxLoss * MaxConcurrent \in Int
        /\ MaxLoss * n <= MaxLoss * MaxConcurrent
    BY ProductKeepsOrder, RiskAssumption, PredatorAssumption
    DEF RiskAssumption, PredatorAssumption
  <2> HIDE DEF d, l
  <2>4. d + 100 * (MaxLoss * n) < l + 100 * (MaxLoss * MaxConcurrent)
    BY <2>1, <2>2, <2>3
  <2> QED BY <2>4 DEF DrawdownFits, d, l
<1> QED BY <1>1, <1>2

(* The record of a trade.                                                  *)
LEMMA TradeRecorded ==
    ASSUME NEW r \in Risk, NEW pnl \in Int,
           NEW x, x = [AfterTrade(r, pnl) EXCEPT !.open = @ - 1]
    PROVE  /\ x \in Risk /\ x.equity = r.equity + pnl /\ x.open = r.open - 1
           /\ x.losses = IF pnl > 0 THEN 0 ELSE r.losses + 1
           /\ x.peak = IF r.equity + pnl > r.peak THEN r.equity + pnl ELSE r.peak
<1> DEFINE e == r.equity + pnl
           n == IF pnl > 0 THEN 0 ELSE r.losses + 1
           p == IF e > r.peak THEN e ELSE r.peak
           t == AfterTrade(r, pnl)
<1>1. e \in Int /\ n \in Nat /\ p \in Int /\ r.open - 1 \in Int
  BY RiskNumbers
<1>2. t = [r EXCEPT !.equity = e, !.losses = n, !.peak = p]
  BY Zenon DEF AfterTrade
<1> HIDE DEF e, n, p, t
<1>3. t \in Risk /\ t.equity = e /\ t.peak = p /\ t.open = r.open /\ t.losses = n
  BY <1>1, <1>2, Zenon DEF Risk
<1>4. x = [t EXCEPT !.open = r.open - 1]
  <2>1. x = [t EXCEPT !.open = t.open - 1]
    BY Zenon DEF t
  <2> QED BY <1>3, <2>1, Zenon
<1>5. x \in Risk /\ x.equity = e /\ x.peak = p /\ x.open = r.open - 1 /\ x.losses = n
  BY <1>1, <1>3, <1>4, Zenon DEF Risk
<1> QED BY <1>5 DEF e, n, p

(* A position that ends gives back the room it was given.                  *)
LEMMA RoomAfterExit ==
    ASSUME NEW r \in Risk, NEW x \in Risk, NEW n \in Nat, n <= MaxConcurrent,
           NEW pnl \in Int, -MaxLoss <= pnl,
           x.equity = r.equity + pnl,
           x.losses = IF pnl > 0 THEN 0 ELSE r.losses + 1,
           x.peak = IF r.equity + pnl > r.peak THEN r.equity + pnl ELSE r.peak,
           Solvent(r), StreakFits(r, n), DrawdownFits(r, n)
    PROVE  Solvent(x) /\ StreakFits(x, n - 1) /\ DrawdownFits(x, n - 1)
<1> DEFINE q == r.equity
           p == r.peak
           u == x.equity
           v == x.peak
<1>1. /\ q \in Int /\ p \in Int /\ u = q + pnl /\ p > 0 /\ q <= p
      /\ v = IF q + pnl > p THEN q + pnl ELSE p
  BY RiskNumbers DEF Solvent
<1>2. Solvent(x)
  <2> HIDE DEF q, p, u, v
  <2>1. v > 0 /\ u <= v
    BY <1>1
  <2> QED BY <2>1 DEF Solvent, u, v
<1>3. StreakFits(x, n - 1)
  <2>1. /\ r.losses \in Nat /\ PauseAfter \in Nat \ {0} /\ MaxConcurrent \in Nat
        /\ r.losses + n < PauseAfter + MaxConcurrent
    BY RiskNumbers, RiskAssumption DEF RiskAssumption, StreakFits
  <2>2. x.losses + (n - 1) < PauseAfter + MaxConcurrent
    BY <2>1
  <2> QED BY <2>2 DEF StreakFits
<1>4. DrawdownFits(x, n - 1)
  <2> DEFINE c == MaxLoss * MaxConcurrent
             a == MaxLoss * n
             l == MaxDrawdownPct * p
             w == MaxDrawdownPct * v
             L == MaxLoss
  <2>1. L \in Nat /\ c \in Int /\ a \in Int /\ l \in Int /\ w \in Int /\ a <= c
    <3>1. /\ MaxLoss \in Nat /\ MaxConcurrent \in Int
          /\ MaxDrawdownPct \in Nat /\ v \in Int /\ n \in Int
      BY <1>1, RiskAssumption, PredatorAssumption DEF RiskAssumption, PredatorAssumption
    <3>2. c \in Int /\ a \in Int /\ a <= c
      BY <3>1, ProductKeepsOrder
    <3>3. l \in Int /\ w \in Int
      BY <1>1, <3>1
    <3> QED BY <3>1, <3>2, <3>3
  <2>2. MaxLoss * (n - 1) = a - L
    BY <2>1
  <2>3. (p - q) * 100 + 100 * a < l + 100 * c
    BY DEF DrawdownFits
  <2>4. w > 0
    <3>1. MaxDrawdownPct \in Nat \ {0} /\ v \in Int /\ 1 <= v
      <4> HIDE DEF q, p, u, v
      <4> QED BY <1>1, RiskAssumption DEF RiskAssumption
    <3>2. MaxDrawdownPct * 1 <= MaxDrawdownPct * v
      BY <3>1, ProductKeepsOrder
    <3> QED BY <2>1, <3>1, <3>2
  <2>5. -L <= pnl
    OBVIOUS
  <2>6. ~(q + pnl > p) => w = l
    BY <1>1
  <2>7. (v - u) * 100 + 100 * (a - L) < w + 100 * c
    <3> HIDE DEF q, p, u, v, c, a, l, w, L
    <3>1. CASE q + pnl > p
      BY <1>1, <2>1, <2>4, <3>1
    <3>2. CASE ~(q + pnl > p)
      BY <1>1, <2>1, <2>3, <2>5, <2>6, <3>2
    <3> QED BY <3>1, <3>2
  <2> QED BY <2>2, <2>7 DEF DrawdownFits
<1> QED BY <1>2, <1>3, <1>4

-----------------------------------------------------------------------------
(* The positions                                                           *)

Position == [open : BOOLEAN, qty : Nat, age : 0..MaxHold, priced : BOOLEAN]

(* The symbols with a position are finitely many.                          *)
LEMMA OpenSymsFinite == IsFiniteSet(OpenSyms) /\ Cardinality(OpenSyms) \in Nat
<1>1. IsFiniteSet(Syms)
  BY FS_Interval, PredatorAssumption DEF PredatorAssumption, Syms
<1>2. OpenSyms \subseteq Syms
  BY DEF OpenSyms
<1> QED BY <1>1, <1>2, FS_Subset, FS_CardinalityType

(* A position that is opened counts once.                                  *)
LEMMA OpeningCounts ==
    ASSUME TypeOK, NEW p, p.open = TRUE, ~position[turn].open,
           position' = [position EXCEPT ![turn] = p]
    PROVE  Cardinality(OpenSyms') = Cardinality(OpenSyms) + 1
<1>1. turn \in Syms /\ DOMAIN position = Syms
  BY DEF TypeOK
<1>2. OpenSyms' = OpenSyms \cup {turn}
  BY <1>1, Zenon DEF OpenSyms
<1>3. turn \notin OpenSyms
  BY DEF OpenSyms
<1> QED BY <1>2, <1>3, OpenSymsFinite, FS_AddElement

(* A position that is closed counts no more.                               *)
LEMMA ClosingCounts ==
    ASSUME TypeOK, position[turn].open, NEW p, p.open = FALSE,
           position' = [position EXCEPT ![turn] = p]
    PROVE  Cardinality(OpenSyms') = Cardinality(OpenSyms) - 1
<1>1. turn \in Syms /\ DOMAIN position = Syms
  BY DEF TypeOK
<1>2. OpenSyms' = OpenSyms \ {turn}
  BY <1>1, Zenon DEF OpenSyms
<1>3. turn \in OpenSyms
  BY <1>1 DEF OpenSyms
<1> QED BY <1>2, <1>3, OpenSymsFinite, FS_RemoveElement

(* What every step needs of the limits.                                    *)
LEMMA SlotsTyped ==
    ASSUME IInv
    PROVE  /\ risk \in Risk /\ risk.open \in Nat
           /\ Slots \in Nat /\ risk.open <= Slots /\ Slots <= MaxConcurrent
<1>1. risk \in Risk /\ risk.open \in Nat /\ Slots <= MaxConcurrent
  BY OpenSymsFinite DEF IInv, TypeOK, CountIsRight, Slots
<1> QED BY <1>1 DEF Slots

(* A step that leaves money and positions alone, and adds no order.        *)
LEMMA MoneyKept ==
    ASSUME IInv, TypeOK',
           risk'.equity = risk.equity, risk'.peak = risk.peak,
           risk'.open = risk.open, risk'.losses \in {risk.losses, 0},
           OpenSyms' = OpenSyms, order'.kind = "entry" => order.kind = "entry",
           OrderFits'
    PROVE  IInv'
<1>1. risk' \in Risk /\ Slots' \in Int /\ Slots' <= Slots
  BY SlotsTyped DEF Slots, TypeOK
<1>2. Solvent(risk') /\ StreakFits(risk', Slots') /\ DrawdownFits(risk', Slots')
  BY <1>1, SlotsTyped, RoomKept DEF IInv
<1>3. CountIsRight'
  BY <1>1, SlotsTyped, RiskAssumption DEF IInv, CountIsRight, Slots, RiskAssumption
<1> QED BY <1>2, <1>3 DEF IInv, Solvent, StreakFits, DrawdownFits

-----------------------------------------------------------------------------
(* The invariant holds at the beginning.                                   *)
LEMMA InvariantInitially == Init => IInv
<1> SUFFICES ASSUME Init PROVE IInv
  OBVIOUS
<1>1. FreshRisk \in Risk
  <2>1. Capital \in Int /\ 0 \in 0..Day + 1 /\ 0 \in 0..Day /\ 0 \in Nat /\ 0 \in Int
    BY RiskAssumption DEF RiskAssumption
  <2> QED BY <2>1, Zenon DEF FreshRisk, Risk
<1>2. Closed \in Position /\ Closed.open = FALSE
  <2>1. 0 \in Nat /\ 0 \in 0..MaxHold
    BY PredatorAssumption DEF PredatorAssumption
  <2> QED BY <2>1, Zenon DEF Closed, Position
<1>3. TypeOK
  <2>1. position \in [Syms -> Position]
    BY <1>2 DEF Init
  <2>2. order \in [kind : {"none", "entry", "exit"}, qty : Nat]
    BY DEF Init, NoOrder
  <2>3. held \in [Syms -> Nat] /\ turn \in Syms /\ cooldown \in 0..ExitPause
    BY PredatorAssumption DEF Init, PredatorAssumption, Syms
  <2> QED BY <1>1, <2>1, <2>2, <2>3, Zenon DEF TypeOK, Init, Position
<1>4. OpenSyms = {}
  BY <1>2 DEF Init, OpenSyms
<1>5. order.kind = "none"
  BY DEF Init, NoOrder
<1>6. Slots = 0 /\ risk.open = 0 /\ risk.losses = 0 /\ risk.equity = Capital /\ risk.peak = Capital
  BY <1>5 DEF Init, FreshRisk, Slots
<1>7. CountIsRight
  BY <1>4, <1>5, <1>6, FS_EmptySet, RiskAssumption DEF CountIsRight, RiskAssumption
<1>8. StreakFits(risk, Slots)
  BY <1>6, RiskAssumption DEF StreakFits, RiskAssumption
<1>9. DrawdownFits(risk, Slots)
  <2> DEFINE l == MaxDrawdownPct * Capital
             c == MaxLoss * MaxConcurrent
  <2>1. MaxDrawdownPct * 1 <= l /\ MaxLoss * 0 <= c /\ l \in Int /\ c \in Int
    BY ProductKeepsOrder, RiskAssumption, PredatorAssumption
    DEF RiskAssumption, PredatorAssumption
  <2>2. MaxDrawdownPct \in Nat \ {0} /\ MaxLoss \in Nat /\ Capital \in Int
    BY RiskAssumption, PredatorAssumption DEF RiskAssumption, PredatorAssumption
  <2>3. MaxDrawdownPct * 1 > 0 /\ MaxLoss * 0 = 0 /\ (Capital - Capital) * 100 = 0
    BY <2>2
  <2>4. DrawdownFits(risk, Slots) <=>
           (Capital - Capital) * 100 + 100 * (MaxLoss * 0) < l + 100 * c
    BY <1>6, Zenon DEF DrawdownFits
  <2> HIDE DEF l, c
  <2> QED BY <2>1, <2>2, <2>3, <2>4
<1>10. Solvent(risk) /\ OrderFits
  BY <1>5, <1>6, RiskAssumption DEF Solvent, OrderFits, RiskAssumption
<1> QED BY <1>3, <1>7, <1>8, <1>9, <1>10 DEF IInv

-----------------------------------------------------------------------------
(* The steps of the signal loop                                            *)

(* The next turn is the turn of a symbol.                                  *)
LEMMA TurnTyped == ASSUME turn \in Syms, NextTurn PROVE turn' \in Syms
BY PredatorAssumption DEF PredatorAssumption, Syms, NextTurn

(* Steps of the loop that send nothing.                                    *)
LEMMA QuietLoopStep ==
    ASSUME IInv, NoEntry \/ NoBook \/ Hold \/ PassFails
    PROVE  IInv'
<1>1. UNCHANGED <<position, order, cooldown, stopped, held, doubtful>> /\ order = NoOrder
  BY DEF NoEntry, NoBook, Hold, PassFails, Looking
<1>2. turn' \in Syms
  <2>1. turn \in Syms /\ 1 \in Syms
    BY PredatorAssumption DEF PredatorAssumption, Syms, IInv, TypeOK
  <2> QED BY <2>1, TurnTyped DEF NoEntry, NoBook, Hold, PassFails
<1>3. risk' \in {risk, AfterCheck(risk)}
  BY DEF NoEntry, NoBook, Hold, PassFails
<1>4. /\ risk' \in Risk /\ risk'.equity = risk.equity /\ risk'.peak = risk.peak
      /\ risk'.open = risk.open /\ risk'.losses \in {risk.losses, 0}
  BY <1>3, SlotsTyped, CheckKeepsMoney, Zenon
<1>5. TypeOK'
  BY <1>1, <1>2, <1>4, Zenon DEF IInv, TypeOK
<1>6. OpenSyms' = OpenSyms
  BY <1>1 DEF OpenSyms
<1>7. OrderFits'
  BY <1>1 DEF OrderFits, NoOrder
<1> QED BY <1>1, <1>4, <1>5, <1>6, <1>7, MoneyKept

(* An exit order is sent.                                                  *)
LEMMA ExitStep == ASSUME IInv, Exit PROVE IInv'
<1>1. UNCHANGED <<risk, position, turn, cooldown, stopped, held, doubtful>>
  BY DEF Exit
<1>2. position[turn].qty \in Nat /\ position[turn].open
  <2>1. position[turn] \in Position
    BY DEF IInv, TypeOK, Position
  <2> QED BY <2>1, Zenon DEF Position, Exit
<1>3. order' = [kind |-> "exit", qty |-> position[turn].qty]
  BY DEF Exit
<1>4. order' \in [kind : {"none", "entry", "exit"}, qty : Nat] /\ order'.kind = "exit"
  BY <1>2, <1>3
<1>5. TypeOK'
  BY <1>1, <1>4, Zenon DEF IInv, TypeOK
<1>6. OpenSyms' = OpenSyms /\ OrderFits'
  BY <1>1, <1>2, <1>4 DEF OpenSyms, OrderFits
<1> QED BY <1>1, <1>4, <1>5, <1>6, MoneyKept

(* An entry order is sent, after the risk manager was asked.               *)
LEMMA EnterStep == ASSUME IInv, Enter PROVE IInv'
<1>1. UNCHANGED <<position, turn, cooldown, stopped, held, doubtful>>
  BY DEF Enter
<1>2. PICK qty \in Quantities : order' = [kind |-> "entry", qty |-> qty]
  BY DEF Enter
<1>3. order' \in [kind : {"none", "entry", "exit"}, qty : Nat] /\ order'.kind = "entry"
  BY <1>2, PredatorAssumption DEF PredatorAssumption
<1>4. /\ risk' \in Risk /\ risk'.equity = risk.equity /\ risk'.peak = risk.peak
      /\ risk'.open = risk.open
  BY SlotsTyped, CheckKeepsMoney, Zenon DEF Enter
<1>5. ~Stopped(risk') /\ Solvent(risk')
  <2>1. ~Stopped(risk) /\ Solvent(risk) /\ risk.peak > 0 /\ risk' = AfterCheck(risk)
    BY DEF Enter, Allowed, IInv, Solvent
  <2>2. ~Stopped(risk')
    BY <2>1, SlotsTyped, CheckStaysAllowed
  <2> QED BY <1>4, <2>1, <2>2, Zenon DEF Solvent
<1>6. Slots' = risk.open + 1 /\ risk.open < MaxConcurrent /\ risk.open \in Nat
  BY <1>3, <1>4, SlotsTyped DEF Slots, Enter, Allowed
<1>7. StreakFits(risk', Slots') /\ DrawdownFits(risk', Slots')
  <2>1. Slots' \in Int /\ Slots' <= MaxConcurrent
    BY <1>6, RiskAssumption DEF RiskAssumption
  <2> QED BY <1>4, <1>5, <2>1, RoomWhenAllowed
<1>8. TypeOK'
  BY <1>1, <1>3, <1>4, Zenon DEF IInv, TypeOK
<1>9. OpenSyms' = OpenSyms
  BY <1>1 DEF OpenSyms
<1>10. CountIsRight'
  <2>1. risk'.open = Cardinality(OpenSyms')
    BY <1>4, <1>9 DEF IInv, CountIsRight
  <2>2. risk'.open + 1 <= MaxConcurrent
    BY <1>4, <1>6, RiskAssumption DEF RiskAssumption
  <2> QED BY <1>3, <2>1, <2>2 DEF CountIsRight
<1>11. OrderFits'
  <2>1. ~position[turn].open
    BY DEF Enter
  <2> QED BY <1>1, <1>3, <1>5, <2>1 DEF OrderFits
<1> QED BY <1>5, <1>7, <1>8, <1>10, <1>11 DEF IInv, Solvent, StreakFits, DrawdownFits

-----------------------------------------------------------------------------
(* The answers                                                             *)

(* What an execution leaves of the account.                                *)
LEMMA HeldTyped ==
    ASSUME TypeOK, NEW qty \in Nat, NEW lots \in Nat, qty <= lots,
           Executable(order.kind, lots), order.kind \in {"entry", "exit"},
           held' = HeldAfter(order.kind, qty)
    PROVE  held' \in [Syms -> Nat]
<1>1. held \in [Syms -> Nat] /\ turn \in Syms
  BY DEF TypeOK
<1>2. PICK k \in Nat : k = IF order.kind = "entry" THEN held[turn] + qty ELSE held[turn] - qty
  BY <1>1 DEF Executable
<1>3. held' = [held EXCEPT ![turn] = k]
  BY <1>2 DEF HeldAfter
<1> QED BY <1>1, <1>3

(* A successful entry takes the slot that was kept for it.                 *)
LEMMA OpenedStep ==
    ASSUME IInv, order.kind = "entry", NEW qty \in Nat, Opened(qty), Answered,
           held' \in [Syms -> Nat], doubtful' \subseteq Syms
    PROVE  IInv'
<1> DEFINE p == [open |-> TRUE, qty |-> qty, age |-> 0, priced |-> qty > 0]
<1>1. p \in Position /\ p.open = TRUE
  <2>1. 0 \in 0..MaxHold /\ (qty > 0) \in BOOLEAN
    BY PredatorAssumption DEF PredatorAssumption
  <2> QED BY <2>1, Zenon DEF Position
<1>2. position' = [position EXCEPT ![turn] = p] /\ cooldown' = cooldown
  BY DEF Opened
<1> HIDE DEF p
<1>3. risk' \in Risk /\ risk'.equity = risk.equity /\ risk'.peak = risk.peak
      /\ risk'.losses = risk.losses /\ risk'.open = risk.open + 1
  <2>1. risk' = [risk EXCEPT !.open = risk.open + 1]
    BY DEF Opened
  <2>2. risk \in Risk /\ risk.open + 1 \in Int
    BY SlotsTyped
  <2> QED BY <2>1, <2>2, Zenon DEF Risk
<1>4. order' = NoOrder /\ order'.kind = "none" /\ stopped' = stopped /\ turn' \in Syms
  BY TurnTyped DEF Answered, NoOrder, IInv, TypeOK
<1>5. order' \in [kind : {"none", "entry", "exit"}, qty : Nat]
  BY <1>4 DEF NoOrder
<1>6. position' \in [Syms -> Position]
  BY <1>1, <1>2 DEF IInv, TypeOK, Position
<1>7. TypeOK'
  BY <1>2, <1>3, <1>4, <1>5, <1>6, Zenon DEF IInv, TypeOK, Position
<1>8. Cardinality(OpenSyms') = Cardinality(OpenSyms) + 1
  BY <1>1, <1>2, OpeningCounts DEF IInv, OrderFits
<1>9. Slots' = Slots /\ Slots \in Nat /\ Slots = risk.open + 1
  BY <1>3, <1>4, SlotsTyped DEF Slots
<1>10. Solvent(risk') /\ StreakFits(risk', Slots') /\ DrawdownFits(risk', Slots')
  BY <1>3, <1>9, SlotsTyped, RoomKept DEF IInv
<1>11. CountIsRight'
  BY <1>3, <1>4, <1>8, <1>9, SlotsTyped, RiskAssumption
  DEF IInv, CountIsRight, RiskAssumption
<1>12. OrderFits'
  BY <1>4 DEF OrderFits
<1> QED BY <1>7, <1>10, <1>11, <1>12 DEF IInv, Solvent, StreakFits, DrawdownFits

(* A successful exit gives its slot back.                                  *)
LEMMA ClosedStep ==
    ASSUME IInv, order.kind = "exit", NEW pnl \in Results, ClosedWith(pnl), Answered,
           held' \in [Syms -> Nat], doubtful' = doubtful
    PROVE  IInv'
<1>1. Closed \in Position /\ Closed.open = FALSE
  <2>1. 0 \in Nat /\ 0 \in 0..MaxHold
    BY PredatorAssumption DEF PredatorAssumption
  <2> QED BY <2>1, Zenon DEF Closed, Position
<1>2. position' = [position EXCEPT ![turn] = Closed] /\ cooldown' = ExitPause
  BY DEF ClosedWith
<1>3. pnl \in Int /\ -MaxLoss <= pnl
  BY PredatorAssumption DEF Results, PredatorAssumption
<1>4. /\ risk' \in Risk /\ risk'.equity = risk.equity + pnl
      /\ risk'.open = risk.open - 1
      /\ risk'.losses = IF pnl > 0 THEN 0 ELSE risk.losses + 1
      /\ risk'.peak = IF risk.equity + pnl > risk.peak THEN risk.equity + pnl ELSE risk.peak
  <2>1. risk' = [AfterTrade(risk, pnl) EXCEPT !.open = @ - 1]
    BY DEF ClosedWith
  <2>2. risk \in Risk
    BY SlotsTyped
  <2> DEFINE x == [AfterTrade(risk, pnl) EXCEPT !.open = @ - 1]
  <2>3. /\ x \in Risk /\ x.equity = risk.equity + pnl /\ x.open = risk.open - 1
        /\ x.losses = IF pnl > 0 THEN 0 ELSE risk.losses + 1
        /\ x.peak = IF risk.equity + pnl > risk.peak THEN risk.equity + pnl ELSE risk.peak
    BY <1>3, <2>2, TradeRecorded
  <2> HIDE DEF x
  <2>4. risk' = x
    BY <2>1 DEF x
  <2> QED BY <2>3, <2>4
<1>5. order' = NoOrder /\ order'.kind = "none" /\ stopped' = stopped /\ turn' \in Syms
  BY TurnTyped DEF Answered, NoOrder, IInv, TypeOK
<1>6. order' \in [kind : {"none", "entry", "exit"}, qty : Nat]
  BY <1>5 DEF NoOrder
<1>7. position' \in [Syms -> Position] /\ cooldown' \in 0..ExitPause
  BY <1>1, <1>2, PredatorAssumption DEF IInv, TypeOK, Position, PredatorAssumption
<1>8. TypeOK'
  BY <1>4, <1>5, <1>6, <1>7, Zenon DEF IInv, TypeOK, Position
<1>9. Cardinality(OpenSyms') = Cardinality(OpenSyms) - 1
  BY <1>1, <1>2, ClosingCounts DEF IInv, OrderFits
<1>10. Slots = risk.open /\ Slots' = Slots - 1 /\ Slots \in Nat /\ Slots <= MaxConcurrent
  BY <1>4, <1>5, SlotsTyped DEF Slots
<1>11. Solvent(risk') /\ StreakFits(risk', Slots') /\ DrawdownFits(risk', Slots')
  <2>1. risk \in Risk /\ Solvent(risk) /\ StreakFits(risk, Slots) /\ DrawdownFits(risk, Slots)
    BY SlotsTyped DEF IInv
  <2>2. Solvent(risk') /\ StreakFits(risk', Slots - 1) /\ DrawdownFits(risk', Slots - 1)
    BY <1>3, <1>4, <1>10, <2>1, RoomAfterExit
  <2> QED BY <1>10, <2>2
<1>12. CountIsRight'
  BY <1>4, <1>5, <1>9, <1>10, SlotsTyped, RiskAssumption
  DEF IInv, CountIsRight, RiskAssumption
<1>13. OrderFits'
  BY <1>5 DEF OrderFits
<1> QED BY <1>8, <1>11, <1>12, <1>13 DEF IInv, Solvent, StreakFits, DrawdownFits

(* An answer without bookkeeping.                                          *)
LEMMA FailedStep == ASSUME IInv, Rejected \/ AnswerLost PROVE IInv'
<1>1. order' = NoOrder /\ order'.kind = "none" /\ turn' \in Syms
      /\ UNCHANGED <<risk, position, cooldown, stopped>>
  BY TurnTyped DEF Rejected, AnswerLost, Answered, NoOrder, IInv, TypeOK
<1>2. order' \in [kind : {"none", "entry", "exit"}, qty : Nat]
  BY <1>1 DEF NoOrder
<1>3. held' \in [Syms -> Nat] /\ doubtful' \subseteq Syms
  <2>1. CASE Rejected
    BY <2>1 DEF Rejected, IInv, TypeOK
  <2>2. CASE AnswerLost
    <3>1. order.qty \in Nat /\ order.kind \in {"entry", "exit"}
      BY <2>2 DEF AnswerLost, IInv, TypeOK
    <3>2. held' \in [Syms -> Nat]
      BY <2>2, <3>1, HeldTyped DEF AnswerLost, IInv
    <3>3. doubtful' \subseteq Syms
      BY <2>2 DEF AnswerLost, IInv, TypeOK
    <3> QED BY <3>2, <3>3
  <2> QED BY <2>1, <2>2
<1>4. TypeOK'
  BY <1>1, <1>2, <1>3, Zenon DEF IInv, TypeOK
<1>5. OpenSyms' = OpenSyms /\ OrderFits'
  BY <1>1 DEF OpenSyms, OrderFits
<1> QED BY <1>1, <1>4, <1>5, MoneyKept

(* Every answer.                                                           *)
LEMMA AnswerStep == ASSUME IInv, Answer PROVE IInv'
<1>1. order.qty \in Nat /\ TypeOK /\ doubtful \subseteq Syms /\ turn \in Syms
  BY DEF IInv, TypeOK
<1>2. CASE EntryFilled
  <2>1. held' \in [Syms -> Nat]
    BY <1>1, <1>2, HeldTyped DEF EntryFilled
  <2> QED BY <1>1, <1>2, <2>1, OpenedStep DEF EntryFilled
<1>3. CASE EntryExpired
  <2>1. PICK qty \in 0..order.qty - 1 :
           /\ Opened(qty)
           /\ held' = HeldAfter("entry", qty)
           /\ doubtful' = IF qty = 0 THEN doubtful \cup {turn} ELSE doubtful
    BY <1>3 DEF EntryExpired
  <2>2. qty \in Nat /\ qty <= order.qty
    BY <1>1
  <2>3. held' \in [Syms -> Nat] /\ doubtful' \subseteq Syms
    BY <1>1, <1>3, <2>1, <2>2, HeldTyped DEF EntryExpired
  <2> QED BY <1>3, <2>1, <2>2, <2>3, OpenedStep DEF EntryExpired
<1>4. CASE ExitFilled
  <2>1. held' \in [Syms -> Nat]
    BY <1>1, <1>4, HeldTyped DEF ExitFilled
  <2> QED BY <1>4, <2>1, ClosedStep DEF ExitFilled
<1>5. CASE ExitExpired
  <2>1. PICK qty \in 0..order.qty - 1 :
           /\ \E pnl \in Results : ClosedWith(pnl)
           /\ held' = HeldAfter("exit", qty)
    BY <1>5 DEF ExitExpired
  <2>2. qty \in Nat /\ qty <= order.qty
    BY <1>1
  <2>3. held' \in [Syms -> Nat]
    BY <1>1, <1>5, <2>1, <2>2, HeldTyped DEF ExitExpired
  <2> QED BY <1>5, <2>1, <2>3, ClosedStep DEF ExitExpired
<1>6. CASE Rejected \/ AnswerLost
  BY <1>6, FailedStep
<1> QED BY <1>2, <1>3, <1>4, <1>5, <1>6 DEF Answer

-----------------------------------------------------------------------------
(* The other coroutines                                                    *)

(* The dashboard asks the risk manager, or ends the engine.                *)
LEMMA DashboardStep == ASSUME IInv, Dashboard PROVE IInv'
<1>1. UNCHANGED <<position, turn, order, cooldown, held, doubtful>>
      /\ risk' \in {risk, AfterCheck(risk)} /\ stopped' \in {stopped, TRUE}
  BY DEF Dashboard
<1>2. /\ risk' \in Risk /\ risk'.equity = risk.equity /\ risk'.peak = risk.peak
      /\ risk'.open = risk.open /\ risk'.losses \in {risk.losses, 0}
  BY <1>1, SlotsTyped, CheckKeepsMoney, Zenon
<1>3. TypeOK'
  BY <1>1, <1>2, Zenon DEF IInv, TypeOK
<1>4. OpenSyms' = OpenSyms
  BY <1>1 DEF OpenSyms
<1>5. OrderFits'
  <2>1. ~Stopped(risk) => ~Stopped(risk')
    BY <1>1, SlotsTyped, CheckStaysAllowed DEF IInv, Solvent
  <2> QED BY <1>1, <2>1 DEF IInv, OrderFits
<1> QED BY <1>1, <1>2, <1>3, <1>4, <1>5, MoneyKept

(* Time passes.                                                            *)
LEMMA TickStep == ASSUME IInv, Tick PROVE IInv'
<1>1. UNCHANGED <<turn, order, stopped, held, doubtful>> /\ risk' = AfterTick(risk)
  BY DEF Tick
<1>2. /\ risk' \in Risk /\ risk'.equity = risk.equity /\ risk'.peak = risk.peak
      /\ risk'.open = risk.open /\ risk'.losses = risk.losses
  BY <1>1, SlotsTyped, TickKeepsMoney
<1>3. ASSUME NEW s \in Syms
      PROVE  position'[s] \in Position /\ position'[s].open = position[s].open
  <2>1. position[s] \in Position
    BY DEF IInv, TypeOK, Position
  <2>2. position[s].age \in 0..MaxHold
    BY <2>1, Zenon DEF Position
  <2>3. PICK a \in 0..MaxHold :
           a = IF position[s].open /\ position[s].age < MaxHold
                 THEN position[s].age + 1 ELSE position[s].age
    BY <2>2, PredatorAssumption DEF PredatorAssumption
  <2>4. position'[s] = [position[s] EXCEPT !.age = a]
    BY <2>3, Zenon DEF Tick
  <2> QED BY <2>1, <2>4, Zenon DEF Position
<1>4. position' \in [Syms -> Position]
  <2>1. DOMAIN position' = Syms /\ position' = [s \in Syms |-> position'[s]]
    BY Zenon DEF Tick
  <2> QED BY <1>3, <2>1, Zenon
<1>5. cooldown' \in 0..ExitPause
  BY PredatorAssumption DEF PredatorAssumption, Tick, IInv, TypeOK
<1>6. TypeOK'
  BY <1>1, <1>2, <1>4, <1>5, Zenon DEF IInv, TypeOK, Position
<1>7. OpenSyms' = OpenSyms
  BY <1>3 DEF OpenSyms
<1>8. OrderFits'
  <2>1. ~Stopped(risk) => ~Stopped(risk')
    BY <1>1, SlotsTyped, TickStaysAllowed DEF IInv, Solvent
  <2>2. turn \in Syms
    BY DEF IInv, TypeOK
  <2> QED BY <1>1, <1>3, <2>1, <2>2 DEF IInv, OrderFits
<1> QED BY <1>1, <1>2, <1>6, <1>7, <1>8, MoneyKept

(* Nothing changes but perhaps the request to stop.                        *)
LEMMA StopStep ==
    ASSUME IInv, RequestStop \/ UNCHANGED vars
    PROVE  IInv'
<1>1. UNCHANGED <<risk, position, turn, order, cooldown, held, doubtful>>
      /\ stopped' \in {stopped, TRUE}
  BY DEF RequestStop, vars
<1>2. TypeOK'
  BY <1>1, Zenon DEF IInv, TypeOK
<1>3. OpenSyms' = OpenSyms /\ OrderFits'
  BY <1>1 DEF IInv, OpenSyms, OrderFits
<1> QED BY <1>1, <1>2, <1>3, MoneyKept

-----------------------------------------------------------------------------
(* The theorems                                                            *)

(* Every step keeps the invariant.                                         *)
LEMMA InvariantStep == IInv /\ [Next]_vars => IInv'
<1> SUFFICES ASSUME IInv, [Next]_vars PROVE IInv'
  OBVIOUS
<1>1. CASE LoopStep
  BY <1>1, QuietLoopStep, EnterStep, ExitStep DEF LoopStep, LookedAt
<1>2. CASE Answer
  BY <1>2, AnswerStep
<1>3. CASE Dashboard
  BY <1>3, DashboardStep
<1>4. CASE Tick
  BY <1>4, TickStep
<1>5. CASE RequestStop \/ UNCHANGED vars
  BY <1>5, StopStep
<1> QED BY <1>1, <1>2, <1>3, <1>4, <1>5 DEF Next

(* The invariant holds in every state.                                     *)
THEOREM Invariance == Spec => []IInv
BY InvariantInitially, InvariantStep, PTL DEF Spec

(* Every variable keeps its type.                                          *)
THEOREM TypeCorrect == Spec => []TypeOK
<1>1. IInv => TypeOK
  BY DEF IInv
<1> QED BY <1>1, Invariance, PTL

(* The risk manager counts the positions there are, and the entry in       *)
(* flight has its slot.                                                    *)
THEOREM CountsPositions == Spec => []CountIsRight
<1>1. IInv => CountIsRight
  BY DEF IInv
<1> QED BY <1>1, Invariance, PTL

(* A losing streak goes on past its limit for at most the open positions.  *)
THEOREM StreaksEnd == Spec => []StreakIsBounded
<1>1. IInv => StreakIsBounded
  <2> SUFFICES ASSUME IInv PROVE StreakIsBounded
    OBVIOUS
  <2>1. risk.losses + Slots < PauseAfter + MaxConcurrent /\ Slots \in Nat
    BY SlotsTyped DEF IInv, StreakFits
  <2>2. risk.losses \in Nat /\ PauseAfter \in Nat /\ MaxConcurrent \in Nat
    BY SlotsTyped, RiskNumbers, RiskAssumption DEF RiskAssumption
  <2> QED BY <2>1, <2>2 DEF StreakIsBounded
<1> QED BY <1>1, Invariance, PTL

(* The equity stays above the limit less what the open positions can lose. *)
THEOREM LossesAreBounded == Spec => []DrawdownIsBounded
<1>1. IInv => DrawdownIsBounded
  <2> SUFFICES ASSUME IInv PROVE DrawdownIsBounded
    OBVIOUS
  <2> DEFINE d == (risk.peak - risk.equity) * 100
             l == MaxDrawdownPct * risk.peak
             c == MaxLoss * MaxConcurrent
             a == MaxLoss * Slots
  <2>1. d + 100 * a < l + 100 * c
    BY DEF IInv, DrawdownFits
  <2>2. MaxLoss * 0 <= a /\ MaxLoss * 0 = 0 /\ a \in Int /\ c \in Int
    BY SlotsTyped, ProductKeepsOrder, RiskAssumption, PredatorAssumption
    DEF RiskAssumption, PredatorAssumption
  <2>3. d \in Int /\ l \in Int
    BY SlotsTyped, ProductsTyped
  <2>4. 100 * MaxLoss * MaxConcurrent = 100 * c
    BY RiskAssumption, PredatorAssumption DEF RiskAssumption, PredatorAssumption
  <2> HIDE DEF d, l, c, a
  <2>5. d < l + 100 * c
    BY <2>1, <2>2, <2>3
  <2> QED BY <2>4, <2>5 DEF DrawdownIsBounded, d, l
<1> QED BY <1>1, Invariance, PTL

(* No position is opened while anything stops trading.                     *)
THEOREM EntriesAreAllowed == Spec => NoEntryWhileStopped
<1>1. IInv /\ [Next]_vars =>
          [\A s \in Syms : ~position[s].open /\ position'[s].open => ~Stopped(risk)]_vars
  <2> SUFFICES ASSUME IInv, Next, NEW s \in Syms,
                      ~position[s].open, position'[s].open
               PROVE  ~Stopped(risk)
    OBVIOUS
  <2>1. CASE EntryFilled \/ EntryExpired
    BY <2>1 DEF EntryFilled, EntryExpired, IInv, OrderFits
  <2>2. CASE ExitFilled \/ ExitExpired
    <3>1. PICK pnl \in Results : ClosedWith(pnl)
      BY <2>2 DEF ExitFilled, ExitExpired
    <3>2. position' = [position EXCEPT ![turn] = Closed] /\ Closed.open = FALSE
      BY <3>1 DEF ClosedWith, Closed
    <3> QED BY <3>2 DEF IInv, TypeOK
  <2>3. CASE Tick
    <3>1. position'[s] = [position[s] EXCEPT
             !.age = IF position[s].open /\ @ < MaxHold THEN @ + 1 ELSE @]
      BY <2>3 DEF Tick
    <3>2. position[s] \in Position
      BY DEF IInv, TypeOK, Position
    <3>3. position'[s].open = position[s].open
      BY <3>1, <3>2, Zenon DEF Position
    <3> QED BY <3>3
  <2>4. CASE LoopStep \/ Rejected \/ AnswerLost \/ Dashboard \/ RequestStop
    <3>1. position' = position
      BY <2>4 DEF LoopStep, LookedAt, NoEntry, NoBook, Enter, Hold, Exit, PassFails, Rejected,
                  AnswerLost, Dashboard, RequestStop
    <3> QED BY <3>1
  <2> QED BY <2>1, <2>2, <2>3, <2>4 DEF Next, Answer
<1> QED BY <1>1, Invariance, PTL DEF Spec, NoEntryWhileStopped

-----------------------------------------------------------------------------
(* Books from a stream.                                                    *)

Message == [type : {"delta", "snapshot"}, levels : UNION {[S -> Sizes] : S \in SUBSET Levels}]

Telling(q, l) == {i \in DOMAIN q : l \in DOMAIN q[i].levels}

(* WrongOnlyWhereMissed for one level: a book b will have x there once the *)
(* messages q are received.                                                *)
Becomes(b, q, l, x) ==
    /\ Telling(q, l) = {} => b[l] = x
    /\ \A i \in Telling(q, l) : (\A j \in Telling(q, l) : j <= i) => q[i].levels[l] = x

Ahead == IF pc = "snapshot" THEN answer ELSE book

FeedTyped ==
    /\ FeedTypeOK /\ queue \in Seq(Message)
    /\ \A i \in DOMAIN queue : queue[i].type = "snapshot" => DOMAIN queue[i].levels = Levels
    /\ pc # "connected" => queue = <<>>
    /\ pc = "start" => exchange = "binance"

FeedInv ==
    /\ FeedTyped
    /\ pc # "stopped" =>
          \A l \in Levels \ missed : Becomes(Ahead, queue, l, Shown(market)[l])

(* A stream that tells nothing leaves the book (LocalBook).                *)
LEMMA NothingTold ==
    ASSUME NEW b, NEW l, NEW x
    PROVE  Becomes(b, <<>>, l, x) <=> b[l] = x
<1>1. Telling(<<>>, l) = {}
  BY DEF Telling
<1> QED BY <1>1 DEF Becomes

(* A message that is added has the last word on the levels it tells of ... *)
(* (the exchange's stream).                                                *)
LEMMA LastWordAlone ==
    ASSUME NEW b, NEW q \in Seq(Message), NEW m \in Message, NEW l \in DOMAIN m.levels,
           NEW y, m.levels[l] = y
    PROVE  Becomes(b, Append(q, m), l, y)
<1> DEFINE n == Len(q)
           p == Append(q, m)
<1>1. n \in Nat /\ DOMAIN p = 1..n + 1 /\ p[n + 1] = m
  BY AppendProperties
<1> HIDE DEF n, p
<1>2. n + 1 \in Telling(p, l)
  BY <1>1 DEF Telling
<1>3. ASSUME NEW i \in Telling(p, l), \A j \in Telling(p, l) : j <= i
      PROVE  p[i].levels[l] = y
  <2>1. i \in 1..n + 1 /\ n + 1 <= i
    BY <1>1, <1>2, <1>3 DEF Telling
  <2>2. i = n + 1
    BY <1>1, <2>1
  <2> QED BY <1>1, <2>2
<1> QED BY <1>2, <1>3 DEF Becomes, p

(* ... and none on the others.                                             *)
LEMMA LastWord ==
    ASSUME NEW b, NEW q \in Seq(Message), NEW m \in Message, NEW l, NEW x, NEW y,
           Becomes(b, q, l, x),
           l \in DOMAIN m.levels => m.levels[l] = y, l \notin DOMAIN m.levels => x = y
    PROVE  Becomes(b, Append(q, m), l, y)
<1> DEFINE n == Len(q)
           p == Append(q, m)
<1>1. /\ n \in Nat /\ DOMAIN q = 1..n /\ DOMAIN p = 1..n + 1 /\ p[n + 1] = m
      /\ \A i \in 1..n : p[i] = q[i]
  BY AppendProperties
<1> HIDE DEF n, p
<1>2. CASE l \in DOMAIN m.levels
  BY <1>2, LastWordAlone DEF p
<1>3. CASE l \notin DOMAIN m.levels
  <2>1. \A i \in DOMAIN p : l \in DOMAIN p[i].levels <=> i \in 1..n /\ l \in DOMAIN q[i].levels
    <3> SUFFICES ASSUME NEW i \in 1..n + 1
                 PROVE  l \in DOMAIN p[i].levels <=> i \in 1..n /\ l \in DOMAIN q[i].levels
      BY <1>1
    <3>1. CASE i \in 1..n
      BY <1>1, <3>1
    <3>2. CASE i \notin 1..n
      <4>1. i = n + 1
        BY <1>1, <3>2
      <4> QED BY <1>1, <1>3, <3>2, <4>1
    <3> QED BY <3>1, <3>2
  <2>2. Telling(p, l) = Telling(q, l)
    <3>1. 1..n \subseteq 1..n + 1
      BY <1>1
    <3> QED BY <1>1, <2>1, <3>1 DEF Telling
  <2>3. \A i \in Telling(q, l) : p[i] = q[i]
    BY <1>1 DEF Telling
  <2> QED BY <1>3, <2>2, <2>3 DEF Becomes, p
<1> QED BY <1>2, <1>3

(* To receive a message is to have what it tells of in the book            *)
(* (_process_depth, _process_book).                                        *)
LEMMA FirstReceived ==
    ASSUME NEW b, NEW q \in Seq(Message), q # <<>>, NEW l, NEW x, Becomes(b, q, l, x),
           NEW c, l \in DOMAIN Head(q).levels => c[l] = Head(q).levels[l],
           l \notin DOMAIN Head(q).levels => c[l] = b[l]
    PROVE  Becomes(c, Tail(q), l, x)
<1> DEFINE n == Len(q)
           p == Tail(q)
<1>1. /\ n \in Nat \ {0} /\ DOMAIN q = 1..n /\ DOMAIN p = 1..n - 1 /\ Head(q) = q[1]
      /\ \A i \in 1..n - 1 : p[i] = q[i + 1]
  <2>1. n \in Nat \ {0}
    BY EmptySeq
  <2>2. p \in Seq(Message) /\ Len(p) = n - 1 /\ \A i \in 1..n - 1 : p[i] = q[i + 1]
    BY HeadTailProperties
  <2> QED BY <2>1, <2>2
<1> HIDE DEF n, p
<1>2. \A i \in 1..n - 1 : i \in Telling(p, l) <=> i + 1 \in Telling(q, l)
  <2>1. \A i \in 1..n - 1 : i + 1 \in 1..n
    BY <1>1
  <2> QED BY <1>1, <2>1 DEF Telling
<1>3. \A j \in Telling(q, l) : j \in 1..n /\ (j = 1 \/ (j - 1 \in 1..n - 1 /\ j - 1 + 1 = j))
  <2>1. \A j \in Telling(q, l) : j \in 1..n
    BY <1>1 DEF Telling
  <2> QED BY <1>1, <2>1
<1>4. \A i \in Telling(p, l) : i \in 1..n - 1
  BY <1>1 DEF Telling
<1>5. Telling(p, l) = {} => c[l] = x
  <2> SUFFICES ASSUME Telling(p, l) = {} PROVE c[l] = x
    OBVIOUS
  <2>1. \A j \in Telling(q, l) : j = 1
    BY <1>2, <1>3
  <2>2. CASE 1 \in Telling(q, l)
    <3>1. \A j \in Telling(q, l) : j <= 1
      BY <2>1
    <3>2. q[1].levels[l] = x
      BY <2>2, <3>1 DEF Becomes
    <3> QED BY <1>1, <2>2, <3>2 DEF Telling
  <2>3. CASE 1 \notin Telling(q, l)
    <3>1. Telling(q, l) = {}
      BY <2>1, <2>3
    <3>2. b[l] = x
      BY <3>1 DEF Becomes
    <3>3. 1 \in DOMAIN q
      BY <1>1
    <3>4. l \notin DOMAIN Head(q).levels
      BY <1>1, <2>3, <3>3 DEF Telling
    <3> QED BY <3>2, <3>4
  <2> QED BY <2>2, <2>3
<1>6. ASSUME NEW i \in Telling(p, l), \A j \in Telling(p, l) : j <= i
      PROVE  p[i].levels[l] = x
  <2>1. i \in 1..n - 1 /\ i + 1 \in Telling(q, l) /\ p[i] = q[i + 1]
    BY <1>1, <1>2, <1>4
  <2>2. ASSUME NEW j \in Telling(q, l) PROVE j <= i + 1
    <3>1. CASE j = 1
      BY <2>1, <3>1
    <3>2. CASE j - 1 \in 1..n - 1 /\ j - 1 + 1 = j
      <4>1. j - 1 \in Telling(p, l)
        BY <1>2, <3>2
      <4>2. j - 1 <= i
        BY <1>6, <4>1
      <4> QED BY <1>1, <2>1, <3>2, <4>2
    <3> QED BY <1>3, <3>1, <3>2
  <2> QED BY <2>1, <2>2 DEF Becomes
<1> QED BY <1>5, <1>6 DEF Becomes, p

(* The best levels of a book, and what a stream shows of it, are a book.   *)
LEMMA BooksTyped ==
    ASSUME NEW b \in Full
    PROVE  Best(b) \in Full /\ Shown(b) \in Full
<1>1. 0 \in Sizes
  BY BookFeedAssumption
<1>2. Best(b) \in Full
  BY <1>1 DEF Best, Full
<1> QED BY <1>2 DEF Shown

(* The exchange's book changes, and the stream says so (the exchange).     *)
LEMMA ChangeStep ==
    ASSUME FeedInv, NEW l \in Levels, NEW size \in Sizes, Change(l, size)
    PROVE  FeedInv'
<1> DEFINE new == [market EXCEPT ![l] = size]
           delta == [k \in Changed(market, new) |-> Shown(new)[k]]
           told == pc = "connected" /\ delta # <<>>
           message == [type |-> "delta", levels |-> delta]
<1>1. /\ changes < MaxChanges /\ Len(queue) < MaxQueue /\ changes' = changes + 1
      /\ market' = new
      /\ queue' = IF told THEN Append(queue, message) ELSE queue
      /\ missed' = IF pc = "connected" THEN missed \ DOMAIN delta ELSE missed \cup DOMAIN delta
      /\ UNCHANGED <<exchange, pc, answer, book, drops>>
  BY DEF Change
<1>2. new \in Full /\ Shown(new) \in Full /\ FeedTyped
  BY BooksTyped DEF FeedInv, FeedTyped, FeedTypeOK, Full
<1>3. /\ DOMAIN delta = Changed(market, new) /\ DOMAIN delta \subseteq Levels
      /\ \A k \in DOMAIN delta : delta[k] = Shown(new)[k]
      /\ \A k \in Levels \ DOMAIN delta : Shown(market)[k] = Shown(new)[k]
  BY DEF Changed
<1>4. message \in Message /\ message.type = "delta" /\ message.levels = delta
  <2>1. delta \in [DOMAIN delta -> Sizes]
    BY <1>2, <1>3 DEF Full
  <2>2. delta \in UNION {[S -> Sizes] : S \in SUBSET Levels}
    BY <1>3, <2>1
  <2> HIDE DEF delta
  <2> QED BY <2>2 DEF Message
<1>5. Shown(market)' = Shown(new) /\ Ahead' = Ahead
  <2>1. Shown(market)' = Shown(market')
    BY <1>1 DEF Shown, Best
  <2> QED BY <1>1, <2>1 DEF Ahead
<1>6. delta = <<>> => DOMAIN delta = {}
  <2>1. DOMAIN <<>> = {}
    OBVIOUS
  <2> HIDE DEF delta
  <2> QED BY <2>1
<1> HIDE DEF new, delta, message
<1>7. FeedTyped'
  <2>1. Len(queue) \in Nat /\ queue \in Seq(Message)
    BY <1>2 DEF FeedTyped
  <2>2. /\ queue' \in Seq(Message) /\ Len(queue') <= MaxQueue + 1
        /\ \A i \in DOMAIN queue' : queue'[i].type = "snapshot" => DOMAIN queue'[i].levels = Levels
    <3>1. CASE told
      <4>1. queue' = Append(queue, message)
        BY <1>1, <3>1
      <4>2. /\ Append(queue, message) \in Seq(Message)
            /\ Len(Append(queue, message)) = Len(queue) + 1
            /\ Append(queue, message)[Len(queue) + 1] = message
            /\ \A i \in 1..Len(queue) : Append(queue, message)[i] = queue[i]
        BY <1>4, <2>1, AppendProperties
      <4>3. ASSUME NEW i \in DOMAIN queue', queue'[i].type = "snapshot"
            PROVE  DOMAIN queue'[i].levels = Levels
        <5>1. i \in 1..Len(queue) + 1
          BY <4>1, <4>2, <4>3
        <5>2. CASE i \in 1..Len(queue)
          BY <1>2, <2>1, <4>1, <4>2, <4>3, <5>2 DEF FeedTyped
        <5>3. CASE i \notin 1..Len(queue)
          <6>1. i = Len(queue) + 1
            BY <2>1, <5>1, <5>3
          <6>2. queue'[i].type = "delta"
            BY <1>4, <4>1, <4>2, <6>1
          <6> QED BY <4>3, <6>2
        <5> QED BY <5>2, <5>3
      <4> QED BY <1>1, <2>1, <4>1, <4>2, <4>3, BookFeedAssumption
    <3>2. CASE ~told
      BY <1>1, <1>2, <2>1, <3>2, BookFeedAssumption DEF FeedTyped
    <3> QED BY <3>1, <3>2
  <2>3. changes' \in 0..MaxChanges /\ missed' \subseteq Levels /\ market' \in Full
    <3>1. changes \in 0..MaxChanges /\ missed \subseteq Levels /\ MaxChanges \in Nat
      BY <1>2, BookFeedAssumption DEF FeedTyped, FeedTypeOK
    <3>2. changes' \in 0..MaxChanges
      BY <1>1, <3>1
    <3>3. missed' \subseteq Levels
      BY <1>1, <1>3, <3>1, Zenon
    <3> QED BY <1>1, <1>2, <3>2, <3>3
  <2>4. pc' # "connected" => queue' = <<>>
    BY <1>1, <1>2 DEF FeedTyped
  <2> QED BY <1>1, <1>2, <2>2, <2>3, <2>4, Zenon DEF FeedTyped, FeedTypeOK, Full
<1>8. ASSUME pc # "stopped", NEW k \in Levels \ missed'
      PROVE  Becomes(Ahead, queue', k, Shown(new)[k])
  <2>1. CASE told /\ k \in missed
    <3>1. k \in DOMAIN delta
      BY <1>1, <1>8, <2>1
    <3>2. Becomes(Ahead, Append(queue, message), k, Shown(new)[k])
      BY <1>2, <1>3, <1>4, <3>1, LastWordAlone DEF FeedTyped
    <3> QED BY <1>1, <2>1, <3>2
  <2>2. CASE told /\ k \notin missed
    <3>1. Becomes(Ahead, queue, k, Shown(market)[k])
      BY <1>8, <2>2 DEF FeedInv
    <3>2. k \notin DOMAIN delta => Shown(market)[k] = Shown(new)[k]
      BY <1>3
    <3>3. Becomes(Ahead, Append(queue, message), k, Shown(new)[k])
      BY <1>2, <1>3, <1>4, <3>1, <3>2, LastWord DEF FeedTyped
    <3> QED BY <1>1, <2>2, <3>3
  <2>3. CASE ~told
    <3>1. k \notin DOMAIN delta /\ k \notin missed
      BY <1>1, <1>6, <1>8, <2>3
    <3>2. Becomes(Ahead, queue, k, Shown(market)[k])
      BY <1>8, <3>1 DEF FeedInv
    <3> QED BY <1>1, <1>3, <2>3, <3>1, <3>2
  <2> QED BY <2>1, <2>2, <2>3
<1> QED BY <1>1, <1>5, <1>7, <1>8 DEF FeedInv

(* What the client does and the breaks of its stream (_init_books,         *)
(* _ws_loop, _process_depth, _process_book).                               *)
LEMMA ClientStep ==
    ASSUME FeedInv,
           FetchSnapshot \/ LoadSnapshot \/ Connect \/ Drop \/ Receive \/ Stop
    PROVE  FeedInv'
<1>1. FeedTyped /\ market \in Full /\ book \in Full /\ answer \in Full
  BY DEF FeedInv, FeedTyped, FeedTypeOK
<1>2. CASE FetchSnapshot
  <2>1. /\ pc = "start" /\ pc' = "snapshot" /\ answer' = Best(market)
        /\ missed' = {l \in Levels : Best(market)[l] # market[l]}
        /\ UNCHANGED <<exchange, market, changes, queue, book, drops>>
    BY <1>2 DEF FetchSnapshot
  <2>2. exchange = "binance" /\ queue = <<>>
    BY <1>1, <2>1 DEF FeedTyped
  <2>3. FeedTyped'
    BY <1>1, <2>1, <2>2, BooksTyped DEF FeedTyped, FeedTypeOK
  <2>4. Shown(market)' = market
    BY <2>1, <2>2 DEF Shown
  <2>5. Ahead' = Best(market)
    BY <2>1 DEF Ahead
  <2>6. \A l \in Levels \ missed' : Becomes(Best(market), <<>>, l, market[l])
    BY <2>1, NothingTold
  <2> QED BY <2>1, <2>2, <2>3, <2>4, <2>5, <2>6 DEF FeedInv
<1>3. CASE LoadSnapshot
  <2>1. /\ pc = "snapshot" /\ pc' = "disconnected"
        /\ (book' = answer /\ missed' = missed) \/ (missed' = Levels /\ book' = book)
        /\ UNCHANGED <<exchange, market, changes, answer, queue, drops>>
    BY <1>3 DEF LoadSnapshot
  <2>2. FeedTyped'
    BY <1>1, <2>1 DEF FeedTyped, FeedTypeOK
  <2>3. Shown(market)' = Shown(market)
    BY <2>1 DEF Shown, Best
  <2>4. missed' = missed => Ahead' = Ahead \/ Levels \ missed' = {}
    BY <2>1 DEF Ahead
  <2>5. \A l \in Levels \ missed' : Becomes(Ahead', queue, l, Shown(market)[l])
    BY <2>1, <2>4 DEF FeedInv
  <2> QED BY <2>1, <2>2, <2>3, <2>5 DEF FeedInv
<1>4. CASE Connect
  <2>1. /\ pc = "disconnected" /\ pc' = "connected"
        /\ UNCHANGED <<exchange, market, changes, answer, book, drops>>
    BY <1>4 DEF Connect
  <2>2. Shown(market)' = Shown(market) /\ Ahead' = Ahead
    BY <2>1 DEF Shown, Best, Ahead
  <2>3. CASE exchange # "bybit"
    <3>1. queue' = queue /\ missed' = missed
      BY <1>4, <2>3 DEF Connect
    <3>2. FeedTyped'
      BY <1>1, <2>1, <3>1 DEF FeedTyped, FeedTypeOK
    <3> QED BY <2>1, <2>2, <3>1, <3>2 DEF FeedInv
  <2>4. CASE exchange = "bybit"
    <3> DEFINE message == [type |-> "snapshot", levels |-> Best(market)]
    <3>1. queue' = <<message>> /\ missed' = {}
      BY <1>4, <2>4 DEF Connect, Subscribe
    <3>2. Best(market) \in Full /\ DOMAIN Best(market) = Levels /\ Shown(market) = Best(market)
      BY <1>1, <2>4, BooksTyped DEF Full, Shown
    <3>3. message \in Message /\ message.levels = Best(market)
      <4>1. Best(market) \in UNION {[S -> Sizes] : S \in SUBSET Levels}
        BY <3>2 DEF Full
      <4> QED BY <4>1 DEF Message
    <3> HIDE DEF message
    <3>4. /\ queue' \in Seq(Message) /\ Len(queue') = 1 /\ DOMAIN queue' = {1}
          /\ queue'[1] = message
      BY <3>1, <3>3
    <3>5. FeedTyped'
      <4>1. Len(queue') <= MaxQueue + 1
        BY <3>4, BookFeedAssumption
      <4>2. \A i \in DOMAIN queue' : DOMAIN queue'[i].levels = Levels
        BY <3>2, <3>3, <3>4
      <4> QED BY <1>1, <2>1, <3>1, <3>4, <4>1, <4>2 DEF FeedTyped, FeedTypeOK
    <3>6. ASSUME NEW l \in Levels PROVE Becomes(Ahead', queue', l, Shown(market)[l])
      <4>1. Telling(queue', l) = {1}
        BY <3>2, <3>3, <3>4 DEF Telling
      <4> QED BY <3>2, <3>3, <3>4, <4>1 DEF Becomes
    <3> QED BY <2>2, <3>5, <3>6 DEF FeedInv
  <2> QED BY <2>3, <2>4
<1>5. CASE Drop
  <2>1. /\ pc = "connected" /\ pc' = "disconnected" /\ drops < MaxDrops /\ drops' = drops + 1
        /\ queue' = <<>>
        /\ missed' = missed \cup UNION {DOMAIN queue[i].levels : i \in DOMAIN queue}
        /\ UNCHANGED <<exchange, market, changes, answer, book>>
    BY <1>5 DEF Drop
  <2>2. Shown(market)' = Shown(market) /\ Ahead' = Ahead
    BY <2>1 DEF Shown, Best, Ahead
  <2>3. \A i \in DOMAIN queue : DOMAIN queue[i].levels \subseteq Levels
    <3> SUFFICES ASSUME NEW i \in DOMAIN queue PROVE DOMAIN queue[i].levels \subseteq Levels
      OBVIOUS
    <3>1. queue[i] \in Message
      BY <1>1 DEF FeedTyped
    <3>2. PICK S \in SUBSET Levels : queue[i].levels \in [S -> Sizes]
      BY <3>1 DEF Message
    <3> QED BY <3>2
  <2>4. FeedTyped'
    <3>1. missed' \subseteq Levels
      BY <1>1, <2>1, <2>3 DEF FeedTyped, FeedTypeOK
    <3>2. drops' \in 0..MaxDrops /\ Len(queue') <= MaxQueue + 1
      BY <1>1, <2>1, BookFeedAssumption DEF FeedTyped, FeedTypeOK
    <3> QED BY <1>1, <2>1, <3>1, <3>2 DEF FeedTyped, FeedTypeOK
  <2>5. ASSUME NEW l \in Levels \ missed' PROVE Becomes(Ahead, <<>>, l, Shown(market)[l])
    <3>1. Telling(queue, l) = {} /\ l \notin missed
      BY <2>1, <2>5 DEF Telling
    <3>2. Becomes(Ahead, queue, l, Shown(market)[l])
      BY <2>1, <2>5, <3>1 DEF FeedInv
    <3> QED BY <3>1, <3>2, NothingTold DEF Becomes
  <2> QED BY <2>1, <2>2, <2>4, <2>5 DEF FeedInv
<1>6. CASE Receive
  <2>1. /\ pc = "connected" /\ queue # <<>>
        /\ book' = Processed(book, Head(queue)) /\ queue' = Tail(queue)
        /\ UNCHANGED <<exchange, market, changes, pc, answer, missed, drops>>
    BY <1>6 DEF Receive
  <2>2. /\ queue \in Seq(Message) /\ Len(queue) \in Nat \ {0} /\ Head(queue) = queue[1]
        /\ Head(queue) \in Message
        /\ Tail(queue) \in Seq(Message) /\ Len(Tail(queue)) = Len(queue) - 1
        /\ \A i \in 1..Len(Tail(queue)) : Tail(queue)[i] = queue[i + 1] /\ i + 1 \in DOMAIN queue
        /\ 1 \in DOMAIN queue
    <3>1. queue \in Seq(Message) /\ queue # <<>>
      BY <1>1, <2>1 DEF FeedTyped
    <3>2. Len(queue) \in Nat \ {0} /\ Head(queue) = queue[1]
      BY <3>1, EmptySeq
    <3>3. /\ Head(queue) \in Message /\ Tail(queue) \in Seq(Message)
          /\ Len(Tail(queue)) = Len(queue) - 1
          /\ \A i \in 1..Len(queue) - 1 : Tail(queue)[i] = queue[i + 1]
      BY <3>1, HeadTailProperties
    <3> QED BY <3>1, <3>2, <3>3
  <2>3. Shown(market)' = Shown(market) /\ Ahead' = book' /\ Ahead = book
    BY <2>1 DEF Shown, Best, Ahead
  <2>4. /\ Head(queue).type = "snapshot" => DOMAIN Head(queue).levels = Levels
        /\ Head(queue).levels \in UNION {[S -> Sizes] : S \in SUBSET Levels}
    BY <1>1, <2>2 DEF FeedTyped, Message
  <2>5. book' \in Full
    <3>1. CASE Head(queue).type = "snapshot"
      BY <2>1, <2>4, <3>1 DEF Processed, Full
    <3>2. CASE Head(queue).type # "snapshot"
      BY <1>1, <2>1, <2>4, <3>2 DEF Processed, Updated, Full
    <3> QED BY <3>1, <3>2
  <2>6. ASSUME NEW l \in Levels
        PROVE  book'[l] = IF l \in DOMAIN Head(queue).levels THEN Head(queue).levels[l] ELSE book[l]
    BY <2>1, <2>4, <2>6 DEF Processed, Updated
  <2>7. FeedTyped'
    <3>1. Len(queue') <= MaxQueue + 1
      BY <1>1, <2>1, <2>2, BookFeedAssumption DEF FeedTyped, FeedTypeOK
    <3>2. \A i \in DOMAIN queue' : queue'[i].type = "snapshot" => DOMAIN queue'[i].levels = Levels
      BY <1>1, <2>1, <2>2 DEF FeedTyped
    <3> QED BY <1>1, <2>1, <2>2, <2>5, <3>1, <3>2, Zenon DEF FeedTyped, FeedTypeOK
  <2>8. ASSUME NEW l \in Levels \ missed PROVE Becomes(book', queue', l, Shown(market)[l])
    <3>1. Becomes(book, queue, l, Shown(market)[l])
      BY <2>1, <2>3, <2>8 DEF FeedInv
    <3> QED BY <2>1, <2>2, <2>6, <3>1, FirstReceived
  <2> QED BY <2>1, <2>3, <2>7, <2>8 DEF FeedInv
<1>7. CASE Stop
  <2>1. /\ pc' = "stopped" /\ queue' = <<>> /\ missed' = Levels
        /\ UNCHANGED <<exchange, market, changes, answer, book, drops>>
    BY <1>7 DEF Stop
  <2>2. Len(queue') <= MaxQueue + 1
    BY <2>1, BookFeedAssumption
  <2> QED BY <1>1, <2>1, <2>2 DEF FeedInv, FeedTyped, FeedTypeOK
<1> QED BY <1>2, <1>3, <1>4, <1>5, <1>6, <1>7

(* The client starts with an empty book that it was told nothing of.       *)
LEMMA FeedInitially == FeedInit => FeedInv
<1> SUFFICES ASSUME FeedInit PROVE FeedInv
  OBVIOUS
<1>1. /\ exchange \in {"binance", "bybit"} /\ missed = Levels /\ queue = <<>>
      /\ market \in Full /\ book = Nothing /\ answer = Nothing /\ changes = 0 /\ drops = 0
      /\ pc = IF exchange = "binance" THEN "start" ELSE "disconnected"
  BY DEF FeedInit
<1>2. Nothing \in Full
  BY BookFeedAssumption DEF Nothing, Full
<1>3. queue \in Seq(Message) /\ Len(queue) <= MaxQueue + 1
  BY <1>1, BookFeedAssumption
<1>4. changes \in 0..MaxChanges /\ drops \in 0..MaxDrops
  BY <1>1, BookFeedAssumption
<1> QED BY <1>1, <1>2, <1>3, <1>4 DEF FeedInv, FeedTyped, FeedTypeOK

(* The client's book and what is on its way stay as they should, whatever  *)
(* changes, breaks or is lost (binance_ws.py, bybit_ws.py).                *)
THEOREM FeedInvariance == FeedSpec => []FeedInv
<1>1. FeedInit => FeedInv
  BY FeedInitially
<1>2. FeedInv /\ [FeedNext]_feedVars => FeedInv'
  <2> SUFFICES ASSUME FeedInv, [FeedNext]_feedVars PROVE FeedInv'
    OBVIOUS
  <2>1. ASSUME NEW l \in Levels, NEW size \in Sizes, Change(l, size) PROVE FeedInv'
    BY <2>1, ChangeStep
  <2>2. CASE FetchSnapshot \/ LoadSnapshot \/ Connect \/ Drop \/ Receive \/ Stop
    BY <2>2, ClientStep
  <2>3. CASE UNCHANGED feedVars
    BY <2>3 DEF feedVars, FeedInv, FeedTyped, FeedTypeOK, Ahead, Shown, Best
  <2> QED BY <2>1, <2>2, <2>3 DEF FeedNext
<1> QED BY <1>1, <1>2, PTL DEF FeedSpec

(* Books, messages and counters keep their types (LocalBook).              *)
THEOREM FeedTypeCorrect == FeedSpec => []FeedTypeOK
<1>1. FeedInv => FeedTypeOK
  BY DEF FeedInv, FeedTyped
<1> QED BY <1>1, FeedInvariance, PTL

(* A book is wrong only where the client was not told (binance_ws.py,      *)
(* bybit_ws.py).                                                           *)
THEOREM WrongnessIsMissed == FeedSpec => []WrongOnlyWhereMissed
<1>1. FeedInv => WrongOnlyWhereMissed
  BY Zenon DEF FeedInv, WrongOnlyWhereMissed, Becomes, Telling, Ahead
<1> QED BY <1>1, FeedInvariance, PTL
=============================================================================
