---------------------------- MODULE Exits_proofs ----------------------------
(***************************************************************************)
(* Type correctness of Exits.tla, and what the exit manager of predator-v4 *)
(* promises: a loss is at most the stop and one move of the price, and a   *)
(* profit that was reached is kept; for any price path, limits and times.  *)
(* Of the replays of Backtest.tla: the two accounts agree and losses are   *)
(* bounded, for any path, strategy, costs and length.                      *)
(***************************************************************************)
EXTENDS Exits, Backtest, FiniteSetTheorems, SequenceTheorems, WellFoundedInduction, TLAPS

Typed ==
    /\ gain \in Gains /\ peak \in Gains /\ age \in 0..MaxHold + MaxGap
    /\ pred \in [trail : BOOLEAN, high : Gains] /\ pred.high >= 0
    /\ result \in Gains \cup {NotEnded}

(* A position that is held: its time is not over, its loss is above the    *)
(* widest stop, and once it has been at the activation level the trail is  *)
(* set, no lower than the best gain, and not yet crossed.                  *)
PredHeld ==
    /\ age < MaxHold /\ gain > -2 * StopLoss
    /\ peak # 0 => age >= MinHold
    /\ peak >= Activation => pred.trail /\ pred.high >= peak /\ peak - gain < 2 * Callback

IInv == Typed /\ (Held => PredHeld) /\ LossIsBounded

-----------------------------------------------------------------------------
(* The limits are whole numbers, and the times are in their order.         *)
LEMMA Limits ==
    /\ StopLoss \in Nat \ {0} /\ Activation \in Nat \ {0} /\ Callback \in Nat \ {0}
    /\ MaxMove \in Nat /\ MaxGap \in Nat \ {0}
    /\ MinHold \in Nat /\ MaxHold \in Nat /\ MinHold < MaxHold /\ 0 < MaxHold
    /\ Gains \subseteq Int /\ 0 \in Gains /\ NotEnded \notin Gains
<1>1. /\ StopLoss \in Nat \ {0} /\ Activation \in Nat \ {0} /\ Callback \in Nat \ {0}
      /\ MaxMove \in Nat /\ MaxGap \in Nat \ {0}
      /\ Gains \subseteq Int /\ 0 \in Gains /\ NotEnded \notin Gains
  BY ExitsAssumption DEF ExitsAssumption
<1>2. MinHold \in Nat /\ MaxHold \in Nat /\ MinHold < MaxHold /\ 0 < MaxHold
  BY ExitsAssumption DEF ExitsAssumption
<1> QED BY <1>1, <1>2

(* A limit that volatility scales between a half and two (exits.py) is at  *)
(* most twice the configured one.                                          *)
LEMMA ScaledLimit ==
    ASSUME NEW vol \in {5, 10, 20}, NEW limit \in Nat \ {0}, NEW x \in Int
    PROVE  /\ ~(10 * x <= -vol * limit) => x > -2 * limit
           /\ ~(10 * x >= vol * limit) => x < 2 * limit
<1>1. CASE vol = 5
  BY <1>1
<1>2. CASE vol = 10
  BY <1>2
<1>3. CASE vol = 20
  BY <1>3
<1> QED BY <1>1, <1>2, <1>3

(* At its fill nothing is lost and nothing is held too long.               *)
LEMMA InvariantInitially == Init => IInv
<1> SUFFICES ASSUME Init PROVE IInv
  OBVIOUS
<1> USE Limits
<1>1. /\ gain = 0 /\ age = 0 /\ peak = 0 /\ result = NotEnded
      /\ pred = [trail |-> FALSE, high |-> 0]
  BY DEF Init
<1>2. pred \in [trail : BOOLEAN, high : Gains] /\ pred.high = 0
  BY <1>1
<1>3. Typed
  BY <1>1, <1>2 DEF Typed
<1>4. PredHeld
  BY <1>1 DEF PredHeld
<1>5. LossIsBounded
  BY <1>1 DEF LossIsBounded, Held
<1> QED BY <1>3, <1>4, <1>5 DEF IInv

-----------------------------------------------------------------------------
(* One more look, after any number of ticks up to MaxGap (exits.py:check). *)
LEMMA LookKeeps ==
    ASSUME IInv, Held, NEW g \in Gains, NEW gap \in 1..MaxGap, g - gain \in -MaxMove..MaxMove,
           gain' = g, age' = age + gap, Look(g, age + gap)
    PROVE  IInv'
<1> USE Limits
<1> DEFINE now == age + gap
<1>1. PICK t \in PredTicks :
        /\ pred' = PredTrail(pred, g, now)
        /\ peak' = IF now >= MinHold THEN Greater(peak, g) ELSE peak
        /\ result' = IF PredEnds(PredTrail(pred, g, now), g, now, t) THEN g ELSE NotEnded
  BY DEF Look
<1>2. Typed /\ PredHeld
  BY DEF IInv
<1>3. g \in Int /\ gain \in Int /\ peak \in Int /\ age \in Nat /\ pred.high \in Int /\ now \in Nat
      /\ now > age
  <2>1. gain \in Gains /\ peak \in Gains /\ pred.high \in Gains /\ age \in 0..MaxHold + MaxGap
    BY <1>2 DEF Typed
  <2>2. age \in Nat
    BY <2>1
  <2>3. gap \in Nat /\ gap >= 1
    OBVIOUS
  <2>4. age + gap \in Nat /\ age + gap > age
    BY <2>2, <2>3
  <2>5. g \in Int /\ gain \in Int /\ peak \in Int /\ pred.high \in Int
    BY <2>1
  <2> QED BY <2>2, <2>4, <2>5
<1>4. age' = now /\ now \in 0..MaxHold + MaxGap
  BY <1>2, <1>3 DEF PredHeld
<1> HIDE DEF now
<1>5. /\ pred' \in [trail : BOOLEAN, high : Gains] /\ pred'.high >= 0
      /\ peak' \in Gains
      /\ now >= MinHold => peak' >= g /\ (peak' = g \/ peak' = peak)
      /\ now < MinHold => peak' = peak
      /\ now >= MinHold /\ g >= Activation =>
            pred'.trail /\ pred'.high >= g /\ pred'.high >= pred.high
      /\ ~(now >= MinHold /\ g >= Activation) => pred' = pred
  BY <1>1, <1>2, <1>3 DEF Typed, PredTrail, Greater
<1>6. Typed'
  BY <1>1, <1>2, <1>4, <1>5 DEF Typed
<1>7. CASE PredEnds(PredTrail(pred, g, now), g, now, t)
  <2>1. result' = g /\ result' # NotEnded
    BY <1>1, <1>7
  <2>2. g > -2 * StopLoss - MaxMove
    BY <1>2, <1>3 DEF PredHeld
  <2>3. LossIsBounded'
    BY <2>1, <2>2 DEF LossIsBounded, Held
  <2> QED BY <1>6, <2>1, <2>3 DEF IInv, Held
<1>8. CASE ~PredEnds(PredTrail(pred, g, now), g, now, t)
  <2>1. result' = NotEnded /\ t.vol \in {5, 10, 20}
    BY <1>1, <1>8 DEF PredTicks
  <2>2. ~(10 * g <= -t.vol * StopLoss) /\ ~(now >= MaxHold)
    BY <1>8 DEF PredEnds
  <2>3. g > -2 * StopLoss /\ age' < MaxHold
    BY <1>3, <1>4, <2>1, <2>2, ScaledLimit
  <2>4. peak' # 0 => age' >= MinHold
    BY <1>2, <1>3, <1>4, <1>5 DEF PredHeld
  <2>5. ASSUME peak' >= Activation
        PROVE  pred'.trail /\ pred'.high >= peak' /\ peak' - g < 2 * Callback
    <3>1. now >= MinHold
      BY <1>3, <1>4, <1>5, <2>4, <2>5
    <3>2. peak' \in Int /\ pred'.high \in Int
      <4>1. peak' \in Gains /\ pred'.high \in Gains
        BY <1>5
      <4> QED BY <4>1
    <3>3. pred'.trail /\ pred'.high >= peak'
      <4>1. CASE peak' = g
        BY <1>5, <3>1, <4>1, <2>5
      <4>2. CASE peak' = peak
        <5>1. pred.trail /\ pred.high >= peak
          BY <1>2, <2>5, <4>2 DEF PredHeld
        <5>2. CASE g >= Activation
          BY <1>3, <1>5, <3>2, <3>1, <4>2, <5>1, <5>2
        <5>3. CASE ~(g >= Activation)
          BY <1>5, <4>2, <5>1, <5>3
        <5> QED BY <5>2, <5>3
      <4>3. peak' = g \/ peak' = peak
        BY <1>5, <3>1
      <4> QED BY <4>1, <4>2, <4>3
    <3>4. ~(10 * (pred'.high - g) >= t.vol * Callback)
      BY <1>1, <1>8, <3>1, <3>3 DEF PredEnds, SoftExit
    <3>5. pred'.high - g \in Int
      BY <1>3, <3>2
    <3>6. pred'.high - g < 2 * Callback
      BY <2>1, <3>4, <3>5, ScaledLimit
    <3>7. peak' - g < 2 * Callback
      <4>1. \A a, b, c \in Int : a >= b /\ a - g < c => b - g < c
        BY <1>3
      <4>2. 2 * Callback \in Int
        OBVIOUS
      <4> QED BY <3>2, <3>3, <3>6, <4>1, <4>2
    <3> QED BY <3>3, <3>7
  <2>6. PredHeld'
    BY <2>3, <2>4, <2>5 DEF PredHeld
  <2>7. LossIsBounded'
    BY <2>1, <2>3 DEF LossIsBounded, Held
  <2> QED BY <1>6, <2>6, <2>7 DEF IInv
<1> QED BY <1>7, <1>8

(* Every step is a look, and after the end there is none.                  *)
LEMMA InvariantKept == IInv /\ [Next]_vars => IInv'
<1> SUFFICES ASSUME IInv, [Next]_vars PROVE IInv'
  OBVIOUS
<1>1. CASE Next
  <2>1. PICK g \in Gains, gap \in 1..MaxGap :
          Held /\ g - gain \in -MaxMove..MaxMove /\ gain' = g /\ age' = age + gap
          /\ Look(g, age + gap)
    BY <1>1 DEF Next
  <2> QED BY <2>1, LookKeeps
<1>2. CASE UNCHANGED vars
  BY <1>2 DEF vars, IInv, Typed, Held, PredHeld, LossIsBounded
<1> QED BY <1>1, <1>2

-----------------------------------------------------------------------------
(* In every behaviour of a position (exits.py).                            *)
THEOREM Invariance == Spec => []IInv
<1>1. Init => IInv
  BY InvariantInitially
<1>2. IInv /\ [Next]_vars => IInv'
  BY InvariantKept
<1> QED BY <1>1, <1>2, PTL DEF Spec

(* Price, age, trail and result keep their types (PositionState).          *)
THEOREM TypeCorrect == Spec => []TypeOK
<1>1. IInv => TypeOK
  BY DEF IInv, Typed, TypeOK
<1> QED BY <1>1, Invariance, PTL

(* A position that is held after a look has lost less than the widest      *)
(* stop, and one that has ended less than that and one move of the price   *)
(* (ExitManager.check).                                                    *)
THEOREM LossesAreBounded == Spec => []LossIsBounded
<1>1. IInv => LossIsBounded
  BY DEF IInv
<1> QED BY <1>1, Invariance, PTL

(* While a position that reached the activation level is held, it has      *)
(* given back less than the widest callback of the best gain that the      *)
(* trail was looked at with (ExitManager.check).                           *)
THEOREM ProfitsAreKept == Spec => []ProfitIsKept
<1>1. IInv => ProfitIsKept
  BY DEF IInv, PredHeld, ProfitIsKept
<1> QED BY <1>1, Invariance, PTL

-----------------------------------------------------------------------------
(* Replays.                                                                *)

(* What a trade is told from: the side and the entry price of its position. *)
Placed(p) ==
    /\ {"side", "entry"} \subseteq DOMAIN p
    /\ p.side \in Sides /\ p.entry \in Nat \ {0}

Trade == [id : Nat, reason : (ExitReason \ {"manual_exit"}) \cup {"forced_close_eod"},
          pnl : Int, entry : Nat \ {0}, best : Int, worst : Int]
ManagersExit == [id : Nat, reason : ExitReason, pnl : Seq(Int)]

(* LogAgreesWithManager, in parts: one line of both accounts, two accounts *)
(* and the positions they speak of.                                        *)
Agrees(t, c) ==
    /\ t.id = c.id
    /\ c.reason = IF t.reason = "forced_close_eod" THEN "manual_exit" ELSE t.reason
    /\ c.pnl # <<>> => t.pnl = Net(c.pnl[1], t.entry)
    /\ t.pnl \in Net(t.worst, t.entry)..Net(t.best, t.entry)

AccountsAgree(ts, cs) ==
    /\ Len(ts) = Len(cs)
    /\ \A k \in DOMAIN ts : Agrees(ts[k], cs[k])
    /\ \A j, k \in DOMAIN ts : ts[j].id = ts[k].id => j = k

Ids(ts) == {ts[k].id : k \in DOMAIN ts}

(* Arithmetic: a non-empty set of natural numbers has a least element.     *)
LEMMA LeastElement ==
    ASSUME NEW T \in SUBSET Nat, T # {}
    PROVE  \E n \in T : \A m \in T : n <= m
<1> DEFINE R == {ss \in Nat \X Nat : ss[1] < ss[2]}
<1>1. IsWellFoundedOn(R, Nat)
  BY NatLessThanWellFounded, Zenon DEF OpToRel
<1>2. PICK n \in T : \A m \in T : ~(<<m, n>> \in R)
  <2> HIDE DEF R
  <2> QED BY <1>1, WFMin
<1>3. \A m \in T : <<m, n>> \in Nat \X Nat
  OBVIOUS
<1>4. \A m \in T : ~(m < n)
  BY <1>2, <1>3
<1> QED BY <1>4

(* A finite set of numbers has an order (active is a dict): by induction   *)
(* on its size, a larger one puts its least element first.                 *)
LEMMA OrderExists ==
    ASSUME NEW n \in Nat
    PROVE  \A S \in SUBSET Nat : IsFiniteSet(S) /\ Cardinality(S) = n =>
              \E s \in [1..n -> S] : \A i, j \in 1..n : i < j => s[i] < s[j]
<1> DEFINE Ordered(k) == \A S \in SUBSET Nat : IsFiniteSet(S) /\ Cardinality(S) = k =>
              \E s \in [1..k -> S] : \A i, j \in 1..k : i < j => s[i] < s[j]
           Bad == {k \in Nat : ~Ordered(k)}
<1>1. Ordered(0)
  <2> SUFFICES ASSUME NEW S \in SUBSET Nat
               PROVE  \E s \in [1..0 -> S] : \A i, j \in 1..0 : i < j => s[i] < s[j]
    OBVIOUS
  <2> DEFINE s == [i \in 1..0 |-> 0]
  <2>1. s \in [1..0 -> S]
    OBVIOUS
  <2>2. \A i, j \in 1..0 : i < j => s[i] < s[j]
    OBVIOUS
  <2> QED BY <2>1, <2>2, Zenon
<1>2. ASSUME NEW k \in Nat, Ordered(k) PROVE Ordered(k + 1)
  <2> SUFFICES ASSUME NEW S \in SUBSET Nat, IsFiniteSet(S), Cardinality(S) = k + 1
               PROVE  \E s \in [1..k + 1 -> S] :
                         \A i, j \in 1..k + 1 : i < j => s[i] < s[j]
    OBVIOUS
  <2>1. S # {}
    BY FS_EmptySet
  <2>2. PICK a \in S : \A b \in S : a <= b
    BY <2>1, LeastElement
  <2>3. IsFiniteSet(S \ {a}) /\ Cardinality(S \ {a}) = k /\ S \ {a} \in SUBSET Nat
    <3>1. IsFiniteSet(S \ {a}) /\ Cardinality(S \ {a}) = Cardinality(S) - 1
      BY FS_RemoveElement, Zenon
    <3> QED BY <3>1
  <2>4. PICK r \in [1..k -> S \ {a}] : \A i, j \in 1..k : i < j => r[i] < r[j]
    BY <1>2, <2>3
  <2> DEFINE s == [i \in 1..k + 1 |-> IF i = 1 THEN a ELSE r[i - 1]]
  <2>5. \A i \in 1..k + 1 : i # 1 => i - 1 \in 1..k /\ s[i] = r[i - 1]
    OBVIOUS
  <2>6. s[1] = a /\ s \in [1..k + 1 -> S]
    BY <2>4, <2>5
  <2> HIDE DEF s
  <2>7. ASSUME NEW i \in 1..k + 1, NEW j \in 1..k + 1, i < j PROVE s[i] < s[j]
    <3>1. j # 1
      BY <2>7
    <3>2. s[j] \in S \ {a} /\ s[j] = r[j - 1] /\ j - 1 \in 1..k
      BY <2>4, <2>5, <3>1
    <3>3. CASE i = 1
      <4>1. a \in Nat /\ s[j] \in Nat /\ a <= s[j] /\ a # s[j]
        BY <2>2, <3>2
      <4>2. s[i] = a
        BY <2>6, <3>3
      <4> QED BY <4>1, <4>2
    <3>4. CASE i # 1
      <4>1. i - 1 \in 1..k /\ s[i] = r[i - 1] /\ i - 1 < j - 1
        BY <2>5, <2>7, <3>4
      <4> QED BY <2>4, <3>2, <4>1
    <3> QED BY <3>3, <3>4
  <2> QED BY <2>6, <2>7
<1> HIDE DEF Ordered
<1>3. Bad = {}
  <2> SUFFICES ASSUME Bad # {} PROVE FALSE
    OBVIOUS
  <2>1. PICK k \in Bad : \A m \in Bad : k <= m
    BY LeastElement, Bad \in SUBSET Nat
  <2>2. k # 0 /\ k - 1 \in Nat /\ Ordered(k - 1)
    BY <1>1, <2>1
  <2>3. Ordered(k - 1 + 1)
    BY <1>2, <2>2
  <2> QED BY <2>1, <2>3
<1>4. Ordered(n)
  BY <1>3
<1> QED BY <1>4 DEF Ordered

(* In this order every element comes once (BacktestEngine.run).            *)
ListsOnce(s, S) ==
    /\ Cardinality(S) \in Nat /\ s \in [1..Cardinality(S) -> S]
    /\ \A i, j \in 1..Cardinality(S) : s[i] = s[j] => i = j
    /\ \A e \in S : \E i \in 1..Cardinality(S) : s[i] = e

LEMMA OrderOf ==
    ASSUME NEW S \in SUBSET Nat, IsFiniteSet(S)
    PROVE  ListsOnce(InOrder(S), S)
<1> DEFINE s == InOrder(S)
           n == Cardinality(S)
<1>1. n \in Nat
  BY FS_CardinalityType
<1>2. \E r \in [1..n -> S] : \A i, j \in DOMAIN r : i < j => r[i] < r[j]
  <2>1. PICK r \in [1..n -> S] : \A i, j \in 1..n : i < j => r[i] < r[j]
    BY <1>1, OrderExists
  <2> QED BY <2>1
<1>3. s \in [1..n -> S] /\ \A i, j \in 1..n : i < j => s[i] < s[j]
  <2>1. s \in [1..n -> S] /\ \A i, j \in DOMAIN s : i < j => s[i] < s[j]
    BY <1>2, Zenon DEF InOrder
  <2> QED BY <2>1
<1> HIDE DEF n, s
<1>4. \A i, j \in 1..n : s[i] = s[j] => i = j
  <2> SUFFICES ASSUME NEW i \in 1..n, NEW j \in 1..n, s[i] = s[j], i # j PROVE FALSE
    OBVIOUS
  <2>1. s[i] \in Nat /\ s[j] \in Nat
    BY <1>3
  <2>2. i < j \/ j < i
    BY <1>1
  <2> QED BY <1>3, <2>1, <2>2
<1>5. s \in Injection(1..n, S)
  BY <1>3, <1>4, Zenon DEF Injection, IsInjective
<1>6. Cardinality(1..n) = n
  BY <1>1, FS_Interval
<1>7. s \in Surjection(1..n, S)
  BY <1>5, <1>6, FS_Injection DEF n
<1>8. \A e \in S : \E i \in 1..n : s[i] = e
  BY <1>7, Zenon DEF Surjection
<1> QED BY <1>1, <1>3, <1>4, <1>8 DEF n, s, ListsOnce

(* What appending one line for each position, in their order, gives        *)
(* (BacktestEngine.run, and _exit, which appends to closed_positions).     *)
Appends(ts2, ts, order, tr) == ts2 = ts \o [k \in DOMAIN order |-> tr[order[k]]]

Appended(ts2, ts, order, tr, t, n) ==
    /\ t \in Nat /\ n \in Nat /\ DOMAIN ts = 1..t
    /\ Len(ts2) = t + n /\ DOMAIN ts2 = 1..t + n
    /\ \A k \in 1..t + n : \/ k \in 1..t /\ ts2[k] = ts[k]
                           \/ k - t \in 1..n /\ ts2[k] = tr[order[k - t]]
    /\ \A k \in 1..t : k \in 1..t + n /\ ts2[k] = ts[k]
    /\ \A i \in 1..n : i + t \in 1..t + n /\ ts2[i + t] = tr[order[i]]

LEMMA LinesAppended ==
    ASSUME NEW Lines, NEW ts \in Seq(Lines), NEW E, NEW order, ListsOnce(order, E),
           NEW tr \in [E -> Lines], NEW ts2, Appends(ts2, ts, order, tr),
           NEW t, t = Len(ts), NEW n, n = Cardinality(E)
    PROVE  ts2 \in Seq(Lines) /\ Appended(ts2, ts, order, tr, t, n)
<1> DEFINE dt == [k \in DOMAIN order |-> tr[order[k]]]
<1>1. t \in Nat /\ n \in Nat /\ DOMAIN ts = 1..t
  BY DEF ListsOnce
<1>2. order \in [1..n -> E]
  BY DEF ListsOnce
<1>3. dt \in Seq(Lines) /\ Len(dt) = n /\ \A k \in 1..n : dt[k] = tr[order[k]]
  <2>1. dt \in [1..n -> Lines] /\ \A k \in 1..n : dt[k] = tr[order[k]]
    BY <1>2
  <2> QED BY <1>1, <2>1
<1>4. ts2 = ts \o dt
  BY DEF Appends
<1> HIDE DEF dt
<1>5. /\ ts2 \in Seq(Lines) /\ Len(ts2) = t + n
      /\ \A k \in 1..t + n : ts2[k] = IF k <= t THEN ts[k] ELSE dt[k - t]
  <2>1. /\ ts \o dt \in Seq(Lines) /\ Len(ts \o dt) = Len(ts) + Len(dt)
        /\ \A k \in 1..Len(ts) + Len(dt) :
              (ts \o dt)[k] = IF k <= Len(ts) THEN ts[k] ELSE dt[k - Len(ts)]
    BY <1>3, ConcatProperties, Zenon
  <2> QED BY <1>3, <1>4, <2>1, Zenon
<1>6. \A k \in 1..t : k \in 1..t + n /\ ts2[k] = ts[k]
  BY <1>1, <1>5
<1>7. \A i \in 1..n : i + t \in 1..t + n /\ ts2[i + t] = dt[i]
  <2> SUFFICES ASSUME NEW i \in 1..n
               PROVE  i + t \in 1..t + n /\ ts2[i + t] = dt[i]
    OBVIOUS
  <2>1. i + t \in 1..t + n /\ ~(i + t <= t) /\ i + t - t = i
    BY <1>1
  <2>2. \A k \in 1..t + n : ~(k <= t) => ts2[k] = dt[k - t]
    BY <1>5, Zenon
  <2>3. ts2[i + t] = dt[i + t - t]
    BY <2>1, <2>2
  <2> QED BY <2>1, <2>3
<1>8. \A k \in 1..t + n : k \in 1..t \/ (k - t \in 1..n /\ k = (k - t) + t)
  BY <1>1
<1>9. \A k \in 1..t + n : \/ k \in 1..t /\ ts2[k] = ts[k]
                          \/ k - t \in 1..n /\ ts2[k] = tr[order[k - t]]
  <2> SUFFICES ASSUME NEW k \in 1..t + n, ~(k \in 1..t)
               PROVE  k - t \in 1..n /\ ts2[k] = tr[order[k - t]]
    BY <1>6
  <2>1. k - t \in 1..n /\ k = (k - t) + t
    BY <1>8
  <2> QED BY <1>3, <1>7, <2>1
<1>10. Len(ts2) = t + n => DOMAIN ts2 = 1..t + n
  BY <1>5
<1> QED BY <1>1, <1>3, <1>5, <1>6, <1>7, <1>9, <1>10 DEF Appended

(* run's loop over the positions and its close at the end append a line to *)
(* each account for every position that ends: they still agree.            *)
LinesOf(tr, ex, E) ==
    /\ tr \in [E -> Trade] /\ ex \in [E -> ManagersExit]
    /\ \A i \in E : tr[i].id = i /\ Agrees(tr[i], ex[i])

StillAgree(ts, ts2, cs2, tr, E) ==
    /\ ts2 \in Seq(Trade) /\ cs2 \in Seq(ManagersExit)
    /\ AccountsAgree(ts2, cs2)
    /\ Ids(ts2) = Ids(ts) \cup E
    /\ \A k \in DOMAIN ts2 : (\E j \in DOMAIN ts : ts2[k] = ts[j])
                           \/ (\E i \in E : ts2[k] = tr[i])

LEMMA AccountsAppended ==
    ASSUME NEW ts \in Seq(Trade), NEW cs \in Seq(ManagersExit), AccountsAgree(ts, cs),
           NEW E, E \cap Ids(ts) = {}, NEW order, ListsOnce(order, E),
           NEW tr, NEW ex, LinesOf(tr, ex, E),
           NEW ts2, Appends(ts2, ts, order, tr), NEW cs2, Appends(cs2, cs, order, ex)
    PROVE  StillAgree(ts, ts2, cs2, tr, E)
<1>1. /\ tr \in [E -> Trade] /\ ex \in [E -> ManagersExit]
      /\ \A i \in E : tr[i].id = i /\ Agrees(tr[i], ex[i])
  BY DEF LinesOf
<1> DEFINE n == Cardinality(E)
           t == Len(ts)
<1>2. /\ n \in Nat /\ order \in [1..n -> E]
      /\ \A i, j \in 1..n : order[i] = order[j] => i = j
      /\ \A e \in E : \E i \in 1..n : order[i] = e
  BY DEF ListsOnce
<1>3. /\ t \in Nat /\ n \in Nat /\ DOMAIN ts = 1..t
      /\ ts2 \in Seq(Trade) /\ Len(ts2) = t + n /\ DOMAIN ts2 = 1..t + n
      /\ \A k \in 1..t + n : \/ k \in 1..t /\ ts2[k] = ts[k]
                             \/ k - t \in 1..n /\ ts2[k] = tr[order[k - t]]
      /\ \A k \in 1..t : k \in 1..t + n /\ ts2[k] = ts[k]
      /\ \A i \in 1..n : i + t \in 1..t + n /\ ts2[i + t] = tr[order[i]]
  <2>1. ts2 \in Seq(Trade) /\ Appended(ts2, ts, order, tr, t, n)
    BY <1>1, LinesAppended
  <2> QED BY <2>1 DEF Appended
<1>4. Len(cs) = t
  BY DEF AccountsAgree
<1>5. /\ cs2 \in Seq(ManagersExit) /\ Len(cs2) = t + n
      /\ \A k \in 1..t : cs2[k] = cs[k]
      /\ \A i \in 1..n : cs2[i + t] = ex[order[i]]
  <2>1. cs2 \in Seq(ManagersExit) /\ Appended(cs2, cs, order, ex, t, n)
    BY <1>1, <1>4, LinesAppended
  <2> QED BY <2>1 DEF Appended
<1> HIDE DEF n, t
<1>6. \A i \in 1..n : order[i] \in E
  BY <1>2
<1>7. ASSUME NEW k \in 1..t + n
       PROVE  \/ k \in 1..t /\ ts2[k] = ts[k] /\ cs2[k] = cs[k]
              \/ /\ k - t \in 1..n /\ order[k - t] \in E
                 /\ ts2[k] = tr[order[k - t]] /\ cs2[k] = ex[order[k - t]]
  <2>1. CASE k \in 1..t
    BY <1>3, <1>5, <2>1
  <2>2. CASE ~(k \in 1..t)
    <3>1. k - t \in 1..n /\ k = (k - t) + t /\ ts2[k] = tr[order[k - t]]
      BY <1>3, <2>2
    <3> QED BY <1>5, <1>6, <3>1
  <2> QED BY <2>1, <2>2
<1>8. \A k \in 1..t + n : Agrees(ts2[k], cs2[k])
  <2> SUFFICES ASSUME NEW k \in 1..t + n PROVE Agrees(ts2[k], cs2[k])
    OBVIOUS
  <2>1. \A j \in 1..t : Agrees(ts[j], cs[j])
    BY <1>3 DEF AccountsAgree
  <2> QED BY <1>1, <1>7, <2>1
<1>9. ASSUME NEW j \in 1..t + n, NEW k \in 1..t + n, ts2[j].id = ts2[k].id PROVE j = k
  <2>1. \A i \in 1..t : ts[i].id \in Ids(ts)
    BY <1>3 DEF Ids
  <2>2. CASE j \in 1..t /\ ts2[j] = ts[j] /\ k \in 1..t /\ ts2[k] = ts[k]
    BY <1>3, <1>9, <2>2 DEF AccountsAgree
  <2>3. CASE /\ j \in 1..t /\ ts2[j] = ts[j]
             /\ order[k - t] \in E /\ ts2[k] = tr[order[k - t]]
    BY <1>1, <1>9, <2>1, <2>3
  <2>4. CASE /\ k \in 1..t /\ ts2[k] = ts[k]
             /\ order[j - t] \in E /\ ts2[j] = tr[order[j - t]]
    BY <1>1, <1>9, <2>1, <2>4
  <2>5. CASE /\ j - t \in 1..n /\ order[j - t] \in E /\ ts2[j] = tr[order[j - t]]
             /\ k - t \in 1..n /\ order[k - t] \in E /\ ts2[k] = tr[order[k - t]]
    <3>1. order[j - t] = order[k - t]
      BY <1>1, <1>9, <2>5
    <3>2. j - t = k - t
      BY <1>2, <2>5, <3>1
    <3> QED BY <1>3, <3>2
  <2> QED BY <1>7, <2>2, <2>3, <2>4, <2>5
<1>10. AccountsAgree(ts2, cs2)
  BY <1>3, <1>5, <1>8, <1>9 DEF AccountsAgree
<1>11. Ids(ts2) = Ids(ts) \cup E
  <2>1. ASSUME NEW e \in Ids(ts2) PROVE e \in Ids(ts) \cup E
    <3>1. PICK k \in 1..t + n : e = ts2[k].id
      BY <1>3 DEF Ids
    <3>2. CASE k \in 1..t /\ ts2[k] = ts[k]
      BY <1>3, <3>1, <3>2 DEF Ids
    <3>3. CASE order[k - t] \in E /\ ts2[k] = tr[order[k - t]]
      BY <1>1, <3>1, <3>3
    <3> QED BY <1>7, <3>2, <3>3
  <2>2. ASSUME NEW e \in Ids(ts) PROVE e \in Ids(ts2)
    <3>1. PICK k \in 1..t : e = ts[k].id
      BY <1>3 DEF Ids
    <3> QED BY <1>3, <3>1 DEF Ids
  <2>3. ASSUME NEW e \in E PROVE e \in Ids(ts2)
    <3>1. PICK i \in 1..n : order[i] = e
      BY <1>2
    <3>2. i + t \in 1..t + n /\ ts2[i + t] = tr[e]
      BY <1>3, <3>1
    <3>3. ts2[i + t].id = e
      BY <1>1, <3>2
    <3> QED BY <1>3, <3>2, <3>3 DEF Ids
  <2> QED BY <2>1, <2>2, <2>3
<1>12. \A k \in DOMAIN ts2 : (\E j \in DOMAIN ts : ts2[k] = ts[j])
                           \/ (\E i \in E : ts2[k] = tr[i])
  BY <1>3, <1>7
<1> QED BY <1>3, <1>5, <1>10, <1>11, <1>12 DEF StillAgree

(* What process_tick exits for is one of its checks, and it holds on to no *)
(* position that is at or beyond its hard stop.                            *)
LEMMA ReasonOf ==
    ASSUME NEW p, NEW x, NEW tick, NEW now, NEW reason, reason = Reason(p, x, tick, now)
    PROVE  /\ reason # "hold" => reason \in ExitReason \ {"manual_exit"}
           /\ reason = "hold" => ~(100 * Gain(p.side, p.entry, x) <= -HardStop * p.entry)
<1> DEFINE checks == Checks(p, x, tick, now)
           hits == {i \in 1..9 : checks[i][2]}
           first == CHOOSE i \in hits : \A j \in hits : i <= j
<1>1. DOMAIN checks = 1..9
  BY DEF Checks
<1>2. reason = IF hits = {} THEN "hold" ELSE checks[first][1]
  BY <1>1 DEF Reason
<1>3. \A i \in 1..9 : checks[i][1] \in ExitReason \ {"manual_exit"}
  BY DEF Checks, ExitReason
<1>4. \A i \in 1..9 : checks[i][1] # "hold"
  BY DEF Checks
<1>5. checks[2][2] = (100 * Gain(p.side, p.entry, x) <= -HardStop * p.entry)
  BY DEF Checks
<1> HIDE DEF checks
<1>6. hits # {} => first \in hits
  <2> SUFFICES ASSUME hits # {} PROVE first \in hits
    OBVIOUS
  <2>1. hits \in SUBSET Nat
    OBVIOUS
  <2>2. \E i \in hits : \A j \in hits : i <= j
    BY <2>1, LeastElement
  <2> QED BY <2>2
<1>7. reason = "hold" => hits = {}
  BY <1>2, <1>4, <1>6
<1>8. reason = "hold" => ~checks[2][2]
  BY <1>7
<1> QED BY <1>2, <1>3, <1>5, <1>6, <1>8

(* process_tick keeps the side and the entry price of a position.          *)
LEMMA StaysPlaced ==
    ASSUME NEW p, Placed(p), NEW x, NEW tick, NEW q, q = Follow(p, x, tick)
    PROVE  Placed(q) /\ q.side = p.side /\ q.entry = p.entry
<1> DEFINE t == Trail(p, x, tick.lean)
<1>1. DOMAIN t = DOMAIN p /\ t.side = p.side /\ t.entry = p.entry
  BY Zenon DEF Trail, Placed
<1>2. q = [t EXCEPT !.vpin = IngestTrade(@, x, tick.volume)]
  BY Zenon DEF Follow
<1> HIDE DEF t
<1>3. DOMAIN q = DOMAIN p /\ q.side = p.side /\ q.entry = p.entry
  BY <1>1, <1>2, Zenon DEF Placed
<1> QED BY <1>3 DEF Placed

(* register_position takes the side and the price it is given.             *)
LEMMA RegisteredAsTold ==
    ASSUME NEW side \in Sides, NEW x \in Nat \ {0}, NEW atr, NEW now, NEW q,
           q = Register(side, x, atr, now)
    PROVE  Placed(q) /\ q.side = side /\ q.entry = x
<1>1. "side" \in DOMAIN q /\ "entry" \in DOMAIN q /\ q.side = side /\ q.entry = x
  BY DEF Register
<1> QED BY <1>1 DEF Placed

(* What holds besides: the rest of the path stays above zero, the engine   *)
(* has the present gain of every position within its extremes, and a       *)
(* position is held only above its hard stop (BacktestEngine.run).         *)
ReplayBooks ==
    /\ idx \in 0..Length /\ opened \in Nat /\ price \in Nat \ {0} /\ done \in BOOLEAN
    /\ (done => idx = Length) /\ (idx = 0 => opened = 0)
    /\ trades \in Seq(Trade) /\ closed \in Seq(ManagersExit)
    /\ AccountsAgree(trades, closed)
    /\ Ids(trades) \subseteq 1..opened
    /\ DOMAIN positions = 1..opened \ Ids(trades)
    /\ \A i \in DOMAIN positions : Placed(positions[i])

PathFits(x, left) == \A m \in Moves : x + left * m > 0

Watched(info, p, x) ==
    /\ info.best \in Int /\ info.worst \in Int
    /\ TradeGain(p.side, p.entry, x) \in info.worst..info.best

Above(p, x) ==
    HardStop > 0 => 100 * TradeGain(p.side, p.entry, x) > -HardStop * p.entry

LossFits(t) ==
    HardStop > 0 => \E m \in Moves :
        t.pnl + 10000 * Larger(m, -m) > -(100 * HardStop + Cost) * t.entry

ReplayInv ==
    /\ ReplayBooks
    /\ PathFits(price, Length - idx)
    /\ ~done => DOMAIN active = DOMAIN positions
    /\ ~done => \A i \in DOMAIN positions : Watched(active[i], positions[i], price)
    /\ \A i \in DOMAIN positions : Above(positions[i], price)
    /\ \A k \in DOMAIN trades : LossFits(trades[k])

(* Arithmetic: a step of the path leaves the rest of it above zero.        *)
LEMMA PathStep ==
    ASSUME NEW x \in Nat \ {0}, NEW left \in Nat \ {0}, PathFits(x, left),
           NEW move, move = 0 \/ move \in Moves
    PROVE  x + move \in Nat \ {0} /\ PathFits(x + move, left - 1)
<1>1. Moves \subseteq Int
  BY BacktestAssumption
<1>2. \A m \in Moves : x + left * m > 0
  BY DEF PathFits
<1>3. \A a, b \in Nat : a * b >= 0
  OBVIOUS
<1>4. left - 1 \in Nat /\ move \in Int
  <2>1. left - 1 \in Nat
    OBVIOUS
  <2>2. move = 0 => move \in Int
    OBVIOUS
  <2>3. move \in Moves => move \in Int
    BY <1>1
  <2> QED BY <2>1, <2>2, <2>3
<1>5. x + move > 0
  <2>1. CASE move >= 0
    BY <1>4, <2>1
  <2>2. CASE ~(move >= 0)
    <3>1. -move \in Nat /\ move \in Moves
      BY <1>4, <2>2
    <3>2. (left - 1) * (-move) >= 0
      BY <1>3, <1>4, <3>1
    <3>3. x + left * move > 0
      BY <1>2, <3>1
    <3> QED BY <1>4, <3>2, <3>3
  <2> QED BY <2>1, <2>2
<1>6. ASSUME NEW m \in Moves PROVE x + move + (left - 1) * m > 0
  <2>1. m \in Int /\ x + left * m > 0
    BY <1>1, <1>2
  <2>2. CASE m <= move
    BY <1>4, <2>1, <2>2
  <2>3. CASE move < m
    <3>1. m - move \in Nat
      BY <1>4, <2>1, <2>3
    <3>2. (left - 1) * (m - move) >= 0
      BY <1>3, <1>4, <3>1
    <3>3. x + left * move > 0
      BY <1>2
    <3> QED BY <1>4, <2>1, <3>2, <3>3
  <2> QED BY <1>4, <2>1, <2>2, <2>3
<1> QED BY <1>4, <1>5, <1>6 DEF PathFits

(* The extremes of a trade hold its gain at the price they are taken with. *)
LEMMA ExtremesWatch ==
    ASSUME NEW p, Placed(p), NEW x \in Int, NEW info, info.best \in Int, info.worst \in Int,
           NEW ended, NEW e, e = Extremes(info, p, x, ended)
    PROVE  Watched(e, p, x)
<1> DEFINE won == TradeGain(p.side, p.entry, x)
<1>1. won \in Int
  BY DEF Placed, TradeGain
<1>2. /\ e.best = Larger(info.best, won)
      /\ e.worst = -Larger(-info.worst, -won)
  BY DEF Extremes
<1> HIDE DEF won
<1>3. e.best \in Int /\ e.worst \in Int /\ won \in e.worst..e.best
  BY <1>1, <1>2 DEF Larger
<1> QED BY <1>3 DEF Watched, won

(* The lines that run and _exit write of one end of a position agree.      *)
LEMMA LinesAgree ==
    ASSUME NEW i \in Nat, NEW p, Placed(p), NEW x \in Int, NEW info, Watched(info, p, x),
           NEW r \in (ExitReason \ {"manual_exit"}) \cup {"forced_close_eod"},
           NEW q, q = IF r = "forced_close_eod" THEN "manual_exit" ELSE r,
           NEW t, t = Record(i, p, info, x, r), NEW c, c = Exit(i, p, x, q)
    PROVE  /\ t \in Trade /\ c \in ManagersExit /\ Agrees(t, c) /\ t.id = i
           /\ t.pnl = Net(TradeGain(p.side, p.entry, x), p.entry)
           /\ t.entry = p.entry
<1> DEFINE won == TradeGain(p.side, p.entry, x)
           net == Net(won, p.entry)
<1>1. won \in Int /\ won = Gain(p.side, p.entry, x) /\ p.entry \in Nat \ {0}
  BY DEF Placed, TradeGain, Gain
<1>2. info.best \in Int /\ info.worst \in Int /\ won \in info.worst..info.best
  BY DEF Watched
<1>3. q \in ExitReason
  BY DEF ExitReason
<1>4. t = [id |-> i, reason |-> r, pnl |-> net, entry |-> p.entry,
           best |-> info.best, worst |-> info.worst]
  BY DEF Record
<1>5. c = [id |-> i, reason |-> q, pnl |-> IF TellsResult(q) THEN <<won>> ELSE <<>>]
  BY <1>1 DEF Exit
<1>11. net \in Int /\ net \in Net(info.worst, p.entry)..Net(info.best, p.entry)
  BY <1>1, <1>2, BacktestAssumption DEF Net
<1>12. net = Net(won, p.entry)
  OBVIOUS
<1> HIDE DEF won, net
<1>6. t \in Trade
  BY <1>1, <1>2, <1>4, <1>11 DEF Trade
<1>7. <<won>> \in Seq(Int) /\ <<>> \in Seq(Int)
  BY <1>1
<1>8. c \in ManagersExit /\ c.pnl \in {<<>>, <<won>>} /\ c.id = i /\ c.reason = q
  <2>1. /\ c.id = i /\ c.reason = q
        /\ c.pnl = IF TellsResult(q) THEN <<won>> ELSE <<>>
    BY <1>5
  <2>2. c.pnl \in {<<>>, <<won>>}
    BY <2>1, Zenon
  <2>3. (IF TellsResult(q) THEN <<won>> ELSE <<>>) \in Seq(Int)
    BY <1>7, Zenon
  <2> QED BY <1>3, <1>5, <2>1, <2>2, <2>3, Zenon DEF ManagersExit
<1>9. /\ t.id = i /\ t.reason = r /\ t.pnl = net /\ t.entry = p.entry
      /\ t.best = info.best /\ t.worst = info.worst
  BY <1>4
<1>10. Agrees(t, c)
  <2>1. c.pnl # <<>> => c.pnl[1] = won
    BY <1>8
  <2>2. ASSUME c.pnl # <<>> PROVE t.pnl = Net(c.pnl[1], t.entry)
    <3>1. c.pnl[1] = won /\ t.entry = p.entry /\ t.pnl = net
      BY <1>9, <2>1, <2>2
    <3> QED BY <1>12, <3>1
  <2>3. t.pnl \in Net(t.worst, t.entry)..Net(t.best, t.entry)
    BY <1>9, <1>11
  <2>4. t.id = c.id /\ c.reason = IF t.reason = "forced_close_eod" THEN "manual_exit" ELSE t.reason
    BY <1>8, <1>9
  <2> QED BY <2>2, <2>3, <2>4, Zenon DEF Agrees
<1> QED BY <1>6, <1>8, <1>9, <1>10, <1>12 DEF won

(* Arithmetic: one move of the price away from where a position was held   *)
(* it has lost no more than that move beyond its hard stop.                *)
LEMMA OneMoveLost ==
    ASSUME NEW p, Placed(p), NEW x \in Int, Above(p, x), NEW move \in Moves,
           NEW t, t.entry = p.entry,
           t.pnl = Net(TradeGain(p.side, p.entry, x + move), p.entry)
    PROVE  LossFits(t)
<1> DEFINE old == TradeGain(p.side, p.entry, x)
           won == TradeGain(p.side, p.entry, x + move)
           stop == HardStop * p.entry
           cost == Cost * p.entry
<1>1. move \in Int /\ HardStop \in Nat /\ Cost \in Nat
  BY BacktestAssumption, PositionManagerAssumption
<1>2. old \in Int /\ won \in Int /\ won + Larger(move, -move) >= old
  BY <1>1 DEF Placed, TradeGain, Larger
<1>3. stop \in Int /\ cost \in Int /\ -(100 * HardStop + Cost) * t.entry = -(100 * stop + cost)
  BY <1>1 DEF Placed
<1>4. HardStop > 0 => 100 * old > -stop
  <2>1. -stop = -HardStop * p.entry
    BY <1>1 DEF Placed
  <2> QED BY <2>1 DEF Above
<1>5. Larger(move, -move) \in Int /\ t.pnl = 10000 * won - cost
  BY <1>1 DEF Larger, Net
<1> HIDE DEF old, won, stop, cost
<1>6. HardStop > 0 => t.pnl + 10000 * Larger(move, -move) > -(100 * stop + cost)
  BY <1>2, <1>3, <1>4, <1>5
<1> QED BY <1>3, <1>6 DEF LossFits

(* Arithmetic: any move is more than a trade lost that was closed above    *)
(* its hard stop at the present price.                                     *)
LEMMA LastLoss ==
    ASSUME NEW p, Placed(p), NEW x \in Int, Above(p, x),
           NEW t, t.entry = p.entry,
           t.pnl = Net(TradeGain(p.side, p.entry, x), p.entry)
    PROVE  LossFits(t)
<1> DEFINE won == TradeGain(p.side, p.entry, x)
           stop == HardStop * p.entry
           cost == Cost * p.entry
<1>1. PICK m \in Moves : m \in Int
  <2>1. Moves \subseteq Int /\ Moves # {}
    BY BacktestAssumption DEF BacktestAssumption
  <2>2. PICK m : m \in Moves
    BY <2>1, Zenon
  <2> QED BY <2>1, <2>2
<1>2. HardStop \in Nat /\ Cost \in Nat
  BY BacktestAssumption, PositionManagerAssumption
<1>3. /\ won \in Int /\ stop \in Int /\ cost \in Int
      /\ -(100 * HardStop + Cost) * t.entry = -(100 * stop + cost)
  BY <1>2 DEF Placed, TradeGain
<1>4. HardStop > 0 => 100 * won > -stop
  <2>1. -stop = -HardStop * p.entry
    BY <1>2 DEF Placed
  <2> QED BY <2>1 DEF Above
<1>5. Larger(m, -m) \in Nat /\ t.pnl = 10000 * won - cost
  BY <1>1 DEF Larger, Net
<1> HIDE DEF won, stop, cost
<1>6. HardStop > 0 => t.pnl + 10000 * Larger(m, -m) > -(100 * stop + cost)
  BY <1>3, <1>4, <1>5
<1> QED BY <1>1, <1>3, <1>6 DEF LossFits

(* Arithmetic: a position is above its hard stop where process_tick found  *)
(* that it is not at it, and where it was opened.                          *)
LEMMA AboveWhereHeld ==
    ASSUME NEW p, Placed(p), NEW x \in Int,
           \/ ~(100 * Gain(p.side, p.entry, x) <= -HardStop * p.entry)
           \/ p.entry = x
    PROVE  Above(p, x)
<1> DEFINE won == TradeGain(p.side, p.entry, x)
           limit == -HardStop * p.entry
<1>1. HardStop \in Nat /\ p.entry \in Nat \ {0}
  BY PositionManagerAssumption DEF Placed
<1>2. won \in Int /\ won = Gain(p.side, p.entry, x) /\ (p.entry = x => won = 0)
  BY <1>1 DEF TradeGain, Gain
<1>3. \A a, b \in Nat \ {0} : a * b \in Nat \ {0}
  OBVIOUS
<1>4. limit \in Int /\ (HardStop > 0 => limit < 0)
  BY <1>1, <1>3
<1>5. ~(100 * won <= limit) \/ won = 0
  BY <1>2
<1> HIDE DEF won, limit
<1>6. HardStop > 0 => 100 * won > limit
  BY <1>2, <1>4, <1>5
<1> QED BY <1>6 DEF Above, won, limit

(* One iteration of run's loop keeps the books.                            *)
LEMMA ReplayTickKeeps ==
    ASSUME ReplayInv, ReplayTick
    PROVE  ReplayInv'
<1>0. /\ idx \in 0..Length - 1 /\ idx' = idx + 1 /\ done' = done /\ ~done
      /\ Length \in Nat
  <2>1. /\ idx \in 0..Length /\ (done => idx = Length)
    BY DEF ReplayInv, ReplayBooks
  <2>2. Length \in Nat /\ idx < Length /\ idx' = idx + 1 /\ done' = done
    BY BacktestAssumption DEF BacktestAssumption, ReplayTick
  <2> QED BY <2>1, <2>2
<1>1. PICK move \in Moves \cup {0}, tick \in Ticks, signal \in Signals :
         (idx = 0 => move = 0) /\ (idx # 0 => move \in Moves)
         /\ Replay(price + move, tick, wall', signal)
  BY DEF ReplayTick
<1> DEFINE x == price + move
           seen == [i \in DOMAIN positions |-> Follow(positions[i], x, tick)]
           reason == [i \in DOMAIN positions |-> Reason(seen[i], x, tick, wall')]
           ended == {i \in DOMAIN positions : reason[i] # "hold"}
           info == [i \in DOMAIN active |->
                      Extremes(active[i], positions[i], x, i \in ended)]
           kept == DOMAIN active \ ended
           near == LastOf(Append(recent, x), Lookback + 1)
           enters == signal # "none" /\ Cardinality(kept) < MaxConcurrent
           new == IF enters THEN {opened + 1} ELSE {}
           order == InOrder(ended)
           tr == [i \in ended |-> Record(i, seen[i], info[i], x, reason[i])]
           ex == [i \in ended |-> Exit(i, seen[i], x, reason[i])]
<1>2. /\ price' = x /\ opened' = opened + Cardinality(new)
      /\ positions' = [i \in (DOMAIN positions \ ended) \cup new |->
             IF i \in new THEN Register(signal, x, EstimateAtr(x, near), wall')
             ELSE seen[i]]
      /\ active' = [i \in kept \cup new |->
             IF i \in new THEN [best |-> 0, worst |-> 0] ELSE info[i]]
      /\ closed' = closed \o [k \in DOMAIN order |->
             Exit(order[k], seen[order[k]], x, reason[order[k]])]
      /\ trades' = trades \o [k \in DOMAIN order |->
             Record(order[k], seen[order[k]], info[order[k]], x, reason[order[k]])]
  BY <1>1, Zenon DEF Replay
<1>4. x \in Nat \ {0} /\ PathFits(x, Length - idx')
  <2>1. Length - idx \in Nat \ {0} /\ Length - idx' = Length - idx - 1
    BY <1>0
  <2>2. price \in Nat \ {0} /\ PathFits(price, Length - idx) /\ (move = 0 \/ move \in Moves)
    BY DEF ReplayInv, ReplayBooks
  <2>3. x \in Nat \ {0} /\ PathFits(x, Length - idx - 1)
    BY <2>1, <2>2, PathStep
  <2> QED BY <2>1, <2>3
<1>5. DOMAIN active = DOMAIN positions /\ DOMAIN positions = 1..opened \ Ids(trades)
      /\ opened \in Nat /\ Ids(trades) \subseteq 1..opened
  BY <1>0 DEF ReplayInv, ReplayBooks
<1>6. ASSUME NEW i \in DOMAIN positions
      PROVE  /\ Placed(seen[i]) /\ seen[i].side = positions[i].side
             /\ seen[i].entry = positions[i].entry
  <2>1. Placed(positions[i])
    BY DEF ReplayInv, ReplayBooks
  <2>2. seen[i] = Follow(positions[i], x, tick)
    OBVIOUS
  <2> HIDE DEF seen
  <2> QED BY <2>1, <2>2, StaysPlaced
<1>7. ASSUME NEW i \in DOMAIN positions PROVE Watched(info[i], seen[i], x)
  <2>1. Placed(positions[i]) /\ Watched(active[i], positions[i], price)
    BY <1>0 DEF ReplayInv, ReplayBooks
  <2>2. info[i] = Extremes(active[i], positions[i], x, i \in ended)
    BY <1>5
  <2> HIDE DEF info, seen, ended, x
  <2>3. active[i].best \in Int /\ active[i].worst \in Int /\ x \in Int
    BY <1>4, <2>1 DEF Watched
  <2>4. Watched(info[i], positions[i], x)
    BY <2>1, <2>2, <2>3, ExtremesWatch
  <2> QED BY <1>6, <2>4 DEF Watched
<1>8. ASSUME NEW i \in DOMAIN positions
      PROVE  /\ i \in ended => reason[i] \in ExitReason \ {"manual_exit"}
             /\ i \notin ended => Above(seen[i], x)
  <2>1. reason[i] = Reason(seen[i], x, tick, wall')
    OBVIOUS
  <2>2. i \in ended <=> reason[i] # "hold"
    OBVIOUS
  <2> HIDE DEF seen, reason, ended, x
  <2>3. /\ reason[i] # "hold" => reason[i] \in ExitReason \ {"manual_exit"}
        /\ reason[i] = "hold" => ~(100 * Gain(seen[i].side, seen[i].entry, x)
                                       <= -HardStop * seen[i].entry)
    BY <2>1, ReasonOf
  <2> QED BY <1>4, <1>6, <2>2, <2>3, AboveWhereHeld
<1>9. ended \subseteq DOMAIN positions /\ \A i \in ended : i \in DOMAIN positions
  OBVIOUS
<1>10. ASSUME NEW i \in ended
       PROVE  /\ tr[i] \in Trade /\ ex[i] \in ManagersExit /\ Agrees(tr[i], ex[i])
              /\ tr[i].id = i /\ LossFits(tr[i])
  <2>1. /\ tr[i] = Record(i, seen[i], info[i], x, reason[i])
        /\ ex[i] = Exit(i, seen[i], x, reason[i])
    OBVIOUS
  <2>2. i \in Nat
    BY <1>5, <1>9
  <2>3. reason[i] \in ExitReason \ {"manual_exit"} /\ reason[i] # "forced_close_eod"
    BY <1>8, <1>9 DEF ExitReason
  <2>4. Above(positions[i], price) /\ Placed(positions[i]) /\ price \in Int
    BY <1>9 DEF ReplayInv, ReplayBooks
  <2>5. move \in Moves
    BY <1>1, <1>5, <1>9 DEF ReplayInv, ReplayBooks
  <2> HIDE DEF seen, info, reason, tr, ex, ended
  <2>6. /\ tr[i] \in Trade /\ ex[i] \in ManagersExit /\ Agrees(tr[i], ex[i]) /\ tr[i].id = i
        /\ tr[i].pnl = Net(TradeGain(seen[i].side, seen[i].entry, x), seen[i].entry)
        /\ tr[i].entry = seen[i].entry
    BY <1>4, <1>6, <1>7, <1>9, <2>1, <2>2, <2>3, LinesAgree
  <2>7. /\ tr[i].pnl = Net(TradeGain(positions[i].side, positions[i].entry, price + move),
                          positions[i].entry)
        /\ tr[i].entry = positions[i].entry
    BY <1>6, <1>9, <2>6
  <2>8. LossFits(tr[i])
    BY <2>4, <2>5, <2>7, OneMoveLost
  <2> QED BY <2>6, <2>8
<1>11. ListsOnce(order, ended)
  <2>1. ended \in SUBSET Nat
    BY <1>5, <1>9
  <2>2. IsFiniteSet(ended)
    <3>1. IsFiniteSet(1..opened) /\ ended \subseteq 1..opened
      BY <1>5, <1>9, FS_Interval
    <3> HIDE DEF ended
    <3> QED BY <3>1, FS_Subset
  <2> HIDE DEF ended
  <2> QED BY <2>1, <2>2, OrderOf
<1>12. Appends(trades', trades, order, tr) /\ Appends(closed', closed, order, ex)
  <2>1. \A k \in DOMAIN order : order[k] \in ended
    BY <1>11 DEF ListsOnce
  <2>2. [k \in DOMAIN order |-> tr[order[k]]]
          = [k \in DOMAIN order |->
                Record(order[k], seen[order[k]], info[order[k]], x, reason[order[k]])]
    <3> HIDE DEF order, ended, seen, info, reason, x
    <3> QED BY <2>1
  <2>3. [k \in DOMAIN order |-> ex[order[k]]]
          = [k \in DOMAIN order |-> Exit(order[k], seen[order[k]], x, reason[order[k]])]
    <3> HIDE DEF order, ended, seen, info, reason, x
    <3> QED BY <2>1
  <2> HIDE DEF order, ended, seen, info, reason, x, tr, ex
  <2> QED BY <1>2, <2>2, <2>3 DEF Appends
<1>13. tr \in [ended -> Trade] /\ ex \in [ended -> ManagersExit]
  <2>1. (\A i \in ended : tr[i] \in Trade) /\ (\A i \in ended : ex[i] \in ManagersExit)
    BY <1>10
  <2> QED BY <2>1, Zenon
<1> HIDE DEF x, seen, reason, ended, info, kept, near, enters, new, order, tr, ex
<1>14. /\ trades' \in Seq(Trade) /\ closed' \in Seq(ManagersExit)
       /\ AccountsAgree(trades', closed')
       /\ Ids(trades') = Ids(trades) \cup ended
       /\ \A k \in DOMAIN trades' : (\E j \in DOMAIN trades : trades'[k] = trades[j])
                                   \/ (\E i \in ended : trades'[k] = tr[i])
  <2>1. /\ trades \in Seq(Trade) /\ closed \in Seq(ManagersExit)
        /\ AccountsAgree(trades, closed)
    BY DEF ReplayInv, ReplayBooks
  <2>2. ended \cap Ids(trades) = {}
    BY <1>5, <1>9
  <2>3. LinesOf(tr, ex, ended)
    BY <1>10, <1>13 DEF LinesOf
  <2>4. StillAgree(trades, trades', closed', tr, ended)
    BY <1>11, <1>12, <2>1, <2>2, <2>3, AccountsAppended, ZenonT(30)
  <2> QED BY <2>4 DEF StillAgree
<1>15. /\ new = {} \/ (new = {opened + 1} /\ signal \in Sides)
       /\ opened' \in Nat /\ 1..opened' = 1..opened \cup new
       /\ \A i \in new : i \notin 1..opened
  <2>1. new = {} \/ (new = {opened + 1} /\ signal \in Sides)
    BY DEF new, enters, Signals
  <2>2. new = {} => opened' = opened
    BY <1>2, <1>5, FS_EmptySet
  <2>3. new = {opened + 1} => opened' = opened + 1
    BY <1>2, <1>5, FS_Singleton
  <2> QED BY <1>5, <2>1, <2>2, <2>3
<1>16. /\ DOMAIN positions' = (DOMAIN positions \ ended) \cup new
       /\ DOMAIN active' = (DOMAIN positions \ ended) \cup new
       /\ \A i \in DOMAIN positions \ ended : positions'[i] = seen[i] /\ active'[i] = info[i]
       /\ \A i \in new :
              /\ positions'[i] = Register(signal, x, EstimateAtr(x, near), wall')
              /\ active'[i] = [best |-> 0, worst |-> 0]
  <2>1. kept = DOMAIN positions \ ended
    BY <1>5 DEF kept
  <2>2. \A i \in DOMAIN positions \ ended : i \notin new
    BY <1>5, <1>15
  <2> QED BY <1>2, <2>1, <2>2, Zenon
<1>17. DOMAIN positions' = 1..opened' \ Ids(trades') /\ Ids(trades') \subseteq 1..opened'
  <2>1. \A i \in new : i \notin Ids(trades) /\ i \notin ended
    BY <1>5, <1>9, <1>15
  <2>2. Ids(trades) \cap DOMAIN positions = {}
    BY <1>5
  <2> QED BY <1>5, <1>9, <1>14, <1>15, <1>16, <2>1
<1>18. ASSUME NEW i \in DOMAIN positions'
       PROVE  /\ Placed(positions'[i]) /\ Watched(active'[i], positions'[i], x)
              /\ Above(positions'[i], x)
  <2>1. CASE i \in DOMAIN positions \ ended
    BY <1>6, <1>7, <1>8, <1>16, <2>1
  <2>2. CASE i \in new
    <3>1. signal \in Sides
      BY <1>15, <2>2
    <3> DEFINE atr == EstimateAtr(x, near)
    <3>2. positions'[i] = Register(signal, x, atr, wall')
      BY <1>16, <2>2
    <3> HIDE DEF atr
    <3>3. Placed(positions'[i]) /\ positions'[i].entry = x
      BY <1>4, <3>1, <3>2, RegisteredAsTold
    <3>4. Above(positions'[i], x)
      BY <1>4, <3>3, AboveWhereHeld
    <3>5. active'[i].best = 0 /\ active'[i].worst = 0
      BY <1>16, <2>2
    <3>6. TradeGain(positions'[i].side, positions'[i].entry, x) = 0
      BY <1>4, <3>3 DEF TradeGain
    <3> QED BY <3>3, <3>4, <3>5, <3>6 DEF Watched
  <2> QED BY <1>16, <2>1, <2>2
<1>19. \A k \in DOMAIN trades' : LossFits(trades'[k])
  BY <1>10, <1>14 DEF ReplayInv
<1>20. ReplayBooks'
  <2>1. idx' \in 0..Length /\ idx' # 0
    BY <1>0
  <2>2. done' \in BOOLEAN /\ ~done'
    BY <1>0, Zenon DEF ReplayInv, ReplayBooks
  <2>3. opened' \in Nat /\ price' \in Nat \ {0}
    BY <1>2, <1>4, <1>15
  <2>4. \A i \in DOMAIN positions' : Placed(positions'[i])
    BY <1>18
  <2> QED BY <1>14, <1>17, <2>1, <2>2, <2>3, <2>4, Zenon DEF ReplayBooks
<1> QED BY <1>2, <1>0, <1>4, <1>16, <1>18, <1>19, <1>20 DEF ReplayInv

(* The close at the end of the data keeps the books: both accounts take    *)
(* every trade that is left, and the manager holds nothing afterwards.     *)
LEMMA ForceCloseKeeps ==
    ASSUME ReplayInv, ForceClose
    PROVE  ReplayInv'
<1> DEFINE held == DOMAIN active
           order == InOrder(held)
           tr == [i \in held |->
                    Record(i, positions[i], active[i], price, "forced_close_eod")]
           ex == [i \in held |-> Exit(i, positions[i], price, "manual_exit")]
<1>1. /\ idx = Length /\ ~done /\ done' = TRUE
      /\ UNCHANGED <<idx, price, recent, wall, active, opened>>
      /\ positions' = [i \in DOMAIN positions \ held |-> positions[i]]
  BY DEF ForceClose
<1>2. /\ trades' = trades \o [k \in DOMAIN order |->
             Record(order[k], positions[order[k]], active[order[k]],
                    price, "forced_close_eod")]
      /\ closed' = closed \o [k \in DOMAIN order |->
             Exit(order[k], positions[order[k]], price, "manual_exit")]
  BY Zenon DEF ForceClose
<1>3. /\ held = DOMAIN positions /\ DOMAIN positions = 1..opened \ Ids(trades)
      /\ opened \in Nat /\ Ids(trades) \subseteq 1..opened
      /\ \A i \in held : /\ Placed(positions[i]) /\ Watched(active[i], positions[i], price)
                        /\ Above(positions[i], price)
  BY <1>1 DEF ReplayInv, ReplayBooks
<1>4. ASSUME NEW i \in held
      PROVE  /\ tr[i] \in Trade /\ ex[i] \in ManagersExit /\ Agrees(tr[i], ex[i])
             /\ tr[i].id = i /\ LossFits(tr[i])
  <2>1. /\ tr[i] = Record(i, positions[i], active[i], price, "forced_close_eod")
        /\ ex[i] = Exit(i, positions[i], price, "manual_exit")
    OBVIOUS
  <2>2. /\ i \in Nat /\ Placed(positions[i]) /\ Watched(active[i], positions[i], price)
        /\ Above(positions[i], price)
    BY <1>3
  <2>3. price \in Int
    BY DEF ReplayInv, ReplayBooks
  <2> HIDE DEF tr, ex, held
  <2>4. /\ tr[i] \in Trade /\ ex[i] \in ManagersExit /\ Agrees(tr[i], ex[i]) /\ tr[i].id = i
        /\ tr[i].pnl = Net(TradeGain(positions[i].side, positions[i].entry, price), positions[i].entry)
        /\ tr[i].entry = positions[i].entry
    BY <2>1, <2>2, <2>3, LinesAgree
  <2>5. LossFits(tr[i])
    BY <2>2, <2>3, <2>4, LastLoss
  <2> QED BY <2>4, <2>5
<1>5. ListsOnce(order, held)
  <2>1. held \in SUBSET Nat
    BY <1>3
  <2>2. IsFiniteSet(held)
    <3>1. IsFiniteSet(1..opened) /\ held \subseteq 1..opened
      BY <1>3, FS_Interval
    <3> HIDE DEF held
    <3> QED BY <3>1, FS_Subset
  <2> HIDE DEF held
  <2> QED BY <2>1, <2>2, OrderOf
<1>6. Appends(trades', trades, order, tr) /\ Appends(closed', closed, order, ex)
  <2>1. \A k \in DOMAIN order : order[k] \in held
    BY <1>5 DEF ListsOnce
  <2>2. [k \in DOMAIN order |-> tr[order[k]]]
          = [k \in DOMAIN order |-> Record(order[k], positions[order[k]], active[order[k]],
                                           price, "forced_close_eod")]
    <3> HIDE DEF order, held
    <3> QED BY <2>1
  <2>3. [k \in DOMAIN order |-> ex[order[k]]]
          = [k \in DOMAIN order |->
                Exit(order[k], positions[order[k]], price, "manual_exit")]
    <3> HIDE DEF order, held
    <3> QED BY <2>1
  <2> HIDE DEF order, held, tr, ex
  <2> QED BY <1>2, <2>2, <2>3 DEF Appends
<1>7. LinesOf(tr, ex, held)
  <2>1. (\A i \in held : tr[i] \in Trade) /\ (\A i \in held : ex[i] \in ManagersExit)
    BY <1>4
  <2>2. tr \in [held -> Trade] /\ ex \in [held -> ManagersExit]
    BY <2>1, Zenon
  <2> HIDE DEF tr, ex, held
  <2> QED BY <1>4, <2>2 DEF LinesOf
<1> HIDE DEF held, order, tr, ex
<1>8. /\ trades' \in Seq(Trade) /\ closed' \in Seq(ManagersExit)
      /\ AccountsAgree(trades', closed')
      /\ Ids(trades') = Ids(trades) \cup held
      /\ \A k \in DOMAIN trades' : (\E j \in DOMAIN trades : trades'[k] = trades[j])
                                  \/ (\E i \in held : trades'[k] = tr[i])
  <2>1. /\ trades \in Seq(Trade) /\ closed \in Seq(ManagersExit)
        /\ AccountsAgree(trades, closed)
    BY DEF ReplayInv, ReplayBooks
  <2>2. held \cap Ids(trades) = {}
    BY <1>3
  <2>3. StillAgree(trades, trades', closed', tr, held)
    BY <1>5, <1>6, <1>7, <2>1, <2>2, AccountsAppended, ZenonT(30)
  <2> QED BY <2>3 DEF StillAgree
<1>9. DOMAIN positions' = {} /\ Ids(trades') = 1..opened /\ opened' = opened
  BY <1>1, <1>3, <1>8
<1>10. \A k \in DOMAIN trades' : LossFits(trades'[k])
  BY <1>4, <1>8 DEF ReplayInv
<1>11. ReplayBooks'
  <2>1. idx \in 0..Length /\ price \in Nat \ {0} /\ opened \in Nat /\ (idx = 0 => opened = 0)
    BY DEF ReplayInv, ReplayBooks
  <2>2. DOMAIN positions' = 1..opened' \ Ids(trades') /\ Ids(trades') \subseteq 1..opened'
    BY <1>9
  <2>3. \A i \in DOMAIN positions' : Placed(positions'[i])
    BY <1>9
  <2>4. idx' = idx /\ price' = price /\ opened' = opened /\ done' \in BOOLEAN /\ idx = Length
    BY <1>1
  <2> QED BY <1>8, <2>1, <2>2, <2>3, <2>4, Zenon DEF ReplayBooks
<1>12. PathFits(price', Length - idx') /\ done'
  BY <1>1 DEF ReplayInv
<1> QED BY <1>9, <1>10, <1>11, <1>12, Zenon DEF ReplayInv

(* Nothing is held and nothing was recorded when a replay starts.          *)
LEMMA ReplayInitially == BacktestInit => ReplayInv
<1> SUFFICES ASSUME BacktestInit PROVE ReplayInv
  OBVIOUS
<1>1. /\ idx = 0 /\ price = Start /\ opened = 0 /\ done = FALSE
      /\ positions = Empty /\ active = Empty /\ closed = <<>> /\ trades = <<>>
  BY DEF BacktestInit
<1>2. /\ Start \in Nat \ {0} /\ Length \in Nat
      /\ \A m \in Moves : Start + Length * m > 0
  BY BacktestAssumption
<1>3. DOMAIN trades = {} /\ Len(trades) = 0 /\ Len(closed) = 0 /\ DOMAIN positions = {}
      /\ DOMAIN active = {}
  BY <1>1 DEF Empty
<1>4. Ids(trades) = {} /\ AccountsAgree(trades, closed)
  BY <1>3 DEF Ids, AccountsAgree
<1>5. ReplayBooks
  <2>1. trades \in Seq(Trade) /\ closed \in Seq(ManagersExit)
    BY <1>1
  <2>2. /\ idx \in 0..Length /\ opened \in Nat /\ price \in Nat \ {0}
        /\ DOMAIN positions = 1..opened \ Ids(trades) /\ Ids(trades) \subseteq 1..opened
        /\ \A i \in DOMAIN positions : Placed(positions[i])
    BY <1>1, <1>2, <1>3, <1>4
  <2>3. done \in BOOLEAN /\ ~done /\ (idx = 0 => opened = 0)
    BY <1>1
  <2> QED BY <1>4, <2>1, <2>2, <2>3, Zenon DEF ReplayBooks
<1>6. PathFits(price, Length - idx)
  BY <1>1, <1>2 DEF PathFits
<1> QED BY <1>3, <1>5, <1>6 DEF ReplayInv

(* The books of a replay hold along every path of the price and with every *)
(* entry strategy.                                                         *)
THEOREM ReplayInvariance == BacktestSpec => []ReplayInv
<1>1. BacktestInit => ReplayInv
  BY ReplayInitially
<1>2. ReplayInv /\ [BacktestNext]_backtestVars => ReplayInv'
  <2> SUFFICES ASSUME ReplayInv, [BacktestNext]_backtestVars PROVE ReplayInv'
    OBVIOUS
  <2>1. CASE ReplayTick
    BY <2>1, ReplayTickKeeps
  <2>2. CASE ForceClose
    BY <2>2, ForceCloseKeeps
  <2>3. CASE UNCHANGED backtestVars
    BY <2>3 DEF backtestVars, ReplayInv, ReplayBooks
  <2> QED BY <2>1, <2>2, <2>3 DEF BacktestNext
<1> QED BY <1>1, <1>2, PTL DEF BacktestSpec

(* run's log of trades and the manager's list of exits tell the same       *)
(* (services/backtester.py, apm.py).                                       *)
THEOREM LogsAgree == BacktestSpec => []LogAgreesWithManager
<1>1. ReplayInv => LogAgreesWithManager
  <2> SUFFICES ASSUME ReplayInv PROVE LogAgreesWithManager
    OBVIOUS
  <2>1. /\ AccountsAgree(trades, closed) /\ DOMAIN positions = 1..opened \ Ids(trades)
        /\ (~done => DOMAIN active = DOMAIN positions)
    BY DEF ReplayInv, ReplayBooks
  <2>2. /\ Len(trades) = Len(closed) /\ \A k \in DOMAIN trades : Agrees(trades[k], closed[k])
        /\ \A j, k \in DOMAIN trades : trades[j].id = trades[k].id => j = k
    BY <2>1 DEF AccountsAgree
  <2>3. ASSUME NEW k \in DOMAIN trades
        PROVE  /\ trades[k].id = closed[k].id
               /\ closed[k].reason = IF trades[k].reason = "forced_close_eod" THEN "manual_exit"
                                     ELSE trades[k].reason
               /\ closed[k].pnl # <<>> =>
                     trades[k].pnl = Net(closed[k].pnl[1], trades[k].entry)
               /\ trades[k].pnl \in Net(trades[k].worst, trades[k].entry)
                                     ..Net(trades[k].best, trades[k].entry)
               /\ \A j \in DOMAIN trades : trades[j].id = trades[k].id => j = k
    BY <2>2, Zenon DEF Agrees
  <2>4. DOMAIN positions = 1..opened \ {trades[k].id : k \in DOMAIN trades}
    BY <2>1 DEF Ids
  <2> QED BY <2>1, <2>2, <2>3, <2>4, Zenon DEF LogAgreesWithManager
<1> QED BY <1>1, ReplayInvariance, PTL

(* With a hard stop, a logged trade loses at most that, one move of the    *)
(* price and its costs, whatever ended it (apm.py,                         *)
(* services/backtester.py).                                                *)
THEOREM TradeLossesAreBounded ==
    ASSUME HardStop > 0
    PROVE  BacktestSpec => []TradeLossIsBounded
<1>1. ReplayInv => TradeLossIsBounded
  BY DEF ReplayInv, LossFits, TradeLossIsBounded
<1> QED BY <1>1, ReplayInvariance, PTL
=============================================================================
