---------------------------- MODULE ApexNeo_proofs ----------------------------
(***************************************************************************)
(* Proofs about ApexNeo, for every value of its constants: what the        *)
(* account can hold, how much a session can lose, and in which regime an   *)
(* entry is sent.                                                          *)
(*                                                                         *)
(* HoldingIsBounded is not inductive: it says nothing of what the engine   *)
(* believes.  HoldingFits compares the account with the position of the    *)
(* executor, and they differ by at most one lot for each order taken for   *)
(* another and each crash.  DrawdownIsBounded needs to know that a         *)
(* position was entered above the limit and that its gain is not far below *)
(* the stop (LossFits), and how far the result of the session can be below *)
(* what the risk manager believes (MoneyFits).  EntriesFitTheRegime rests  *)
(* on GateFits: a block is not older than the low score that caused it.    *)
(***************************************************************************)
EXTENDS ApexNeo, TLAPS

PositionFits ==
    position \in [side : Sides \cup {"none"}, gain : Int, peak : Int, hold : Int]

OrderFits ==
    /\ (pc = "order") <=> (order.kind \in {"entry", "exit"})
    /\ order.kind \in {"none", "entry", "exit"}
    /\ order.kind = "none" => order = NoOrder
    /\ order.kind = "entry" => position.side = "none" /\ order.side \in Sides
    /\ order.kind = "exit" => position.side = order.side

Believed == IF pc = "down" THEN 0 ELSE Sign(position.side)
Doubts == wrong + crashes

HoldingFits ==
    /\ mode \in {"paper", "live"}
    /\ account \in Int /\ wrong \in Nat /\ crashes \in Nat
    /\ mode = "paper" => account = 0 /\ order.kind = "none"
    /\ mode = "live" => account - Believed \in -Doubts..Doubts

IInv == PositionFits /\ OrderFits /\ HoldingFits

(* Nothing is held, or about to be, in a drawdown; and between two passes  *)
(* the gain of what is held is above the stop.                             *)
LossFits ==
    /\ position.gain > -(StopLoss + MaxMove)
    /\ pc \in {"ticker", "notice", "asleep"} => position.gain > -StopLoss
    /\ order.kind = "entry" => position = Flat
    /\ order.kind = "exit" => position # Flat /\ order.gain = position.gain
    /\ position # Flat \/ order.kind = "entry" => ~InDrawdown(risk)

Risks == [equity : Int, peak : Int, paused : BOOLEAN, left : Nat]

(* The risk manager's equity is one trade below its limit at worst, and    *)
(* the session is below it by the trades it did not hear of.               *)
MoneyFits ==
    /\ risk \in Risks /\ risk.peak >= Capital
    /\ session \in Int /\ unjournaled \in Nat
    /\ Capital + session + WorstTrade * unjournaled >= risk.equity
    /\ 100 * (risk.equity + WorstTrade) > (100 - MaxDrawdown) * risk.peak

GateFits ==
    /\ gate \in [blocked : BOOLEAN, since : Int, low : Int]
    /\ 0 <= gate.since /\ gate.since <= BlockTimeout + 1
    /\ -1 <= gate.low /\ gate.low <= BlockTimeout + 1
    /\ gate.blocked => gate.low >= gate.since

-----------------------------------------------------------------------------
(* Facts about the operators of the model.                                 *)

(* A side is worth one lot, either way, and no side none                   *)
(* (executor.py:274-313).                                                  *)
LEMMA SignOfNone == Sign("none") = 0 /\ Sign(Flat.side) = 0 /\ Flat.side = "none"
BY DEF Sign, Flat

LEMMA SignIsSmall == ASSUME NEW side PROVE Sign(side) \in {-1, 0, 1}
BY SMT DEF Sign

(* No order is of the kind "none".                                         *)
LEMMA NoOrderIsNone == NoOrder.kind = "none"
BY DEF NoOrder

(* Counting up to a limit stays below it, and keeps the order of two       *)
(* counters that are both counted.                                         *)
LEMMA CountingUp ==
    ASSUME NEW limit \in Nat, NEW m \in Int, NEW n \in Int, m <= n, n <= limit
    PROVE  /\ CountUpTo(m, limit) \in Int /\ CountUpTo(n, limit) \in Int
           /\ CountUpTo(m, limit) <= CountUpTo(n, limit)
           /\ CountUpTo(n, limit) <= limit /\ CountUpTo(m, limit) >= m
BY SMT DEF CountUpTo

-----------------------------------------------------------------------------
(* What the account holds.                                                 *)

(* A step that touches neither order nor account nor what the engine       *)
(* believes keeps the invariant.                                           *)
LEMMA QuietStep ==
    ASSUME IInv, PositionFits', UNCHANGED <<mode, account, wrong, crashes, order>>,
           position'.side = position.side,
           pc # "order", pc' # "order", pc # "down", pc' # "down"
    PROVE  IInv'
<1>1. OrderFits'
  BY Zenon DEF IInv, OrderFits
<1>2. Believed' = Believed
  BY Zenon DEF Believed
<1>3. HoldingFits'
  BY <1>2, SMT DEF IInv, HoldingFits, Doubts
<1> QED
  BY <1>1, <1>3 DEF IInv

(* A new price moves the gain of the position and not its side             *)
(* (main.py:257-262).                                                      *)
LEMMA TickerHolds == ASSUME IInv, Ticker PROVE IInv'
<1>1. PositionFits' /\ position'.side = position.side
  <2>1. CASE UNCHANGED position
    BY <2>1 DEF IInv, PositionFits
  <2>2. CASE \E g \in -MaxGain..MaxGain :
                 position' = [position EXCEPT !.gain = g, !.peak = Larger(@, g)]
    <3>1. PICK g \in -MaxGain..MaxGain :
                 position' = [position EXCEPT !.gain = g, !.peak = Larger(@, g)]
      BY <2>2
    <3>2. g \in Int /\ Larger(position.peak, g) \in Int
      BY ApexNeoAssumption, SMT DEF IInv, PositionFits, ApexNeoAssumption, Larger
    <3> QED
      BY <3>1, <3>2 DEF IInv, PositionFits
  <2> QED
    BY <2>1, <2>2 DEF Ticker
<1> QED
  BY <1>1, QuietStep DEF Ticker, outside

(* The sleep only counts passes (main.py:393-396).                         *)
LEMMA WakeHolds == ASSUME IInv, Wake PROVE IInv'
<1>1. PositionFits' /\ position'.side = position.side
  <2>1. CASE position = Flat
    BY <2>1 DEF Wake, IInv, PositionFits
  <2>2. CASE position # Flat
    <3>1. CountUpTo(position.hold, MinHold) \in Int
      BY ApexNeoAssumption, SMT DEF IInv, PositionFits, ApexNeoAssumption, CountUpTo
    <3>2. position' = [position EXCEPT !.hold = CountUpTo(@, MinHold)]
      BY <2>2 DEF Wake
    <3> QED
      BY <3>1, <3>2 DEF IInv, PositionFits
  <2> QED
    BY <2>1, <2>2
<1> QED
  BY <1>1, QuietStep DEF Wake, outside

(* A position that was opened or left is one again (executor.py:157-272).  *)
LEMMA EnteredFits == ASSUME NEW side \in Sides, Entered(side)
                     PROVE  PositionFits' /\ position'.side = side
BY SMT DEF Entered, Flat, PositionFits

LEMMA ExitedFits == ASSUME NEW gain, Exited(gain)
                    PROVE  /\ PositionFits' /\ position'.side = "none"
                           /\ pc' \in {"notice", "asleep"}
BY SMT DEF Exited, Flat, PositionFits

(* A paper engine has nothing at the exchange, whatever its position is    *)
(* (executor.py:274-313).                                                  *)
LEMMA PaperStep ==
    ASSUME IInv, mode = "paper", PositionFits', UNCHANGED <<outside, order>>, pc' # "order"
    PROVE  IInv'
<1>1. order.kind = "none" /\ order'.kind = "none"
  BY DEF IInv, HoldingFits
<1>2. OrderFits'
  BY <1>1, Zenon DEF IInv, OrderFits
<1>3. HoldingFits'
  BY Zenon DEF IInv, HoldingFits, outside
<1> QED
  BY <1>2, <1>3 DEF IInv

(* A live engine that sends an order has changed nothing yet               *)
(* (executor.py:274-313).                                                  *)
LEMMA SendStep ==
    ASSUME IInv, mode = "live", pc = "decide", pc' = "order",
           UNCHANGED <<position, outside>>,
           order'.kind \in {"entry", "exit"},
           order'.kind = "entry" => position.side = "none" /\ order'.side \in Sides,
           order'.kind = "exit" => position.side = order'.side
    PROVE  IInv'
<1>1. OrderFits'
  BY Zenon DEF IInv, OrderFits
<1>2. Believed' = Believed
  BY Zenon DEF Believed
<1>3. HoldingFits'
  BY <1>2, SMT DEF IInv, HoldingFits, Doubts, outside
<1> QED
  BY <1>1, <1>3 DEF IInv, PositionFits

(* What one pass decides (main.py:299-381).                                *)
LEMMA DecideHolds == ASSUME IInv, Decide PROVE IInv'
<1> PICK s \in Signals :
        /\ gate' = UpdateGate(gate, s.low)
        /\ DecideExit(s) \/ DecideEntry(s) \/ DecideNothing(s)
  BY DEF Decide
<1>0. pc = "decide" /\ UNCHANGED outside /\ mode \in {"paper", "live"}
  BY DEF Decide, IInv, HoldingFits
<1>1. CASE DecideNothing(s)
  BY <1>0, <1>1, QuietStep DEF DecideNothing, engine, outside, IInv, PositionFits
<1>2. CASE DecideExit(s)
  <2>1. CASE mode = "live"
    <3>1. /\ pc' = "order" /\ UNCHANGED position
          /\ order' = [kind |-> "exit", side |-> position.side, gain |-> position.gain]
      BY <1>2, <2>1 DEF DecideExit
    <3>2. order'.kind = "exit" /\ order'.side = position.side
      BY <3>1
    <3> QED
      BY <1>0, <2>1, <3>1, <3>2, SendStep
  <2>2. CASE mode = "paper"
    <3>1. UNCHANGED order /\ Exited(position.gain)
      BY <1>2, <2>2 DEF DecideExit
    <3> QED
      BY <1>0, <2>2, <3>1, ExitedFits, PaperStep
  <2> QED
    BY <1>0, <2>1, <2>2
<1>3. CASE DecideEntry(s)
  <2>0. s.wants \in Sides /\ position.side = "none"
    BY <1>3, SignOfNone DEF DecideEntry, ShouldEnter, Signals
  <2>1. CASE mode = "live"
    <3>1. /\ pc' = "order" /\ UNCHANGED position
          /\ order' = [kind |-> "entry", side |-> s.wants, gain |-> 0]
      BY <1>3, <2>1 DEF DecideEntry
    <3>2. order'.kind = "entry" /\ order'.side = s.wants
      BY <3>1
    <3> QED
      BY <1>0, <2>0, <2>1, <3>1, <3>2, SendStep
  <2>2. CASE mode = "paper"
    <3>1. UNCHANGED order /\ Entered(s.wants) /\ pc' = "notice"
      BY <1>3, <2>2 DEF DecideEntry
    <3> QED
      BY <1>0, <2>0, <2>2, <3>1, EnteredFits, PaperStep
  <2> QED
    BY <1>0, <2>1, <2>2
<1> QED
  BY <1>1, <1>2, <1>3

(* The answer of an order, or none: an entry is believed if it was         *)
(* answered, an exit is always believed (executor.py:239-313).             *)
LEMMA OrderAnsweredHolds == ASSUME IInv, OrderAnswered PROVE IInv'
<1> PICK filled \in BOOLEAN, answered \in BOOLEAN :
        /\ answered => filled
        /\ account' = IF filled THEN account + Lots(order) ELSE account
        /\ IF order.kind = "entry"
             THEN /\ wrong' = IF filled /\ ~answered THEN wrong + 1 ELSE wrong
                  /\ pc' = "notice"
                  /\ IF answered THEN Entered(order.side)
                     ELSE UNCHANGED <<position, cooldown, session, risk, unjournaled>>
             ELSE /\ wrong' = IF filled THEN wrong ELSE wrong + 1
                  /\ Exited(order.gain)
  BY DEF OrderAnswered
<1>0. /\ pc = "order" /\ order' = NoOrder /\ UNCHANGED <<crashes, mode>>
      /\ order.kind \in {"entry", "exit"} /\ mode = "live"
      /\ order'.kind = "none"
  BY NoOrderIsNone DEF OrderAnswered, IInv, OrderFits, HoldingFits
<1>1. /\ account \in Int /\ wrong \in Nat /\ crashes \in Nat
      /\ account - Believed \in -Doubts..Doubts
  BY <1>0 DEF IInv, HoldingFits
<1>2. Sign(order.side) \in {-1, 0, 1} /\ Believed = Sign(position.side)
  BY <1>0, SignIsSmall DEF Believed
<1>3. CASE order.kind = "entry"
  <2>1. /\ Believed = 0 /\ Lots(order) = Sign(order.side) /\ pc' = "notice"
    BY <1>2, <1>3, SignOfNone DEF Lots, IInv, OrderFits
  <2>2. CASE answered
    <3>1. /\ wrong' = wrong /\ account' = account + Sign(order.side)
          /\ Entered(order.side)
      BY <1>3, <2>1, <2>2
    <3>2. PositionFits' /\ position'.side = order.side
      BY <1>3, <3>1, EnteredFits DEF IInv, OrderFits
    <3>3. Believed' = Sign(order.side)
      BY <2>1, <3>2 DEF Believed
    <3>4. HoldingFits'
      BY <1>0, <1>1, <1>2, <2>1, <3>1, <3>3, SMT DEF HoldingFits, Doubts
    <3> QED
      BY <1>0, <2>1, <3>2, <3>4 DEF IInv, OrderFits
  <2>3. CASE ~answered
    <3>1. /\ UNCHANGED position
          /\ \/ account' = account + Sign(order.side) /\ wrong' = wrong + 1
             \/ account' = account /\ wrong' = wrong
      BY <1>3, <2>1, <2>3
    <3>2. Believed' = 0
      BY <1>2, <2>1, <3>1 DEF Believed
    <3>3. HoldingFits'
      BY <1>0, <1>1, <1>2, <2>1, <3>1, <3>2, SMT DEF HoldingFits, Doubts
    <3> QED
      BY <1>0, <2>1, <3>1, <3>3 DEF IInv, OrderFits, PositionFits
  <2> QED
    BY <2>2, <2>3
<1>4. CASE order.kind = "exit"
  <2>1. /\ Believed = Sign(order.side) /\ Lots(order) = -Sign(order.side)
        /\ Exited(order.gain)
    BY <1>2, <1>4 DEF Lots, IInv, OrderFits
  <2>2. /\ PositionFits' /\ position'.side = "none" /\ pc' \in {"notice", "asleep"}
    BY <2>1, ExitedFits
  <2>3. Believed' = 0
    BY <2>2, SignOfNone DEF Believed
  <2>4. \/ account' = account - Sign(order.side) /\ wrong' = wrong
        \/ account' = account /\ wrong' = wrong + 1
    BY <1>1, <1>2, <1>4, <2>1, SMT
  <2>5. HoldingFits'
    BY <1>0, <1>1, <1>2, <2>1, <2>3, <2>4, SMT DEF HoldingFits, Doubts
  <2> QED
    BY <1>0, <2>2, <2>5 DEF IInv, OrderFits
<1> QED
  BY <1>0, <1>3, <1>4

(* A process that dies forgets its position; the order in flight may be    *)
(* executed all the same.                                                  *)
LEMMA CrashHolds == ASSUME IInv, Crash PROVE IInv'
<1>0. /\ pc # "down" /\ pc' = "down" /\ order' = NoOrder /\ order'.kind = "none"
      /\ UNCHANGED <<mode, position, wrong>> /\ crashes' = crashes + 1
  BY NoOrderIsNone DEF Crash, Up, engine
<1>1. /\ account \in Int /\ wrong \in Nat /\ crashes \in Nat
      /\ mode = "live" => account - Believed \in -Doubts..Doubts
  BY DEF IInv, HoldingFits
<1>2. /\ Believed = Sign(position.side) /\ Believed' = 0
      /\ Sign(position.side) \in {-1, 0, 1} /\ Sign(order.side) \in {-1, 0, 1}
  BY <1>0, SignIsSmall DEF Believed
<1>3. PICK filled \in BOOLEAN :
        account' = IF order # NoOrder /\ filled THEN account + Lots(order) ELSE account
  BY DEF Crash
<1>4. OrderFits' /\ PositionFits'
  BY <1>0, Zenon DEF IInv, OrderFits, PositionFits
<1>5. CASE account' = account
  <2> HoldingFits'
    BY <1>0, <1>1, <1>2, <1>5, SMT DEF IInv, HoldingFits, Doubts
  <2> QED
    BY <1>4 DEF IInv
<1>6. CASE order # NoOrder /\ account' = account + Lots(order)
  <2>1. order.kind \in {"entry", "exit"} /\ mode = "live"
    BY <1>6 DEF IInv, OrderFits, HoldingFits
  <2>2. CASE order.kind = "entry"
    <3>1. Lots(order) = Sign(order.side) /\ Believed = 0
      BY <1>2, <2>2, SignOfNone DEF Lots, IInv, OrderFits
    <3>2. HoldingFits'
      BY <1>0, <1>1, <1>2, <1>6, <2>1, <3>1, SMT DEF HoldingFits, Doubts
    <3> QED
      BY <1>4, <3>2 DEF IInv
  <2>3. CASE order.kind = "exit"
    <3>1. Lots(order) = -Sign(order.side) /\ Believed = Sign(order.side)
      BY <1>2, <2>3 DEF Lots, IInv, OrderFits
    <3>2. HoldingFits'
      BY <1>0, <1>1, <1>2, <1>6, <2>1, <3>1, SMT DEF HoldingFits, Doubts
    <3> QED
      BY <1>4, <3>2 DEF IInv
  <2> QED
    BY <2>1, <2>2, <2>3
<1> QED
  BY <1>3, <1>5, <1>6

(* The invariant holds along every behaviour.                              *)
LEMMA InvariantStarts == Init => IInv
<1> SUFFICES ASSUME Init PROVE IInv
  OBVIOUS
<1>1. PositionFits /\ OrderFits
  BY NoOrderIsNone DEF Init, PositionFits, OrderFits, Flat, Sides
<1>2. Believed = 0
  BY SignOfNone DEF Init, Believed
<1>3. HoldingFits
  BY <1>2, NoOrderIsNone, SMT DEF Init, HoldingFits, Doubts
<1> QED
  BY <1>1, <1>3 DEF IInv

LEMMA InvariantStays == IInv /\ [Next]_vars => IInv'
<1> SUFFICES ASSUME IInv, [Next]_vars PROVE IInv'
  OBVIOUS
<1>1. CASE Loop
  <2>1. CASE Dashboard
    BY <2>1, QuietStep DEF Dashboard, outside, engine, IInv, PositionFits
  <2> QED
    BY <1>1, <2>1, TickerHolds, DecideHolds, OrderAnsweredHolds, WakeHolds DEF Loop
<1>2. CASE \/ Status \/ RequestStop \/ UNCHANGED vars
  <2>1. UNCHANGED <<pc, position, order, mode, account, wrong, crashes>>
    BY <1>2 DEF Status, RequestStop, vars, outside, engine
  <2> QED
    BY <2>1, Zenon DEF IInv, PositionFits, OrderFits, HoldingFits, Believed, Doubts
<1>3. CASE Crash
  BY <1>3, CrashHolds
<1>4. CASE Restart
  <2>1. /\ pc = "down" /\ pc' = "ticker" /\ position' = Flat
        /\ UNCHANGED <<order, mode, account, wrong, crashes>>
    BY <1>4 DEF Restart, outside
  <2>2. PositionFits' /\ position'.side = "none"
    BY <2>1 DEF PositionFits, Flat
  <2>3. OrderFits'
    BY <2>1, <2>2 DEF IInv, OrderFits
  <2>4. Believed' = Believed
    BY <2>1, <2>2, SignOfNone DEF Believed
  <2>5. HoldingFits'
    BY <2>1, <2>4, SMT DEF IInv, HoldingFits, Doubts
  <2> QED
    BY <2>2, <2>3, <2>5 DEF IInv
<1> QED
  BY <1>1, <1>2, <1>3, <1>4 DEF Next

(* The account of a live engine never holds more lots, either way, than    *)
(* one and one for each order whose result was taken for another and each  *)
(* crash (executor.py:239-313).                                            *)
THEOREM Holding == Spec => []HoldingIsBounded
<1>1. IInv => HoldingIsBounded
  <2> SUFFICES ASSUME IInv PROVE HoldingIsBounded
    OBVIOUS
  <2>1. Believed \in {-1, 0, 1}
    BY SignIsSmall DEF Believed
  <2>2. CASE mode = "paper"
    BY <2>2, SMT DEF IInv, HoldingFits, HoldingIsBounded
  <2>3. CASE mode = "live"
    BY <2>1, <2>3, SMT DEF IInv, HoldingFits, HoldingIsBounded, Doubts
  <2> QED
    BY <2>2, <2>3 DEF IInv, HoldingFits
<1> QED
  BY <1>1, InvariantStarts, InvariantStays, PTL DEF Spec

-----------------------------------------------------------------------------
(* How much a session can lose.                                            *)

(* The constants, for arithmetic.                                          *)
LEMMA Amounts ==
    /\ Capital \in Nat /\ Capital > 0 /\ MaxDrawdown \in Nat /\ MaxDrawdown > 0
    /\ StopLoss \in Nat /\ StopLoss > 0 /\ MaxMove \in Nat /\ Fee \in Nat
    /\ PauseDuration \in Nat /\ WorstTrade \in Nat /\ WorstTrade = StopLoss + MaxMove + Fee
BY ApexNeoAssumption, SMT DEF ApexNeoAssumption, WorstTrade

(* Being asked changes the pause and no amount, and the answer is yes only *)
(* above the drawdown limit (risk.py:81-106).                              *)
LEMMA AskedFits ==
    ASSUME NEW r \in Risks
    PROVE  /\ CheckAllowed(r).risk \in Risks
           /\ CheckAllowed(r).risk.equity = r.equity /\ CheckAllowed(r).risk.peak = r.peak
           /\ CheckAllowed(r).allowed => ~InDrawdown(r)
<1> DEFINE begun == [r EXCEPT !.paused = TRUE, !.left = PauseDuration]
           ended == [r EXCEPT !.paused = FALSE]
<1>1. /\ begun \in Risks /\ begun.equity = r.equity /\ begun.peak = r.peak
      /\ ended \in Risks /\ ended.equity = r.equity /\ ended.peak = r.peak
  BY Amounts DEF Risks
<1>2. CheckAllowed(r) = IF r.paused /\ r.left > 0 THEN [allowed |-> FALSE, risk |-> r]
                        ELSE IF InDrawdown(r) \/ BelowFloor(r)
                          THEN [allowed |-> FALSE, risk |-> begun]
                        ELSE [allowed |-> TRUE, risk |-> ended]
  BY DEF CheckAllowed
<1> HIDE DEF begun, ended
<1> QED
  BY <1>1, <1>2

(* A trade that was entered above the limit leaves the equity one worst    *)
(* trade below it (risk.py:58-79).                                         *)
LEMMA TradeFits ==
    ASSUME NEW r \in Risks, r.peak >= Capital, ~InDrawdown(r),
           NEW pnl \in Int, pnl > -WorstTrade
    PROVE  LET u == UpdateEquity(r, pnl) IN
           /\ u \in Risks /\ u.peak >= Capital /\ u.equity = r.equity + pnl
           /\ 100 * (u.equity + WorstTrade) > (100 - MaxDrawdown) * u.peak
<1> DEFINE e == r.equity + pnl
           p == Larger(r.peak, e)
           u == UpdateEquity(r, pnl)
<1>1. /\ Capital \in Nat /\ Capital > 0 /\ MaxDrawdown \in Nat /\ WorstTrade \in Nat
      /\ r.equity \in Int /\ r.peak \in Int
  BY Amounts DEF Risks
<1>2. /\ e \in Int /\ p \in Int /\ p >= Capital
      /\ p = r.peak \/ p = e
  BY <1>1, SMT DEF Larger
<1>3. u = [r EXCEPT !.equity = e, !.peak = p]
  BY DEF UpdateEquity, Larger
<1>4. u \in Risks /\ u.equity = e /\ u.peak = p
  BY <1>2, <1>3 DEF Risks
<1>5. /\ MaxDrawdown * r.peak \in Int
      /\ 100 * (r.peak - r.equity) < MaxDrawdown * r.peak
  BY <1>1, SMT DEF InDrawdown
<1>6. MaxDrawdown * p \in Int /\ MaxDrawdown * p >= 0
  <2>1. \A x, y \in Nat : x * y \in Int /\ x * y >= 0
    BY SMT
  <2>2. p \in Nat
    BY <1>1, <1>2, SMT
  <2> QED
    BY <1>1, <2>1, <2>2
<1>7. (100 - MaxDrawdown) * p = 100 * p - MaxDrawdown * p
  BY <1>1, <1>2, SMT
<1>8. 100 * (e + WorstTrade) > 100 * p - MaxDrawdown * p
  <2>1. CASE p = r.peak
    <3>1. 100 * (e + WorstTrade) > 100 * r.equity
      BY <1>1, SMT
    <3> HIDE DEF e
    <3> QED
      BY <1>1, <1>2, <1>5, <2>1, <3>1, SMT
  <2>2. CASE p = e
    <3> HIDE DEF e, p
    <3>1. WorstTrade > 0
      BY Amounts, SMT
    <3> QED
      BY <1>1, <1>2, <1>6, <2>2, <3>1, SMT
  <2> QED
    BY <1>2, <2>1, <2>2
<1> HIDE DEF e, p, u
<1>9. /\ u \in Risks /\ u.peak >= Capital /\ u.equity = e
      /\ 100 * (u.equity + WorstTrade) > (100 - MaxDrawdown) * u.peak
  BY <1>2, <1>4, <1>7, <1>8
<1> QED
  BY <1>9 DEF e, u

(* A step that moves no amount.                                            *)
LEMMA MoneyStays ==
    ASSUME MoneyFits, risk' \in Risks, risk'.equity = risk.equity, risk'.peak = risk.peak,
           UNCHANGED <<session, unjournaled>>
    PROVE  MoneyFits' /\ (InDrawdown(risk)' <=> InDrawdown(risk))
<1>1. InDrawdown(risk)' <=> InDrawdown(risk)
  BY DEF InDrawdown
<1> QED
  BY <1>1 DEF MoneyFits

(* An exit that was entered above the limit, whether the journal could     *)
(* record it or not (main.py:317-364).                                     *)
LEMMA ExitedMoney ==
    ASSUME MoneyFits, ~InDrawdown(risk), NEW gain \in Int, gain > -(StopLoss + MaxMove),
           Exited(gain)
    PROVE  MoneyFits'
<1> DEFINE pnl == gain - Fee
<1>1. /\ Capital \in Nat /\ WorstTrade \in Nat /\ session \in Int /\ unjournaled \in Nat
      /\ risk \in Risks /\ risk.equity \in Int /\ risk.peak >= Capital
      /\ Capital + session + WorstTrade * unjournaled >= risk.equity
      /\ 100 * (risk.equity + WorstTrade) > (100 - MaxDrawdown) * risk.peak
  BY Amounts DEF MoneyFits, Risks
<1>2. pnl \in Int /\ pnl > -WorstTrade
  BY Amounts, SMT
<1>3. session' = session + pnl
  BY <1>1, Amounts, SMT DEF Exited
<1> DEFINE unknown == WorstTrade * unjournaled
<1>4. unknown \in Int
  BY <1>1, SMT
<1>5. CASE risk' = UpdateEquity(risk, pnl) /\ UNCHANGED unjournaled
  <2>1. /\ risk' \in Risks /\ risk'.peak >= Capital /\ risk'.equity = risk.equity + pnl
        /\ 100 * (risk'.equity + WorstTrade) > (100 - MaxDrawdown) * risk'.peak
    BY <1>1, <1>2, <1>5, TradeFits
  <2>2. WorstTrade * unjournaled' = unknown
    BY <1>5
  <2>3. Capital + session + unknown >= risk.equity
    BY <1>1
  <2> HIDE DEF pnl, unknown
  <2>4. Capital + session' + unknown >= risk'.equity
    BY <1>1, <1>2, <1>3, <1>4, <2>1, <2>3, SMT
  <2>5. session' \in Int /\ unjournaled' \in Nat
    BY <1>1, <1>2, <1>3, <1>5, SMT
  <2> QED
    BY <2>1, <2>2, <2>4, <2>5 DEF MoneyFits
<1>6. CASE unjournaled' = unjournaled + 1 /\ UNCHANGED risk
  <2>1. WorstTrade * unjournaled' = unknown + WorstTrade
    BY <1>1, <1>6, SMT
  <2>2. Capital + session + unknown >= risk.equity
    BY <1>1
  <2> HIDE DEF pnl, unknown
  <2>3. Capital + session' + WorstTrade * unjournaled' >= risk.equity
    BY <1>1, <1>2, <1>3, <1>4, <2>1, <2>2, SMT
  <2>4. session' \in Int /\ unjournaled' \in Nat
    BY <1>1, <1>2, <1>3, <1>6, SMT
  <2> QED
    BY <1>1, <1>6, <2>3, <2>4 DEF MoneyFits
<1> QED
  BY <1>5, <1>6 DEF Exited

(* A flat engine without an order has nothing to lose.                     *)
LEMMA FlatIsSafe ==
    ASSUME position = Flat, order.kind = "none" PROVE LossFits
<1>1. position.gain = 0
  BY DEF Flat
<1> QED
  BY <1>1, Amounts, SMT DEF LossFits

(* The state after a step that leaves the engine flat and without an order.*)
LEMMA FlatIsSafeNext ==
    ASSUME position' = Flat, order'.kind = "none" PROVE LossFits'
<1>1. position'.gain = 0
  BY DEF Flat
<1> QED
  BY <1>1, Amounts, SMT DEF LossFits

(* A position that was just opened has neither won nor lost, and was opened*)
(* above the limit (executor.py:157-172).                                  *)
LEMMA EnteredIsSafe ==
    ASSUME MoneyFits, ~InDrawdown(risk), NEW side, Entered(side), order'.kind = "none"
    PROVE  LossFits' /\ MoneyFits'
<1>1. /\ position' = [Flat EXCEPT !.side = side]
      /\ UNCHANGED <<session, risk, unjournaled>>
  BY DEF Entered
<1>2. position'.gain = 0
  BY <1>1 DEF Flat
<1>3. risk' \in Risks /\ risk'.equity = risk.equity /\ risk'.peak = risk.peak
  BY <1>1 DEF MoneyFits
<1>4. MoneyFits' /\ (InDrawdown(risk)' <=> InDrawdown(risk))
  BY <1>1, <1>3, MoneyStays
<1> QED
  BY <1>2, <1>4, Amounts, SMT DEF LossFits

(* A session that has just begun is within the bounds.                     *)
LEMMA NewRiskFits ==
    /\ NewRisk \in Risks /\ NewRisk.peak >= Capital
    /\ Capital + 0 + WorstTrade * 0 >= NewRisk.equity
    /\ 100 * (NewRisk.equity + WorstTrade) > (100 - MaxDrawdown) * NewRisk.peak
<1>1. NewRisk \in Risks /\ NewRisk.equity = Capital /\ NewRisk.peak = Capital
  BY Amounts DEF NewRisk, Risks
<1>2. MaxDrawdown * Capital \in Int /\ MaxDrawdown * Capital >= 0
  <2>1. \A x, y \in Nat : x * y \in Int /\ x * y >= 0
    BY SMT
  <2> QED
    BY <2>1, Amounts
<1>3. (100 - MaxDrawdown) * Capital = 100 * Capital - MaxDrawdown * Capital
  BY Amounts, SMT
<1>4. 100 * (Capital + WorstTrade) > (100 - MaxDrawdown) * Capital
  BY <1>2, <1>3, Amounts, SMT
<1>5. Capital + 0 + WorstTrade * 0 >= Capital
  BY Amounts, SMT
<1>6. NewRisk.peak >= Capital
  BY <1>1, Amounts, SMT
<1> QED
  BY <1>1, <1>4, <1>5, <1>6

(* One pass's decision: what was entered above the limit is left before it *)
(* can lose more than the stop and one move, and nothing is entered below  *)
(* the limit (executor.py:115-272, main.py:299-381).                       *)
LEMMA DecideLoses ==
    ASSUME IInv, LossFits, MoneyFits, Decide PROVE LossFits' /\ MoneyFits'
<1> PICK s \in Signals : DecideExit(s) \/ DecideEntry(s) \/ DecideNothing(s)
  BY DEF Decide
<1>0. /\ pc = "decide" /\ order.kind = "none" /\ position.gain \in Int
      /\ position.gain > -(StopLoss + MaxMove) /\ risk \in Risks
      /\ mode \in {"paper", "live"}
  BY Zenon DEF Decide, IInv, OrderFits, PositionFits, HoldingFits, LossFits, MoneyFits
<1>1. /\ CheckAllowed(risk).risk \in Risks
      /\ CheckAllowed(risk).risk.equity = risk.equity
      /\ CheckAllowed(risk).risk.peak = risk.peak
      /\ CheckAllowed(risk).allowed => ~InDrawdown(risk)
  BY <1>0, AskedFits
<1>2. CASE DecideNothing(s)
  <2>1. /\ UNCHANGED <<position, session, order, unjournaled>> /\ pc' = "notice"
        /\ risk' = CheckAllowed(risk).risk
    BY <1>2 DEF DecideNothing, engine
  <2>2. MoneyFits' /\ (InDrawdown(risk)' <=> InDrawdown(risk))
    BY <1>1, <2>1, MoneyStays
  <2>3. position.gain > -StopLoss
    <3>1. CASE position = Flat
      BY <3>1, Amounts, SMT DEF Flat
    <3>2. CASE position # Flat
      BY <1>0, <1>2, <3>2, Amounts, SMT DEF DecideNothing, ShouldExit
    <3> QED
      BY <3>1, <3>2
  <2> QED
    BY <1>0, <2>1, <2>2, <2>3 DEF LossFits
<1>3. CASE DecideExit(s)
  <2>1. position # Flat /\ ~InDrawdown(risk)
    BY <1>3 DEF DecideExit, LossFits
  <2>2. CASE mode = "live"
    <3>1. /\ order' = [kind |-> "exit", side |-> position.side, gain |-> position.gain]
          /\ pc' = "order" /\ UNCHANGED <<position, session, unjournaled>>
          /\ risk' = CheckAllowed(risk).risk
      BY <1>3, <2>2 DEF DecideExit
    <3>2. MoneyFits' /\ (InDrawdown(risk)' <=> InDrawdown(risk))
      BY <1>1, <3>1, MoneyStays
    <3>3. order'.kind = "exit" /\ order'.gain = position.gain
      BY <3>1
    <3> QED
      BY <1>0, <2>1, <3>1, <3>2, <3>3 DEF LossFits
  <2>3. CASE mode = "paper"
    <3>1. order' = order /\ Exited(position.gain)
      BY <1>3, <2>3 DEF DecideExit
    <3>2. MoneyFits'
      BY <1>0, <2>1, <3>1, ExitedMoney
    <3>3. position' = Flat
      BY <3>1 DEF Exited
    <3> QED
      BY <1>0, <3>1, <3>2, <3>3, FlatIsSafeNext
  <2> QED
    BY <1>0, <2>2, <2>3
<1>4. CASE DecideEntry(s)
  <2>1. position = Flat /\ ~InDrawdown(risk)
    BY <1>1, <1>4 DEF DecideEntry
  <2>2. CASE mode = "live"
    <3>1. /\ order' = [kind |-> "entry", side |-> s.wants, gain |-> 0]
          /\ pc' = "order" /\ UNCHANGED <<position, session, unjournaled>>
          /\ risk' = CheckAllowed(risk).risk
      BY <1>4, <2>2 DEF DecideEntry
    <3>2. MoneyFits' /\ (InDrawdown(risk)' <=> InDrawdown(risk))
      BY <1>1, <3>1, MoneyStays
    <3>3. order'.kind = "entry"
      BY <3>1
    <3> QED
      BY <1>0, <2>1, <3>1, <3>2, <3>3 DEF LossFits
  <2>3. CASE mode = "paper"
    <3>1. order' = order /\ Entered(s.wants) /\ pc' = "notice"
      BY <1>4, <2>3 DEF DecideEntry
    <3> QED
      BY <1>0, <2>1, <3>1, EnteredIsSafe
  <2> QED
    BY <1>0, <2>2, <2>3
<1> QED
  BY <1>2, <1>3, <1>4

(* The answer of an order: an entry that was answered is a position, and   *)
(* an exit is over whatever was answered (executor.py:239-313).            *)
LEMMA OrderLoses ==
    ASSUME IInv, LossFits, MoneyFits, OrderAnswered PROVE LossFits' /\ MoneyFits'
<1> PICK answered \in BOOLEAN :
        IF order.kind = "entry"
          THEN /\ pc' = "notice"
               /\ IF answered THEN Entered(order.side)
                  ELSE UNCHANGED <<position, cooldown, session, risk, unjournaled>>
          ELSE Exited(order.gain)
  BY DEF OrderAnswered
<1>0. /\ pc = "order" /\ order'.kind = "none" /\ position.gain \in Int
      /\ order.kind \in {"entry", "exit"} /\ risk \in Risks
      /\ position.gain > -(StopLoss + MaxMove)
  BY NoOrderIsNone, Zenon
  DEF OrderAnswered, IInv, OrderFits, PositionFits, LossFits, MoneyFits
<1>1. CASE order.kind = "entry"
  <2>1. position = Flat /\ ~InDrawdown(risk) /\ pc' = "notice"
    BY <1>1 DEF LossFits
  <2>2. CASE answered
    BY <1>0, <1>1, <2>1, <2>2, EnteredIsSafe
  <2>3. CASE ~answered
    <3>1. UNCHANGED <<position, session, risk, unjournaled>>
      BY <1>1, <2>3
    <3> QED
      BY <1>0, <2>1, <3>1, FlatIsSafeNext, MoneyStays
  <2> QED
    BY <2>2, <2>3
<1>2. CASE order.kind = "exit"
  <2>1. /\ position # Flat /\ order.gain = position.gain /\ ~InDrawdown(risk)
        /\ Exited(order.gain)
    BY <1>2 DEF LossFits
  <2>2. MoneyFits'
    BY <1>0, <2>1, ExitedMoney
  <2>3. position' = Flat
    BY <2>1 DEF Exited
  <2> QED
    BY <1>0, <2>2, <2>3, FlatIsSafeNext
<1> QED
  BY <1>0, <1>1, <1>2

(* A new price moves what is held by one move (main.py:257-262).           *)
LEMMA TickerLoses ==
    ASSUME IInv, LossFits, MoneyFits, Ticker PROVE LossFits' /\ MoneyFits'
<1>0. /\ pc = "ticker" /\ order.kind = "none" /\ risk \in Risks
      /\ position.gain \in Int /\ position.gain > -StopLoss
      /\ position # Flat => ~InDrawdown(risk)
      /\ UNCHANGED <<order, session, risk, unjournaled>>
  BY Zenon DEF Ticker, IInv, OrderFits, PositionFits, LossFits, MoneyFits
<1>1. MoneyFits' /\ (InDrawdown(risk)' <=> InDrawdown(risk))
  BY <1>0, MoneyStays
<1>2. CASE UNCHANGED position
  BY <1>0, <1>1, <1>2, Amounts, SMT DEF LossFits
<1>3. CASE /\ pc' = "decide" /\ position # Flat
           /\ \E g \in -MaxGain..MaxGain :
                /\ g - position.gain \in -MaxMove..MaxMove
                /\ position' = [position EXCEPT !.gain = g, !.peak = Larger(@, g)]
  <2> PICK g \in -MaxGain..MaxGain :
                /\ g - position.gain \in -MaxMove..MaxMove
                /\ position' = [position EXCEPT !.gain = g, !.peak = Larger(@, g)]
    BY <1>3
  <2>1. g \in Int
    BY ApexNeoAssumption, SMT DEF ApexNeoAssumption
  <2>2. g > -(StopLoss + MaxMove)
    BY <1>0, <2>1, Amounts, SMT
  <2>3. position'.gain = g
    BY DEF IInv, PositionFits
  <2> QED
    BY <1>0, <1>1, <1>3, <2>2, <2>3 DEF LossFits
<1> QED
  BY <1>2, <1>3 DEF Ticker

(* The sleep moves no price (main.py:393-396).                             *)
LEMMA WakeLoses ==
    ASSUME IInv, LossFits, MoneyFits, Wake PROVE LossFits' /\ MoneyFits'
<1>0. /\ pc = "asleep" /\ order.kind = "none" /\ risk \in Risks
      /\ position.gain \in Int /\ position.gain > -StopLoss
      /\ position # Flat => ~InDrawdown(risk)
      /\ UNCHANGED <<order, session, unjournaled>>
  BY Zenon DEF Wake, IInv, OrderFits, PositionFits, LossFits, MoneyFits
<1>1. risk' \in Risks /\ risk'.equity = risk.equity /\ risk'.peak = risk.peak
  <2>1. CountDown(risk.left) \in Nat
    BY <1>0, SMT DEF Risks, CountDown
  <2>2. risk' = [risk EXCEPT !.left = CountDown(risk.left)]
    BY DEF Wake
  <2> QED
    BY <1>0, <2>1, <2>2 DEF Risks
<1>2. MoneyFits' /\ (InDrawdown(risk)' <=> InDrawdown(risk))
  BY <1>0, <1>1, MoneyStays
<1>3. position'.gain = position.gain /\ (position' # Flat => position # Flat)
  BY DEF Wake, IInv, PositionFits
<1> QED
  BY <1>0, <1>2, <1>3, Amounts, SMT DEF LossFits

(* The loop, the tasks beside it, a crash and a restart keep the bounds.   *)
LEMMA LossStarts == Init => LossFits /\ MoneyFits
<1> SUFFICES ASSUME Init PROVE LossFits /\ MoneyFits
  OBVIOUS
<1>1. LossFits
  BY FlatIsSafe, NoOrderIsNone DEF Init
<1>2. MoneyFits
  BY NewRiskFits DEF Init, MoneyFits
<1> QED
  BY <1>1, <1>2

LEMMA LossStays ==
    IInv /\ LossFits /\ MoneyFits /\ [Next]_vars => LossFits' /\ MoneyFits'
<1> SUFFICES ASSUME IInv, LossFits, MoneyFits, [Next]_vars PROVE LossFits' /\ MoneyFits'
  OBVIOUS
<1>0. risk \in Risks
  BY DEF MoneyFits
<1>1. CASE Dashboard \/ Status
  <2>1. /\ UNCHANGED <<position, order, session, unjournaled>>
        /\ (pc' = pc \/ (pc = "notice" /\ pc' = "asleep"))
        /\ (risk' = risk \/ risk' = CheckAllowed(risk).risk)
    BY <1>1 DEF Dashboard, Status, GetStatus, engine
  <2>2. MoneyFits' /\ (InDrawdown(risk)' <=> InDrawdown(risk))
    BY <1>0, <2>1, AskedFits, MoneyStays
  <2> QED
    BY <2>1, <2>2 DEF LossFits
<1>2. CASE RequestStop \/ UNCHANGED vars
  <2>1. UNCHANGED <<pc, position, order, session, unjournaled, risk>>
    BY <1>2 DEF RequestStop, vars, engine
  <2>2. MoneyFits' /\ (InDrawdown(risk)' <=> InDrawdown(risk))
    BY <1>0, <2>1, MoneyStays
  <2> QED
    BY <2>1, <2>2 DEF LossFits
<1>3. CASE Crash
  <2>1. /\ UNCHANGED <<position, session, unjournaled, risk>>
        /\ pc' = "down" /\ order' = NoOrder
    BY <1>3 DEF Crash, engine
  <2>2. MoneyFits' /\ (InDrawdown(risk)' <=> InDrawdown(risk))
    BY <1>0, <2>1, MoneyStays
  <2> QED
    BY <2>1, <2>2, NoOrderIsNone DEF LossFits
<1>4. CASE Restart
  <2>1. /\ position' = Flat /\ session' = 0 /\ unjournaled' = 0 /\ risk' = NewRisk
        /\ UNCHANGED order /\ pc = "down"
    BY <1>4 DEF Restart
  <2>2. order'.kind = "none"
    BY <2>1, Zenon DEF IInv, OrderFits
  <2>3. MoneyFits'
    BY <2>1, NewRiskFits DEF MoneyFits
  <2> QED
    BY <2>1, <2>2, <2>3, FlatIsSafeNext
<1> QED
  BY <1>1, <1>2, <1>3, <1>4, TickerLoses, DecideLoses, OrderLoses, WakeLoses DEF Next, Loop

(* The result of a session is above the drawdown limit of the best equity, *)
(* less one worst trade and one more for each exit the journal could not   *)
(* record (risk.py:58-106, main.py:299-364), whatever the prices and the   *)
(* answers, however often the limit is asked for, and wherever the process *)
(* ends.                                                                   *)
THEOREM LossesAreBounded == Spec => []DrawdownIsBounded
<1>1. MoneyFits => DrawdownIsBounded
  <2> SUFFICES ASSUME MoneyFits PROVE DrawdownIsBounded
    OBVIOUS
  <2> DEFINE unknown == WorstTrade * unjournaled
             limit == (100 - MaxDrawdown) * risk.peak
  <2>1. /\ unjournaled \in Nat /\ session \in Int /\ risk.equity \in Int /\ risk.peak \in Int
        /\ Capital + session + unknown >= risk.equity
        /\ 100 * (risk.equity + WorstTrade) > limit
    BY DEF MoneyFits, Risks
  <2>2. /\ unknown \in Int /\ limit \in Int
        /\ WorstTrade * (1 + unjournaled) = WorstTrade + unknown
    BY <2>1, Amounts, SMT
  <2> HIDE DEF unknown, limit
  <2>3. 100 * (Capital + session + (WorstTrade + unknown)) > limit
    BY <2>1, <2>2, Amounts, SMT
  <2> QED
    BY <2>2, <2>3 DEF DrawdownIsBounded, limit
<1> QED
  BY <1>1, LossStarts, LossStays, InvariantStarts, InvariantStays, PTL DEF Spec

-----------------------------------------------------------------------------
(* In which regime an entry is sent.                                       *)

(* A pass keeps a block no older than the low score, and lets go of a low  *)
(* score only when it has been low for longer than the time-out            *)
(* (regime.py:89-136).                                                     *)
LEMMA UpdateFits ==
    ASSUME GateFits, NEW low \in BOOLEAN, gate' = UpdateGate(gate, low)
    PROVE  /\ GateFits'
           /\ ~gate'.blocked => (gate'.low = -1 \/ gate'.low > BlockTimeout)
<1>0. BlockTimeout \in Nat
  BY ApexNeoAssumption DEF ApexNeoAssumption
<1>1. /\ gate.blocked \in BOOLEAN /\ gate.since \in Int /\ gate.low \in Int
      /\ 0 <= gate.since /\ gate.since <= BlockTimeout + 1
      /\ -1 <= gate.low /\ gate.low <= BlockTimeout + 1
      /\ gate.blocked => gate.low >= gate.since
  BY DEF GateFits
<1> DEFINE since == IF low /\ ~gate.blocked THEN 0 ELSE gate.since
           lowFor == LowFor(gate, low)
           blocked == low /\ since <= BlockTimeout
<1>2. gate' = [blocked |-> blocked, since |-> since, low |-> lowFor]
  BY DEF UpdateGate
<1>3. gate'.blocked = blocked /\ gate'.since = since /\ gate'.low = lowFor
  BY <1>2
<1>4. since \in Int /\ lowFor \in Int /\ blocked \in BOOLEAN
  BY <1>0, <1>1, SMT DEF LowFor, Larger
<1>5. gate' \in [blocked : BOOLEAN, since : Int, low : Int]
  BY <1>2, <1>4
<1>6. /\ 0 <= since /\ since <= BlockTimeout + 1
      /\ -1 <= lowFor /\ lowFor <= BlockTimeout + 1
      /\ blocked => lowFor >= since
      /\ ~blocked => (lowFor = -1 \/ lowFor > BlockTimeout)
  <2>1. CASE low /\ ~gate.blocked
    BY <1>0, <1>1, <2>1, SMT DEF LowFor, Larger
  <2>2. CASE low /\ gate.blocked
    BY <1>0, <1>1, <2>2, SMT DEF LowFor, Larger
  <2>3. CASE ~low
    BY <1>0, <1>1, <2>3, SMT DEF LowFor
  <2> QED
    BY <2>1, <2>2, <2>3
<1> HIDE DEF since, lowFor, blocked
<1> QED
  BY <1>3, <1>5, <1>6, Zenon DEF GateFits

(* Time goes on for the block and for the low score alike.                 *)
LEMMA WakeFits == ASSUME GateFits, Wake PROVE GateFits'
<1>0. BlockTimeout + 1 \in Nat
  BY ApexNeoAssumption, SMT DEF ApexNeoAssumption
<1>1. /\ gate.blocked \in BOOLEAN /\ gate.since \in Int /\ gate.low \in Int
      /\ 0 <= gate.since /\ gate.since <= BlockTimeout + 1
      /\ -1 <= gate.low /\ gate.low <= BlockTimeout + 1
      /\ gate.blocked => gate.low >= gate.since
  BY DEF GateFits
<1> DEFINE since == CountUpTo(gate.since, BlockTimeout + 1)
           low == IF gate.low < 0 THEN gate.low ELSE CountUpTo(gate.low, BlockTimeout + 1)
<1>2. gate' = [[gate EXCEPT !.since = since] EXCEPT !.low = low]
  BY DEF Wake, GateFits
<1>3. /\ since \in Int /\ 0 <= since /\ since <= BlockTimeout + 1
      /\ low \in Int /\ -1 <= low /\ low <= BlockTimeout + 1
      /\ gate.blocked => low >= since
  BY <1>0, <1>1, SMT DEF CountUpTo
<1> HIDE DEF since, low
<1>4. /\ gate'.blocked = gate.blocked /\ gate'.since = since /\ gate'.low = low
      /\ gate' \in [blocked : BOOLEAN, since : Int, low : Int]
  BY <1>2, <1>3 DEF GateFits
<1> QED
  BY <1>3, <1>4, Zenon DEF GateFits

LEMMA GateStarts == Init => GateFits
BY ApexNeoAssumption, SMT DEF Init, NewGate, GateFits, ApexNeoAssumption

LEMMA GateStays == GateFits /\ [Next]_vars => GateFits'
<1> SUFFICES ASSUME GateFits, [Next]_vars PROVE GateFits'
  OBVIOUS
<1>1. CASE Decide
  <2>1. PICK s \in Signals : gate' = UpdateGate(gate, s.low)
    BY <1>1 DEF Decide
  <2>2. s.low \in BOOLEAN
    BY DEF Signals
  <2> QED
    BY <2>1, <2>2, UpdateFits
<1>2. CASE Restart
  BY <1>2, ApexNeoAssumption, SMT DEF Restart, NewGate, GateFits, ApexNeoAssumption
<1>3. CASE UNCHANGED gate
  BY <1>3 DEF GateFits
<1>4. Ticker \/ OrderAnswered \/ Dashboard \/ Status \/ RequestStop \/ Crash
        \/ UNCHANGED vars => UNCHANGED gate
  BY DEF Ticker, OrderAnswered, Dashboard, Status, RequestStop, Crash, vars
<1> QED
  BY <1>1, <1>2, <1>3, <1>4, WakeFits DEF Next, Loop

(* Only a decision to enter sends an entry, and the gate it has just       *)
(* updated lets it (executor.py:115-172).                                  *)
LEMMA EntryIsDecided ==
    ASSUME IInv, [Next]_vars, order.kind = "none", order'.kind = "entry"
    PROVE  \E s \in Signals : gate' = UpdateGate(gate, s.low) /\ ~gate'.blocked
<1>1. order' # order /\ order' # NoOrder
  BY NoOrderIsNone
<1>2. Decide
  BY <1>1 DEF Next, Loop, Ticker, OrderAnswered, Dashboard, Wake, Status, RequestStop,
     Crash, Restart, vars
<1>3. PICK s \in Signals :
        /\ gate' = UpdateGate(gate, s.low)
        /\ DecideExit(s) \/ DecideEntry(s) \/ DecideNothing(s)
  BY <1>2 DEF Decide
<1>4. ~DecideNothing(s)
  BY <1>1 DEF DecideNothing
<1>5. ~DecideExit(s)
  <2> SUFFICES ASSUME DecideExit(s) PROVE FALSE
    OBVIOUS
  <2>1. mode = "live"
    BY <1>1 DEF DecideExit
  <2>2. order' = [kind |-> "exit", side |-> position.side, gain |-> position.gain]
    BY <2>1 DEF DecideExit
  <2> QED
    BY <2>2
<1> QED
  BY <1>3, <1>4, <1>5 DEF DecideEntry, ShouldEnter

(* An entry is sent in a low regime only when the score has been low for   *)
(* longer than the time-out of the block (regime.py:89-136).               *)
THEOREM EntriesFit == Spec => EntriesFitTheRegime
<1>1. IInv /\ GateFits /\ [Next]_vars =>
        [(order.kind = "none" /\ order'.kind = "entry")
            => (gate'.low = -1 \/ gate'.low > BlockTimeout)]_vars
  <2> SUFFICES ASSUME IInv, GateFits, [Next]_vars,
                      order.kind = "none", order'.kind = "entry"
               PROVE  gate'.low = -1 \/ gate'.low > BlockTimeout
    OBVIOUS
  <2>1. PICK s \in Signals : gate' = UpdateGate(gate, s.low) /\ ~gate'.blocked
    BY EntryIsDecided
  <2>2. s.low \in BOOLEAN
    BY DEF Signals
  <2> QED
    BY <2>1, <2>2, UpdateFits
<1> QED
  BY <1>1, InvariantStarts, InvariantStays, GateStarts, GateStays, PTL
     DEF Spec, EntriesFitTheRegime

=============================================================================
