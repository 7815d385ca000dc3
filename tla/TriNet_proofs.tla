---------------------------- MODULE TriNet_proofs ---------------------------
(***************************************************************************)
(* Type correctness of TriNet.tla, the books of every executor against the *)
(* account, and that every executor follows the rules of RobinHood.tla: for*)
(* any number of executors, crashes and balance requests that fail, and    *)
(* any results.  What the account can lose is proved for the two executors *)
(* that are deployed.                                                      *)
(*                                                                         *)
(* Then the passes of the scanner (Opportunity.tla), which decide what is  *)
(* sent to the executors: for any triangles, tickers, books, charts and    *)
(* answers.  PassFits says where what has been read and answered comes     *)
(* from, Numbers that what is compared can be, and EngineFits what the     *)
(* engine of spoofhunter knows of the walls it tracks.                     *)
(***************************************************************************)
EXTENDS TriNet, Opportunity, SequenceTheorems, FiniteSetTheorems, TLAPS

-----------------------------------------------------------------------------
(* The lemmas about the engine, from the proofs about RobinHood.tla: they  *)
(* do not depend on whose engine it is.                                    *)
Robin == INSTANCE RobinHood_proofs WITH
    engine <- engine[Scanner], stake <- 0, misled <- 0, Balances <- {}, MaxGain <- 0, MaxEquity <- 0

(* The assumptions those lemmas rest on hold (config.py).                  *)
LEMMA RobinAssumed == Robin!RiskAssumption /\ Robin!RobinHoodAssumption
  BY RiskAssumption
  DEF Robin!RiskAssumption, RiskAssumption, Robin!RobinHoodAssumption

(* The engine's operators are the same in both modules.                    *)
LEMMA SameEngine ==
    ASSUME NEW r, NEW x
    PROVE  /\ Robin!Engine = Engine
           /\ Robin!AfterAsking(r) = AfterAsking(r)
           /\ Robin!AfterTick(r) = AfterTick(r)
           /\ Robin!AfterTask(r) = AfterTask(r)
           /\ Robin!AfterPause(r) = AfterPause(r)
           /\ Robin!AfterTrade(r, x) = AfterTrade(r, x)
           /\ Robin!FreshEngine(x) = FreshEngine(x)
           /\ Robin!Allowed(r) <=> Allowed(r)
           /\ Robin!LimitReached(r) <=> LimitReached(r)
           /\ Robin!OrderSize(r) = OrderSize(r)
<1>1. \A s : Robin!LimitReached(s) = LimitReached(s)
  BY DEF Robin!LimitReached, LimitReached, Robin!DrawdownAtLeast, DrawdownAtLeast
<1>2. \A s : Robin!BelowShutdown(s) = BelowShutdown(s) /\ Robin!InPause(s) = InPause(s)
  BY DEF Robin!BelowShutdown, BelowShutdown, Robin!InPause, InPause
<1>3. \A s : Robin!AfterPause(s) = AfterPause(s)
  BY DEF Robin!AfterPause, AfterPause
<1>4. Robin!AfterAsking(r) = AfterAsking(r)
  BY <1>1, <1>2 DEF Robin!AfterAsking, AfterAsking
<1>5. Robin!AfterTick(r) = AfterTick(r) /\ Robin!AfterTask(r) = AfterTask(r)
  BY <1>3 DEF Robin!AfterTick, AfterTick, Robin!AfterTask, AfterTask
<1>6. Robin!AfterTrade(r, x) = AfterTrade(r, x)
  BY <1>1, <1>3 DEF Robin!AfterTrade, AfterTrade
<1>7. Robin!FreshEngine(x) = FreshEngine(x) /\ Robin!Engine = Engine
  BY DEF Robin!FreshEngine, FreshEngine, Robin!Engine, Engine
<1>8. Robin!Allowed(r) <=> Allowed(r)
  BY <1>1, <1>2 DEF Robin!Allowed, Allowed
<1>9. Robin!OrderSize(r) = OrderSize(r)
  BY DEF Robin!OrderSize, OrderSize, Robin!BaseSize, BaseSize
<1> QED BY <1>1, <1>3, <1>4, <1>5, <1>6, <1>7, <1>8, <1>9

(* Asking, pausing, the pause task and the clock leave the money alone.    *)
LEMMA MoneyUntouched ==
    ASSUME NEW r \in Engine,
           NEW s \in {AfterAsking(r), AfterPause(r), AfterTask(r), AfterTick(r)}
    PROVE  s \in Engine /\ s.equity = r.equity /\ s.peak = r.peak
  BY RobinAssumed, Robin!MoneyUntouched, SameEngine

(* The bounds, in terms of the product MaxDrawdownPct * peak               *)
(* (drawdown_pct).                                                         *)
LEMMA LimitAsBound ==
    ASSUME NEW r \in Engine, 0 < r.peak
    PROVE  /\ MaxDrawdownPct * r.peak \in Nat
           /\ MaxDrawdownPct * r.peak > 0
           /\ ~LimitReached(r) => (r.peak - r.equity) * 100 < MaxDrawdownPct * r.peak
  BY RobinAssumed, Robin!LimitAsBound, SameEngine

(* initialize yields an engine whose peak is its equity.                   *)
LEMMA FreshEngineTyped ==
    ASSUME NEW balance \in Nat, NEW r, r = FreshEngine(balance)
    PROVE  r \in Engine /\ 0 < r.equity /\ r.equity = r.peak
  BY RobinAssumed, Robin!FreshEngineTyped, SameEngine

(* record_trade adds to the equity and keeps the peak above it.            *)
LEMMA TradeTyped ==
    ASSUME NEW r \in Engine, r.equity <= r.peak, NEW pnl \in Int,
           NEW s, s = AfterTrade(r, pnl)
    PROVE  s \in Engine /\ s.equity = r.equity + pnl /\ s.equity <= s.peak
  BY RobinAssumed, Robin!TradeTyped, SameEngine

(* An allowed order has an integer size of at most MaxPorCiclo             *)
(* (max_order_size).                                                       *)
LEMMA AllowedOrder ==
    ASSUME NEW r \in Engine, r.equity <= r.peak, Allowed(r)
    PROVE  OrderSize(r) \in Int /\ OrderSize(r) <= MaxPorCiclo
  BY RobinAssumed, Robin!AllowedOrder, SameEngine

-----------------------------------------------------------------------------
(* The network.                                                            *)

EnginesSound ==
    /\ engine \in [Procs -> Engine]
    /\ \A p \in Procs : engine[p].equity <= engine[p].peak

(* Every message is an alert or an opportunity that was offered.           *)
MessagesSound ==
    /\ best \in -1..MaxPorCiclo
    /\ offered \in Seq(1..MaxPorCiclo)
    /\ Len(offered) <= MaxOpps
    /\ inbox \in [Executors -> Seq(0..Len(offered))]

ExecutorsSound ==
    exec \in [Executors -> [at : Places, capital : 0..MaxPorCiclo,
                            before : Nat, pnl : Nat]]

RestSound ==
    /\ free \in Nat /\ earn \in Nat
    /\ begun \in 0..MaxTriangles /\ faults \in 0..MaxFaults

HistorySound ==
    /\ own \in [Executors -> Int]
    /\ blurred \in [Executors -> BOOLEAN]
    /\ apart \in [Executors -> Int]
    /\ misled \in [Executors -> Nat]
    /\ clear \in BOOLEAN

(* A triangle under way was begun below the limit, and only its own record *)
(* can reach it.                                                           *)
Trading(e) == exec[e].at \notin {"idle", "earn"}

BelowLimitWhileTrading ==
    \A e \in Executors : Trading(e) => ~LimitReached(engine[e])

IInv ==
    /\ EnginesSound
    /\ MessagesSound
    /\ ExecutorsSound
    /\ RestSound
    /\ HistorySound
    /\ BelowLimitWhileTrading

-----------------------------------------------------------------------------
(* The scanner and the executors are different processes.                  *)
LEMMA ProcsAreDifferent ==
    /\ Scanner \in Procs
    /\ Scanner \notin Executors
    /\ \A e \in Executors : e \in Procs
  BY TriNetAssumption DEF TriNetAssumption, Procs

(* A sequence over a set is one over every larger set.                     *)
LEMMA SeqOverLarger ==
    ASSUME NEW S, NEW T, S \subseteq T, NEW s \in Seq(S)
    PROVE  s \in Seq(T)
  BY ElementOfSeq, SeqDef

(* publish delivers known messages to known boxes.                         *)
LEMMA PublishedTyped ==
    ASSUME NEW n \in Nat, inbox \in [Executors -> Seq(0..n)], NEW m \in 0..n
    PROVE  Published(m) \in [Executors -> Seq(0..n)]
<1> SUFFICES ASSUME NEW e \in Executors
             PROVE  (IF Len(inbox[e]) < MaxInbox THEN Append(inbox[e], m) ELSE inbox[e])
                        \in Seq(0..n)
  BY DEF Published
<1>1. inbox[e] \in Seq(0..n)
  OBVIOUS
<1>2. Append(inbox[e], m) \in Seq(0..n)
  BY <1>1, AppendProperties
<1> QED BY <1>1, <1>2

(* Reading a message leaves known messages, and the message was one.       *)
LEMMA ReadTyped ==
    ASSUME NEW n \in Nat, inbox \in [Executors -> Seq(0..n)],
           NEW e \in Executors, inbox[e] # <<>>
    PROVE  /\ Head(inbox[e]) \in 0..n
           /\ [inbox EXCEPT ![e] = Tail(@)] \in [Executors -> Seq(0..n)]
<1>1. inbox[e] \in Seq(0..n)
  OBVIOUS
<1>2. Head(inbox[e]) \in 0..n /\ Tail(inbox[e]) \in Seq(0..n)
  BY <1>1, HeadTailProperties
<1> QED BY <1>2

(* The invariant contains the types.                                       *)
LEMMA InvariantGivesTypes == IInv => TypeOK
<1> SUFFICES ASSUME IInv PROVE TypeOK
  OBVIOUS
<1>1. Len(offered) \in Nat /\ Len(offered) <= MaxOpps
  BY LenProperties DEF IInv, MessagesSound
<1>2. 0..Len(offered) \subseteq {PauseAlert} \cup Opps
  BY <1>1, TriNetAssumption DEF TriNetAssumption, PauseAlert, Opps
<1>3. inbox \in [Executors -> Seq({PauseAlert} \cup Opps)]
  <2>1. \A e \in Executors : inbox[e] \in Seq({PauseAlert} \cup Opps)
    BY <1>2, SeqOverLarger DEF IInv, MessagesSound
  <2> QED BY <2>1 DEF IInv, MessagesSound
<1> QED
  BY <1>3 DEF IInv, EnginesSound, MessagesSound, ExecutorsSound, RestSound, HistorySound,
         TypeOK

(* The invariant holds in the initial states.                              *)
LEMMA InvariantInitially == Init => IInv
<1> SUFFICES ASSUME Init PROVE IInv
  OBVIOUS
<1> USE TriNetAssumption DEF TriNetAssumption
<1>1. EnginesSound
  BY FreshEngineTyped DEF Init, EnginesSound, Engine
<1>2. MessagesSound
  <2>1. <<>> \in Seq(1..MaxPorCiclo) /\ <<>> \in Seq(0..0) /\ Len(<<>>) = 0
    BY EmptySeq
  <2> QED BY <2>1, RiskAssumption DEF RiskAssumption, Init, MessagesSound
<1>3. ExecutorsSound
  BY RiskAssumption DEF RiskAssumption, Init, ExecutorsSound, Idle, Places
<1>4. RestSound /\ HistorySound
  BY DEF Init, RestSound, HistorySound
<1>5. BelowLimitWhileTrading
  BY DEF Init, BelowLimitWhileTrading, Trading, Idle
<1> QED BY <1>1, <1>2, <1>3, <1>4, <1>5 DEF IInv

-----------------------------------------------------------------------------
(* Whether the limit is reached depends on equity and peak alone.          *)
LEMMA SameMoneySameLimit ==
    ASSUME NEW r, NEW s, r.equity = s.equity, r.peak = s.peak
    PROVE  LimitReached(r) <=> LimitReached(s)
  BY DEF LimitReached, DrawdownAtLeast

(* One process changes its engine to one that is sound.                    *)
LEMMA OneEngineChanges ==
    ASSUME EnginesSound, NEW p \in Procs, NEW r \in Engine, r.equity <= r.peak,
           engine' = [engine EXCEPT ![p] = r]
    PROVE  /\ EnginesSound'
           /\ engine'[p] = r
           /\ \A q \in Procs : q # p => engine'[q] = engine[q]
<1>1. engine' \in [Procs -> Engine]
  BY DEF EnginesSound
<1>2. \A q \in Procs : engine'[q] = IF q = p THEN r ELSE engine[q]
  BY DEF EnginesSound
<1>3. \A q \in Procs : engine'[q].equity <= engine'[q].peak
  BY <1>2 DEF EnginesSound
<1> QED BY <1>1, <1>2, <1>3 DEF EnginesSound

(* One process asks, pauses or runs its pause task: no limit is crossed.   *)
LEMMA EngineQuietStep ==
    ASSUME EnginesSound, NEW p \in Procs,
           NEW r \in {AfterAsking(engine[p]), AfterPause(engine[p]), AfterTask(engine[p]),
                      AfterPause(AfterAsking(engine[p]))},
           engine' = [engine EXCEPT ![p] = r]
    PROVE  /\ EnginesSound'
           /\ \A q \in Procs : LimitReached(engine'[q]) <=> LimitReached(engine[q])
<1>1. engine[p] \in Engine /\ engine[p].equity <= engine[p].peak
  BY DEF EnginesSound
<1>2. r \in Engine /\ r.equity = engine[p].equity /\ r.peak = engine[p].peak
  <2>1. CASE r = AfterPause(AfterAsking(engine[p]))
    <3> DEFINE a == AfterAsking(engine[p])
    <3>1. a \in Engine /\ a.equity = engine[p].equity /\ a.peak = engine[p].peak
      BY <1>1, MoneyUntouched
    <3> HIDE DEF a
    <3>2. r = AfterPause(a)
      BY <2>1 DEF a
    <3> QED BY <3>1, <3>2, MoneyUntouched
  <2>2. CASE r # AfterPause(AfterAsking(engine[p]))
    BY <1>1, <2>2, MoneyUntouched
  <2> QED BY <2>1, <2>2
<1>3. /\ EnginesSound'
      /\ engine'[p] = r
      /\ \A q \in Procs : q # p => engine'[q] = engine[q]
  BY <1>1, <1>2, OneEngineChanges
<1>4. LimitReached(r) <=> LimitReached(engine[p])
  BY <1>2, SameMoneySameLimit
<1> QED BY <1>3, <1>4

(* Executors that neither begin nor reach the limit stay below it.         *)
LEMMA StillBelowLimit ==
    ASSUME BelowLimitWhileTrading,
           \A e \in Executors : LimitReached(engine'[e]) => LimitReached(engine[e]),
           \A e \in Executors : Trading(e)' => Trading(e)
    PROVE  BelowLimitWhileTrading'
  BY DEF BelowLimitWhileTrading

(* One executor changes its local state.                                   *)
LEMMA OneExecutorChanges ==
    ASSUME ExecutorsSound, NEW e \in Executors,
           NEW x \in [at : Places, capital : 0..MaxPorCiclo, before : Nat, pnl : Nat],
           exec' = [exec EXCEPT ![e] = x]
    PROVE  /\ ExecutorsSound'
           /\ exec'[e] = x
           /\ \A f \in Executors : f # e => exec'[f] = exec[f]
  BY DEF ExecutorsSound

(* One executor moves on to another place of its triangle.                 *)
LEMMA ExecutorGoesTo ==
    ASSUME ExecutorsSound, NEW e \in Executors, NEW place \in Places, GoTo(e, place)
    PROVE  /\ ExecutorsSound'
           /\ exec'[e].at = place
           /\ \A f \in Executors : f # e => exec'[f] = exec[f]
  BY DEF ExecutorsSound, GoTo

(* A message is read, and at most the own engine asked.                    *)
LEMMA MessageRead ==
    ASSUME MessagesSound, NEW e \in Executors, NextMessage(e),
           inbox' = [inbox EXCEPT ![e] = Tail(@)], UNCHANGED <<best, offered>>
    PROVE  MessagesSound' /\ Head(inbox[e]) \in 0..Len(offered)
<1>1. Len(offered) \in Nat
  BY LenProperties DEF MessagesSound
<1> QED BY <1>1, ReadTyped DEF MessagesSound, NextMessage

(* A known message is published.                                           *)
LEMMA MessagePublished ==
    ASSUME MessagesSound, NEW m \in 0..Len(offered), inbox' \in {inbox, Published(m)},
           UNCHANGED <<best, offered>>
    PROVE  MessagesSound'
<1>1. Len(offered) \in Nat
  BY LenProperties DEF MessagesSound
<1> QED BY <1>1, PublishedTyped DEF MessagesSound

(* The alert of a pause is one of the messages.                            *)
LEMMA AlertIsKnown ==
    ASSUME MessagesSound PROVE PauseAlert \in 0..Len(offered)
  BY LenProperties DEF MessagesSound, PauseAlert

(* The balance that is read is a number, and a fault is counted.           *)
LEMMA ReadSound ==
    ASSUME RestSound, NEW b \in {free, 0}, Reads(b)
    PROVE  b \in Nat /\ faults' \in 0..MaxFaults
  BY TriNetAssumption DEF TriNetAssumption, RestSound, Reads

(* A step that leaves the account, the bounds and the history alone.       *)
LEMMA NothingCounted ==
    ASSUME RestSound, HistorySound, UNCHANGED <<account, counts, history>>
    PROVE  RestSound' /\ HistorySound'
  BY DEF RestSound, HistorySound, account, counts, history

(* What a record makes of the history.                                     *)
LEMMA ComparedSound ==
    ASSUME HistorySound, NEW e \in Executors, NEW pnl \in Int, NEW another,
           Compared(e, pnl, another)
    PROVE  HistorySound'
<1>1. apart' \in [Executors -> Int] /\ own' \in [Executors -> Int]
  BY DEF HistorySound, Compared
<1>2. misled' \in [Executors -> Nat]
  <2>1. Greater(misled[e], -pnl) \in Nat
    BY DEF HistorySound, Greater
  <2> QED BY <2>1 DEF HistorySound, Compared
<1>3. clear' \in BOOLEAN /\ blurred' \in [Executors -> BOOLEAN]
  BY DEF HistorySound, Compared
<1> QED BY <1>1, <1>2, <1>3 DEF HistorySound

(* A triangle moves money of the account.                                  *)
LEMMA MovesSound ==
    ASSUME HistorySound, NEW e \in Executors, NEW amount \in Int, Moves(e, amount)
    PROVE  HistorySound'
  BY DEF HistorySound, Moves, BlurredBy

-----------------------------------------------------------------------------
(* The steps of the scanner.                                               *)
LEMMA ScannerStep ==
    ASSUME IInv, StartCycle \/ FindBest \/ WviPause \/ EndCycle
    PROVE  IInv'
<1> USE DEF IInv
<1>0. Scanner \in Procs /\ \A e \in Executors : e \in Procs
  BY ProcsAreDifferent
<1>1. CASE StartCycle
  <2>1. /\ EnginesSound'
        /\ \A q \in Procs : LimitReached(engine'[q]) <=> LimitReached(engine[q])
    <3>1. engine' = [engine EXCEPT ![Scanner] = AfterAsking(engine[Scanner])]
      BY <1>1 DEF StartCycle
    <3> QED BY <1>0, <3>1, EngineQuietStep
  <2>2. MessagesSound'
    BY <1>1, RiskAssumption DEF RiskAssumption, StartCycle, MessagesSound
  <2>3. ExecutorsSound' /\ RestSound' /\ HistorySound' /\ (\A e \in Executors : Trading(e)' => Trading(e))
    BY <1>1, NothingCounted DEF StartCycle, ExecutorsSound, Trading
  <2> QED BY <1>0, <2>1, <2>2, <2>3, StillBelowLimit
<1>2. CASE FindBest
  <2>1. /\ EnginesSound'
        /\ \A q \in Procs : LimitReached(engine'[q]) <=> LimitReached(engine[q])
    <3>1. engine' = [engine EXCEPT ![Scanner] = AfterAsking(engine[Scanner])]
      BY <1>2 DEF FindBest
    <3> QED BY <1>0, <3>1, EngineQuietStep
  <2>2. MessagesSound'
    <3>1. OrderSize(engine[Scanner]) \in Int /\ OrderSize(engine[Scanner]) <= MaxPorCiclo
      BY <1>0, <1>2, AllowedOrder DEF FindBest, EnginesSound
    <3>2. best' \in -1..MaxPorCiclo
      BY <1>2, <3>1, RiskAssumption DEF RiskAssumption, FindBest
    <3>3. offered' = offered /\ inbox' = inbox
      BY <1>2 DEF FindBest
    <3> QED BY <3>2, <3>3 DEF MessagesSound
  <2>3. ExecutorsSound' /\ RestSound' /\ HistorySound' /\ (\A e \in Executors : Trading(e)' => Trading(e))
    BY <1>2, NothingCounted DEF FindBest, ExecutorsSound, Trading
  <2> QED BY <1>0, <2>1, <2>2, <2>3, StillBelowLimit
<1>3. CASE WviPause
  <2>1. /\ EnginesSound'
        /\ \A q \in Procs : LimitReached(engine'[q]) <=> LimitReached(engine[q])
    <3>1. engine' = [engine EXCEPT ![Scanner] = AfterPause(AfterAsking(engine[Scanner]))]
      BY <1>3 DEF WviPause
    <3> QED BY <1>0, <3>1, EngineQuietStep
  <2>2. MessagesSound'
    BY <1>3, AlertIsKnown, MessagePublished DEF WviPause
  <2>3. ExecutorsSound' /\ RestSound' /\ HistorySound' /\ (\A e \in Executors : Trading(e)' => Trading(e))
    BY <1>3, NothingCounted DEF WviPause, ExecutorsSound, Trading
  <2> QED BY <1>0, <2>1, <2>2, <2>3, StillBelowLimit
<1>4. CASE EndCycle
  <2>1. UNCHANGED <<engine, exec, account, counts, history>>
    BY <1>4 DEF EndCycle
  <2>2. MessagesSound'
    <3>1. best' \in -1..MaxPorCiclo
      BY <1>4, RiskAssumption DEF RiskAssumption, EndCycle
    <3>2. CASE best = 0
      BY <1>4, <3>1, <3>2 DEF EndCycle, MessagesSound
    <3>3. CASE best # 0
      <4>1. best \in 1..MaxPorCiclo /\ Len(offered) < MaxOpps
        BY <1>4, <3>3 DEF EndCycle, MessagesSound
      <4>2. offered' = Append(offered, best) /\ inbox' = Published(Len(offered) + 1)
        BY <1>4, <3>3 DEF EndCycle
      <4>3. /\ offered' \in Seq(1..MaxPorCiclo)
            /\ Len(offered') = Len(offered) + 1
            /\ Len(offered) \in Nat
        BY <4>1, <4>2, AppendProperties, LenProperties DEF MessagesSound
      <4>4. inbox \in [Executors -> Seq(0..(Len(offered) + 1))]
        <5>1. 0..Len(offered) \subseteq 0..(Len(offered) + 1)
          BY <4>3
        <5>2. \A e \in Executors : inbox[e] \in Seq(0..(Len(offered) + 1))
          BY <5>1, SeqOverLarger DEF MessagesSound
        <5> QED BY <5>2 DEF MessagesSound
      <4>5. inbox' \in [Executors -> Seq(0..(Len(offered) + 1))]
        BY <4>2, <4>3, <4>4, PublishedTyped
      <4>6. Len(offered') <= MaxOpps
        BY <4>1, <4>3, TriNetAssumption DEF TriNetAssumption
      <4> QED BY <3>1, <4>3, <4>5, <4>6 DEF MessagesSound
    <3> QED BY <3>2, <3>3
  <2>3. EnginesSound' /\ ExecutorsSound' /\ BelowLimitWhileTrading'
    BY <2>1 DEF EnginesSound, ExecutorsSound, BelowLimitWhileTrading, Trading
  <2>4. RestSound' /\ HistorySound'
    BY <2>1, NothingCounted
  <2> QED BY <2>2, <2>3, <2>4
<1> QED BY <1>1, <1>2, <1>3, <1>4

(* An executor handles a message.                                          *)
LEMMA MessageStep ==
    ASSUME IInv, NEW e \in Executors,
           HandleAlert(e) \/ Filter(e) \/ Refuse(e) \/ Accept(e)
    PROVE  IInv'
<1> USE DEF IInv
<1>0. e \in Procs /\ \A f \in Executors : f \in Procs
  BY ProcsAreDifferent
<1>1. CASE HandleAlert(e)
  <2>1. MessagesSound'
    BY <1>1, MessageRead DEF HandleAlert
  <2>2. RestSound' /\ HistorySound'
    BY <1>1, NothingCounted DEF HandleAlert
  <2>3. EnginesSound' /\ ExecutorsSound' /\ BelowLimitWhileTrading'
    BY <1>1 DEF HandleAlert, EnginesSound, ExecutorsSound, BelowLimitWhileTrading, Trading
  <2> QED BY <2>1, <2>2, <2>3
<1>2. CASE Filter(e)
  <2>1. MessagesSound'
    BY <1>2, MessageRead DEF Filter
  <2>2. RestSound' /\ HistorySound'
    BY <1>2, NothingCounted DEF Filter
  <2>3. EnginesSound' /\ ExecutorsSound' /\ BelowLimitWhileTrading'
    BY <1>2 DEF Filter, EnginesSound, ExecutorsSound, BelowLimitWhileTrading, Trading
  <2> QED BY <2>1, <2>2, <2>3
<1>3. CASE Refuse(e)
  <2>1. MessagesSound'
    BY <1>3, MessageRead DEF Refuse
  <2>2. /\ EnginesSound'
        /\ \A q \in Procs : LimitReached(engine'[q]) <=> LimitReached(engine[q])
    <3>1. engine' = [engine EXCEPT ![e] = AfterAsking(engine[e])]
      BY <1>3 DEF Refuse
    <3> QED BY <1>0, <3>1, EngineQuietStep
  <2>3. RestSound' /\ HistorySound' /\ ExecutorsSound'
        /\ (\A f \in Executors : Trading(f)' => Trading(f))
    BY <1>3, NothingCounted DEF Refuse, ExecutorsSound, Trading
  <2> QED BY <1>0, <2>1, <2>2, <2>3, StillBelowLimit
<1>4. CASE Accept(e)
  <2> DEFINE o == Head(inbox[e])
             size == Smaller(offered[o], OrderSize(engine[e]))
  <2>1. NextMessage(e) /\ o # PauseAlert /\ Allowed(engine[e]) /\ size >= MinOrder
    BY <1>4 DEF Accept
  <2>2. Begin(e, size)
    BY <1>4 DEF Accept
  <2>3. MessagesSound' /\ o \in 0..Len(offered)
    BY <2>1, <2>2, MessageRead DEF Begin
  <2>4. o \in Opps /\ o \in 1..Len(offered)
    BY <2>1, <2>3, TriNetAssumption, LenProperties
    DEF TriNetAssumption, PauseAlert, Opps, MessagesSound
  <2>5. size \in 0..MaxPorCiclo
    <3>1. offered[o] \in 1..MaxPorCiclo
      BY <2>4, ElementOfSeq DEF MessagesSound
    <3>2. OrderSize(engine[e]) \in Int
      BY <1>0, <2>1, AllowedOrder DEF EnginesSound
    <3> HIDE DEF o
    <3> QED
      BY <2>1, <3>1, <3>2, RiskAssumption DEF RiskAssumption, Smaller
  <2>6. /\ EnginesSound'
        /\ \A q \in Procs : LimitReached(engine'[q]) <=> LimitReached(engine[q])
    <3>1. engine' = [engine EXCEPT ![e] = AfterAsking(engine[e])]
      BY <2>2 DEF Begin
    <3> QED BY <1>0, <3>1, EngineQuietStep
  <2> HIDE DEF size, o
  <2>7. /\ ExecutorsSound'
        /\ \A f \in Executors : f # e => exec'[f] = exec[f]
    <3> DEFINE x == [Idle EXCEPT !.at = "before", !.capital = size]
    <3>1. x \in [at : Places, capital : 0..MaxPorCiclo, before : Nat, pnl : Nat]
      BY <2>5 DEF Idle, Places
    <3>2. exec' = [exec EXCEPT ![e] = x]
      BY <2>2 DEF Begin
    <3> HIDE DEF x
    <3> QED BY <3>1, <3>2, OneExecutorChanges
  <2>8. RestSound' /\ HistorySound'
    <3>1. UNCHANGED <<free, earn, faults, own, blurred, apart, misled, clear>>
      BY <2>2 DEF Begin, account, history
    <3>2. begun' \in 0..MaxTriangles
      BY <2>2, TriNetAssumption DEF TriNetAssumption, Begin, RestSound
    <3> QED BY <3>1, <3>2 DEF RestSound, HistorySound
  <2>9. BelowLimitWhileTrading'
    <3>1. ~LimitReached(engine'[e])
      BY <1>0, <2>1, <2>6 DEF Allowed
    <3>2. \A f \in Executors : f # e => (Trading(f)' <=> Trading(f))
      BY <2>7 DEF Trading
    <3> QED BY <1>0, <2>6, <3>1, <3>2 DEF BelowLimitWhileTrading
  <2> QED BY <2>3, <2>6, <2>7, <2>8, <2>9
<1> QED BY <1>1, <1>2, <1>3, <1>4

(* An executor takes the next step of its triangle, up to the last leg.    *)
LEMMA LegStep ==
    ASSUME IInv, NEW e \in Executors,
           ReadBefore(e) \/ Leg1(e) \/ Leg2(e) \/ Leg3(e)
    PROVE  IInv'
<1> USE DEF IInv
<1>1. UNCHANGED <<engine, best, offered, inbox>>
  BY DEF ReadBefore, Leg1, Leg2, Leg3
<1>2. EnginesSound' /\ MessagesSound'
  BY <1>1 DEF EnginesSound, MessagesSound
<1>3. Trading(e)
  BY DEF ReadBefore, Leg1, Leg2, Leg3, At, Trading
<1>4. exec[e].capital \in Nat
  BY RiskAssumption DEF RiskAssumption, ExecutorsSound
<1>5. ExecutorsSound' /\ (\A f \in Executors : f # e => exec'[f] = exec[f])
  <2>1. CASE ReadBefore(e)
    <3>1. PICK b \in {free, 0} :
              Reads(b) /\ exec' = [exec EXCEPT ![e].before = b, ![e].at = "leg1"]
      BY <2>1 DEF ReadBefore
    <3>2. b \in Nat
      BY <3>1, ReadSound
    <3> QED BY <3>1, <3>2 DEF ExecutorsSound, Places
  <2>2. CASE Leg1(e) \/ Leg2(e) \/ Leg3(e)
    <3>1. PICK place \in Places : GoTo(e, place)
      BY <2>2 DEF Leg1, Leg2, Leg3, Places
    <3> QED BY <3>1, ExecutorGoesTo
  <2> QED BY <2>1, <2>2
<1>6. RestSound' /\ HistorySound'
  <2>1. CASE ReadBefore(e)
    <3>1. PICK b \in {free, 0} : Reads(b) /\ blurred' = [blurred EXCEPT ![e] = b # free]
      BY <2>1 DEF ReadBefore
    <3>2. faults' \in 0..MaxFaults
      BY <3>1, ReadSound
    <3>3. UNCHANGED <<free, earn, begun, own, apart, misled, clear>>
      BY <2>1 DEF ReadBefore, account
    <3> QED BY <3>1, <3>2, <3>3 DEF RestSound, HistorySound
  <2>2. CASE Leg2(e)
    BY <2>2, NothingCounted DEF Leg2
  <2>3. CASE Leg1(e)
    <3>1. CASE UNCHANGED <<account, history>>
      BY <2>3, <3>1, NothingCounted DEF Leg1
    <3>2. CASE exec[e].capital <= free /\ Moves(e, -exec[e].capital)
      <4>1. HistorySound'
        BY <1>4, <3>2, MovesSound
      <4>2. free' \in Nat
        BY <1>4, <3>2 DEF Moves, RestSound
      <4>3. UNCHANGED <<earn, begun, faults>>
        BY <2>3, <3>2 DEF Leg1, Moves, counts
      <4> QED BY <4>1, <4>2, <4>3 DEF RestSound
    <3> QED BY <2>3, <3>1, <3>2 DEF Leg1
  <2>4. CASE Leg3(e)
    <3>1. CASE UNCHANGED <<account, history>>
      BY <2>4, <3>1, NothingCounted DEF Leg3
    <3>2. ASSUME NEW r \in Results, r >= -exec[e].capital, Moves(e, exec[e].capital + r)
          PROVE  RestSound' /\ HistorySound'
      <4>1. r \in Int
        BY TriNetAssumption DEF TriNetAssumption
      <4>2. HistorySound'
        BY <1>4, <3>2, <4>1, MovesSound
      <4>3. free' \in Nat
        <5>1. free \in Nat /\ free' = free + (exec[e].capital + r)
          BY <3>2 DEF Moves, RestSound
        <5> HIDE DEF IInv
        <5> QED BY <1>4, <3>2, <4>1, <5>1
      <4>4. UNCHANGED <<earn, begun, faults>>
        BY <2>4, <3>2 DEF Leg3, Moves, counts
      <4> QED BY <4>2, <4>3, <4>4 DEF RestSound
    <3> QED BY <2>4, <3>1, <3>2 DEF Leg3
  <2> QED BY <2>1, <2>2, <2>3, <2>4
<1>7. BelowLimitWhileTrading'
  BY <1>1, <1>3, <1>5 DEF BelowLimitWhileTrading, Trading
<1> QED BY <1>2, <1>5, <1>6, <1>7

(* An executor records its triangle or hands its profit to Auto-Earn.      *)
LEMMA EndStep ==
    ASSUME IInv, NEW e \in Executors, Record(e) \/ AutoEarn(e)
    PROVE  IInv'
<1> USE DEF IInv
<1>0. e \in Procs /\ Scanner \in Procs /\ \A f \in Executors : f \in Procs
  BY ProcsAreDifferent
<1>1. CASE Record(e)
  <2>1. PICK b \in {free, 0} :
            /\ Reads(b) /\ Finish(e, b - exec[e].before)
            /\ Compared(e, b - exec[e].before, blurred[e] \/ b # free)
    BY <1>1 DEF Record
  <2> DEFINE pnl == b - exec[e].before
             r == AfterTrade(engine[e], pnl)
             x == AfterRecord(pnl)
  <2>2. pnl \in Int
    BY <2>1, ReadSound DEF ExecutorsSound
  <2>3. engine' = [engine EXCEPT ![e] = r] /\ exec' = [exec EXCEPT ![e] = x]
    BY <2>1 DEF Finish
  <2>4. inbox' \in {inbox, Published(PauseAlert)}
    BY <2>1 DEF Finish
  <2>5. UNCHANGED <<best, offered, free, earn, begun>> /\ faults' \in 0..MaxFaults
    BY <2>1, ReadSound DEF Finish, account
  <2>5a. HistorySound'
    BY <2>1, <2>2, ComparedSound
  <2>6. x \in [at : Places, capital : 0..MaxPorCiclo, before : Nat, pnl : Nat]
        /\ x.at \in {"idle", "earn"}
    <3> HIDE DEF pnl
    <3>1. CASE pnl >= EarnMin
      <4>1. pnl \in Nat
        BY <2>2, <3>1, TriNetAssumption DEF TriNetAssumption
      <4>2. x = [at |-> "earn", capital |-> 0, before |-> 0, pnl |-> pnl]
        BY <3>1 DEF AfterRecord, Idle
      <4>3. 0 \in 0..MaxPorCiclo
        BY RiskAssumption DEF RiskAssumption
      <4> HIDE DEF x
      <4> QED BY <4>1, <4>2, <4>3 DEF Places
    <3>2. CASE ~(pnl >= EarnMin)
      <4>1. x = Idle
        BY <3>2 DEF AfterRecord
      <4> QED BY <4>1, RiskAssumption DEF RiskAssumption, Idle, Places
    <3> QED BY <3>1, <3>2
  <2> HIDE DEF pnl
  <2>7. r \in Engine /\ r.equity <= r.peak
    BY <1>0, <2>2, TradeTyped DEF EnginesSound
  <2> HIDE DEF r, x
  <2>8. EnginesSound' /\ \A q \in Procs : q # e => engine'[q] = engine[q]
    BY <1>0, <2>3, <2>7, OneEngineChanges
  <2>9. /\ ExecutorsSound'
        /\ exec'[e] = x
        /\ \A f \in Executors : f # e => exec'[f] = exec[f]
    BY <2>3, <2>6, OneExecutorChanges
  <2>10. MessagesSound'
    BY <2>4, <2>5, AlertIsKnown, MessagePublished
  <2>11. RestSound'
    BY <2>5 DEF RestSound
  <2>12. BelowLimitWhileTrading'
    BY <1>0, <2>6, <2>8, <2>9 DEF BelowLimitWhileTrading, Trading
  <2> QED BY <2>5a, <2>8, <2>9, <2>10, <2>11, <2>12
<1>2. CASE AutoEarn(e)
  <2>1. UNCHANGED <<engine, best, offered, inbox, begun, faults>>
    BY <1>2 DEF AutoEarn, counts
  <2>2. /\ ExecutorsSound'
        /\ exec'[e] = Idle
        /\ \A f \in Executors : f # e => exec'[f] = exec[f]
    <3>1. Idle \in [at : Places, capital : 0..MaxPorCiclo, before : Nat, pnl : Nat]
      BY RiskAssumption DEF RiskAssumption, Idle, Places
    <3>2. exec' = [exec EXCEPT ![e] = Idle]
      BY <1>2 DEF AutoEarn
    <3> QED BY <3>1, <3>2, OneExecutorChanges
  <2>3. exec[e].pnl \in Nat
    BY DEF ExecutorsSound
  <2>4. RestSound'
    BY <1>2, <2>1, <2>3 DEF AutoEarn, RestSound, account
  <2>4a. HistorySound'
    BY <1>2 DEF AutoEarn, HistorySound, BlurredBy
  <2>5. EnginesSound' /\ MessagesSound'
    BY <2>1 DEF EnginesSound, MessagesSound
  <2>6. BelowLimitWhileTrading'
    BY <2>1, <2>2 DEF BelowLimitWhileTrading, Trading, Idle
  <2> QED BY <2>2, <2>4, <2>4a, <2>5, <2>6
<1> QED BY <1>1, <1>2

(* A process runs its pause task, or ends and restarts.                    *)
LEMMA ProcessStep ==
    ASSUME IInv, NEW p \in Procs, RunPauseTask(p) \/ Crash(p)
    PROVE  IInv'
<1> USE DEF IInv
<1>0. Scanner \in Procs /\ Scanner \notin Executors /\ \A f \in Executors : f \in Procs
  BY ProcsAreDifferent
<1>1. CASE RunPauseTask(p)
  <2>1. /\ EnginesSound'
        /\ \A q \in Procs : LimitReached(engine'[q]) <=> LimitReached(engine[q])
    <3>1. engine' = [engine EXCEPT ![p] = AfterTask(engine[p])]
      BY <1>1 DEF RunPauseTask
    <3> QED BY <3>1, EngineQuietStep
  <2>2. MessagesSound'
    BY <1>1, AlertIsKnown, MessagePublished DEF RunPauseTask
  <2>3. RestSound' /\ HistorySound' /\ ExecutorsSound'
        /\ (\A f \in Executors : Trading(f)' => Trading(f))
    BY <1>1, NothingCounted DEF RunPauseTask, ExecutorsSound, Trading
  <2> QED BY <1>0, <2>1, <2>2, <2>3, StillBelowLimit
<1>2. CASE Crash(p)
  <2>1. PICK b \in {free, 0} : engine' = [engine EXCEPT ![p] = FreshEngine(b)]
    BY <1>2 DEF Crash
  <2>2. EnginesSound' /\ \A q \in Procs : q # p => engine'[q] = engine[q]
    <3> DEFINE r == FreshEngine(b)
    <3>1. r \in Engine /\ r.equity <= r.peak
      <4>1. r \in Engine /\ r.equity = r.peak
        BY FreshEngineTyped DEF RestSound
      <4>2. r.equity \in Int
        BY <4>1 DEF Engine
      <4> QED BY <4>1, <4>2
    <3>2. engine' = [engine EXCEPT ![p] = r]
      BY <2>1
    <3> HIDE DEF r
    <3> QED BY <3>1, <3>2, OneEngineChanges
  <2>3. UNCHANGED <<offered, free, earn, begun>> /\ faults' = faults + 1
        /\ faults < MaxFaults
    BY <1>2 DEF Crash, account
  <2>4. faults' \in 0..MaxFaults
    BY <2>3, TriNetAssumption DEF TriNetAssumption, RestSound
  <2>5. CASE p = Scanner
    <3>1. UNCHANGED <<inbox, exec, own, blurred, apart, misled, clear>> /\ best' = -1
      BY <1>2, <2>5 DEF Crash, history
    <3>2. MessagesSound' /\ RestSound' /\ HistorySound' /\ ExecutorsSound'
      BY <2>3, <2>4, <3>1, RiskAssumption
      DEF RiskAssumption, MessagesSound, RestSound, HistorySound, ExecutorsSound
    <3>3. BelowLimitWhileTrading'
      BY <1>0, <2>2, <2>5, <3>1 DEF BelowLimitWhileTrading, Trading
    <3> QED BY <2>2, <3>2, <3>3
  <2>6. CASE p # Scanner
    <3>1. p \in Executors
      BY <2>6 DEF Procs
    <3>2. /\ exec' = [exec EXCEPT ![p] = Idle]
          /\ inbox' = [inbox EXCEPT ![p] = <<>>]
          /\ own' = [own EXCEPT ![p] = 0]
          /\ blurred' = [blurred EXCEPT ![p] = FALSE]
          /\ apart' = [apart EXCEPT ![p] = free + earn - engine'[p].equity]
          /\ misled' = [misled EXCEPT ![p] = 0]
          /\ clear' = FALSE
          /\ best' = best
      BY <1>2, <2>6 DEF Crash
    <3>3. MessagesSound'
      <4>1. <<>> \in Seq(0..Len(offered))
        BY EmptySeq
      <4> QED BY <2>3, <3>1, <3>2, <4>1 DEF MessagesSound
    <3>4. RestSound' /\ HistorySound'
      <4>1. free + earn - engine'[p].equity \in Int
        BY <2>2 DEF RestSound, EnginesSound, Engine
      <4>2. RestSound'
        BY <2>3, <2>4 DEF RestSound
      <4>3. own' \in [Executors -> Int] /\ misled' \in [Executors -> Nat]
        <5>1. 0 \in Int /\ 0 \in Nat
          OBVIOUS
        <5>2. own \in [Executors -> Int] /\ misled \in [Executors -> Nat]
          BY DEF HistorySound
        <5> QED BY <3>2, <5>1, <5>2, Zenon
      <4>4. apart' \in [Executors -> Int]
        BY <3>2, <4>1 DEF HistorySound
      <4>5. blurred' \in [Executors -> BOOLEAN] /\ clear' \in BOOLEAN
        <5>1. FALSE \in BOOLEAN /\ blurred \in [Executors -> BOOLEAN]
          BY DEF HistorySound
        <5> QED BY <3>2, <5>1, Zenon
      <4> QED BY <4>2, <4>3, <4>4, <4>5 DEF HistorySound
    <3>5. /\ ExecutorsSound'
          /\ exec'[p] = Idle
          /\ \A f \in Executors : f # p => exec'[f] = exec[f]
      <4>1. Idle \in [at : Places, capital : 0..MaxPorCiclo, before : Nat, pnl : Nat]
        BY RiskAssumption DEF RiskAssumption, Idle, Places
      <4> QED BY <3>1, <3>2, <4>1, OneExecutorChanges
    <3>6. BelowLimitWhileTrading'
      BY <1>0, <2>2, <3>1, <3>5 DEF BelowLimitWhileTrading, Trading, Idle
    <3> QED BY <2>2, <3>3, <3>4, <3>5, <3>6
  <2> QED BY <2>5, <2>6
<1> QED BY <1>1, <1>2

(* The clock advances: no money moves.                                     *)
LEMMA TickStep ==
    ASSUME IInv, Tick PROVE IInv'
<1> USE DEF IInv
<1>1. engine' = [p \in Procs |-> AfterTick(engine[p])]
  BY DEF Tick
<1>2. \A p \in Procs : /\ engine'[p] \in Engine
                       /\ engine'[p].equity = engine[p].equity
                       /\ engine'[p].peak = engine[p].peak
  BY <1>1, MoneyUntouched DEF EnginesSound
<1>3. EnginesSound'
  <2>1. engine' \in [Procs -> Engine]
    BY <1>1, <1>2
  <2> QED BY <1>2, <2>1 DEF EnginesSound
<1>4. \A p \in Procs : LimitReached(engine'[p]) <=> LimitReached(engine[p])
  BY <1>2, SameMoneySameLimit
<1>5. RestSound' /\ HistorySound'
  BY NothingCounted DEF Tick
<1>6. MessagesSound' /\ ExecutorsSound' /\ (\A f \in Executors : Trading(f)' => Trading(f))
  BY DEF Tick, MessagesSound, ExecutorsSound, Trading
<1> QED BY <1>3, <1>4, <1>5, <1>6, ProcsAreDifferent, StillBelowLimit

(* Every step keeps the invariant.                                         *)
LEMMA InvariantKept == IInv /\ [Next]_vars => IInv'
<1> SUFFICES ASSUME IInv, [Next]_vars PROVE IInv'
  OBVIOUS
<1>1. CASE StartCycle \/ FindBest \/ WviPause \/ EndCycle
  BY <1>1, ScannerStep
<1>2. CASE \E e \in Executors :
               HandleAlert(e) \/ Filter(e) \/ Refuse(e) \/ Accept(e)
  BY <1>2, MessageStep
<1>3. CASE \E e \in Executors : ReadBefore(e) \/ Leg1(e) \/ Leg2(e) \/ Leg3(e)
  BY <1>3, LegStep
<1>4. CASE \E e \in Executors : Record(e) \/ AutoEarn(e)
  BY <1>4, EndStep
<1>5. CASE \E p \in Procs : RunPauseTask(p) \/ Crash(p)
  BY <1>5, ProcessStep
<1>6. CASE Tick
  BY <1>6, TickStep
<1>7. CASE UNCHANGED vars
  BY <1>7
  DEF vars, account, counts, history, IInv, EnginesSound, MessagesSound, ExecutorsSound,
      RestSound, HistorySound, BelowLimitWhileTrading, Trading
<1> QED BY <1>1, <1>2, <1>3, <1>4, <1>5, <1>6, <1>7 DEF Next

(* Engines, messages and executors are sound in every state; this is the   *)
(* invariant the theorems below follow from (base_executor.py:46-210).     *)
THEOREM Invariance == Spec => []IInv
<1> QED BY InvariantInitially, InvariantKept, PTL DEF Spec

(* Every variable of the network has its type in every state.              *)
THEOREM TypeCorrect == Spec => []TypeOK
<1> QED BY InvariantGivesTypes, Invariance, PTL

(* No executor has capital in a triangle while its own engine has reached  *)
(* the limit (base_executor.py:46-59, robin_hood_risk.py:104-190), whatever*)
(* the other executors do to the balance it reads.                         *)
THEOREM NoStake ==
    Spec => [](\A e \in Executors : LimitReached(engine[e]) => Stake(e) = 0)
<1>1. IInv => (\A e \in Executors : LimitReached(engine[e]) => Stake(e) = 0)
  BY DEF IInv, BelowLimitWhileTrading, Trading, Stake
<1> QED BY <1>1, Invariance, PTL

-----------------------------------------------------------------------------
(* The account below the executors.                                        *)

(* What the engine knows and what its triangle has moved make up what the  *)
(* account holds, but for what is apart; and as long as no other executor  *)
(* moves money and the balance is read, so does what was read before.      *)
BooksFit(e) ==
    /\ engine[e].equity + own[e] = free + earn - apart[e]
    /\ Between(e) /\ ~blurred[e] => exec[e].before + own[e] = free

(* A triangle moves nothing before its first leg, then takes its capital,  *)
(* and at most does not bring it back.                                     *)
MovesFit(e) ==
    /\ ~InFlight(e) => own[e] = 0
    /\ exec[e].at \in {"leg2", "leg3"} => own[e] = -exec[e].capital
    /\ At(e, "after") => own[e] >= -exec[e].capital

MoneyFits(e) == BooksFit(e) /\ MovesFit(e)

(* A step that is not of the triangle of e and not of its process.         *)
Untouched(e) ==
    /\ exec'[e] = exec[e] /\ own'[e] = own[e] /\ misled'[e] = misled[e]
    /\ free' + earn' - apart'[e] = free + earn - apart[e]
    /\ Between(e) /\ ~blurred'[e] => free' = free /\ ~blurred[e]
    /\ clear' => clear

(* The steps of the others, and those of e that only concern its engine.   *)
StepOfOthers(e) ==
    \/ StartCycle \/ FindBest \/ WviPause \/ EndCycle \/ UNCHANGED vars
    \/ \E p \in Procs \ {e} : RunPauseTask(p) \/ Crash(p)
    \/ \E f \in Executors \ {e} :
          \/ HandleAlert(f) \/ Filter(f) \/ Refuse(f) \/ Accept(f)
          \/ ReadBefore(f) \/ Leg1(f) \/ Leg2(f) \/ Leg3(f)
          \/ Record(f) \/ AutoEarn(f)

StepOfEngine(e) ==
    Tick \/ RunPauseTask(e) \/ HandleAlert(e) \/ Filter(e) \/ Refuse(e)

StepOfTriangle(e) ==
    \/ Accept(e) \/ ReadBefore(e) \/ Leg1(e) \/ Leg2(e) \/ Leg3(e)
    \/ Record(e) \/ AutoEarn(e) \/ Crash(e)

(* Every step is one of the three.                                         *)
LEMMA StepsOfThree ==
    ASSUME NEW e \in Executors, [Next]_vars
    PROVE  StepOfOthers(e) \/ StepOfEngine(e) \/ StepOfTriangle(e)
  BY DEF Next, StepOfOthers, StepOfEngine, StepOfTriangle

(* The executor, its engine and the numbers it reads, for arithmetic.      *)
LEMMA ExecutorTyped ==
    ASSUME NEW e \in Executors, IInv
    PROVE  /\ e \in Procs /\ e # Scanner
           /\ engine \in [Procs -> Engine] /\ engine[e] \in Engine
           /\ engine[e].equity \in Int /\ engine[e].peak \in Int
           /\ engine[e].equity <= engine[e].peak
           /\ exec \in [Executors -> [at : Places, capital : 0..MaxPorCiclo,
                                      before : Nat, pnl : Nat]]
           /\ exec[e].capital \in Nat /\ exec[e].capital <= MaxPorCiclo
           /\ exec[e].before \in Nat /\ exec[e].pnl \in Nat
           /\ free \in Nat /\ earn \in Nat
           /\ own \in [Executors -> Int] /\ own[e] \in Int
           /\ apart \in [Executors -> Int] /\ apart[e] \in Int
           /\ misled \in [Executors -> Nat] /\ misled[e] \in Nat
           /\ blurred \in [Executors -> BOOLEAN] /\ blurred[e] \in BOOLEAN
           /\ MaxPorCiclo \in Nat /\ Deposit \in Nat \ {0}
<1>1. e \in Procs /\ e # Scanner
  BY ProcsAreDifferent
<1>2. MaxPorCiclo \in Nat /\ Deposit \in Nat \ {0}
  BY RiskAssumption, TriNetAssumption DEF RiskAssumption, TriNetAssumption
<1>3. engine \in [Procs -> Engine] /\ engine[e] \in Engine /\ engine[e].equity <= engine[e].peak
  BY <1>1 DEF IInv, EnginesSound
<1>4. engine[e].equity \in Int /\ engine[e].peak \in Int
  BY <1>3 DEF Engine
<1>5. exec \in [Executors -> [at : Places, capital : 0..MaxPorCiclo,
                              before : Nat, pnl : Nat]]
  BY DEF IInv, ExecutorsSound
<1>6. exec[e].capital \in 0..MaxPorCiclo /\ exec[e].before \in Nat /\ exec[e].pnl \in Nat
  BY <1>5
<1>7. /\ free \in Nat /\ earn \in Nat /\ own \in [Executors -> Int]
      /\ apart \in [Executors -> Int] /\ misled \in [Executors -> Nat]
      /\ blurred \in [Executors -> BOOLEAN]
  BY DEF IInv, RestSound, HistorySound
<1>8. own[e] \in Int /\ apart[e] \in Int /\ misled[e] \in Nat /\ blurred[e] \in BOOLEAN
  BY <1>7
<1> QED
  BY <1>1, <1>2, <1>3, <1>4, <1>5, <1>6, <1>7, <1>8

(* A capital and a result, as numbers.                                     *)
LEMMA SumsAreNumbers == \A x, y \in Int : x + y \in Int /\ -x \in Int
  OBVIOUS

(* What another executor moves is apart, and blurs what e will record.     *)
LEMMA OthersMove ==
    ASSUME NEW e \in Executors, IInv, NEW f \in Executors, f # e, NEW amount \in Int,
           Moves(f, amount), exec'[e] = exec[e]
    PROVE  Untouched(e)
<1>1. /\ free \in Nat /\ earn \in Nat /\ own \in [Executors -> Int]
      /\ apart[e] \in Int
  BY ExecutorTyped
<1>2. /\ own'[e] = own[e] /\ apart'[e] = apart[e] + amount /\ free' = free + amount
      /\ UNCHANGED <<earn, misled, clear>>
  BY <1>1 DEF Moves
<1>3. free' + earn' - apart'[e] = free + earn - apart[e]
  BY <1>1, <1>2
<1>4. Between(e) => blurred'[e]
  BY DEF Moves, BlurredBy
<1> QED BY <1>2, <1>3, <1>4 DEF Untouched

(* The engine, the triangle and the books of e stay, whatever the others   *)
(* do (base_executor.py runs as a process per region).                     *)
LEMMA OthersLeaveIt ==
    ASSUME NEW e \in Executors, IInv, StepOfOthers(e)
    PROVE  engine'[e] = engine[e] /\ Untouched(e)
<1>0. /\ e \in Procs /\ e # Scanner /\ engine \in [Procs -> Engine]
      /\ exec \in [Executors -> [at : Places, capital : 0..MaxPorCiclo,
                                 before : Nat, pnl : Nat]]
      /\ free \in Nat /\ earn \in Nat /\ own \in [Executors -> Int]
      /\ apart \in [Executors -> Int] /\ misled \in [Executors -> Nat]
      /\ blurred \in [Executors -> BOOLEAN]
  BY ExecutorTyped
<1>1. ASSUME exec' = exec, UNCHANGED <<account, history>> PROVE Untouched(e)
  BY <1>1 DEF Untouched, account, history
<1>2. CASE StartCycle \/ FindBest \/ WviPause \/ EndCycle \/ UNCHANGED vars
  <2>1. engine'[e] = engine[e]
    BY <1>0, <1>2 DEF StartCycle, FindBest, WviPause, EndCycle, vars
  <2>2. exec' = exec /\ UNCHANGED <<account, history>>
    BY <1>2 DEF StartCycle, FindBest, WviPause, EndCycle, vars
  <2> QED BY <1>1, <2>1, <2>2
<1>3. ASSUME NEW p \in Procs \ {e}, RunPauseTask(p)
      PROVE  engine'[e] = engine[e] /\ Untouched(e)
  <2>1. engine'[e] = engine[e] /\ exec' = exec /\ UNCHANGED <<account, history>>
    BY <1>0, <1>3 DEF RunPauseTask
  <2> QED BY <1>1, <2>1
<1>4. ASSUME NEW p \in Procs \ {e}, Crash(p)
      PROVE  engine'[e] = engine[e] /\ Untouched(e)
  <2>1. engine'[e] = engine[e] /\ UNCHANGED account
    BY <1>0, <1>4 DEF Crash
  <2>2. CASE p = Scanner
    BY <1>1, <1>4, <2>1, <2>2 DEF Crash
  <2>3. CASE p # Scanner
    <3>1. exec'[e] = exec[e]
      BY <1>0, <1>4, <2>3 DEF Crash
    <3>2. own'[e] = own[e] /\ misled'[e] = misled[e] /\ apart'[e] = apart[e]
      BY <1>0, <1>4, <2>3 DEF Crash
    <3>3. blurred'[e] = blurred[e] /\ clear' = FALSE
      BY <1>0, <1>4, <2>3, Zenon DEF Crash
    <3> QED BY <2>1, <3>1, <3>2, <3>3 DEF Untouched, account
  <2> QED BY <2>2, <2>3
<1>5. ASSUME NEW f \in Executors \ {e}, HandleAlert(f) \/ Filter(f) \/ Refuse(f) \/ Leg2(f)
      PROVE  engine'[e] = engine[e] /\ Untouched(e)
  <2>1. engine'[e] = engine[e] /\ UNCHANGED <<account, history>>
    BY <1>0, <1>5 DEF HandleAlert, Filter, Refuse, Leg2
  <2>2. exec'[e] = exec[e]
    BY <1>0, <1>5 DEF HandleAlert, Filter, Refuse, Leg2, GoTo
  <2> QED BY <2>1, <2>2 DEF Untouched, account, history
<1>6. ASSUME NEW f \in Executors \ {e}, Accept(f)
      PROVE  engine'[e] = engine[e] /\ Untouched(e)
  <2>1. PICK size : Begin(f, size)
    BY <1>6 DEF Accept
  <2>2. engine'[e] = engine[e] /\ exec'[e] = exec[e] /\ UNCHANGED <<account, history>>
    BY <1>0, <2>1 DEF Begin
  <2> QED BY <2>2 DEF Untouched, account, history
<1>7. ASSUME NEW f \in Executors \ {e}, ReadBefore(f)
      PROVE  engine'[e] = engine[e] /\ Untouched(e)
  <2>1. exec'[e] = exec[e] /\ UNCHANGED <<engine, free, earn, own, apart, misled, clear>>
    BY <1>0, <1>7 DEF ReadBefore, account
  <2>2. blurred'[e] = blurred[e]
    BY <1>0, <1>7 DEF ReadBefore
  <2> QED BY <2>1, <2>2 DEF Untouched
<1>8. ASSUME NEW f \in Executors \ {e}, Leg1(f) \/ Leg3(f)
      PROVE  engine'[e] = engine[e] /\ Untouched(e)
  <2>1. engine' = engine /\ exec'[e] = exec[e]
    BY <1>0, <1>8 DEF Leg1, Leg3, GoTo
  <2>2. exec[f].capital \in Int
    BY ExecutorTyped
  <2>3. CASE UNCHANGED <<account, history>>
    BY <2>1, <2>3 DEF Untouched, account, history
  <2>4. CASE \E amount \in Int : Moves(f, amount)
    BY <2>1, <2>4, OthersMove
  <2>5. \/ UNCHANGED <<account, history>>
        \/ \E amount \in Int : Moves(f, amount)
    <3>1. CASE Leg1(f)
      <4>1. -exec[f].capital \in Int
        BY <2>2
      <4> QED BY <3>1, <4>1 DEF Leg1
    <3>2. CASE Leg3(f)
      <4>1. \A r \in Results : exec[f].capital + r \in Int
        BY <2>2, SumsAreNumbers, TriNetAssumption, Zenon DEF TriNetAssumption
      <4> QED BY <3>2, <4>1 DEF Leg3
    <3> QED BY <1>8, <3>1, <3>2
  <2> QED BY <2>1, <2>3, <2>4, <2>5
<1>9. ASSUME NEW f \in Executors \ {e}, Record(f)
      PROVE  engine'[e] = engine[e] /\ Untouched(e)
  <2>1. PICK pnl, another : Finish(f, pnl) /\ Compared(f, pnl, another)
    BY <1>9 DEF Record
  <2>2. engine'[e] = engine[e] /\ exec'[e] = exec[e] /\ UNCHANGED account
    BY <1>0, <2>1 DEF Finish
  <2>3. own'[e] = own[e] /\ misled'[e] = misled[e] /\ apart'[e] = apart[e]
    BY <1>0, <2>1 DEF Compared
  <2>4. blurred'[e] = blurred[e] /\ (clear' => clear)
    BY <1>0, <2>1, Zenon DEF Compared
  <2> QED BY <2>2, <2>3, <2>4 DEF Untouched, account
<1>10. ASSUME NEW f \in Executors \ {e}, AutoEarn(f)
       PROVE  engine'[e] = engine[e] /\ Untouched(e)
  <2>1. engine'[e] = engine[e] /\ exec'[e] = exec[e] /\ UNCHANGED <<own, apart, misled, clear>>
    BY <1>0, <1>10 DEF AutoEarn
  <2>2. CASE UNCHANGED <<account, blurred>>
    BY <2>1, <2>2 DEF Untouched, account
  <2>3. CASE /\ free' = free - exec[f].pnl /\ earn' = earn + exec[f].pnl
             /\ blurred' = BlurredBy(f)
    <3>1. free' + earn' - apart'[e] = free + earn - apart[e]
      <4>1. exec[f].pnl \in Nat /\ apart[e] \in Int
        BY ExecutorTyped
      <4> QED BY <1>0, <2>1, <2>3, <4>1
    <3>2. Between(e) => blurred'[e]
      BY <2>3 DEF BlurredBy
    <3> QED BY <2>1, <3>1, <3>2 DEF Untouched
  <2> QED BY <1>10, <2>2, <2>3 DEF AutoEarn
<1> QED
  BY <1>2, <1>3, <1>4, <1>5, <1>6, <1>7, <1>8, <1>9, <1>10 DEF StepOfOthers

(* Asking, pausing and the clock leave the triangle and the money alone.   *)
LEMMA EngineLeavesIt ==
    ASSUME NEW e \in Executors, IInv, StepOfEngine(e)
    PROVE  /\ engine'[e] \in Engine /\ engine'[e].equity = engine[e].equity
           /\ engine'[e].peak = engine[e].peak
           /\ Untouched(e)
<1>0. e \in Procs /\ engine \in [Procs -> Engine] /\ engine[e] \in Engine
  BY ExecutorTyped
<1>1. exec' = exec /\ UNCHANGED <<account, history>>
  BY DEF StepOfEngine, Tick, RunPauseTask, HandleAlert, Filter, Refuse
<1>2. Untouched(e)
  BY <1>1 DEF Untouched, account, history
<1>3. engine'[e] \in {engine[e], AfterTick(engine[e]), AfterTask(engine[e]),
                      AfterAsking(engine[e])}
  BY <1>0 DEF StepOfEngine, Tick, RunPauseTask, HandleAlert, Filter, Refuse
<1>4. /\ engine'[e] \in Engine /\ engine'[e].equity = engine[e].equity
      /\ engine'[e].peak = engine[e].peak
  BY <1>0, <1>3, MoneyUntouched
<1> QED BY <1>2, <1>4

(* Where a triangle goes, it keeps its capital and what was read.          *)
LEMMA GoesTo ==
    ASSUME NEW e \in Executors, ExecutorsSound, NEW place, GoTo(e, place)
    PROVE  /\ exec'[e].at = place /\ exec'[e].capital = exec[e].capital
           /\ exec'[e].before = exec[e].before
  BY DEF ExecutorsSound, GoTo

(* Books and triangle fit as before where neither is touched.              *)
LEMMA UntouchedFits ==
    ASSUME NEW e \in Executors, IInv, MoneyFits(e), Untouched(e),
           engine'[e].equity = engine[e].equity
    PROVE  MoneyFits(e)'
<1>1. Between(e)' = Between(e) /\ InFlight(e)' = InFlight(e) /\ At(e, "after")' = At(e, "after")
  BY DEF Untouched, Between, InFlight, At
<1>2. BooksFit(e)'
  BY <1>1 DEF Untouched, MoneyFits, BooksFit
<1>3. MovesFit(e)'
  BY <1>1 DEF Untouched, MoneyFits, MovesFit
<1> QED BY <1>2, <1>3 DEF MoneyFits

(* A triangle that is begun has not moved anything yet                     *)
(* (base_executor.py:84-127).                                              *)
LEMMA AcceptFits ==
    ASSUME NEW e \in Executors, IInv, MoneyFits(e), Accept(e)
    PROVE  /\ MoneyFits(e)' /\ (clear' => clear)
           /\ engine'[e].equity = engine[e].equity /\ engine'[e].peak = engine[e].peak
<1>0. /\ e \in Procs /\ engine \in [Procs -> Engine] /\ engine[e] \in Engine
      /\ exec \in [Executors -> [at : Places, capital : 0..MaxPorCiclo,
                                 before : Nat, pnl : Nat]]
  BY ExecutorTyped
<1>1. PICK size : Begin(e, size) /\ exec[e].at = "idle"
  BY DEF Accept, NextMessage
<1>2. engine'[e] = AfterAsking(engine[e]) /\ UNCHANGED <<account, history>>
  BY <1>0, <1>1 DEF Begin
<1>3. engine'[e].equity = engine[e].equity /\ engine'[e].peak = engine[e].peak
  BY <1>0, <1>2, MoneyUntouched
<1>4. exec'[e].at = "before"
  BY <1>0, <1>1 DEF Begin, Idle
<1>5. own[e] = 0
  BY <1>1 DEF MoneyFits, MovesFit, InFlight
<1>6. MoneyFits(e)'
  BY <1>2, <1>3, <1>4, <1>5
  DEF MoneyFits, BooksFit, MovesFit, InFlight, Between, At, account, history
<1> QED BY <1>2, <1>3, <1>6 DEF history

(* The legs: what goes into the triangle is missing in the free balance    *)
(* and not in the books, and at most the capital does not come back        *)
(* (base_executor.py:127-185).                                             *)
LEMMA LegsFit ==
    ASSUME NEW e \in Executors, IInv, MoneyFits(e),
           ReadBefore(e) \/ Leg1(e) \/ Leg2(e) \/ Leg3(e)
    PROVE  MoneyFits(e)' /\ engine' = engine /\ (clear' => clear)
<1>0. /\ engine[e].equity \in Int
      /\ exec \in [Executors -> [at : Places, capital : 0..MaxPorCiclo,
                                 before : Nat, pnl : Nat]]
      /\ exec[e].capital \in Nat /\ exec[e].before \in Nat
      /\ free \in Nat /\ earn \in Nat
      /\ own \in [Executors -> Int] /\ own[e] \in Int
      /\ apart \in [Executors -> Int] /\ apart[e] \in Int
      /\ blurred \in [Executors -> BOOLEAN] /\ ExecutorsSound
  BY ExecutorTyped DEF IInv
<1>1. engine' = engine
  BY DEF ReadBefore, Leg1, Leg2, Leg3
<1>2. CASE ReadBefore(e)
  <2>1. PICK b \in {free, 0} :
            /\ exec' = [exec EXCEPT ![e].before = b, ![e].at = "leg1"]
            /\ blurred' = [blurred EXCEPT ![e] = b # free]
    BY <1>2 DEF ReadBefore
  <2>2. exec'[e].at = "leg1" /\ exec'[e].before = b
    BY <1>0, <2>1
  <2>3. ~blurred'[e] => b = free
    BY <1>0, <2>1, Zenon
  <2>4. UNCHANGED <<free, earn, own, apart, clear>>
    BY <1>2 DEF ReadBefore, account
  <2>5. own[e] = 0
    BY <1>2 DEF ReadBefore, At, MoneyFits, MovesFit, InFlight
  <2>6. BooksFit(e)'
    BY <1>0, <1>1, <2>2, <2>3, <2>4, <2>5 DEF MoneyFits, BooksFit
  <2>7. MovesFit(e)'
    BY <2>2, <2>4, <2>5 DEF MovesFit, InFlight, At
  <2> QED BY <1>1, <2>4, <2>6, <2>7 DEF MoneyFits
<1>3. ASSUME NEW place, GoTo(e, place), Between(e), NEW amount \in Int,
             free' = free + amount, earn' = earn, own'[e] = own[e] + amount,
             apart'[e] = apart[e], blurred'[e] = blurred[e]
      PROVE  BooksFit(e)'
  <2>1. exec'[e].before = exec[e].before
    BY <1>0, <1>3, GoesTo
  <2>2. engine[e].equity + own[e] = free + earn - apart[e]
    BY DEF MoneyFits, BooksFit
  <2>3. engine'[e].equity + own'[e] = free' + earn' - apart'[e]
    <3>1. engine[e].equity + (own[e] + amount) = (free + amount) + earn - apart[e]
      BY <1>0, <1>3, <2>2
    <3> QED BY <1>1, <1>3, <3>1
  <2>4. ~blurred'[e] => exec'[e].before + own'[e] = free'
    <3>1. ~blurred[e] => exec[e].before + own[e] = free
      BY <1>3 DEF MoneyFits, BooksFit
    <3>2. ~blurred[e] => exec[e].before + (own[e] + amount) = free + amount
      BY <1>0, <1>3, <3>1
    <3> QED BY <1>3, <2>1, <3>2
  <2> QED BY <2>3, <2>4 DEF BooksFit
<1>4. ASSUME NEW place, GoTo(e, place), Between(e), UNCHANGED <<account, history>>
      PROVE  BooksFit(e)'
  <2>1. /\ free' = free + 0 /\ earn' = earn /\ own'[e] = own[e] + 0
        /\ apart'[e] = apart[e] /\ blurred'[e] = blurred[e]
    BY <1>0, <1>4 DEF account, history
  <2> QED BY <1>3, <1>4, <2>1
<1>5. ASSUME NEW place, GoTo(e, place), Between(e), NEW amount \in Int, Moves(e, amount)
      PROVE  /\ BooksFit(e)' /\ own'[e] = own[e] + amount /\ clear' = clear
  <2>1. /\ free' = free + amount /\ earn' = earn /\ own'[e] = own[e] + amount
        /\ apart'[e] = apart[e] /\ clear' = clear
    BY <1>0, <1>5 DEF Moves
  <2>2. blurred'[e] = blurred[e]
    BY <1>0, <1>5, Zenon DEF Moves, BlurredBy
  <2> QED BY <1>3, <1>5, <2>1, <2>2
<1>6. CASE Leg1(e)
  <2>1. PICK place \in {"leg2", "after"} : GoTo(e, place)
    BY <1>6 DEF Leg1
  <2>2. exec'[e].at = place /\ exec'[e].capital = exec[e].capital
    BY <1>0, <2>1, GoesTo
  <2>3. Between(e) /\ own[e] = 0
    BY <1>6 DEF Leg1, At, Between, MoneyFits, MovesFit, InFlight
  <2>4. CASE Moves(e, -exec[e].capital)
    <3>1. -exec[e].capital \in Int
      BY <1>0
    <3>2. BooksFit(e)' /\ own'[e] = own[e] + (-exec[e].capital) /\ clear' = clear
      BY <1>5, <2>1, <2>3, <2>4, <3>1
    <3>3. own'[e] = -exec'[e].capital
      BY <1>0, <2>2, <2>3, <3>2
    <3>4. -exec'[e].capital \in Int
      BY <1>0, <2>2
    <3>5. MovesFit(e)'
      BY <2>2, <3>3, <3>4 DEF MovesFit, InFlight, At
    <3> QED BY <1>1, <3>2, <3>5 DEF MoneyFits
  <2>5. CASE UNCHANGED <<account, history>> /\ GoTo(e, "after")
    <3>1. BooksFit(e)' /\ clear' = clear /\ own' = own
      BY <1>4, <2>3, <2>5 DEF history
    <3>2. exec'[e].at = "after"
      BY <1>0, <2>5, GoesTo
    <3>3. own'[e] = 0 /\ own'[e] >= -exec'[e].capital
      BY <1>0, <2>2, <2>3, <3>1
    <3>4. MovesFit(e)'
      BY <3>2, <3>3 DEF MovesFit, InFlight, At
    <3> QED BY <1>1, <3>1, <3>4 DEF MoneyFits
  <2> QED BY <1>6, <2>4, <2>5 DEF Leg1
<1>7. CASE Leg2(e)
  <2>1. PICK place \in {"leg3", "after"} : GoTo(e, place)
    BY <1>7 DEF Leg2
  <2>2. exec'[e].at = place /\ exec'[e].capital = exec[e].capital
    BY <1>0, <2>1, GoesTo
  <2>3. Between(e) /\ own[e] = -exec[e].capital /\ UNCHANGED <<account, history>>
    BY <1>7 DEF Leg2, At, Between, MoneyFits, MovesFit
  <2>4. BooksFit(e)' /\ clear' = clear /\ own' = own
    BY <1>4, <2>1, <2>3 DEF history
  <2>5. own'[e] = -exec'[e].capital /\ own'[e] >= -exec'[e].capital
    BY <1>0, <2>2, <2>3, <2>4
  <2>6. MovesFit(e)'
    BY <2>2, <2>5 DEF MovesFit, InFlight, At
  <2> QED BY <1>1, <2>4, <2>6 DEF MoneyFits
<1>8. CASE Leg3(e)
  <2>1. GoTo(e, "after")
    BY <1>8 DEF Leg3
  <2>2. exec'[e].at = "after" /\ exec'[e].capital = exec[e].capital
    BY <1>0, <2>1, GoesTo
  <2>3. Between(e) /\ own[e] = -exec[e].capital
    BY <1>8 DEF Leg3, At, Between, MoneyFits, MovesFit
  <2>4. BooksFit(e)' /\ clear' = clear /\ own'[e] >= -exec'[e].capital
    <3>1. CASE UNCHANGED <<account, history>>
      <4>1. BooksFit(e)' /\ clear' = clear /\ own' = own
        BY <1>4, <2>1, <2>3, <3>1 DEF history
      <4> QED BY <1>0, <2>2, <2>3, <4>1
    <3>2. ASSUME NEW r \in Results, r >= -exec[e].capital, Moves(e, exec[e].capital + r)
          PROVE  BooksFit(e)' /\ clear' = clear /\ own'[e] >= -exec'[e].capital
      <4>1. r \in Int
        BY TriNetAssumption DEF TriNetAssumption
      <4>2. exec[e].capital + r \in Int
        BY <1>0, <4>1
      <4>3. BooksFit(e)' /\ own'[e] = own[e] + (exec[e].capital + r) /\ clear' = clear
        BY <1>5, <2>1, <2>3, <3>2, <4>2
      <4> QED BY <1>0, <2>2, <2>3, <3>2, <4>1, <4>3
    <3> QED BY <1>8, <3>1, <3>2 DEF Leg3
  <2>5. MovesFit(e)'
    BY <2>2, <2>4 DEF MovesFit, InFlight, At
  <2> QED BY <1>1, <2>4, <2>5 DEF MoneyFits
<1> QED BY <1>2, <1>6, <1>7, <1>8

(* What is recorded: what the triangle did, or what is apart for it from   *)
(* now on (base_executor.py:173-174).                                      *)
LEMMA RecordFits ==
    ASSUME NEW e \in Executors, IInv, MoneyFits(e),
           NEW b \in {free, 0}, NEW pnl, pnl = b - exec[e].before,
           At(e, "after"), Reads(b), Finish(e, pnl),
           Compared(e, pnl, blurred[e] \/ b # free)
    PROVE  /\ MoneyFits(e)' /\ pnl \in Int
           /\ engine'[e] = AfterTrade(engine[e], pnl) /\ exec'[e] = AfterRecord(pnl)
           /\ exec'[e].at \in {"idle", "earn"}
           /\ (~blurred[e] /\ b = free) => (pnl = own[e] /\ UNCHANGED misled)
           /\ (blurred[e] \/ b # free)
                  => (~clear' /\ misled'[e] = Greater(misled[e], -pnl))
           /\ clear' => clear
<1>0. /\ e \in Procs /\ engine \in [Procs -> Engine] /\ engine[e] \in Engine
      /\ engine[e].equity \in Int /\ engine[e].equity <= engine[e].peak
      /\ exec \in [Executors -> [at : Places, capital : 0..MaxPorCiclo,
                                 before : Nat, pnl : Nat]]
      /\ exec[e].before \in Nat /\ free \in Nat /\ earn \in Nat
      /\ own \in [Executors -> Int] /\ own[e] \in Int
      /\ apart \in [Executors -> Int] /\ apart[e] \in Int
      /\ misled \in [Executors -> Nat] /\ blurred \in [Executors -> BOOLEAN]
  BY ExecutorTyped
<1>1. pnl \in Int
  BY <1>0
<1>2. engine'[e] = AfterTrade(engine[e], pnl) /\ exec'[e] = AfterRecord(pnl)
  BY <1>0 DEF Finish
<1>3. exec'[e].at \in {"idle", "earn"}
  BY <1>2 DEF AfterRecord, Idle
<1>4. engine'[e].equity = engine[e].equity + pnl
  BY <1>0, <1>1, <1>2, TradeTyped
<1>5. own'[e] = 0 /\ UNCHANGED <<free, earn>>
  BY <1>0 DEF Compared, Finish, account
<1>6. engine[e].equity + own[e] = free + earn - apart[e]
  BY DEF MoneyFits, BooksFit
<1>7. CASE ~blurred[e] /\ b = free
  <2>1. exec[e].before + own[e] = free
    BY <1>7 DEF MoneyFits, BooksFit, Between, At
  <2>2. pnl = own[e]
    BY <1>0, <1>7, <2>1
  <2>3. apart' = apart /\ misled' = misled /\ (clear' => clear)
    BY <1>7 DEF Compared
  <2>4. engine'[e].equity + own'[e] = free' + earn' - apart'[e]
    BY <1>0, <1>4, <1>5, <1>6, <2>2, <2>3
  <2>5. MoneyFits(e)'
    BY <1>3, <1>5, <2>4 DEF MoneyFits, BooksFit, MovesFit, Between, InFlight, At
  <2> QED BY <1>1, <1>2, <1>3, <1>7, <2>2, <2>3, <2>5
<1>8. CASE blurred[e] \/ b # free
  <2>1. apart'[e] = apart[e] + own[e] - pnl
    BY <1>0, <1>8 DEF Compared
  <2>2. misled'[e] = Greater(misled[e], -pnl) /\ ~clear'
    BY <1>0, <1>8 DEF Compared
  <2>3. engine'[e].equity + own'[e] = free' + earn' - apart'[e]
    <3>1. engine[e].equity + pnl + 0 = free + earn - (apart[e] + own[e] - pnl)
      BY <1>0, <1>1, <1>6
    <3> QED BY <1>4, <1>5, <2>1, <3>1
  <2>4. MoneyFits(e)'
    BY <1>3, <1>5, <2>3 DEF MoneyFits, BooksFit, MovesFit, Between, InFlight, At
  <2> QED BY <1>1, <1>2, <1>3, <1>8, <2>2, <2>4
<1> QED BY <1>0, <1>7, <1>8

(* Auto-Earn moves money within the account (auto_earn_hook.py), and a     *)
(* process that starts anew takes what it finds for its capital; what it   *)
(* does not count is apart (robin_hood_risk.py:68-78).                     *)
LEMMA EarnAndCrashFit ==
    ASSUME NEW e \in Executors, IInv, MoneyFits(e), AutoEarn(e) \/ Crash(e)
    PROVE  /\ MoneyFits(e)' /\ exec'[e] = Idle
           /\ (engine' = engine /\ (clear' => clear)) \/ ~clear'
<1>0. /\ e \in Procs /\ e # Scanner /\ engine \in [Procs -> Engine]
      /\ exec \in [Executors -> [at : Places, capital : 0..MaxPorCiclo,
                                 before : Nat, pnl : Nat]]
      /\ exec[e].pnl \in Nat /\ free \in Nat /\ earn \in Nat
      /\ own \in [Executors -> Int] /\ apart \in [Executors -> Int]
  BY ExecutorTyped
<1>1. exec'[e] = Idle
  BY <1>0 DEF AutoEarn, Crash
<1>2. ~Between(e)' /\ ~InFlight(e)' /\ ~At(e, "after")'
      /\ exec'[e].at \notin {"leg2", "leg3"}
  BY <1>1 DEF Between, InFlight, At, Idle
<1>3. CASE AutoEarn(e)
  <2>1. UNCHANGED <<engine, own, apart, clear>> /\ exec[e].at = "earn"
    BY <1>3 DEF AutoEarn, At
  <2>2. free' + earn' - apart[e] = free + earn - apart[e]
    <3>1. apart[e] \in Int
      BY <1>0
    <3> QED BY <1>0, <1>3, <3>1 DEF AutoEarn, account
  <2>3. own[e] = 0
    BY <2>1 DEF MoneyFits, MovesFit, InFlight
  <2> QED BY <1>1, <1>2, <2>1, <2>2, <2>3 DEF MoneyFits, BooksFit, MovesFit
<1>4. CASE Crash(e)
  <2>1. PICK b \in {free, 0} : engine' = [engine EXCEPT ![e] = FreshEngine(b)]
    BY <1>4 DEF Crash
  <2> DEFINE r == FreshEngine(b)
  <2>2. r \in Engine /\ engine'[e] = r
    <3>1. r \in Engine
      BY <1>0, FreshEngineTyped
    <3> HIDE DEF r
    <3>2. engine' = [engine EXCEPT ![e] = r]
      BY <2>1 DEF r
    <3> QED BY <1>0, <3>1, <3>2
  <2> HIDE DEF r
  <2>3. /\ own'[e] = 0 /\ apart'[e] = free + earn - engine'[e].equity
        /\ UNCHANGED <<free, earn>> /\ ~clear'
    BY <1>0, <1>4 DEF Crash, account
  <2>4. engine'[e].equity \in Int
    BY <2>2 DEF Engine
  <2>5. engine'[e].equity + own'[e] = free' + earn' - apart'[e]
    BY <1>0, <2>3, <2>4
  <2> QED BY <1>1, <1>2, <2>3, <2>5 DEF MoneyFits, BooksFit, MovesFit
<1> QED BY <1>3, <1>4

(* Every step of the network keeps the books of every executor.            *)
LEMMA MoneyKept ==
    ASSUME NEW e \in Executors, IInv, MoneyFits(e), [Next]_vars
    PROVE  MoneyFits(e)'
<1>1. CASE StepOfOthers(e)
  BY <1>1, OthersLeaveIt, UntouchedFits
<1>2. CASE StepOfEngine(e)
  BY <1>2, EngineLeavesIt, UntouchedFits
<1>3. CASE StepOfTriangle(e)
  <2>1. CASE Record(e)
    BY <2>1, RecordFits DEF Record
  <2> QED BY <1>3, <2>1, AcceptFits, LegsFit, EarnAndCrashFit DEF StepOfTriangle
<1> QED BY <1>1, <1>2, <1>3, StepsOfThree

(* The books at the beginning.                                             *)
LEMMA MoneyStarts == ASSUME Init, NEW e \in Executors PROVE MoneyFits(e)
<1>1. /\ engine[e] = FreshEngine(Deposit) /\ exec[e] = Idle /\ own[e] = 0
      /\ apart[e] = 0 /\ free = Deposit /\ earn = 0
  BY ProcsAreDifferent DEF Init
<1>2. engine[e].equity = Deposit /\ Deposit \in Nat
  BY <1>1, TriNetAssumption DEF TriNetAssumption, FreshEngine
<1>3. engine[e].equity + own[e] = free + earn - apart[e]
  BY <1>1, <1>2
<1> QED
  BY <1>1, <1>3 DEF MoneyFits, BooksFit, MovesFit, InFlight, Between, At, Idle

(* The books of every executor, but for what is apart, are right whenever  *)
(* its triangle has no money of the account: for any number of executors   *)
(* on the account, any results, failed orders, lost answers, failed        *)
(* balance requests and crashes (base_executor.py:127-185,                 *)
(* auto_earn_hook.py, robin_hood_risk.py:62-82).                           *)
THEOREM BooksAreRight == Spec => []BooksBalance
<1> DEFINE AllFit == \A e \in Executors : MoneyFits(e)
<1>1. Init => AllFit
  BY MoneyStarts
<1>2. IInv /\ AllFit /\ [Next]_vars => AllFit'
  BY MoneyKept
<1>3. IInv /\ AllFit => BooksBalance
  <2> SUFFICES ASSUME IInv, AllFit, NEW e \in Executors, ~InFlight(e)
               PROVE  engine[e].equity = free + earn - apart[e]
    BY DEF BooksBalance
  <2>1. own[e] = 0 /\ engine[e].equity + own[e] = free + earn - apart[e]
    BY DEF MoneyFits, BooksFit, MovesFit
  <2> QED BY <2>1, ExecutorTyped
<1> HIDE DEF AllFit
<1> QED BY <1>1, <1>2, <1>3, Invariance, PTL DEF Spec

-----------------------------------------------------------------------------
(* What the account loses.                                                 *)

(* As long as every record was the executor's own, an engine is at most one*)
(* order below its limit, which is that of the deposit or a higher one.    *)
LossesFit(e) ==
    clear => /\ engine[e].peak >= Deposit
             /\ (engine[e].peak - engine[e].equity) * 100
                     < MaxDrawdownPct * engine[e].peak + 100 * MaxPorCiclo

(* The limit, from below and from above, as a bound on what was lost.      *)
LEMMA LimitOfDeposit ==
    ASSUME NEW peak \in Int, NEW equity \in Int, NEW n \in Nat, peak >= Deposit,
           (peak - equity) * 100 < MaxDrawdownPct * peak + n
    PROVE  (Deposit - equity) * 100 < MaxDrawdownPct * Deposit + n
<1>1. Deposit \in Nat /\ MaxDrawdownPct \in Nat /\ 100 - MaxDrawdownPct \in Nat
  BY RiskAssumption, TriNetAssumption DEF RiskAssumption, TriNetAssumption
<1>2. peak - Deposit \in Nat
  BY <1>1
<1>3. \A x, y \in Nat : x * y >= 0
  OBVIOUS
<1>4. (100 - MaxDrawdownPct) * (peak - Deposit) >= 0
  BY <1>1, <1>2, <1>3
<1>5. /\ (100 - MaxDrawdownPct) * (peak - Deposit)
           = 100 * peak - 100 * Deposit - MaxDrawdownPct * peak + MaxDrawdownPct * Deposit
      /\ MaxDrawdownPct * peak \in Int /\ MaxDrawdownPct * Deposit \in Int
  BY <1>1
<1> QED BY <1>1, <1>4, <1>5

(* record_trade after a triangle that lost at most its capital, begun below*)
(* the limit: at most one order below it (robin_hood_risk.py:160-190).     *)
LEMMA RecordWithinOrder ==
    ASSUME NEW r \in Engine, r.equity <= r.peak, 0 < r.peak, ~LimitReached(r),
           NEW pnl \in Int, pnl >= -MaxPorCiclo, MaxPorCiclo \in Nat,
           NEW s, s = AfterTrade(r, pnl)
    PROVE  /\ s.equity = r.equity + pnl /\ s.peak >= r.peak
           /\ (s.peak - s.equity) * 100 < MaxDrawdownPct * s.peak + 100 * MaxPorCiclo
<1> DEFINE e == r.equity + pnl
           p == IF e > r.peak THEN e ELSE r.peak
           t == [r EXCEPT !.equity = e, !.peak = p]
<1>1. r.equity \in Int /\ r.peak \in Int /\ e \in Int /\ p \in Int /\ p >= r.peak
  BY DEF Engine
<1>2. t \in Engine /\ t.equity = e /\ t.peak = p
  BY <1>1 DEF Engine
<1>3. s.equity = e /\ s.peak = p
  <2>1. s = t \/ s = AfterPause(t)
    BY DEF AfterTrade
  <2> HIDE DEF t
  <2> QED BY <1>2, <2>1, MoneyUntouched
<1>4. MaxDrawdownPct \in Nat \ {0} /\ MaxPorCiclo \in Nat
  BY RiskAssumption DEF RiskAssumption
<1>5. \A x, y \in Nat \ {0} : x * y \in Nat /\ x * y > 0
  OBVIOUS
<1>6. s.equity = r.equity + pnl /\ s.peak >= r.peak
  BY <1>1, <1>3
<1>7. (s.peak - s.equity) * 100 < MaxDrawdownPct * s.peak + 100 * MaxPorCiclo
  <2>1. CASE e > r.peak
    <3>1. p = e /\ p \in Nat \ {0}
      BY <1>1, <2>1
    <3>2. MaxDrawdownPct * p > 0 /\ MaxDrawdownPct * p \in Int
      BY <1>4, <1>5, <3>1
    <3> HIDE DEF e, p
    <3> QED BY <1>1, <1>3, <1>4, <3>1, <3>2
  <2>2. CASE ~(e > r.peak)
    <3>1. p = r.peak
      BY <2>2
    <3>2. (r.peak - r.equity) * 100 < MaxDrawdownPct * r.peak /\ MaxDrawdownPct * r.peak \in Int
      BY <1>1, <1>4 DEF LimitReached, DrawdownAtLeast
    <3>3. 100 * e >= 100 * r.equity - 100 * MaxPorCiclo
      BY <1>1, <1>4
    <3>4. (r.peak - e) * 100 < MaxDrawdownPct * r.peak + 100 * MaxPorCiclo
      BY <1>1, <1>4, <3>2, <3>3
    <3> HIDE DEF e, p
    <3> QED BY <1>3, <3>1, <3>4
  <2> QED BY <2>1, <2>2
<1> QED BY <1>6, <1>7

(* The records of an executor keep its engine within its limit and one     *)
(* order (robin_hood_risk.py:104-190, base_executor.py:173-185).           *)
LEMMA LossesKept ==
    ASSUME NEW e \in Executors, IInv, MoneyFits(e), LossesFit(e), [Next]_vars
    PROVE  LossesFit(e)'
<1>1. ASSUME clear' => clear, engine'[e].equity = engine[e].equity,
             engine'[e].peak = engine[e].peak
      PROVE  LossesFit(e)'
  BY <1>1 DEF LossesFit
<1>2. CASE StepOfOthers(e)
  BY <1>1, <1>2, OthersLeaveIt DEF Untouched
<1>3. CASE StepOfEngine(e)
  BY <1>1, <1>3, EngineLeavesIt DEF Untouched
<1>4. CASE StepOfTriangle(e)
  <2>1. CASE Accept(e)
    BY <1>1, <2>1, AcceptFits
  <2>2. CASE ReadBefore(e) \/ Leg1(e) \/ Leg2(e) \/ Leg3(e)
    BY <1>1, <2>2, LegsFit
  <2>3. CASE AutoEarn(e) \/ Crash(e)
    <3>1. CASE ~clear'
      BY <3>1 DEF LossesFit
    <3> QED BY <1>1, <2>3, <3>1, EarnAndCrashFit
  <2>4. CASE Record(e)
    <3>1. PICK b \in {free, 0} :
              /\ Reads(b) /\ Finish(e, b - exec[e].before)
              /\ Compared(e, b - exec[e].before, blurred[e] \/ b # free)
      BY <2>4 DEF Record
    <3> DEFINE pnl == b - exec[e].before
               r == engine[e]
               t == AfterTrade(r, pnl)
    <3>2. At(e, "after")
      BY <2>4 DEF Record
    <3>3. /\ engine'[e] = t /\ pnl \in Int /\ (clear' => clear)
          /\ clear' => pnl = own[e]
      BY <3>1, <3>2, RecordFits
    <3>4. SUFFICES ASSUME clear'
                   PROVE  /\ engine'[e].peak >= Deposit
                          /\ (engine'[e].peak - engine'[e].equity) * 100
                               < MaxDrawdownPct * engine'[e].peak + 100 * MaxPorCiclo
      BY DEF LossesFit
    <3>5. own[e] >= -exec[e].capital /\ ~LimitReached(r) /\ r.peak >= Deposit
      BY <3>2, <3>3, <3>4
      DEF MoneyFits, MovesFit, LossesFit, At, IInv, BelowLimitWhileTrading, Trading
    <3>6. /\ r \in Engine /\ r.equity <= r.peak /\ r.peak \in Int /\ own[e] \in Int
          /\ exec[e].capital \in Nat /\ exec[e].capital <= MaxPorCiclo
          /\ MaxPorCiclo \in Nat /\ Deposit \in Nat \ {0}
      BY ExecutorTyped
    <3> HIDE DEF pnl, r
    <3>7. pnl >= -MaxPorCiclo /\ 0 < r.peak
      BY <3>3, <3>4, <3>5, <3>6
    <3>8. /\ t.peak >= r.peak
          /\ (t.peak - t.equity) * 100 < MaxDrawdownPct * t.peak + 100 * MaxPorCiclo
      BY <3>3, <3>5, <3>6, <3>7, RecordWithinOrder
    <3>9. t.peak \in Int
      BY <3>3, <3>6, TradeTyped DEF Engine
    <3> HIDE DEF t
    <3>10. t.peak >= Deposit
      BY <3>5, <3>6, <3>8, <3>9
    <3> QED BY <3>3, <3>8, <3>10
  <2> QED BY <1>4, <2>1, <2>2, <2>3, <2>4 DEF StepOfTriangle
<1> QED BY <1>2, <1>3, <1>4, StepsOfThree

(* The first engines start from the deposit.                               *)
LEMMA LossesStart == ASSUME Init, NEW e \in Executors PROVE LossesFit(e)
<1> DEFINE r == engine[e]
<1>1. r = FreshEngine(Deposit)
  BY ProcsAreDifferent DEF Init
<1>2. r.equity = Deposit /\ r.peak = Deposit /\ Deposit \in Nat \ {0} /\ MaxPorCiclo \in Nat
  BY <1>1, TriNetAssumption, RiskAssumption DEF TriNetAssumption, RiskAssumption, FreshEngine
<1> HIDE DEF r
<1>3. MaxDrawdownPct * r.peak > 0 /\ MaxDrawdownPct * r.peak \in Int
  <2>1. \A x, y \in Nat \ {0} : x * y \in Int /\ x * y > 0
    OBVIOUS
  <2>2. MaxDrawdownPct \in Nat \ {0} /\ r.peak \in Nat \ {0}
    BY <1>2, RiskAssumption DEF RiskAssumption
  <2> QED BY <2>1, <2>2
<1>4. (r.peak - r.equity) * 100 < MaxDrawdownPct * r.peak + 100 * MaxPorCiclo
  BY <1>2, <1>3
<1>5. r.peak >= Deposit
  BY <1>2
<1> QED BY <1>4, <1>5 DEF r, LossesFit

(* What the account won or lost is what the two executors' triangles won or*)
(* lost: each is apart for the other's engine.                             *)
AccountFits(a, b) == clear => free + earn - Deposit = apart[a] + apart[b]

(* The first leg takes, the third brings back, and only these move money   *)
(* that is not only moved to Earn (base_executor.py:127-171).              *)
LEMMA AccountByMove ==
    ASSUME NEW a \in Executors, NEW b \in Executors, a # b, Executors = {a, b}, IInv,
           NEW f \in Executors, NEW amount \in Int, Moves(f, amount), AccountFits(a, b)
    PROVE  AccountFits(a, b)'
<1>1. /\ free \in Nat /\ earn \in Nat /\ apart[a] \in Int /\ apart[b] \in Int
      /\ Deposit \in Nat
  BY ExecutorTyped
<1>2. /\ free' = free + amount /\ earn' = earn /\ clear' = clear
      /\ apart'[a] = IF a = f THEN apart[a] ELSE apart[a] + amount
      /\ apart'[b] = IF b = f THEN apart[b] ELSE apart[b] + amount
  BY DEF Moves
<1>3. apart'[a] + apart'[b] = apart[a] + apart[b] + amount
  <2>1. CASE f = a
    BY <1>1, <1>2, <2>1
  <2>2. CASE f = b
    BY <1>1, <1>2, <2>2
  <2> QED BY <2>1, <2>2
<1> QED BY <1>1, <1>2, <1>3 DEF AccountFits

(* No other step changes the sum, unless it is a restart or a record that  *)
(* is not the executor's own (base_executor.py:173-174).                   *)
LEMMA AccountKept ==
    ASSUME NEW a, NEW b, a # b, Executors = {a, b}, IInv, AccountFits(a, b), [Next]_vars
    PROVE  AccountFits(a, b)'
<1>0. a \in Executors /\ b \in Executors
  OBVIOUS
<1>1. ASSUME UNCHANGED <<account, history>> PROVE AccountFits(a, b)'
  BY <1>1 DEF AccountFits, account, history
<1>2. ASSUME ~clear' PROVE AccountFits(a, b)'
  BY <1>2 DEF AccountFits
<1>3. CASE StartCycle \/ FindBest \/ WviPause \/ EndCycle \/ Tick \/ UNCHANGED vars
  <2>1. UNCHANGED <<account, history>>
    BY <1>3 DEF StartCycle, FindBest, WviPause, EndCycle, Tick, vars
  <2> QED BY <1>1, <2>1
<1>4. CASE \E p \in Procs : RunPauseTask(p) \/ Crash(p)
  <2>1. ASSUME NEW p \in Procs, RunPauseTask(p) PROVE AccountFits(a, b)'
    BY <1>1, <2>1 DEF RunPauseTask
  <2>2. ASSUME NEW p \in Procs, Crash(p) PROVE AccountFits(a, b)'
    <3>1. CASE p = Scanner
      BY <1>1, <2>2, <3>1 DEF Crash
    <3>2. CASE p # Scanner
      <4>1. clear' = FALSE
        BY <2>2, <3>2 DEF Crash
      <4> QED BY <1>2, <4>1
    <3> QED BY <3>1, <3>2
  <2> QED BY <1>4, <2>1, <2>2
<1>5. ASSUME NEW f \in Executors,
             HandleAlert(f) \/ Filter(f) \/ Refuse(f) \/ Accept(f) \/ Leg2(f)
      PROVE  AccountFits(a, b)'
  <2>1. UNCHANGED <<account, history>>
    BY <1>5 DEF HandleAlert, Filter, Refuse, Accept, Begin, Leg2
  <2> QED BY <1>1, <2>1
<1>6. ASSUME NEW f \in Executors, Leg1(f) \/ Leg3(f) PROVE AccountFits(a, b)'
  <2>1. exec[f].capital \in Int
    BY ExecutorTyped
  <2>2. \/ UNCHANGED <<account, history>>
        \/ \E amount \in Int : Moves(f, amount)
    <3>1. -exec[f].capital \in Int /\ \A r \in Results : exec[f].capital + r \in Int
      BY <2>1, SumsAreNumbers, TriNetAssumption, Zenon DEF TriNetAssumption
    <3> QED BY <1>6, <3>1 DEF Leg1, Leg3
  <2> QED BY <1>0, <1>1, <2>2, AccountByMove
<1>7. ASSUME NEW f \in Executors, ReadBefore(f) PROVE AccountFits(a, b)'
  <2>1. UNCHANGED <<free, earn, apart, clear>>
    BY <1>7 DEF ReadBefore, account
  <2> QED BY <2>1 DEF AccountFits
<1>8. ASSUME NEW f \in Executors, Record(f) PROVE AccountFits(a, b)'
  <2>1. PICK pnl, another : Finish(f, pnl) /\ Compared(f, pnl, another)
    BY <1>8 DEF Record
  <2>2. CASE another
    <3>1. ~clear'
      BY <2>1, <2>2 DEF Compared
    <3> QED BY <1>2, <3>1
  <2>3. CASE ~another
    <3>1. UNCHANGED <<free, earn, apart>> /\ (clear' => clear)
      BY <2>1, <2>3 DEF Compared, Finish, account
    <3> QED BY <3>1 DEF AccountFits
  <2> QED BY <2>2, <2>3
<1>9. ASSUME NEW f \in Executors, AutoEarn(f) PROVE AccountFits(a, b)'
  <2>1. UNCHANGED <<apart, clear>>
    BY <1>9 DEF AutoEarn
  <2>2. free' + earn' - Deposit = free + earn - Deposit
    <3>1. free \in Nat /\ earn \in Nat /\ exec[f].pnl \in Nat /\ Deposit \in Nat
      BY ExecutorTyped
    <3>2. CASE free' = free - exec[f].pnl /\ earn' = earn + exec[f].pnl
      BY <3>1, <3>2
    <3> QED BY <1>9, <3>2 DEF AutoEarn, account
  <2> QED BY <2>1, <2>2 DEF AccountFits
<1> QED BY <1>3, <1>4, <1>5, <1>6, <1>7, <1>8, <1>9 DEF Next

(* The account of the two executors that docker-compose.yml deploys: as    *)
(* long as none restarts and every record is of its own triangle, it has   *)
(* lost less than the limit and one order for each of them                 *)
(* (robin_hood_risk.py:104-190), whatever became of the orders.            *)
THEOREM AccountIsProtected ==
    ASSUME NEW a, NEW b, a # b, Executors = {a, b}
    PROVE  Spec => []AccountProtected
<1> DEFINE Fit == /\ MoneyFits(a) /\ MoneyFits(b)
                  /\ LossesFit(a) /\ LossesFit(b) /\ AccountFits(a, b)
<1>0. a \in Executors /\ b \in Executors
  OBVIOUS
<1>1. Init => Fit
  <2> SUFFICES ASSUME Init PROVE Fit
    OBVIOUS
  <2>1. AccountFits(a, b)
    <3>1. free = Deposit /\ earn = 0 /\ apart[a] = 0 /\ apart[b] = 0
      BY <1>0 DEF Init
    <3>2. Deposit \in Nat
      BY TriNetAssumption DEF TriNetAssumption
    <3> QED BY <3>1, <3>2 DEF AccountFits
  <2> QED BY <1>0, <2>1, MoneyStarts, LossesStart
<1>2. IInv /\ Fit /\ [Next]_vars => Fit'
  BY <1>0, MoneyKept, LossesKept, AccountKept
<1>3. IInv /\ Fit => AccountProtected
  <2> SUFFICES ASSUME IInv, Fit, clear, Quiet PROVE AccountProtected
    BY DEF AccountProtected
  <2>1. Cardinality(Executors) = 2
    <3>1. IsFiniteSet({a}) /\ Cardinality({a}) = 1
      BY FS_Singleton
    <3>2. Cardinality({a} \cup {b}) = Cardinality({a}) + 1
      BY <3>1, FS_AddElement
    <3>3. Executors = {a} \cup {b}
      OBVIOUS
    <3> QED BY <3>1, <3>2, <3>3
  <2> DEFINE orders == 100 * MaxPorCiclo
             limit == MaxDrawdownPct * Deposit
             rest == free + earn
  <2>2. /\ orders \in Nat /\ limit \in Nat /\ rest \in Nat /\ Deposit \in Nat
    BY <1>0, ExecutorTyped, RiskAssumption DEF RiskAssumption
  <2>3. \A e \in Executors : (Deposit - (rest - apart[e])) * 100 < limit + orders
    <3> SUFFICES ASSUME NEW e \in Executors
                 PROVE  (Deposit - (rest - apart[e])) * 100 < limit + orders
      OBVIOUS
    <3>1. /\ engine[e].equity \in Int /\ engine[e].peak \in Int /\ apart[e] \in Int
      BY ExecutorTyped
    <3>2. MoneyFits(e) /\ LossesFit(e)
      BY <1>0
    <3>3. own[e] = 0
      BY <3>2 DEF MoneyFits, MovesFit, InFlight, Quiet
    <3>4. engine[e].equity = rest - apart[e]
      <4>1. engine[e].equity + own[e] = free + earn - apart[e]
        BY <3>2 DEF MoneyFits, BooksFit
      <4>2. free \in Nat /\ earn \in Nat
        BY ExecutorTyped
      <4> QED BY <3>1, <3>3, <4>1, <4>2
    <3>5. (Deposit - engine[e].equity) * 100 < MaxDrawdownPct * Deposit + orders
      <4>1. /\ engine[e].peak >= Deposit
            /\ (engine[e].peak - engine[e].equity) * 100
                    < MaxDrawdownPct * engine[e].peak + orders
        BY <3>2 DEF LossesFit
      <4> HIDE DEF orders
      <4> QED BY <2>2, <3>1, <4>1, LimitOfDeposit
    <3> QED BY <3>4, <3>5
  <2>4. rest - Deposit = apart[a] + apart[b]
    <3>1. clear /\ AccountFits(a, b)
      OBVIOUS
    <3>2. free + earn - Deposit = apart[a] + apart[b]
      BY <3>1 DEF AccountFits
    <3>3. free \in Nat /\ earn \in Nat /\ Deposit \in Nat
      BY <1>0, ExecutorTyped
    <3> QED BY <3>2, <3>3
  <2>5. /\ apart[a] \in Int /\ apart[b] \in Int
        /\ (Deposit - (rest - apart[a])) * 100 < limit + orders
        /\ (Deposit - (rest - apart[b])) * 100 < limit + orders
    BY <1>0, <2>3, ExecutorTyped
  <2> HIDE DEF orders, limit, rest
  <2>6. (Deposit - rest) * 100 < 2 * (limit + orders)
    BY <2>2, <2>4, <2>5
  <2> QED BY <2>1, <2>6 DEF AccountProtected, orders, limit, rest
<1> HIDE DEF Fit
<1> QED BY <1>1, <1>2, <1>3, Invariance, PTL DEF Spec

-----------------------------------------------------------------------------
(* The refinement: the steps of the network, with the engine of one        *)
(* executor, the capital of its triangle and the losses that were recorded *)
(* and not made, are steps of RobinHood.tla.                               *)

(* No triangle wins more than the deposit, and the account and the equities*)
(* stay within the bounds RobinHood is instantiated with.                  *)
ResultsFit == \A r \in Results : r <= Deposit

WithinBounds ==
    /\ free <= 2 * Deposit
    /\ \A e \in Executors : engine[e].equity <= (MaxOpps + 1) * (2 * Deposit)

(* What a triangle has at stake is worth an order, what it moved is a      *)
(* result, and what was read before is a balance.                          *)
StakeFits(e) ==
    /\ Trading(e) => exec[e].capital >= MinOrder
    /\ At(e, "after") => own[e] <= Deposit
    /\ exec[e].before <= 2 * Deposit

RuleStep(e) == [Rules(e)!Next]_(Rules(e)!vars)

(* The engine's operators are the same in both modules.                    *)
LEMMA SameOperators ==
    ASSUME NEW e, NEW r, NEW x
    PROVE  /\ Rules(e)!AfterAsking(r) = AfterAsking(r)
           /\ Rules(e)!AfterTick(r) = AfterTick(r)
           /\ Rules(e)!AfterTask(r) = AfterTask(r)
           /\ Rules(e)!AfterTrade(r, x) = AfterTrade(r, x)
           /\ Rules(e)!FreshEngine(x) = FreshEngine(x)
           /\ Rules(e)!Allowed(r) <=> Allowed(r)
           /\ Rules(e)!OrderSize(r) = OrderSize(r)
<1>1. \A s : Rules(e)!LimitReached(s) = LimitReached(s)
  BY DEF Rules!LimitReached, LimitReached, Rules!DrawdownAtLeast, DrawdownAtLeast
<1>2. \A s : Rules(e)!BelowShutdown(s) = BelowShutdown(s) /\ Rules(e)!InPause(s) = InPause(s)
  BY DEF Rules!BelowShutdown, BelowShutdown, Rules!InPause, InPause
<1>3. \A s : Rules(e)!AfterPause(s) = AfterPause(s)
  BY DEF Rules!AfterPause, AfterPause
<1>4. Rules(e)!AfterAsking(r) = AfterAsking(r)
  BY <1>1, <1>2 DEF Rules!AfterAsking, AfterAsking
<1>5. Rules(e)!AfterTick(r) = AfterTick(r) /\ Rules(e)!AfterTask(r) = AfterTask(r)
  BY <1>3 DEF Rules!AfterTick, AfterTick, Rules!AfterTask, AfterTask
<1>6. Rules(e)!AfterTrade(r, x) = AfterTrade(r, x)
  BY <1>1, <1>3 DEF Rules!AfterTrade, AfterTrade
<1>7. Rules(e)!FreshEngine(x) = FreshEngine(x)
  BY DEF Rules!FreshEngine, FreshEngine
<1>8. Rules(e)!Allowed(r) <=> Allowed(r)
  BY <1>1, <1>2 DEF Rules!Allowed, Allowed
<1>9. Rules(e)!OrderSize(r) = OrderSize(r)
  BY DEF Rules!OrderSize, OrderSize, Rules!BaseSize, BaseSize
<1> QED BY <1>4, <1>5, <1>6, <1>7, <1>8, <1>9

(* A step that leaves the engine and the stake of the executor alone.      *)
LEMMA RuleStutter ==
    ASSUME NEW e, engine'[e] = engine[e], Stake(e)' = Stake(e), misled'[e] = misled[e]
    PROVE  RuleStep(e)
  BY DEF RuleStep, Rules!vars

(* A triangle is begun below the limit with an order the engine permits    *)
(* (base_executor.py:84-113).                                              *)
LEMMA AcceptedOrder ==
    ASSUME NEW e \in Executors, IInv, Accept(e)
    PROVE  /\ exec[e].at = "idle" /\ exec'[e].at = "before"
           /\ exec'[e].capital \in MinOrder..OrderSize(engine[e])
           /\ exec'[e].capital >= MinOrder
<1> DEFINE size == Smaller(offered[Head(inbox[e])], OrderSize(engine[e]))
<1>0. /\ e \in Executors /\ engine[e] \in Engine /\ engine[e].equity <= engine[e].peak
  BY ExecutorTyped
<1>1. Begin(e, size) /\ size >= MinOrder /\ Allowed(engine[e]) /\ exec[e].at = "idle"
  BY DEF Accept, NextMessage
<1>2. OrderSize(engine[e]) \in Int
  BY <1>0, <1>1, AllowedOrder
<1>3. size \in Int /\ size <= OrderSize(engine[e])
  <2>1. /\ Head(inbox[e]) \in 0..Len(offered) /\ Head(inbox[e]) # 0
        /\ offered \in Seq(1..MaxPorCiclo) /\ Len(offered) \in Nat
    BY <1>0, ReadTyped, LenProperties
    DEF Accept, NextMessage, PauseAlert, IInv, MessagesSound
  <2>2. Head(inbox[e]) \in 1..Len(offered)
    BY <2>1
  <2>3. offered[Head(inbox[e])] \in 1..MaxPorCiclo
    BY <2>1, <2>2, ElementOfSeq
  <2> QED BY <1>2, <2>3 DEF Smaller
<1> HIDE DEF size
<1>4. exec'[e].at = "before" /\ exec'[e].capital = size
  BY <1>0, <1>1 DEF Begin, IInv, ExecutorsSound, Idle
<1> QED BY <1>1, <1>2, <1>3, <1>4, RiskAssumption DEF RiskAssumption

(* What the others do is no step of the rules, and what only concerns the  *)
(* engine is a request, a pause or the clock (robin_hood_risk.py:104-136). *)
LEMMA QuietKeepsRules ==
    ASSUME NEW e \in Executors, IInv, StepOfOthers(e) \/ StepOfEngine(e)
    PROVE  RuleStep(e)
<1>0. e \in Procs /\ engine \in [Procs -> Engine]
  BY ExecutorTyped
<1>1. Stake(e)' = Stake(e) /\ misled'[e] = misled[e]
  BY OthersLeaveIt, EngineLeavesIt DEF Untouched, Stake
<1>2. CASE StepOfOthers(e) \/ HandleAlert(e) \/ Filter(e)
  <2>1. engine'[e] = engine[e]
    BY <1>2, OthersLeaveIt DEF HandleAlert, Filter
  <2> QED BY <1>1, <2>1, RuleStutter
<1>3. CASE Refuse(e)
  <2>1. engine'[e] = AfterAsking(engine[e])
    BY <1>0, <1>3 DEF Refuse
  <2>2. Rules(e)!Ask
    BY <1>1, <2>1, SameOperators DEF Rules!Ask
  <2> QED BY <2>2 DEF RuleStep, Rules!Next
<1>4. CASE Tick
  <2>1. engine'[e] = AfterTick(engine[e]) /\ ~engine[e].task
    BY <1>0, <1>4 DEF Tick
  <2>2. Rules(e)!Tick
    BY <1>1, <2>1, SameOperators DEF Rules!Tick
  <2> QED BY <2>2 DEF RuleStep, Rules!Next
<1>5. CASE RunPauseTask(e)
  <2>1. engine'[e] = AfterTask(engine[e]) /\ engine[e].task
    BY <1>0, <1>5 DEF RunPauseTask
  <2>2. Rules(e)!RunPauseTask
    BY <1>1, <2>1, SameOperators DEF Rules!RunPauseTask
  <2> QED BY <2>2 DEF RuleStep, Rules!Next
<1> QED BY <1>2, <1>3, <1>4, <1>5 DEF StepOfEngine

(* The executor opens a trade when the engine allows it, of a size it      *)
(* permits; the way of the triangle is no step of the rules; and a new     *)
(* process takes what it finds for its capital (base_executor.py:46-171,   *)
(* robin_hood_risk.py:62-82).                                              *)
LEMMA TriangleKeepsRules ==
    ASSUME NEW e \in Executors, IInv, WithinBounds,
           \/ Accept(e) \/ ReadBefore(e) \/ Leg1(e) \/ Leg2(e) \/ Leg3(e)
           \/ AutoEarn(e) \/ Crash(e)
    PROVE  RuleStep(e)
<1>0. /\ e \in Procs /\ e # Scanner /\ engine \in [Procs -> Engine]
      /\ exec \in [Executors -> [at : Places, capital : 0..MaxPorCiclo,
                                 before : Nat, pnl : Nat]]
      /\ own \in [Executors -> Int] /\ misled \in [Executors -> Nat]
      /\ free \in Nat /\ Deposit \in Nat \ {0} /\ ExecutorsSound
  BY ExecutorTyped DEF IInv
<1>1. CASE Accept(e)
  <2>1. Stake(e) = 0 /\ Stake(e)' \in MinOrder..OrderSize(engine[e])
    BY <1>1, AcceptedOrder DEF Stake
  <2>2. engine'[e] = AfterAsking(engine[e]) /\ Allowed(engine[e]) /\ misled' = misled
    BY <1>0, <1>1 DEF Accept, Begin, history
  <2>3. Rules(e)!OpenTrade
    BY <2>1, <2>2, SameOperators DEF Rules!OpenTrade
  <2> QED BY <2>3 DEF RuleStep, Rules!Next
<1>2. CASE ReadBefore(e) \/ Leg1(e) \/ Leg2(e) \/ Leg3(e)
  <2>1. engine' = engine /\ Trading(e) /\ misled' = misled
    BY <1>2 DEF ReadBefore, Leg1, Leg2, Leg3, Moves, At, Trading, history
  <2>2. exec'[e].capital = exec[e].capital /\ exec'[e].at \notin {"idle", "earn"}
    <3>1. CASE ReadBefore(e)
      BY <1>0, <3>1 DEF ReadBefore
    <3>2. CASE Leg1(e) \/ Leg2(e) \/ Leg3(e)
      <4>1. PICK place \in {"leg2", "leg3", "after"} : GoTo(e, place)
        BY <3>2 DEF Leg1, Leg2, Leg3
      <4> QED BY <1>0, <4>1, GoesTo
    <3> QED BY <1>2, <3>1, <3>2
  <2>3. Stake(e)' = Stake(e)
    BY <2>1, <2>2 DEF Stake, Trading
  <2> QED BY <2>1, <2>3, RuleStutter
<1>3. CASE AutoEarn(e)
  <2>1. engine' = engine /\ exec[e].at = "earn" /\ exec'[e] = Idle /\ misled' = misled
    BY <1>0, <1>3 DEF AutoEarn, At
  <2> QED BY <2>1, RuleStutter DEF Stake, Idle
<1>4. CASE Crash(e)
  <2>1. PICK b \in {free, 0} : engine' = [engine EXCEPT ![e] = FreshEngine(b)]
    BY <1>4 DEF Crash
  <2>2. exec'[e] = Idle /\ misled'[e] = 0
    BY <1>0, <1>4 DEF Crash
  <2>3. engine'[e] = FreshEngine(b)
    BY <1>0, <2>1
  <2>4. b \in 0..(2 * Deposit)
    BY <1>0 DEF WithinBounds
  <2>5. Rules(e)!Restart
    BY <2>2, <2>3, <2>4, SameOperators DEF Rules!Restart, Stake, Idle
  <2> QED BY <2>5 DEF RuleStep, Rules!Next
<1> QED BY <1>1, <1>2, <1>3, <1>4

(* The record of a triangle closes the trade: with what the triangle won or*)
(* lost, or with the difference of two balances (base_executor.py:173-185, *)
(* binance_connector.py:169).                                              *)
LEMMA RecordKeepsRules ==
    ASSUME NEW e \in Executors, IInv, MoneyFits(e), StakeFits(e), WithinBounds, WithinBounds',
           Record(e)
    PROVE  RuleStep(e)
<1>0. /\ engine[e] \in Engine /\ engine[e].equity \in Int /\ engine[e].equity <= engine[e].peak
      /\ exec[e].capital \in Nat /\ exec[e].before \in Nat /\ free \in Nat
      /\ own[e] \in Int /\ Deposit \in Nat \ {0} /\ MinOrder \in Nat \ {0}
  BY ExecutorTyped, RiskAssumption DEF RiskAssumption
<1>1. PICK b \in {free, 0} :
          /\ Reads(b) /\ Finish(e, b - exec[e].before)
          /\ Compared(e, b - exec[e].before, blurred[e] \/ b # free)
  BY DEF Record
<1> DEFINE pnl == b - exec[e].before
           bound == (MaxOpps + 1) * (2 * Deposit)
<1>2. At(e, "after")
  BY DEF Record
<1>3. /\ pnl \in Int
      /\ engine'[e] = AfterTrade(engine[e], pnl)
      /\ exec'[e].at \in {"idle", "earn"}
      /\ (~blurred[e] /\ b = free) => (pnl = own[e] /\ UNCHANGED misled)
      /\ (blurred[e] \/ b # free) => misled'[e] = Greater(misled[e], -pnl)
  BY <1>1, <1>2, RecordFits
<1>4. /\ Stake(e) = exec[e].capital /\ exec[e].capital >= MinOrder /\ Stake(e)' = 0
      /\ own[e] >= -exec[e].capital /\ own[e] <= Deposit
      /\ b \in 0..(2 * Deposit) /\ exec[e].before \in 0..(2 * Deposit)
  BY <1>0, <1>2, <1>3
  DEF Stake, StakeFits, MoneyFits, MovesFit, Trading, At, WithinBounds
<1>5. engine[e].equity + pnl <= bound
  <2>1. engine'[e].equity <= bound
    BY DEF WithinBounds
  <2> HIDE DEF pnl, bound
  <2>2. engine'[e].equity = engine[e].equity + pnl
    BY <1>0, <1>3, TradeTyped
  <2> QED BY <2>1, <2>2
<1>6. Rules(e)!Recorded(pnl)
  <2> HIDE DEF pnl
  <2> QED BY <1>3, <1>5, SameOperators DEF Rules!Recorded, bound
<1>7. Stake(e) > 0
  BY <1>0, <1>4
<1>8. CASE ~blurred[e] /\ b = free
  <2>1. pnl \in -Stake(e)..Deposit /\ misled'[e] = misled[e]
    <3> HIDE DEF pnl
    <3> QED BY <1>0, <1>3, <1>4, <1>8
  <2> HIDE DEF pnl
  <2>2. Rules(e)!CloseTrade
    BY <1>4, <1>6, <1>7, <2>1 DEF Rules!CloseTrade
  <2> QED BY <2>2 DEF RuleStep, Rules!Next
<1>9. CASE blurred[e] \/ b # free
  <2>1. -pnl = exec[e].before - b
    BY <1>0, <1>4
  <2>2. misled'[e] = Rules(e)!Greater(misled[e], exec[e].before - b)
    <3> HIDE DEF pnl
    <3> QED BY <1>3, <1>9, <2>1 DEF Rules!Greater, Greater
  <2>3. Rules(e)!CloseTrade
    BY <1>4, <1>6, <1>7, <2>2 DEF Rules!CloseTrade
  <2> QED BY <2>3 DEF RuleStep, Rules!Next
<1> QED BY <1>8, <1>9

(* What is at stake fits, step by step: an accepted triangle is worth an   *)
(* order, and its legs take the capital and bring back a result            *)
(* (base_executor.py:84-171).                                              *)
LEMMA StakeKept ==
    ASSUME NEW e \in Executors, ResultsFit, IInv, MoneyFits(e), StakeFits(e), WithinBounds,
           [Next]_vars
    PROVE  StakeFits(e)'
<1>0. /\ exec \in [Executors -> [at : Places, capital : 0..MaxPorCiclo,
                                 before : Nat, pnl : Nat]] /\ ExecutorsSound
      /\ exec[e].capital \in Nat /\ exec[e].before \in Nat
      /\ free \in Nat /\ Deposit \in Nat \ {0}
      /\ own \in [Executors -> Int] /\ own[e] \in Int
  BY ExecutorTyped DEF IInv
<1>1. ASSUME exec'[e] = exec[e], own'[e] = own[e] PROVE StakeFits(e)'
  BY <1>1 DEF StakeFits, Trading, At
<1>2. ASSUME exec'[e].at \in {"idle", "earn"}, exec'[e].before = 0 PROVE StakeFits(e)'
  <2>1. 0 <= 2 * Deposit
    BY <1>0
  <2> QED BY <1>2, <2>1 DEF StakeFits, Trading, At
<1>3. CASE StepOfOthers(e) \/ StepOfEngine(e)
  BY <1>1, <1>3, OthersLeaveIt, EngineLeavesIt DEF Untouched
<1>4. CASE Record(e)
  <2>1. PICK pnl : Finish(e, pnl)
    BY <1>4 DEF Record
  <2>2. exec'[e] = AfterRecord(pnl)
    BY <1>0, <2>1 DEF Finish
  <2> QED BY <1>2, <2>2 DEF AfterRecord, Idle
<1>5. CASE AutoEarn(e) \/ Crash(e)
  <2>1. exec'[e] = Idle
    BY <1>5, EarnAndCrashFit
  <2> QED BY <1>2, <2>1 DEF Idle
<1>6. CASE Accept(e)
  <2>1. exec'[e].capital >= MinOrder /\ exec'[e].at = "before"
    BY <1>6, AcceptedOrder
  <2>2. exec'[e].before = 0
    BY <1>0, <1>6 DEF Accept, Begin, Idle
  <2>3. 0 <= 2 * Deposit
    BY <1>0
  <2> QED BY <2>1, <2>2, <2>3 DEF StakeFits, At
<1>7. CASE ReadBefore(e)
  <2>1. PICK b \in {free, 0} : exec' = [exec EXCEPT ![e].before = b, ![e].at = "leg1"]
    BY <1>7 DEF ReadBefore
  <2>2. /\ exec'[e].at = "leg1" /\ exec'[e].capital = exec[e].capital
        /\ exec'[e].before = b
    BY <1>0, <2>1
  <2>3. b <= 2 * Deposit
    BY <1>0 DEF WithinBounds
  <2> QED BY <1>7, <2>2, <2>3 DEF StakeFits, ReadBefore, Trading, At
<1>8. CASE Leg1(e) \/ Leg2(e) \/ Leg3(e)
  <2>1. PICK place \in {"leg2", "leg3", "after"} : GoTo(e, place)
    BY <1>8 DEF Leg1, Leg2, Leg3
  <2>2. /\ exec'[e].at = place /\ exec'[e].capital = exec[e].capital
        /\ exec'[e].before = exec[e].before
    BY <1>0, <2>1, GoesTo
  <2>3. exec[e].capital >= MinOrder /\ exec[e].before <= 2 * Deposit
    BY <1>8 DEF Leg1, Leg2, Leg3, At, StakeFits, Trading
  <2>4. /\ exec[e].at = "leg1" => own[e] = 0
        /\ exec[e].at \in {"leg2", "leg3"} => own[e] = -exec[e].capital
    BY DEF MoneyFits, MovesFit, InFlight
  <2>5. own'[e] <= Deposit
    <3>1. CASE own'[e] = own[e]
      BY <1>0, <1>8, <2>4, <3>1 DEF Leg1, Leg2, Leg3, At
    <3>2. CASE Leg1(e) /\ Moves(e, -exec[e].capital)
      <4>1. own'[e] = own[e] + (-exec[e].capital) /\ own[e] = 0
        BY <1>0, <2>4, <3>2 DEF Moves, Leg1, At
      <4> QED BY <1>0, <4>1
    <3>3. ASSUME Leg3(e), NEW r \in Results, Moves(e, exec[e].capital + r)
          PROVE  own'[e] <= Deposit
      <4>1. own'[e] = own[e] + (exec[e].capital + r) /\ own[e] = -exec[e].capital
        BY <1>0, <2>4, <3>3 DEF Moves, Leg3, At
      <4>2. r \in Int /\ r <= Deposit
        BY TriNetAssumption DEF TriNetAssumption, ResultsFit
      <4> QED BY <1>0, <4>1, <4>2
    <3>4. Leg2(e) => own' = own
      BY DEF Leg2, history
    <3>5. Leg1(e) => own' = own \/ Moves(e, -exec[e].capital)
      BY DEF Leg1, history
    <3>6. Leg3(e) => own' = own \/ \E r \in Results : Moves(e, exec[e].capital + r)
      BY DEF Leg3, history
    <3> QED BY <1>8, <3>1, <3>2, <3>3, <3>4, <3>5, <3>6
  <2> QED BY <2>2, <2>3, <2>5 DEF StakeFits, At
<1> QED
  BY <1>3, <1>4, <1>5, <1>6, <1>7, <1>8, StepsOfThree DEF StepOfTriangle

(* Every executor keeps the rules of RobinHood, for any number of them on  *)
(* the account: its trades are opened when the engine allows them, with a  *)
(* size it allows, and recorded with what their triangles did, unless a    *)
(* balance could not be read or was moved by another executor              *)
(* (base_executor.py:46-210).                                              *)
THEOREM RulesAreKept ==
    ASSUME ResultsFit
    PROVE  Spec /\ []WithinBounds => KeepsTheRules
<1> DEFINE AllFit == \A e \in Executors : MoneyFits(e) /\ StakeFits(e)
<1>1. Init => AllFit
  <2> SUFFICES ASSUME Init, NEW e \in Executors PROVE MoneyFits(e) /\ StakeFits(e)
    OBVIOUS
  <2>1. exec[e] = Idle /\ 0 <= 2 * Deposit
    BY TriNetAssumption DEF TriNetAssumption, Init
  <2> QED BY <2>1, MoneyStarts DEF StakeFits, Trading, At, Idle
<1>2. IInv /\ AllFit /\ WithinBounds /\ [Next]_vars => AllFit'
  BY MoneyKept, StakeKept
<1>3. Init => \A e \in Executors : Rules(e)!Init
  <2> SUFFICES ASSUME Init, NEW e \in Executors PROVE Rules(e)!Init
    OBVIOUS
  <2>1. Deposit \in 0..(2 * Deposit)
    BY TriNetAssumption DEF TriNetAssumption
  <2>2. engine[e] = FreshEngine(Deposit) /\ exec[e] = Idle /\ misled[e] = 0
    BY ProcsAreDifferent DEF Init
  <2> QED BY <2>1, <2>2, SameOperators DEF Rules!Init, Stake, Idle
<1>4. IInv /\ AllFit /\ WithinBounds /\ WithinBounds' /\ [Next]_vars
          => [\A e \in Executors : [Rules(e)!Next]_(Rules(e)!vars)]_vars
  <2> SUFFICES ASSUME IInv, AllFit, WithinBounds, WithinBounds', [Next]_vars,
                      NEW e \in Executors
               PROVE  RuleStep(e)
    BY DEF RuleStep
  <2> QED
    BY StepsOfThree, QuietKeepsRules, TriangleKeepsRules, RecordKeepsRules
    DEF StepOfTriangle
<1> HIDE DEF AllFit
<1>5. Spec /\ []WithinBounds => []AllFit
  BY <1>1, <1>2, Invariance, PTL DEF Spec
<1>6. Spec /\ []WithinBounds
        => [][\A e \in Executors : [Rules(e)!Next]_(Rules(e)!vars)]_vars
  BY <1>4, <1>5, Invariance, PTL DEF Spec
<1> QED BY <1>3, <1>6, PTL DEF Spec, KeepsTheRules

-----------------------------------------------------------------------------
(* The pass (Opportunity.tla).                                             *)

(* What BooksAreSound and ContagionIsVetoed say of what is published.      *)
FitToPublish(opp) ==
    /\ FitToTrade(Triangles[opp.tri], Markets[opp.market], Books[opp.book], opp.told)
    /\ "newtonian" \notin opp.alarms
    /\ "newtonian" \notin opp.told => ~MoveTogether(Triangles[opp.tri].legs, Markets[opp.market])

Fits(opp) == opp = Nobody \/ FitToPublish(opp)

(* What stands in for the services that do not answer for this triangle.   *)
Heuristics == StandIn[scan.tri][scan.market][scan.book]

(* The books of the triangle that is asked about were read, and passed.    *)
AskedIsSound ==
    scan.at = "ask" =>
        /\ scan.tri \in DOMAIN Triangles /\ scan.market \in DOMAIN Markets /\ scan.book \in DOMAIN Books
        /\ ~FakeMomentum(Triangles[scan.tri].legs, Markets[scan.market], Books[scan.book])

(* A state is of the service, or what the local heuristic says.            *)
StatesFit ==
    /\ attempts \in [Enabled -> 0..RetryAttempts] /\ DOMAIN states \subseteq Enabled
    /\ scan.at # "ask" => states = NoStates
    /\ \A s \in DOMAIN states : attempts[s] < RetryAttempts \/ states[s] = Heuristics[s]
    /\ \A s \in Enabled \ DOMAIN states : attempts[s] < RetryAttempts

(* What newtonian said of contagion is still in its state.                 *)
SaysContagion(state) == Get(state, "regime", "UNKNOWN") = "CONTAGION"
AlarmKept ==
    "newtonian" \in alarms => "newtonian" \in DOMAIN states /\ SaysContagion(states["newtonian"])

(* The best so far, like what is published, is fit to publish.             *)
ScanFits ==
    /\ scan.at \in {"idle", "scan", "ask"}
    /\ scan.at = "scan" => scan.market \in DOMAIN Markets
    /\ scan.at # "idle" => Fits(scan.best)
    /\ Fits(published)

PassFits == ScanFits /\ AskedIsSound /\ StatesFit /\ AlarmKept

(* A leveraged token that antirug was not asked about, or not with         *)
(* success, is one the local heuristic rejects (_get_rug).                 *)
LEMMA LeveragedIsRug ==
    ASSUME NEW asset \in Leveraged, NEW legs, NEW tickers
    PROVE  Get(LocalRug(asset, legs, tickers), "status", "") = "REJEITADO"
<1> DEFINE a == IF TotalVolume(legs, tickers) < 150 THEN 30 ELSE 0
           b == IF asset \notin SafeAssets THEN 12 ELSE 0
           p == a + b + 80
           prob == IF p < 99 THEN p ELSE 99
<1>1. a \in {0, 30} /\ b \in {0, 12}
  BY Zenon
<1> HIDE DEF a, b
<1>2. prob >= 40
  BY <1>1
<1> HIDE DEF p
<1>3. Get(LocalRug(asset, legs, tickers), "status", "") = IF prob >= 40 THEN "REJEITADO" ELSE "APROVADO"
  BY Zenon DEF LocalRug, Get, a, b, p
<1> HIDE DEF prob
<1> QED BY <1>2, <1>3

(* Legs that move together and far are contagion to the local heuristic.   *)
LEMMA TogetherIsContagion ==
    ASSUME NEW legs, NEW tickers, MoveTogether(legs, tickers)
    PROVE  Get(LocalRegime(legs, tickers), "action", "") = "KILL"
  BY Zenon DEF MoveTogether, LocalRegime, Get

(* The schema of newtonian's answers keeps the regime (RegimeState).       *)
LEMMA RegimeIsKept ==
    ASSUME NEW reply, Get(reply, "regime", "") = "CONTAGION"
    PROVE  SaysContagion(Validated("newtonian", reply))
<1> DEFINE schema == Schema["newtonian"]
<1>1. schema = [symbol |-> "", regime |-> "NEUTRAL", confidence |-> 0]
  BY Zenon DEF Schema
<1> HIDE DEF schema
<1>2. "regime" \in DOMAIN schema
  BY <1>1
<1>3. Validated("newtonian", reply) = [key \in DOMAIN schema |-> Get(reply, key, schema[key])]
  BY Zenon DEF Validated, FitsSchema, schema
<1>4. "regime" \in DOMAIN reply /\ reply["regime"] = "CONTAGION"
  BY DEF Get
<1>5. Get(reply, "regime", schema["regime"]) = "CONTAGION"
  BY <1>4, Zenon DEF Get
<1> DEFINE state == Validated("newtonian", reply)
<1>6. "regime" \in DOMAIN state /\ state["regime"] = "CONTAGION"
  BY <1>2, <1>3, <1>5, Zenon
<1> HIDE DEF state
<1>7. SaysContagion(state)
  BY <1>6, Zenon DEF SaysContagion, Get
<1> QED BY <1>7 DEF state

(* What no service said comes from the local heuristics.                   *)
LEMMA Untold ==
    ASSUME NEW s \in {"antirug", "newtonian"}, NEW tri,
           s \in DOMAIN states => states[s] = Heuristics[s],
           scan.tri \in DOMAIN Triangles, scan.market \in DOMAIN Markets, scan.book \in DOMAIN Books
    PROVE  Envelope(tri)[s] =
               LocalStates(Triangles[scan.tri], Markets[scan.market], Books[scan.book],
                           Net(Triangles[scan.tri], Markets[scan.market]))[s]
<1> DEFINE local == LocalStates(Triangles[scan.tri], Markets[scan.market], Books[scan.book],
                                Net(Triangles[scan.tri], Markets[scan.market]))
<1>1. Heuristics = local
  BY Zenon DEF Heuristics, StandIn
<1>2. /\ Envelope(tri).antirug = Get(states, "antirug", Heuristics["antirug"])
      /\ Envelope(tri).newtonian = Get(states, "newtonian", Heuristics["newtonian"])
  BY Zenon DEF Envelope, Heuristics
<1> HIDE DEF local
<1>3. Get(states, s, Heuristics[s]) = local[s]
  BY <1>1 DEF Get
<1>4. CASE s = "antirug"
  <2>1. Envelope(tri)[s] = Envelope(tri).antirug
    BY <1>4, Zenon
  <2> QED BY <1>2, <1>3, <1>4, <2>1, Zenon DEF local
<1>5. CASE s = "newtonian"
  <2>1. Envelope(tri)[s] = Envelope(tri).newtonian
    BY <1>5, Zenon
  <2> QED BY <1>2, <1>3, <1>5, <2>1, Zenon DEF local
<1> QED BY <1>4, <1>5, Zenon

(* The services that answered (told, in Find).                             *)
ToldBy == {s \in DOMAIN states \ {"spoofhunter"} : attempts[s] < RetryAttempts}

(* A decision that allows has been told of a leveraged token or of a       *)
(* contagion by the service that knows (_make_decision).                   *)
LEMMA AllowedIsTold ==
    ASSUME scan.at = "ask", AskedIsSound, StatesFit, AlarmKept, NEW v, NEW w,
           Decision(Envelope(Triangles[scan.tri]), v, w).allow
    PROVE  /\ PrimaryAsset(Triangles[scan.tri]) \in Leveraged => "antirug" \in ToldBy
           /\ "newtonian" \notin alarms
           /\ "newtonian" \notin ToldBy => ~MoveTogether(Triangles[scan.tri].legs, Markets[scan.market])
<1> DEFINE tri == Triangles[scan.tri]
           tickers == Markets[scan.market]
           local == LocalStates(tri, tickers, Books[scan.book], Net(tri, tickers))
<1>1. ~Rug(Envelope(tri)) /\ ~Contagious(Envelope(tri))
  BY Zenon DEF Decision, Vetoed
<1>2. ASSUME NEW s \in {"antirug", "newtonian"}, s \notin ToldBy
      PROVE  Envelope(tri)[s] = local[s]
  <2>1. s \in DOMAIN states => states[s] = Heuristics[s]
    BY <1>2 DEF StatesFit, ToldBy
  <2> QED BY <2>1, Untold, Zenon DEF AskedIsSound
<1>3. ASSUME PrimaryAsset(tri) \in Leveraged, "antirug" \notin ToldBy PROVE FALSE
  <2>1. Envelope(tri).antirug = local.antirug
    BY <1>2, <1>3, Zenon
  <2>2. local.antirug = LocalRug(PrimaryAsset(tri), tri.legs, tickers)
    BY Zenon DEF LocalStates
  <2> QED BY <1>1, <1>3, <2>1, <2>2, LeveragedIsRug, Zenon DEF Rug
<1>4. ASSUME MoveTogether(tri.legs, tickers), "newtonian" \notin ToldBy PROVE FALSE
  <2>1. Envelope(tri).newtonian = local.newtonian
    BY <1>2, <1>4, Zenon
  <2>2. local.newtonian = LocalRegime(tri.legs, tickers)
    BY Zenon DEF LocalStates
  <2> QED BY <1>1, <1>4, <2>1, <2>2, TogetherIsContagion, Zenon DEF Contagious
<1>5. ASSUME "newtonian" \in alarms PROVE FALSE
  <2>1. "newtonian" \in DOMAIN states /\ SaysContagion(states["newtonian"])
    BY <1>5 DEF AlarmKept
  <2>2. Envelope(tri).newtonian = Get(states, "newtonian", Heuristics["newtonian"])
    BY Zenon DEF Envelope, Heuristics
  <2>3. Envelope(tri).newtonian = states["newtonian"]
    BY <2>1, <2>2, Zenon DEF Get
  <2> QED BY <1>1, <2>1, <2>3, Zenon DEF Contagious, SaysContagion
<1> QED BY <1>3, <1>4, <1>5, Zenon

(* What passes the local scores has no leg with a suspect book (is_valid). *)
LEMMA PassedIsSound ==
    ASSUME NEW k \in DOMAIN Triangles, NEW m \in DOMAIN Markets, NEW b \in DOMAIN Books,
           NEW c \in DOMAIN Charts, Local[k][m][b][c].passes
    PROVE  ~FakeMomentum(Triangles[k].legs, Markets[m], Books[b])
<1>1. Local[k][m][b][c] = Rated(Triangles[k], Markets[m], Books[b], Charts[c])
  BY Zenon DEF Local
<1>2. ASSUME NEW tri, NEW tickers, NEW books, NEW chart, Rated(tri, tickers, books, chart).passes
      PROVE  ~FakeMomentum(tri.legs, tickers, books)
  BY <1>2, Zenon DEF Rated, Framed, Judged, PassesLocally, IsValid
<1> QED BY <1>1, <1>2, Zenon

(* What is allowed is fit to publish.                                      *)
LEMMA FoundFits ==
    ASSUME scan.at = "ask", AskedIsSound, StatesFit, AlarmKept, NEW v, NEW w, NEW e, NEW final,
           Decision(Envelope(Triangles[scan.tri]), v, w).allow
    PROVE  FitToPublish(Find(Triangles[scan.tri], e, final))
<1> DEFINE opp == Find(Triangles[scan.tri], e, final)
<1>1. opp.tri = scan.tri /\ opp.market = scan.market /\ opp.book = scan.book /\ opp.told = ToldBy
      /\ opp.alarms = alarms
  BY Zenon DEF Find, ToldBy
<1> HIDE DEF opp
<1>2. \A i \in 1..3 : ~Suspect(Markets[scan.market][Triangles[scan.tri].legs[i].symbol],
                               Lookup(Books[scan.book], Triangles[scan.tri].legs[i].symbol, NoBook))
  BY Zenon DEF AskedIsSound, FakeMomentum
<1>3. FitToTrade(Triangles[scan.tri], Markets[scan.market], Books[scan.book], ToldBy)
  BY <1>2, AllowedIsTold, Zenon DEF FitToTrade
<1> QED BY <1>1, <1>3, AllowedIsTold, Zenon DEF FitToPublish, opp

(* A pass begins: the heartbeat of the scanner (_scan_cycle).              *)
LEMMA BeginPassKeeps ==
    ASSUME PassFits, NEW m \in DOMAIN Markets, BeginPass(m)
    PROVE  PassFits'
<1>1. scan.at = "idle" /\ scan'.at = "scan" /\ scan'.market = m /\ scan'.best = Nobody /\ published' = Nobody
  BY Zenon DEF BeginPass
<1>2. ScanFits'
  BY <1>1, Zenon DEF ScanFits, Fits
<1>3. AskedIsSound'
  BY <1>1, Zenon DEF AskedIsSound
<1>4. attempts' = attempts /\ states' = states /\ states = NoStates /\ alarms' = alarms
  BY <1>1, Zenon DEF PassFits, StatesFit, BeginPass
<1>5. StatesFit'
  BY <1>4 DEF PassFits, StatesFit, NoStates
<1>6. AlarmKept'
  BY <1>4, Zenon DEF PassFits, AlarmKept
<1> QED BY <1>2, <1>3, <1>5, <1>6 DEF PassFits

(* A triangle is evaluated: it is asked about, or the next one is tried.   *)
LEMMA EvaluateKeeps ==
    ASSUME PassFits, Evaluate
    PROVE  PassFits'
<1>1. PICK book \in DOMAIN Books, chart \in DOMAIN Charts, enough \in BOOLEAN :
        scan' = IF enough /\ Local[scan.tri][scan.market][book][chart].passes
                THEN [at |-> "ask", tri |-> scan.tri, best |-> scan.best, market |-> scan.market,
                      book |-> book, base |-> Local[scan.tri][scan.market][book][chart].score]
                ELSE GoOn(scan.best)
  BY Zenon DEF Evaluate
<1>2. /\ scan.at = "scan" /\ scan.tri \in DOMAIN Triangles /\ scan.market \in DOMAIN Markets
      /\ Fits(scan.best) /\ Fits(published) /\ published' = published
      /\ attempts' = attempts /\ states' = states /\ states = NoStates /\ alarms' = alarms
  BY Zenon DEF Evaluate, PassFits, ScanFits, StatesFit
<1>5. AlarmKept'
  BY <1>2, Zenon DEF PassFits, AlarmKept
<1>3. CASE enough /\ Local[scan.tri][scan.market][book][chart].passes
  <2>1. /\ scan'.at = "ask" /\ scan'.tri = scan.tri /\ scan'.best = scan.best
        /\ scan'.market = scan.market /\ scan'.book = book
    BY <1>1, <1>3, Zenon
  <2>2. ~FakeMomentum(Triangles[scan.tri].legs, Markets[scan.market], Books[book])
    BY <1>2, <1>3, PassedIsSound, Zenon
  <2>3. AskedIsSound'
    BY <1>2, <2>1, <2>2, Zenon DEF AskedIsSound
  <2>4. ScanFits'
    BY <1>2, <2>1, Zenon DEF ScanFits, Fits, FitToPublish
  <2>5. StatesFit'
    BY <1>2, <2>1 DEF PassFits, StatesFit, NoStates
  <2> QED BY <1>5, <2>3, <2>4, <2>5 DEF PassFits
<1>4. CASE ~(enough /\ Local[scan.tri][scan.market][book][chart].passes)
  <2>1. scan'.at = "scan" /\ scan'.best = scan.best /\ scan'.market = scan.market
    BY <1>1, <1>4, Zenon DEF GoOn
  <2>2. AskedIsSound'
    BY <2>1, Zenon DEF AskedIsSound
  <2>3. ScanFits'
    BY <1>2, <2>1, Zenon DEF ScanFits, Fits, FitToPublish
  <2>4. StatesFit'
    BY <1>2, <2>1 DEF PassFits, StatesFit, NoStates
  <2> QED BY <1>5, <2>2, <2>3, <2>4 DEF PassFits
<1> QED BY <1>3, <1>4, Zenon

(* A service answers (_request_json).                                      *)
LEMMA AnswerKeeps ==
    ASSUME PassFits, NEW s \in Enabled, NEW reply, Answer(s, reply)
    PROVE  PassFits'
<1>1. /\ scan.at = "ask" /\ scan' = scan /\ published' = published
      /\ attempts' = [attempts EXCEPT ![s] = 0]
      /\ states' = [t \in DOMAIN states \cup {s} |-> IF t = s THEN Validated(s, reply) ELSE states[t]]
  BY Zenon DEF Answer, Pending, Settle
<1>2. ScanFits' /\ AskedIsSound'
  BY <1>1, Zenon DEF PassFits, ScanFits, AskedIsSound, Fits, FitToPublish
<1>3. Heuristics' = Heuristics
  BY <1>1, Zenon DEF Heuristics
<1>4. attempts' \in [Enabled -> 0..RetryAttempts] /\ attempts'[s] < RetryAttempts
  BY <1>1, OpportunityAssumption DEF PassFits, StatesFit
<1>5. ASSUME NEW t \in DOMAIN states' PROVE attempts'[t] < RetryAttempts \/ states'[t] = Heuristics[t]
  BY <1>1, <1>4 DEF PassFits, StatesFit
<1>6. DOMAIN states' \subseteq Enabled
  BY <1>1 DEF PassFits, StatesFit
<1>7. ASSUME NEW t \in Enabled \ DOMAIN states' PROVE attempts'[t] < RetryAttempts
  BY <1>1, <1>7 DEF PassFits, StatesFit
<1>8. AlarmKept'
  <2> SUFFICES ASSUME "newtonian" \in alarms'
               PROVE  "newtonian" \in DOMAIN states' /\ SaysContagion(states'["newtonian"])
    BY DEF AlarmKept
  <2>1. alarms' = IF IsAlarm(s, reply) THEN alarms \cup {s} ELSE alarms
    BY Zenon DEF Answer
  <2>2. CASE s = "newtonian"
    <3>1. s \notin DOMAIN states /\ "newtonian" \notin alarms
      BY <2>2, Zenon DEF Answer, Pending, PassFits, AlarmKept
    <3>2. Get(reply, "regime", "") = "CONTAGION"
      BY <2>1, <2>2, <3>1, Zenon DEF IsAlarm
    <3>3. SaysContagion(Validated("newtonian", reply))
      BY <3>2, RegimeIsKept, Zenon
    <3> QED BY <1>1, <2>2, <3>3, Zenon
  <2>3. CASE s # "newtonian"
    <3>1. "newtonian" \in alarms
      BY <2>1, <2>3, Zenon
    <3> QED BY <1>1, <2>3, <3>1, Zenon DEF PassFits, AlarmKept
  <2> QED BY <2>2, <2>3
<1> QED BY <1>1, <1>2, <1>3, <1>4, <1>5, <1>6, <1>7, <1>8, Zenon DEF PassFits, StatesFit

(* A request fails, and is repeated or given up (_request_json).           *)
LEMMA FailKeeps ==
    ASSUME PassFits, NEW s \in Enabled, Fail(s)
    PROVE  PassFits'
<1>1. /\ scan.at = "ask" /\ scan' = scan /\ published' = published /\ s \notin DOMAIN states
      /\ attempts' = [attempts EXCEPT ![s] = @ + 1]
      /\ \/ attempts[s] + 1 < RetryAttempts /\ states' = states
         \/ states' = [t \in DOMAIN states \cup {s} |-> IF t = s THEN Heuristics[s] ELSE states[t]]
  BY Zenon DEF Fail, Pending, Settle, Heuristics
<1>2. ScanFits' /\ AskedIsSound'
  BY <1>1, Zenon DEF PassFits, ScanFits, AskedIsSound, Fits, FitToPublish
<1>3. Heuristics' = Heuristics
  BY <1>1, Zenon DEF Heuristics
<1>4. attempts' \in [Enabled -> 0..RetryAttempts]
  BY <1>1, OpportunityAssumption DEF PassFits, StatesFit
<1>5. ASSUME NEW t \in DOMAIN states' PROVE attempts'[t] < RetryAttempts \/ states'[t] = Heuristics[t]
  BY <1>1, <1>4 DEF PassFits, StatesFit
<1>6. DOMAIN states' \subseteq Enabled
  BY <1>1 DEF PassFits, StatesFit
<1>7. ASSUME NEW t \in Enabled \ DOMAIN states' PROVE attempts'[t] < RetryAttempts
  BY <1>1, <1>7 DEF PassFits, StatesFit
<1>8. AlarmKept'
  <2> SUFFICES ASSUME "newtonian" \in alarms'
               PROVE  "newtonian" \in DOMAIN states' /\ SaysContagion(states'["newtonian"])
    BY DEF AlarmKept
  <2>1. alarms' = alarms
    BY Zenon DEF Fail
  <2>2. "newtonian" \in DOMAIN states /\ SaysContagion(states["newtonian"])
    BY <2>1, Zenon DEF PassFits, AlarmKept
  <2> QED BY <1>1, <2>2, Zenon
<1> QED BY <1>1, <1>2, <1>3, <1>4, <1>5, <1>6, <1>7, <1>8, Zenon DEF PassFits, StatesFit

(* The services were heard: the decision (_make_decision).                 *)
LEMMA DecideKeeps ==
    ASSUME PassFits, Decide
    PROVE  PassFits'
<1> DEFINE tri == Triangles[scan.tri]
<1> DEFINE e == Envelope(tri)
           w == Worm!Analysis(View(e))
           decision == Decision(e, View(e), w)
           opp == Find(tri, e, decision.final_score)
           calm == w.wvi < 5200
           allowed == decision.allow /\ calm
<1>0. Conclude(opp, allowed)
  BY DEF Decide
<1> HIDE DEF calm
<1>1. scan' = GoOn(IF allowed /\ Better(opp.value, scan.best) THEN opp ELSE scan.best)
  BY <1>0, Zenon DEF Conclude
<1>2. /\ scan.at = "ask" /\ scan.market \in DOMAIN Markets
      /\ Fits(scan.best) /\ Fits(published) /\ published' = published
      /\ attempts' = Unasked /\ states' = NoStates /\ alarms' = {}
  BY Zenon DEF Decide, PassFits, ScanFits, AskedIsSound
<1>3. scan'.at = "scan" /\ scan'.market = scan.market
  BY <1>1, Zenon DEF GoOn
<1>4. scan'.best = scan.best \/ (allowed /\ scan'.best = opp)
  BY <1>1, Zenon DEF GoOn
<1>5. Fits(scan'.best)
  <2>1. allowed => FitToPublish(opp)
    BY <1>2, FoundFits, Zenon DEF PassFits
  <2> QED BY <1>2, <1>4, <2>1, Zenon DEF Fits
<1>6. Fits(scan.best)' /\ Fits(published)'
  BY <1>2, <1>5, Zenon DEF Fits, FitToPublish
<1>7. ScanFits' /\ AskedIsSound'
  BY <1>2, <1>3, <1>6, Zenon DEF ScanFits, AskedIsSound
<1>8. StatesFit'
  BY <1>2, <1>3, OpportunityAssumption DEF StatesFit, Unasked, NoStates
<1>9. AlarmKept'
  BY <1>2 DEF AlarmKept
<1> QED BY <1>7, <1>8, <1>9 DEF PassFits

(* The pass ends (run).                                                    *)
LEMMA PublishKeeps ==
    ASSUME PassFits, Publish
    PROVE  PassFits'
<1>1. /\ scan'.at = "idle" /\ published' = scan.best /\ Fits(scan.best)
      /\ attempts' = attempts /\ states' = states /\ states = NoStates /\ alarms' = alarms
  BY Zenon DEF Publish, NoScan, PassFits, ScanFits, StatesFit
<1>2. ScanFits' /\ AskedIsSound'
  BY <1>1, Zenon DEF ScanFits, AskedIsSound, Fits, FitToPublish
<1>3. StatesFit'
  BY <1>1 DEF PassFits, StatesFit, NoStates
<1>4. AlarmKept'
  BY <1>1, Zenon DEF PassFits, AlarmKept
<1> QED BY <1>2, <1>3, <1>4 DEF PassFits

(* What the pass has read and found fits, in every reachable state.        *)
LEMMA PassInvariant == PassSpec => []PassFits
<1>1. PassInit => PassFits
  BY OpportunityAssumption DEF PassInit, PassFits, ScanFits, AskedIsSound, StatesFit, AlarmKept, NoScan, NoStates, Unasked, Fits
<1>2. PassFits /\ [PassNext]_passVars => PassFits'
  <2> SUFFICES ASSUME PassFits, [PassNext]_passVars PROVE PassFits'
    OBVIOUS
  <2>1. CASE \E market \in DOMAIN Markets : BeginPass(market)
    BY <2>1, BeginPassKeeps, Zenon
  <2>2. CASE Evaluate
    BY <2>2, EvaluateKeeps, Zenon
  <2>3. CASE \E s \in {t \in Enabled : Pending(t)} : (\E reply \in Replies(s) : Answer(s, reply)) \/ Fail(s)
    BY <2>3, AnswerKeeps, FailKeeps, Zenon
  <2>4. CASE Decide
    BY <2>4, DecideKeeps, Zenon
  <2>5. CASE Publish
    BY <2>5, PublishKeeps, Zenon
  <2>6. CASE EngineGoesOn \/ UNCHANGED passVars
    <3>1. UNCHANGED <<scan, attempts, states, alarms, published>>
      BY <2>6, Zenon DEF EngineGoesOn, passVars, scanVars
    <3> QED BY <3>1, Zenon DEF PassFits, ScanFits, AskedIsSound, StatesFit, AlarmKept, Fits, FitToPublish, Heuristics
  <2> QED BY <2>1, <2>2, <2>3, <2>4, <2>5, <2>6, Zenon DEF PassNext
<1> QED BY <1>1, <1>2, PTL DEF PassSpec

(* Nothing is published over a book that is wide, thin or was not read, a  *)
(* leg without volume, or a leveraged token without antirug's answer:      *)
(* whatever the services answer and whichever fail (_scan_cycle).          *)
THEOREM BooksAreReadable == PassSpec => []BooksAreSound
<1>1. PassFits => BooksAreSound
  BY Zenon DEF PassFits, ScanFits, Fits, FitToPublish, BooksAreSound
<1> QED BY <1>1, PassInvariant, PTL

(* Nothing is published that newtonian calls contagion, nor, without an    *)
(* answer of it, legs that move together, and far                          *)
(* (fusion_registry.py:_get_regime, _make_decision).                       *)
THEOREM ContagionIsSeen == PassSpec => []ContagionIsVetoed
<1>1. PassFits => ContagionIsVetoed
  BY Zenon DEF PassFits, ScanFits, Fits, FitToPublish, ContagionIsVetoed
<1> QED BY <1>1, PassInvariant, PTL

-----------------------------------------------------------------------------
(* What a triangle is worth is a number.                                   *)

Priced(ticker) == ticker.bid \in Nat \ {0} /\ ticker.ask \in Nat \ {0} /\ ticker.change \in Int
Counted(book) ==
    /\ book.bids \in Nat /\ book.asks \in Nat /\ book.spread \in Nat
    /\ book.share \in Nat /\ book.entropy \in Nat

(* Each leg of a triangle has a ticker with prices (_quick_evaluate).      *)
LEMMA LegIsPriced ==
    ASSUME NEW k \in DOMAIN Triangles, NEW m \in DOMAIN Markets, NEW i \in 1..3
    PROVE  Priced(Markets[m][Triangles[k].legs[i].symbol])
  BY NumbersAssumption, Zenon DEF Priced

(* A book that is looked up has sizes, and one that was not read has none  *)
(* (_scan_cycle).                                                          *)
LEMMA BookIsCounted ==
    ASSUME NEW b \in DOMAIN Books, NEW symbol
    PROVE  Counted(Lookup(Books[b], symbol, NoBook))
<1>1. symbol \in DOMAIN Books[b] => Counted(Books[b][symbol])
  BY NumbersAssumption, Zenon DEF Counted
<1>2. Counted(NoBook)
  BY DEF Counted, NoBook
<1> QED BY <1>1, <1>2, Zenon DEF Lookup

(* What is left after a leg and its fee (_quick_evaluate).                 *)
LEMMA AfterLegIsInt ==
    ASSUME NEW amount \in Int, NEW leg, NEW ticker, Priced(ticker)
    PROVE  AfterLeg(amount, leg, ticker) \in Int
<1> DEFINE x == IF leg.side = "buy" THEN (amount * 1000) \div ticker.ask
                ELSE (amount * ticker.bid) \div 1000
           y == 4000 - Fee
<1>1. (amount * 1000) \div ticker.ask \in Int /\ (amount * ticker.bid) \div 1000 \in Int
  BY DEF Priced
<1>2. x \in Int
  BY <1>1, Zenon
<1>3. y \in Int
  BY NumbersAssumption
<1> HIDE DEF x, y
<1>4. (x * y) \div 4000 \in Int
  BY <1>2, <1>3
<1> QED BY <1>4, Zenon DEF AfterLeg, x, y

(* The profit of a triangle is a number (_quick_evaluate).                 *)
LEMMA NetIsInt ==
    ASSUME NEW k \in DOMAIN Triangles, NEW m \in DOMAIN Markets
    PROVE  Net(Triangles[k], Markets[m]) \in Int
<1> DEFINE start == 100000
           leg(i) == Triangles[k].legs[i]
           ticker(i) == Markets[m][leg(i).symbol]
           first == AfterLeg(start, leg(1), ticker(1))
           second == AfterLeg(first, leg(2), ticker(2))
           third == AfterLeg(second, leg(3), ticker(3))
<1>1. Net(Triangles[k], Markets[m]) = third - start
  BY DEF Net
<1>2. start \in Int
  OBVIOUS
<1> HIDE DEF start
<1>3. Priced(ticker(1)) /\ Priced(ticker(2)) /\ Priced(ticker(3))
  <2>1. 1 \in 1..3 /\ 2 \in 1..3 /\ 3 \in 1..3
    OBVIOUS
  <2> QED BY <2>1, LegIsPriced, Zenon
<1> HIDE DEF leg, ticker
<1>4. first \in Int
  BY <1>2, <1>3, AfterLegIsInt, Zenon
<1> HIDE DEF first
<1>5. second \in Int
  BY <1>3, <1>4, AfterLegIsInt, Zenon
<1> HIDE DEF second
<1>6. third \in Int
  BY <1>3, <1>5, AfterLegIsInt, Zenon
<1> HIDE DEF third
<1> QED BY <1>1, <1>2, <1>6

(* How far one thing is above another, of the whole: the imbalances.       *)
LEMMA ShareIsInt ==
    ASSUME NEW book, Counted(book)
    PROVE  (IF book.bids + book.asks = 0 THEN 0
            ELSE (100 * (book.bids - book.asks)) \div (book.bids + book.asks)) \in Int
<1> DEFINE total == book.bids + book.asks
           gap == 100 * (book.bids - book.asks)
<1>1. total \in Nat /\ gap \in Int
  BY DEF Counted
<1> HIDE DEF total, gap
<1>2. (IF total = 0 THEN 0 ELSE gap \div total) \in Int
  BY <1>1
<1> QED BY <1>2, Zenon DEF total, gap

(* Module 1 of the scores (_mod_tire_pressure).                            *)
LEMMA PressureIsInt ==
    ASSUME NEW legs, NEW b \in DOMAIN Books
    PROVE  Pressure(legs, Books[b]) \in Int
<1> DEFINE book(leg) == Lookup(Books[b], leg.symbol, NoBook)
           share(leg) == IF book(leg).bids + book(leg).asks = 0 THEN 0
                         ELSE (100 * (book(leg).bids - book(leg).asks)) \div (book(leg).bids + book(leg).asks)
           Of(leg) == IF leg.side = "buy" THEN share(leg) ELSE -share(leg)
<1>1. Pressure(legs, Books[b]) = (Of(legs[1]) + Of(legs[2]) + Of(legs[3])) \div 3
  BY Zenon DEF Pressure, Mean3
<1>2. ASSUME NEW leg PROVE share(leg) \in Int
  BY BookIsCounted, ShareIsInt, Zenon
<1> HIDE DEF share
<1>3. ASSUME NEW leg PROVE Of(leg) \in Int
  BY <1>2
<1> HIDE DEF Of
<1>4. Of(legs[1]) \in Int /\ Of(legs[2]) \in Int /\ Of(legs[3]) \in Int
  BY <1>3, Zenon
<1> QED BY <1>1, <1>4

(* Of three changes there is a greatest and a least (_mod_lead_lag).       *)
LEMMA DispersionIsInt ==
    ASSUME NEW k \in DOMAIN Triangles, NEW m \in DOMAIN Markets
    PROVE  Dispersion(Triangles[k].legs, Markets[m]) \in Int
<1> DEFINE c(i) == Markets[m][Triangles[k].legs[i].symbol].change
           all == Changes(Triangles[k].legs, Markets[m])
<1>1. \A i \in 1..3 : c(i) \in Int
  BY LegIsPriced, Zenon DEF Priced
<1>2. all = {c(i) : i \in 1..3}
  BY Zenon DEF Changes
<1> HIDE DEF c
<1>3. all = {c(1), c(2), c(3)}
  BY <1>2
<1>4. c(1) \in Int /\ c(2) \in Int /\ c(3) \in Int
  BY <1>1
<1>5. all \subseteq Int
  BY <1>3, <1>4
<1>6. (\E x \in all : \A y \in all : y <= x) /\ (\E x \in all : \A y \in all : y >= x)
  BY <1>3, <1>4
<1> HIDE DEF all
<1>7. (CHOOSE x \in all : \A y \in all : y <= x) \in all /\ (CHOOSE x \in all : \A y \in all : y >= x) \in all
  BY <1>6, Zenon
<1> DEFINE high == CHOOSE x \in all : \A y \in all : y <= x
           low == CHOOSE x \in all : \A y \in all : y >= x
<1>8. Dispersion(Triangles[k].legs, Markets[m]) = high - low
  BY Zenon DEF Dispersion, all
<1>9. high \in Int /\ low \in Int
  BY <1>5, <1>7, Zenon
<1> HIDE DEF high, low
<1> QED BY <1>8, <1>9

(* The modules that score a triangle.                                      *)
LEMMA ModulesAreInts ==
    ASSUME NEW k \in DOMAIN Triangles, NEW m \in DOMAIN Markets, NEW b \in DOMAIN Books
    PROVE  /\ LeadLag(Triangles[k].legs, Markets[m]) \in Int
           /\ Steadiness(Triangles[k].legs, Markets[m]) \in Int
           /\ Balance(Triangles[k].legs, Markets[m]) \in Int
           /\ ReversalRisk(Triangles[k].legs, Markets[m]) \in Int
           /\ Entropy(Triangles[k].legs, Books[b]) \in Int
<1> DEFINE legs == Triangles[k].legs
           tickers == Markets[m]
           t(leg) == tickers[leg.symbol]
<1>1. LeadLag(legs, tickers) \in Int
  <2> DEFINE gap == Dispersion(legs, tickers)
  <2>1. LeadLag(legs, tickers) = IF gap > 50 THEN -100 ELSE IF gap < 3 THEN 100 ELSE 100 - 2 * gap
    BY DEF LeadLag
  <2>2. gap \in Int
    BY DispersionIsInt, Zenon
  <2> HIDE DEF gap
  <2> QED BY <2>1, <2>2
<1>2. Steadiness(legs, tickers) \in Int
  <2> DEFINE Of(leg) == IF t(leg).recent = -1 \/ t(leg).older <= 0 THEN 50
                        ELSE IF 10 * t(leg).recent > 15 * t(leg).older THEN 40
                        ELSE IF 10 * t(leg).recent < 7 * t(leg).older THEN 25 ELSE 85
  <2>1. Steadiness(legs, tickers) = (Of(legs[1]) + Of(legs[2]) + Of(legs[3])) \div 3
    BY Zenon DEF Steadiness, Mean3
  <2>2. ASSUME NEW leg PROVE Of(leg) \in {50, 40, 25, 85}
    BY Zenon
  <2> HIDE DEF Of
  <2> QED BY <2>1, <2>2
<1>3. Balance(legs, tickers) \in Int
  <2> DEFINE d(leg) == t(leg).delta
             Of(leg) == IF d(leg) = -1 THEN 30 ELSE IF d(leg) = 0 THEN 55
                        ELSE IF d(leg) \in 1..10 THEN 90 ELSE IF d(leg) \in 11..30 THEN 40 ELSE 15
  <2>1. Balance(legs, tickers) = (Of(legs[1]) + Of(legs[2]) + Of(legs[3])) \div 3
    BY Zenon DEF Balance, Mean3
  <2>2. ASSUME NEW leg PROVE Of(leg) \in {30, 55, 90, 40, 15}
    BY Zenon
  <2> HIDE DEF Of
  <2> QED BY <2>1, <2>2
<1>4. ReversalRisk(legs, tickers) \in Int
  <2> DEFINE edge(leg) == t(leg).range > 5 /\ (t(leg).place > 85 \/ t(leg).place < 15)
             near(leg) == t(leg).range > 3 /\ (t(leg).place > 80 \/ t(leg).place < 20)
             Of(leg) == IF t(leg).place = -1 THEN 50 ELSE IF edge(leg) THEN 85 ELSE IF near(leg) THEN 55
                        ELSE IF t(leg).range > 3 THEN 35 ELSE 12
  <2>1. ReversalRisk(legs, tickers) = (Of(legs[1]) + Of(legs[2]) + Of(legs[3])) \div 3
    BY Zenon DEF ReversalRisk, Mean3
  <2>2. ASSUME NEW leg PROVE Of(leg) \in {50, 85, 55, 35, 12}
    BY Zenon
  <2> HIDE DEF Of
  <2> QED BY <2>1, <2>2
<1>5. Entropy(legs, Books[b]) \in Int
  <2> DEFINE book(leg) == Lookup(Books[b], leg.symbol, NoBook)
             Of(leg) == IF book(leg).depth < 3 THEN 0 ELSE book(leg).entropy
  <2>1. Entropy(legs, Books[b]) = (Of(legs[1]) + Of(legs[2]) + Of(legs[3])) \div 3
    BY Zenon DEF Entropy, Mean3
  <2>2. ASSUME NEW leg PROVE Of(leg) \in Nat
    <3>1. book(leg).entropy \in Nat /\ 0 \in Nat
      BY BookIsCounted DEF Counted
    <3> QED BY <3>1, Zenon
  <2> HIDE DEF Of
  <2>3. Of(legs[1]) \in Nat /\ Of(legs[2]) \in Nat /\ Of(legs[3]) \in Nat
    BY <2>2, Zenon
  <2> QED BY <2>1, <2>3
<1> QED BY <1>1, <1>2, <1>3, <1>4, <1>5, Zenon

(* The weighted sum of the modules (_calculate_final_score).               *)
LEMMA LegacyIsInt ==
    ASSUME NEW k \in DOMAIN Triangles, NEW m \in DOMAIN Markets, NEW b \in DOMAIN Books
    PROVE  LegacyScore(Triangles[k].legs, Markets[m], Books[b]) \in Int
<1> DEFINE legs == Triangles[k].legs
           p == Pressure(legs, Books[b])
           l == LeadLag(legs, Markets[m])
           f == IF FakeMomentum(legs, Markets[m], Books[b]) THEN 0 ELSE 100
           s == Steadiness(legs, Markets[m])
           d == Balance(legs, Markets[m])
           r == ReversalRisk(legs, Markets[m])
           e == Entropy(legs, Books[b])
<1>1. LegacyScore(legs, Markets[m], Books[b]) =
        (18 * ((p + 100) \div 2) + 12 * ((l + 100) \div 2) + 18 * f + 10 * s + 10 * d
         + 16 * (100 - r) + 16 * e) \div 10
  BY DEF LegacyScore
<1>2. p \in Int /\ l \in Int /\ s \in Int /\ d \in Int /\ r \in Int /\ e \in Int
  BY PressureIsInt, ModulesAreInts, Zenon
<1>3. f \in {0, 100}
  BY Zenon
<1> HIDE DEF p, l, f, s, d, r, e
<1> QED BY <1>1, <1>2, <1>3

(* The chart's score.                                                      *)
LEMMA ChartIsInt ==
    ASSUME NEW c, c.strong.atr \in Int, NEW book, book.imbalance \in Int, book.spread \in Int, book.share \in Int
    PROVE  Chart!ChartFinal(c, book) \in Int
<1>1. Chart!GhostRisk(book) \in Int
  <2> DEFINE wide == Chart!Clip((100 * (book.spread - 12)) \div 18, 0, 100)
             heap == Chart!Clip(book.share - 45, 0, 100)
  <2>1. Chart!GhostRisk(book) = Chart!Clip(wide + heap, 0, 100) \div 2
    BY DEF Chart!GhostRisk
  <2>2. wide \in Int /\ heap \in Int
    BY DEF Chart!Clip
  <2> HIDE DEF wide, heap
  <2>3. Chart!Clip(wide + heap, 0, 100) \in Int
    BY <2>2 DEF Chart!Clip
  <2> QED BY <2>1, <2>3
<1>2. Chart!MicroDelta(c, book) \in Int
  <2> DEFINE sign == IF Chart!Trend(c) = "bullish" THEN 1 ELSE IF Chart!Trend(c) = "bearish" THEN -1 ELSE 0
             factor == IF Chart!Sign(book.imbalance) = sign THEN 60 ELSE -30
             size == Chart!Abs(book.imbalance)
             obi == IF sign = 0 THEN 0 ELSE factor * size
             risk == Chart!GhostRisk(book)
  <2>1. Chart!MicroDelta(c, book) = obi \div 100 - risk
    BY Zenon DEF Chart!MicroDelta
  <2>2. factor \in Int
    OBVIOUS
  <2>3. size \in Int
    BY DEF Chart!Abs
  <2> HIDE DEF factor, size, sign
  <2>4. obi \in Int
    BY <2>2, <2>3
  <2> HIDE DEF obi
  <2> QED BY <1>1, <2>1, <2>4
<1>3. Chart!ChartBase(c) \in Int
  <2> DEFINE trend == IF Chart!Trend(c) = "neutral" THEN 0 ELSE 80
             size == Chart!Clip((40 * c.strong.atr) \div 100, 0, 120)
             volume == IF c.strong.volume >= 120 THEN 40 ELSE 0
             impulse == IF Chart!Impulse(c) = "neutral" THEN -80 ELSE size + volume
             back == IF Chart!Retracement(c) = "shallow" THEN 100
                     ELSE IF Chart!Retracement(c) = "moderate" THEN 40
                     ELSE IF Chart!Retracement(c) = "deep" THEN -90 ELSE 0
             squeeze == IF Chart!Compressed(c) THEN 80 ELSE -40
             break == IF ~Chart!BreaksOut(c) THEN 0 ELSE IF c.volume >= 115 THEN 100 ELSE 30
  <2>1. Chart!ChartBase(c) = 500 + trend + impulse + back + squeeze + break
    BY DEF Chart!ChartBase
  <2>2. size \in Int
    BY DEF Chart!Clip
  <2>3. trend \in {0, 80} /\ volume \in {0, 40} /\ back \in {100, 40, -90, 0}
        /\ squeeze \in {80, -40} /\ break \in {0, 100, 30}
    BY Zenon
  <2> HIDE DEF trend, size, volume, back, squeeze, break
  <2>4. impulse \in Int
    BY <2>2, <2>3
  <2> HIDE DEF impulse
  <2> QED BY <2>1, <2>3, <2>4
<1> DEFINE n == Chart!ChartBase(c) + Chart!MicroDelta(c, book)
<1>4. n \in Int
  BY <1>2, <1>3
<1> HIDE DEF n
<1>5. Chart!Clip(n, 0, 1000) \in Int
  BY <1>4 DEF Chart!Clip
<1> QED BY <1>5, Zenon DEF Chart!ChartFinal, n

(* The score with the chart (analyze).                                     *)
LEMMA ScoreIsInt ==
    ASSUME NEW k \in DOMAIN Triangles, NEW m \in DOMAIN Markets, NEW b \in DOMAIN Books,
           NEW c \in DOMAIN Charts
    PROVE  Local[k][m][b][c].score \in Int
<1> DEFINE tri == Triangles[k]
           book == Lookup(Books[b], ChartSymbol(tri), NoBook)
           frame == FrameBook(book)
           legacy == LegacyScore(tri.legs, Markets[m], Books[b])
           of == CHOOSE x \in Charts[c] : TRUE
<1>1. Local[k][m][b][c] = Rated(tri, Markets[m], Books[b], Charts[c])
  BY Zenon DEF Local
<1>2. Rated(tri, Markets[m], Books[b], Charts[c]).score = Score(legacy, Charts[c], frame)
  BY Zenon DEF Rated, Framed, Judged
<1>3. legacy \in Int
  BY LegacyIsInt, Zenon
<1>4. frame.imbalance \in Int /\ frame.spread \in Int /\ frame.share \in Int
  <2>1. Counted(book)
    BY BookIsCounted, Zenon
  <2> HIDE DEF book
  <2>2. /\ frame.spread = book.spread /\ frame.share = book.share
        /\ frame.imbalance = IF book.bids + book.asks = 0 THEN 0
                             ELSE (100 * (book.bids - book.asks)) \div (book.bids + book.asks)
    BY Zenon DEF FrameBook
  <2> HIDE DEF frame
  <2>3. frame.imbalance \in Int
    BY <2>1, <2>2, ShareIsInt, Zenon
  <2> QED BY <2>1, <2>2, <2>3 DEF Counted
<1> HIDE DEF frame, legacy
<1>5. CASE Charts[c] = {}
  BY <1>1, <1>2, <1>3, <1>5, Zenon DEF Score
<1>6. CASE Charts[c] # {}
  <2>1. of.strong.atr \in Int
    BY <1>6, NumbersAssumption, Zenon
  <2> DEFINE final == Chart!ChartFinal(of, frame)
  <2>2. final \in Int
    BY <1>4, <2>1, ChartIsInt, Zenon
  <2>3. Score(legacy, Charts[c], frame) = (78 * legacy + 22 * final) \div 100
    BY <1>6, Zenon DEF Score
  <2> HIDE DEF final
  <2>4. Score(legacy, Charts[c], frame) \in Int
    BY <1>3, <2>2, <2>3
  <2> QED BY <1>1, <1>2, <2>4, Zenon
<1> QED BY <1>5, <1>6, Zenon
(* What the decision adds and takes is a number, whatever was answered.    *)
LEMMA DeltaIsInt ==
    ASSUME NEW e, NEW v, NEW w, Get(e.narrative, "confidence", 0) \in Int
    PROVE  Delta(e, v, w) \in Int
<1> DEFINE If(condition, n) == IF condition THEN n ELSE 0
           confidence == Get(e.narrative, "confidence", 0)
           supports == Get(e.narrative, "action", "") = "EXECUTE" /\ confidence >= 450
           support == Chart!Clip(15 + (4 * confidence) \div 100, 0, 40)
           d1 == If(~GhostWalls(e) /\ Chart!Abs(v.imbalance) >= 220, -60)
           d2 == If(~Rug(e), IF RugPct(e) >= 22 THEN -70 ELSE 20)
           d3 == If(~Contagious(e) /\ v.regime = "CONVERGENCE", 40)
           d4 == If(~Contagious(e) /\ v.regime = "DIVERGENCE", -15)
           d5 == If(supports, support)
           d6 == If(~supports /\ confidence >= 250, 10)
           d7 == If(v.atr >= 4500, -40)
           d8 == If(Chart!Abs(v.funding) >= 80, -20)
           d9 == If(v.volume >= 750, 15)
           d10 == If(w.spoof_risk \in 550..749, -50)
           d11 == If(w.crowding >= 78000, -35)
           d12 == If(w.sweep /\ w.reclaim >= 450 /\ w.failed_break >= 550, 30)
           d13 == If(w.true_break >= 680 /\ w.failed_break <= 400 /\ w.wall_quality >= 45000, 30)
           d14 == If(w.sweep_logit >= 664 /\ w.reclaim >= 450, 20)
           d15 == If(w.trend_logit >= 664 /\ w.acceptance >= 550, 20)
<1>1. Delta(e, v, w) =
        d1 + d2 + d3 + d4 + d5 + d6 + d7 + d8 + d9 + d10 + d11 + d12 + d13 + d14 + d15
  BY DEF Delta
<1>2. support \in Int
  <2> HIDE DEF confidence
  <2> DEFINE n == 15 + (4 * confidence) \div 100
  <2>1. n \in Int
    BY DEF confidence
  <2> QED BY <2>1 DEF Chart!Clip
<1> HIDE DEF support, supports, confidence
<1>3. ASSUME NEW c, NEW n \in Int PROVE If(c, n) \in Int
  OBVIOUS
<1>4. -60 \in Int /\ -70 \in Int /\ 20 \in Int /\ 40 \in Int /\ -15 \in Int /\ 10 \in Int /\ -40 \in Int
      /\ -20 \in Int /\ 15 \in Int /\ -50 \in Int /\ -35 \in Int /\ 30 \in Int
  OBVIOUS
<1>5. (IF RugPct(e) >= 22 THEN -70 ELSE 20) \in Int
  BY <1>4, Zenon
<1> HIDE DEF If
<1>6. d1 \in Int /\ d2 \in Int /\ d3 \in Int /\ d4 \in Int /\ d5 \in Int
  BY <1>2, <1>3, <1>4, <1>5, Zenon
<1>7. d6 \in Int /\ d7 \in Int /\ d8 \in Int /\ d9 \in Int /\ d10 \in Int
  BY <1>3, <1>4
<1>8. d11 \in Int /\ d12 \in Int /\ d13 \in Int /\ d14 \in Int /\ d15 \in Int
  BY <1>3, <1>4
<1> HIDE DEF d1, d2, d3, d4, d5, d6, d7, d8, d9, d10, d11, d12, d13, d14, d15
<1> QED BY <1>1, <1>6, <1>7, <1>8

(* The confidence of the local heuristic (_get_narrative).                 *)
LEMMA LocalConfidence ==
    ASSUME NEW net \in Int
    PROVE  Get(LocalNarrative(net), "confidence", 0) \in Int
<1> DEFINE edge == Chart!Clip((1000 * net) \div 500, -1000, 1000)
           n == (35 * Chart!Abs(edge)) \div 100
<1>1. edge \in Int
  BY DEF Chart!Clip
<1> HIDE DEF edge
<1>2. n \in Int
  BY <1>1 DEF Chart!Abs
<1>3. LocalNarrative(net) = [action |-> "WAIT", confidence |-> n]
  BY DEF LocalNarrative, edge
<1> HIDE DEF n
<1> QED BY <1>2, <1>3 DEF Get

(* What the pass compares: the narrative's confidence is the only number   *)
(* of a state that a decision adds.                                        *)
Numbers ==
    /\ scan.at = "ask" => scan.base \in Int
    /\ "narrative" \in DOMAIN states => Get(states["narrative"], "confidence", 0) \in Int
    /\ scan.tri \in Nat /\ alarms \subseteq Enabled /\ approved \subseteq Int
    /\ scan.at # "idle" =>
        scan.best.value \in Int /\ \A value \in approved : value <= scan.best.value

(* What is asked about is worth a number.                                  *)
LEMMA ValueIsInt ==
    ASSUME PassFits, Numbers, scan.at = "ask"
    PROVE  LET tri == Triangles[scan.tri]
               e == Envelope(tri)
               v == View(e)
           IN  \A w : Find(tri, e, Decision(e, v, w).final_score).value \in Int
<1> DEFINE tri == Triangles[scan.tri]
           tickers == Markets[scan.market]
           e == Envelope(tri)
           v == View(e)
<1> SUFFICES ASSUME NEW w PROVE Find(tri, e, Decision(e, v, w).final_score).value \in Int
  OBVIOUS
<1> DEFINE d == Delta(e, v, w)
           boost == SnipeBoost(tri, tickers)
           final == Decision(e, v, w).final_score
<1>1. scan.tri \in DOMAIN Triangles /\ scan.market \in DOMAIN Markets /\ scan.book \in DOMAIN Books
  BY Zenon DEF PassFits, AskedIsSound
<1>2. e.net = Net(tri, tickers) /\ e.base = scan.base
      /\ e.narrative = Get(states, "narrative", Heuristics["narrative"])
  BY Zenon DEF Envelope, Heuristics
<1>3. Net(tri, tickers) \in Int /\ scan.base \in Int
  BY <1>1, NetIsInt, Zenon DEF Numbers
<1>4. Get(e.narrative, "confidence", 0) \in Int
  <2>1. Heuristics["narrative"] = LocalNarrative(Net(tri, tickers))
    BY <1>1, Zenon DEF Heuristics, StandIn, LocalStates
  <2>2. Get(Heuristics["narrative"], "confidence", 0) \in Int
    BY <1>3, <2>1, LocalConfidence, Zenon
  <2>3. (e.narrative = states["narrative"] /\ "narrative" \in DOMAIN states)
        \/ e.narrative = Heuristics["narrative"]
    BY <1>2, Zenon DEF Get
  <2> QED BY <2>2, <2>3, Zenon DEF Numbers
<1> HIDE DEF tri, tickers, e, v
<1>5. d \in Int
  BY <1>4, DeltaIsInt, Zenon
<1> HIDE DEF d
<1>6. final = Chart!Clip(e.base + d, 0, 1000)
  BY DEF Decision, d
<1>7. final \in Int
  BY <1>2, <1>3, <1>5, <1>6 DEF Chart!Clip
<1>8. boost \in {40, 20, 0}
  BY DEF SnipeBoost
<1> HIDE DEF final, boost
<1>9. Find(tri, e, final).value = e.net * (final + boost)
  BY Zenon DEF Find, boost, tickers
<1>10. e.net * (final + boost) \in Int
  BY <1>2, <1>3, <1>7, <1>8
<1> QED BY <1>9, <1>10, Zenon DEF final

(* A decision keeps the best.                                              *)
LEMMA DecideKeepsBest ==
    ASSUME PassFits, Numbers, Decide
    PROVE  Numbers'
<1> DEFINE tri == Triangles[scan.tri]
           e == Envelope(tri)
           w == Worm!Analysis(View(e))
           decision == Decision(e, View(e), w)
           opp == Find(tri, e, decision.final_score)
           calm == w.wvi < 5200
           allowed == decision.allow /\ calm
<1>0. Conclude(opp, allowed)
  BY DEF Decide
<1> HIDE DEF calm
<1>1. /\ scan' = GoOn(IF allowed /\ Better(opp.value, scan.best) THEN opp ELSE scan.best)
      /\ approved' = IF allowed THEN approved \cup {opp.value} ELSE approved
  BY <1>0, Zenon DEF Conclude
<1>2. scan.at = "ask" /\ states' = NoStates
  BY Zenon DEF Decide
<1>3. opp.value \in Int
  BY <1>2, ValueIsInt, Zenon
<1>4. scan'.at = "scan" /\ scan'.best = IF allowed /\ Better(opp.value, scan.best) THEN opp ELSE scan.best
  BY <1>1, Zenon DEF GoOn
<1> DEFINE worth == opp.value
           most == scan.best.value
<1>5. most \in Int /\ approved \subseteq Int /\ \A x \in approved : x <= most
  BY <1>2, Zenon DEF Numbers
<1>6. scan'.best.value = IF allowed /\ worth > most THEN worth ELSE most
  BY <1>4, Zenon DEF Better
<1>7. approved' = IF allowed THEN approved \cup {worth} ELSE approved
  BY <1>1, Zenon
<1> HIDE DEF worth, most, allowed
<1>8. worth \in Int
  BY <1>3, Zenon DEF worth
<1>9. scan'.best.value \in Int /\ approved' \subseteq Int /\ \A x \in approved' : x <= scan'.best.value
  <2>1. CASE ~allowed
    BY <1>5, <1>6, <1>7, <2>1, Zenon
  <2>2. CASE allowed /\ worth > most
    <3>1. \A x \in approved : x <= worth
      BY <1>5, <1>8, <2>2
    <3>2. worth <= worth
      BY <1>8
    <3>3. scan'.best.value = worth
      BY <1>6, <2>2, Zenon
    <3> QED BY <1>5, <1>7, <1>8, <2>2, <3>1, <3>2, <3>3, Zenon
  <2>3. CASE allowed /\ ~(worth > most)
    <3>1. worth <= most
      BY <1>5, <1>8, <2>3
    <3>2. scan'.best.value = most
      BY <1>6, <2>3, Zenon
    <3> QED BY <1>5, <1>7, <1>8, <2>3, <3>1, <3>2, Zenon
  <2> QED BY <2>1, <2>2, <2>3, Zenon
<1>10. DOMAIN states' = {} /\ alarms' = {} /\ scan'.tri \in Nat
  <2>1. scan'.tri = scan.tri + 1 /\ alarms' = {}
    BY <1>1, Zenon DEF GoOn, Decide
  <2> QED BY <1>2, <2>1 DEF NoStates, Numbers
<1> QED BY <1>4, <1>9, <1>10, Zenon DEF Numbers

(* No answer of narrative has a confidence that is read: its schema has    *)
(* no such key (NarrativeState).                                           *)
LEMMA NarrativeIsDumb ==
    ASSUME NEW reply
    PROVE  Get(Validated("narrative", reply), "confidence", 0) \in Int
<1>1. DOMAIN Validated("narrative", reply) = DOMAIN Schema["narrative"]
  BY Zenon DEF Validated, FitsSchema
<1>2. Schema.narrative = [symbol |-> "", sentiment |-> "NEUTRAL", score |-> 0]
  BY Zenon DEF Schema
<1>3. "confidence" \notin DOMAIN Schema["narrative"]
  BY <1>2
<1> QED BY <1>1, <1>3 DEF Get

(* Every step keeps the best of the pass.                                  *)
LEMMA StepKeepsBest ==
    ASSUME PassFits, Numbers, [PassNext]_passVars
    PROVE  Numbers'
<1>1. ASSUME NEW market \in DOMAIN Markets, BeginPass(market) PROVE Numbers'
  <2>1. /\ scan'.at = "scan" /\ scan'.best = Nobody /\ approved' = {} /\ states' = states
        /\ scan'.tri = 1 /\ alarms' = alarms
    BY <1>1, Zenon DEF BeginPass
  <2>2. Nobody.value = 0
    BY Zenon DEF Nobody
  <2> QED BY <2>1, <2>2 DEF Numbers
<1>2. ASSUME Evaluate PROVE Numbers'
  <2>1. PICK book \in DOMAIN Books, chart \in DOMAIN Charts, enough \in BOOLEAN :
          scan' = IF enough /\ Local[scan.tri][scan.market][book][chart].passes
                  THEN [at |-> "ask", tri |-> scan.tri, best |-> scan.best, market |-> scan.market,
                        book |-> book, base |-> Local[scan.tri][scan.market][book][chart].score]
                  ELSE GoOn(scan.best)
    BY <1>2, Zenon DEF Evaluate
  <2>2. /\ scan.at = "scan" /\ scan.tri \in DOMAIN Triangles /\ scan.market \in DOMAIN Markets
        /\ states' = states /\ approved' = approved /\ alarms' = alarms
    BY <1>2, Zenon DEF Evaluate, PassFits, ScanFits
  <2>3. scan'.at # "idle" /\ scan'.best = scan.best
    BY <2>1, Zenon DEF GoOn
  <2>4. scan'.at = "ask" => scan'.base \in Int
    BY <2>1, <2>2, ScoreIsInt, Zenon DEF GoOn
  <2>5. scan'.tri \in Nat
    <3>1. scan'.tri = scan.tri \/ scan'.tri = scan.tri + 1
      BY <2>1, Zenon DEF GoOn
    <3> QED BY <3>1 DEF Numbers
  <2> QED BY <2>2, <2>3, <2>4, <2>5, Zenon DEF Numbers
<1>3. ASSUME NEW s \in Enabled, NEW reply, Answer(s, reply) PROVE Numbers'
  <2>1. scan' = scan /\ approved' = approved
        /\ states' = [t \in DOMAIN states \cup {s} |-> IF t = s THEN Validated(s, reply) ELSE states[t]]
    BY <1>3, Zenon DEF Answer, Settle
  <2>2. "narrative" \in DOMAIN states' => Get(states'["narrative"], "confidence", 0) \in Int
    BY <2>1, NarrativeIsDumb, Zenon DEF Numbers
  <2>3. alarms' \subseteq Enabled
    BY <1>3, Zenon DEF Answer, Numbers
  <2> QED BY <2>1, <2>2, <2>3, Zenon DEF Numbers
<1>4. ASSUME NEW s \in Enabled, Fail(s) PROVE Numbers'
  <2>1. /\ scan.at = "ask" /\ scan' = scan /\ approved' = approved /\ alarms' = alarms
        /\ \/ states' = states
           \/ states' = [t \in DOMAIN states \cup {s} |-> IF t = s THEN Heuristics[s] ELSE states[t]]
    BY <1>4, Zenon DEF Fail, Pending, Settle, Heuristics
  <2>2. Get(Heuristics["narrative"], "confidence", 0) \in Int
    <3>1. scan.tri \in DOMAIN Triangles /\ scan.market \in DOMAIN Markets /\ scan.book \in DOMAIN Books
      BY <2>1, Zenon DEF PassFits, AskedIsSound
    <3>2. Heuristics["narrative"] = LocalNarrative(Net(Triangles[scan.tri], Markets[scan.market]))
      BY <3>1, Zenon DEF Heuristics, StandIn, LocalStates
    <3> QED BY <3>1, <3>2, NetIsInt, LocalConfidence, Zenon
  <2>3. "narrative" \in DOMAIN states' => Get(states'["narrative"], "confidence", 0) \in Int
    BY <2>1, <2>2, Zenon DEF Numbers
  <2> QED BY <2>1, <2>3, Zenon DEF Numbers
<1>5. ASSUME Publish PROVE Numbers'
  <2>1. scan'.at = "idle" /\ scan'.tri = 0 /\ UNCHANGED <<states, approved, alarms>>
    BY <1>5, Zenon DEF Publish, NoScan
  <2> QED BY <2>1 DEF Numbers
<1>6. ASSUME EngineGoesOn \/ UNCHANGED passVars PROVE Numbers'
  <2>1. UNCHANGED <<scan, states, approved, alarms>>
    BY <1>6, Zenon DEF EngineGoesOn, passVars, scanVars
  <2> QED BY <2>1, Zenon DEF Numbers
<1> QED BY <1>1, <1>2, <1>3, <1>4, <1>5, <1>6, DecideKeepsBest, Zenon DEF PassNext

(* What a pass compares are numbers, and its best is the best so far, in   *)
(* every reachable state.                                                  *)
LEMMA BestInvariant == PassSpec => [](PassFits /\ Numbers)
<1>1. PassInit => Numbers
  <2> SUFFICES ASSUME PassInit PROVE Numbers
    OBVIOUS
  <2>1. scan.at = "idle" /\ scan.tri = 0 /\ alarms = {} /\ approved = {}
    BY Zenon DEF PassInit, NoScan
  <2>2. DOMAIN states = {} /\ 0 \in Nat
    BY DEF PassInit, NoStates
  <2> QED BY <2>1, <2>2, Zenon DEF Numbers
<1>2. PassFits /\ Numbers /\ [PassNext]_passVars => Numbers'
  BY StepKeepsBest
<1> QED BY <1>1, <1>2, PassInvariant, PTL DEF PassSpec

(* Of all that a pass finds allowed the best is published, in whatever     *)
(* order the services answer (_scan_cycle).                                *)
THEOREM BestOfThePass == PassSpec => BestIsPublished
<1>1. PassFits /\ Numbers /\ [PassNext]_passVars =>
        [scan.at # "idle" /\ scan'.at = "idle" => \A value \in approved : value <= published'.value]_passVars
  <2> SUFFICES ASSUME PassFits, Numbers, PassNext, scan.at # "idle", scan'.at = "idle"
               PROVE  \A value \in approved : value <= published'.value
    BY Zenon
  <2>1. Publish
    <3>1. ASSUME NEW m \in DOMAIN Markets, BeginPass(m) PROVE FALSE
      BY <3>1, Zenon DEF BeginPass
    <3>2. ASSUME Evaluate PROVE FALSE
      <4>1. scan'.at = "ask" \/ scan'.at = "scan"
        BY <3>2 DEF Evaluate, GoOn
      <4> QED BY <4>1
    <3>3. ASSUME NEW s, NEW reply, Answer(s, reply) \/ Fail(s) PROVE FALSE
      BY <3>3, Zenon DEF Answer, Fail
    <3>4. ASSUME Decide PROVE FALSE
      <4>1. scan'.at = "scan"
        BY <3>4 DEF Decide, Conclude, GoOn
      <4> QED BY <4>1
    <3>5. ASSUME EngineGoesOn PROVE FALSE
      BY <3>5, Zenon DEF EngineGoesOn, scanVars
    <3> QED BY <3>1, <3>2, <3>3, <3>4, <3>5, Zenon DEF PassNext
  <2>2. published' = scan.best
    BY <2>1, Zenon DEF Publish
  <2> QED BY <2>2, Zenon DEF Numbers
<1> QED BY <1>1, BestInvariant, PTL DEF PassSpec, BestIsPublished

-----------------------------------------------------------------------------
(* Spoofhunter's engine (Spoofhunter.tla), which runs next to the pass.    *)

Wall == [initial : Nat, current : Nat, age : 0..LongLife + 1]
Ghost == [price : Prices, size : Nat, age : 0..Window]

WallsTyped ==
    /\ walls \in [Prices -> Wall] /\ stood \in [Prices -> 0..MaxLifetime + 1]
    /\ last \in [Prices -> Nat] /\ last \in Shots \cup {Nothing}

GhostsTyped == ghosts \subseteq Ghost /\ \A g \in ghosts : g.size >= MinWall

TrackersTyped ==
    /\ DOMAIN iceberg = Sides
    /\ \A s \in Sides : /\ DOMAIN iceberg[s] = {"price", "qty", "refills", "age"}
                        /\ iceberg[s].refills \in 0..Refills

(* A wall that is tracked was in the last snapshot, large when it came,    *)
(* and was seen to be a wall since it came.                                *)
WallFits(p) ==
    walls[p] # NoWall =>
        last[p] > 0 /\ walls[p].initial >= MinWall /\ stood[p] <= walls[p].age

EngineFits == WallsTyped /\ GhostsTyped /\ TrackersTyped /\ \A p \in Prices : WallFits(p)

(* What a wall is when it is a tick older.                                 *)
LEMMA OlderWallIs ==
    ASSUME EngineFits, NEW p \in Prices
    PROVE  /\ OlderWall(p) \in Wall
           /\ walls[p] = NoWall => OlderWall(p) = NoWall
           /\ walls[p] # NoWall =>
                /\ OlderWall(p).initial = walls[p].initial
                /\ OlderWall(p).age = CountUpTo(walls[p].age, LongLife + 1)
                /\ StoodBefore(p) <= OlderWall(p).age
           /\ StoodBefore(p) \in 0..MaxLifetime + 1
<1> USE SpoofhunterAssumption
<1>1. walls[p] \in Wall /\ stood[p] \in 0..MaxLifetime + 1
  BY DEF EngineFits, WallsTyped
<1>2. NoWall \in Wall
  BY DEF NoWall, Wall
<1>3. StoodBefore(p) \in 0..MaxLifetime + 1
  BY <1>1 DEF StoodBefore, CountUpTo
<1>4. CASE walls[p] = NoWall
  BY <1>2, <1>3, <1>4, Zenon DEF OlderWall
<1>5. CASE walls[p] # NoWall
  <2> DEFINE age == CountUpTo(walls[p].age, LongLife + 1)
  <2>1. age \in 0..LongLife + 1 /\ StoodBefore(p) <= age
    BY <1>1, <1>5 DEF EngineFits, WallFits, Wall, StoodBefore, CountUpTo
  <2>2. OlderWall(p) = [walls[p] EXCEPT !.age = age]
    BY <1>5, Zenon DEF OlderWall
  <2> HIDE DEF age
  <2>3. OlderWall(p) \in Wall /\ OlderWall(p).initial = walls[p].initial /\ OlderWall(p).age = age
    BY <1>1, <2>1, <2>2 DEF Wall
  <2> QED BY <1>3, <1>5, <2>1, <2>3 DEF age
<1> QED BY <1>4, <1>5, Zenon

(* What the scans of bids and asks make of a wall.                         *)
LEMMA TrackedIs ==
    ASSUME EngineFits, NEW shot \in Shots, NEW p \in Prices
    PROVE  /\ Tracked(shot, p) \in Wall
           /\ Tracked(shot, p) # NoWall =>
                /\ Tracked(shot, p).initial >= MinWall
                /\ (IF IsWall(shot, p) THEN 0 ELSE StoodBefore(p)) <= Tracked(shot, p).age
           /\ Tracked(shot, p) # NoWall /\ shot[p] = 0 =>
                /\ walls[p] # NoWall
                /\ Tracked(shot, p).age = CountUpTo(walls[p].age, LongLife + 1)
<1> USE SpoofhunterAssumption
<1>1. shot[p] \in Nat
  OBVIOUS
<1>2. CASE ~IsWall(shot, p)
  <2>1. Tracked(shot, p) = OlderWall(p)
    BY <1>2, Zenon DEF Tracked
  <2>2. walls[p] # NoWall => walls[p].initial >= MinWall
    BY DEF EngineFits, WallFits
  <2> QED BY <1>2, <2>1, <2>2, OlderWallIs
<1>3. IsWall(shot, p) => shot[p] >= MinWall /\ shot[p] # 0
  BY <1>1 DEF IsWall
<1>4. CASE IsWall(shot, p) /\ walls[p] # NoWall
  <2>1. Tracked(shot, p) = [OlderWall(p) EXCEPT !.current = shot[p]]
    BY <1>4, Zenon DEF Tracked
  <2>2. OlderWall(p) \in Wall /\ OlderWall(p).initial >= MinWall
    BY <1>4, OlderWallIs DEF EngineFits, WallFits
  <2>3. Tracked(shot, p) \in Wall /\ Tracked(shot, p).initial >= MinWall /\ 0 <= Tracked(shot, p).age
    BY <1>1, <2>1, <2>2 DEF Wall
  <2> QED BY <1>3, <1>4, <2>3
<1>5. CASE IsWall(shot, p) /\ walls[p] = NoWall
  <2>1. Tracked(shot, p) = [initial |-> shot[p], current |-> shot[p], age |-> 0]
    BY <1>5, Zenon DEF Tracked
  <2>2. Tracked(shot, p) \in Wall /\ Tracked(shot, p).initial >= MinWall /\ 0 <= Tracked(shot, p).age
    BY <1>1, <1>3, <1>5, <2>1 DEF Wall
  <2> QED BY <1>3, <1>5, <2>2
<1> QED BY <1>2, <1>4, <1>5, Zenon

(* Ghosts that stay are older, and older than none.                        *)
LEMMA OlderGhostsAre ==
    ASSUME EngineFits
    PROVE  /\ OlderGhosts \subseteq Ghost
           /\ \A g \in OlderGhosts : g.age > 0 /\ g.size >= MinWall
<1> USE SpoofhunterAssumption
<1>1. SUFFICES ASSUME NEW h \in ghosts, h.age < Window
               PROVE  LET g == [h EXCEPT !.age = @ + 1]
                      IN  g \in Ghost /\ g.age > 0 /\ g.size >= MinWall
  BY Zenon DEF OlderGhosts
<1>2. h \in Ghost /\ h.size >= MinWall
  BY DEF EngineFits, GhostsTyped
<1> QED BY <1>1, <1>2 DEF Ghost

(* A snapshot has a size at every price.                                   *)
LEMMA ShotsTyped == \A shot \in Shots : shot \in [Prices -> Nat]
  BY SpoofhunterAssumption

(* The tracker of a side, a tick later, and with a new best price.         *)
LEMMA OlderTrackerIs ==
    ASSUME EngineFits, NEW s \in Sides
    PROVE  /\ DOMAIN OlderTracker(s) = {"price", "qty", "refills", "age"}
           /\ OlderTracker(s).refills \in 0..Refills
<1>1. DOMAIN iceberg[s] = {"price", "qty", "refills", "age"} /\ iceberg[s].refills \in 0..Refills
  BY Zenon DEF EngineFits, TrackersTyped
<1> QED BY <1>1 DEF OlderTracker

(* What a best price that comes does to the tracker of its side            *)
(* (_check_iceberg).                                                       *)
LEMMA TrackerRefilled ==
    ASSUME NEW t, DOMAIN t = {"price", "qty", "refills", "age"}, t.refills \in 0..Refills,
           NEW price, NEW qty
    PROVE  /\ DOMAIN Refilled(t, price, qty) = {"price", "qty", "refills", "age"}
           /\ Refilled(t, price, qty).refills \in 0..Refills
<1>1. CASE t.price # price
  BY <1>1, SpoofhunterAssumption DEF Refilled
<1>2. CASE t.price = price
  BY <1>2, SpoofhunterAssumption DEF Refilled, CountUpTo
<1> QED BY <1>1, <1>2

(* What a snapshot adds.                                                   *)
NewGhosts(shot) ==
    {[price |-> p, size |-> Tracked(shot, p).initial, age |-> 0] :
        p \in {q \in Prices : IsGhost(shot, Tracked(shot, q), q)}}

(* The steps of a snapshot (process_depth).                                *)
LEMMA DepthIs ==
    ASSUME EngineFits, NEW shot \in Shots, Depth(shot)
    PROVE  /\ walls' = [p \in Prices |-> IF Ends(shot, Tracked(shot, p), p) THEN NoWall
                                         ELSE Tracked(shot, p)]
           /\ ghosts' = OlderGhosts \cup NewGhosts(shot)
           /\ last' = shot
           /\ stood' = [p \in Prices |-> IF IsWall(shot, p) THEN 0 ELSE StoodBefore(p)]
<1> DEFINE after == [p \in Prices |-> Tracked(shot, p)]
<1>1. \A p \in Prices : after[p] = Tracked(shot, p)
  OBVIOUS
<1>2. /\ walls' = [p \in Prices |-> IF Ends(shot, after[p], p) THEN NoWall ELSE after[p]]
      /\ ghosts' = OlderGhosts \cup {[price |-> p, size |-> after[p].initial, age |-> 0] :
                                        p \in {q \in Prices : IsGhost(shot, after[q], q)}}
      /\ last' = shot
      /\ stood' = [p \in Prices |-> IF IsWall(shot, p) THEN 0 ELSE StoodBefore(p)]
  BY Zenon DEF Depth
<1> HIDE DEF after
<1>3. walls' = [p \in Prices |-> IF Ends(shot, Tracked(shot, p), p) THEN NoWall ELSE Tracked(shot, p)]
  BY <1>1, <1>2, Zenon
<1>4. {[price |-> p, size |-> after[p].initial, age |-> 0] :
            p \in {q \in Prices : IsGhost(shot, after[q], q)}} = NewGhosts(shot)
  <2>1. {q \in Prices : IsGhost(shot, after[q], q)} = {q \in Prices : IsGhost(shot, Tracked(shot, q), q)}
    BY <1>1, Zenon
  <2> QED BY <1>1, <2>1, Zenon DEF NewGhosts
<1> QED BY <1>2, <1>3, <1>4, Zenon

(* Every new ghost was a wall that was seen not long ago.                  *)
LEMMA NewGhostWasAWall ==
    ASSUME EngineFits, NEW shot \in Shots, NEW g \in NewGhosts(shot)
    PROVE  /\ g \in Ghost /\ g.size >= MinWall
           /\ last[g.price] > 0 /\ shot[g.price] = 0 /\ stood[g.price] <= MaxLifetime
<1> USE SpoofhunterAssumption
<1> DEFINE after(p) == Tracked(shot, p)
<1>1. PICK p \in Prices :
        /\ IsGhost(shot, after(p), p)
        /\ g = [price |-> p, size |-> after(p).initial, age |-> 0]
  BY Zenon DEF NewGhosts
<1>2. after(p) # NoWall /\ shot[p] = 0 /\ after(p).age <= MaxLifetime
  BY <1>1, Zenon DEF IsGhost
<1>3. /\ after(p) \in Wall /\ after(p).initial >= MinWall /\ walls[p] # NoWall
      /\ after(p).age = CountUpTo(walls[p].age, LongLife + 1)
  BY <1>2, TrackedIs, Zenon
<1> HIDE DEF after
<1>4. g \in Ghost /\ g.size >= MinWall /\ g.price = p
  BY <1>1, <1>3 DEF Ghost, Wall
<1>5. walls[p] \in Wall /\ stood[p] \in 0..MaxLifetime + 1
  BY DEF EngineFits, WallsTyped
<1>6. last[p] > 0 /\ stood[p] <= walls[p].age
  BY <1>3, Zenon DEF EngineFits, WallFits
<1>7. walls[p].age <= MaxLifetime
  BY <1>2, <1>3, <1>5 DEF Wall, CountUpTo
<1>8. stood[p] <= MaxLifetime
  BY <1>5, <1>6, <1>7 DEF Wall
<1> QED BY <1>2, <1>4, <1>6, <1>8, Zenon

(* A snapshot that comes (process_depth).                                  *)
LEMMA DepthKeeps ==
    ASSUME EngineFits, NEW shot \in Shots, Depth(shot)
    PROVE  EngineFits'
<1> USE SpoofhunterAssumption
<1> DEFINE after(p) == Tracked(shot, p)
<1>1. NoWall \in Wall /\ \A p \in Prices : after(p) \in Wall
  <2>1. NoWall \in Wall
    BY DEF NoWall, Wall
  <2> QED BY <2>1, TrackedIs, Zenon
<1>2. walls' \in [Prices -> Wall]
  BY <1>1, DepthIs, Zenon
<1>3. stood' \in [Prices -> 0..MaxLifetime + 1]
  <2>1. \A p \in Prices : StoodBefore(p) \in 0..MaxLifetime + 1
    BY OlderWallIs, Zenon
  <2>2. 0 \in 0..MaxLifetime + 1
    OBVIOUS
  <2> QED BY <2>1, <2>2, DepthIs, Zenon
<1>4. last' = shot /\ DOMAIN shot = Prices /\ \A p \in Prices : shot[p] \in Nat
  BY DepthIs, ShotsTyped
<1>5. last' \in [Prices -> Nat] /\ last' \in Shots \cup {Nothing}
  <2>1. last' \in Shots
    BY <1>4, Zenon
  <2>2. \A s \in Shots : s \in [Prices -> Nat]
    BY ShotsTyped, Zenon
  <2> QED BY <2>1, <2>2, Zenon
<1>6. GhostsTyped'
  <2>1. \A g \in ghosts' : g \in OlderGhosts \/ g \in NewGhosts(shot)
    BY DepthIs, Zenon
  <2>2. \A g \in ghosts' : g \in Ghost /\ g.size >= MinWall
    BY <2>1, NewGhostWasAWall, OlderGhostsAre, Zenon
  <2> QED BY <2>2, Zenon DEF GhostsTyped, Ghost
<1>7. TrackersTyped'
  <2>1. iceberg' = [s \in Sides |->
            Refilled(OlderTracker(s), BestPrice(shot, s), shot[BestPrice(shot, s)])]
    BY Zenon DEF Depth
  <2>2. ASSUME NEW s \in Sides, NEW price, NEW qty
        PROVE  LET t == Refilled(OlderTracker(s), price, qty)
               IN  DOMAIN t = {"price", "qty", "refills", "age"} /\ t.refills \in 0..Refills
    BY TrackerRefilled, OlderTrackerIs, Zenon
  <2> HIDE DEF SpoofhunterAssumption
  <2> QED BY <2>1, <2>2, Zenon DEF TrackersTyped
<1>8. ASSUME NEW p \in Prices PROVE WallFits(p)'
  <2> SUFFICES ASSUME walls'[p] # NoWall
               PROVE  last'[p] > 0 /\ walls'[p].initial >= MinWall /\ stood'[p] <= walls'[p].age
    BY DEF WallFits
  <2>1. walls'[p] = after(p) /\ ~Ends(shot, after(p), p)
    BY DepthIs, Zenon
  <2>2. shot[p] # 0
    BY <2>1, Zenon DEF Ends
  <2>3. stood'[p] = IF IsWall(shot, p) THEN 0 ELSE StoodBefore(p)
    BY DepthIs, Zenon
  <2>4. after(p).initial >= MinWall /\ stood'[p] <= after(p).age
    BY <2>1, <2>3, TrackedIs, Zenon
  <2>5. last'[p] \in Nat /\ last'[p] # 0
    BY <1>4, <2>2, Zenon
  <2>6. last'[p] > 0
    BY <2>5
  <2> QED BY <2>1, <2>4, <2>6, Zenon
<1> QED BY <1>2, <1>3, <1>5, <1>6, <1>7, <1>8, Zenon DEF EngineFits, WallsTyped

(* A tick without a snapshot.                                              *)
LEMMA TickKeeps ==
    ASSUME EngineFits, EngineTick
    PROVE  EngineFits'
<1> USE SpoofhunterAssumption
<1>1. /\ walls' = [p \in Prices |-> OlderWall(p)] /\ ghosts' = OlderGhosts /\ last' = last
      /\ iceberg' = [s \in Sides |-> OlderTracker(s)]
      /\ stood' = [p \in Prices |-> StoodBefore(p)]
  BY Zenon DEF EngineTick
<1>2. WallsTyped'
  BY <1>1, OlderWallIs, Zenon DEF EngineFits, WallsTyped, Wall
<1>3. GhostsTyped'
  BY <1>1, OlderGhostsAre, Zenon DEF GhostsTyped, Ghost
<1>4. TrackersTyped'
  BY <1>1, OlderTrackerIs, Zenon DEF TrackersTyped
<1>5. ASSUME NEW p \in Prices PROVE WallFits(p)'
  BY <1>1, OlderWallIs, Zenon DEF EngineFits, WallFits
<1> QED BY <1>2, <1>3, <1>4, <1>5, Zenon DEF EngineFits

(* An engine starts without walls (SpoofEngine.__init__).                  *)
LEMMA EngineBegins == EngineInit => EngineFits
<1> USE SpoofhunterAssumption
<1> SUFFICES ASSUME EngineInit PROVE EngineFits
  OBVIOUS
<1>1. NoWall \in Wall /\ MaxLifetime + 1 \in 0..MaxLifetime + 1 /\ 0 \in Nat /\ 0 \in 0..Refills
  BY DEF NoWall, Wall
<1>2. WallsTyped
  BY <1>1, Zenon DEF EngineInit, WallsTyped, Nothing
<1>3. GhostsTyped
  BY Zenon DEF EngineInit, GhostsTyped
<1>4. TrackersTyped
  BY <1>1, Zenon DEF EngineInit, TrackersTyped, NoTracker
<1>5. \A p \in Prices : WallFits(p)
  BY Zenon DEF EngineInit, WallFits
<1> QED BY <1>2, <1>3, <1>4, <1>5, Zenon DEF EngineFits

(* What the engine tracks fits what it saw, in every reachable state.      *)
LEMMA EngineInvariant == PassSpec => []EngineFits
<1>1. PassInit => EngineFits
  BY EngineBegins, Zenon DEF PassInit
<1>2. EngineFits /\ [PassNext]_passVars => EngineFits'
  <2> SUFFICES ASSUME EngineFits, [PassNext]_passVars PROVE EngineFits'
    OBVIOUS
  <2>1. EngineStep \/ UNCHANGED engineVars
    BY Zenon DEF PassNext, BeginPass, Evaluate, Answer, Fail, Decide, Publish, EngineGoesOn, passVars
  <2>2. CASE EngineStep
    BY <2>2, TickKeeps, DepthKeeps, Zenon DEF EngineStep
  <2>3. CASE UNCHANGED engineVars
    BY <2>3, Zenon DEF engineVars, EngineFits, WallsTyped, GhostsTyped, TrackersTyped, WallFits, Ghost, Wall
  <2> QED BY <2>1, <2>2, <2>3, Zenon
<1> QED BY <1>1, <1>2, PTL DEF PassSpec

(* The engine of spoofhunter keeps its types: ghosts are no older than the *)
(* window and no smaller than the least wall (process_depth).              *)
THEOREM EngineTypeCorrect == PassSpec => []EngineTypeOK
<1>1. EngineFits => EngineTypeOK
  BY Zenon DEF EngineFits, WallsTyped, GhostsTyped, TrackersTyped, WallFits, EngineTypeOK, Wall, Ghost
<1> QED BY <1>1, EngineInvariant, PTL

(* Each ghost that is added was a wall of the snapshot before, seen no     *)
(* longer ago than a ghost may have lived (process_depth).                 *)
THEOREM GhostsWereWalls == PassSpec => GhostWasAWall
<1>1. EngineFits /\ [PassNext]_passVars =>
        [\A g \in ghosts' : g.age = 0 =>
            /\ last[g.price] > 0 /\ last'[g.price] = 0
            /\ stood[g.price] <= MaxLifetime]_engineVars
  <2> SUFFICES ASSUME EngineFits, [PassNext]_passVars
               PROVE  UNCHANGED engineVars \/ \A g \in ghosts' : g.age = 0 =>
                        last[g.price] > 0 /\ last'[g.price] = 0 /\ stood[g.price] <= MaxLifetime
    BY Zenon
  <2>1. EngineStep \/ UNCHANGED engineVars
    BY Zenon DEF PassNext, BeginPass, Evaluate, Answer, Fail, Decide, Publish, EngineGoesOn, passVars
  <2>2. \A g \in OlderGhosts : g.age # 0
    <3>1. \A g \in OlderGhosts : g \in Ghost /\ g.age > 0
      BY OlderGhostsAre, Zenon
    <3> QED BY <3>1, SpoofhunterAssumption DEF Ghost
  <2>3. CASE EngineTick
    BY <2>2, <2>3, Zenon DEF EngineTick
  <2>4. CASE \E shot \in Shots : Depth(shot)
    BY <2>2, <2>4, DepthIs, NewGhostWasAWall, Zenon
  <2> QED BY <2>1, <2>3, <2>4, Zenon DEF EngineStep
<1> QED BY <1>1, EngineInvariant, PTL DEF PassSpec, GhostWasAWall

(* The pass keeps the types of its variables, and the requests to the      *)
(* services are repeated no more than RETRY_ATTEMPTS times.                *)
THEOREM PassTypeCorrect == PassSpec => []PassTypeOK
<1>1. PassFits /\ Numbers /\ EngineTypeOK => PassTypeOK
  BY Zenon DEF PassFits, ScanFits, StatesFit, Numbers, PassTypeOK
<1> QED BY <1>1, BestInvariant, EngineTypeCorrect, PTL
=============================================================================
