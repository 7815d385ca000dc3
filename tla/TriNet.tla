------------------------------- MODULE TriNet -------------------------------
(***************************************************************************)
(* The v666 engine as it is deployed by docker-compose.yml: one scanner    *)
(* process, the executor processes of the regions, Redis Pub/Sub between   *)
(* them and one exchange account below them all.  Every process has its    *)
(* own RobinHoodRisk object, initialized with the free balance it finds.   *)
(*                                                                         *)
(* One action per stretch of a coroutine between two awaits.  A process    *)
(* handles one message at a time (listen awaits the handler), so the       *)
(* executor's local state is one record.                                   *)
(***************************************************************************)
EXTENDS RiskEngine, Sequences, FiniteSets

CONSTANTS
    Executors,      \* regions: singapore, tokyo
    Scanner,        \* the scanner process
    Deposit,        \* free balance of the account at the beginning
    Results,        \* what a complete triangle wins or loses
    EarnMin,        \* cfg.AUTO_EARN_MIN_PROFIT
    MaxOpps,        \* bound: opportunities published
    MaxInbox,       \* bound: messages a subscriber's connection holds
    MaxTriangles,   \* bound: triangles that are begun
    MaxFaults       \* bound: crashes and balance requests that fail

ASSUME TriNetAssumption ==
    /\ Scanner \notin Executors
    /\ Deposit \in Nat \ {0}
    /\ Results \subseteq Int
    /\ EarnMin \in Nat \ {0}
    /\ MaxOpps \in Nat /\ MaxInbox \in Nat
    /\ MaxTriangles \in Nat /\ MaxFaults \in Nat

Procs == Executors \cup {Scanner}

Opps == 1..MaxOpps

PauseAlert == 0      \* a message of CH_RISK; the opportunities are 1, 2, ...

VARIABLES
    engine,      \* robin_hood of each process
    best,        \* scanner: best opportunity of the cycle, 0: none, -1: no cycle
    offered,     \* capital_needed of every opportunity published so far
    inbox,       \* messages delivered to each executor and not yet handled
    exec,        \* what each executor is doing
    free,        \* free USDT of the account
    earn,        \* USDT of the account in Simple Earn
    begun,       \* triangles so far
    faults,      \* crashes and failed balance requests so far
    own,         \* history: what each executor's triangle has moved so far
    blurred,     \* history: whether the difference it will record is another
    apart,       \* history: what the account has that an engine never counts
    misled,      \* history: an engine's largest loss recorded and not made
    clear        \* history: no engine was lost, and no record was another's

account == <<free, earn>>
counts == <<begun, faults>>
history == <<own, blurred, apart, misled, clear>>
vars == <<engine, best, offered, inbox, exec, account, counts, history>>

Places == {"idle", "before", "leg1", "leg2", "leg3", "after", "earn"}

Idle == [at |-> "idle", capital |-> 0, before |-> 0, pnl |-> 0]

TypeOK ==
    /\ engine \in [Procs -> Engine]
    /\ best \in -1..MaxPorCiclo
    /\ offered \in Seq(1..MaxPorCiclo) /\ Len(offered) <= MaxOpps
    /\ inbox \in [Executors -> Seq({PauseAlert} \cup Opps)]
    /\ exec \in [Executors -> [at : Places, capital : 0..MaxPorCiclo,
                               before : Nat, pnl : Nat]]
    /\ free \in Nat /\ earn \in Nat
    /\ begun \in 0..MaxTriangles /\ faults \in 0..MaxFaults
    /\ own \in [Executors -> Int]
    /\ blurred \in [Executors -> BOOLEAN]
    /\ apart \in [Executors -> Int]
    /\ misled \in [Executors -> Nat]
    /\ clear \in BOOLEAN

(* get_balance: the free balance, or 0.0 when the request fails.           *)
Reads(b) ==
    \/ b = free /\ UNCHANGED faults
    \/ b = 0 /\ faults < MaxFaults /\ faults' = faults + 1

(* publish: every subscriber gets the message.  A full inbox (the bound)   *)
(* loses it, which looks like a message that is read and ignored.          *)
Published(m) ==
    [e \in Executors |->
        IF Len(inbox[e]) < MaxInbox THEN Append(inbox[e], m) ELSE inbox[e]]

Init ==
    /\ engine = [p \in Procs |-> FreshEngine(Deposit)]
    /\ best = -1
    /\ offered = <<>>
    /\ inbox = [e \in Executors |-> <<>>]
    /\ exec = [e \in Executors |-> Idle]
    /\ free = Deposit
    /\ earn = 0
    /\ begun = 0 /\ faults = 0
    /\ own = [e \in Executors |-> 0]
    /\ blurred = [e \in Executors |-> FALSE]
    /\ apart = [e \in Executors |-> 0]
    /\ misled = [e \in Executors |-> 0]
    /\ clear = TRUE

-----------------------------------------------------------------------------
(* The scanner                                                             *)

(* _scan_cycle begins, or ends at once when is_allowed says no.            *)
StartCycle ==
    /\ best = -1
    /\ engine' = [engine EXCEPT ![Scanner] = AfterAsking(@)]
    /\ best' = IF Allowed(engine[Scanner]) THEN 0 ELSE -1
    /\ UNCHANGED <<offered, inbox, exec, account, counts, history>>

(* A triangle passes _quick_evaluate and every filter and becomes the best *)
(* of the cycle.                                                           *)
FindBest ==
    /\ best >= 0
    /\ Allowed(engine[Scanner])
    /\ OrderSize(engine[Scanner]) >= MinOrder
    /\ engine' = [engine EXCEPT ![Scanner] = AfterAsking(@)]
    /\ best' = OrderSize(engine[Scanner])
    /\ UNCHANGED <<offered, inbox, exec, account, counts, history>>

(* A triangle passes them, but its crowding is above WVI_PAUSE_THRESHOLD:  *)
(* the scanner pauses, announces it and goes on with the next triangle.    *)
WviPause ==
    /\ best >= 0
    /\ Allowed(engine[Scanner])
    /\ OrderSize(engine[Scanner]) >= MinOrder
    /\ engine' = [engine EXCEPT ![Scanner] = AfterPause(AfterAsking(@))]
    /\ inbox' = Published(PauseAlert)
    /\ UNCHANGED <<best, offered, exec, account, counts, history>>

(* The cycle ends and the best opportunity, if there is one, is published. *)
EndCycle ==
    /\ best >= 0
    /\ IF best = 0
         THEN UNCHANGED <<offered, inbox>>
         ELSE /\ Len(offered) < MaxOpps
              /\ offered' = Append(offered, best)
              /\ inbox' = Published(Len(offered) + 1)
    /\ best' = -1
    /\ UNCHANGED <<engine, exec, account, counts, history>>

-----------------------------------------------------------------------------
(* The executors                                                           *)

NextMessage(e) == exec[e].at = "idle" /\ inbox[e] # <<>>

(* _on_risk_alert: a log line.                                             *)
HandleAlert(e) ==
    /\ NextMessage(e)
    /\ Head(inbox[e]) = PauseAlert
    /\ inbox' = [inbox EXCEPT ![e] = Tail(@)]
    /\ UNCHANGED <<engine, best, offered, exec, account, counts, history>>

(* The filters of the region (latency, score, profit) or the half second   *)
(* after an execution reject the opportunity before the engine is asked.   *)
Filter(e) ==
    /\ NextMessage(e)
    /\ Head(inbox[e]) # PauseAlert
    /\ inbox' = [inbox EXCEPT ![e] = Tail(@)]
    /\ UNCHANGED <<engine, best, offered, exec, account, counts, history>>

(* The engine, the Fusion guard or the minimum size reject it.             *)
Refuse(e) ==
    /\ NextMessage(e)
    /\ Head(inbox[e]) # PauseAlert
    /\ inbox' = [inbox EXCEPT ![e] = Tail(@)]
    /\ engine' = [engine EXCEPT ![e] = AfterAsking(@)]
    /\ UNCHANGED <<best, offered, exec, account, counts, history>>

(* _execute_triangle up to its first await, for an order size the engine   *)
(* of the executor permits.                                                *)
Begin(e, size) ==
    /\ begun < MaxTriangles
    /\ begun' = begun + 1
    /\ exec' = [exec EXCEPT ![e] = [Idle EXCEPT !.at = "before", !.capital = size]]
    /\ inbox' = [inbox EXCEPT ![e] = Tail(@)]
    /\ engine' = [engine EXCEPT ![e] = AfterAsking(@)]
    /\ UNCHANGED <<best, offered, account, faults, history>>

Smaller(a, b) == IF a < b THEN a ELSE b

(* Mutant: the published capital is used, whatever the own engine says.    *)
AcceptUnasked(e) ==
    /\ NextMessage(e)
    /\ Head(inbox[e]) # PauseAlert
    /\ Begin(e, offered[Head(inbox[e])])

Accept(e) ==
    /\ NextMessage(e)
    /\ Head(inbox[e]) # PauseAlert
    /\ Allowed(engine[e])
    /\ LET size == Smaller(offered[Head(inbox[e])], OrderSize(engine[e]))
       IN  size >= MinOrder /\ Begin(e, size)

At(e, place) == exec[e].at = place

GoTo(e, place) == exec' = [exec EXCEPT ![e].at = place]

(* Balances are read before the first leg and after the last.             *)
Between(e) == exec[e].at \in {"leg1", "leg2", "leg3", "after"}

ReadBefore(e) ==
    /\ At(e, "before")
    /\ \E b \in {free, 0} :
          /\ Reads(b)
          /\ exec' = [exec EXCEPT ![e].before = b, ![e].at = "leg1"]
          /\ blurred' = [blurred EXCEPT ![e] = b # free]
    /\ UNCHANGED <<engine, best, offered, inbox, account, begun, own, apart, misled, clear>>

(* What e does to the balance is in the differences of the others.         *)
BlurredBy(e) == [f \in Executors |-> blurred[f] \/ (f # e /\ Between(f))]

(* The triangle of e takes USDT of the account, or brings some back.       *)
Moves(e, amount) ==
    /\ free' = free + amount
    /\ own' = [own EXCEPT ![e] = @ + amount]
    /\ apart' = [f \in Executors |-> IF f = e THEN apart[f] ELSE apart[f] + amount]
    /\ blurred' = BlurredBy(e)
    /\ UNCHANGED <<earn, misled, clear>>

(* market_order of the first leg takes the capital.  It returns None when  *)
(* the order was rejected, and also when only its answer was lost.         *)
Leg1(e) ==
    /\ At(e, "leg1")
    /\ \/ /\ exec[e].capital <= free
          /\ Moves(e, -exec[e].capital)
          /\ GoTo(e, "leg2") \/ GoTo(e, "after")
       \/ /\ UNCHANGED <<account, history>>
          /\ GoTo(e, "after")
    /\ UNCHANGED <<engine, best, offered, inbox, counts>>

(* The second leg exchanges one asset for another, or breaks off.          *)
Leg2(e) ==
    /\ At(e, "leg2")
    /\ GoTo(e, "leg3") \/ GoTo(e, "after")
    /\ UNCHANGED <<engine, best, offered, inbox, account, counts, history>>

(* The third leg brings USDT back, or leaves the capital in the asset.     *)
Leg3(e) ==
    /\ At(e, "leg3")
    /\ \/ \E r \in Results :
             /\ r >= -exec[e].capital
             /\ Moves(e, exec[e].capital + r)
       \/ UNCHANGED <<account, history>>
    /\ GoTo(e, "after")
    /\ UNCHANGED <<engine, best, offered, inbox, counts>>

(* Mutant: losses go to Auto-Earn, too.                                    *)
AlwaysEarn(pnl) == [Idle EXCEPT !.at = "earn", !.pnl = pnl]

AfterRecord(pnl) ==
    IF pnl >= EarnMin THEN [Idle EXCEPT !.at = "earn", !.pnl = pnl] ELSE Idle

(* record_trade: pnl is recorded, a reached limit is announced, and a      *)
(* sufficient profit goes to Auto-Earn.                                    *)
Finish(e, pnl) ==
    /\ engine' = [engine EXCEPT ![e] = AfterTrade(@, pnl)]
    /\ inbox' = IF engine'[e].paused /\ ~engine[e].paused
                  THEN Published(PauseAlert) ELSE inbox
    /\ exec' = [exec EXCEPT ![e] = AfterRecord(pnl)]
    /\ UNCHANGED <<best, offered, account, begun>>

Greater(a, b) == IF a > b THEN a ELSE b

(* How the record differs from what the triangle did, if it can.           *)
Compared(e, pnl, another) ==
    /\ apart' = IF another THEN [apart EXCEPT ![e] = @ + own[e] - pnl] ELSE apart
    /\ misled' = IF another THEN [misled EXCEPT ![e] = Greater(@, -pnl)] ELSE misled
    /\ clear' = (clear /\ ~another)
    /\ own' = [own EXCEPT ![e] = 0]
    /\ blurred' = [blurred EXCEPT ![e] = FALSE]

(* Mutant: only what is won is recorded.                                   *)
RecordWinsOnly(e) ==
    /\ At(e, "after")
    /\ \E b \in {free, 0} :
          LET pnl == IF b > exec[e].before THEN b - exec[e].before ELSE 0
          IN  Reads(b) /\ Finish(e, pnl) /\ Compared(e, pnl, blurred[e] \/ b # free)

(* The balance is read again, and the difference is the result.            *)
Record(e) ==
    /\ At(e, "after")
    /\ \E b \in {free, 0} :
          LET pnl == b - exec[e].before
          IN  Reads(b) /\ Finish(e, pnl) /\ Compared(e, pnl, blurred[e] \/ b # free)

(* auto_earn.process: the profit is subscribed, or the request fails.  The *)
(* exchange refuses more than what is free.                                *)
AutoEarn(e) ==
    /\ At(e, "earn")
    /\ \/ /\ exec[e].pnl <= free
          /\ free' = free - exec[e].pnl
          /\ earn' = earn + exec[e].pnl
          /\ blurred' = BlurredBy(e)
       \/ UNCHANGED <<account, blurred>>
    /\ exec' = [exec EXCEPT ![e] = Idle]
    /\ UNCHANGED <<engine, best, offered, inbox, counts, own, apart, misled, clear>>

-----------------------------------------------------------------------------
(* Every process                                                           *)

RunPauseTask(p) ==
    /\ engine[p].task
    /\ engine' = [engine EXCEPT ![p] = AfterTask(@)]
    /\ inbox' = IF engine[p].paused THEN inbox ELSE Published(PauseAlert)
    /\ UNCHANGED <<best, offered, exec, account, counts, history>>

(* The process ends, wherever it is, and restarts (restart: unless-stopped)*)
(* with a new engine, which finds the balance or no answer.  What was      *)
(* published meanwhile is not delivered, and nobody finishes the triangle. *)
Crash(p) ==
    /\ faults < MaxFaults
    /\ faults' = faults + 1
    /\ \E b \in {free, 0} : engine' = [engine EXCEPT ![p] = FreshEngine(b)]
    /\ IF p = Scanner
         THEN /\ best' = -1
              /\ UNCHANGED <<inbox, exec, history>>
         ELSE /\ exec' = [exec EXCEPT ![p] = Idle]
              /\ inbox' = [inbox EXCEPT ![p] = <<>>]
              /\ own' = [own EXCEPT ![p] = 0]
              /\ blurred' = [blurred EXCEPT ![p] = FALSE]
              /\ apart' = [apart EXCEPT ![p] = free + earn - engine'[p].equity]
              /\ misled' = [misled EXCEPT ![p] = 0]
              /\ clear' = FALSE
              /\ UNCHANGED best
    /\ UNCHANGED <<offered, account, begun>>

Tick ==
    /\ \A p \in Procs : ~engine[p].task
    /\ engine' = [p \in Procs |-> AfterTick(engine[p])]
    /\ UNCHANGED <<best, offered, inbox, exec, account, counts, history>>

Next ==
    \/ StartCycle \/ FindBest \/ WviPause \/ EndCycle
    \/ \E e \in Executors :
          \/ HandleAlert(e) \/ Filter(e) \/ Refuse(e) \/ Accept(e)
          \/ ReadBefore(e) \/ Leg1(e) \/ Leg2(e) \/ Leg3(e)
          \/ Record(e) \/ AutoEarn(e)
    \/ \E p \in Procs : RunPauseTask(p) \/ Crash(p)
    \/ Tick

Spec == Init /\ [][Next]_vars

-----------------------------------------------------------------------------
(* Properties                                                              *)

(* Money that has gone into an executor's triangle and may come back.      *)
InFlight(e) == exec[e].at \in {"leg2", "leg3", "after"}

(* The capital of its triangle, from _execute_triangle to its record.      *)
Stake(e) == IF exec[e].at \in {"idle", "earn"} THEN 0 ELSE exec[e].capital

Quiet == \A e \in Executors : exec[e].at \in {"idle", "earn"}

(* The engine's equity is what the account holds, the free balance and what*)
(* Auto-Earn took from it, but for three things: what it was off by when   *)
(* its process started, since a process that finds nothing free believes in*)
(* the configured capital (robin_hood_risk.py:68-73); what the triangles of*)
(* the other executors moved; and what its records got wrong because a     *)
(* request failed or the balance was moved by another executor between its *)
(* two reads (base_executor.py:127-174).  Every other triangle is counted  *)
(* for what it did, although orders fail, their answers get lost, profits  *)
(* move to Earn and processes crash between any two steps.                 *)
BooksBalance ==
    \A e \in Executors :
        ~InFlight(e) => engine[e].equity = free + earn - apart[e]

(* robin_hood_risk.py:8 pauses at a total drawdown, but every process sees *)
(* its own share of it: each executor may lose the limit and one order, and*)
(* the account no more than all of them together, however the triangles    *)
(* end, until an executor restarts or a record is not of its own triangle. *)
AccountProtected ==
    clear /\ Quiet =>
        (Deposit - (free + earn)) * 100
            < Cardinality(Executors) * (MaxDrawdownPct * Deposit + 100 * MaxPorCiclo)

(* Each executor keeps the rules of RobinHood.tla, whatever the others do  *)
(* to the balance it reads, however the reads fail and wherever a process  *)
(* crashes: it opens triangles only when its engine allows it, records what*)
(* they did whenever the reads can tell it, and so risks nothing once its  *)
(* engine has reached the limit.                                           *)
Rules(e) == INSTANCE RobinHood WITH
    engine <- engine[e], stake <- Stake(e), misled <- misled[e],
    Balances <- 0..(2 * Deposit), MaxGain <- Deposit,
    MaxEquity <- (MaxOpps + 1) * (2 * Deposit)

KeepsTheRules ==
    /\ \A e \in Executors : Rules(e)!Init
    /\ [][\A e \in Executors : [Rules(e)!Next]_(Rules(e)!vars)]_vars

=============================================================================
