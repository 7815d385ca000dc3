----------------------------- MODULE Spoofhunter -----------------------------
(***************************************************************************)
(* The engine of one symbol in services/spoofhunter.py.  Each snapshot of  *)
(* the book that the stream delivers (process_depth, under one lock) moves *)
(* the walls that are tracked: large orders near the middle price.  A wall *)
(* that is gone soon after it was first seen is a ghost, and the ghosts of *)
(* the last GHOST_WINDOW_S seconds are what a reader of the engine gets.   *)
(*                                                                         *)
(* A price is a place on an axis: bids are below zero, asks above it.  A   *)
(* snapshot gives each price the value of the orders there, zero when the  *)
(* price is not among the levels that were sent.  Time goes on by one tick *)
(* between two snapshots, and whenever the stream is silent.  The cap of   *)
(* 200 ghosts is left out: the window is shorter.                          *)
(***************************************************************************)
EXTENDS Integers, FiniteSetsExt

CONSTANTS
    Shots,         \* snapshots: functions from the prices to sizes
    Proximity,     \* GHOST_PROXIMITY_BPS: how far from the middle a wall may be
    MinWall,       \* GHOST_MIN_NOTIONAL_USD
    MaxLifetime,   \* GHOST_MAX_LIFETIME_S, in ticks
    LongLife,      \* five times that
    Window,        \* GHOST_WINDOW_S
    Refills,       \* ICEBERG_REFILL_COUNT
    RefillTime     \* the two seconds of _check_iceberg

Prices == UNION {DOMAIN shot : shot \in Shots}
Sides == {"bid", "ask"}
SideOf(p) == IF p < 0 THEN "bid" ELSE "ask"

ASSUME SpoofhunterAssumption ==
    /\ \A shot \in Shots : shot \in [Prices -> Nat]
    /\ Prices \subseteq Int \ {0} /\ Proximity \in Nat
    /\ MinWall \in Nat \ {0} /\ MaxLifetime \in Nat /\ LongLife \in Nat
    /\ LongLife >= MaxLifetime /\ Window \in Nat /\ Refills \in Nat \ {0} /\ RefillTime \in Nat

VARIABLES
    walls,    \* _active_walls
    ghosts,   \* _ghost_events that are inside the window
    iceberg,  \* _bid_iceberg and _ask_iceberg
    last,     \* the last snapshot that was processed
    stood     \* history: how long ago a price was last seen to hold a wall

engineVars == <<walls, ghosts, iceberg, last, stood>>

NoWall == [initial |-> 0, current |-> 0, age |-> 0]
NoTracker == [price |-> 0, qty |-> 0, refills |-> 0, age |-> 0]
Nothing == [p \in Prices |-> 0]
CountUpTo(n, limit) == IF n < limit THEN n + 1 ELSE limit

EngineTypeOK ==
    /\ \A p \in Prices : /\ walls[p].age \in 0..LongLife + 1
                         /\ walls[p] # NoWall => walls[p].initial >= MinWall
    /\ \A g \in ghosts : g.price \in Prices /\ g.age \in 0..Window /\ g.size >= MinWall
    /\ \A s \in Sides : iceberg[s].refills \in 0..Refills
    /\ last \in Shots \cup {Nothing}
    /\ stood \in [Prices -> 0..MaxLifetime + 1]

EngineInit ==
    /\ walls = [p \in Prices |-> NoWall] /\ ghosts = {} /\ last = Nothing
    /\ iceberg = [s \in Sides |-> NoTracker]
    /\ stood = [p \in Prices |-> MaxLifetime + 1]

-----------------------------------------------------------------------------
(* A tick later.                                                           *)

OlderWall(p) ==
    IF walls[p] = NoWall THEN NoWall ELSE [walls[p] EXCEPT !.age = CountUpTo(@, LongLife + 1)]
OlderGhosts == {[g EXCEPT !.age = @ + 1] : g \in {h \in ghosts : h.age < Window}}
OlderTracker(s) == [iceberg[s] EXCEPT !.age = CountUpTo(@, RefillTime)]
StoodBefore(p) == CountUpTo(stood[p], MaxLifetime + 1)

(* No snapshot comes, or one without one of its sides.                     *)
EngineTick ==
    /\ walls' = [p \in Prices |-> OlderWall(p)]
    /\ ghosts' = OlderGhosts
    /\ iceberg' = [s \in Sides |-> OlderTracker(s)]
    /\ stood' = [p \in Prices |-> StoodBefore(p)]
    /\ UNCHANGED last

-----------------------------------------------------------------------------
(* What one snapshot does.                                                 *)

Levels(shot, side) == {p \in Prices : shot[p] > 0 /\ SideOf(p) = side}

Complete(shot) == \A side \in Sides : Levels(shot, side) # {}

BestPrice(shot, side) ==
    CHOOSE p \in Levels(shot, side) : \A q \in Levels(shot, side) : p * p <= q * q

NearMiddle(shot, p) ==
    LET twice == 2 * p - BestPrice(shot, "bid") - BestPrice(shot, "ask")
    IN  twice \in -2 * Proximity .. 2 * Proximity

IsWall(shot, p) == shot[p] >= MinWall /\ NearMiddle(shot, p)

(* The scans of bids and asks: a wall is tracked from its first snapshot.  *)
Tracked(shot, p) ==
    IF ~IsWall(shot, p) THEN OlderWall(p)
    ELSE IF walls[p] # NoWall THEN [OlderWall(p) EXCEPT !.current = shot[p]]
    ELSE [initial |-> shot[p], current |-> shot[p], age |-> 0]

Consumed(w) == 100 * (w.initial - w.current) > 80 * w.initial

(* Mutant: a wall that stood for any time is a ghost when it goes.         *)
GoneAtAnyAge(shot, w, p) == w # NoWall /\ shot[p] = 0

IsGhost(shot, w, p) == w # NoWall /\ shot[p] = 0 /\ w.age <= MaxLifetime

(* Pulled, decayed, filled, or a real wall: it is not tracked any more.    *)
Ends(shot, w, p) == shot[p] = 0 \/ Consumed(w) \/ w.age > LongLife

(* _check_iceberg: a best size that does not fall by more than 15% counts  *)
(* as a refill, whether it had been eaten before or not.                   *)
Refilled(t, price, qty) ==
    IF t.price # price THEN [price |-> price, qty |-> qty, refills |-> 0, age |-> 0]
    ELSE [t EXCEPT !.qty = qty, !.age = 0,
                   !.refills = IF 100 * qty > 85 * t.qty /\ t.age < RefillTime
                               THEN CountUpTo(@, Refills) ELSE @]

Depth(shot) ==
    LET after == [p \in Prices |-> Tracked(shot, p)]
        gone == {p \in Prices : IsGhost(shot, after[p], p)}
    IN
    /\ Complete(shot)
    /\ walls' = [p \in Prices |-> IF Ends(shot, after[p], p) THEN NoWall ELSE after[p]]
    /\ ghosts' = OlderGhosts \cup {[price |-> p, size |-> after[p].initial, age |-> 0] : p \in gone}
    /\ iceberg' = [s \in Sides |->
            LET best == BestPrice(shot, s) IN Refilled(OlderTracker(s), best, shot[best])]
    /\ last' = shot
    /\ stood' = [p \in Prices |-> IF IsWall(shot, p) THEN 0 ELSE StoodBefore(p)]

EngineStep == EngineTick \/ \E shot \in Shots : Depth(shot)

-----------------------------------------------------------------------------
(* What a reader gets: snapshot() and signal(), in percent.                *)

Notional(gs) == MapThenSumSet(LAMBDA g : g.size, gs)

GhostsOf(side) == {g \in ghosts : SideOf(g.price) = side}

(* Fake bids speak for a fall, fake asks for a rise.                       *)
GhostSide ==
    LET bid == Notional(GhostsOf("bid")) ask == Notional(GhostsOf("ask")) IN
    CASE 2 * bid > 3 * ask -> "SHORT" [] 2 * ask > 3 * bid -> "LONG" [] OTHER -> "NONE"

Intensity ==
    LET total == Notional(ghosts) IN
    CASE total > 5 * MinWall -> "HIGH"
      [] total > 2 * MinWall /\ total <= 5 * MinWall -> "MED"
      [] OTHER -> "LOW"

IcebergDetected == \E s \in Sides : iceberg[s].refills = Refills

Imbalance ==
    IF last = Nothing THEN 0
    ELSE LET bid == last[BestPrice(last, "bid")] ask == last[BestPrice(last, "ask")]
         IN (100 * (bid - ask)) \div (bid + ask)

(* Whether the ghosts are enough to say "EXECUTE": the confidence of 45%.  *)
GhostConfidence(fake, imbalance) ==
    LET agrees == \/ imbalance > 5 /\ fake = "LONG"
                  \/ imbalance < -5 /\ fake = "SHORT"
        micro == 3 * (IF imbalance < 0 THEN -imbalance ELSE imbalance)
        known == 300 + 100 * Cardinality(ghosts) +
                 (CASE Intensity = "HIGH" -> 200 [] Intensity = "MED" -> 100 [] OTHER -> 0)
    IN  IF agrees THEN known + micro + 100 ELSE known + micro \div 2

SignalSide(fake, imbalance) ==
    CASE ghosts # {} /\ fake # "NONE" ->
            IF GhostConfidence(fake, imbalance) >= 450 THEN fake ELSE "NONE"
      [] (ghosts = {} \/ fake = "NONE") /\ imbalance > 25 -> "LONG"
      [] (ghosts = {} \/ fake = "NONE") /\ imbalance < -25 -> "SHORT"
      [] OTHER -> "NONE"

Told(fake, imbalance, side) ==
    [ghost_walls_detected |-> Cardinality(ghosts), ghost_wall_intensity |-> Intensity,
     ghost_wall_side |-> fake, iceberg_detected |-> IcebergDetected,
     orderbook_imbalance |-> imbalance, side |-> side,
     action |-> IF side = "NONE" THEN "WAIT" ELSE "EXECUTE"]

Signal == Told(GhostSide, Imbalance, SignalSide(GhostSide, Imbalance))

-----------------------------------------------------------------------------
(* A ghost was an order: every ghost that is added stands for a price that *)
(* the snapshot before still held and the new one does not, and where a    *)
(* wall was seen no longer ago than a ghost may have lived.  So a wall     *)
(* that is pulled is counted once, and one that stays away is forgotten.   *)
GhostWasAWall ==
    [][\A g \in ghosts' : g.age = 0 =>
            /\ last[g.price] > 0 /\ last'[g.price] = 0
            /\ stood[g.price] <= MaxLifetime]_engineVars
=============================================================================
