------------------------------- MODULE BookFeed -------------------------------
(***************************************************************************)
(* The order books predator-v4 keeps of an exchange it is connected to by  *)
(* a stream that breaks: exchange/binance_ws.py and exchange/bybit_ws.py.  *)
(* A behaviour follows the bids of one symbol in one of the two clients;   *)
(* the asks are kept the same way.                                         *)
(*                                                                         *)
(* Binance sends every change of the whole book, and the client reads one  *)
(* snapshot, of the best levels, before it ever connects.  Bybit sends the *)
(* best levels and their changes, and a snapshot of them first, whenever a *)
(* client subscribes.  What is on its way when a stream breaks is lost.    *)
(*                                                                         *)
(* A level is its price, a better one is higher, and size 0 is no level.   *)
(* The delays between two attempts to connect are left out.                *)
(***************************************************************************)
EXTENDS Integers, Sequences, FiniteSets

CONSTANTS
    Levels,      \* prices
    Sizes,       \* sizes that a level can have, 0 among them
    Depth,       \* levels in a snapshot: limit=50, orderbook.50
    MaxChanges,  \* bound: changes of the exchange's book
    MaxDrops,    \* bound: how often the stream breaks
    MaxQueue     \* bound: messages on their way

ASSUME BookFeedAssumption ==
    /\ Levels \subseteq Nat /\ Sizes \subseteq Nat /\ 0 \in Sizes
    /\ Depth \in Nat \ {0} /\ {MaxChanges, MaxDrops, MaxQueue} \subseteq Nat

VARIABLES
    exchange,  \* "binance" or "bybit"
    market,    \* the exchange's book
    changes,   \* how often it has changed
    pc,        \* where the client's task is
    answer,    \* the snapshot that was asked for, on its way
    queue,     \* messages of the stream, on their way
    book,      \* the client's book
    missed,    \* history: levels the client was not told of as they are
    drops      \* how often the stream has broken

feedVars == <<exchange, market, changes, pc, answer, queue, book, missed, drops>>

Full == [Levels -> Sizes]
Nothing == [l \in Levels |-> 0]

FeedTypeOK ==
    /\ exchange \in {"binance", "bybit"} /\ market \in Full /\ book \in Full
    /\ changes \in 0..MaxChanges /\ drops \in 0..MaxDrops
    /\ pc \in {"start", "snapshot", "disconnected", "connected", "stopped"}
    /\ answer \in Full /\ Len(queue) <= MaxQueue + 1 /\ missed \subseteq Levels

FeedInit ==
    /\ exchange \in {"binance", "bybit"}
    /\ pc = IF exchange = "binance" THEN "start" ELSE "disconnected"
    /\ market \in Full /\ book = Nothing /\ answer = Nothing /\ queue = <<>>
    /\ missed = Levels /\ changes = 0 /\ drops = 0

-----------------------------------------------------------------------------
(* The exchange.                                                           *)

(* The best levels of a book.                                              *)
Best(b) ==
    [l \in Levels |-> IF Cardinality({k \in Levels : k > l /\ b[k] > 0}) < Depth THEN b[l] ELSE 0]

(* What the stream is about.                                               *)
Shown(b) == IF exchange = "bybit" THEN Best(b) ELSE b

Changed(old, new) == {l \in Levels : Shown(old)[l] # Shown(new)[l]}

Change(l, size) ==
    LET new == [market EXCEPT ![l] = size]
        delta == [k \in Changed(market, new) |-> Shown(new)[k]]
        told == pc = "connected" /\ delta # <<>>
    IN
    /\ changes < MaxChanges /\ Len(queue) < MaxQueue /\ size # market[l]
    /\ changes' = changes + 1
    /\ market' = new
    /\ queue' = IF told THEN Append(queue, [type |-> "delta", levels |-> delta]) ELSE queue
    /\ missed' = IF pc = "connected" THEN missed \ DOMAIN delta ELSE missed \cup DOMAIN delta
    /\ UNCHANGED <<exchange, pc, answer, book, drops>>

-----------------------------------------------------------------------------
(* The client.                                                             *)

(* _init_books: the snapshot is asked for ...                              *)
FetchSnapshot ==
    /\ pc = "start" /\ pc' = "snapshot"
    /\ answer' = Best(market)
    /\ missed' = {l \in Levels : Best(market)[l] # market[l]}
    /\ UNCHANGED <<exchange, market, changes, queue, book, drops>>

(* ... and comes, or does not: the stream is connected either way.         *)
LoadSnapshot ==
    /\ pc = "snapshot" /\ pc' = "disconnected"
    /\ \/ book' = answer /\ UNCHANGED missed
       \/ missed' = Levels /\ UNCHANGED book
    /\ UNCHANGED <<exchange, market, changes, answer, queue, drops>>

Subscribe ==
    /\ queue' = <<[type |-> "snapshot", levels |-> Best(market)]>>
    /\ missed' = {}

(* _ws_loop: connected, for the first time or again.                       *)
Connect ==
    /\ pc = "disconnected" /\ pc' = "connected"
    /\ IF exchange = "bybit" THEN Subscribe ELSE UNCHANGED <<queue, missed>>
    /\ UNCHANGED <<exchange, market, changes, answer, book, drops>>

Drop ==
    /\ pc = "connected" /\ pc' = "disconnected"
    /\ drops < MaxDrops /\ drops' = drops + 1
    /\ queue' = <<>>
    /\ missed' = missed \cup UNION {DOMAIN queue[i].levels : i \in DOMAIN queue}
    /\ UNCHANGED <<exchange, market, changes, answer, book>>

(* Mutant: a level that is gone is left in the book.                       *)
GoneIsKept(b, levels) ==
    [l \in Levels |-> IF l \in DOMAIN levels /\ levels[l] > 0 THEN levels[l] ELSE b[l]]

(* _process_depth: sizes replace sizes, and 0 takes a level away.          *)
Updated(b, levels) == [l \in Levels |-> IF l \in DOMAIN levels THEN levels[l] ELSE b[l]]

(* Mutant: a snapshot is taken for changes.                                *)
SnapshotIsMerged(b, message) ==
    Updated(b, [l \in {k \in DOMAIN message.levels : message.levels[k] > 0} |-> message.levels[l]])

(* _process_book: a snapshot replaces all there is.                        *)
Processed(b, message) ==
    IF message.type = "snapshot" THEN message.levels ELSE Updated(b, message.levels)

Receive ==
    /\ pc = "connected" /\ queue # <<>>
    /\ book' = Processed(book, Head(queue)) /\ queue' = Tail(queue)
    /\ UNCHANGED <<exchange, market, changes, pc, answer, missed, drops>>

Stop ==
    /\ pc \in {"disconnected", "connected"} /\ pc' = "stopped" /\ queue' = <<>>
    /\ missed' = Levels
    /\ UNCHANGED <<exchange, market, changes, answer, book, drops>>

FeedNext ==
    \/ \E l \in Levels, size \in Sizes : Change(l, size)
    \/ FetchSnapshot \/ LoadSnapshot \/ Connect \/ Drop \/ Receive \/ Stop

(* A message that came is read: the loop of the client awaits nothing else.*)
FeedSpec == FeedInit /\ [][FeedNext]_feedVars /\ WF_feedVars(Receive)

-----------------------------------------------------------------------------
(* The book, with what is on its way, is the exchange's wherever the client*)
(* was told: it is wrong only where a level changed while it was not       *)
(* connected, or was not in its only snapshot, and has not changed since.  *)
(* What counts is the last message that tells of a level, and the book if  *)
(* none on its way does (binance_ws.py:277-297, bybit_ws.py:133-156).      *)
WrongOnlyWhereMissed ==
    pc # "stopped" =>
        \A l \in Levels \ missed :
            LET telling == {i \in DOMAIN queue : l \in DOMAIN queue[i].levels}
            IN /\ telling = {} =>
                    (IF pc = "snapshot" THEN answer ELSE book)[l] = Shown(market)[l]
               /\ \A i \in telling :
                    (\A j \in telling : j <= i) => queue[i].levels[l] = Shown(market)[l]

(* While the stream lasts, what the client was told of comes to be in its  *)
(* book: after a reconnect that is all of Bybit's book, whatever went by   *)
(* in between, and of Binance's the levels that change again               *)
(* (bybit_ws.py:98-131, binance_ws.py:323-348).                            *)
CatchesUp ==
    \A l \in Levels :
        (pc = "connected" /\ l \notin missed)
            ~> (book[l] = Shown(market)[l] \/ pc # "connected")
=============================================================================
