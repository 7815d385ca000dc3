------------------------------ MODULE LocalScore ------------------------------
(***************************************************************************)
(* core/confluence_engine.py: the seven modules that score a triangle from *)
(* the tickers and books of its three legs, and the chart of one of them.  *)
(* Values are in percent, scores in tenths of a point.                     *)
(*                                                                         *)
(* legs is a sequence of [symbol, side]; tickers and books are functions   *)
(* from symbols.  A ticker has: volume (in thousands), change (in tenths   *)
(* of a percent), delta (what bids and asks differ by, in percent of the   *)
(* volume), range and place (of the last price in it, in percent), recent  *)
(* and older (average volumes of the engine's history).  A book has: depth *)
(* (levels of the shorter side), spread (in basis points), bids and asks   *)
(* (the volume of five levels), share (the greatest level's share) and     *)
(* entropy (Shannon's, normalised, of its two sides).  -1 is a value that  *)
(* is not known, and a book that was not read has no levels.               *)
(***************************************************************************)
EXTENDS Integers, Sequences, FiniteSets

Chart == INSTANCE ChartScore

NoBook == [depth |-> 0, spread |-> 0, bids |-> 0, asks |-> 0, share |-> 0, entropy |-> 0]
Lookup(table, symbol, default) == IF symbol \in DOMAIN table THEN table[symbol] ELSE default

Mean3(F(_), legs) == (F(legs[1]) + F(legs[2]) + F(legs[3])) \div 3

(* 1. Bids that are strong where the triangle buys, asks where it sells.   *)
Pressure(legs, books) ==
    LET Of(leg) ==
            LET b == Lookup(books, leg.symbol, NoBook)
                imbalance == IF b.bids + b.asks = 0 THEN 0
                             ELSE (100 * (b.bids - b.asks)) \div (b.bids + b.asks)
            IN  IF leg.side = "buy" THEN imbalance ELSE -imbalance
    IN  Mean3(Of, legs)

(* 2. How far apart the legs have moved; also the registry's dispersion.   *)
Changes(legs, tickers) == {tickers[legs[i].symbol].change : i \in 1..3}
Dispersion(legs, tickers) ==
    LET all == Changes(legs, tickers)
    IN  (CHOOSE m \in all : \A n \in all : n <= m) - (CHOOSE m \in all : \A n \in all : n >= m)

LeadLag(legs, tickers) ==
    LET gap == Dispersion(legs, tickers) IN
    IF gap > 50 THEN -100 ELSE IF gap < 3 THEN 100 ELSE 100 - 2 * gap

(* 3. Any leg with a wide or thin book, or with next to no volume.         *)
Suspect(ticker, book) == book.spread > 50 \/ book.depth < 3 \/ ticker.volume < 10

(* Mutant: the flag needs every leg.                                       *)
EveryLegSuspect(legs, tickers, books) ==
    \A i \in 1..3 : Suspect(tickers[legs[i].symbol], Lookup(books, legs[i].symbol, NoBook))

FakeMomentum(legs, tickers, books) ==
    \E i \in 1..3 : Suspect(tickers[legs[i].symbol], Lookup(books, legs[i].symbol, NoBook))

(* 4. The recent volume against the older one.                             *)
Steadiness(legs, tickers) ==
    LET Of(leg) ==
            LET t == tickers[leg.symbol] IN
            IF t.recent = -1 \/ t.older <= 0 THEN 50
            ELSE IF 10 * t.recent > 15 * t.older THEN 40
            ELSE IF 10 * t.recent < 7 * t.older THEN 25 ELSE 85
    IN  Mean3(Of, legs)

(* 5. A difference of one to ten percent between bids and asks is healthy. *)
Balance(legs, tickers) ==
    LET Of(leg) ==
            LET d == tickers[leg.symbol].delta IN
            IF d = -1 THEN 30 ELSE IF d = 0 THEN 55
            ELSE IF d \in 1..10 THEN 90 ELSE IF d \in 11..30 THEN 40 ELSE 15
    IN  Mean3(Of, legs)

(* 6. A price at the edge of a wide range turns back.                      *)
ReversalRisk(legs, tickers) ==
    LET Of(leg) ==
            LET t == tickers[leg.symbol]
                edge == t.range > 5 /\ (t.place > 85 \/ t.place < 15)
                near == t.range > 3 /\ (t.place > 80 \/ t.place < 20)
            IN  IF t.place = -1 THEN 50 ELSE IF edge THEN 85 ELSE IF near THEN 55
                ELSE IF t.range > 3 THEN 35 ELSE 12
    IN  Mean3(Of, legs)

(* 7. A few giant orders make a book of low entropy.                       *)
Entropy(legs, books) ==
    LET Of(leg) == LET b == Lookup(books, leg.symbol, NoBook) IN IF b.depth < 3 THEN 0 ELSE b.entropy
    IN  Mean3(Of, legs)

LegacyScore(legs, tickers, books) ==
    (18 * ((Pressure(legs, books) + 100) \div 2) + 12 * ((LeadLag(legs, tickers) + 100) \div 2)
     + 18 * (IF FakeMomentum(legs, tickers, books) THEN 0 ELSE 100)
     + 10 * Steadiness(legs, tickers) + 10 * Balance(legs, tickers)
     + 16 * (100 - ReversalRisk(legs, tickers)) + 16 * Entropy(legs, books)) \div 10

(* The chart is of the symbol the scanner chose; it is read with that      *)
(* symbol's book.  chart is {} when there are no candles, or too few.      *)
FrameBook(book) ==
    [spread |-> book.spread, share |-> book.share,
     imbalance |-> IF book.bids + book.asks = 0 THEN 0
                   ELSE (100 * (book.bids - book.asks)) \div (book.bids + book.asks)]

Score(legacy, chart, frame) ==
    IF chart = {} THEN legacy
    ELSE (78 * legacy + 22 * Chart!ChartFinal(CHOOSE c \in chart : TRUE, frame)) \div 100

IsValid(score, legs, tickers, books, chart, frame) ==
    /\ score >= 650
    /\ ~FakeMomentum(legs, tickers, books)
    /\ ReversalRisk(legs, tickers) < 70
    /\ Entropy(legs, books) > 20
    /\ \A c \in chart : Chart!ChartAllows(c, frame)
=============================================================================
