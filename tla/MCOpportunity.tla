---------------------------- MODULE MCOpportunity ----------------------------
(* Two triangles of a quote currency, a coin and bitcoin, one of them with *)
(* a leveraged token.  A market is sound but for one thing: it moves       *)
(* together or apart, is thin or at the edge of its range.  The book of    *)
(* the coin may be wide, short, heaped on one level, or not be read.       *)
(* spoofhunter follows four prices, of which two can hold a wall.          *)
EXTENDS Opportunity, TLC

USDT == "USDT"
Pair(a, b) == <<a, "/", b>>
Market(coin, other) == [base |-> coin, quote |-> other, symbol |-> Pair(coin, other), trades |-> TRUE]
Listed1 ==
    <<Market("SOL", USDT), Market("SOL", "BTC"), Market("BTCUP", USDT), Market("BTCUP", "BTC"),
      Market("BTC", USDT), [Market("ETH", "BTC") EXCEPT !.trades = FALSE], Market("ETH", USDT)>>
QuoteOrder1 == <<USDT, "BTC">>
Symbols == {Listed1[i].symbol : i \in DOMAIN Listed1}

Sound == [bid |-> 1000, ask |-> 1000, volume |-> 300, change |-> 10, delta |-> 5,
          range |-> 2, place |-> 50, recent |-> 100, older |-> 100]
Rich == [Sound EXCEPT !.bid = 1010]
Tickers(kind, profit) ==
    [s \in Symbols |-> IF s[3] = "BTC" /\ s[1] \in profit THEN [kind EXCEPT !.bid = 1010] ELSE kind]

Markets1 ==
    <<Tickers(Sound, {"SOL"}), [Tickers(Sound, {"SOL", "BTCUP"}) EXCEPT ![Pair("BTCUP", "BTC")].bid = 1005],
     Tickers([Sound EXCEPT !.change = 60], {"SOL"}),
     Tickers([Sound EXCEPT !.volume = 3000, !.change = 40], {"SOL"}),
     Tickers([Sound EXCEPT !.volume = 5], {"SOL"}),
     Tickers([Sound EXCEPT !.range = 6, !.place = 90], {"SOL"})>>

SoundBook == [depth |-> 10, spread |-> 4, bids |-> 50, asks |-> 50, share |-> 30, entropy |-> 90]
CoinBook(b) == [s \in Symbols |-> IF s = Pair("SOL", USDT) THEN b ELSE SoundBook]
Books1 ==
    <<CoinBook(SoundBook), CoinBook([SoundBook EXCEPT !.spread = 60]),
     CoinBook([SoundBook EXCEPT !.depth = 2]), CoinBook([SoundBook EXCEPT !.share = 80, !.entropy = 40]),
     [s \in Symbols \ {Pair("SOL", USDT)} |-> SoundBook]>>

(* A rise that was given back a little, and a market that goes nowhere.    *)
Rise ==
    [close |-> 108, fast |-> 105, slow |-> 100, fastSlope |-> 1, slowSlope |-> 1, spread |-> 500,
     swing |-> 2, swingHigh |-> 107, swingLow |-> 100, volume |-> 120,
     strong |-> [open |-> 100, close |-> 110, high |-> 110, low |-> 100, atr |-> 200, zscore |-> 200,
                 place |-> 100, volume |-> 130],
     since |-> [bars |-> 4, width |-> 150, calm |-> 80]]
Still == [Rise EXCEPT !.fast = 100, !.fastSlope = 0, !.swing = 0, !.strong.atr = 50, !.spread = 0]
Charts1 == <<{Rise}, {Still}>>

(* Two pairs: apart, or together and one of them suddenly closer.          *)
Saw(mass, correlation) == [mass |-> mass, correlation |-> correlation, since |-> 60]
Skies1 == {<< <<Saw(4, 10)>>, <<Saw(4, 20)>> >>,
           << <<Saw(4, 60), Saw(4, 61)>>, <<Saw(4, 50), Saw(6, 80)>> >>}
RugAnswers1 == {[status |-> "REJEITADO", rug_probability_pct |-> 80]}

(* Two walls, or none: they come and go together.                          *)
Shot(wall) == (-2 :> wall) @@ (-1 :> 1) @@ (1 :> 1) @@ (2 :> wall)
Shots1 == {Shot(3), Shot(0)}
=============================================================================
