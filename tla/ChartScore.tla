------------------------------ MODULE ChartScore ------------------------------
(***************************************************************************)
(* core/chart_confluence_engine.py: what 96 candles and the book of one    *)
(* symbol say for or against a trade.  The indicators of _prepare (moving  *)
(* averages, true range, z-scores, rolling extremes) are the fields of a   *)
(* record; what the engine makes of them is translated.  Ratios are in     *)
(* hundredths, scores in tenths of a point.                                *)
(*                                                                         *)
(* A chart has: close, fast and slow (averages), fastSlope, slowSlope,     *)
(* spread (their distance, in hundredths of a percent) and swing;          *)
(* swingHigh and swingLow; volume (the last candle's, against the mean);   *)
(* strong, the candle of the greatest impulse strength: open, close, high, *)
(* low, atr, zscore, place (of its close in its range) and volume; and     *)
(* since, what came after it: bars, width (of their range, in ATR), calm   *)
(* (their volatility against that before).                                 *)
(***************************************************************************)
EXTENDS Integers

Abs(n) == IF n < 0 THEN -n ELSE n
Sign(n) == IF n > 0 THEN 1 ELSE IF n < 0 THEN -1 ELSE 0
Clip(n, low, high) == IF n < low THEN low ELSE IF n > high THEN high ELSE n

Trend(c) ==
    CASE c.fast > c.slow /\ c.fastSlope > 0 /\ c.slowSlope >= 0 /\ c.swing > 0 -> "bullish"
      [] c.fast < c.slow /\ c.fastSlope < 0 /\ c.slowSlope <= 0 /\ c.swing < 0 -> "bearish"
      [] OTHER -> "neutral"

(* An impulse is a candle of 1.2 ATR and 1.25 deviations that closes near  *)
(* its end.                                                                *)
Impulse(c) ==
    CASE c.strong.close > c.strong.open /\ c.strong.place >= 65
            /\ c.strong.atr >= 120 /\ c.strong.zscore >= 125 -> "bullish"
      [] c.strong.close < c.strong.open /\ c.strong.place <= 35
            /\ c.strong.atr >= 120 /\ c.strong.zscore >= 125 -> "bearish"
      [] OTHER -> "neutral"

(* How much of the impulse was given back since.                           *)
GivenBack(c) ==
    LET size == c.strong.high - c.strong.low
        back == IF Impulse(c) = "bullish" THEN c.strong.high - c.close ELSE c.close - c.strong.low
    IN  IF back <= 0 THEN 0 ELSE (100 * back) \div (IF size > 0 THEN size ELSE 1)

Retracement(c) ==
    CASE Impulse(c) = "neutral" -> "unknown"
      [] Impulse(c) # "neutral" /\ GivenBack(c) < 33 -> "shallow"
      [] Impulse(c) # "neutral" /\ GivenBack(c) \in 33..65 -> "moderate"
      [] OTHER -> "deep"

Compressed(c) ==
    /\ Impulse(c) # "neutral" /\ c.since.bars >= 3
    /\ c.since.width <= 220 /\ c.since.calm <= 95

BreaksOut(c) == c.close > c.swingHigh \/ c.close < c.swingLow

(* The frame's book: its imbalance in percent, and how much of it looks    *)
(* like ghosts (half of it is the risk the decision uses).                 *)
GhostRisk(book) ==
    LET wide == Clip((100 * (book.spread - 12)) \div 18, 0, 100)
        heap == Clip(book.share - 45, 0, 100)
    IN  Clip(wide + heap, 0, 100) \div 2

(* The swing of obi with the trend, and what ghosts cost.  The engine gets *)
(* no open interest, funding or flow toxicity from its only caller.        *)
MicroDelta(c, book) ==
    LET sign == IF Trend(c) = "bullish" THEN 1 ELSE IF Trend(c) = "bearish" THEN -1 ELSE 0
        obi == IF sign = 0 THEN 0
               ELSE (IF Sign(book.imbalance) = sign THEN 60 ELSE -30) * Abs(book.imbalance)
    IN  obi \div 100 - GhostRisk(book)

ChartBase(c) ==
    500 + (IF Trend(c) = "neutral" THEN 0 ELSE 80)
    + (IF Impulse(c) = "neutral" THEN -80
       ELSE Clip((40 * c.strong.atr) \div 100, 0, 120) + (IF c.strong.volume >= 120 THEN 40 ELSE 0))
    + (IF Retracement(c) = "shallow" THEN 100 ELSE IF Retracement(c) = "moderate" THEN 40
       ELSE IF Retracement(c) = "deep" THEN -90 ELSE 0)
    + (IF Compressed(c) THEN 80 ELSE -40)
    + (IF ~BreaksOut(c) THEN 0 ELSE IF c.volume >= 115 THEN 100 ELSE 30)

ChartFinal(c, book) == Clip(ChartBase(c) + MicroDelta(c, book), 0, 1000)

Setup(c) ==
    LET gentle == Retracement(c) \in {"shallow", "moderate"} /\ Compressed(c)
        along == Trend(c) # "neutral" /\ Trend(c) = Impulse(c)
    IN  CASE along /\ gentle -> "continuation"
          [] along /\ ~gentle /\ Trend(c) = "bullish" /\ c.close < c.strong.low -> "breakdown"
          [] along /\ ~gentle /\ Trend(c) = "bearish" /\ c.close > c.strong.high -> "reversal"
          [] ~along /\ Compressed(c) /\ Abs(c.spread) < 15 -> "mean_revert"
          [] OTHER -> "neutral"

ChartAllows(c, book) ==
    /\ ChartFinal(c, book) >= 620
    /\ Setup(c) \in {"continuation", "mean_revert"}
    /\ GhostRisk(book) < 50
=============================================================================
