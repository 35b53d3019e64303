-------------------------- MODULE MarketStructure --------------------------
(***************************************************************************)
(* What the quant engine sees in a market's candles (quant-engine.js):     *)
(* swing points and the structure they make.  The market completes one     *)
(* candle after another and the engine looks after each.  What a fifth of  *)
(* the ATR reaches is the constant Near; the fields that only compare      *)
(* averages (compression, expansion, exhaustion) and the wick test         *)
(* (rejection) are inputs of QuantRules.                                   *)
(***************************************************************************)
EXTENDS Integers, Sequences, FiniteSets

CONSTANTS
    Candles,       \* candles the market can complete: [high, low, close]
    Past,          \* what the market may have behind it when the engine first looks
    Strength,      \* candles on each side that confirm a swing: 3
    Lookback,      \* candles in which a breakout can be retested: 8
    Near,          \* ATR / 5, in prices
    MaxLength      \* candles the market has in the model

VARIABLE candles   \* completed candles, the newest last

-----------------------------------------------------------------------------
Peaks(v) ==
    {i \in 1 + Strength..Len(v) - Strength :
        \A j \in i - Strength..i + Strength : j # i => v[i] > v[j]}

SwingHighs(s) == Peaks([i \in 1..Len(s) |-> s[i].high])
SwingLows(s) == Peaks([i \in 1..Len(s) |-> -s[i].low])

Newest(S) == CHOOSE i \in S : \A j \in S : j <= i
Before(S) == Newest(S \ {Newest(S)})

NoStructure == [seen |-> FALSE, support |-> 0, resistance |-> 0, breakout |-> "none",
                sweep |-> "none", choch |-> "none", retest |-> "none", side |-> "range"]

Side(long, short) == IF long THEN "long" ELSE IF short THEN "short" ELSE "none"

\* Mutant: the newest candle is part of the structure.
BodyWhole(s) == s

\* The newest candle is compared with the swings of those before it.
Body(s) == SubSeq(s, 1, Len(s) - 1)

RecentStructure(s) ==
    LET done == Body(s)
        last == s[Len(s)]
        highs == SwingHighs(done)
        lows == SwingLows(done)
        recent == {done[i].close : i \in {j \in 1..Len(done) : j > Len(done) - Lookback}}
        high == done[Newest(highs)].high
        low == done[Newest(lows)].low
        bullish == high > done[Before(highs)].high /\ low > done[Before(lows)].low
        bearish == high < done[Before(highs)].high /\ low < done[Before(lows)].low
        up == last.close > high
        down == last.close < low
        failedUp == last.high > high /\ last.close < high
        failedDown == last.low < low /\ last.close > low
    IN  IF Cardinality(highs) < 2 \/ Cardinality(lows) < 2 THEN NoStructure ELSE
        [seen |-> TRUE, support |-> low, resistance |-> high,
         breakout |-> Side(up, down),
         choch |-> Side(bearish /\ up, bullish /\ down),
         sweep |-> Side(failedDown /\ ~failedUp, failedUp),
         retest |-> Side((\E p \in recent : p > high) /\ last.low <= high + Near /\ up,
                         (\E p \in recent : p < low) /\ last.high >= low - Near /\ down),
         side |-> IF bullish THEN "long" ELSE IF bearish THEN "short" ELSE "range"]

-----------------------------------------------------------------------------
Init == candles \in Past

NewCandle(c) ==
    /\ Len(candles) < MaxLength
    /\ candles' = Append(candles, c)

Next == \E c \in Candles : NewCandle(c)

-----------------------------------------------------------------------------
(* Properties                                                              *)

\* Swings do not repaint: what was a swing stays one, at the same place and price, and
\* a new one is always exactly Strength candles old, whatever the market does next.
\* The backtest therefore sees the swings a live scan saw at that candle.
SwingsStand ==
    [][/\ SwingHighs(candles) \subseteq SwingHighs(candles')
       /\ SwingLows(candles) \subseteq SwingLows(candles')
       /\ \A i \in SwingHighs(candles') \ SwingHighs(candles) : i = Len(candles') - Strength]_candles

\* The candle being judged is no part of the structure it is judged by: another candle
\* in its place meets the same support, resistance and trend.
JudgedByThePast ==
    candles # <<>> /\ RecentStructure(candles).seen =>
        LET x == RecentStructure(candles) IN
        \A c \in Candles :
            LET y == RecentStructure(Append(SubSeq(candles, 1, Len(candles) - 1), c)) IN
            y.support = x.support /\ y.resistance = x.resistance /\ y.side = x.side
=============================================================================
