--------------------------- MODULE ObjectiveFeatures ---------------------------
(***************************************************************************)
(* What the rank research knows of a candidate: objective readings of its  *)
(* completed candles (research/feature-engine.js), their channels          *)
(* (research/candle-sequence.js), and the features made of both            *)
(* (research/rank-research-v2.js), most of them directed: positive in      *)
(* favour of the trade.                                                    *)
(*                                                                         *)
(* A time is counted in candles of the frame.  A price distance stands for *)
(* the percentage or the share of the range the code makes of it, a ratio  *)
(* for the pair of its terms, a relative volume for the volume, and the    *)
(* deviation of a window for n * Sum(x^2) - Sum(x)^2.                      *)
(***************************************************************************)
EXTENDS Integers, Sequences, SequencesExt, FiniteSets, FiniteSetsExt

CONSTANTS
    NoValue,                    \* null
    LeftBars, RightBars,        \* candles on each side of a pivot: 2 and 2
    PivotsKept,                 \* pivots compared for equal levels: 12
    AtrBars, RangeBars,         \* 14 and 20
    ShortRoc, LongRoc,          \* 5 and 20
    DayBars, SessionStarts,     \* candles of a day; where the sessions begin in it
    SequenceBars,               \* the longest of WINDOWS: 256
    Acute, Wide,                \* windows of the channels: 8 and 128
    Span, Reach,                \* 24 hours; the age of another market's close: 2
    FundingShort, FundingLong,  \* rates averaged: 3 and 90
    MinMarkets                  \* markets a breadth needs: 3

Refused == "LOOKAHEAD_REJECTED"
SignOf(n) == CASE n > 0 -> 1 [] n < 0 -> -1 [] OTHER -> 0
Abs(n) == IF n < 0 THEN -n ELSE n
Total(s) == FoldSeq(+, 0, s)
SumOver(S, f) == FoldSet(LAMBDA a, n : f[a] + n, 0, S)
Newest(s, n) == SubSeq(s, Max({1, Len(s) - n + 1}), Len(s))
Ratio(a, b) == IF b = NoValue THEN NoValue ELSE <<a, b>>
Spread(w) == IF Len(w) < 2 THEN NoValue
             ELSE Len(w) * Total([i \in DOMAIN w |-> w[i] * w[i]]) - Total(w) * Total(w)
Moves(closes) == [i \in 1..Max({1, Len(closes)}) - 1 |-> closes[i + 1] - closes[i]]
Highs(rows) == [i \in DOMAIN rows |-> rows[i].high]
Lows(rows) == [i \in DOMAIN rows |-> rows[i].low]
Closes(rows) == [i \in DOMAIN rows |-> rows[i].close]

-----------------------------------------------------------------------------
\* Completed candles. A value that is missing counts as zero.

Valid(c) == /\ c.open > 0 /\ c.low > 0
            /\ c.high >= Max({c.open, c.close}) /\ c.low <= Min({c.open, c.close})
ClosedCandles(feed, T) ==
    LET rows == SelectSeq(feed, Valid)
    IN IF \E i \in DOMAIN rows : rows[i].time + 1 > T THEN Refused ELSE rows

TrueRanges(rows) ==
    [i \in 1..Max({1, Len(rows)}) - 1 |->
        Max({rows[i + 1].high - rows[i + 1].low, Abs(rows[i + 1].high - rows[i].close),
             Abs(rows[i + 1].low - rows[i].close)})]
\* The mean of the last true ranges, as [sum, count].
AverageRange(rows) == LET last == Newest(TrueRanges(rows), AtrBars) IN [sum |-> Total(last), count |-> Len(last)]
AtrOf(rows) == LET a == AverageRange(rows) IN IF a.sum = 0 THEN NoValue ELSE a

\* The first of equal extremes is the pivot.
Pivots(v) ==
    {i \in LeftBars + 1..Len(v) - RightBars :
        /\ \A j \in i - LeftBars..i - 1 : v[i] > v[j]
        /\ \A j \in i + 1..i + RightBars : v[i] >= v[j]}
Negated(v) == [i \in DOMAIN v |-> -v[i]]
PivotPrices(v, pivots) == [k \in 1..Len(pivots) |-> v[pivots[k]]]
Ordered(S, n) == SelectSeq([i \in 1..n |-> i], LAMBDA i : i \in S)
HighPivots(rows) == PivotPrices(Highs(rows), Ordered(Pivots(Highs(rows)), Len(rows)))
LowPivots(rows) == PivotPrices(Lows(rows), Ordered(Pivots(Negated(Lows(rows))), Len(rows)))

\* 1 for HH and HL, -1 for LH and LL, 0 for equal ones.
Relation(levels) == IF Len(levels) < 2 THEN NoValue ELSE SignOf(Last(levels) - levels[Len(levels) - 1])
LastLevel(levels) == IF levels = <<>> THEN NoValue ELSE Last(levels)

Structure(rows) ==
    LET highs == HighPivots(rows)
        lows == LowPivots(rows)
        latest == Last(rows)
        up == highs # <<>> /\ latest.close > Last(highs)
        down == lows # <<>> /\ latest.close < Last(lows)
        rises == Relation(highs) = 1 /\ Relation(lows) = 1
        falls == Relation(highs) = -1 /\ Relation(lows) = -1
        range == latest.high - latest.low
    IN [trend |-> IF rises THEN 1 ELSE IF falls THEN -1 ELSE 0,
        bos |-> IF up THEN 1 ELSE IF down THEN -1 ELSE 0,
        choch |-> IF rises /\ down THEN -1 ELSE IF falls /\ up THEN 1 ELSE 0,
        high |-> LastLevel(highs), low |-> LastLevel(lows),
        displacement |-> Ratio(range, AtrOf(rows))]

-----------------------------------------------------------------------------
\* Liquidity.

\* The tolerance is 0.15 ATR or 0.1 % of the price.
Within(d, rows) == LET a == AverageRange(rows) IN 20 * a.count * d <= 3 * a.sum \/ 1000 * d <= Last(rows).close
Beyond(d, rows) == LET a == AverageRange(rows) IN 20 * a.count * d >= 3 * a.sum /\ 1000 * d >= Last(rows).close
EqualPairs(kept, rows) ==
    {p \in (DOMAIN kept) \X (DOMAIN kept) : p[1] < p[2] /\ Within(Abs(kept[p[1]] - kept[p[2]]), rows)}

Extremes(rows) == IF rows = <<>> THEN {} ELSE {Max(ToSet(Highs(rows))), Min(ToSet(Lows(rows)))}

\* The day before the session of T began.
PriorSession(rows, T) ==
    LET day == (T \div DayBars) * DayBars
        begins == day + Max({h \in SessionStarts : day + h <= T})
    IN SelectSeq(rows, LAMBDA c : begins - DayBars <= c.time /\ c.time < begins)

\* Of the completed days the last but one is read as the previous one.
PreviousDay(daily) == IF Len(daily) < 2 THEN <<>> ELSE <<daily[Len(daily) - 1]>>

\* Levels are times two, so that the middle of a pair is one.
Liquidity(rows, T, daily) ==
    LET highs == Newest(HighPivots(rows), PivotsKept)
        lows == Newest(LowPivots(rows), PivotsKept)
        latest == Last(rows)
        up == highs # <<>> /\ Beyond(latest.high - Last(highs), rows) /\ latest.close < Last(highs)
        down == lows # <<>> /\ Beyond(Last(lows) - latest.low, rows) /\ latest.close > Last(lows)
        single == ({LastLevel(highs), LastLevel(lows)} \ {NoValue})
                    \union Extremes(PreviousDay(daily)) \union Extremes(PriorSession(rows, T))
        levels == {2 * l : l \in single} \union {highs[p[1]] + highs[p[2]] : p \in EqualPairs(highs, rows)}
                    \union {lows[p[1]] + lows[p[2]] : p \in EqualPairs(lows, rows)}
    IN [equalHighs |-> Cardinality(EqualPairs(highs, rows)), equalLows |-> Cardinality(EqualPairs(lows, rows)),
        sweep |-> IF up THEN 1 ELSE IF down THEN -1 ELSE 0, levels |-> levels,
        distance |-> IF levels = {} THEN NoValue ELSE Min({Abs(2 * latest.close - l) : l \in levels})]

-----------------------------------------------------------------------------
\* Gaps, the range, momentum, the target.

GapsOf(rows) ==
    LET up(i) == rows[i].low - rows[i - 2].high
        down(i) == rows[i - 2].low - rows[i].high
        at == Ordered({i \in 3..Len(rows) : up(i) > 0 \/ down(i) > 0}, Len(rows))
        gap(i) == IF up(i) > 0 THEN [dir |-> 1, low |-> rows[i - 2].high, high |-> rows[i].low, at |-> i]
                  ELSE [dir |-> -1, low |-> rows[i].high, high |-> rows[i - 2].low, at |-> i]
    IN [k \in DOMAIN at |-> gap(at[k])]
Clamp(n, low, high) == Max({low, Min({high, n})})
\* The newest gap, filled or not; its fill is where the latest candle closed.
Fvg(rows) ==
    LET gaps == GapsOf(rows)
        active == Last(gaps)
        close == Last(rows).close
        in == IF active.dir = 1 THEN active.high - close ELSE close - active.low
    IN IF gaps = <<>> THEN NoValue
       ELSE [status |-> active.dir, age |-> Len(rows) - active.at, width |-> active.high - active.low,
             fill |-> Clamp(in, 0, active.high - active.low), distance |-> Max({0, -in}), count |-> Len(gaps)]

Equilibrium(rows) ==
    LET sample == Newest(rows, RangeBars)
        high == Max(ToSet(Highs(sample)))
        low == Min(ToSet(Lows(sample)))
    IN IF high > low THEN <<Last(rows).close - low, high - low>> ELSE NoValue

Roc(rows, bars) == IF Len(rows) > bars THEN Last(rows).close - rows[Len(rows) - bars].close ELSE NoValue
Momentum(rows) ==
    LET prior == AtrOf(SubSeq(rows, 1, Max({0, Len(rows) - AtrBars})))
        volumes == SelectSeq(Newest(Front([i \in DOMAIN rows |-> rows[i].volume]), RangeBars),
                             LAMBDA v : v > 0)
    IN [roc5 |-> Roc(rows, ShortRoc), roc20 |-> Roc(rows, LongRoc),
        body |-> Ratio(Abs(Last(rows).close - Last(rows).open), AtrOf(rows)),
        volume |-> IF volumes = <<>> THEN NoValue ELSE <<Last(rows).volume, volumes>>,
        atr |-> AtrOf(rows),
        expansion |-> IF AverageRange(rows).count = 0 THEN NoValue ELSE Ratio(AverageRange(rows), prior),
        realized |-> Spread(Moves(Closes(Newest(rows, RangeBars + 1))))]

\* A trade aims beyond its entry; the level named opposing may lie behind it.
TargetQuality(s, entry, tp1, liquidity, structure) ==
    LET ahead(l) == s * (l - 2 * entry)
        target == 2 * s * (tp1 - entry)
        opposing == {l \in liquidity.levels : ahead(l) >= 0}
    IN [nearest |-> IF opposing = {} THEN NoValue ELSE Min({Abs(ahead(l) - target) : l \in opposing}),
        congestion |-> Cardinality({l \in opposing : 0 < ahead(l) /\ ahead(l) < target}),
        level |-> IF s = 1 THEN structure.high ELSE structure.low]

\* LOW below 0.8, HIGH above 1.4.
RegimeVolatility(expansion) ==
    LET now == expansion[1] prior == expansion[2]
        a == now.sum * prior.count
        b == prior.sum * now.count
    IN IF expansion = NoValue \/ (5 * a >= 4 * b /\ 5 * a <= 7 * b) THEN 0
       ELSE IF 5 * a < 4 * b THEN -1 ELSE 1

Objective(rows, T, daily) ==
    LET structure == Structure(rows)
        momentum == Momentum(rows)
    IN [structure |-> structure, liquidity |-> Liquidity(rows, T, daily), fvg |-> Fvg(rows),
        equilibrium |-> Equilibrium(rows), momentum |-> momentum,
        regime |-> <<structure.trend, RegimeVolatility(momentum.expansion)>>]

-----------------------------------------------------------------------------
\* The channels of the last candles. The extremes are those of the whole window.

Encode(rows) ==
    LET kept == Newest(rows, SequenceBars)
        ceiling == Max(ToSet(Highs(kept)))
        floor == Min(ToSet(Lows(kept)))
        channel(i) ==
            [move |-> rows[i].close - rows[Max({1, i - 1})].close, range |-> rows[i].high - rows[i].low,
             upper |-> rows[i].high - Max({rows[i].open, rows[i].close}),
             lower |-> Min({rows[i].open, rows[i].close}) - rows[i].low, volume |-> rows[i].volume,
             volatility |-> Spread(Moves(Closes(SubSeq(rows, Max({1, i - RangeBars}), i)))),
             toHigh |-> rows[i].close - ceiling, toLow |-> rows[i].close - floor]
    IN IF Len(rows) < SequenceBars THEN <<>>
       ELSE Newest([i \in DOMAIN rows |-> channel(i)], SequenceBars)

\* preEntryFeatures reads the indicators of a frame from the array of its candles,
\* where there are none; features(rows) as the analysed frame has them otherwise.
NoIndicators ==
    [rsi |-> NoValue, roc |-> NoValue, volume |-> NoValue, atr |-> NoValue, fast |-> NoValue,
     slow |-> NoValue, trend |-> 0, support |-> NoValue, resistance |-> NoValue]

\* A frame of a row frozen at T, refused if a candle was not complete.
FrameOf(feed, T, daily) ==
    LET rows == ClosedCandles(feed, T)
    IN IF rows = Refused THEN Refused
       ELSE [quant |-> NoIndicators, objective |-> Objective(rows, T, daily), sequence |-> Encode(rows)]

-----------------------------------------------------------------------------
\* extractFeatures. A row is [s, entry, stop, asset, at, regime] and its frames.

Signed(s, v) == IF v = NoValue THEN NoValue ELSE s * v
Channel(sequence, pick, n, offset) ==
    LET kept == SubSeq(sequence, 1, Max({0, Len(sequence) - offset}))
    IN SelectSeq(Newest([i \in DOMAIN kept |-> kept[i][pick]], n), LAMBDA v : v # NoValue)
Means(short, long) == IF Total(long) = 0 THEN NoValue ELSE <<short, long>>

StructureFeatures(row, f) ==
    LET q == f.quant
        o == f.objective
        up == row.s = 1
        position == o.equilibrium
    IN [trend |-> q.trend * row.s, swings |-> o.structure.trend * row.s,
        averages |-> IF q.atr = NoValue THEN NoValue
                     ELSE <<row.s * (row.entry - q.fast), row.s * (q.fast - q.slow)>>,
        room |-> IF q.atr = NoValue THEN NoValue
                 ELSE IF up THEN <<row.entry - q.support, q.resistance - row.entry>>
                 ELSE <<q.resistance - row.entry, row.entry - q.support>>,
        position |-> IF position = NoValue THEN NoValue
                     ELSE IF up THEN position[2] - position[1] ELSE position[1],
        bos |-> o.structure.bos * row.s, choch |-> o.structure.choch * row.s,
        displacement |-> o.structure.displacement,
        proximity |-> IF f.sequence = <<>> THEN NoValue
                      ELSE IF up THEN Last(f.sequence).toHigh ELSE -Last(f.sequence).toLow]

VolatilityFeatures(row, f) ==
    [stop |-> Abs(row.entry - row.stop), stopAtr |-> Ratio(Abs(row.entry - row.stop), f.quant.atr),
     atr |-> f.objective.momentum.atr, expansion |-> f.objective.momentum.expansion,
     realized |-> f.objective.momentum.realized,
     ranges |-> Means(Channel(f.sequence, "range", Acute, 0), Channel(f.sequence, "range", Wide, 0)),
     volatility |-> Means(Channel(f.sequence, "volatility", 1, 0), Channel(f.sequence, "volatility", Wide, 0))]

MomentumFeatures(row, f) ==
    LET moved(n, offset) == row.s * Total(Channel(f.sequence, "move", n, offset))
    IN [rsi |-> IF f.quant.rsi = NoValue THEN NoValue ELSE row.s * (f.quant.rsi - 50),
        roc |-> Signed(row.s, f.quant.roc), roc20 |-> Signed(row.s, f.objective.momentum.roc20),
        moves |-> IF Len(f.sequence) < Wide THEN NoValue ELSE moved(Wide, 0),
        acceleration |-> moved(Acute, 0) - moved(Acute, Acute)]

LiquidityFeatures(row, f) ==
    LET known == f.objective.liquidity
    IN [volume |-> f.quant.volume,
        volumes |-> Means(Channel(f.sequence, "volume", Acute, 0), Channel(f.sequence, "volume", Wide, 0)),
        rejection |-> row.s * (Total(Channel(f.sequence, "lower", Acute, 0)) - Total(Channel(f.sequence, "upper", Acute, 0))),
        distance |-> IF f.quant.atr = NoValue THEN NoValue ELSE known.distance,
        ahead |-> row.s * (known.equalHighs - known.equalLows)]

RegimeFeatures(row, f) ==
    [trend |-> row.s * f.objective.regime[1], volatility |-> f.objective.regime[2], label |-> row.s * row.regime]

\* The last close known at T, unless it is too old. Closes are [time, value].
CloseAt(series, T) ==
    LET i == Max({0} \union {i \in DOMAIN series : series[i].time <= T})
    IN IF i = 0 \/ T - series[i].time > Reach THEN NoValue ELSE series[i].value
Return(series, T, span) ==
    IF NoValue \in {CloseAt(series, T), CloseAt(series, T - span)} THEN NoValue
    ELSE CloseAt(series, T) - CloseAt(series, T - span)

CrossMarketFeatures(row, markets) ==
    LET day == [a \in DOMAIN markets |-> Return(markets[a], row.at, Span)]
        known == SelectSeq(SetToSeq(DOMAIN markets), LAMBDA a : day[a] # NoValue)
        moves == [i \in DOMAIN known |-> day[known[i]]]
        rising == {i \in DOMAIN moves : moves[i] > 0}
        ahead(b) == IF NoValue \in {day[row.asset], day[b]} THEN NoValue ELSE row.s * (day[row.asset] - day[b])
        enough == Len(known) >= MinMarkets
        hours == [h \in 1..Span + 1 |-> CloseAt(markets["btc"], row.at - (Span + 1 - h))]
    IN [btc |-> Signed(row.s, day["btc"]), eth |-> Signed(row.s, day["eth"]),
        toBtc |-> ahead("btc"), toEth |-> ahead("eth"),
        breadth |-> IF enough THEN row.s * (2 * Cardinality(rising) - Len(known)) ELSE NoValue,
        dispersion |-> IF enough THEN Spread(moves) ELSE NoValue,
        volatility |-> IF NoValue \in ToSet(hours) THEN NoValue ELSE Spread(Moves(hours))]

\* Rates settled at or before the scan, however long before.
DerivativesFeatures(row, funding) ==
    LET settled == SelectSeq(funding, LAMBDA x : x.time <= row.at)
        rates == [i \in DOMAIN settled |-> settled[i].value]
        short == Newest(rates, FundingShort)
        long == Newest(rates, FundingLong)
    IN IF rates = <<>> THEN NoValue
       ELSE [last |-> row.s * Last(rates), day |-> row.s * Total(short),
             z |-> IF Spread(long) \in {NoValue, 0} THEN NoValue
                   ELSE <<row.s * (Total(short) * Len(long) - Total(long) * Len(short)), Spread(long)>>]

\* Without BASE and SETUP, which know no direction.
Directed(row, frame) ==
    [structure |-> StructureFeatures(row, frame), volatility |-> VolatilityFeatures(row, frame),
     momentum |-> MomentumFeatures(row, frame), liquidity |-> LiquidityFeatures(row, frame),
     regime |-> RegimeFeatures(row, frame)]
DirectedContext(row, context) ==
    [cross |-> CrossMarketFeatures(row, context.markets), derivatives |-> DerivativesFeatures(row, context.funding)]

-----------------------------------------------------------------------------
(* Properties, on any candles                                              *)

\* A pivot stands when later candles come and is new when its right side has just closed;
\* what the scanner calls a swing is one; of equal extremes close together one counts.
PivotsStand(v, swings) ==
    LET now == Pivots(v)
        before == Pivots(Front(v))
    IN /\ before \subseteq now
       /\ now \ before \subseteq {Len(v) - RightBars}
       /\ swings \subseteq now
       /\ \A i, j \in now : i < j /\ j - i <= Min({LeftBars, RightBars}) => FALSE

\* Closed beyond the last high and the last low at once: the break up is reported.
Torn(o) == o.structure.bos = 1 /\ o.structure.low # NoValue /\ o.structure.high < o.structure.low
SweptBoth(o, r) == o.liquidity.sweep = 1 /\ r.liquidity.sweep = 1
Reversed(rows, top) ==
    FoldLeft(LAMBDA r, c : Append(r, [c EXCEPT !.open = top - @, !.close = top - @,
                                               !.high = top - c.low, !.low = top - c.high]), <<>>, rows)

\* Prices upside down and the other side: the same row to whoever reads its features.
SameReading(f, r, o, u) ==
    /\ [f EXCEPT !.structure.bos = 0] = [r EXCEPT !.structure.bos = 0]
    /\ Torn(o) \/ f.structure.bos = r.structure.bos
    /\ SweptBoth(o, u) \/ o.liquidity.sweep = -u.liquidity.sweep
    /\ IF o.fvg = NoValue THEN u.fvg = NoValue ELSE u.fvg = [o.fvg EXCEPT !.status = -@]
SameDirected(row, frame, against, reversed) ==
    SameReading(Directed(row, frame), Directed(against, reversed), frame.objective, reversed.objective)

\* The same of the other markets, but for a breadth that counts a flat market as falling.
SameContext(row, context, against, reversed) ==
    LET flat == \E a \in DOMAIN context.markets : Return(context.markets[a], row.at, Span) = 0
        same(f, r) == /\ [f EXCEPT !.cross.breadth = 0] = [r EXCEPT !.cross.breadth = 0]
                      /\ flat \/ f.cross.breadth = r.cross.breadth
    IN same(DirectedContext(row, context), DirectedContext(against, reversed))

\* What another market or a funding rate did after the scan changes nothing.
ContextIsPast(row, context) ==
    LET past(series) == SelectSeq(series, LAMBDA x : x.time <= row.at)
    IN DirectedContext(row, context) =
         DirectedContext(row, [markets |-> [a \in DOMAIN context.markets |-> past(context.markets[a])],
                               funding |-> past(context.funding)])

\* Of a target: levels crowd it alike, and the opposing level is the mirrored one.
SameTarget(s, entry, tp1, o, u, top) ==
    LET q == TargetQuality(s, entry, tp1, o.liquidity, o.structure)
        m == TargetQuality(-s, top - entry, top - tp1, u.liquidity, u.structure)
    IN /\ q.nearest = m.nearest /\ q.congestion = m.congestion
       /\ q.level = IF m.level = NoValue THEN NoValue ELSE top - m.level
=============================================================================
