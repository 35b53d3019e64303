---------------------------- MODULE FeatureResearch ----------------------------
(***************************************************************************)
(* The feature study (research/feature-research): families of features are *)
(* computed for frozen candidates from the candle archive, audited for     *)
(* what they may know of the future, evaluated as arms of the frozen       *)
(* walk-forward protocol, calibrated against permuted copies and           *)
(* classified.                                                             *)
(*                                                                         *)
(* A series maps the opening times of candles to them; a time is counted   *)
(* in candles of five minutes.  Distances are prices where the code        *)
(* divides them by one ATR, a return is a difference, and a statistic of a *)
(* window of returns is that window.                                       *)
(***************************************************************************)
EXTENDS Integers, Sequences, SequencesExt, FiniteSets, FiniteSetsExt

CONSTANTS
    Worlds,                     \* archives, derivatives and candidates a study may find
    NoValue,                    \* null
    SwingK, Period,             \* SWING_K; candles that seed the ATR
    Depth,                      \* LOOKBACK
    Short, Long, CandleMin,     \* windows of a candle frame: 20, 50 and 101 candles
    Quarter, Hour, FourHours, Day,
    CrossShort, CrossLong, CrossHours, MinAssets,
    FundingAge, FundingWindow, OiAge, OiLag, PremiumAge, Expansion,
    DevCutoff, HoldoutStart,
    OutcomeChoices,             \* what an arm may pick in the scans of the folds
    PlaceboCounts, Placebos,    \* permuted copies as good as the arm; their number
    BlockLength, RetainFolds, PromisingFolds

VARIABLES
    world,      \* what there is
    universe,   \* what was read of the archive
    derived,    \* the derivatives that could be loaded
    step,       \* what run does next, or how it ended
    families,   \* the features of each row, and their sources
    arm,        \* what the arm with the new families picked
    placebo,    \* permuted copies at least as good
    class

featureVars == <<world, universe, derived, step, families, arm, placebo, class>>

Sum(s) == FoldSeq(+, 0, s)
SignOf(n) == CASE n > 0 -> 1 [] n < 0 -> -1 [] OTHER -> 0
Abs(n) == IF n < 0 THEN -n ELSE n
LastOf(s, n) == SubSeq(s, Max({1, Len(s) - n + 1}), Len(s))

-----------------------------------------------------------------------------
\* Candles.

\* A bucket that misses a candle is absent.
Aggregate(series, from, to) ==
    LET children(t) == [i \in 1..to \div from |-> t + (i - 1) * from]
        whole == {t \in DOMAIN series : t % to = 0 /\ ToSet(children(t)) \subseteq DOMAIN series}
        merged(s) == [open |-> s[1].open, close |-> s[Len(s)].close,
                      high |-> Max({s[i].high : i \in DOMAIN s}),
                      low |-> Min({s[i].low : i \in DOMAIN s}),
                      volume |-> Sum([i \in DOMAIN s |-> s[i].volume])]
    IN [t \in whole |-> merged([i \in DOMAIN children(t) |-> series[children(t)[i]]])]

\* buildSeries: hours are the venue's own where it delivered any.
BuildSeries(m5, native) ==
    LET h1 == IF DOMAIN native # {} THEN native ELSE Aggregate(m5, 1, Hour)
    IN [m5 |-> m5, h1 |-> h1, m15 |-> Aggregate(m5, 1, Quarter), h4 |-> Aggregate(h1, Hour, FourHours)]

\* Mutant: the candles there are, however far apart.
LastBars(series, interval, T, count) ==
    LET closed == {t \in DOMAIN series : t + interval <= T}
        before(t) == Cardinality({u \in closed : u > t})
        last == {t \in closed : before(t) < count}
        nth(i) == CHOOSE t \in last : before(t) = count - i
    IN IF Cardinality(last) < count THEN NoValue ELSE [i \in 1..count |-> series[nth(i)]]

\* The last candles closed by T: the last closes at T and none is missing.
ClosedWindow(series, interval, T, count) ==
    LET closed == {t \in DOMAIN series : t + interval <= T}
        last == {t \in closed : Cardinality({u \in closed : u > t}) < count}
        wanted == [i \in 1..count |-> T - (count + 1 - i) * interval]
    IN IF last = ToSet(wanted) THEN [i \in 1..count |-> series[wanted[i]]] ELSE NoValue

CloseAt(asset, T) == IF T - 1 \in DOMAIN asset.m5 THEN asset.m5[T - 1].close ELSE NoValue

TrueRange(bars, i) ==
    Max({bars[i].high - bars[i].low, Abs(bars[i].high - bars[i - 1].close),
         Abs(bars[i].low - bars[i - 1].close)})
\* In parts of a price; zero before the seed is complete.
Fine == 12
WilderAtr(bars) ==
    LET add(atr, i) == IF i <= Period + 1
                       THEN atr + (Fine * TrueRange(bars, i)) \div Period
                       ELSE (atr * (Period - 1) + Fine * TrueRange(bars, i)) \div Period
    IN IF Len(bars) <= Period THEN 0 ELSE FoldLeft(add, 0, [i \in 1..Len(bars) - 1 |-> i + 1])

-----------------------------------------------------------------------------
\* Structure.

\* Mutant: the candles after it need not confirm a swing.
IsPeakSoFar(v, i, k) == \A j \in i - k..i - 1 : v[i] > v[j]
IsSwing(v, i, k) == \A j \in i - k..i + k : j # i => v[i] > v[j]

NoLevel == [seen |-> FALSE, price |-> 0, broken |-> TRUE]
NoEvents == [high |-> NoLevel, low |-> NoLevel, trend |-> 0, events |-> <<>>,
             highs |-> {}, lows |-> {}]

\* A swing is known k candles later; a close beyond the last one known breaks it.
StructureStep(bars, k, acc, t) ==
    LET i == t - k
        isHigh == i > k /\ IsSwing([j \in 1..t |-> bars[j].high], i, k)
        isLow == i > k /\ IsSwing([j \in 1..t |-> -bars[j].low], i, k)
        high == IF isHigh THEN [seen |-> TRUE, price |-> bars[i].high, broken |-> FALSE] ELSE acc.high
        low == IF isLow THEN [seen |-> TRUE, price |-> bars[i].low, broken |-> FALSE] ELSE acc.low
        up == ~high.broken /\ bars[t].close > high.price
        between == IF up THEN 1 ELSE acc.trend
        down == ~low.broken /\ bars[t].close < low.price
        event(dir, level, choch) ==
            [dir |-> dir, index |-> t, level |-> level, choch |-> choch,
             strength |-> dir * (bars[t].close - level)]
    IN [high |-> [high EXCEPT !.broken = @ \/ up], low |-> [low EXCEPT !.broken = @ \/ down],
        trend |-> IF down THEN -1 ELSE between,
        highs |-> IF isHigh THEN acc.highs \union {i} ELSE acc.highs,
        lows |-> IF isLow THEN acc.lows \union {i} ELSE acc.lows,
        events |-> acc.events
                     \o (IF up THEN <<event(1, high.price, acc.trend = -1)>> ELSE <<>>)
                     \o (IF down THEN <<event(-1, low.price, between = 1)>> ELSE <<>>)]

StructureEvents(bars, k) ==
    FoldLeft(LAMBDA acc, t : StructureStep(bars, k, acc, t), NoEvents, [t \in 1..Len(bars) |-> t])

\* A close back through the level fails the break; a touch before that retests it.
Retest(bars, bos, atr) ==
    LET later == bos.index + 1..Len(bars)
        fails == {t \in later : bos.dir * (bars[t].close - bos.level) < 0}
        touches == {t \in later : LET edge == IF bos.dir > 0 THEN bars[t].low ELSE bars[t].high
                                  IN 4 * Fine * bos.dir * (edge - bos.level) <= atr}
    IN IF fails # {} THEN -1 ELSE IF touches # {} THEN 1 ELSE 0

Seen(bars, s, price, seen, atr) ==
    LET chochs == SelectSeq(seen.events, LAMBDA e : e.choch)
        about(events) ==
            IF events = <<>> THEN [direction |-> 0, since |-> NoValue, strength |-> NoValue]
            ELSE [direction |-> s * Last(events).dir, since |-> Len(bars) - Last(events).index,
                  strength |-> Last(events).strength]
        levels == {l \in {seen.high, seen.low} : l.seen}
    IN [trend |-> s * seen.trend, bos |-> about(seen.events), choch |-> about(chochs),
        toHigh |-> IF seen.high.seen THEN seen.high.price - price ELSE NoValue,
        toLow |-> IF seen.low.seen THEN price - seen.low.price ELSE NoValue,
        retest |-> IF seen.events = <<>> THEN 0
                   ELSE s * Last(seen.events).dir * Retest(bars, Last(seen.events), atr),
        nearest |-> IF levels = {} THEN NoValue ELSE Min({Abs(price - l.price) : l \in levels})]
StructureFrame(bars, s, price) ==
    IF WilderAtr(bars) = 0 THEN NoValue
    ELSE Seen(bars, s, price, StructureEvents(bars, SwingK), WilderAtr(bars))

Align(a, b) == IF a = NoValue \/ b = NoValue THEN NoValue
               ELSE IF a.trend # 0 /\ a.trend = b.trend THEN a.trend ELSE 0

StructureFamily(frames, s, price) ==
    LET aligned(of) == [m15 |-> of.m15, h1 |-> of.h1, h4 |-> of.h4,
                        lower |-> Align(of.m15, of.h1), upper |-> Align(of.h1, of.h4)]
        frame(name) == IF frames[name] = NoValue THEN NoValue ELSE StructureFrame(frames[name], s, price)
    IN aligned([m15 |-> frame("m15"), h1 |-> frame("h1"), h4 |-> frame("h4")])

-----------------------------------------------------------------------------
\* Gaps of three candles, open until later candles filled them.

Gaps(bars) ==
    LET n == Len(bars)
        gap(i) == IF bars[i].low > bars[i - 2].high
                  THEN [index |-> i, dir |-> 1, low |-> bars[i - 2].high, high |-> bars[i].low]
                  ELSE [index |-> i, dir |-> -1, low |-> bars[i].high, high |-> bars[i - 2].low]
    IN {gap(i) : i \in {i \in Max({3, n - 99})..n :
                          bars[i].low > bars[i - 2].high \/ bars[i].high < bars[i - 2].low}}
Width(g) == g.high - g.low
Depths(g, bars) == {IF g.dir > 0 THEN g.high - bars[j].low ELSE bars[j].high - g.low :
                      j \in g.index + 1..Len(bars)}
Live(bars) == {g \in Gaps(bars) : \A d \in Depths(g, bars) : d < Width(g)}

Distance(g, price) ==
    CASE price < g.low -> g.low - price [] price > g.high -> price - g.high [] OTHER -> 0
Nearest(live, price) ==
    CHOOSE g \in live : \A o \in live \ {g} :
        \/ Distance(g, price) < Distance(o, price)
        \/ Distance(g, price) = Distance(o, price) /\ g.index > o.index
After(g, e) == e.dir = g.dir /\ g.index - 3 <= e.index /\ e.index <= g.index
NearestFeatures(bars, s, price, g, seen, fill) ==
    [direction |-> s * g.dir, width |-> Width(g), age |-> Len(bars) - g.index,
     fill |-> fill,
     distance |-> (IF (IF s > 0 THEN g.high < price ELSE g.low > price) THEN 1 ELSE -1) * Distance(g, price),
     middle |-> s * (2 * price - g.low - g.high),
     withTrend |-> seen.trend # 0 /\ g.dir = seen.trend,
     afterBos |-> \E e \in ToSet(seen.events) : After(g, e),
     afterChoch |-> \E e \in ToSet(seen.events) : After(g, e) /\ e.choch,
     retest |-> IF Distance(g, price) = 0 THEN 2 ELSE IF fill > 0 THEN 1 ELSE 0]
GapFeatures(bars, s, price, live) ==
    LET count(dir) == Cardinality({g \in live : g.dir = dir})
        filled(g) == NearestFeatures(bars, s, price, g, StructureEvents(bars, SwingK),
                                     Max({0} \union Depths(g, bars)))
    IN <<count(s), count(-s), IF live = {} THEN NoValue ELSE filled(Nearest(live, price))>>
FvgFrame(bars, s, price) ==
    IF WilderAtr(bars) = 0 THEN NoValue ELSE GapFeatures(bars, s, price, Live(bars))

FvgFamily(frames, s, price) ==
    [name \in {"m15", "h1"} |->
        IF frames[name] = NoValue THEN NoValue ELSE FvgFrame(frames[name], s, price)]

-----------------------------------------------------------------------------
\* The last candle among those before it.

CandleFrame(bars, s, price) ==
    LET n == Len(bars)
        bar == bars[n]
        body(i) == bars[i].close - bars[i].open
        range(i) == bars[i].high - bars[i].low
        upper == bar.high - Max({bar.open, bar.close})
        lower == Min({bar.open, bar.close}) - bar.low
        recent == n - Long + 1..n
        floor == Min({bars[i].low : i \in recent})
        ceiling == Max({bars[i].high : i \in recent})
    IN IF WilderAtr(bars) = 0 \/ n < CandleMin THEN NoValue ELSE
       [body |-> s * body(n), range |-> range(n),
        upper |-> upper, lower |-> lower,
        location |-> IF range(n) > 0 THEN s * (2 * bar.close - bar.high - bar.low) ELSE 0,
        percentile |-> Cardinality({i \in Max({1, n - 99})..n : range(i) <= range(n)}),
        engulfing |-> IF body(n) * body(n - 1) < 0
                      THEN s * SignOf(body(n)) * (Abs(body(n)) - Abs(body(n - 1))) ELSE 0,
        pinbar |-> IF range(n) > 0 THEN s * (lower - upper) ELSE 0,
        volumes |-> LET v == Front([i \in 1..n |-> bars[i].volume])
                    IN <<bar.volume, LastOf(v, Short), LastOf(v, Long)>>,
        support |-> IF s > 0 THEN price - floor ELSE ceiling - price,
        resistance |-> IF s > 0 THEN ceiling - price ELSE price - floor,
        alignment |-> s * (SignOf(body(n)) + SignOf(bar.close - bars[n - Short].close)),
        confirmation |-> s * Sum([i \in 1..3 |-> body(n - 3 + i)])]

CandleFamily(frames, s, price) ==
    [name \in {"m15", "h1"} |->
        IF frames[name] = NoValue THEN NoValue ELSE CandleFrame(frames[name], s, price)]

-----------------------------------------------------------------------------
\* The other markets.

\* A window of returns has no hole.
LogReturns(asset, T, size, count) ==
    LET close == [k \in 0..count |-> CloseAt(asset, T - (count - k) * size)]
    IN IF \E k \in 0..count : close[k] = NoValue THEN NoValue
       ELSE [k \in 1..count |-> close[k] - close[k - 1]]
Ret(asset, T, span) ==
    IF CloseAt(asset, T) = NoValue \/ CloseAt(asset, T - span) = NoValue THEN NoValue
    ELSE CloseAt(asset, T) - CloseAt(asset, T - span)
Varies(w) == w # NoValue /\ Cardinality(ToSet(w)) > 1
Corr(a, b) == IF Varies(a) /\ Varies(b) THEN <<a, b>> ELSE NoValue
Signed(s, v) == IF v = NoValue THEN NoValue ELSE s * v

Leads(own, b) == IF b = NoValue THEN NoValue ELSE Corr(own, Front(b))
Across(asset, s, T, day, present) ==
    LET rising == {a \in present : day[a] > 0}
    IN IF Cardinality(present) < MinAssets THEN [breadth |-> NoValue, dispersion |-> NoValue]
       ELSE [breadth |-> <<s * (2 * Cardinality(rising) - Cardinality(present)), Cardinality(present)>>,
             dispersion |-> [a \in present |-> day[a]]]
OfDays(own, btc, asset, s, T, day, corr) ==
    LET ahead == day[asset] # NoValue /\ day["btc"] # NoValue
        across == Across(asset, s, T, day, {a \in DOMAIN day : day[a] # NoValue})
    IN [btcHour |-> Signed(s, Ret(btc, T, Hour)), btcDay |-> Signed(s, day["btc"]),
        volatility |-> LogReturns(btc, T, 1, CrossShort),
        strength |-> IF ahead THEN s * (day[asset] - day["btc"]) ELSE NoValue,
        residual |-> IF ahead /\ corr # NoValue THEN <<s, day[asset], day["btc"], corr>> ELSE NoValue,
        breadth |-> across.breadth, dispersion |-> across.dispersion, corr |-> corr,
        lead |-> Leads(LogReturns(own, T, 1, CrossLong), LogReturns(btc, T, 1, CrossLong + 1))]
CrossMarketFamily(markets, asset, s, T) ==
    OfDays(markets[asset], markets["btc"], asset, s, T, [a \in DOMAIN markets |-> Ret(markets[a], T, Day)],
           Corr(LogReturns(markets[asset], T, Hour, CrossHours), LogReturns(markets["btc"], T, Hour, CrossHours)))

-----------------------------------------------------------------------------
\* Derivatives: sequences of [time, value], a value known at its time.

LastAtOrBefore(series, t) == Max({0} \union {i \in DOMAIN series : series[i].time <= t})

NoDerivatives == [funding |-> <<>>, oi |-> <<>>, premium |-> <<>>]

FundingFeatures(series, s, T) ==
    LET i == LastAtOrBefore(series, T)
        window == SelectSeq(SubSeq(series, 1, i), LAMBDA x : x.time > T - FundingWindow)
        n == Len(window)
        total == Sum([k \in 1..n |-> window[k].value])
        spread == n * Sum([k \in 1..n |-> window[k].value * window[k].value]) - total * total
        away == n * series[i].value - total
    IN IF i = 0 \/ T - series[i].time > FundingAge THEN [rate |-> NoValue, source |-> NoValue]
       ELSE [rate |-> s * series[i].value, source |-> series[i].time,
             z |-> IF spread > 0 THEN <<s * away, spread>> ELSE NoValue,
             extreme |-> IF spread > 0 THEN away * away > 4 * spread ELSE NoValue,
             change |-> IF i > 1 THEN s * (series[i].value - series[i - 1].value) ELSE NoValue]

\* Every change is measured back from the last value known.
OiFeatures(series, s, T, price4h) ==
    LET fresh(i, t) == i > 0 /\ t - series[i].time <= OiAge
        i == LastAtOrBefore(series, T - OiLag)
        change(span) == LET j == LastAtOrBefore(series, series[i].time - span)
                        IN IF fresh(j, series[i].time - span) /\ series[j].value # 0
                           THEN series[i].value - series[j].value ELSE NoValue
        wide == change(FourHours)
    IN IF ~fresh(i, T - OiLag) THEN [source |-> NoValue]
       ELSE [source |-> series[i].time, hour |-> change(Hour), wide |-> wide,
             divergence |-> IF wide = NoValue \/ price4h = NoValue THEN NoValue
                            ELSE s * price4h * SignOf(wide),
             state |-> IF wide = NoValue THEN NoValue
                       ELSE CASE wide > Expansion -> 1 [] wide < -Expansion -> -1 [] OTHER -> 0]

PremiumFeatures(series, s, T) ==
    LET i == LastAtOrBefore(series, T)
        j == LastAtOrBefore(series, series[i].time - Day)
    IN IF i = 0 \/ T - series[i].time >= PremiumAge THEN [source |-> NoValue]
       ELSE [source |-> series[i].time, basis |-> s * series[i].value,
             change |-> IF j > 0 /\ series[i].time - Day - series[j].time < PremiumAge
                        THEN s * (series[i].value - series[j].value) ELSE NoValue]

DerivativesFamily(found, s, T, price4h) ==
    [funding |-> FundingFeatures(found.funding, s, T),
     oi |-> OiFeatures(found.oi, s, T, price4h),
     premium |-> PremiumFeatures(found.premium, s, T)]

-----------------------------------------------------------------------------
\* A row's families: none without a price at the scan.

FramesOf(asset, T) ==
    [m15 |-> ClosedWindow(asset.m15, Quarter, T, Depth),
     h1 |-> ClosedWindow(asset.h1, Hour, T, Depth),
     h4 |-> ClosedWindow(asset.h4, FourHours, T, Depth)]
Families(row, markets, found, price, frames) ==
    IF price = NoValue THEN <<>> ELSE
    [structure |-> StructureFamily(frames, row.s, price),
     fvg |-> FvgFamily(frames, row.s, price),
     candle |-> CandleFamily(frames, row.s, price),
     cross |-> CrossMarketFamily(markets, row.asset, row.s, row.at),
     derivatives |-> DerivativesFamily(found[row.asset], row.s, row.at,
                                       Ret(markets[row.asset], row.at, FourHours))]
ComputeFamilies(row, markets, found) ==
    Families(row, markets, found, CloseAt(markets[row.asset], row.at),
             FramesOf(markets[row.asset], row.at))

Sources(f) == IF f = <<>> THEN {}
              ELSE {f.derivatives[k].source : k \in DOMAIN f.derivatives} \ {NoValue}

\* The markets as they were at T.
Truncated(markets, T) ==
    LET upTo(series, interval) == [t \in {t \in DOMAIN series : t + interval <= T} |-> series[t]]
    IN [a \in DOMAIN markets |-> BuildSeries(upTo(markets[a].m5, 1), upTo(markets[a].h1, Hour))]

FromCandles == {"structure", "fvg", "candle", "cross"}
OfCandles(f) == IF f = <<>> THEN <<>> ELSE [name \in FromCandles |-> f[name]]

\* leakageAudit, on the candles alone.
LeakageAudit(rows, computed, markets) ==
    \A row \in rows :
        /\ row.at < DevCutoff
        /\ \A t \in Sources(computed[row]) : t <= row.at
        /\ OfCandles(ComputeFamilies(row, markets, [a \in DOMAIN markets |-> NoDerivatives]))
             = OfCandles(ComputeFamilies(row, Truncated(markets, row.at),
                                         [a \in DOMAIN markets |-> NoDerivatives]))

-----------------------------------------------------------------------------
\* What an arm is worth: the difference of its picks to those of the base, scan by scan.

\* blockBootstrap: the share of the resamples that end above nothing, in percent.
WinPct(series) ==
    LET n == Len(series)
        blocks == (n + BlockLength - 1) \div BlockLength
        total(starts) == Sum([i \in 1..n |->
            series[((starts[((i - 1) \div BlockLength) + 1] + ((i - 1) % BlockLength)) % n) + 1]])
        all == [1..blocks -> 0..n - 1]
    IN IF n < 5 THEN NoValue
       ELSE (100 * Cardinality({starts \in all : total(starts) > 0})) \div Cardinality(all)
AtLeast(v, low) == v # NoValue /\ v >= low

\* A pick is [delta, asset]; each scan is a fold of its own.
PairedDelta(picks) ==
    LET deltas == [i \in DOMAIN picks |-> picks[i].delta]
        without(a) == Sum([i \in DOMAIN picks |-> IF picks[i].asset = a THEN 0 ELSE picks[i].delta])
    IN [total |-> Sum(deltas), win |-> WinPct(deltas),
        folds |-> Cardinality({i \in DOMAIN picks : picks[i].delta > 0}),
        everywhere |-> \A a \in {picks[i].asset : i \in DOMAIN picks} : without(a) > 0]

LevelNames == <<"NO EVIDENCE", "WEAK SIGNAL", "PROMISING", "RETAIN">>
BeforePlacebo(reg, rank, clean) ==
    LET both == reg.total > 0 /\ rank.total > 0
    IN CASE both /\ AtLeast(reg.win, 90) /\ reg.folds >= RetainFolds /\ reg.everywhere /\ clean -> 4
         [] ~(both /\ AtLeast(reg.win, 90) /\ reg.folds >= RetainFolds /\ reg.everywhere /\ clean)
              /\ both /\ AtLeast(reg.win, 75) /\ reg.folds >= PromisingFolds -> 3
         [] OTHER -> IF (reg.total > 0 /\ AtLeast(reg.win, 60)) \/ (rank.total > 0 /\ AtLeast(rank.win, 60))
                     THEN 2 ELSE 1

\* Mutant: a family that fails its level's own calibration is believed one level down.
ClassifyOneStep(reg, rank, clean, count) ==
    LET p == (100 * (1 + count)) \div (Placebos + 1)
        original == BeforePlacebo(reg, rank, clean)
    IN IF (original = 4 /\ p > 5) \/ (original = 3 /\ p > 20) THEN original - 1 ELSE original

\* classify: down to a level whose own placebo requirement holds.
Classify(reg, rank, clean, count) ==
    LET p == (100 * (1 + count)) \div (Placebos + 1)
        original == BeforePlacebo(reg, rank, clean)
        holds(level) == (level = 4 => p <= 5) /\ (level = 3 => p <= 20)
    IN Max({level \in 1..original : holds(level)})

-----------------------------------------------------------------------------
\* The run.

Nothing == <<>>
FeatureInit ==
    /\ world \in Worlds
    /\ universe = Nothing /\ derived = Nothing /\ families = Nothing
    /\ arm = Nothing /\ placebo = Nothing /\ class = Nothing
    /\ step = "load"

\* Rows past the cutoff end the run; readCsv drops the candles of the holdout; an asset
\* whose derivatives cannot be loaded has none.
LoadStep ==
    /\ step = "load"
    /\ LET kept(series, interval) == [t \in {t \in DOMAIN series : t + interval <= HoldoutStart} |-> series[t]]
       IN universe' = [a \in DOMAIN world.m5 |-> BuildSeries(kept(world.m5[a], 1), kept(world.h1[a], Hour))]
    /\ \E lost \in SUBSET DOMAIN world.m5 :
          derived' = [a \in DOMAIN world.m5 |-> IF a \in lost THEN NoDerivatives ELSE world.derivatives[a]]
    /\ step' = IF \E row \in world.rows : row.at >= DevCutoff THEN "FAILED" ELSE "features"
    /\ UNCHANGED <<world, families, arm, placebo, class>>

FeaturesStep ==
    /\ step = "features"
    /\ families' = [row \in world.rows |-> ComputeFamilies(row, universe, derived)]
    /\ step' = "audit"
    /\ UNCHANGED <<world, universe, derived, arm, placebo, class>>

AuditStep ==
    /\ step = "audit"
    /\ step' = IF LeakageAudit(world.rows, families, universe) THEN "arms" ELSE "LEAKAGE_FAIL_STOPPED"
    /\ UNCHANGED <<world, universe, derived, families, arm, placebo, class>>

\* The walk forward of RankStudy, with and without the new families.
ArmStep ==
    /\ step = "arms"
    /\ \E outcome \in OutcomeChoices : arm' = outcome
    /\ step' = "placebo"
    /\ UNCHANGED <<world, universe, derived, families, placebo, class>>

PlaceboStep ==
    /\ step = "placebo"
    /\ placebo' \in PlaceboCounts
    /\ step' = "classify"
    /\ UNCHANGED <<world, universe, derived, families, arm, class>>

ClassifyStep ==
    /\ step = "classify"
    /\ class' = Classify(PairedDelta(arm.reg), PairedDelta(arm.rank), arm.clean, placebo)
    /\ step' = "COMPLETE"
    /\ UNCHANGED <<world, universe, derived, families, arm, placebo>>

FeatureNext == LoadStep \/ FeaturesStep \/ AuditStep \/ ArmStep \/ PlaceboStep \/ ClassifyStep

-----------------------------------------------------------------------------
\* Structure, on any candles: the same swings the scanner sees; no candle breaks twice; a
\* change of character is a break against the last one; what was broken stays so when
\* more candles come; and prices upside down give the opposite side the same features.
UpsideDown(bars, top) ==
    [i \in DOMAIN bars |-> [high |-> top - bars[i].low, low |-> top - bars[i].high,
                            close |-> top - bars[i].close]]
Swapped(f) == IF f = NoValue THEN NoValue ELSE [f EXCEPT !.toHigh = f.toLow, !.toLow = f.toHigh]
StructureIsSound(bars, highs, lows, top) ==
    LET seen == StructureEvents(bars, SwingK)
        before == StructureEvents(Front(bars), SwingK)
        price == Last(bars).close
    IN bars # <<>> =>
       /\ seen.highs = highs /\ seen.lows = lows
       /\ before.events = SelectSeq(seen.events, LAMBDA e : e.index < Len(bars))
       /\ \A i \in DOMAIN seen.events :
             /\ i > 1 => seen.events[i].index > seen.events[i - 1].index
             /\ seen.events[i].choch <=> i > 1 /\ seen.events[i].dir # seen.events[i - 1].dir
       /\ StructureFrame(bars, 1, price)
            = Swapped(StructureFrame(UpsideDown(bars, top), -1, top - price))
       /\ FvgFrame(bars, 1, price) = FvgFrame(UpsideDown(bars, top), -1, top - price)

\* No arm is evaluated on a feature that a later candle or a later value of a derivative
\* could have changed.
Past(found, T) ==
    [a \in DOMAIN found |-> [k \in DOMAIN found[a] |-> SelectSeq(found[a][k], LAMBDA x : x.time <= T)]]
ArmsAreBlind ==
    step = "arms" =>
        \A row \in world.rows :
            families[row] = ComputeFamilies(row, Truncated(universe, row.at), Past(derived, row.at))

\* A candle that is missing takes features away and changes none: a feature is what it
\* was or nothing, but for the two that count the markets present.
Without(markets, a, t) ==
    [markets EXCEPT ![a] = BuildSeries([u \in DOMAIN @.m5 \ {t} |-> @.m5[u]], world.h1[a])]
SameOrNothing(now, was, names) == \A k \in names : now[k] \in {was[k], NoValue}
LessIsNothing(now, was) ==
    now = <<>> \/ /\ \A k \in {"fvg", "candle"} : SameOrNothing(now[k], was[k], {"m15", "h1"})
                  /\ SameOrNothing(now.structure, was.structure, DOMAIN was.structure)
                  /\ SameOrNothing(now.cross, was.cross, DOMAIN was.cross \ {"breadth", "dispersion"})
FailsClosed ==
    step = "arms" =>
        \A row \in world.rows, a \in DOMAIN universe : \A t \in DOMAIN universe[a].m5 :
            families[row] # <<>> =>
                LessIsNothing(ComputeFamilies(row, Without(universe, a, t), derived), families[row])

\* Not so: "Any missing close inside a window nulls that feature (no fill)."
MissingCloseIsNull ==
    step = "arms" =>
        \A row \in world.rows, a \in DOMAIN universe : \A t \in DOMAIN universe[a].m5 :
            families[row] # <<>> =>
                LET now == ComputeFamilies(row, Without(universe, a, t), derived)
                IN now = <<>> \/ SameOrNothing(now.cross, families[row].cross, DOMAIN now.cross)

\* A level is only reported with its own calibration, and more permuted copies as good as
\* the family never raise it.
ClassIsEarned ==
    step = "COMPLETE" =>
        LET reg == PairedDelta(arm.reg)
            rank == PairedDelta(arm.rank)
        IN /\ class >= 3 => 5 * (1 + placebo) <= Placebos + 1
           /\ \A count \in PlaceboCounts :
                 count >= placebo => Classify(reg, rank, arm.clean, count) <= class
=============================================================================
