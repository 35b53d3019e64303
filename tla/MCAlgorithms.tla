---------------------------- MODULE MCAlgorithms ----------------------------
(***************************************************************************)
(* The pure parts of the trading logic, side by side: each is fed its own  *)
(* inputs and shares nothing with the others.  A behaviour belongs to the  *)
(* part chosen in its initial state; the variables of the others rest at   *)
(* one initial state.                                                      *)
(***************************************************************************)
EXTENDS MCPaperLifecycle

CONSTANTS
    StructureCandles, StructurePast, Strength, Lookback, Near, MaxLength,
    Inputs, Atr, MinQuality,                    \* QuantRules
    Length, Warmup, MaxBars, FirstTrain, Block, \* Backtests
    Base, Target, Rows, Clocks, MaxRows,        \* CandleFrames
    Listed, Original, Approved, Histories, CutoffDay, Screen, MaxAdditions,
    Expanded, Dates, MaxVersions,               \* UniverseScreen
    OldAssets, NewAssets, AssetOrder, Archives, Recorded, Depth, OutcomeBars, Risk,
    Scans, DevCutoff, HoldoutStart, MinDevCandidates, PitSample,
    NoValue,                                    \* DatasetExpansion
    Datasets, Lambdas,                          \* RankStudy
    Stores, NoReport, Ledgers, Floors,          \* EpochStudy
    Worlds, OutcomeChoices                      \* FeatureResearch

ASSUME StructureAssumption ==
    Strength \in Nat /\ MaxLength \in Nat /\ \A s \in StructurePast : s \in Seq(StructureCandles)
\* What the rules read of a market: prices and indicators are numbers, a feed takes a side,
\* none, or is down, and a model weighs a quarter at the most.
Bias == {"long", "short", "neutral"}
Evaluated(in) ==
    /\ in.frame \in [trend : {"long", "short", "none"}, extended : BOOLEAN, expanded : BOOLEAN,
                    exhaustion : STRING, rsi : Int, volume : Nat, separation : Int, roc : Int,
                    push : STRING, range : BOOLEAN, rejection : STRING, retest : STRING, sweep : STRING,
                    choch : STRING, side : STRING, price : Int, ema20 : Int, ema50 : Int,
                    support : Int, resistance : Int, low : Int, high : Int]
    /\ in.bias \in [d1 : Bias, h4 : Bias, h1 : Bias, m15 : Bias, m5 : Bias]
    /\ in.available \in BOOLEAN /\ in.disagree \in BOOLEAN /\ in.warned \in BOOLEAN
    /\ in.opportunity \in Int /\ in.entry \in Nat /\ in.balance \in Nat /\ in.exposure \in Nat
    /\ in.weight \in 0..25 /\ IsFiniteSet(DOMAIN in.feeds)
ASSUME RulesAssumption ==
    /\ Atr \in Nat \ {0} /\ MinQuality \in Nat
    /\ \A in \in Inputs : Evaluated(in)
ASSUME BacktestAssumption ==
    /\ Length \in Nat /\ Warmup \in Nat /\ MaxBars \in Nat /\ FirstTrain \in Nat /\ Block \in Nat

VARIABLES
    part,
    candles,
    input, strict, ranked, checked,
    trainEnd, phase, index, trades, seen, unseen, chosen,
    rows,
    screened, turn, history, proposal, registry,
    archive, old, output, dataset, report,
    raw, studyRows, stage, attempt, reads, oos, done, sealed,
    source, stored, studied,
    world, universe, derived, step, families, arm, placebo, class

M == INSTANCE MarketStructure WITH Candles <- StructureCandles, Past <- StructurePast
Q == INSTANCE QuantRules
B == INSTANCE Backtests
F == INSTANCE CandleFrames
U == INSTANCE UniverseScreen
X == INSTANCE DatasetExpansion
\* Nine scans a unit of time apart; two folds.
S == INSTANCE RankStudy WITH
        rows <- studyRows, Horizon <- 1, Embargo <- 1, DevCutoff <- 10, HoldoutStart <- 12,
        NumFolds <- 2, MinChoiceScans <- 3, MaxRounds <- 3, Patience <- 1, MinLeaf <- 1,
        BlockLength <- 2, Costs <- {0, 1}, ReadBudget <- 3, QuerySizes <- {1, 3}, MaxAttempts <- 2,
        Specs <- {"ridge", "boosted"}
\* Seven scans of development in two folds, one in each left by the purge; one or two tested.
E == INSTANCE EpochStudy WITH
        Cutoff <- 10, Horizon <- 2, Gap <- 1, WalkFolds <- 2, MaxEpochs <- 3, Stale <- 1,
        MinResolved <- 20, MinTestRows <- 2
\* An hour is two candles and a day four of them; four candles to a window.
R == INSTANCE FeatureResearch WITH
        SwingK <- 1, Period <- 2, Depth <- 4, Short <- 1, Long <- 2, CandleMin <- 4,
        Quarter <- 2, Hour <- 2, FourHours <- 4, Day <- 4,
        CrossShort <- 2, CrossLong <- 3, CrossHours <- 3, MinAssets <- 2,
        FundingAge <- 4, FundingWindow <- 12, OiAge <- 1, OiLag <- 1, PremiumAge <- 2,
        Expansion <- 2, DevCutoff <- 18, HoldoutStart <- 19,
        PlaceboCounts <- {0, 2, 5}, Placebos <- 19, BlockLength <- 2,
        RetainFolds <- 4, PromisingFolds <- 3
\* A day is two candles and two sessions.
V == INSTANCE ObjectiveFeatures WITH
        LeftBars <- 1, RightBars <- 1, PivotsKept <- 3, AtrBars <- 2, RangeBars <- 3,
        ShortRoc <- 1, LongRoc <- 3, DayBars <- 2, SessionStarts <- {0, 1}, SequenceBars <- 4,
        Acute <- 2, Wide <- 4, Span <- 2, Reach <- 1, FundingShort <- 2, FundingLong <- 3,
        MinMarkets <- 2

ruleVars == <<input, strict, ranked, checked>>
testVars == <<trainEnd, phase, index, trades, seen, unseen, chosen>>
screenVars == <<screened, turn, history, proposal, registry>>
expansionVars == <<archive, old, output, dataset, report>>
studyVars == <<raw, studyRows, stage, attempt, reads, oos, done, sealed>>
epochVars == <<source, stored, studied>>
featureVars == <<world, universe, derived, step, families, arm, placebo, class>>

Series(s) == [i \in 0..Len(s) - 1 |-> s[i + 1]]
Archive(m5, d1, manifest) == [m5 |-> Series(m5), d1 |-> Series(d1), manifest |-> manifest]
KeptArchive == Archive(<<2, 3, 4, 3, 3, 5, 1, 2>>, <<3, 3, 4, 5, 4, 3, 3, 4>>, "clean")

AlgorithmsInit ==
    /\ part \in {"lifecycle", "outcomes", "structure", "rules", "backtests", "frames",
                 "screen", "registry", "expansion", "study", "epochs", "features"}
    /\ part # "lifecycle" => geometry = LongAt(4, 5) /\ size = 1
    /\ part # "structure" => candles = CHOOSE s \in StructurePast : TRUE
    /\ part # "rules" => input = CHOOSE i \in Inputs : TRUE
    /\ \/ part = "expansion"
       \/ part # "expansion" /\ archive = [a \in OldAssets \union NewAssets |-> KeptArchive]
    /\ part # "study" => raw = CHOOSE d \in Datasets : TRUE
    /\ part # "epochs" => source = CHOOSE d \in Stores : TRUE
    /\ Init /\ O!Init /\ M!Init /\ Q!Init /\ B!Init /\ F!Init
    /\ U!ScreenInit /\ S!StudyInit /\ E!EpochInit
    /\ \/ part = "expansion" /\ X!ExpansionInit
       \/ /\ part # "expansion" /\ old = {} /\ dataset = NoValue /\ report = "none"
          /\ output = [a \in OldAssets \union NewAssets |-> NoValue]
    /\ \/ part = "features" /\ R!FeatureInit
       \/ /\ part # "features" /\ world = NoValue /\ universe = NoValue /\ derived = NoValue
          /\ step = NoValue /\ families = NoValue /\ arm = NoValue /\ placebo = NoValue /\ class = NoValue

tradingVars == <<vars, outcomeVars, candles, ruleVars, testVars, rows>>
researchVars == <<screenVars, expansionVars, studyVars, epochVars, featureVars>>

LifecyclePart ==
    /\ part = "lifecycle" /\ NewCandle
    /\ UNCHANGED <<part, outcomeVars, candles, ruleVars, testVars, rows, researchVars>>
OutcomesPart ==
    /\ part = "outcomes" /\ O!Next
    /\ UNCHANGED <<part, vars, candles, ruleVars, testVars, rows, researchVars>>
StructurePart ==
    /\ part = "structure" /\ M!Next
    /\ UNCHANGED <<part, vars, outcomeVars, ruleVars, testVars, rows, researchVars>>
RulesPart ==
    /\ part = "rules" /\ Q!Next
    /\ UNCHANGED <<part, vars, outcomeVars, candles, testVars, rows, researchVars>>
BacktestsPart ==
    /\ part = "backtests" /\ B!Next
    /\ UNCHANGED <<part, vars, outcomeVars, candles, ruleVars, rows, researchVars>>
FramesPart ==
    /\ part = "frames" /\ F!Next
    /\ UNCHANGED <<part, vars, outcomeVars, candles, ruleVars, testVars, researchVars>>
ScreenPart ==
    /\ part = "screen" /\ U!ScreenNext
    /\ UNCHANGED <<part, tradingVars, expansionVars, studyVars, epochVars, featureVars>>
RegistryPart ==
    /\ part = "registry" /\ U!RegistryNext
    /\ UNCHANGED <<part, tradingVars, expansionVars, studyVars, epochVars, featureVars>>
ExpansionPart ==
    /\ part = "expansion" /\ X!ExpansionNext
    /\ UNCHANGED <<part, tradingVars, screenVars, studyVars, epochVars, featureVars>>
StudyPart ==
    /\ part = "study" /\ S!StudyNext
    /\ UNCHANGED <<part, tradingVars, screenVars, expansionVars, epochVars, featureVars>>
EpochsPart ==
    /\ part = "epochs" /\ E!EpochNext
    /\ UNCHANGED <<part, tradingVars, screenVars, expansionVars, studyVars, featureVars>>
FeaturesPart ==
    /\ part = "features" /\ R!FeatureNext
    /\ UNCHANGED <<part, tradingVars, screenVars, expansionVars, studyVars, epochVars>>

AlgorithmsNext ==
    \/ LifecyclePart \/ OutcomesPart \/ StructurePart \/ RulesPart \/ BacktestsPart \/ FramesPart
    \/ ScreenPart \/ RegistryPart \/ ExpansionPart \/ StudyPart \/ EpochsPart \/ FeaturesPart

AlgorithmsSpec == AlgorithmsInit /\ [][AlgorithmsNext]_<<part, tradingVars, researchVars>>

-----------------------------------------------------------------------------
\* Small instances.

SomeLevels == {-2, 0, 4, 6}
Narrow(n) == [high |-> n, low |-> n, close |-> n]
Wide(low, close) == [high |-> low + 2, low |-> low, close |-> close]
SomeCandles == {Narrow(n) : n \in 1..4} \union {Wide(1, n) : n \in 1..3} \union {Wide(2, n) : n \in 2..4}
NarrowOnes(s) == [i \in DOMAIN s |-> Narrow(s[i])]
\* Rising and falling swings, level ones, swings that widen or narrow, a market that
\* does not move, and gaps; one high of two follows one low of two in most.
SomePasts ==
    {NarrowOnes(s) : s \in {<<1, 2, 1, 3, 2>>, <<4, 3, 4, 2, 3>>, <<2, 3, 1, 3, 1>>, <<1, 4, 2, 3, 1>>,
                          <<2, 3, 2, 4, 1>>, <<3, 2, 3, 1, 4>>, <<2, 1, 3, 2, 4>>, <<2, 2, 2, 2, 2>>,
                          <<1, 1, 3, 4, 4>>}}
      \union {<<Narrow(2), Wide(1, 2), Narrow(2), Wide(1, 3), Narrow(2)>>,
              <<Narrow(3), Wide(2, 2), Narrow(3), Wide(2, 4), Narrow(3)>>}

SomeRows == [time : {0, 5, 10, 15, 20, 25}, price : {1}] \union {[time |-> 10, price |-> 2],
                  [time |-> 5, price |-> 0], [time |-> 12, price |-> 1]}

SomeFrames ==
    [trend : {"long", "none"}, extended : {FALSE}, expanded : BOOLEAN, exhaustion : {"none"},
     rsi : {25, 75}, volume : {11}, separation : {1}, roc : {3}, push : {"long"}, range : BOOLEAN,
     rejection : {"none"}, retest : {"none", "short"}, sweep : {"none", "short"},
     choch : {"short"}, side : {"short"}, price : {1000}, ema20 : {995}, ema50 : {985},
     support : {960, 1010}, resistance : {1020}, low : {970}, high : {1030}]
\* Frames on both sides of every gate of the trend strategies.
AuditFrames ==
    [trend : {"long", "short", "none"}, extended : BOOLEAN, expanded : {FALSE},
     exhaustion : {"none", "long"}, rsi : {31, 32, 48, 52, 68, 69}, volume : {7, 8, 10},
     separation : {1}, roc : {3}, push : {"long", "none"}, range : {FALSE}, rejection : {"none", "long"},
     retest : {"none", "short"}, sweep : {"none"}, choch : {"none"}, side : {"none"},
     price : {1000}, ema20 : {995}, ema50 : {985}, support : {960}, resistance : {1020},
     low : {970}, high : {1030}]
AuditsNameAGate == \A f \in AuditFrames : Q!AuditNamesAGate(f)
SomeBiases ==
    {b \in [d1 : {"long", "short"}, h4 : {"long", "short"}, h1 : {"long", "neutral"},
            m15 : {"long", "short"}, m5 : {"long", "short"}] :
        b.m15 = b.m5 /\ (b.h1 = "neutral" => b.d1 = b.h4 /\ b.m5 = "long")}
SomeInputs ==
    {in \in [frame : SomeFrames, bias : SomeBiases, available : {TRUE},
             regime : {"RANGE", "COMPRESSION"}, macro : {"STRONG UPTREND", "WEAK DOWNTREND"},
             entry : {960, 1000, 1030}, opportunity : {50}, warned : {FALSE},
             balance : {7, 1000}, exposure : {1, 100},
             feeds : {[h |-> "long", b |-> "long", c |-> "down"],
                      [h |-> "long", b |-> "neutral", c |-> "down"]},
             disagree : BOOLEAN, weight : {0, 25}] :
        /\ in.disagree \/ in.entry # 1000 => in.frame.rsi = 25
        /\ in.disagree => in.weight = 0 /\ in.exposure = 1 /\ in.balance = 1000
        /\ in.entry # 1000 => ~in.disagree /\ in.weight = 0 /\ in.balance = 1000 /\ in.exposure = 1
        /\ in.frame.expanded => in.entry = 1030
        /\ in.frame.sweep # "none" => in.frame.retest = "none"
        /\ in.weight = 25 => in.balance = 1000 /\ in.exposure = 1
        /\ in.balance = 7 => in.exposure = 1
        /\ in.regime = "RANGE" <=> in.macro = "STRONG UPTREND"}

SomeListed == <<"ada", "btc", "dot", "uni">>
SomeScreen == [lookback |-> 1, minDays |-> 2, coverage |-> 75, low |-> 1, minNotional |-> 2,
               lowShare |-> 20, jump |-> 3, gap |-> 50, fetchCap |-> 2]
\* Each day opens at the close before it, unless it gaps.
Daily(closes) ==
    [d \in 0..Len(closes) - 1 |-> [open |-> closes[IF d = 0 THEN 1 ELSE d], close |-> closes[d + 1]]]
SomeHistories ==
    {Daily(s) : s \in {<<2, 3, 2, 3, 2, 2>>, <<2, 3, 2, 3, 0, 9>>, <<3, 3, 0, 4, 1, 1>>,
                       <<0, 2, 3, 3, 9, 0>>, <<0, 0, 3, 2, 3, 3>>, <<1, 4, 2, 4, 4, 4>>}}
      \union {[Daily(<<2, 3, 2, 3, 2, 2>>) EXCEPT ![d].open = 5] : d \in {2, 5}}

SomeArchives ==
    {KeptArchive,
     Archive(<<2, 3, 4, 3, 3, 5, 4, 0>>, <<3, 3, 4, 5, 4, 3, 9, 4>>, "clean"),
     Archive(<<2, 3, 4, 2, 2, 5, 1, 2>>, <<3, 3, 4, 5, 4, 3, 3, 4>>, "faulty"),
     Archive(<<1, 2, 0, 3, 4, 4, 3, 2>>, <<1, 1, 3, 4, 5, 4, 3, 3>>, "clean"),
     Archive(<<0, 4, 3, 2, 2, 0, 1, 1>>, <<4, 4, 0, 2, 1, 1, 2, 2>>, "none"),
     Archive(<<0, 0, 5, 4, 2, 1, 1, 1>>, <<5, 3, 3, 3, 1, 1, 1, 1>>, "clean")}
SomeOrder == <<"ada", "btc", "dot">>

Candidate(at, n, x, seq, quant, r, stop) ==
    [id |-> 10 * at + n, at |-> at, asset |-> IF n = 0 THEN "btc" ELSE "eth", x |-> x,
     seq |-> seq, quant |-> quant, r |-> r, tp1 |-> r > 0, stop |-> stop,
     fresh |-> TRUE, valid |-> TRUE, status |-> "RESOLVED"]
ScanOf(kind, at) ==
    CASE kind = "a" -> {Candidate(at, 0, 1, 0, 2, 1, 1), Candidate(at, 1, 0, 1, 1, -1, 2)}
      [] kind = "b" -> {Candidate(at, 0, 0, 0, 1, 2, 1), Candidate(at, 1, 1, 1, 1, -1, 1)}
      [] kind = "c" -> {Candidate(at, 0, NoValue, 1, 1, -1, 2), Candidate(at, 1, 1, 0, 3, 2, 1),
                        Candidate(at, 2, 0, 0, 1, 0, 1)}
      [] kind = "d" -> {Candidate(at, 0, 0, 0, 2, -1, 1), Candidate(at, 1, 1, 1, 1, 2, 1)}
      [] kind = "s" -> {Candidate(at, 0, 1, 1, 2, 1, 1)}
Repeated(shape, n) == UNION {ScanOf(shape[((i - 1) % Len(shape)) + 1], i) : i \in 1..n}
Generation(group, trainable) == [rows |-> group, trainable |-> trainable]
SomeDatasets ==
    {Generation(Repeated(shape, 9), TRUE) :
        shape \in {<<"a", "b", "c">>, <<"b", "c", "c">>, <<"c", "a", "a">>,
                   <<"a", "a", "b">>, <<"c", "b", "s">>, <<"b", "s", "a">>}}
      \union {Generation({}, TRUE), Generation(Repeated(<<"a">>, 6), FALSE),
              Generation(Repeated(<<"s">>, 9), TRUE), Generation(Repeated(<<"a">>, 11), TRUE),
              Generation({[w EXCEPT !.fresh = FALSE] : w \in Repeated(<<"a", "b">>, 6)}, TRUE),
              Generation({[w EXCEPT !.valid = FALSE] : w \in Repeated(<<"a", "b">>, 6)}, TRUE),
              Generation({[w EXCEPT !.fresh = w.at # 3, !.valid = w.at # 4,
                                    !.status = IF w.at = 5 THEN "PENDING" ELSE "RESOLVED"] :
                            w \in Repeated(<<"b", "c", "a">>, 9)}, TRUE)}
SomeLambdas == <<1, 8>>
Numbered(group) == {[w EXCEPT !.x = IF w.x = NoValue THEN 1 ELSE w.x] : w \in group}
SomeStores ==
    {Generation(Numbered(Repeated(<<"a", "b", "c">>, 11)), TRUE),
     Generation(Numbered(Repeated(<<"d", "a", "c">>, 11)), TRUE),
     Generation(Numbered(Repeated(<<"a">>, 6)), FALSE)}

\* Of the forward outcomes of one ledger every second is left out at first, some are
\* pending, and the later ones repeat an episode.
SomeFloors == [resolved |-> 7, clusters |-> 4, episodes |-> 4, days |-> 5, assets |-> 2, strategies |-> 2]
Forward(n, episodes, apart) ==
    [id |-> n, resolved |-> n % 4 # 3, at |-> apart * n, episode |-> n % episodes,
     cluster |-> IF n = 2 THEN NoValue ELSE n % 5, asset |-> n % 3,
     strategy |-> IF n % 2 = 0 THEN "trend" ELSE "reclaim"]
SomeLedgers ==
    {{Forward(n, episodes, apart) : n \in ns} :
        ns \in {0..k : k \in {0, 4, 6, 8, 9, 12}} \union {{n \in 0..k : n % 2 = 0} : k \in {8, 12}},
        episodes \in {1, 2, 5}, apart \in {0, 1}}
      \union {{}}

Higher(a, b) == IF a > b THEN a ELSE b
Lower(a, b) == IF a < b THEN a ELSE b

\* A price where each candle opens, zero where there was no candle.
BarsOf(p) ==
    [t \in {t \in 0..Len(p) - 2 : p[t + 1] > 0 /\ p[t + 2] > 0} |->
        [open |-> p[t + 1], close |-> p[t + 2], high |-> Higher(p[t + 1], p[t + 2]),
         low |-> Lower(p[t + 1], p[t + 2]), volume |-> p[t + 1] + (t % 3)]]
HoursOf(p, from) ==
    LET bars == BarsOf(p)
        whole == {t \in DOMAIN bars : t >= from /\ t % 2 = 0 /\ t + 1 \in DOMAIN bars} IN
    [t \in whole |-> [open |-> bars[t].open, close |-> bars[t + 1].close,
                      high |-> Higher(bars[t].high, bars[t + 1].high),
                      low |-> Lower(bars[t].low, bars[t + 1].low),
                      volume |-> bars[t].volume + bars[t + 1].volume]]
Values(times, values) == [i \in DOMAIN times |-> [time |-> times[i], value |-> values[i]]]
Known(a) ==
    [funding |-> Values(<<1, 6, 12, 17>>, <<3, 1, IF a = "eth" THEN 2 ELSE 1, 9>>),
     oi |-> IF a = "ada" THEN Values(<<5, 17>>, <<3, 5>>)
            ELSE Values(<<9, 11, 13, 15, 16, 17>>, <<10, 11, 13, 14, 20, 5>>),
     premium |-> Values(<<10, 12, 14, 16, 18>>, <<1, 2, 2, -1, 5>>)]
FeatureRow(a, s, t) == [asset |-> a, s |-> s, at |-> t]
World(prices, from, candidates) ==
    [m5 |-> [a \in DOMAIN prices |-> BarsOf(prices[a])],
     h1 |-> [a \in DOMAIN prices |-> HoursOf(prices[a], from[a])],
     rows |-> candidates, derivatives |-> [a \in DOMAIN prices |-> Known(a)]]
Markets(b, e, a) == [btc |-> b, eth |-> e, ada |-> a]
Swings == <<5, 7, 6, 9, 8, 6, 7, 4, 5, 3, 4, 6, 9, 7, 8, 6, 5, 7, 9, 2, 3>>
Rally == <<3, 4, 4, 5, 3, 5, 6, 5, 7, 8, 6, 7, 9, 9, 8, 9, 7, 8, 3, 4, 9>>
Holed == [Rally EXCEPT ![13] = 0]
Unpriced == <<4, 4, 5, 5, 6, 6, 7, 7, 6, 6, 5, 5, 4, 4, 3, 3, 0, 5, 5, 5, 5>>
SomeWorlds ==
    {World(Markets(Swings, Rally, Swings), Markets(0, 0, 0),
           {FeatureRow("btc", 1, 16), FeatureRow("eth", -1, 16), FeatureRow("ada", 1, 17)}),
     World(Markets(Rally, Holed, Swings), Markets(0, 99, 0),
           {FeatureRow("btc", -1, 16), FeatureRow("eth", 1, 16), FeatureRow("ada", -1, 17)}),
     World(Markets(Swings, Rally, Unpriced), Markets(99, 0, 0),
           {FeatureRow("btc", 1, 16), FeatureRow("ada", 1, 16)}),
     World(Markets(Swings, Rally, Unpriced), Markets(0, 15, 0), {FeatureRow("eth", 1, 16)}),
     World(Markets(Swings, Rally, Unpriced), Markets(0, 0, 0), {FeatureRow("eth", 1, 18)})}
PicksOf(deltas) ==
    [i \in 1..5 |-> [delta |-> deltas[i], asset |-> IF i % 2 = 0 THEN "btc" ELSE "eth"]]
SomeOutcomes ==
    {[reg |-> PicksOf(<<2, 2, 2, 2, 2>>), rank |-> PicksOf(<<1, 1, 1, 1, 1>>), clean |-> FALSE]}
      \union
    {[reg |-> PicksOf(r), rank |-> PicksOf(k), clean |-> TRUE] :
        r \in {<<2, 2, 2, 2, 2>>, <<2, 2, 2, 2, -1>>, <<2, -1, 2, -1, 2>>, <<2, -1, -1, 2, -1>>,
               <<-1, -1, -1, -1, 2>>},
        k \in {<<1, 1, 1, 1, 1>>, <<-1, -1, -1, -1, -1>>, <<2, -1, 1, -1, 0>>}}

\* The candles of a market, each open at the last close if that is in its range; a day
\* of two candles; two markets and a funding rate made of them.
BarAt(t, o, h, l, c) == [time |-> t, open |-> o, high |-> h, low |-> l, close |-> c, volume |-> 1 + (t % 3)]
Upside == 24
BarsFrom(s) ==
    [i \in DOMAIN s |-> BarAt(i - 1, V!Clamp(s[IF i = 1 THEN 1 ELSE i - 1].close, s[i].low, s[i].high),
                             s[i].high, s[i].low, s[i].close)]
\* A candle beyond both swings, and one that closes between a low and the high below it.
BreaksBothWays ==
    {BarsFrom(NarrowOnes(<<3, 4, 2, 3>>)) \o <<BarAt(4, 3, 5, 1, 3)>>,
     BarsFrom(NarrowOnes(<<1, 2, 1>>)) \o <<BarAt(3, 6, 8, 6, 7), BarAt(4, 7, 9, 5, 8),
                                           BarAt(5, 8, 10, 6, 9), BarAt(6, 9, 11, 3, 3)>>}
DaysOf(bars) ==
    LET day(d) == BarAt(d - 1, bars[2 * d - 1].open, Higher(bars[2 * d - 1].high, bars[2 * d].high),
                        Lower(bars[2 * d - 1].low, bars[2 * d].low), bars[2 * d].close)
    IN SubSeq([d \in 1..Len(bars) \div 2 |-> day(d)], 1, Len(bars) \div 2)
RowOf(bars, s) ==
    [s |-> s, entry |-> bars[Len(bars)].close, stop |-> bars[Len(bars)].close - 4 * s, asset |-> "eth",
     at |-> Len(bars), regime |-> s]
ContextOf(bars) ==
    LET series(v) == [i \in DOMAIN v |-> [time |-> i, value |-> v[i]]]
    IN [markets |-> [btc |-> series(V!Closes(bars)),
                     eth |-> series([i \in DOMAIN bars |-> bars[i].high + bars[i].low - bars[i].open])],
        funding |-> series([i \in DOMAIN bars |-> 2 * bars[i].close - Upside])]
FrameAt(bars) == V!FrameOf(bars, Len(bars), DaysOf(bars))
FramesAgreeOn(row, frame, turned, reversed) ==
    /\ V!SameDirected(row, frame, reversed, turned)
    /\ V!SameTarget(1, row.entry, row.entry + 2, frame.objective, turned.objective, Upside)
ContextsAgree(row, context, reversed, turned) ==
    /\ V!SameContext(row, context, reversed, turned)
    /\ V!ContextIsPast([row EXCEPT !.at = @ - 1], context)
ReversedAlike(bars, reversed) ==
    /\ FramesAgreeOn(RowOf(bars, 1), FrameAt(bars), FrameAt(reversed), RowOf(reversed, -1))
    /\ ContextsAgree(RowOf(bars, 1), ContextOf(bars), RowOf(reversed, -1), ContextOf(reversed))
FeaturesAreDirected(bars) == ReversedAlike(bars, V!Reversed(bars, Upside))

-----------------------------------------------------------------------------
\* Of the exit rules of the execution service: how a feed is cut into sweeps, and
\* whether a tick or a candle brings it, changes no exit; and what the engine relies on:
\* the plans it accepts, and an end at the deadline.
SameExits ==
    part = "lifecycle" =>
        /\ SweepsCompose /\ TickAgreesWithCandle
        /\ PlansAreKnown /\ DeadlineCloses

\* The six readings of a trade's candles agree where the code says they do.
OutcomesAgree ==
    part = "outcomes" =>
        /\ O!WhenDoesNotMatter /\ O!SeenStopsStand
        /\ O!BacktestIsForward /\ O!LabelsAgree /\ O!StrictIsCareful /\ O!HorizonsNest

\* Structure is judged by the past, and a confirmed swing stands.
StructureStands == [](part = "structure" => M!JudgedByThePast) /\ M!SwingsStand

\* What a decision promises about its trade, and what ranking and ML may change.
DecisionIsSound ==
    part = "rules" =>
        /\ Q!GeometrySound /\ Q!TakeIsSafe /\ Q!TakeIsConfirmed
        /\ Q!PickIsACandidate /\ Q!RankingOnlyAdds /\ Q!MlOnlyChooses /\ Q!LegacyKeepsMeaning
        /\ AuditsNameAGate

\* One trade at a time, and nothing chosen by what is reported as unseen.
WalkForwardIsFair == part = "backtests" => B!OneTradeAtATime /\ B!UnseenIsUnseen

\* Every reader of stored candles sees the same completed frames, and a later row
\* changes none of them.
FramesAgree ==
    /\ [](part = "frames" =>
            /\ F!DerivedIsAggregate /\ F!CachedIsSnapshot /\ F!ReadersAgree
            /\ F!MissingIsExact /\ F!ResampleIsAggregate)
    /\ F!LaterRowsAreUnseen

\* What is proposed for the universe was judged by the past, an approval makes a new
\* version and edits none; and a complete expanded dataset reproduces the old one, from
\* candles closed at their scans and without a candle of the holdout.
DatasetHolds ==
    /\ [](part = "screen" => U!ScreenedBlind /\ U!ProposalIsSound)
    /\ [](part = "expansion" => X!ExpansionHolds)
    /\ [][part = "registry" => U!VersionsStand]_screenVars

\* The studies.  Of the rank research: a fold is scored by what was known an embargo before
\* it, what it is judged by favours no name and no copy of the quant score, only fresh rows
\* of a trainable generation are scored, and a holdout is opened once.  Of the daily ones:
\* the outcome window of a row never reaches a later part, a choice by validation does not
\* know the test rows, a row once tested stays tested, and outcomes count as the
\* independent evidence they are.
StudiesHold ==
    /\ [](/\ part = "study" => S!StudyIsFair /\ S!ReportIsFair
          /\ part = "epochs" => E!PartsAreApart /\ E!ChosenBlind /\ E!BucketsPartition
          /\ part = "epochs" /\ stored = {} => E!EvidenceIsIndependent)
    /\ [][/\ S!OpenedOnce
          /\ part = "epochs" => E!TestStands]_<<studyVars, epochVars>>

\* The feature study: no arm is evaluated on a feature a later candle could change, a
\* missing candle takes features away and changes none, a level is earned by its own
\* calibration; on any candles structure is confirmed, stands and is symmetric; and
\* upside-down prices give the opposite trade the same directed features.
FeaturesHold ==
    /\ part = "features" => R!ArmsAreBlind /\ R!FailsClosed /\ R!ClassIsEarned
    /\ part = "structure" /\ candles # <<>> =>
         /\ R!StructureIsSound(candles, M!SwingHighs(candles), M!SwingLows(candles), Upside)
         /\ V!PivotsStand(V!Highs(candles), M!SwingHighs(candles))
    /\ part = "structure" /\ Len(candles) \in 5..6 => FeaturesAreDirected(BarsFrom(candles))
    /\ part = "features" /\ step = "load" => \A bars \in BreaksBothWays : FeaturesAreDirected(bars)
=============================================================================
