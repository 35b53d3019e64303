----------------------------- MODULE QuantRules -----------------------------
(***************************************************************************)
(* The decision the quant engine draws from the frames of one market       *)
(* (quant-engine.js): the strategies that apply, the gates a candidate     *)
(* passes, its geometry, the risk plan, and the semantics reported beside  *)
(* the verdict.                                                            *)
(*                                                                         *)
(* Prices are integers around 1000; a frame is the facts the strategies    *)
(* test, the indicators behind them inputs.  Percentages are compared by   *)
(* cross-multiplication, so nothing is rounded but the notional.           *)
(***************************************************************************)
EXTENDS Integers, FiniteSets

CONSTANTS
    Inputs,        \* what one evaluation reads: see MCRules
    Atr,           \* the setup frame's ATR
    MinQuality     \* 72

VARIABLES
    input,         \* the inputs of the evaluation
    strict,        \* the answer of strict mode
    ranked,        \* the answer of ranking mode, which every live scan uses
    checked        \* the ranked answer after the scan has compared the feeds

vars == <<input, strict, ranked, checked>>

Absolute(x) == IF x < 0 THEN -x ELSE x
Larger(a, b) == IF a > b THEN a ELSE b
Smaller(a, b) == IF a < b THEN a ELSE b
Clamp(x, low, high) == Larger(low, Smaller(high, x))
Opposite(side) == IF side = "long" THEN "short" ELSE "long"
Beyond(side, a, b) == IF side = "long" THEN a > b ELSE a < b
Toward(side, from, by) == IF side = "long" THEN from + by ELSE from - by

-----------------------------------------------------------------------------
(* riskPlan.  The stop's distance and the costs (16 in 10,000) are shares  *)
(* of the entry.                                                           *)

Leverages == {1, 2, 3, 5, 10}
NoPlan == [valid |-> FALSE, notional |-> 0, leverage |-> 1]

\* Mutant: the account's exposure cap lifts the size to itself.
NotionalCapped(p) ==
    LET distance == Absolute(p.entry - p.stop)
        sized == (p.balance * p.risk * 100 * p.entry) \div (10000 * distance + 16 * p.entry)
    IN  Larger(sized, p.balance * p.exposure)

Notional(p) ==
    LET distance == Absolute(p.entry - p.stop)
        sized == (p.balance * p.risk * 100 * p.entry) \div (10000 * distance + 16 * p.entry)
        cap == p.balance * p.exposure
    IN  IF cap = 0 THEN sized ELSE Smaller(sized, cap)

\* The liquidation price lies entry / leverage away.
StopIsFirst(p, leverage) ==
    IF p.direction = "long" THEN p.stop * leverage > p.entry * (leverage - 1)
                            ELSE p.stop * leverage < p.entry * (leverage + 1)

Buffered(p, leverage) ==
    LET distance == Absolute(p.entry - p.stop) IN
    100 * (p.entry - distance * leverage) >= leverage * Larger(p.entry, 35 * distance)

RiskPlan(p) ==
    LET n == Notional(p)
        fits == {l \in Leverages : l <= p.maxLeverage /\ n <= l * p.balance}
        leverage == CHOOSE l \in fits : \A k \in fits : l <= k
    IN  IF p.entry = p.stop \/ n < p.minNotional \/ fits = {} THEN NoPlan
        ELSE IF leverage > 1 /\ ~(StopIsFirst(p, leverage) /\ Buffered(p, leverage)) THEN NoPlan
        ELSE [valid |-> TRUE, notional |-> n, leverage |-> leverage]

-----------------------------------------------------------------------------
(* strategyCandidates, in the order they are added; rsi and volume as the  *)
(* code compares them, volume in tenths of its average.                    *)

Momentum(f, side) ==
    /\ f.trend = side /\ ~f.extended /\ f.push = side /\ f.volume >= 11
    /\ IF side = "long" THEN f.rsi \in 55..70 ELSE f.rsi \in 30..45

Continuation(f, side) ==
    /\ f.trend = side /\ ~f.extended /\ f.exhaustion = "none" /\ f.volume >= 8
    /\ IF side = "long" THEN f.rsi \in 48..68 ELSE f.rsi \in 32..52

Reverts(f, side) ==
    /\ f.range
    /\ f.rejection \in {side, "none"}
    /\ IF side = "long" THEN f.rsi < 30 /\ f.price <= f.support + Atr
                        ELSE f.rsi > 70 /\ f.price >= f.resistance - Atr

Level(f, side) == IF side = "long" THEN f.support ELSE f.resistance
Broken(f, side) == Level(f, Opposite(side))

\* What the strategies list on one side; a strategy lists at most one candidate.
Candidates(f, side) ==
    LET rank == IF side = "long" THEN 1 ELSE 2
        Candidate(holds, order, strategy, score, invalidation) ==
            IF holds THEN {[order |-> 2 * order + rank, strategy |-> strategy, direction |-> side,
                            score |-> Clamp(score, 0, 100), invalidation |-> invalidation]} ELSE {}
    IN  Candidate(Continuation(f, side), 1, "TREND CONTINUATION", 68 + 3 * f.separation + Smaller(10, f.volume \div 2),
                  IF side = "long" THEN Smaller(f.support, f.ema50) ELSE Larger(f.resistance, f.ema50))
        \cup Candidate(f.retest = side /\ f.volume >= 10, 2, "BREAKOUT + RETEST",
                       76 + Smaller(10, ((f.volume - 10) * 15) \div 10),
                       Toward(side, Broken(f, side), -((35 * Atr) \div 100)))
        \cup Candidate(Momentum(f, side), 3, "MOMENTUM CONTINUATION",
                       70 + Smaller(12, (3 * f.roc) \div 2), f.ema20)
        \cup Candidate(Reverts(f, side), 4, "MEAN REVERSION", 68 + Absolute(50 - f.rsi) - 20,
                       Toward(side, Level(f, side), -((3 * Atr) \div 10)))
        \cup Candidate(f.sweep = side /\ side \in {f.choch, f.rejection}, 5,
                       "LIQUIDITY-SWEEP REVERSAL", 78, Toward(side, Level(f, side), -(Atr \div 4)))

StrategyCandidates(f) == Candidates(f, "long") \cup Candidates(f, "short")

\* The highest score; of equals the one added first.
First(C) == CHOOSE c \in C : \A d \in C : d.score < c.score \/ (d.score = c.score /\ d.order >= c.order)

\* rankedFallbackCandidate: a direction, and a structural level on its losing side.
Fallback(in) ==
    LET side == IF in.bias.h1 # "neutral" THEN in.bias.h1 ELSE in.frame.side
        level == IF side = "long" THEN Smaller(in.frame.support, in.frame.low)
                                  ELSE Larger(in.frame.resistance, in.frame.high)
    IN  IF side \notin {"long", "short"} \/ ~Beyond(side, in.frame.price, level) THEN {}
        ELSE {[order |-> 99, direction |-> side, score |-> in.opportunity, invalidation |-> level,
               strategy |-> IF in.frame.sweep = side THEN "LIQUIDITY-SWEEP REVERSAL"
                            ELSE IF in.frame.retest = side THEN "BREAKOUT + RETEST"
                            ELSE IF in.frame.range THEN "MEAN REVERSION" ELSE "TREND CONTINUATION"]}

-----------------------------------------------------------------------------
(* evaluateSetup                                                           *)

Sides(in) == <<in.bias.d1, in.bias.h4, in.bias.h1, in.bias.m15, in.bias.m5>>
Aligned(in, side) == Cardinality({i \in 1..5 : Sides(in)[i] = side})
Opposed(in, side) == Cardinality({i \in 1..5 : Sides(in)[i] = Opposite(side)})

Quality(in, c) ==
    Clamp(c.score + 3 * Aligned(in, c.direction) - 8 * Opposed(in, c.direction)
            - (IF in.frame.volume < 8 THEN 10 ELSE 0)
            - (IF in.frame.expanded \/ in.frame.exhaustion = c.direction THEN 10 ELSE 0)
            - (IF in.warned THEN 5 ELSE 0), 0, 100)

IdealEntry(in, c) ==
    CASE c.strategy \in {"TREND CONTINUATION", "MOMENTUM CONTINUATION"} -> in.frame.ema20
      [] c.strategy = "BREAKOUT + RETEST" -> Broken(in.frame, c.direction)
      [] OTHER -> Level(in.frame, c.direction)

\* Mutant: an invalidation on the wrong side of the entry is used as the stop.
StopAtUnchecked(in, c) == Toward(c.direction, c.invalidation, -((15 * Atr) \div 100))

\* A stop that is not on the losing side of the entry gives way to 1.25 ATR.
StopAt(in, c) ==
    LET planned == Toward(c.direction, c.invalidation, -((15 * Atr) \div 100)) IN
    IF Beyond(c.direction, in.entry, planned) THEN planned
    ELSE Toward(c.direction, in.entry, -((5 * Atr) \div 4))

Readiness(in, c) ==
    LET distance == Absolute(in.entry - IdealEntry(in, c)) IN
    IF 4 * distance <= Atr THEN "IDEAL" ELSE IF distance <= Atr THEN "ACCEPTABLE" ELSE "EXTENDED"

Chased(in, c) ==
    Beyond(c.direction, in.entry, Toward(c.direction, IdealEntry(in, c), (60 * Atr) \div 100))

\* What strict mode answers early, in the order of the code; ranking mode notes and goes on.
MacroOpposes(in, c) ==
    in.macro = (IF c.direction = "long" THEN "STRONG DOWNTREND" ELSE "STRONG UPTREND")
PrimaryOpposes(in, c) ==
    /\ c.strategy \notin {"MEAN REVERSION", "LIQUIDITY-SWEEP REVERSAL"}
    /\ in.bias.h4 # c.direction
TimingOpposes(in, c) ==
    c.strategy # "MEAN REVERSION" /\ in.bias.m15 = Opposite(c.direction) /\ in.bias.m5 = Opposite(c.direction)
RegimeOpposes(in, c) ==
    /\ in.regime \in {"HIGH-VOLATILITY RANGE", "COMPRESSION"}
    /\ c.strategy \in {"TREND CONTINUATION", "MOMENTUM CONTINUATION"}
Contradicted(C, c, requested) ==
    /\ ~requested
    /\ \E d \in C : /\ d.direction # c.direction /\ Absolute(c.score - d.score) < 10
                    /\ \A e \in C : e.direction # c.direction =>
                           d.score > e.score \/ (d.score = e.score /\ d.order <= e.order)

Geometry(in, c) ==
    LET stop == StopAt(in, c)
        distance == Absolute(in.entry - stop) IN
    [direction |-> c.direction, strategy |-> c.strategy, quality |-> Quality(in, c),
     entry |-> in.entry, stop |-> stop, readiness |-> Readiness(in, c),
     \* TP1 at 1.8 R, TP2 at 3 R, in tenths of a price
     target1 |-> Toward(c.direction, 10 * in.entry, 18 * distance),
     target2 |-> Toward(c.direction, 10 * in.entry, 30 * distance),
     plan |-> RiskPlan([entry |-> in.entry, stop |-> stop, direction |-> c.direction,
                        balance |-> in.balance, risk |-> 1, exposure |-> in.exposure,
                        maxLeverage |-> 10, minNotional |-> 10])]

NoGeometry == [direction |-> "none", strategy |-> "none", quality |-> -1]
Verdict(g, decision) == [g |-> g, decision |-> decision]

StrictVerdict(in, C, c, requested) ==
    LET g == Geometry(in, c) IN
    CASE Contradicted(C, c, requested) -> Verdict(NoGeometry, "NO TRADE")
      [] ~Contradicted(C, c, requested) /\ (MacroOpposes(in, c) \/ PrimaryOpposes(in, c)) ->
            Verdict(NoGeometry, "NO TRADE")
      [] OTHER ->
            IF TimingOpposes(in, c) THEN Verdict(NoGeometry, "WAIT")
            ELSE IF RegimeOpposes(in, c) THEN Verdict(NoGeometry, "NO TRADE")
            ELSE IF Chased(in, c) THEN Verdict(g, "WAIT")
            ELSE IF g.quality < MinQuality
                 THEN Verdict(g, IF g.quality >= MinQuality - 10 THEN "WAIT" ELSE "NO TRADE")
            ELSE IF ~g.plan.valid THEN Verdict(g, "NO TRADE") ELSE Verdict(g, "TAKE TRADE")

RankedVerdict(in, c) ==
    LET g == Geometry(in, c) IN
    IF g.entry = g.stop THEN Verdict(g, "NO TRADE")
    ELSE Verdict(g, IF g.plan.valid /\ g.readiness # "EXTENDED" THEN "TAKE TRADE" ELSE "RANKED")

\* Mutant: ranking mode falls back even where a strategy applies.
EvaluateSetupFallsBack(in, ranking, requested) ==
    LET listed == StrategyCandidates(in.frame)
        C == IF ranking /\ requested = {} /\ Fallback(in) # {} THEN Fallback(in) ELSE listed
    IN  IF C = {} THEN Verdict(NoGeometry, "NO TRADE")
        ELSE IF ranking THEN RankedVerdict(in, First(C))
        ELSE StrictVerdict(in, C, First(C), requested # {})

\* requested: a candidate the caller evaluates on its own, or {} for the best one.
EvaluateSetup(in, ranking, requested) ==
    LET listed == StrategyCandidates(in.frame)
        C == IF listed = {} /\ ranking THEN Fallback(in) ELSE listed
        mine == IF requested = {} THEN C
                ELSE {c \in C : \E r \in requested : r.strategy = c.strategy /\ r.direction = c.direction}
    IN  IF ~in.available THEN Verdict(NoGeometry, "ANALYSIS UNAVAILABLE")
        ELSE IF mine = {} THEN Verdict(NoGeometry, "NO TRADE")
        ELSE IF ranking THEN RankedVerdict(in, First(mine))
        ELSE StrictVerdict(in, C, First(mine), requested # {})

EvaluateSetupCandidates(in, ranking) ==
    {EvaluateSetup(in, ranking, {c}) : c \in IF in.available THEN StrategyCandidates(in.frame) ELSE {}}
\* Mutant: the model chooses among everything that was ranked.
WithMlRanked(in, quant) ==
    IF in.weight = 0 THEN {quant} ELSE {quant} \cup EvaluateSetupCandidates(in, TRUE)

\* The answers a model of some weight, in percent, can choose with scores from 0 to 100.
WithMl(in, quant) ==
    LET eligible == {v \in EvaluateSetupCandidates(in, TRUE) :
                        v.decision = "TAKE TRADE" /\ v.g.plan.valid}
        Reach(v) == v.g.quality * (100 - in.weight)
    IN  IF in.weight = 0 \/ eligible = {} THEN {quant}
        ELSE {v \in eligible : \A u \in eligible : u # v => Reach(v) + 100 * in.weight >= Reach(u)}

-----------------------------------------------------------------------------
(* What a live scan makes of the ranked answer once it has the opinions of *)
(* the feeds (scan-core.mjs): a feed takes a side, none, or is down.       *)

Sources(in) == {s \in DOMAIN in.feeds : in.feeds[s] # "down"}
Matching(in, g) == Cardinality({s \in Sources(in) : in.feeds[s] = g.direction})

\* Mutant: one feed in the direction is enough.
FeedCheckOne(in, v) ==
    LET said == IF v.decision = "RANKED" THEN "WAIT" ELSE v.decision
    IN  IF v.decision = "TAKE TRADE" /\ Matching(in, v.g) < 1
        THEN [g |-> v.g, decision |-> "RANKED", strict |-> "WAIT"]
        ELSE [g |-> v.g, decision |-> v.decision, strict |-> said]

FeedCheck(in, v) ==
    LET said == IF v.decision = "RANKED" THEN "WAIT" ELSE v.decision IN
    IF in.disagree THEN [g |-> v.g, decision |-> "RANKED", strict |-> said]
    ELSE IF v.decision = "TAKE TRADE" /\ Matching(in, v.g) < 2
    THEN [g |-> v.g, decision |-> "RANKED", strict |-> "WAIT"]
    ELSE [g |-> v.g, decision |-> v.decision, strict |-> said]

-----------------------------------------------------------------------------
(* decisionSemantics of a live answer and mapLegacyVerdict of its row      *)

Semantics(available, candidate, g, count, matching, disagree) ==
    [ranking |-> IF ~available \/ ~candidate \/ g.quality < 0 THEN "INVALID"
                 ELSE IF g.quality >= MinQuality THEN "STRONG"
                 ELSE IF g.quality >= MinQuality - 10 THEN "VALID" ELSE "WEAK",
     entry |-> IF available /\ g # NoGeometry THEN g.readiness ELSE "INVALID",
     data |-> IF ~available \/ count = 0 THEN "UNAVAILABLE"
              ELSE IF disagree THEN "CONFLICTING"
              ELSE IF count >= 2 /\ matching >= 2 THEN "CONFIRMED" ELSE "PARTIAL"]

DecisionSemantics(in, q) ==
    Semantics(q.decision # "ANALYSIS UNAVAILABLE", q.g.direction # "none", q.g,
              Cardinality(Sources(in)), Matching(in, q.g), in.disagree)

\* Mutant: a WAIT is read as no candidate.
MapLegacyVerdictWaits(in, q) ==
    Semantics(q.strict # "ANALYSIS UNAVAILABLE", q.g.direction # "none" /\ q.strict = "TAKE TRADE",
              q.g, Cardinality(Sources(in)), Matching(in, q.g), in.disagree)

\* The row keeps the verdict of strict mode, the geometry and the feed facts.
MapLegacyVerdict(in, q) ==
    Semantics(q.strict # "ANALYSIS UNAVAILABLE", q.g.direction # "none" /\ q.strict # "NO TRADE",
              q.g, Cardinality(Sources(in)), Matching(in, q.g), in.disagree)

-----------------------------------------------------------------------------
\* closestMissGate (candidate-diversity-audit.mjs): which gate a frame without a
\* candidate came closest to passing.
ClosestMissGate(f) ==
    CASE f.retest # "none" \/ f.sweep # "none" \/ f.rejection # "none" ->
            "RANGE_OR_REVERSAL_SETUP_PRESENT_BUT_UNCONFIRMED"
      [] OTHER ->
            IF f.trend = "none" THEN "NO_TREND_STRUCTURE"
            ELSE IF f.extended THEN "EXTENDED_FROM_EMA20"
            ELSE IF f.rsi \notin (IF f.trend = "long" THEN 48..68 ELSE 32..52)
            THEN "RSI_OUTSIDE_CONTINUATION_BAND"
            ELSE IF f.volume < 8 THEN "LOW_RELATIVE_VOLUME"
            ELSE IF f.exhaustion # "none" THEN "STRUCTURE_EXHAUSTION"
            ELSE "TREND_PRESENT_BUT_NO_MOMENTUM_CONFIRMATION"

-----------------------------------------------------------------------------
Nothing == Verdict(NoGeometry, "none")

Init ==
    /\ input \in Inputs
    /\ strict = Nothing /\ ranked = Nothing /\ checked = Nothing

Evaluates ==
    /\ ranked = Nothing
    /\ strict' = EvaluateSetup(input, FALSE, {})
    /\ ranked' = EvaluateSetup(input, TRUE, {})
    /\ \E v \in WithMl(input, ranked') : checked' = FeedCheck(input, v)
    /\ UNCHANGED input

Next == Evaluates

-----------------------------------------------------------------------------
(* Properties                                                              *)

\* Whatever structure an asset shows (support above resistance, an invalidation beyond
\* the price), a trade that is taken or ranked has its stop on the losing side of the
\* entry and its targets in order on the other.
GeometrySound ==
    \A v \in {strict, ranked} :
        v.decision \in {"TAKE TRADE", "RANKED"} =>
            /\ Beyond(v.g.direction, v.g.entry, v.g.stop)
            /\ Beyond(v.g.direction, v.g.target1, 10 * v.g.entry)
            /\ Beyond(v.g.direction, v.g.target2, v.g.target1)

\* A plan can be paid and lost: the loss at the stop, costs included, is within the risk of
\* the account, the margin within its balance, and under leverage the stop comes before the
\* liquidation.
Affordable(g, balance) ==
    LET n == g.plan.notional
        p == [entry |-> g.entry, stop |-> g.stop, direction |-> g.direction]
    IN  /\ n * (10000 * Absolute(g.entry - g.stop) + 16 * g.entry) <= 100 * balance * g.entry
        /\ n <= g.plan.leverage * balance
        /\ g.plan.leverage > 1 => StopIsFirst(p, g.plan.leverage)

\* A trade that is taken can be afforded.
TakeIsSafe ==
    \A v \in {strict, ranked} : v.decision = "TAKE TRADE" => Affordable(v.g, input.balance)

\* A scan judges a setup twice, as the best of its candidates and each on its own, and
\* the two agree: the pick of the ranking is one of the candidates the model may choose
\* from, with the same verdict.
PickIsACandidate ==
    ranked.g # NoGeometry /\ StrategyCandidates(input.frame) # {} =>
        ranked \in EvaluateSetupCandidates(input, TRUE)

\* Ranking mode only adds: where strict mode gets as far as a geometry, ranking mode has
\* the same one, and what strict mode takes is there at least ranked.
RankingOnlyAdds ==
    /\ strict.g # NoGeometry => ranked.g = strict.g
    /\ strict.decision = "TAKE TRADE" => ranked.decision \in {"TAKE TRADE", "RANKED"}

\* "scan-core downgrades TAKE TRADE unless two feeds confirm within the price limit and
\* the entry is not EXTENDED" (mapLegacyVerdict): true of the decision of a scan.
TakeIsConfirmed ==
    checked.decision = "TAKE TRADE" =>
        LET x == DecisionSemantics(input, checked) IN
        x.data = "CONFIRMED" /\ x.entry \in {"IDEAL", "ACCEPTABLE"}

\* The model only chooses: what it puts in place of the pick is a trade the rules take,
\* and it never outweighs more quality than its weight allows (a third at the most).
MlOnlyChooses ==
    checked # Nothing /\ checked.g # ranked.g =>
        \E v \in EvaluateSetupCandidates(input, TRUE) :
            /\ v.g = checked.g /\ v.decision = "TAKE TRADE"
            /\ ranked.decision = "TAKE TRADE" => 3 * (ranked.g.quality - v.g.quality) <= 100

\* The audit copies the gates of the strategies: whatever frame the strategies pass over,
\* one of the gates before the last stopped it, so its last verdict is never given.
AuditNamesAGate(f) ==
    StrategyCandidates(f) = {} => ClosestMissGate(f) # "TREND_PRESENT_BUT_NO_MOMENTUM_CONFIRMATION"

\* What the row of a scan says later is what was said live, wherever there was an analysis.
LegacyKeepsMeaning ==
    checked # Nothing /\ input.available =>
        MapLegacyVerdict(input, checked) = DecisionSemantics(input, checked)

\* The same sentence, of the verdict the row keeps.
StrictTakeIsConfirmed ==
    checked # Nothing /\ checked.strict = "TAKE TRADE" =>
        DecisionSemantics(input, checked).data = "CONFIRMED"
=============================================================================
