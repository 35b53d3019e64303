------------------------------- MODULE EpochStudy -------------------------------
(***************************************************************************)
(* The daily epoch studies: V0 (research/v0-epoch-training.mjs), which     *)
(* cuts whatever is resolved into 60, 20 and 20 per cent and chooses a     *)
(* model by the middle part, and V1 (research/v1-epoch-training.mjs),      *)
(* whose test pool begins at a cutoff fixed once.                          *)
(*                                                                         *)
(* A row has one numeric feature x and one feature of its candles, seq;    *)
(* learners with epochs move one weight by one per epoch, the way their    *)
(* gradient points.                                                        *)
(***************************************************************************)
EXTENDS ScanRows

CONSTANTS
    Stores,         \* what the daily job will have stored in the end, and whether the registry
                    \* lets that generation be trained on
    Cutoff,         \* FIXED_TEST_CUTOFF_MS
    Horizon,        \* the outcome window of V1, and its embargo
    Gap,            \* EMBARGO_MS of V0
    WalkFolds, MaxEpochs, Stale,
    MinResolved, MinTestRows,
    NoReport,       \* a study that was not run
    Ledgers,        \* sets of forward outcomes whose evidence is measured
    Floors,         \* FLOORS of evidence-sufficiency.js
    NoValue         \* linkage that is missing

VARIABLES
    source,         \* the generation: the scans that will be resolved, trainable or not
    stored,         \* those resolved so far
    studied         \* the last report of each study

epochVars == <<source, stored, studied>>

-----------------------------------------------------------------------------
\* Splits.

FirstOf(groups, n) == SubSeq(groups, 1, Min({n, Len(groups)}))
From(groups, n) == SubSeq(groups, n + 1, Len(groups))
LastOf(groups) == At(groups[Len(groups)])
\* The scans that begin an embargo after the last one of the part before them.
Apart(groups, before, embargo) ==
    SelectSeq(groups, LAMBDA g : before # <<>> => At(g) - LastOf(before) >= embargo)

FixedSplit(S) ==
    LET groups == GroupByScan(S)
        before == SelectSeq(groups, LAMBDA g : At(g) < Cutoff - Horizon)
        trainEnd == Max({1, (3 * Len(before)) \div 4})
        train == FirstOf(before, trainEnd)
    IN [train |-> Flat(train), validation |-> Flat(Apart(From(before, trainEnd), train, Horizon)),
        test |-> Flat(SelectSeq(groups, LAMBDA g : At(g) >= Cutoff))]

\* Mutant: a fold is validated by the next rows, whatever outcomes reach into them.
FoldsUnpurged(S) ==
    LET groups == SelectSeq(GroupByScan(S), LAMBDA g : At(g) < Cutoff - Horizon)
        chunk == Len(groups) \div (WalkFolds + 1)
        train(k) == FirstOf(groups, chunk * k)
        validation(k) == SubSeq(groups, chunk * k + 1, chunk * (k + 1))
    IN IF Len(groups) < WalkFolds + 1 THEN {}
       ELSE {[train |-> Flat(train(k)), validation |-> Flat(validation(k))] :
               k \in {k \in 1..WalkFolds : validation(k) # <<>>}}

WalkForwardFolds(S) ==
    LET groups == SelectSeq(GroupByScan(S), LAMBDA g : At(g) < Cutoff - Horizon)
        chunk == Len(groups) \div (WalkFolds + 1)
        train(k) == FirstOf(groups, chunk * k)
        validation(k) == Apart(SubSeq(groups, chunk * k + 1, chunk * (k + 1)), train(k), Horizon)
    IN IF Len(groups) < WalkFolds + 1 THEN {}
       ELSE {[train |-> Flat(train(k)), validation |-> Flat(validation(k))] :
               k \in {k \in 1..WalkFolds : validation(k) # <<>>}}

SplitRows(S) ==
    LET groups == GroupByScan(S)
        n == Len(groups)
        trainEnd == Max({1, (3 * n) \div 5})
        validationEnd == Max({trainEnd + 1, (4 * n) \div 5})
        train == FirstOf(groups, trainEnd)
        validation == Apart(SubSeq(groups, trainEnd + 1, Min({validationEnd, n})), train, Gap)
        before == IF validation = <<>> THEN train ELSE validation
    IN [train |-> Flat(train), validation |-> Flat(validation),
        test |-> Flat(Apart(From(groups, validationEnd), before, Gap))]

-----------------------------------------------------------------------------
\* Learners.

Sign(n) == CASE n > 0 -> 1 [] n < 0 -> -1 [] OTHER -> 0
Ordered(S) == {p \in S \X S : p[1].at = p[2].at /\ p[1].r > p[2].r}

\* The gradients of trainConv, trainLogistic and trainPairwiseRanker.
Gradient(kind, S, weight) ==
    CASE kind = "CONV1D" -> Total([w \in S |-> (w.r - weight * w.seq) * w.seq])
      [] kind = "LOGISTIC_TP1" ->
            Total([w \in S |-> ((IF w.tp1 THEN 1 ELSE -1) - Sign(weight * w.x)) * w.x])
      [] OTHER -> Total([p \in Ordered(S) |->
                          IF weight * (p[1].x - p[2].x) > 0 THEN 0 ELSE p[1].x - p[2].x])
Loss(kind, S, weight) ==
    CASE kind = "CONV1D" -> Total([w \in S |-> (w.r - weight * w.seq) * (w.r - weight * w.seq)])
      [] kind = "LOGISTIC_TP1" -> Total([w \in S |-> IF w.tp1 THEN 3 - weight * w.x ELSE 3 + weight * w.x])
      [] OTHER -> Total([p \in Ordered(S) |-> 3 - weight * (p[1].x - p[2].x)])

\* The weights of an epoch with the least loss on the validation rows.
Weight(kind, train, validation) ==
    LET weights == FoldLeft(LAMBDA ws, k : Append(ws, ws[k] + Sign(Gradient(kind, train, ws[k]))),
                            <<0>>, [k \in 1..MaxEpochs |-> k])
        gain == [k \in 1..MaxEpochs |-> - Loss(kind, validation, weights[k + 1])]
    IN weights[BestBefore(gain, Stale) + 1]

\* trainStumps and the ridges use the training rows alone.
Leaning(S, v(_)) == Sign(Total([p \in S \X S |-> (v(p[1]) - v(p[2])) * (p[1].r - p[2].r)]))

Names == <<"CURRENT_QUANT", "LOGISTIC_TP1", "NUMERIC_RIDGE", "GRADIENT_STUMPS",
           "DIRECT_PAIRWISE_RANKER", "CONV1D", "MULTI_TIMEFRAME_RIDGE">>
Score(name, train, validation, on) ==
    LET weight == CASE name \in {"CONV1D", "LOGISTIC_TP1", "DIRECT_PAIRWISE_RANKER"} ->
                          Weight(name, train, validation)
                    [] name = "MULTI_TIMEFRAME_RIDGE" -> Leaning(train, LAMBDA w : w.seq)
                    [] name = "CURRENT_QUANT" -> 1
                    [] OTHER -> Leaning(train, LAMBDA w : w.x)
    IN [w \in on |-> CASE name = "CURRENT_QUANT" -> w.quant
                           [] name \in {"CONV1D", "MULTI_TIMEFRAME_RIDGE"} -> weight * w.seq
                           [] OTHER -> weight * w.x]

\* selectionMetrics: the first of each scan by score, then by id; what they earned.
Selected(S, score) ==
    {w \in S : \A v \in Mates(w, S) :
        score[v] < score[w] \/ (score[v] = score[w] /\ w.id <= v.id)}
\* Nothing is less than any loss.
NoPicks == -100
Expectancy(S, score) ==
    LET picks == Selected(S, score) IN IF picks = {} THEN NoPicks ELSE (12 * Total([w \in picks |-> w.r])) \div Cardinality(picks)

\* rankBuckets, by the place of a row in its scan.
Place(w, S, score) ==
    1 + Cardinality({v \in Mates(w, S) : score[v] > score[w] \/ (score[v] = score[w] /\ v.id < w.id)})
Bucket(S, score, low, high) == {w \in S : Place(w, S, score) \in low..high}

\* groupedBootstrapCI: scans are drawn with replacement and then grouped by their name,
\* so a scan drawn twice counts once.
Draws(S, score) ==
    {Expectancy({w \in S : w.at \in drawn}, score) : drawn \in SUBSET {w.at : w \in S} \ {{}}}

\* leaveOneAssetOut: trainRidgeQuant trains nothing, and the quant score is what is tested.
LeaveOneAssetOut(development, test) ==
    [asset \in {w.asset : w \in development \union test} |->
        LET left == {w \in test : w.asset = asset}
        IN IF Cardinality(left) < MinTestRows THEN "INSUFFICIENT_SAMPLE"
           ELSE Expectancy(left, [w \in left |-> w.quant])]

\* V0: fusion, when both learners beat the quant score on the validation rows. A quant
\* score that earned nothing, or had no rows to earn on, is beaten by anything.
Fused(S, scores) ==
    LET bar == Expectancy(S, scores["CURRENT_QUANT"])
        beats(name) == bar \in {0, NoPicks} \/ Expectancy(S, scores[name]) > bar
        blend(a) == [w \in DOMAIN scores["CONV1D"] |-> a * scores["DIRECT_PAIRWISE_RANKER"][w] + (2 - a) * scores["CONV1D"][w]]
        gain == [i \in 1..3 |-> Expectancy(S, blend(i - 1))]
    IN IF beats("DIRECT_PAIRWISE_RANKER") /\ beats("CONV1D")
       THEN scores @@ ("FUSION" :> blend(FirstBest(gain) - 1)) ELSE scores

Parts(split) == split.train \union split.validation \union split.test
Scores(split) ==
    FoldLeft(LAMBDA scores, name : scores @@ (name :> Score(name, split.train, split.validation, Parts(split))),
             <<>>, Names)
BestOn(S, scores) ==
    LET order == SelectSeq(Append(Names, "FUSION"), LAMBDA name : name \in DOMAIN scores)
    IN order[FirstBest([i \in DOMAIN order |-> Expectancy(S, scores[order[i]])])]

-----------------------------------------------------------------------------
\* The studies.

Blocked == [status |-> "BLOCKED"]
Report(S, split, scores, best) ==
    [status |-> "RESEARCH", dataset |-> S, split |-> split, best |-> best,
     earned |-> [name \in DOMAIN scores |-> Expectancy(split.test, scores[name])]]
V0(S) ==
    LET split == SplitRows(S)
        scores == Fused(split.validation, Scores(split))
    IN Report(S, split, scores, BestOn(split.validation, scores))
V1(S) ==
    LET split == FixedSplit(S)
        scores == Scores(split)
    IN Report(S, split, scores, BestOn(split.test, scores))

EpochInit ==
    /\ source \in Stores
    /\ stored = {}
    /\ studied = [study \in {"V0", "V1"} |-> NoReport]

\* The daily job stores a scan, and its candles come to cover the horizon; one scan may
\* be late.
Grow ==
    /\ \E scan \in ToSet(FirstOf(GroupByScan(source.rows \ stored), 2)) : stored' = stored \union scan
    /\ UNCHANGED <<source, studied>>

\* assertTrainable: a generation that may not be trained on ends the run.
RunStudy(study) ==
    /\ source.trainable
    /\ studied' = [studied EXCEPT ![study] =
                     IF Cardinality(stored) < MinResolved THEN Blocked
                     ELSE IF study = "V0" THEN V0(stored) ELSE V1(stored)]
    /\ UNCHANGED <<source, stored>>

EpochNext ==
    \/ Grow
    \/ \E study \in {"V0", "V1"} :
          /\ studied[study] \in {NoReport, Blocked} \/ (study = "V1" /\ stored = source.rows)
          /\ RunStudy(study)

-----------------------------------------------------------------------------
\* How much independent evidence forward outcomes are (evidence-sufficiency.js): what
\* repeats an episode, a cluster or a market counts once, missing linkage for nothing.

Distinct(S, key) == Cardinality({w[key] : w \in S} \ {NoValue})
Days(times) == IF times = {} THEN 0 ELSE Max(times) - Min(times)
Counts(ledger) ==
    LET resolved == {w \in ledger : w.resolved}
    IN [resolved |-> Cardinality(resolved), days |-> Days({w.at : w \in resolved} \ {NoValue}),
        clusters |-> Distinct(resolved, "cluster"), episodes |-> Distinct(resolved, "episode"),
        assets |-> Distinct(resolved, "asset"), strategies |-> Distinct(resolved, "strategy")]

\* EARLY, DIRECTIONAL and DECISION_USEFUL are these parts of the floors, rounded up.
Percent == <<10, 30, 100>>
TierFloor(tier, key) == Max({1, (Floors[key] * Percent[tier] + 99) \div 100})
Below(ledger, tier) == {key \in DOMAIN Floors : Counts(ledger)[key] < TierFloor(tier, key)}
Tier(ledger) == Max({0} \union {tier \in 1..3 : Below(ledger, tier) = {}})
Shortfalls(ledger) == IF Tier(ledger) = 3 THEN {} ELSE Below(ledger, Tier(ledger) + 1)

-----------------------------------------------------------------------------
Reported(study) == studied[study] \notin {NoReport, Blocked}
\* A report on the rows there are now.
Ran(study) == Reported(study) /\ studied[study].dataset = stored
Windows(S, T, window) == \A w \in S, v \in T : w.at + window <= v.at

\* The outcome window of a row never reaches the rows a later part begins with, in
\* either study and in every fold; and no fold reads the test pool.
PartsAreApart ==
    /\ Ran("V1") =>
          LET split == studied["V1"].split
              folds == WalkForwardFolds(stored)
          IN /\ Windows(split.train, split.validation, Horizon)
             /\ Windows(split.train \union split.validation, split.test, Horizon)
             /\ \A fold \in folds :
                   /\ Windows(fold.train, fold.validation, Horizon)
                   /\ Windows(fold.train \union fold.validation, split.test, Horizon)
    /\ Ran("V0") =>
          LET split == studied["V0"].split
          IN /\ Windows(split.train, split.validation, Gap)
             /\ Windows(split.train \union split.validation, split.test, Gap)

\* Neither the scores of a study nor, in V0, the model it chooses know the test rows: with
\* other outcomes in the test pool they are the same.
Otherwise(S, test) == {IF w \in test THEN [w EXCEPT !.r = -w.r, !.tp1 = ~w.tp1] ELSE w : w \in S}
ChosenBlind ==
    LET blind(split, scores, other) ==
            \A name \in DOMAIN scores : \A w \in split.test :
                other[name][[w EXCEPT !.r = -w.r, !.tp1 = ~w.tp1]] = scores[name][w]
        again(split) == Scores([split EXCEPT !.test = Otherwise(split.test, split.test)])
        best(split) == BestOn(split.validation, Fused(split.validation, again(split)))
    IN \A study \in {"V0", "V1"} : Ran(study) =>
          /\ blind(studied[study].split, Scores(studied[study].split), again(studied[study].split))
          /\ study = "V0" => best(studied[study].split) = studied[study].best

\* Every row of the test pool is in one bucket of a model, and a scan has one first.
BucketsPartition ==
    Ran("V1") =>
        LET test == studied["V1"].split.test
            quant == [w \in test |-> w.quant]
        IN /\ Bucket(test, quant, 1, 1) = Selected(test, quant)
           /\ Bucket(test, quant, 1, 1) \union Bucket(test, quant, 2, Cardinality(test)) = test
           /\ \A w, v \in test : w.at = v.at /\ w # v => Place(w, test, quant) # Place(v, test, quant)

\* The test pool of V1 never moves: a row tested once is tested by every later run.
TestStands ==
    Reported("V1") => studied'["V1"].status = "RESEARCH"
                   /\ studied["V1"].split.test \subseteq studied'["V1"].split.test

\* More outcomes never lower a tier, what is missing never raises it, and the dimensions
\* named as short hold the next one back.  "Correlated trades from one episode or cluster
\* count once", and "elapsed time never suffices by itself": however often they repeat and
\* however far apart they are, outcomes of one episode stay at the lowest tier.
Unlinked(ledger, key) == {[w EXCEPT ![key] = NoValue] : w \in ledger}
Spread(ledger) == {[w EXCEPT !.at = IF @ = NoValue THEN @ ELSE 9 * @] : w \in ledger}
EvidenceIsIndependent ==
    \A ledger \in Ledgers :
        /\ \A more \in Ledgers : ledger \subseteq more => Tier(ledger) <= Tier(more)
        /\ \A key \in {"episode", "cluster", "asset", "strategy", "at"} :
              Tier(Unlinked(ledger, key)) <= Tier(ledger)
        /\ Shortfalls(ledger) = {} <=> Tier(ledger) = 3
        /\ Distinct(ledger, "episode") <= 1 /\ Floors.episodes > 3 => Tier(Spread(ledger)) <= 1

\* Not so: groupedBootstrapCI "resamples whole scans with replacement".
DrawnWithReplacement ==
    Ran("V1") =>
        LET test == studied["V1"].split.test
            quant == [w \in test |-> w.quant]
            scan(at) == Expectancy({w \in test : w.at = at}, quant)
        IN \A a, b \in {w.at : w \in test} : (scan(a) + scan(a) + scan(b)) \div 3 \in Draws(test, quant)

\* Not so: leaveOneAssetOut "retrains on every asset but one".
LeftOutIsRetrained ==
    Ran("V1") =>
        LET split == studied["V1"].split
            development == split.train \union split.validation
        IN LeaveOneAssetOut(development, split.test)
             # LeaveOneAssetOut(Otherwise(development, development), split.test)
=============================================================================
