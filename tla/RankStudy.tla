------------------------------- MODULE RankStudy -------------------------------
(***************************************************************************)
(* The rank research suite (research/rank-research-v2.js) and its reader   *)
(* (research/run-rank-research-v2.mjs): frozen candidates are read from    *)
(* the database, audited, split into expanding folds, every model is       *)
(* trained on the past of a fold and scored on the fold, and the holdout   *)
(* can be opened once.                                                     *)
(*                                                                         *)
(* A row has one tabular feature x and one feature of its candle sequence; *)
(* scores are integers in units of 1 / Scale.  The linear models are       *)
(* fitted by least squares or by descent, the boosted ones are stumps over *)
(* two bins, and the network is one kernel with its head.                  *)
(***************************************************************************)
EXTENDS ScanRows

CONSTANTS
    Datasets,       \* what the database may hold of a generation: its rows, and whether the
                    \* registry lets it be trained on
    Horizon, Embargo,
    DevCutoff, HoldoutStart,
    NumFolds,
    MinChoiceScans,
    Lambdas,        \* the penalties tried, in order
    MaxRounds, Patience, MinLeaf,
    BlockLength,    \* length of a block of the bootstrap
    Costs,          \* round trips above the one the labels carry
    ReadBudget,     \* READ_BUDGET, in rows read
    QuerySizes,     \* rows an answer may report as read
    MaxAttempts,    \* attempts of a query
    NoValue,        \* no value
    Specs           \* the model specifications a person may register

VARIABLES
    raw,            \* the candidates the database holds for the generation
    rows,           \* those of development, as parsed
    stage,          \* what run does next, or how it ended
    attempt, reads, \* of the current query; rows read by all
    oos,            \* what each model scored in the folds done: id -> score
    done,           \* folds done
    sealed          \* the registry of consumed holdouts: the specifications

studyVars == <<raw, rows, stage, attempt, reads, oos, done, sealed>>

Scale == 12
Models == {"RANDOM", "CURRENT_QUANT", "LOGISTIC_TP1", "RIDGE_FINAL_R", "GBM_FINAL_R",
           "WITHIN_SCAN_RIDGE", "LAMBDARANK_GBM_FINAL_R", "LAMBDARANK_GBM_TP1",
           "CONV1D_MTF", "FUSION"}

-----------------------------------------------------------------------------
\* Rows and scans.

ParseRows(all, includeStale) ==
    {w \in all : /\ w.at < DevCutoff /\ w.valid /\ w.status = "RESOLVED"
                 /\ w.fresh \/ includeStale}
Leaked(all) == {w \in all : w.at >= DevCutoff}

Choice(S) == {w \in S : Cardinality(Mates(w, S)) >= 2}

CostR(w, cost) == Scale * w.r - (Scale * cost) \div w.stop

-----------------------------------------------------------------------------
\* Folds: an expanding window, and an inner slice of it for tuning.

\* Its outcome is known, an embargo before the boundary.
Known(w, boundary) == w.at + Horizon + Embargo <= boundary

WalkForwardFolds(groups) ==
    LET n == Len(groups)
        start == (2 * n) \div 5
        size == (n - start) \div NumFolds
        test(k) == SubSeq(groups, start + (k - 1) * size + 1,
                          IF k = NumFolds THEN n ELSE start + k * size)
        Fold(k) == [boundary |-> At(test(k)[1]), test |-> Flat(test(k)),
                    train |-> {w \in Flat(SubSeq(groups, 1, start + (k - 1) * size)) :
                                 Known(w, At(test(k)[1]))}]
        kept == SelectSeq([k \in 1..NumFolds |-> k], LAMBDA k : test(k) # <<>>)
    IN [i \in DOMAIN kept |-> Fold(kept[i])]

InnerSplit(train) ==
    LET groups == GroupByScan(train)
        cut == (3 * Len(groups)) \div 4
        validation == SubSeq(groups, cut + 1, Len(groups))
    IN [validation |-> Flat(validation),
        fit |-> {w \in Flat(SubSeq(groups, 1, cut)) :
                   validation # <<>> => Known(w, At(validation[1]))}]

-----------------------------------------------------------------------------
\* Learners.  z is the feature after the scaler, y the target; both map rows.

\* fitScaler, applyScaler: centred on the rows trained on; a column with too few values
\* or without variation is dropped, a missing value is the centre.
Scaled(train, on) ==
    LET present == {w \in train : w.x # NoValue}
        centre == Average([w \in present |-> Scale * w.x])
        keep == 2 * Cardinality(present) >= Cardinality(train)
                  /\ Cardinality({w.x : w \in present}) > 1
    IN [w \in on |-> IF keep /\ w.x # NoValue THEN Scale * w.x - centre ELSE 0]

\* demeanWithinGroups: a scan of one teaches nothing.
Demeaned(S, v) ==
    [w \in S |-> IF Cardinality(Mates(w, S)) < 2 THEN 0
                 ELSE v[w] - Average([u \in Mates(w, S) |-> v[u]])]

\* ridgeFit and linear; the fit within scans has no intercept.
Slope(z, y, mean, lambda) ==
    (Scale * Total([w \in DOMAIN z |-> z[w] * (y[w] - mean)]))
      \div (Total([w \in DOMAIN z |-> z[w] * z[w]]) + lambda * Scale * Scale)
RidgeFit(z, y, lambda) == [intercept |-> Average(y), weight |-> Slope(z, y, Average(y), lambda)]
FitWithin(S, z, y, lambda) ==
    [RidgeFit(Demeaned(S, z), Demeaned(S, y), lambda) EXCEPT !.intercept = 0]
Linear(model, zOn) ==
    [w \in DOMAIN zOn |-> model.intercept + (model.weight * zOn[w]) \div Scale]

\* logisticFit: gradient descent from zero at a rate of a half, the penalties in
\* sixteenths, as many steps as there are rounds; the sigmoid has three levels.
Sigmoid(v) == CASE v < 0 -> Scale \div 4 [] v = 0 -> Scale \div 2 [] OTHER -> (3 * Scale) \div 4
LogisticFit(z, y, lambda) ==
    LET error(model, w) == Sigmoid(Linear(model, z)[w]) - y[w]
        descend(model, k) ==
            [intercept |-> model.intercept - Average([w \in DOMAIN z |-> error(model, w)]) \div 2,
             weight |-> model.weight - (Average([w \in DOMAIN z |-> error(model, w) * z[w]]) \div Scale
                                          + (lambda * model.weight) \div 16) \div 2]
    IN FoldLeft(descend, [intercept |-> 0, weight |-> 0], [k \in 1..MaxRounds |-> k])

\* gbmFit's gradients and their curvature, in quarters and in sixteenths of a score: the
\* residual, or, ranked, each pair of a scan pulled apart by how far its order is wrong.
Bin(v) == IF v > 0 THEN 2 ELSE 1
Pair(w, v, y) == v.at = w.at /\ y[v] # y[w]
Heavy(w, v, y) == Min({3 * Scale, IF y[w] > y[v] THEN y[w] - y[v] ELSE y[v] - y[w]})
Rho(lead) == CASE lead < 0 -> 3 [] lead = 0 -> 2 [] OTHER -> 1
Gradients(S, z, y, score, ranked) ==
    LET lead(w, v) == score[Bin(z[w])] - score[Bin(z[v])]
        rho(w, v) == Rho(IF y[w] > y[v] THEN lead(w, v) ELSE lead(v, w))
        pairs(w) == {v \in S : Pair(w, v, y)}
    IN [w \in S |->
          IF ~ranked THEN [pull |-> 4 * (y[w] - score[Bin(z[w])]), hess |-> 16 * Scale]
          ELSE [pull |-> Total([v \in pairs(w) |->
                            (IF y[w] > y[v] THEN 1 ELSE -1) * Heavy(w, v, y) * rho(w, v)]),
                hess |-> Total([v \in pairs(w) |->
                            Heavy(w, v, y) * rho(w, v) * (4 - rho(w, v))])]]

\* fitTree with one feature in two bins: it splits where both sides are large enough and
\* the split is worth it; a leaf is the pull of its rows over their curvature and lambda,
\* at a rate of a half.  Ranked, a row without a pair is no member.
SumOf(gradient, T) ==
    [pull |-> Total([w \in T |-> gradient[w].pull]), hess |-> Total([w \in T |-> gradient[w].hess])]
Worth(sum) == (sum.pull * sum.pull) \div (sum.hess + 16 * Scale)
Leaf(sum) == (2 * Scale * sum.pull) \div (sum.hess + 16 * Scale)
Split(large, left, right, all) ==
    IF large /\ Worth(left) + Worth(right) > Worth(all) THEN <<Leaf(left), Leaf(right)>>
    ELSE <<Leaf(all), Leaf(all)>>
FitTree(S, z, gradient) ==
    LET members == {w \in S : gradient[w].hess > 0}
        side(b) == {w \in members : Bin(z[w]) = b}
    IN Split(\A b \in 1..2 : Cardinality(side(b)) >= MinLeaf, SumOf(gradient, side(1)),
             SumOf(gradient, side(2)), SumOf(gradient, members))

\* The score of either bin after each round, and of rows after some.
Moved(score, tree) == <<score[1] + tree[1], score[2] + tree[2]>>
Stages(S, z, y, ranked) ==
    LET base == IF ranked THEN 0 ELSE Average(y)
        boost(stages, k) ==
            Append(stages, Moved(stages[k], FitTree(S, z, Gradients(S, z, y, stages[k], ranked))))
    IN FoldLeft(boost, <<<<base, base>>>>, [k \in 1..MaxRounds |-> k])
Staged(S, z, y, ranked, rounds, zOn) ==
    LET last == Stages(S, z, y, ranked)[rounds + 1] IN [w \in DOMAIN zOn |-> last[Bin(zOn[w])]]

\* convFit: one kernel and its activation, a head and a bias, each row of an epoch moving
\* all of them a unit against the error, a kernel only where it is active.  Both the
\* kernel and the order of the rows come from the seed; here it is that of their ids.
Activation(model, v) == Max({0, model.kernel * v})
Output(model, v) == model.bias + model.head * Activation(model, v)
SignOf(v) == CASE v > 0 -> 1 [] v = 0 -> 0 [] OTHER -> -1
Correct(model, v, y) ==
    LET error == Output(model, v) - y
        head == model.head - SignOf(error * Activation(model, v))
    IN [bias |-> model.bias - SignOf(error), head |-> head,
        kernel |-> IF Activation(model, v) = 0 THEN model.kernel
                   ELSE model.kernel - SignOf(error * head * v)]
ConvFit(z, y, epochs) ==
    LET visited == [i \in 1..Cardinality(DOMAIN z) |->
                    CHOOSE w \in DOMAIN z : Cardinality({v \in DOMAIN z : v.id < w.id}) = i - 1]
        epoch(model, k) == FoldLeft(LAMBDA m, w : Correct(m, z[w], y[w]), model, visited)
    IN FoldLeft(epoch, [kernel |-> 1, head |-> 0, bias |-> 0], [k \in 1..epochs |-> k])
Convolved(z, y, epochs, zOn) ==
    LET model == ConvFit(z, y, epochs) IN [w \in DOMAIN zOn |-> Output(model, zOn[w])]

\* weightedPairAccuracy, twice its numerator: the denominator depends on targets alone.
Accuracy(score, y, S) ==
    Total([p \in {p \in S \X S : p[1].at = p[2].at /\ y[p[1]] > y[p[2]]} |->
           (y[p[1]] - y[p[2]]) *
                       (1 + SignOf(score[p[1]] - score[p[2]]))])
SquaredError(score, y, S) == Total([w \in S |-> (score[w] - y[w]) ^ 2])

-----------------------------------------------------------------------------
\* The model suite.

FinalR(S) == [w \in S |-> Scale * w.r]
Tp1(S) == [w \in S |-> IF w.tp1 THEN Scale ELSE 0]
Sequence(S) == [w \in S |-> w.seq]
OnTp1(name) == name \in {"LOGISTIC_TP1", "LAMBDARANK_GBM_TP1"}
TargetOf(name, S) == IF OnTp1(name) THEN Tp1(S) ELSE FinalR(S)
IsBoosted(name) == name \in {"GBM_FINAL_R", "LAMBDARANK_GBM_FINAL_R", "LAMBDARANK_GBM_TP1"}
IsRanked(name) == name \in {"LAMBDARANK_GBM_FINAL_R", "LAMBDARANK_GBM_TP1"}

\* What a model with this parameter, fitted on the features z and targets y of S, scores.
Learnt(name, S, z, y, parameter, on, zOn) ==
    CASE name = "CONV1D_MTF" -> Convolved(Sequence(S), Demeaned(S, y), parameter, Sequence(on))
      [] name = "LOGISTIC_TP1" -> Linear(LogisticFit(z, y, parameter), zOn)
      [] name = "WITHIN_SCAN_RIDGE" -> Linear(FitWithin(S, z, y, parameter), zOn)
      [] IsBoosted(name) -> Staged(S, z, y, IsRanked(name), parameter, zOn)
      [] OTHER -> Linear(RidgeFit(z, y, parameter), zOn)
\* On a part S of the training rows; the scaler has seen all of them.
Fitted(name, train, S, parameter, on) ==
    Learnt(name, S, Scaled(train, S), TargetOf(name, S), parameter, on, Scaled(train, on))

Parameters(name) ==
    IF IsBoosted(name) \/ name = "CONV1D_MTF" THEN [k \in 1..MaxRounds |-> k] ELSE Lambdas

\* The parameter that does best on the later slice of the training rows.
Judged(name, S) ==
    CASE name = "CONV1D_MTF" -> Demeaned(S, FinalR(S))
      [] IsRanked(name) -> TargetOf(name, S)
      [] OTHER -> FinalR(S)
Gain(name, score, S) ==
    IF name \in {"GBM_FINAL_R", "CONV1D_MTF"} THEN - SquaredError(score, Judged(name, S), S)
    ELSE Accuracy(score, Judged(name, S), S)
Best(name, gain) ==
    Parameters(name)[IF name = "CONV1D_MTF" THEN BestBefore(gain, Patience) ELSE FirstBest(gain)]
TunedOn(name, train, split) ==
    Best(name, [i \in DOMAIN Parameters(name) |->
                  Gain(name, Fitted(name, train, split.fit, Parameters(name)[i], split.validation),
                       split.validation)])
Tuned(name, train) == TunedOn(name, train, InnerSplit(train))

TrainModel(name, train, on) == Fitted(name, train, train, Tuned(name, train), on)

\* zscore over the rows scored together; their spread stands for the deviation.
ZScore(score) ==
    LET values == {score[w] : w \in DOMAIN score}
        spread == IF values = {} THEN 1 ELSE Max({1, Max(values) - Min(values)})
        mean == Average(score)
    IN [w \in DOMAIN score |-> (Scale * (score[w] - mean)) \div spread]
Blend(a, score) ==
    [w \in DOMAIN score["CONV1D_MTF"] |->
        a * score["WITHIN_SCAN_RIDGE"][w] + (4 - a) * score["CONV1D_MTF"][w]]
Fused(early, late, S) ==
    Blend(FirstBest([i \in 1..5 |-> Accuracy(Blend(i - 1, early), FinalR(S), S)]) - 1, late)
Parts(train, on) ==
    [name \in {"WITHIN_SCAN_RIDGE", "CONV1D_MTF"} |-> ZScore(TrainModel(name, train, on))]
FusedOn(train, split, on) ==
    Fused(Parts(split.fit, split.validation), Parts(train, on), split.validation)
FusionModel(train, on) == FusedOn(train, InnerSplit(train), on)

ScoreModel(name, train, test) ==
    CASE name = "RANDOM" -> [w \in test |-> 0]
      [] name = "CURRENT_QUANT" -> [w \in test |-> w.quant]
      [] name = "FUSION" -> FusionModel(train, test)
      [] OTHER -> TrainModel(name, train, test)

-----------------------------------------------------------------------------
\* What a model is judged by.

\* picks: rows that share the best score share the pick.
Tied(scan, score) == {w \in scan : \A v \in scan : score[v.id] <= score[w.id]}

PickR(scan, score, cost) == Average([w \in Tied(scan, score) |-> CostR(w, cost)])
Picks(S, score, cost) ==
    [i \in 1..Len(Times(S)) |-> PickR(GroupByScan(S)[i], score, cost)]

\* blockBootstrap: the totals its resamples may have.
Resampled(series) ==
    LET n == Len(series)
        blocks == (n + BlockLength - 1) \div BlockLength
        drawn(starts) == [i \in 1..n |->
            series[((starts[((i - 1) \div BlockLength) + 1] + ((i - 1) % BlockLength)) % n) + 1]]
    IN {Total(drawn(starts)) : starts \in [1..blocks -> 0..n - 1]}

Scored(S, score) == {w \in S : w.id \in DOMAIN score}
AgainstQuant(scores, name, S) ==
    LET mine == Picks(S, scores[name], 0)
        quant == Picks(S, scores["CURRENT_QUANT"], 0)
    IN [i \in DOMAIN mine |-> mine[i] - quant[i]]

\* evaluateOos: what is left without the asset picked most often, the first of them.
PickedAssets(S, score) ==
    [i \in 1..Len(Times(S)) |->
       LET tied == Tied(GroupByScan(S)[i], score)
       IN (CHOOSE w \in tied : \A v \in tied : w.id <= v.id).asset]
Dominant(assets) ==
    LET count(a) == Cardinality({i \in DOMAIN assets : assets[i] = a})
    IN assets[CHOOSE i \in DOMAIN assets : \A j \in DOMAIN assets :
                count(assets[j]) <= count(assets[i])
                  /\ (j < i => count(assets[j]) < count(assets[i]))]
Robust(S, score) ==
    LET assets == PickedAssets(S, score)
        picked == Picks(S, score, 0)
    IN Total([i \in DOMAIN picked |-> IF assets[i] = Dominant(assets) THEN 0 ELSE picked[i]]) > 0

\* acceptance.  A quantile of the resamples lies between two of them; fewer than five
\* picks have none.
Accepted(scores, name, S, folds, low, lowVsQuant) ==
    LET earned(T, cost) == Total(Picks(T, scores[name], cost))
        positive == {k \in DOMAIN folds : earned(folds[k].test, 0) > 0}
    IN /\ earned(S, 0) > 0
       /\ Len(Times(S)) >= 5 /\ low > 0 /\ lowVsQuant > 0
       /\ 5 * Cardinality(positive) >= 3 * Len(folds)
       /\ earned(S, Max(Costs)) > 0
       /\ Robust(S, scores[name])

-----------------------------------------------------------------------------
\* The run.

StudyInit ==
    /\ raw \in Datasets
    /\ rows = {} /\ stage = "count" /\ attempt = 0 /\ reads = 0
    /\ oos = [name \in Models |-> <<>>] /\ done = 0 /\ sealed = {}

After == [count |-> "load", load |-> "parse", meta |-> "context"]

\* d1: one SELECT, four attempts; the budget is looked at once the answer is there.
QueryAnswers ==
    /\ stage \in DOMAIN After
    /\ \E n \in QuerySizes : reads' = reads + n
    /\ attempt' = 0
    /\ stage' = IF reads' > ReadBudget THEN "FAILED" ELSE After[stage]
    /\ UNCHANGED <<raw, rows, oos, done, sealed>>
QueryFails ==
    /\ stage \in DOMAIN After
    /\ \/ /\ attempt + 1 < MaxAttempts
          /\ attempt' = attempt + 1 /\ UNCHANGED stage
       \/ stage' = "FAILED" /\ UNCHANGED attempt
    /\ UNCHANGED <<raw, rows, reads, oos, done, sealed>>

ParseStep ==
    /\ stage = "parse"
    /\ rows' = ParseRows(raw.rows, FALSE)
    /\ stage' = IF Leaked(raw.rows) # {} THEN "FAILED"
                ELSE IF ParseRows(raw.rows, TRUE) = {} THEN "NO_RESOLVED_DEVELOPMENT_ROWS"
                ELSE "meta"
    /\ UNCHANGED <<raw, attempt, reads, oos, done, sealed>>

\* Either context may be unavailable; the study goes on without its features.
ContextStep ==
    /\ stage = "context"
    /\ stage' = IF ~raw.trainable THEN "AUDIT_ONLY"
                ELSE IF Cardinality({w.at : w \in Choice(rows)}) < MinChoiceScans
                     THEN "INSUFFICIENT_VALID_DATA"
                ELSE "folds"
    /\ UNCHANGED <<raw, rows, attempt, reads, oos, done, sealed>>

Plan == WalkForwardFolds(GroupByScan(rows))
WalkForward ==
    /\ stage = "folds" /\ done < Len(Plan)
    /\ LET fold == Plan[done + 1]
       IN oos' = [name \in Models |->
                    LET scores == ScoreModel(name, fold.train, fold.test)
                    IN [id \in {w.id : w \in fold.test} |->
                          scores[CHOOSE w \in fold.test : w.id = id]] @@ oos[name]]
    /\ done' = done + 1
    /\ stage' = IF done' = Len(Plan) THEN "COMPLETE" ELSE stage
    /\ UNCHANGED <<raw, rows, attempt, reads, sealed>>

\* consumeHoldout: a person, once.
ConsumeHoldout(spec, confirm) ==
    /\ confirm /\ spec \in Specs /\ sealed = {}
    /\ sealed' = {spec}
    /\ UNCHANGED <<raw, rows, stage, attempt, reads, oos, done>>

StudyNext ==
    \/ QueryAnswers \/ QueryFails \/ ParseStep \/ ContextStep \/ WalkForward
    \/ \E spec \in Specs, confirm \in BOOLEAN : stage = "COMPLETE" /\ ConsumeHoldout(spec, confirm)

-----------------------------------------------------------------------------
\* A score is settled before its fold is known: rows whose outcome or whose embargo
\* reaches the fold may end otherwise, the fold's own among them, and every model scores
\* the fold as it did.
Relabelled(S, boundary) ==
    {IF w.at + Horizon + Embargo <= boundary THEN w ELSE [w EXCEPT !.r = -w.r, !.tp1 = ~w.tp1] : w \in S}
TestsAreUnread(k) ==
    LET fold == WalkForwardFolds(GroupByScan(Relabelled(rows, Plan[k].boundary)))[k]
    IN \A name \in Models : LET again == ScoreModel(name, fold.train, fold.test)
                            IN \A w \in fold.test : again[w] = oos[name][w.id]

\* The parameters of a model are settled before the slice that settles them: nothing the
\* inner fit learnt from overlaps it, and the slice is part of the training rows.
TuningIsPurged(k) ==
    LET split == InnerSplit(Plan[k].train)
    IN /\ split.fit \union split.validation \subseteq Plan[k].train
       /\ \A w \in split.fit, v \in split.validation :
              w.at + Horizon + Embargo <= v.at

\* What moves a whole scan teaches a within-scan model nothing.
SharedMovesCancel(k) ==
    LET moved == {[w EXCEPT !.r = w.r + w.at] : w \in Plan[k].train}
    IN \A name \in {"WITHIN_SCAN_RIDGE", "CONV1D_MTF"} :
          LET again == TrainModel(name, moved, Plan[k].test)
          IN \A w \in Plan[k].test : again[w] = oos[name][w.id]

\* Of the fold scored last.
LastFoldIsFair ==
    done > 0 => TestsAreUnread(done) /\ TuningIsPurged(done) /\ SharedMovesCancel(done)

\* Every scan from the first fold on is tested once, by every model.
FoldsCover ==
    LET groups == GroupByScan(rows)
        tested == Flat(SubSeq(groups, (2 * Len(groups)) \div 5 + 1, Len(groups)))
    IN \A name \in Models : DOMAIN oos[name] = {w.id : w \in tested}

\* No model gains from the names of the candidates: under any other naming of a scan the
\* picks are worth the same, and a model that scores nothing earns the mean of each scan.
TiesAreShared ==
    \A name \in Models : \A scan \in ToSet(GroupByScan(Scored(rows, oos[name]))) :
        LET renamed == {[w EXCEPT !.id = 1000 - w.id] : w \in scan}
            score == [id \in {w.id : w \in renamed} |-> oos[name][1000 - id]]
        IN /\ PickR(renamed, score, 0) = PickR(scan, oos[name], 0)
           /\ name = "RANDOM" => PickR(scan, oos[name], 0) = Average([w \in scan |-> CostR(w, 0)])

\* A model that picks what the quant score picks is never accepted, wherever the
\* quantiles of the bootstrap fall.
NoFreePromotion ==
    \A name \in Models \ {"CURRENT_QUANT"} :
        LET S == Scored(rows, oos[name])
            against == AgainstQuant(oos, name, S)
        IN (\A i \in DOMAIN against : against[i] = 0) =>
              \A low \in Resampled(Picks(S, oos[name], 0)), lowVsQuant \in Resampled(against) :
                  ~Accepted(oos, name, S, Plan, low, lowVsQuant)

\* Models are scored on rows of a trainable generation that were fresh and before the
\* cutoff, enough of them to choose between; what was not answered is not studied.
OnlyValidRows ==
    done > 0 =>
        /\ raw.trainable /\ reads <= ReadBudget /\ Leaked(raw.rows) = {}
        /\ Cardinality({w.at : w \in Choice(rows)}) >= MinChoiceScans
        /\ \A w \in rows : w.fresh /\ w.at + Horizon + Embargo <= HoldoutStart

ReportIsFair == stage = "COMPLETE" => FoldsCover /\ TiesAreShared /\ NoFreePromotion
StudyIsFair == OnlyValidRows /\ (stage \in {"folds", "COMPLETE"} /\ sealed = {} => LastFoldIsFair)

\* The holdout is opened for one specification, and that is not taken back.
OpenedOnce == sealed # {} => sealed' = sealed
=============================================================================
