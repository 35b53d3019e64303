-------------------------- MODULE DatasetExpansion --------------------------
(***************************************************************************)
(* The expanded research dataset: one job per asset generates its rows     *)
(* (research/dataset-expansion/generate-asset.mjs, with the frozen         *)
(* generator research/historical-rank-v2-clean.js), and one job assembles  *)
(* the assets and stops when the rows of the old dataset are not           *)
(* reproduced or a later candle leaked (build-expanded.mjs).               *)
(*                                                                         *)
(* Time is counted in slots: a frame of an archive maps a slot to a price, *)
(* 0 where the candle is missing, and a scan at ts sees the slots before   *)
(* it.  What the shared quant engine makes of a window is the direction    *)
(* from its first to its last price, scored by the last one.               *)
(***************************************************************************)
EXTENDS Integers, Sequences, SequencesExt, FiniteSets, FiniteSetsExt

CONSTANTS
    OldAssets, NewAssets,
    AssetOrder,     \* all of them, in the order of their names
    Archives,       \* the archives an asset may have: [m5, d1, manifest]
    Recorded,       \* the archives the old dataset may have been made from
    Depth,          \* PRODUCTION_BARS of every frame
    OutcomeBars,    \* OUTCOME_BARS
    Risk,           \* distance from the entry to the stop
    Scans,          \* scanGrid
    DevCutoff, HoldoutStart,    \* an outcome begun before the first ends by the second
    MinDevCandidates, PitSample,
    NoValue         \* not there

VARIABLES
    archive,        \* what was fetched for each asset
    old,            \* the rows of the old dataset, as recorded
    output,         \* each job's rows and counts, NoValue before it ran
    dataset,        \* the rows assembled, NoValue before
    report          \* "none", or how the assembling ended

expansionVars == <<archive, old, output, dataset, report>>
Assets == OldAssets \union NewAssets

-----------------------------------------------------------------------------
\* One asset at one scan.

Present(frame) == {s \in DOMAIN frame : frame[s] # 0}
InOrder(S) ==
    IF S = {} THEN <<>> ELSE SelectSeq([i \in 1..Max(S) + 1 |-> i - 1], LAMBDA s : s \in S)
Before(frame, ts) == {s \in Present(frame) : s < ts}
WindowSlots(frame, ts) ==
    LET past == Before(frame, ts)
    IN {s \in past : Cardinality({u \in past : u >= s}) <= Depth}

\* What is wrong with one frame, in the order of the tests.
FrameFault(name, frame, ts) ==
    LET slots == WindowSlots(frame, ts)
    IN IF Cardinality(slots) < Depth THEN <<name, "INSUFFICIENT">>
       ELSE IF Max(slots) # ts - 1 THEN <<name, "NOT_FRESH">>
       ELSE IF Max(slots) - Min(slots) # Depth - 1 THEN <<name, "GAP">>
       ELSE <<>>
HistoryCheck(a, ts) ==
    IF ts - 1 \notin Present(a.m5) THEN <<"m5", "LATEST_MISSING">>
    ELSE IF FrameFault("m5", a.m5, ts) # <<>> THEN FrameFault("m5", a.m5, ts)
    ELSE FrameFault("d1", a.d1, ts)

Candidate(asset, name, frame, ts) ==
    LET slots == WindowSlots(frame, ts)
        first == frame[Min(slots)]
        last == frame[Max(slots)]
    IN [asset |-> asset, at |-> ts, strategy |-> name,
        direction |-> CASE last > first -> "long" [] last < first -> "short" [] OTHER -> "none",
        score |-> last, closed |-> Max(slots) + 1]
AssetCandidates(asset, a, ts) ==
    {Candidate(asset, "m5", a.m5, ts), Candidate(asset, "d1", a.d1, ts)}
Valid(row) == row.direction # "none"

\* resolveStrict: no outcome across a missing candle before the exit.
ResolveStrict(row, a) ==
    LET path == row.at..row.at + OutcomeBars - 1
        sign == IF row.direction = "long" THEN 1 ELSE -1
        moved(s) == sign * (a.m5[s] - a.m5[row.at])
        gaps == path \ Present(a.m5)
        stops == {s \in path \ gaps : moved(s) <= -Risk}
    IN IF row.at \in gaps THEN [status |-> "ENTRY_CANDLE_MISSING", r |-> 0]
       ELSE IF stops # {} /\ (gaps = {} \/ Min(stops) < Min(gaps)) THEN [status |-> "RESOLVED", r |-> -Risk]
       ELSE IF gaps # {} THEN [status |-> "OUTCOME_CANDLE_MISSING", r |-> 0]
       ELSE [status |-> "RESOLVED", r |-> moved(Max(path))]

Development(ts) == ts < DevCutoff

-----------------------------------------------------------------------------
\* The job of one asset.

\* prepare(until): the archive as it was then.
Truncated(a, until) ==
    [a EXCEPT !.m5 = [s \in DOMAIN @ |-> IF s + 1 <= until THEN @[s] ELSE 0],
              !.d1 = [s \in DOMAIN @ |-> IF s + 1 <= until THEN @[s] ELSE 0]]

Labelled(row, a) ==
    [row |-> row,
     label |-> IF Valid(row) THEN ResolveStrict(row, a) ELSE [status |-> "NOT_RANKABLE", r |-> 0]]
Generated(asset, a) ==
    UNION {{Labelled(row, a) : row \in AssetCandidates(asset, a, ts)} :
             ts \in {t \in Scans : Development(t) /\ HistoryCheck(a, t) = <<>>}}
Rankable(rows) == {x \in rows : Valid(x.row)}

\* Every so many scans with a candidate, at most PitSample of them.
Sampled(rows) ==
    LET scans == InOrder({x.row.at : x \in Rankable(rows)})
        every == Max({1, Len(scans) \div PitSample})
        chosen == SelectSeq([i \in 1..Len(scans) |-> <<i - 1, scans[i]>>],
                            LAMBDA p : p[1] % every = 0)
    IN {chosen[i][2] : i \in 1..Min({Len(chosen), PitSample})}
Regenerated(asset, a, ts) ==
    IF HistoryCheck(Truncated(a, ts), ts) = <<>>
    THEN AssetCandidates(asset, Truncated(a, ts), ts) ELSE {}
Mismatches(asset, a, rows) ==
    {ts \in Sampled(rows) : Regenerated(asset, a, ts) # {x.row : x \in {y \in rows : y.row.at = ts}}}

\* Scans from the holdout on, and of the embargo, are counted and never stored.
Counted(a) ==
    LET eligible(S) == Cardinality({ts \in S : HistoryCheck(a, ts) = <<>>})
    IN [holdout |-> eligible({ts \in Scans : ts >= HoldoutStart}),
        embargo |-> eligible({ts \in Scans : ~Development(ts) /\ ts < HoldoutStart})]

\* HOLDOUT_BREACH ends the job before anything is written.
Breach(rows) == \E x \in Rankable(rows) : x.row.at + OutcomeBars > HoldoutStart

GenerateAsset(asset) ==
    LET rows == Generated(asset, archive[asset])
    IN /\ output[asset] = NoValue /\ report = "none"
       /\ ~Breach(rows)
       /\ output' = [output EXCEPT ![asset] =
                       [rows |-> rows, counted |-> Counted(archive[asset]),
                        mismatches |-> Mismatches(asset, archive[asset], rows)]]
       /\ UNCHANGED <<archive, old, dataset, report>>

-----------------------------------------------------------------------------
\* Assembling.

Usable(a) ==
    LET first == Min(Present(a.m5))
        expected == Cardinality({s \in DOMAIN a.m5 : s >= first})
    IN /\ a.manifest = "clean" /\ Present(a.m5) # {}
       /\ Cardinality(Present(a.m5)) * 100 >= 99 * expected

Done == {asset \in Assets : output[asset] # NoValue}
Included ==
    OldAssets \union
      {asset \in Done \ OldAssets :
         /\ Usable(archive[asset])
         /\ Cardinality(Rankable(output[asset].rows)) >= MinDevCandidates
         /\ output[asset].mismatches = {}}

\* finalizeCandidates: the rankable rows of a scan by score, asset, strategy, direction.
Place(asset) == CHOOSE i \in DOMAIN AssetOrder : AssetOrder[i] = asset
Ahead(x, y) ==
    \/ x.score > y.score
    \/ x.score = y.score /\ Place(x.asset) < Place(y.asset)
    \/ x.score = y.score /\ x.asset = y.asset /\ x.strategy = "d1" /\ y.strategy = "m5"
Rank(x, rows) ==
    IF ~Valid(x.row) THEN 0
    ELSE 1 + Cardinality({y \in Rankable(rows) : y.row.at = x.row.at /\ Ahead(y.row, x.row)})
Finalized(rows) == {[row |-> x.row, label |-> x.label, rank |-> Rank(x, rows)] : x \in rows}
AllRows == UNION {output[asset].rows : asset \in Included}

\* parseRows: what a study reads of a dataset.
Parsed(rows) ==
    {x \in Rankable(rows) : x.label.status = "RESOLVED" /\ Development(x.row.at)}

\* The reproduction gate: no old row missing or changed, and none the old data lacks.
Key(x) == <<x.row.at, x.row.asset, x.row.strategy, x.row.direction>>
OfOld(rows) == {x \in rows : x.row.asset \in OldAssets}
Changed(was, now) ==
    {x \in was : ~\E y \in now : Key(y) = Key(x) /\ y.row.score = x.row.score /\ y.label.r = x.label.r}

Extra(was, now) == {y \in now : ~\E x \in was : Key(x) = Key(y)}

ReproductionPass ==
    LET now == OfOld(Parsed(AllRows)) IN Changed(old, now) = {} /\ Extra(old, now) = {}
LeakagePass ==
    /\ \A x \in AllRows : Development(x.row.at)
    /\ \A x \in Rankable(AllRows) :
          x.row.closed = x.row.at /\ x.row.at + OutcomeBars <= HoldoutStart
    /\ \A asset \in Included : output[asset].mismatches = {}

\* The dataset is written before the gates are asked.
BuildExpanded ==
    /\ report = "none" /\ OldAssets \subseteq Done
    /\ dataset' = Finalized(AllRows)
    /\ report' = IF ~LeakagePass THEN "LEAKAGE_FAIL_STOPPED"
                 ELSE IF ~ReproductionPass THEN "REPRODUCTION_FAIL_STOPPED"
                 ELSE "COMPLETE"
    /\ UNCHANGED <<archive, old, output>>

\* OLD_ASSET_OUTPUT_MISSING: a job of an old asset is lost.
BuildThrows ==
    /\ report = "none" /\ ~(OldAssets \subseteq Done)
    /\ report' = "THROWN"
    /\ UNCHANGED <<archive, old, output, dataset>>

ExpansionInit ==
    /\ archive \in [Assets -> Archives]
    /\ \E was \in [OldAssets -> Recorded] :
          old = Parsed(UNION {Generated(asset, was[asset]) : asset \in OldAssets})
    /\ output = [asset \in Assets |-> NoValue]
    /\ dataset = NoValue /\ report = "none"

ExpansionNext ==
    \/ \E asset \in Assets : GenerateAsset(asset)
    \/ BuildExpanded \/ BuildThrows

-----------------------------------------------------------------------------
\* Reading the result.

\* diversityMetrics: a scan offers a choice when two resolved rows meet in it.
AtScan(rows, ts) == {x \in rows : x.row.at = ts}
ChoiceScans(rows) == {ts \in Scans : Cardinality(AtScan(rows, ts)) >= 2}

\* diversityValue: the scans an asset turns into a choice the old assets did not offer;
\* labels are stripped before.
TurnsIntoChoice(asset, rows) ==
    {ts \in Scans :
        LET own == {x \in AtScan(rows, ts) : x.row.asset = asset}
            was == OfOld(AtScan(rows, ts))
        IN own # {} /\ Cardinality(was) <= 1 /\ Cardinality(own) + Cardinality(was) >= 2}

\* regimeClassifier over the daily closes: the trend and the latest move of the days
\* closed by ts, the move compared with the median over every development scan.
Closed(daily, ts) == InOrder({s \in Present(daily) : s + 1 <= ts})
Trend(daily, ts) ==
    LET s == Closed(daily, ts)
        n == Len(s)
    IN IF n < Depth THEN "UNKNOWN"
       ELSE CASE daily[s[n]] > daily[s[n - Depth + 1]] -> "BULL"
              [] daily[s[n]] < daily[s[n - Depth + 1]] -> "BEAR"
              [] OTHER -> "SIDEWAYS"
Move(daily, ts) ==
    LET s == Closed(daily, ts)
        n == Len(s)
        d == daily[s[n]] - daily[s[n - 1]]
    IN IF d < 0 THEN -d ELSE d
Volatility(daily, ts, scans) ==
    LET known == SelectSeq(InOrder(scans), LAMBDA t : Len(Closed(daily, t)) >= Depth)
        moves == SortSeq([i \in 1..Len(known) |-> Move(daily, known[i])], <)
        n == Len(moves)
    IN IF Len(Closed(daily, ts)) < Depth THEN "UNKNOWN"
       ELSE IF 2 * Move(daily, ts) > moves[(n + 1) \div 2] + moves[(n + 2) \div 2]
            THEN "HIGH_VOL" ELSE "LOW_VOL"

-----------------------------------------------------------------------------
\* Nothing of the holdout reaches a stored row: an archive that differs only from the
\* holdout on yields the same rows with the same labels and the same exclusions.
HoldoutUnread ==
    \A asset \in Done : \A other \in Archives :
        (\A s \in DOMAIN other.m5 : s < HoldoutStart =>
            other.m5[s] = archive[asset].m5[s] /\ other.d1[s] = archive[asset].d1[s])
        => Generated(asset, other) = output[asset].rows

\* The rows of a scan are those its day could have produced.
PointInTime == \A asset \in Done : output[asset].mismatches = {}

\* The ranks of a scan are 1 to n, and adding assets changes of an old row nothing but
\* its rank, nor the order among the old rows.
OldRowsKept ==
    dataset # NoValue =>
        /\ \A asset \in OldAssets :
              {[row |-> x.row, label |-> x.label] : x \in {y \in dataset : y.row.asset = asset}}
                = output[asset].rows
        /\ \A ts \in Scans : LET ranked == {x \in dataset : x.row.at = ts /\ x.rank > 0}
                             IN {x.rank : x \in ranked} = 1..Cardinality(ranked)
        /\ \A x, y \in {z \in dataset : z.row.asset \in OldAssets /\ z.rank > 0} :
              x.row.at = y.row.at =>
                 (x.rank < y.rank <=> Rank(x, OfOld(AllRows)) < Rank(y, OfOld(AllRows)))

\* A complete report rests on the old dataset, row for row, on regenerated rows alone,
\* and on candles that closed at their scan.
CompleteIsReproduced ==
    report = "COMPLETE" =>
        /\ {<<Key(x), x.row.score, x.label.r>> : x \in Parsed(OfOld(dataset))}
             = {<<Key(x), x.row.score, x.label.r>> : x \in old}
        /\ \A x \in dataset : x.rank > 0 => x.row.closed = x.row.at

\* What the outcome-free check promises of an asset, the assembled data deliver.
ChoicesAreReal ==
    report = "COMPLETE" =>
        \A asset \in Included \ OldAssets :
            TurnsIntoChoice(asset, Rankable(AllRows)) \subseteq ChoiceScans(Rankable(dataset))

\* A scan's trend is settled by the days closed by it.
TrendIsPointInTime ==
    \A asset \in OldAssets : \A ts \in Scans :
        Trend(archive[asset].d1, ts) = Trend(Truncated(archive[asset], ts).d1, ts)

\* "Point-in-time: only bars that closed at or before the scan timestamp are used"
\* (expansion.js): the volatility half is not, its median is taken over all scans.
RegimeIsPointInTime ==
    \A asset \in OldAssets : \A ts \in {t \in Scans : Development(t)} :
        Volatility(archive[asset].d1, ts, {t \in Scans : Development(t)})
          = Volatility(Truncated(archive[asset], ts).d1, ts, {t \in Scans : Development(t) /\ t <= ts})

ExpansionHolds ==
    /\ HoldoutUnread /\ PointInTime /\ OldRowsKept
    /\ CompleteIsReproduced /\ ChoicesAreReal /\ TrendIsPointInTime
=============================================================================
