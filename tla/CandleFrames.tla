---------------------------- MODULE CandleFrames ----------------------------
(***************************************************************************)
(* Every reader of market data turns raw rows into completed candles and   *)
(* builds the higher timeframes from them.  The code does so in six places *)
(* (research-engine.js, replay-engine.js, quant-engine.js,                 *)
(* backend/monitor-core.mjs, backend/scan-core.mjs and                     *)
(* research/candle-archive.js) which must agree, and none of which may let *)
(* a signal see a candle that had not closed.                              *)
(*                                                                         *)
(* Time is in minutes, so a base candle lasts Base = 5 and the tolerance   *)
(* of 120 s (60 s) for a clock that runs ahead is 2 (1).  A row keeps one  *)
(* price for its open, high, low and close; a price of 0 stands for a row  *)
(* whose values fail the OHLC checks.                                      *)
(***************************************************************************)
EXTENDS Naturals, Sequences, SequencesExt, FiniteSetsExt

CONSTANTS
    Base,           \* minutes of a base candle
    Target,         \* minutes of a higher timeframe
    Rows,           \* the rows a venue may deliver
    Clocks,         \* the instants at which a reader looks
    MaxRows         \* bound: rows delivered

VARIABLE rows       \* the rows delivered, in the order of delivery

Init == rows = <<>>

\* A venue may repeat a candle, revise it, skip one or deliver out of order.
Deliver(row) ==
    /\ Len(rows) < MaxRows
    /\ rows' = Append(rows, row)

Next == \E row \in Rows : Deliver(row)

-----------------------------------------------------------------------------
\* What the readers accept.

Positive(row) == row.price > 0
OnGrid(row) == row.time % Base = 0
Closed(row, now) == row.time + Base <= now
ByTime(s) == SortSeq(s, LAMBDA a, b : a.time < b.time)
Ordered(s) == \A i \in 1..Len(s) - 1 : s[i].time <= s[i + 1].time
Steps(s) == {s[i + 1].time - s[i].time : i \in 1..Len(s) - 1}

\* inspectDataset: one pass that skips a faulty row and remembers the fault.
InspectStep(acc, row, asOf) ==
    IF \/ row.time > asOf + 2
       \/ row.time \in acc.seen
       \/ acc.candles # <<>> /\ row.time <= Last(acc.candles).time
       \/ ~Positive(row)
    THEN [acc EXCEPT !.faulty = TRUE]
    ELSE [acc EXCEPT !.seen = @ \union {row.time},
                     !.candles = IF Closed(row, asOf) THEN Append(@, row) ELSE @]

Inspected(s, asOf) ==
    FoldLeft(LAMBDA acc, row : InspectStep(acc, row, asOf),
             [seen |-> {}, candles |-> <<>>, faulty |-> FALSE], s)

\* Two candles less than an interval apart are an error as well.
Rejects(s, asOf) ==
    LET seen == Inspected(s, asOf)
    IN seen.faulty \/ \E step \in Steps(seen.candles) : step < Base

\* normalizeBinanceKlines: the same checks but for the order, and a sort.
NormalizeStepForming(acc, row, now) ==
    IF row.time > now + 1 \/ row.time \in acc.seen \/ ~Positive(row)
    THEN [acc EXCEPT !.faulty = TRUE]
    ELSE [acc EXCEPT !.seen = @ \union {row.time}, !.candles = Append(@, row)]
NormalizeStep(acc, row, now) ==
    IF row.time > now + 1 \/ row.time \in acc.seen \/ ~Positive(row)
    THEN [acc EXCEPT !.faulty = TRUE]
    ELSE [acc EXCEPT !.seen = @ \union {row.time},
                     !.candles = IF Closed(row, now) THEN Append(@, row) ELSE @]

Normalized(s, now) ==
    LET read == FoldLeft(LAMBDA acc, row : NormalizeStep(acc, row, now),
                         [seen |-> {}, candles |-> <<>>, faulty |-> FALSE], s)
        candles == ByTime(read.candles)
    IN [candles |-> candles,
        invalid |-> read.faulty \/ \E step \in Steps(candles) : step < Base]

\* validateSeries: the first row of an instant is kept, defects are counted.
Archivable(s, now) ==
    SelectSeq(s, LAMBDA row : Positive(row) /\ OnGrid(row) /\ Closed(row, now))
FirstOfItsTime(s) ==
    FoldLeft(LAMBDA kept, row :
                 IF \E k \in Range(kept) : k.time = row.time THEN kept ELSE Append(kept, row),
             <<>>, s)
ValidateSeries(s, now) == ByTime(FirstOfItsTime(Archivable(s, now)))

\* completedCandles of a scan: filter and sort, duplicates stay; validateCandles
\* of the quant engine then refuses them.
CompletedCandles(s, now) ==
    ByTime(SelectSeq(s, LAMBDA row : Positive(row) /\ Closed(row, now)))
ValidateCandles(s) == \A i, j \in 1..Len(s) : i # j => s[i].time # s[j].time

\* presenceIndex(...).missing(from, to): slots absent from the archive, by the
\* prefix sums between the two clamped ends.
ClampedAtLast(t, s) == Max({Head(s).time, Min({t, Last(s).time})})
Clamped(t, s) == Max({Head(s).time, Min({t, Last(s).time + Base})})
Missing(s, from, to) ==
    LET expected == (to - from) \div Base
        present == Cardinality({row \in Range(s) :
                        Clamped(from, s) <= row.time /\ row.time < Clamped(to, s)})
    IN expected - present

-----------------------------------------------------------------------------
\* The higher timeframes.

Bucket(row) == (row.time \div Target) * Target
Exact(start, bucket) ==
    /\ Len(bucket) = Target \div Base
    /\ \A i \in 1..Len(bucket) : bucket[i].time = start + (i - 1) * Base
Merge(start, bucket) ==
    LET prices == {bucket[i].price : i \in 1..Len(bucket)}
    IN [time |-> start, open |-> Head(bucket).price, high |-> Max(prices),
        low |-> Min(prices), close |-> Last(bucket).price]

\* aggregateCandles (research-engine.js) and aggregateCompleted (monitor-core):
\* whole buckets, closed by asOf, with every base candle exactly once.
AggregateCandles(s, asOf) ==
    LET closed == SelectSeq(s, LAMBDA row : Closed(row, asOf) /\ Bucket(row) + Target <= asOf)
        starts == SetToSortSeq({Bucket(row) : row \in Range(closed)}, <)
        of(start) == ByTime(SelectSeq(closed, LAMBDA row : Bucket(row) = start))
        whole == SelectSeq(starts, LAMBDA start : Exact(start, of(start)))
    IN [i \in 1..Len(whole) |-> Merge(whole[i], of(whole[i]))]

\* aggregateDerived (replay-engine.js): one pass over ordered rows.
NoBucket == [time |-> 0, next |-> 0, count |-> 0, valid |-> FALSE,
             open |-> 0, high |-> 0, low |-> 0, close |-> 0]
Flush(bucket, out) ==
    IF bucket.valid /\ bucket.count = Target \div Base
    THEN Append(out, [f \in {"time", "open", "high", "low", "close"} |-> bucket[f]])
    ELSE out
Enter(bucket, row) ==
    IF bucket.count = 0 \/ bucket.time # Bucket(row)
    THEN [time |-> Bucket(row), next |-> Bucket(row), count |-> 0, valid |-> TRUE,
          open |-> row.price, high |-> row.price, low |-> row.price, close |-> row.price]
    ELSE [bucket EXCEPT !.high = Max({@, row.price}), !.low = Min({@, row.price}),
                        !.close = row.price]
DerivedStepCounting(acc, row) ==
    LET entered == Enter(acc.bucket, row)
        leaves == acc.bucket.count > 0 /\ acc.bucket.time # entered.time
    IN [out |-> IF leaves THEN Flush(acc.bucket, acc.out) ELSE acc.out,
        bucket |-> [entered EXCEPT !.next = @ + Base, !.count = @ + 1]]
DerivedStep(acc, row) ==
    LET entered == Enter(acc.bucket, row)
        leaves == acc.bucket.count > 0 /\ acc.bucket.time # entered.time
    IN [out |-> IF leaves THEN Flush(acc.bucket, acc.out) ELSE acc.out,
        bucket |-> [entered EXCEPT !.valid = @ /\ row.time = entered.next,
                                   !.next = @ + Base, !.count = @ + 1]]
AggregateDerived(s) ==
    LET read == FoldLeft(DerivedStep, [out |-> <<>>, bucket |-> NoBucket], s)
    IN Flush(read.bucket, read.out)

\* resampleFourHours (scan-core): the same buckets, but a bucket that misses a
\* base candle is kept.
ResampleForming(s, now) ==
    LET closed == ByTime(SelectSeq(s, LAMBDA row : Closed(row, now)))
        starts == SetToSortSeq({Bucket(row) : row \in Range(closed)}, <)
    IN [i \in 1..Len(starts) |->
           Merge(starts[i], SelectSeq(closed, LAMBDA row : Bucket(row) = starts[i]))]
ResampleFourHours(s, now) ==
    LET closed == ByTime(SelectSeq(s, LAMBDA row : Closed(row, now)))
        starts == SetToSortSeq({Bucket(row) : row \in Range(closed)}, <)
        over == SelectSeq(starts, LAMBDA start : start + Target <= now)
    IN [i \in 1..Len(over) |->
           Merge(over[i], SelectSeq(closed, LAMBDA row : Bucket(row) = over[i]))]

\* snapshot: built anew at every instant; cachedSnapshot: a prefix, found by
\* bisection, of frames derived once from the whole history.
Snapshot(s, asOf) ==
    LET m5 == SelectSeq(s, LAMBDA row : Closed(row, asOf))
    IN [m5 |-> m5, higher |-> AggregateCandles(m5, asOf)]

OpenedPrefix(s, interval, asOf) ==
    SubSeq(s, 1, Cardinality({i \in 1..Len(s) : s[i].time <= asOf}))
CompletedPrefix(s, interval, asOf) ==
    SubSeq(s, 1, Cardinality({i \in 1..Len(s) : s[i].time + interval <= asOf}))
CachedSnapshot(s, asOf) ==
    LET m5 == IF Ordered(s) THEN s ELSE ByTime(s)
    IN [m5 |-> CompletedPrefix(m5, Base, asOf),
        higher |-> CompletedPrefix(AggregateDerived(m5), Target, asOf)]

-----------------------------------------------------------------------------
OnGridRows == \A row \in Range(rows) : OnGrid(row)

\* The comment of aggregateDerived: its candles are "deliberately identical to
\* Research.aggregateCandles" at the end of time, whatever was delivered:
\* duplicates, holes and off-grid rows included.
DerivedIsAggregate ==
    AggregateDerived(ByTime(rows)) = AggregateCandles(rows, Max(Clocks) + Target)

\* A replay that reuses frames derived from the whole history sees at every
\* instant what a snapshot built at that instant would have seen.
CachedIsSnapshot ==
    OnGridRows /\ Ordered(rows) =>
        \A now \in Clocks : CachedSnapshot(rows, now) = Snapshot(rows, now)

\* The dataset inspector, the monitor and the archive agree on every series the
\* inspector accepts; what it rejects for its order alone the others repair.
ReadersAgree ==
    \A now \in Clocks :
        ~Rejects(rows, now) /\ OnGridRows =>
            /\ ~(\E row \in Range(rows) : row.time > now + 1) => ~Normalized(rows, now).invalid
            /\ Normalized(rows, now).candles = Inspected(rows, now).candles
            /\ ValidateSeries(rows, now) = Inspected(rows, now).candles
            /\ ValidateCandles(CompletedCandles(rows, now))

\* The constant-time index of the archive counts exactly the absent slots,
\* before its first and after its last candle too.
MissingIsExact ==
    LET clean == ValidateSeries(rows, Max(Clocks))
        slots == {t \in 0..Max(Clocks) : t % Base = 0}
    IN clean # <<>> =>
        \A from, to \in slots :
            from < to => Missing(clean, from, to)
                = Cardinality({t \in slots : from <= t /\ t < to /\ ~\E row \in Range(clean) : row.time = t})

\* Where no base candle is missing the scan's four-hour frame is the replay's.
ResampleIsAggregate ==
    \A now \in Clocks :
        LET whole == ValidateSeries(rows, now)
            complete == whole # <<>> =>
                /\ Head(whole).time % Target = 0
                /\ Missing(whole, Head(whole).time, (now \div Base) * Base) = 0
        IN complete => ResampleFourHours(whole, now) = AggregateCandles(whole, now)

\* A row delivered later changes nothing a reader saw before that row closed.
LaterRowsAreUnseen ==
    [][\A now \in Clocks :
          rows' # rows /\ OnGridRows' /\ ~Closed(Last(rows'), now) =>
              /\ CachedSnapshot(rows', now) = CachedSnapshot(rows, now)
              /\ ResampleFourHours(rows', now) = ResampleFourHours(rows, now)]_rows
=============================================================================
