--------------------------- MODULE TradeOutcomes ---------------------------
(***************************************************************************)
(* What a paper trade is judged to have made.  Five programs judge one:    *)
(* the browser's forward ledger (forward-engine.js), which the shadow      *)
(* resolver calls, the backtest (quant-engine.js), the historical rank     *)
(* pilot (historical-rank.js), the replay (replay-core.mjs) and the clean  *)
(* data set (historical-rank-v2-clean.js).  Each walks the candles after   *)
(* the entry, tests the stop first, banks half at TP1, moves the stop to   *)
(* the entry and gives up after MaxBars candles; each has its own loop.    *)
(*                                                                         *)
(* A price is its distance from the entry in halves of R, positive in the  *)
(* favourable direction, so a long and a short are one case; what a trade  *)
(* makes is in quarters of R.  The round-trip cost, which every program    *)
(* subtracts once, and MFE and MAE, which no verdict reads, are left out.  *)
(***************************************************************************)
EXTENDS Integers, Sequences, SequencesExt

CONSTANTS
    Levels,        \* prices a candle can reach
    Rr,            \* the reward of TP1, in R
    MaxBars        \* candles a trade is held: 30, 288 for the data sets

VARIABLES
    feed,          \* completed candles since the entry
    forming,       \* the candle the market is drawing, or NoCandle
    settled        \* the ledger's outcome of the trade, and whether its last candle was forming

vars == <<feed, forming, settled>>

Stop == -2
Tp1 == 2 * Rr
Tp2 == 2 * (IF Rr + 1 >= 3 THEN Rr + 1 ELSE 3)
Lost == 2 * Stop
Banked == Tp1                      \* half the position at TP1
Full == Tp1 + Tp2                  \* half at TP1 and half at TP2

Candle == {c \in [low : Levels, high : Levels, close : Levels] :
              c.low <= c.close /\ c.close <= c.high}
Lesser(a, b) == IF a < b THEN a ELSE b
NoCandle == [low |-> 0, high |-> 0, close |-> 0, none |-> TRUE]
Open == [status |-> "open", r |-> 0, tp1 |-> FALSE, bars |-> 0]

-----------------------------------------------------------------------------
(* The five programs                                                       *)

\* Mutant: the target is tested before the stop.
ForwardStepTargetFirst(t, c) ==
    IF t.status # "open" THEN t
    ELSE IF c.high >= Tp2 THEN [t EXCEPT !.status = "win", !.r = Full, !.tp1 = TRUE, !.bars = @ + 1]
    ELSE IF c.low <= (IF t.tp1 THEN 0 ELSE Stop) THEN [t EXCEPT !.status = "loss", !.r = Lost, !.bars = @ + 1]
    ELSE [t EXCEPT !.tp1 = @ \/ c.high >= Tp1, !.bars = @ + 1]

ForwardStep(t, c) ==
    IF t.status # "open" THEN t ELSE
    LET now == t.tp1 \/ c.high >= Tp1 IN
    IF c.low <= (IF t.tp1 THEN 0 ELSE Stop)
    THEN [t EXCEPT !.status = IF t.tp1 THEN "partial" ELSE "loss",
                   !.r = IF t.tp1 THEN Banked ELSE Lost, !.bars = @ + 1]
    ELSE IF now /\ c.high >= Tp2
    THEN [t EXCEPT !.status = "win", !.r = Full, !.tp1 = TRUE, !.bars = @ + 1]
    ELSE [t EXCEPT !.tp1 = now, !.bars = @ + 1]

\* Mutant: a short window expires a trade.
ResolveSignalShort(candles) ==
    LET t == FoldLeft(ForwardStep, Open, candles) IN
    IF candles = <<>> \/ t.status # "open" THEN t
    ELSE [t EXCEPT !.status = "timed", !.r = 2 * candles[Len(candles)].close]

\* A walk that ends too early is no outcome yet.
ResolveSignal(candles) ==
    LET future == SubSeq(candles, 1, IF Len(candles) < MaxBars THEN Len(candles) ELSE MaxBars)
        t == FoldLeft(ForwardStep, Open, future)
        move == future[Len(future)].close
        kept == IF move > 0 THEN move ELSE 0 IN
    IF future = <<>> \/ t.status # "open" \/ Len(future) < MaxBars THEN t
    ELSE IF t.tp1 THEN [t EXCEPT !.status = "partial", !.r = Banked + kept]
    ELSE [t EXCEPT !.status = "timed", !.r = 2 * move]

\* Mutant: what is left after TP1 can expire below the entry.
BacktestStepUnfloored(t, c, last) ==
    LET hit == t.tp1 \/ c.high >= Tp1 IN
    CASE c.low <= (IF t.tp1 THEN -1 ELSE Stop) ->
            [t EXCEPT !.r = IF t.tp1 THEN Banked ELSE Lost, !.status = "exit"]
      [] c.low > (IF t.tp1 THEN -1 ELSE Stop) /\ hit /\ c.high >= Tp2 ->
            [t EXCEPT !.tp1 = TRUE, !.r = Full, !.status = "exit"]
      [] OTHER -> [t EXCEPT !.tp1 = hit, !.r = IF hit THEN Banked + c.close ELSE 2 * c.close,
                            !.status = IF last THEN "exit" ELSE "open"]

\* simulateBacktest closes at the last candle it may read.
BacktestStep(t, c, last) ==
    LET hit == t.tp1 \/ c.high >= Tp1 IN
    IF c.low <= (IF t.tp1 THEN 0 ELSE Stop)
    THEN [t EXCEPT !.r = IF t.tp1 THEN Banked ELSE Lost, !.status = "exit"]
    ELSE IF hit /\ c.high >= Tp2 THEN [t EXCEPT !.tp1 = TRUE, !.r = Full, !.status = "exit"]
    ELSE IF last
    THEN [t EXCEPT !.tp1 = hit, !.status = "exit",
                   !.r = IF hit THEN Banked + (IF c.close > 0 THEN c.close ELSE 0) ELSE 2 * c.close]
    ELSE [t EXCEPT !.tp1 = hit]

SimulatedTrade(candles) ==
    LET end == IF Len(candles) < MaxBars THEN Len(candles) ELSE MaxBars
        after[i \in 0..end] ==
            IF i = 0 \/ after[i - 1].status = "exit"
            THEN IF i = 0 THEN Open ELSE after[i - 1]
            ELSE [BacktestStep(after[i - 1], candles[i], i = end) EXCEPT !.bars = i]
    IN after[end]

\* Mutant: the stop stays where it was after TP1.
RankStepStopStays(t, c) ==
    IF t.status = "exit" THEN t
    ELSE IF c.low <= Stop THEN [t EXCEPT !.r = Lost, !.status = "exit", !.bars = @ + 1]
    ELSE [t EXCEPT !.tp1 = @ \/ c.high >= Tp1, !.bars = @ + 1,
                   !.r = IF c.high >= Tp2 THEN Full ELSE 2 * c.close,
                   !.status = IF c.high >= Tp2 THEN "exit" ELSE @]

\* resolveCandidate and targetsFromFuture keep the whole move of the last candle read.
RankStep(t, c) ==
    IF t.status = "exit" THEN t ELSE
    LET hit == t.tp1 \/ c.high >= Tp1 IN
    IF c.low <= (IF t.tp1 THEN 0 ELSE Stop)
    THEN [t EXCEPT !.r = IF t.tp1 THEN Banked ELSE Lost, !.status = "exit", !.bars = @ + 1]
    ELSE IF hit /\ c.high >= Tp2
    THEN [t EXCEPT !.tp1 = TRUE, !.r = Full, !.status = "exit", !.bars = @ + 1]
    ELSE [t EXCEPT !.tp1 = hit, !.r = 2 * c.close, !.bars = @ + 1]

ResolveCandidate(future) ==
    IF Len(future) < MaxBars THEN [Open EXCEPT !.status = "gap"]
    ELSE FoldLeft(RankStep, Open, SubSeq(future, 1, MaxBars))

ReplayStep(t, c) ==
    IF t.status = "exit" THEN t ELSE
    LET hit == t.tp1 \/ c.high >= Tp1 IN
    IF c.low <= (IF t.tp1 THEN 0 ELSE Stop)
    THEN [t EXCEPT !.status = "exit", !.r = IF t.tp1 THEN Banked ELSE Lost]
    ELSE IF hit /\ c.high >= Tp2 THEN [t EXCEPT !.status = "exit", !.tp1 = TRUE, !.r = Full]
    ELSE [t EXCEPT !.tp1 = hit, !.r = 2 * c.close]

TargetsFromFuture(future) ==
    IF Len(future) < MaxBars THEN [Open EXCEPT !.status = "gap"]
    ELSE FoldLeft(ReplayStep, Open, SubSeq(future, 1, MaxBars))

\* Mutant: the whole position rides on after TP1.
StrictStepWhole(t, c) ==
    IF t.status = "exit" THEN t
    ELSE IF c.low <= (IF t.tp1 THEN 0 ELSE Stop)
    THEN [t EXCEPT !.r = IF t.tp1 THEN Banked ELSE Lost, !.status = "exit", !.bars = @ + 1]
    ELSE [t EXCEPT !.tp1 = @ \/ c.high >= Tp1, !.bars = @ + 1,
                   !.r = IF c.high >= Tp2 THEN 2 * Tp2 ELSE 2 * c.close,
                   !.status = IF c.high >= Tp2 THEN "exit" ELSE @]

\* resolveStrict also leaves at the entry when the candle that reaches TP1 touches it.
StrictStep(t, c) ==
    IF t.status = "exit" THEN t ELSE
    LET first == ~t.tp1 /\ c.high >= Tp1
        hit == t.tp1 \/ first
        level == IF t.tp1 THEN 0 ELSE Stop IN
    IF c.low <= level
    THEN [t EXCEPT !.r = IF t.tp1 THEN Banked ELSE Lost, !.status = "exit", !.bars = @ + 1]
    ELSE IF first /\ c.low <= 0
    THEN [t EXCEPT !.tp1 = TRUE, !.r = Banked, !.status = "exit", !.bars = @ + 1]
    ELSE IF hit /\ c.high >= Tp2
    THEN [t EXCEPT !.tp1 = TRUE, !.r = Full, !.status = "exit", !.bars = @ + 1]
    ELSE [t EXCEPT !.tp1 = hit, !.bars = @ + 1,
                   !.r = IF hit THEN Banked + c.close ELSE 2 * c.close]

\* A trade that is over needs no later candle.
ResolveStrict(candles) ==
    LET t == FoldLeft(StrictStep, Open, SubSeq(candles, 1, IF Len(candles) < MaxBars
                                                           THEN Len(candles) ELSE MaxBars))
    IN IF t.status = "exit" \/ Len(candles) >= MaxBars THEN t ELSE [Open EXCEPT !.status = "gap"]

\* resolveAtHorizon (the research diagnostics): the same label with another horizon; a
\* candle that is missing before the exit leaves it unresolved.
ResolveAtHorizon(candles, bars) ==
    LET t == FoldLeft(StrictStep, Open, SubSeq(candles, 1, Lesser(bars, Len(candles)))) IN
    IF t.status = "exit" \/ Len(candles) >= bars THEN t ELSE [Open EXCEPT !.status = "gap"]

-----------------------------------------------------------------------------
(* The market draws a candle and completes it; the ledger settles at scans *)
(* of completed candles, the shadow resolver reads the candle being drawn. *)

Init == feed = <<>> /\ forming = NoCandle /\ settled = [live |-> FALSE, outcome |-> Open]

Draws(c) ==
    /\ Len(feed) < MaxBars
    /\ forming = NoCandle
    /\ forming' = c
    /\ UNCHANGED <<feed, settled>>

\* The candle ends as it was last seen or wider.
Completes(c) ==
    /\ forming # NoCandle
    /\ c.low <= forming.low /\ c.high >= forming.high
    /\ feed' = Append(feed, c)
    /\ forming' = NoCandle
    /\ UNCHANGED settled

\* An outcome that is in the ledger is not looked at again.
Record(candles, live) ==
    LET o == ResolveSignal(candles) IN
    settled' = IF settled.outcome.status = "open" /\ o.status # "open"
               THEN [live |-> live, outcome |-> o] ELSE settled

Settle == Record(feed, FALSE) /\ UNCHANGED <<feed, forming>>

\* candles() ends its request at min(now, ...): the candle being drawn is in the answer.
ResolveSelection ==
    /\ forming # NoCandle
    /\ Record(Append(feed, forming), TRUE)
    /\ UNCHANGED <<feed, forming>>

Next == (\E c \in Candle : Draws(c) \/ Completes(c)) \/ Settle \/ ResolveSelection

-----------------------------------------------------------------------------
(* Properties                                                              *)

Over == Len(feed) = MaxBars
Final == ResolveSignal(feed)

\* The ledger's outcome does not depend on when it was settled: a verdict on the
\* completed candles of any scan is the verdict on the whole window.
WhenDoesNotMatter ==
    Over /\ settled.outcome.status # "open" /\ ~settled.live => settled.outcome = Final

\* A stop the shadow resolver saw on a candle still being drawn stands when the candle
\* completes; only its wins and expiries can be contradicted.
SeenStopsStand ==
    Over /\ settled.live /\ settled.outcome # Final =>
        settled.outcome.status = "win" \/ settled.outcome.bars = MaxBars

\* "50% TP1 / 50% TP2; breakeven stop after TP1; 30-bar maximum" (executionModel): the
\* backtest and the forward ledger give one trade the same R on the same candles.
BacktestIsForward == Over => SimulatedTrade(feed).r = Final.r /\ SimulatedTrade(feed).bars = Final.bars

\* The two label builders and the ledger agree on every trade, but for the R of one
\* that expires after TP1, where they count the whole move.
LabelsAgree ==
    Over =>
        /\ TargetsFromFuture(feed).r = ResolveCandidate(feed).r
        /\ TargetsFromFuture(feed).tp1 = ResolveCandidate(feed).tp1
        /\ ResolveCandidate(feed).tp1 = Final.tp1
        /\ (ResolveCandidate(feed).r # Final.r => Final.tp1 /\ ResolveCandidate(feed).status = "open")

\* resolveStrict is the careful one: it never credits a trade with more than the ledger
\* does, calls TP1 the same way, and never asks for a candle after the exit.
StrictIsCareful ==
    /\ Over => ResolveStrict(feed).r <= Final.r /\ ResolveStrict(feed).tp1 = Final.tp1
    /\ \A n \in 0..Len(feed) :
          LET part == ResolveStrict(SubSeq(feed, 1, n)) IN
          part.status = "exit" => part = ResolveStrict(feed)

\* "At 288 bars it must reproduce the stored label" (diagnostics.js), on every feed; an
\* exit within a shorter horizon is the exit of the full one, and a horizon that ends
\* before the exit calls TP1 only where the full one does.
HorizonsNest ==
    /\ ResolveAtHorizon(feed, MaxBars) = ResolveStrict(feed)
    /\ \A h \in 1..MaxBars :
          LET short == ResolveAtHorizon(feed, h)
              full == ResolveAtHorizon(feed, MaxBars) IN
          /\ short.status = "exit" => short = full
          /\ short.status # "gap" /\ full.status # "gap" => (short.tp1 => full.tp1)
=============================================================================
