----------------------------- MODULE Backtests -----------------------------
(***************************************************************************)
(* Which candles the backtests of the quant engine use for what            *)
(* (quant-engine.js simulateBacktest, walkForwardTest).  A simulation      *)
(* walks a range of candles; on a signal it enters at the next candle,     *)
(* holds for at most MaxBars and goes on after the exit.  The walk forward *)
(* test trains, validates and tests in turn on ranges that move on by the  *)
(* size of a test.  What signals and where a trade ends is left open: that *)
(* is TradeOutcomes and QuantRules.                                        *)
(***************************************************************************)
EXTENDS Integers, FiniteSets

CONSTANTS
    Length,        \* candles of the market
    Warmup,        \* 220
    MaxBars,       \* 30
    FirstTrain,    \* end of the first training range: half of the candles, 260 at least
    Block          \* size of a validation and of a test: 12%, 50 at least

VARIABLES
    trainEnd,      \* where the fold's training ends
    phase,         \* train, validate, test of a fold; over
    index,         \* the candle the simulation looks at
    trades,        \* trades of this simulation: signal, exit
    seen,          \* the last candle whose outcome the choice of parameters has read
    unseen,        \* trades the folds report as unseen, with the fold
    chosen         \* parameters have been selected in this fold

vars == <<trainEnd, phase, index, trades, seen, unseen, chosen>>

validationEnd == trainEnd + Block
testEnd == validationEnd + Block

\* Mutant: a validation reaches into the test.
RangeOverlong == CASE phase = "train" -> [start |-> Warmup, end |-> trainEnd]
                   [] phase = "validate" -> [start |-> trainEnd, end |-> testEnd]
                   [] OTHER -> [start |-> validationEnd, end |-> testEnd]

Range == CASE phase = "train" -> [start |-> Warmup, end |-> trainEnd]
           [] phase = "validate" -> [start |-> trainEnd, end |-> validationEnd]
           [] OTHER -> [start |-> validationEnd, end |-> testEnd]

\* The last candle a simulation reads.
End == IF Range.end < Length - 1 THEN Range.end ELSE Length - 1

Init ==
    /\ trainEnd = FirstTrain /\ phase = "train" /\ index = Warmup
    /\ trades = {} /\ seen = 0 /\ unseen = {} /\ chosen = FALSE

NoSignal ==
    /\ phase # "over" /\ index < End - 1
    /\ index' = index + 1
    /\ UNCHANGED <<trainEnd, phase, trades, seen, unseen, chosen>>

\* Mutant: the walk goes on at the candle after the signal.
TradeAndGoOn(exit) ==
    /\ phase # "over" /\ index < End - 1
    /\ exit \in index + 1..(IF index + MaxBars < End THEN index + MaxBars ELSE End)
    /\ trades' = trades \cup {[signal |-> index, exit |-> exit]}
    /\ index' = index + 1
    /\ UNCHANGED <<trainEnd, phase, seen, unseen, chosen>>

Trade(exit) ==
    /\ phase # "over" /\ index < End - 1
    /\ exit \in index + 1..(IF index + MaxBars < End THEN index + MaxBars ELSE End)
    /\ trades' = trades \cup {[signal |-> index, exit |-> exit]}
    /\ index' = exit + 1
    /\ UNCHANGED <<trainEnd, phase, seen, unseen, chosen>>

LastRead == IF trades = {} THEN 0 ELSE CHOOSE e \in {t.exit : t \in trades} : \A t \in trades : t.exit <= e

\* Train, then validate: both decide which parameters are selected, if any.
EndsRange ==
    /\ phase \in {"train", "validate"} /\ index >= End - 1
    /\ phase' = IF phase = "train" THEN "validate" ELSE "test"
    /\ seen' = IF LastRead > seen THEN LastRead ELSE seen
    /\ \E c \in BOOLEAN : chosen' = (phase = "validate" /\ c)
    /\ index' = IF phase = "train" THEN trainEnd ELSE validationEnd
    /\ trades' = {}
    /\ UNCHANGED <<trainEnd, unseen>>

\* Mutant: the next fold starts where this one did.
EndsFoldInPlace ==
    /\ phase = "test" /\ (index >= End - 1 \/ ~chosen)
    /\ phase' = "train" /\ index' = Warmup /\ trades' = {} /\ seen' = 0 /\ chosen' = FALSE
    /\ UNCHANGED <<trainEnd, unseen>>

\* Without parameters the fold tests nothing.
EndsFold ==
    /\ phase = "test" /\ (index >= End - 1 \/ ~chosen)
    /\ unseen' = unseen \cup {[fold |-> trainEnd, seen |-> seen, signal |-> t.signal, exit |-> t.exit] :
                                  t \in IF chosen THEN trades ELSE {}}
    /\ trainEnd' = trainEnd + Block
    /\ phase' = IF trainEnd + 3 * Block <= Length THEN "train" ELSE "over"
    /\ index' = Warmup /\ trades' = {} /\ seen' = 0 /\ chosen' = FALSE

Next ==
    \/ NoSignal
    \/ \E exit \in 1..Length : Trade(exit)
    \/ EndsRange
    \/ EndsFold

Spec == Init /\ [][Next]_vars /\ WF_vars(Next)

-----------------------------------------------------------------------------
(* Properties                                                              *)

\* A simulation never holds two trades at once: R adds up along one account.
OneTradeAtATime ==
    \A t, u \in trades : t # u => t.exit < u.signal \/ u.exit < t.signal

\* What a fold reports as unseen was: every candle such a trade is held through lies after
\* the last one the selection of its parameters read, within the candles there are, and in
\* no other fold's test.
UnseenIsUnseen ==
    \A t \in unseen :
        /\ t.signal + 1 > t.seen /\ t.exit < Length
        /\ \A u \in unseen : u.fold < t.fold => u.exit <= t.signal

\* The walk forward test ends, also where every candle signals.
WalkEnds == <>(phase = "over")
=============================================================================
