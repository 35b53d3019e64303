-------------------------- MODULE MCPaperLifecycle --------------------------
(***************************************************************************)
(* Feeds every short sequence of candles to the exit rules of              *)
(* PaperLifecycle, for every shape of geometry, and compares sweep with    *)
(* sweep, sweep with tick, and both with what the engine is modelled to    *)
(* accept from them (PlanShapes).  Beside them stand the readings of the   *)
(* candles of a trade (TradeOutcomes), which share nothing with them.      *)
(***************************************************************************)
EXTENDS PaperLifecycle

CONSTANTS
    MaxCandles,
    Levels, Rr, HeldBars    \* TradeOutcomes

\* Prices and rewards are whole halves of R.
ASSUME OutcomeAssumption == Levels \subseteq Int /\ Rr \in Nat /\ HeldBars \in Nat

VARIABLES
    geometry,      \* fixed when the trade opens
    size,          \* quantity, in units of 1e-8
    feed,          \* the completed candles so far
    path, forming, settled

vars == <<geometry, size, feed>>
outcomeVars == <<path, forming, settled>>

O == INSTANCE TradeOutcomes WITH feed <- path, MaxBars <- HeldBars

Price == 1..5

\* Long: stop 1, entry 2, TP1 4, TP2 5; short: the mirror image.
LongAt(tp1, tp2) == [long |-> TRUE, entry |-> 2, stop |-> 1, tp1 |-> tp1, tp2 |-> tp2, opened |-> 0]
ShortAt(tp1, tp2) == [long |-> FALSE, entry |-> 4, stop |-> 5, tp1 |-> tp1, tp2 |-> tp2, opened |-> 0]

Geometries == {LongAt(4, 5), LongAt(4, NoTarget), LongAt(NoTarget, NoTarget),
               ShortAt(2, 1), ShortAt(2, NoTarget)}

\* A candle closes at one of its extremes: the close is only a fill price.
CandlesAt(time) ==
    {[time |-> time, low |-> lo, high |-> hi, close |-> cl] :
        lo \in Price, hi \in Price, cl \in Price}

Init ==
    /\ geometry \in Geometries
    /\ size \in {1, 2, 5}
    /\ feed = <<>>

NewCandle ==
    /\ Len(feed) < MaxCandles
    /\ \E c \in CandlesAt(Len(feed) + 1) :
          /\ c.low <= c.high
          /\ c.close \in {c.low, c.high}
          /\ feed' = Append(feed, c)
    /\ UNCHANGED <<geometry, size>>

-----------------------------------------------------------------------------
Opened == NewTrade(size)

\* Progress the ledger can hold: the trade as opened, or as left by a sweep of
\* the feed before its deadline.
Early == MaxHold - 1
Progress == {Opened, ApplyExits(Opened, Advance(geometry, Opened, feed, Early))}

Flat(price, at) == [time |-> at, low |-> price, high |-> price, close |-> price]
WithoutFill(e) == [kind |-> e.kind, qty |-> e.qty, level |-> e.level, at |-> e.at]
Outcome(events) == [i \in DOMAIN events |-> WithoutFill(events[i])]
ShapeOf(events) == [i \in DOMAIN events |-> [kind |-> events[i].kind, qty |-> events[i].qty]]

\* Restart and batching do not change a trade: sweeping the candles in one batch
\* gives the exits that sweeping any prefix, saving the trade, and sweeping the
\* rest gives (engine.py mark() resumes from last_checked_ms; ledger.py:231 "a
\* restart resumes exactly where it left off").
SweepsCompose ==
    \A n \in 0..Len(feed) :
        LET head == Advance(geometry, Opened, SubSeq(feed, 1, n), Early)
            tail == Advance(geometry, ApplyExits(Opened, head),
                            SubSeq(feed, n + 1, Len(feed)), Early)
        IN  Advance(geometry, Opened, feed, Early) = head \o tail

\* "Same geometry, same order of checks and same 50/50 split as advance()"
\* (lifecycle.py evaluate_tick): a tick at a price and a candle that never left
\* that price fire the same exits, before and at the deadline.
TickAgreesWithCandle ==
    \A t \in Progress, price \in Price, at \in {Early, MaxHold} :
        Outcome(EvaluateTick(geometry, t, price, at))
          = Outcome(Advance(geometry, t, <<Flat(price, at)>>, at))

\* Whatever the feed, an evaluation hands the engine one of the exit sequences
\* PaperEngine takes from it: never more than what remains, never a second exit
\* of a kind, never a target after a stop.
PlansAreKnown ==
    \A t \in Progress :
        /\ \A now \in {Early, MaxHold} :
              ShapeOf(Advance(geometry, t, feed, now)) \in PlanShapes(t)
        /\ \A price \in Price, at \in {Early, MaxHold} :
              ShapeOf(EvaluateTick(geometry, t, price, at)) \in PlanShapes(t)

\* From the deadline on (MAX_HOLD_MS), the first sweep with a candle in it, or
\* the first tick, leaves nothing of the position.
DeadlineCloses ==
    \A t \in Progress :
        /\ feed # <<>> =>
              ApplyExits(t, Advance(geometry, t, feed, MaxHold)).remaining = 0
        /\ \A price \in Price :
              ApplyExits(t, EvaluateTick(geometry, t, price, MaxHold)).remaining = 0
=============================================================================
