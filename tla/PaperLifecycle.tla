--------------------------- MODULE PaperLifecycle ---------------------------
(***************************************************************************)
(* The exit rules of a paper trade: execution-service/market_edge_exec/    *)
(* paper/lifecycle.py.                                                     *)
(*                                                                         *)
(* A trade's geometry is                                                   *)
(*   [long, entry, stop, tp1, tp2, opened]                                 *)
(* with prices in ordinal ticks (only their order matters to the rules) and*)
(* NoTarget where the signal has no such target.  What an exit rule reads  *)
(* besides is the trade's progress (module TradeProgress).  Slippage and   *)
(* fees move the amount of a fill and never which exit fires, so an event  *)
(* keeps the price the fill starts from and drops both.                    *)
(***************************************************************************)
EXTENDS TradeProgress, FiniteSetsExt, SequencesExt

CONSTANTS
    NoTarget,      \* the signal names no such target (targets[0], targets[1])
    MaxHold        \* MAX_HOLD_MS in the model's time unit

ASSUME MaxHoldAssumption == MaxHold \in Nat

-----------------------------------------------------------------------------
\* An adverse move to `level` (the stop side) and a favourable one.
Adverse(long, price, level) == IF long THEN price <= level ELSE price >= level
Reached(long, price, level) ==
    /\ level # NoTarget
    /\ IF long THEN price >= level ELSE price <= level

\* The stop moves to the entry once TP1 has filled.
ActiveStop(g, tp1Hit) == IF tp1Hit THEN g.entry ELSE g.stop
AlwaysPlainStop(tp1Hit) == "STOP"
StopKind(tp1Hit) == IF tp1Hit THEN "BREAKEVEN_STOP" ELSE "STOP"

Exit(kind, qty, level, fill, at) ==
    [kind |-> kind, qty |-> qty, level |-> level, fill |-> fill, at |-> at]

-----------------------------------------------------------------------------
(* advance(): candles in time order, each judged by its high and low.      *)

Low(g, c) == IF g.long THEN c.low ELSE c.high      \* the adverse extreme
High(g, c) == IF g.long THEN c.high ELSE c.low     \* the favourable extreme

\* One candle.  `walk` is the loop's state: left, hit, the events so far, and
\* whether advance() has returned.
CandleStep(g, t, walk, c) ==
    LET stop   == ActiveStop(g, walk.hit)
        tp1Now == ~walk.hit /\ Reached(g.long, High(g, c), g.tp1)
        part   == IF tp1Now THEN Min({Half(t.size), walk.left}) ELSE 0
        left   == walk.left - part
        taken  == IF tp1Now THEN <<Exit("TP1", part, g.tp1, g.tp1, c.time)>> ELSE <<>>
        tp2Now == (walk.hit \/ tp1Now) /\ left > 0 /\ Reached(g.long, High(g, c), g.tp2)
        last   == IF tp2Now THEN <<Exit("TP2", left, g.tp2, g.tp2, c.time)>> ELSE <<>>
    IN  IF walk.returned \/ walk.left = 0 THEN walk
        ELSE IF Adverse(g.long, Low(g, c), stop)
        THEN [walk EXCEPT
                !.events = Append(@, Exit(StopKind(walk.hit), walk.left, stop, stop, c.time)),
                !.left = 0, !.returned = TRUE]
        ELSE [left     |-> IF tp2Now THEN 0 ELSE left,
              hit      |-> walk.hit \/ tp1Now,
              events   |-> walk.events \o taken \o last,
              returned |-> tp2Now]

\* sorted(candles, key=time), which is stable: candle i comes after `before(i)`.
InTimeOrder(candles) ==
    LET before(i) ==
            {j \in DOMAIN candles :
                \/ candles[j].time < candles[i].time
                \/ candles[j].time = candles[i].time /\ j < i}
    IN  [k \in DOMAIN candles |->
            candles[CHOOSE i \in DOMAIN candles : Cardinality(before(i)) = k - 1]]

Advance(g, t, candles, now) ==
    LET sorted == InTimeOrder(candles)
        walk   == FoldLeft(LAMBDA acc, c : CandleStep(g, t, acc, c),
                           [left |-> t.remaining, hit |-> t.tp1Hit,
                            events |-> <<>>, returned |-> FALSE],
                           sorted)
        close  == Last(sorted).close
    IN  IF /\ ~walk.returned /\ walk.left > 0
           /\ now - g.opened >= MaxHold
           /\ candles # <<>>
        THEN Append(walk.events, Exit("TIMEOUT", walk.left, close, close, now))
        ELSE walk.events

-----------------------------------------------------------------------------
(* evaluate_tick(): one observed price.  A stop fills at that price, a     *)
(* target at its level.                                                    *)

EvaluateTick(g, t, price, at) ==
    LET stop   == ActiveStop(g, t.tp1Hit)
        tp1Now == ~t.tp1Hit /\ Reached(g.long, price, g.tp1)
        left   == t.remaining - (IF tp1Now THEN Tp1Part(t) ELSE 0)
        taken  == IF tp1Now THEN <<Exit("TP1", Tp1Part(t), g.tp1, g.tp1, at)>> ELSE <<>>
        tp2Now == (t.tp1Hit \/ tp1Now) /\ left > 0 /\ Reached(g.long, price, g.tp2)
    IN  IF t.remaining = 0 THEN <<>>
        ELSE IF Adverse(g.long, price, stop)
        THEN <<Exit(StopKind(t.tp1Hit), t.remaining, stop, price, at)>>
        ELSE IF tp2Now
        THEN Append(taken, Exit("TP2", left, g.tp2, g.tp2, at))
        ELSE IF left > 0 /\ at - g.opened >= MaxHold
        THEN Append(taken, Exit("TIMEOUT", left, price, price, at))
        ELSE taken

ApplyExits(t, exits) == FoldLeft(ApplyExit, t, exits)
=============================================================================
