---------------------------- MODULE TradeProgress ----------------------------
(***************************************************************************)
(* What the paper ledger keeps of a trade's progress,                      *)
(*   [size, remaining, tp1Hit]                                             *)
(* in units of 1e-8 (the ledger's and the portfolio's precision), and what *)
(* one recorded exit does to it (execution-service/market_edge_exec/paper/ *)
(* ledger.py, apply_exit).  The status column follows from it: no row is   *)
(* size 0, CLOSED is a row with nothing remaining, PARTIAL is tp1Hit.      *)
(***************************************************************************)
EXTENDS Integers, Sequences

CONSTANT RoundsUp      \* odd sizes: those whose half the code's floats round up

Kind == {"TP1", "TP2", "STOP", "BREAKEVEN_STOP", "TIMEOUT"}

NoRow == [size |-> 0, remaining |-> 0, tp1Hit |-> FALSE]
NewTrade(qty) == [size |-> qty, remaining |-> qty, tp1Hit |-> FALSE]

IsOpen(t) == t.remaining > 0
HasRow(t) == t.size > 0

Less(a, b) == IF b < a THEN a - b ELSE 0

\* round(original_qty * TP1_FRACTION, 8).  Of an odd number of units the half is
\* rounded either way, as the float nearest to it lies: 1 and 7 go up, 3 and 5
\* down.  Half of one unit is then all of it.
Half(qty) == IF qty \in RoundsUp THEN (qty + 1) \div 2 ELSE qty \div 2

\* Never more than what is left.
SellEverythingAtTp1(t) == t.remaining
Tp1Part(t) == IF Half(t.size) <= t.remaining THEN Half(t.size) ELSE t.remaining

ForgetTp1OnSave(t, exit) == [t EXCEPT !.remaining = Less(@, exit.qty)]
TimeoutKeepsPosition(t, exit) ==
    [t EXCEPT !.remaining = IF exit.kind = "TIMEOUT" THEN @ ELSE Less(@, exit.qty),
              !.tp1Hit = @ \/ exit.kind = "TP1"]
AddsInsteadOfSells(t, exit) ==
    [t EXCEPT !.remaining = @ + exit.qty, !.tp1Hit = @ \/ exit.kind = "TP1"]

ApplyExit(t, exit) ==
    [size      |-> t.size,
     remaining |-> Less(t.remaining, exit.qty),
     tp1Hit    |-> t.tp1Hit \/ exit.kind = "TP1"]

Order(kind, qty) == [kind |-> kind, qty |-> qty]

\* The exits, in order, that one evaluation of an open trade (lifecycle.advance or
\* lifecycle.evaluate_tick) can return.
PlanShapes(t) ==
    IF t.tp1Hit
    THEN {<<>>} \union
         {<<Order(k, t.remaining)>> : k \in {"BREAKEVEN_STOP", "TP2", "TIMEOUT"}}
    ELSE {<<>>, <<Order("TP1", Tp1Part(t))>>} \union
         {<<Order(k, t.remaining)>> : k \in {"STOP", "TIMEOUT"}} \union
         {<<Order("TP1", Tp1Part(t)), Order(k, t.remaining - Tp1Part(t))>> :
             k \in {x \in {"BREAKEVEN_STOP", "TP2", "TIMEOUT"} : Tp1Part(t) < t.remaining}}
=============================================================================
