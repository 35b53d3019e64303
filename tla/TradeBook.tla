------------------------------ MODULE TradeBook ------------------------------
(***************************************************************************)
(* What the paper session promises of its trades, without requests, locks, *)
(* a portfolio or a database: a trade opens once, on an instrument that has*)
(* no live trade and within the position limit, and then only moves through*)
(* its exit milestones until nothing remains.  PaperEngine implements this *)
(* while nothing fails.                                                    *)
(***************************************************************************)
EXTENDS TradeProgress, FiniteSets

CONSTANTS Signal, InstrumentOf, MaxOpen, Sizes

VARIABLE book      \* signal -> progress; NoRow before the trade opens

Live == {s \in Signal : IsOpen(book[s])}

Init == book = [s \in Signal |-> NoRow]

Open(s) ==
    /\ ~HasRow(book[s])
    /\ \A t \in Live : InstrumentOf[t] # InstrumentOf[s]
    /\ Cardinality(Live) < MaxOpen
    /\ \E size \in Sizes : \E qty \in 1..size : book' = [book EXCEPT ![s] = NewTrade(qty)]

\* The next milestone is the first of an exit sequence the trade allows: TP1 once,
\* the stop it was opened with only before TP1, everything else takes what is left.
TakeMilestone(s) ==
    /\ IsOpen(book[s])
    /\ \E plan \in PlanShapes(book[s]) \ {<<>>} :
          book' = [book EXCEPT ![s] = ApplyExit(@, Head(plan))]

Next == \E s \in Signal : Open(s) \/ TakeMilestone(s)

Spec == Init /\ [][Next]_book
=============================================================================
