--------------------------- MODULE MCRequestBudget ---------------------------
(***************************************************************************)
(* The callers of the signal bridge, one of each kind: the position        *)
(* monitor's heartbeat and the mark of a new entry read the same allMids.  *)
(***************************************************************************)
EXTENDS RequestBudget, TLC

CONSTANTS heartbeat, entryMark, scan, capture, allMids, candles, rows

Callers == {heartbeat, entryMark, scan, capture}
Keys == {allMids, candles, rows}
Keyed == (heartbeat :> allMids) @@ (entryMark :> allMids) @@ (scan :> candles) @@ (capture :> rows)
Priorities == (heartbeat :> 0) @@ (entryMark :> 2) @@ (scan :> 2) @@ (capture :> 3)
Weights == (allMids :> 1) @@ (candles :> 2) @@ (rows :> 3)

\* No pacing, and just enough for a capture.
AnyBudget == {0, 5}
Reserves == (0 :> 0) @@ (1 :> 0) @@ (2 :> 1) @@ (3 :> 2) @@ (4 :> 3) @@ (5 :> 3)
MaxWaits == (0 :> 0) @@ (1 :> 0) @@ (2 :> 3) @@ (3 :> 0) @@ (4 :> 0) @@ (5 :> 0)
=============================================================================
