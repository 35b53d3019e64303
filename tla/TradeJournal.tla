---------------------------- MODULE TradeJournal ----------------------------
(***************************************************************************)
(* A user's cloud journal (acceptTrade and closeTrade of                   *)
(* backend/account-core.mjs) over the tables scan_recommendations and      *)
(* user_trades.                                                            *)
(*                                                                         *)
(* Taking and closing each read before they write, with other requests of  *)
(* the same user in between; the write itself is one statement, and its    *)
(* answer can be lost.                                                     *)
(***************************************************************************)
EXTENDS Naturals, FiniteSets

CONSTANTS
    Recommendations,
    Requests,      \* requests of the user, each a take or a close
    Rows,          \* rows user_trades can get
    Exits,         \* exit prices the user may send, at which a trade can close
    NoExit

VARIABLES
    current,       \* recommendations stored and not yet expired
    stored,        \* recommendations stored
    trades,        \* user_trades: per row, the recommendation, status and exit price
    req            \* per request: where it is, and what it has read

vars == <<current, stored, trades, req>>

None == [status |-> "none"]
Written == {row \in Rows : trades[row] # None}
Of(r) == {row \in Written : trades[row].rec = r}

Init ==
    /\ current = {}
    /\ stored = {}
    /\ trades = [row \in Rows |-> None]
    /\ req = [q \in Requests |-> [pc |-> "idle"]]

\* storeRecommendation, and fifteen minutes after it
Offer(r) ==
    /\ r \notin stored
    /\ stored' = stored \cup {r}
    /\ current' = current \cup {r}
    /\ UNCHANGED <<trades, req>>

Expires(r) ==
    /\ r \in current
    /\ current' = current \ {r}
    /\ UNCHANGED <<stored, trades, req>>

Goto(q, to) == req' = [req EXCEPT ![q] = to]
Ends(q, answer) == Goto(q, [pc |-> answer])

-----------------------------------------------------------------------------
(* acceptTrade                                                             *)

ReadsRecommendation(q, r) ==
    /\ req[q].pc = "idle"
    /\ IF r \in current THEN Goto(q, [pc |-> "checking", rec |-> r]) ELSE Ends(q, "expired")
    /\ UNCHANGED <<current, stored, trades>>

ReadsExisting(q) ==
    /\ req[q].pc = "checking"
    /\ IF Of(req[q].rec) # {}
       THEN Goto(q, [pc |-> "taken", rec |-> req[q].rec])
       ELSE Goto(q, [req[q] EXCEPT !.pc = "inserting"])
    /\ UNCHANGED <<current, stored, trades>>

\* Mutant: the table has no unique (user_id, recommendation_id).
InsertAgain(r) ==
    \E row \in Rows \ Written : trades' = [trades EXCEPT ![row] = [rec |-> r, status |-> "OPEN", exit |-> NoExit]]

\* The insert, which the unique constraint refuses when another request was first.
Insert(r) ==
    /\ Of(r) = {}
    /\ \E row \in Rows \ Written :
        trades' = [trades EXCEPT ![row] = [rec |-> r, status |-> "OPEN", exit |-> NoExit]]

Inserts(q) ==
    /\ req[q].pc = "inserting"
    /\ \/ Insert(req[q].rec) /\ (Goto(q, [pc |-> "taken", rec |-> req[q].rec]) \/ Ends(q, "failed"))
       \/ UNCHANGED trades /\ Ends(q, "failed")
    /\ UNCHANGED <<current, stored>>

-----------------------------------------------------------------------------
(* closeTrade                                                              *)

\* Mutant: any trade that was found is closed.
ReadsFound(q, row, p) ==
    /\ req[q].pc = "idle"
    /\ IF row \in Written
       THEN Goto(q, [pc |-> "closing", row |-> row, exit |-> p, was |-> trades[row]])
       ELSE Ends(q, "refused")
    /\ UNCHANGED <<current, stored, trades>>

ReadsOpen(q, row, p) ==
    /\ req[q].pc = "idle"
    /\ IF row \in Written /\ trades[row].status = "OPEN"
       THEN Goto(q, [pc |-> "closing", row |-> row, exit |-> p, was |-> trades[row]])
       ELSE Ends(q, "refused")
    /\ UNCHANGED <<current, stored, trades>>

\* The update names the row and not its status: a trade closed since is closed again.
Closes(q) ==
    /\ req[q].pc = "closing"
    /\ \/ /\ trades' = [trades EXCEPT ![req[q].row].status = "CLOSED", ![req[q].row].exit = req[q].exit]
          /\ Ends(q, "closed") \/ Ends(q, "failed")
       \/ UNCHANGED trades /\ Ends(q, "failed")
    /\ UNCHANGED <<current, stored>>

Next ==
    \/ \E r \in Recommendations : Offer(r) \/ Expires(r)
    \/ \E q \in Requests :
        \/ \E r \in Recommendations : ReadsRecommendation(q, r)
        \/ ReadsExisting(q) \/ Inserts(q)
        \/ \E row \in Rows, p \in Exits : ReadsOpen(q, row, p)
        \/ Closes(q)

Spec == Init /\ [][Next]_vars

-----------------------------------------------------------------------------
(* Properties                                                              *)

\* However often a recommendation is taken, from however many devices at once, there is
\* one trade of it; and a request that answered with a trade did not answer in vain.
OneTradeEach ==
    /\ \A r \in Recommendations : Cardinality(Of(r)) <= 1
    /\ \A q \in Requests : req[q].pc = "taken" => Of(req[q].rec) # {}

\* A close that began after the trade was closed does not move its exit: only closes
\* that read it while it was open can.
OnlyOpenIsClosed ==
    [][\A row \in Written : trades'[row] # trades[row] =>
        \E q \in Requests : req[q].pc = "closing" /\ req[q].row = row /\ req[q].was.status = "OPEN"]_vars

\* The two together.
JournalHolds == []OneTradeEach /\ OnlyOpenIsClosed
=============================================================================
