--------------------------- MODULE ScanAllowance ---------------------------
(***************************************************************************)
(* The daily scan allowance of one principal (backend/worker.mjs,          *)
(* backend/account-core.mjs) over the database functions that keep it      *)
(* (supabase/migrations).                                                  *)
(*                                                                         *)
(* A request reserves, scans, finalizes or releases, and stores what it    *)
(* recommends; each is a call to another service that can fail before or   *)
(* after it took effect.  A request carries an id the client chose, and a  *)
(* retry may carry the same one.  The database runs one function of a      *)
(* principal's day at a time, behind an advisory lock.                     *)
(***************************************************************************)
EXTENDS Naturals, FiniteSets

CONSTANTS
    Requests,      \* requests the worker receives
    Ids,           \* request ids
    Cap            \* scans a day: 3 for a guest, 5 for a user

ASSUME AllowanceAssumption == Cap \in Nat /\ IsFiniteSet(Ids)

VARIABLES
    unlimited,     \* the principal is an administrator
    usage,         \* scan_usage: per request id, none, RESERVED, FINALIZED or RELEASED
    old,           \* ids reserved at least 15 minutes ago
    req            \* per request: where it is, its id, and whether its scan succeeded

vars == <<unlimited, usage, old, req>>

\* Where a request is; in the last five it is over.
Steps == {"idle", "scanning", "finalizing", "storing", "releasing",
          "delivered", "unavailable", "refused", "failed", "died"}

Init ==
    /\ unlimited \in BOOLEAN
    /\ usage = [i \in Ids |-> "none"]
    /\ old = {}
    /\ req \in [Requests -> [pc : {"idle"}, id : Ids, scanned : {FALSE}]]

-----------------------------------------------------------------------------
(* The database functions                                                  *)

\* market_edge_reserve_scan: an abandoned reservation is released first.
Expired == {i \in old : usage[i] = "RESERVED"}

\* Mutant: an old reservation is no longer counted, and not released either.
Unswept == usage

Swept == [i \in Ids |-> IF i \in Expired THEN "RELEASED" ELSE usage[i]]

\* Mutant (what migration 0002 repaired): a finalized scan counts for 15 minutes only.
ConsumedLately(table) == {i \in Ids : table[i] \in {"RESERVED", "FINALIZED"} /\ i \notin old}

\* Mutant: the day is counted before the sweep.
ConsumedEver(table) == {i \in Ids : usage[i] \in {"RESERVED", "FINALIZED"}}

Consumed(table) == {i \in Ids : table[i] = "FINALIZED" \/ (table[i] = "RESERVED" /\ i \notin old)}

\* An id seen before is answered from its row; a new one takes a place if there is one.
Allowed(i) ==
    IF Swept[i] # "none" THEN Swept[i] # "RELEASED"
    ELSE unlimited \/ Cardinality(Consumed(Swept)) < Cap

ReserveScan(i) ==
    usage' = IF Swept[i] = "none" /\ Allowed(i) THEN [Swept EXCEPT ![i] = "RESERVED"] ELSE Swept

\* market_edge_finalize_scan raises unless the row is reserved or already final.
CanFinalize(i) == usage[i] \in {"RESERVED", "FINALIZED"}
FinalizeScan(i) == usage' = [usage EXCEPT ![i] = IF CanFinalize(i) THEN "FINALIZED" ELSE @]

\* Mutant: a release takes back what has been charged.
ReleaseAny(i) == usage' = [usage EXCEPT ![i] = "RELEASED"]

\* market_edge_release_scan
ReleaseScan(i) == usage' = [usage EXCEPT ![i] = IF @ = "RESERVED" THEN "RELEASED" ELSE @]

-----------------------------------------------------------------------------
(* entitledCustomerScan                                                    *)

Goto(r, step) == req' = [req EXCEPT ![r].pc = step]

\* The answer to the reservation may be lost: then nothing releases it.
Reserve(r) ==
    /\ req[r].pc = "idle"
    /\ ReserveScan(req[r].id)
    /\ \/ Goto(r, IF Allowed(req[r].id) THEN "scanning" ELSE "refused")
       \/ Goto(r, "failed")
    /\ UNCHANGED <<unlimited, old>>

NotReserved(r) ==
    /\ req[r].pc = "idle"
    /\ Goto(r, "failed")
    /\ UNCHANGED <<unlimited, usage, old>>

\* Mutant: the scan is charged when it starts.
ScanCharged(r) ==
    /\ req[r].pc = "scanning"
    /\ FinalizeScan(req[r].id)
    /\ \/ req' = [req EXCEPT ![r].pc = "finalizing", ![r].scanned = TRUE]
       \/ Goto(r, "releasing")
    /\ UNCHANGED <<unlimited, old>>

\* customerScan and successfulScan: at least one market was evaluated, or none, or it threw.
Scan(r) ==
    /\ req[r].pc = "scanning"
    /\ \/ req' = [req EXCEPT ![r].pc = "finalizing", ![r].scanned = TRUE]
       \/ Goto(r, "releasing")
    /\ UNCHANGED <<unlimited, usage, old>>

Finalize(r) ==
    /\ req[r].pc = "finalizing"
    /\ \/ FinalizeScan(req[r].id) /\ Goto(r, IF CanFinalize(req[r].id) THEN "storing" ELSE "releasing")
       \/ FinalizeScan(req[r].id) /\ Goto(r, "releasing")
       \/ UNCHANGED usage /\ Goto(r, "releasing")
    /\ UNCHANGED <<unlimited, old>>

\* The forward capture, whose failure is swallowed, and storeRecommendation, whose is not.
Store(r) ==
    /\ req[r].pc = "storing"
    /\ Goto(r, "delivered") \/ Goto(r, "releasing")
    /\ UNCHANGED <<unlimited, usage, old>>

\* releaseScan swallows its own failure; then the error, or the empty scan, is answered.
Release(r) ==
    /\ req[r].pc = "releasing"
    /\ ReleaseScan(req[r].id) \/ UNCHANGED usage
    /\ Goto(r, IF req[r].scanned THEN "failed" ELSE "unavailable") \/ Goto(r, "failed")
    /\ UNCHANGED <<unlimited, old>>

\* The worker is killed, or the client goes away, at any await.
Dies(r) ==
    /\ req[r].pc \in {"scanning", "finalizing", "storing", "releasing"}
    /\ Goto(r, "died")
    /\ UNCHANGED <<unlimited, usage, old>>

\* Fifteen minutes have passed since the reservation of i.
Ages(i) ==
    /\ usage[i] # "none"
    /\ old' = old \cup {i}
    /\ UNCHANGED <<unlimited, usage, req>>

Next ==
    \/ \E r \in Requests :
        \/ Reserve(r) \/ NotReserved(r)
        \/ Scan(r) \/ Finalize(r) \/ Store(r) \/ Release(r)
        \/ Dies(r)
    \/ \E i \in Ids : Ages(i)

Spec == Init /\ [][Next]_vars

-----------------------------------------------------------------------------
(* Properties                                                              *)

TypeOK ==
    /\ unlimited \in BOOLEAN
    /\ usage \in [Ids -> {"none", "RESERVED", "FINALIZED", "RELEASED"}]
    /\ old \subseteq Ids
    /\ req \in [Requests -> [pc : Steps, id : Ids, scanned : BOOLEAN]]

Charged == {i \in Ids : usage[i] = "FINALIZED"}

\* However requests overlap, are retried, abandoned or answered late, no more than Cap
\* scans of a day are ever charged to a principal with a limit: a place is never given
\* twice, also not to one request while the reservation of another grows old.
WithinCap == ~unlimited => Cardinality({i \in Ids : usage[i] \in {"RESERVED", "FINALIZED"}}) <= Cap

\* A scan that was delivered has been charged, and what is charged was a scan that
\* evaluated a market.
ChargedAsDelivered ==
    /\ \A r \in Requests : req[r].pc = "delivered" => req[r].id \in Charged
    /\ \A i \in Charged : \E r \in Requests : req[r].id = i /\ req[r].scanned

\* Nothing gives back a charge: no release that comes late, no failure after it, no
\* sweep of old reservations.
ChargesStand == [][Charged \subseteq Charged']_vars

\* "Abandoned requests must not permanently consume a daily allowance" (the comment of
\* market_edge_reserve_scan): a new id is refused only while Cap scans are charged or
\* reserved within the last 15 minutes.
RefusedOnlyWhenSpent ==
    [][\A r \in Requests : req[r].pc = "idle" /\ req'[r].pc = "refused" =>
        LET i == req[r].id IN
        \/ usage'[i] = "RELEASED"
        \/ Cardinality({j \in Ids : \/ usage'[j] = "FINALIZED"
                                    \/ usage'[j] = "RESERVED" /\ j \notin old}) >= Cap]_vars

\* A day of scans: never more than Cap are charged, and exactly what was delivered is;
\* no step takes a charge back, and none refuses a scan that is still free.
AllowanceKept ==
    /\ [](TypeOK /\ WithinCap /\ ChargedAsDelivered)
    /\ ChargesStand /\ RefusedOnlyWhenSpent
=============================================================================
