------------------------------- MODULE WorkerGate -------------------------------
(***************************************************************************)
(* The worker's door (handleRequest of worker.mjs): the checks a POST      *)
(* passes in their order, the rate limit of a caller, the TradingView      *)
(* alerts and the calls of the AI backend.  An isolate keeps the rate      *)
(* buckets and the alerts it has seen in memory and can be replaced at any *)
(* moment; the database outlives it.                                       *)
(***************************************************************************)
EXTENDS Naturals, Sequences, FiniteSets, SequencesExt

CONSTANTS
    Callers,       \* rate keys
    Alerts,        \* TradingView events: exchange, symbol, event_id
    Limit,         \* RATE_LIMIT_PER_MINUTE
    Window,        \* the minute of a bucket
    MaxBuckets,    \* buckets above which old ones are swept
    Day,           \* how long an alert is remembered
    MaxTime        \* bound of the clock

Now == 0..MaxTime
NoRequest == [kind |-> "none"]

VARIABLES
    now,
    buckets,       \* rateBuckets: caller |-> [started, count]
    admitted,      \* the times a caller's requests passed the limit since its isolate began
    seen,          \* tradingViewEvents: alert |-> time
    stored,        \* tradingview_alert_evidence
    request,       \* the request being served
    answers        \* accepted answers of each alert

vars == <<now, buckets, admitted, seen, stored, request, answers>>

Init ==
    /\ now = 0
    /\ buckets = [k \in {} |-> 0] /\ admitted = [k \in Callers |-> <<>>]
    /\ seen = [a \in {} |-> 0] /\ stored = {}
    /\ request = NoRequest
    /\ answers = [a \in Alerts |-> 0]

Tick ==
    /\ now < MaxTime
    /\ now' = now + 1
    /\ UNCHANGED <<buckets, admitted, seen, stored, request, answers>>

-----------------------------------------------------------------------------
(* The rate limit                                                          *)

\* Mutant: a bucket is swept as soon as its minute has begun.
SweptEarly(b) == [k \in {c \in DOMAIN b : FALSE} |-> b[k]]

\* Too many buckets: those older than two windows go.
Swept(b) ==
    IF Cardinality(DOMAIN b) <= MaxBuckets THEN b
    ELSE [k \in {c \in DOMAIN b : now - b[c].started <= 2 * Window} |-> b[k]]

Starts(k) == k \notin DOMAIN buckets \/ now - buckets[k].started >= Window

\* A caller's first request of a window opens a bucket, the others count in it (bound:
\* counting stops above the limit).
Counted(k) ==
    IF Starts(k)
    THEN [c \in DOMAIN buckets \cup {k} |-> IF c = k THEN [started |-> now, count |-> 1] ELSE buckets[c]]
    ELSE Swept([buckets EXCEPT ![k].count = IF @ > Limit THEN @ ELSE @ + 1])
Allowed(k) == Starts(k) \/ buckets[k].count + 1 <= Limit

-----------------------------------------------------------------------------
(* A request                                                               *)

\* Origin, path, rate, media type, size, JSON: the first that fails answers, and only
\* the rate limit keeps anything of a refused request.
Arrives(k, r) ==
    /\ request = NoRequest
    /\ buckets' = Counted(k)
    /\ admitted' = IF Allowed(k) THEN [admitted EXCEPT ![k] = Append(@, now)] ELSE admitted
    /\ request' = IF Allowed(k) THEN r ELSE NoRequest
    /\ UNCHANGED <<now, seen, stored, answers>>

BadRequest(k) == Arrives(k, NoRequest)

\* sound: sanitizeTradingViewAlert finds nothing wrong (the evidence, its age).
Alert(k, a, sound) == Arrives(k, [kind |-> "alert", alert |-> a, sound |-> sound])

AiCall(k) == Arrives(k, [kind |-> "ai"])

\* Alerts seen more than a day ago are forgotten.
Remembered == [a \in {b \in DOMAIN seen : now - seen[b] <= Day} |-> seen[a]]

IsDuplicate(a) == a \in DOMAIN Remembered

\* acceptTradingViewAlert up to the database.
Takes ==
    /\ request.kind = "alert"
    /\ LET a == request.alert
           refused == ~request.sound \/ IsDuplicate(a)
       IN /\ seen' = IF refused THEN seen ELSE [b \in {a} \cup DOMAIN Remembered |-> IF b = a THEN now ELSE Remembered[b]]
          /\ request' = IF refused THEN NoRequest ELSE [request EXCEPT !.kind = "insert"]
    /\ UNCHANGED <<now, buckets, admitted, stored, answers>>

\* persistTradingViewEvidence: a row already there, or a database that fails, is a 503.
\* Mutant: INSERT OR REPLACE.
Replaceable(a) == TRUE
Insertable(a) == a \notin stored

Persists(works) ==
    /\ request.kind = "insert"
    /\ LET a == request.alert
           done == works /\ Insertable(a)
       IN /\ stored' = IF done THEN stored \cup {a} ELSE stored
          /\ answers' = IF done THEN [answers EXCEPT ![a] = @ + 1] ELSE answers
    /\ request' = NoRequest
    /\ UNCHANGED <<now, buckets, admitted, seen>>

\* openAIRequest: an answer, an error of the provider, or the abort at the deadline; the
\* timer goes with the request and nothing is kept of any of them.
AiAnswers ==
    /\ request.kind = "ai"
    /\ request' = NoRequest
    /\ UNCHANGED <<now, buckets, admitted, seen, stored, answers>>

\* The isolate is replaced: memory and requests are gone.
Replaced ==
    /\ buckets' = [k \in {} |-> 0] /\ admitted' = [k \in Callers |-> <<>>]
    /\ seen' = [a \in {} |-> 0]
    /\ request' = NoRequest
    /\ UNCHANGED <<now, stored, answers>>

Next ==
    \/ Tick \/ Replaced \/ Takes \/ AiAnswers
    \/ \E k \in Callers : BadRequest(k) \/ AiCall(k) \/ \E a \in Alerts, sound \in BOOLEAN : Alert(k, a, sound)
    \/ \E works \in BOOLEAN : Persists(works)

Spec == Init /\ [][Next]_vars

-----------------------------------------------------------------------------
(* Properties                                                              *)

\* An isolate passes at most twice the limit of a caller's requests in any window (two
\* buckets meet in it), however many callers there are and whatever is swept; an alert is
\* accepted once, across isolates, and exactly when its evidence is stored.
GateHolds ==
    /\ \A k \in Callers, from \in Now :
          Cardinality({i \in DOMAIN admitted[k] : from <= admitted[k][i] /\ admitted[k][i] < from + Window}) <= 2 * Limit
    /\ \A a \in Alerts : answers[a] = IF a \in stored THEN 1 ELSE 0

\* An alert that was answered 503 is accepted when it is sent again.
RetryIsTaken ==
    \A a \in DOMAIN seen : request.kind # "insert" => a \in stored
=============================================================================
