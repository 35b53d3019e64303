------------------------------- MODULE ScanCycle -------------------------------
(***************************************************************************)
(* One discovery cycle of the forward loop after another: the live scan    *)
(* (scan-core.mjs), the one signal it may send (fetch_signal.mjs,          *)
(* forward_loop.mjs), the observations it records of everything it saw     *)
(* (shadow_capture.mjs), and the research assets it evaluates besides      *)
(* (research_universe.mjs).                                                *)
(***************************************************************************)
EXTENDS Naturals, Sequences, FiniteSets, SequencesExt

CONSTANTS
    Approved,      \* APPROVED_RESEARCH_ASSETS, in their order
    Selected,      \* assets the universe of this venue selects for the scan
    Setups,        \* setups the generator knows: a direction and a strategy
    NoSetup,       \* a market without a direction
    PerCycle,      \* research assets a cycle evaluates besides
    EveryN,        \* SHADOW_EVERY_N_CYCLES
    MaxCycles      \* bound: cycles of the loop

VARIABLES
    pc,            \* idle, scanned, answered, recorded
    cycle,
    scan,          \* what the scan found
    sent,          \* the signal posted to the service in this cycle
    execution,     \* executionFromCycle: the decision recorded with the scan
    payload,       \* the observations of the scan
    turn           \* the cycles in a row with the same eligible assets, and those evaluated in them

vars == <<pc, cycle, scan, sent, execution, payload, turn>>

-----------------------------------------------------------------------------
(* The scan                                                                *)

\* One market as the scan sees it: the generator's candidates, the pick of ranking mode
\* (which the candidates of strict mode need not contain), its score, and whether the
\* pick has a complete geometry.  A market one of whose frames is missing fails alone.
Market ==
    {m \in [candidates : SUBSET Setups, pick : Setups \cup {NoSetup}, complete : BOOLEAN, score : 1..2] :
        m.pick = NoSetup => ~m.complete}
Failed == [candidates |-> {}, pick |-> NoSetup, complete |-> FALSE, score |-> 0]
Evaluated(s) == {a \in DOMAIN s.markets : s.markets[a] # Failed}
Failures(s) == DOMAIN s.markets \ Evaluated(s)

\* hasGeometry: a direction, and every price of the plan.
HasGeometry(m) == m.pick # NoSetup /\ m.complete

Position(order, a) == CHOOSE i \in DOMAIN order : order[i] = a
Before(order, a, b) == Position(order, a) < Position(order, b)

\* results.sort: by combined score, then by name (here the order of Selected).
Better(s, a, b) ==
    \/ s.markets[a].score > s.markets[b].score
    \/ s.markets[a].score = s.markets[b].score /\ Before(Selected, a, b)
RankOf(s, a) == 1 + Cardinality({b \in Evaluated(s) : Better(s, b, a)})

\* Mutant: the first market of the universe that has a geometry.
FirstTrade(s) ==
    {a \in Evaluated(s) :
        /\ HasGeometry(s.markets[a])
        /\ \A b \in Evaluated(s) : HasGeometry(s.markets[b]) => ~Before(Selected, b, a)}

\* bestTradeNow: the first of the ranking that has a geometry.
BestTradeNow(s) ==
    {a \in Evaluated(s) :
        /\ HasGeometry(s.markets[a])
        /\ \A b \in Evaluated(s) : HasGeometry(s.markets[b]) => RankOf(s, a) <= RankOf(s, b)}

-----------------------------------------------------------------------------
(* The observations                                                        *)

\* Mutant: only what the generator lists is recorded.
ListedOnly(m) == m.candidates

\* "the production pick is always recorded"
Recorded(m) == m.candidates \cup ({m.pick} \ {NoSetup})

\* A candidate of a market and why it was not submitted; reason "none" when it was.
Reason(s, a, c, submitting) ==
    LET m == s.markets[a]
        best == BestTradeNow(s) = {a} /\ c = m.pick
    IN IF submitting /\ best THEN "none"
       ELSE IF c # m.pick THEN "NOT_ASSET_PICK"
       ELSE IF ~m.complete THEN "INCOMPLETE_GEOMETRY"
       ELSE IF submitting THEN "RANK_BELOW_SELECTED" ELSE "NO_SIGNAL_THIS_SCAN"

\* The outcome of a cycle, as it is stored next to what was observed.
ExecutionFromCycle(outcome) ==
    IF outcome \in {"NO_SIGNAL", "EXECUTED"} THEN [decision |-> outcome, reason |-> "none"]
    ELSE [decision |-> "REJECTED", reason |-> outcome]

BuildShadowPayload(s, executed) ==
    LET submitting == executed.decision # "NO_SIGNAL"
        Of(a) == {[asset |-> a, setup |-> c, reason |-> Reason(s, a, c, submitting)] : c \in Recorded(s.markets[a])}
    IN [states |-> Evaluated(s), candidates |-> UNION {Of(a) : a \in Evaluated(s)}]

-----------------------------------------------------------------------------
(* The research supplement                                                 *)

\* What the venue lists and the scan did not evaluate, in the order of Approved; an asset's
\* place among them counts from 0.
Eligible(s) == {a \in ToSet(Approved) : a \notin Evaluated(s) /\ a \in s.listed}
Place(e, a) == Cardinality({b \in e : Before(Approved, b, a)})

Skipped(s) == PerCycle = 0 \/ s.listed = {} \/ Failures(s) # {} \/ Eligible(s) = {}

\* supplementPlan: PerCycle of the eligible assets, from a start that moves with the cycle.
Least(x, y) == IF x < y THEN x ELSE y
FromStart(e, start) ==
    {a \in e : \E i \in 0..Least(PerCycle, Cardinality(e)) - 1 : Place(e, a) = (start + i) % Cardinality(e)}

\* Mutant: the rotation does not move.
SupplementStands(s) == IF Skipped(s) THEN {} ELSE FromStart(Eligible(s), 0)

SupplementPlan(s) ==
    IF Skipped(s) THEN {} ELSE FromStart(Eligible(s), (cycle * PerCycle) % Cardinality(Eligible(s)))

-----------------------------------------------------------------------------
(* The cycle                                                               *)

Unscanned == [markets |-> [a \in ToSet(Selected) |-> Failed], listed |-> {}]
NotExecuted == [decision |-> "none", reason |-> "none"]
NoTurn == [eligible |-> {}, cycles |-> 0, evaluated |-> {}]
Observes == cycle % EveryN = 0

Init ==
    /\ pc = "idle" /\ cycle = 0
    /\ scan = Unscanned /\ sent = {} /\ execution = NotExecuted
    /\ payload = [states |-> {}, candidates |-> {}]
    /\ turn = NoTurn

\* The next cycle forgets the scan.
Over ==
    /\ pc' = "idle" /\ cycle' = cycle + 1
    /\ scan' = Unscanned /\ sent' = {} /\ execution' = NotExecuted
    /\ payload' = [states |-> {}, candidates |-> {}]

\* runLoop's catch: wherever the cycle throws.
Throws ==
    /\ cycle < MaxCycles
    /\ Over
    /\ turn' = NoTurn

\* A rate limit defers discovery to the next cycle.
Deferred ==
    /\ pc = "idle" /\ cycle < MaxCycles
    /\ Over
    /\ turn' = NoTurn

Scans ==
    /\ pc = "idle" /\ cycle < MaxCycles
    /\ \E markets \in [ToSet(Selected) -> Market \cup {Failed}], listed \in {{}, ToSet(Approved)} :
          scan' = [markets |-> markets, listed |-> listed]
    /\ pc' = "scanned"
    /\ UNCHANGED <<cycle, sent, execution, payload, turn>>

\* runCycle up to classify.  dataOk: the prices of every open position were read.
Decides(outcome) ==
    /\ pc = "scanned"
    /\ pc' = "answered"
    /\ execution' = ExecutionFromCycle(outcome)
    /\ UNCHANGED <<cycle, scan, payload, turn>>

NoSignal ==
    /\ BestTradeNow(scan) = {}
    /\ Decides("NO_SIGNAL")
    /\ UNCHANGED sent

StaleOpenPositions ==
    /\ BestTradeNow(scan) # {}
    /\ Decides("STALE_OPEN_POSITIONS")
    /\ UNCHANGED sent

\* POST /paper/signal, and classify of its answer.
PostSignal(answer) ==
    /\ BestTradeNow(scan) # {}
    /\ Decides(answer)
    /\ sent' = BestTradeNow(scan)

\* The service may have traded the signal and its answer is lost.
SignalLost == pc = "scanned" /\ BestTradeNow(scan) # {} /\ Throws

\* shadowObserve: the observations, and the assets of the supplement; no error in here
\* reaches the cycle.
ShadowObserve ==
    /\ pc = "answered"
    /\ pc' = "recorded"
    /\ payload' = IF Observes THEN BuildShadowPayload(scan, execution) ELSE payload
    /\ turn' = IF ~Observes THEN turn
               ELSE IF Skipped(scan) THEN NoTurn
               ELSE LET e == Eligible(scan) IN
                    IF turn.eligible = e /\ turn.cycles < Cardinality(e)
                    THEN [eligible |-> e, cycles |-> turn.cycles + 1,
                          evaluated |-> turn.evaluated \cup SupplementPlan(scan)]
                    ELSE [eligible |-> e, cycles |-> 1, evaluated |-> SupplementPlan(scan)]
    /\ UNCHANGED <<cycle, scan, sent, execution>>

\* POST /reconcile, which can throw as well.
Ends == pc = "recorded" /\ Over /\ UNCHANGED turn

Next ==
    \/ Deferred \/ Scans \/ NoSignal \/ StaleOpenPositions
    \/ PostSignal("EXECUTED") \/ PostSignal("STALE_SIGNAL")
    \/ PostSignal("DUPLICATE") \/ PostSignal("REJECTED")
    \/ SignalLost \/ ShadowObserve \/ Ends
    \/ pc \in {"idle", "scanned", "recorded"} /\ Throws

-----------------------------------------------------------------------------
(* Properties                                                              *)

\* "EXECUTION != OBSERVATION": a recorded scan has every evaluated market and every
\* candidate of it once, and of all of them at most one is the submitted one: the plan
\* of the asset whose signal went out.
OneSubmitted ==
    pc = "recorded" /\ Observes =>
        LET chosen == {c \in payload.candidates : c.reason = "none"} IN
        /\ payload.states = Evaluated(scan)
        /\ \A a \in Evaluated(scan) : \A c \in scan.markets[a].candidates :
              Cardinality({o \in payload.candidates : o.asset = a /\ o.setup = c}) = 1
        /\ Cardinality(chosen) = IF BestTradeNow(scan) = {} THEN 0 ELSE 1
        /\ \A c \in chosen : sent \subseteq {c.asset} /\ scan.markets[c.asset].complete

\* The signal is the best of the ranking that can be traded: no evaluated market with a
\* complete plan scores higher, and a market that failed changes nothing about that.
BestIsSent ==
    \A a \in sent, b \in Evaluated(scan) :
        HasGeometry(scan.markets[b]) => scan.markets[b].score <= scan.markets[a].score

\* Research never takes part in the scan, and while the same assets stay eligible each of
\* them has its turn.
RotationCovers ==
    /\ SupplementPlan(scan) \cap Evaluated(scan) = {}
    /\ turn.cycles > 0 /\ turn.cycles >= Cardinality(turn.eligible) => turn.evaluated = turn.eligible

\* "as the paper execution-service answered for the one submitted selection this cycle":
\* a candidate recorded as submitted reached the service.
SubmittedWasSent ==
    \A c \in payload.candidates : c.reason = "none" => c.asset \in sent
=============================================================================
