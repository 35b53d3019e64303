------------------------------- MODULE MCWorker -------------------------------
(***************************************************************************)
(* What the cloud keeps, for the customer and for research, and the parts  *)
(* of the bridge that feed it, side by side.  A behaviour belongs to the   *)
(* part chosen in its initial state; the variables of the others rest at   *)
(* one initial state.                                                      *)
(***************************************************************************)
EXTENDS ScanAllowance, Integers, Sequences

CONSTANTS
    Recommendations, Calls, Rows, Exits, NoExit,    \* TradeJournal
    Users, Guest, Offered, NoScan, MaxScans,        \* CustomerClient
    Tabs, Markets, Found, Balances, FirstBalance, NoQuant,        \* ChartAssistant
    NoAnalysis, NoAsk, FreeMode, MaxScanned, MaxPapered,
    Coins, Sockets, NoSocket, LastBackoff,          \* TradeStream
    Approved, Selected, Setups, NoSetup,            \* ScanCycle
    PerCycle, EveryN, MaxCycles,
    Hashes, Rebuilds, Results, Clients,             \* RankArchive (its Ids are those above)
    Signals, ScanIds, Threshold, MaxActive, MinForward,     \* ModelRegistry
    Horizon, ChunkSize, Chunks, EvaluateEvery, OutcomeBars, MinRows, \* ReplayIngest
    Callers, Alerts, Limit, Window, MaxBuckets, Day, MaxTime \* WorkerGate

ASSUME StreamAssumption == NoSocket \notin Sockets /\ LastBackoff \in Nat

ASSUME GateAssumption ==
    /\ Limit \in Nat \ {0}
    /\ Window \in Nat \ {0}
    /\ MaxTime \in Nat

ASSUME CycleAssumption ==
    /\ Selected \in Seq({Selected[i] : i \in DOMAIN Selected})
    /\ Approved \in Seq({Approved[i] : i \in DOMAIN Approved})
    /\ PerCycle \in Nat /\ EveryN \in Nat \ {0}

ASSUME ArchiveAssumption ==
    /\ \A u \in Rebuilds : IsFiniteSet(DOMAIN u) /\ \A c \in DOMAIN u : u[c] \in Nat
    /\ "none" \notin Hashes
    /\ {"UNRESOLVED_DATA_GAP", "PENDING_OUTCOME"} \cap Results = {}

ASSUME RegistryAssumption ==
    /\ IsFiniteSet(Signals) /\ IsFiniteSet(ScanIds)
    /\ Threshold \in Nat /\ MinForward \in Nat

ASSUME ReplayAssumption ==
    Horizon \in Nat /\ ChunkSize \in Nat /\ Chunks \in Nat /\ OutcomeBars \in Nat

ASSUME AssistantAssumption ==
    /\ Tabs # {} /\ Markets # {}
    /\ Balances \subseteq Nat /\ FirstBalance \in Nat
    /\ NoQuant \notin Markets /\ FreeMode \in BOOLEAN
    /\ \A results \in Found : \A a \in DOMAIN results :
          /\ a \in Markets
          /\ results[a].decision \in {"ANALYSIS UNAVAILABLE", "NO TRADE", "WAIT", "TAKE TRADE"}
          /\ results[a].direction \in STRING
          /\ {results[a].price, results[a].entry, results[a].units, results[a].margin} \subseteq Int
          /\ results[a].valid \in BOOLEAN

VARIABLES
    part,
    current, stored, trades, calls,
    session, user, sequence, active, flight, scanning, scan, fresh,
    records, local, cloud, reads, takes, asked, account,
    page, portfolio, saved, scanned,
    state, desired, subscribed, ws, attempts, reconnect, ping, sock, feed,
    pc, cycle, found, sent, execution, payload, turn,
    snapshot, rows, sequences, clients,
    resolved, generations, trainer, lifecycle, scans, posts, judge,
    candles, setups, clock, start, cursor, processed, decisions, labelled, dataset, run,
    now, buckets, admitted, seen, evidence, request, answers

J == INSTANCE TradeJournal WITH Requests <- Calls, req <- calls
C == INSTANCE CustomerClient WITH Recommendations <- Offered
H == INSTANCE ChartAssistant
S == INSTANCE TradeStream
D == INSTANCE ScanCycle WITH scan <- found
A == INSTANCE RankArchive
G == INSTANCE ModelRegistry
P == INSTANCE ReplayIngest WITH now <- clock, resolved <- labelled
W == INSTANCE WorkerGate WITH stored <- evidence

journalVars == <<current, stored, trades, calls>>
clientVars == <<session, user, sequence, active, flight, scanning, scan, fresh,
                records, local, cloud, reads, takes, asked, account>>
assistantVars == <<page, portfolio, saved, scanned>>
streamVars == <<state, desired, subscribed, ws, attempts, reconnect, ping, sock, feed>>
cycleVars == <<pc, cycle, found, sent, execution, payload, turn>>
archiveVars == <<snapshot, rows, sequences, clients>>
registryVars == <<resolved, generations, trainer, lifecycle, scans, posts, judge>>
replayVars == <<candles, setups, clock, start, cursor, processed, decisions, labelled, dataset, run>>
gateVars == <<now, buckets, admitted, seen, evidence, request, answers>>
appVars == <<vars, journalVars, clientVars, assistantVars>>
bridgeVars == <<streamVars, cycleVars>>
researchVars == <<archiveVars, registryVars, replayVars, gateVars>>
workerVars == <<part, appVars, bridgeVars, researchVars>>

WorkerInit ==
    /\ part \in {"allowance", "journal", "client", "assistant", "stream", "cycle",
                 "archive", "registry", "replay", "gate"}
    /\ \/ part = "allowance"
       \/ part # "allowance" /\ unlimited = FALSE
          /\ req = [r \in Requests |-> [pc |-> "idle", id |-> CHOOSE i \in Ids : TRUE, scanned |-> FALSE]]
    /\ \/ part = "client"
       \/ part # "client" /\ session = Guest /\ local = {} /\ cloud = [v \in Users |-> {}]
    /\ \/ part = "stream"
       \/ part # "stream" /\ state = "IDLE"
    /\ \/ part = "replay"
       \/ part # "replay" /\ candles = {} /\ setups = {} /\ start = 0
    /\ Init /\ J!Init /\ C!Init /\ H!AssistantInit /\ S!Init /\ D!Init /\ A!Init /\ G!Init /\ P!Init /\ W!Init

InApp == UNCHANGED <<part, bridgeVars, researchVars>>
InBridge == UNCHANGED <<part, appVars, researchVars>>
InResearch == UNCHANGED <<part, appVars, bridgeVars>>

WorkerNext ==
    \/ part = "allowance" /\ Next /\ UNCHANGED <<journalVars, clientVars, assistantVars>> /\ InApp
    \/ part = "journal" /\ J!Next /\ UNCHANGED <<vars, clientVars, assistantVars>> /\ InApp
    \/ part = "client" /\ C!Next /\ UNCHANGED <<vars, journalVars, assistantVars>> /\ InApp
    \/ part = "assistant" /\ H!AssistantNext /\ UNCHANGED <<vars, journalVars, clientVars>> /\ InApp
    \/ part = "stream" /\ S!Next /\ UNCHANGED cycleVars /\ InBridge
    \/ part = "cycle" /\ D!Next /\ UNCHANGED streamVars /\ InBridge
    \/ part = "archive" /\ A!Next /\ UNCHANGED <<registryVars, replayVars, gateVars>> /\ InResearch
    \/ part = "registry" /\ G!Next /\ UNCHANGED <<archiveVars, replayVars, gateVars>> /\ InResearch
    \/ part = "replay" /\ P!Next /\ UNCHANGED <<archiveVars, registryVars, gateVars>> /\ InResearch
    \/ part = "gate" /\ W!Next /\ UNCHANGED <<archiveVars, registryVars, replayVars>> /\ InResearch

WorkerSpec == WorkerInit /\ [][WorkerNext]_workerVars

-----------------------------------------------------------------------------
\* The universe of the scan, and the assets research may evaluate besides.
FourApproved == <<"a", "b", "x", "y">>
TwoSelected == <<"a", "b">>

\* What a rebuild of a stored scan can send: both candidates in either order, one of them
\* without a rank, one alone; and an order with a hole, which is refused.
SomeRebuilds ==
    LET i == CHOOSE c \in Ids : TRUE
        Both(x, y) == [c \in Ids |-> IF c = i THEN x ELSE y]
    IN {Both(1, 2), Both(2, 1), Both(0, 1), Both(0, 2), [c \in {i} |-> 1]}

\* What scans of two markets find: nothing, two longs, a short while the other is missing.
\* A long that falls to the short's price loses its margin, the short that rises more.
Quoted(side, p, m) == [decision |-> "TAKE TRADE", direction |-> side, price |-> p, entry |-> p,
                       units |-> 1, margin |-> m, valid |-> TRUE]
SomeFound == {<<>>, [a \in Markets |-> Quoted("LONG", 3, 2)],
              [a \in Markets \ {CHOOSE b \in Markets : TRUE} |-> Quoted("SHORT", 1, 1)]}

-----------------------------------------------------------------------------
\* One trade of a recommendation however often it is taken, and only a close that read
\* the trade open moves its exit.
JournalHolds == J!JournalHolds

\* Only the scan begun last puts anything on the page of a customer; in the browser page
\* the paper portfolio adds up, carries what it holds and is what a reload brings back,
\* and an answer of the chart model is about the selection unless that moved meanwhile.
PagesHold == C!LatestScanOnly /\ H!AssistantHolds

\* One live socket, no giving up while a position is held, and its prints are fed.
StreamFollowsPositions == S!TypeOK /\ S!OneLiveSocket /\ S!NeverGivesUp /\ S!FeedsWhatIsHeld

\* Of everything a scan saw one plan at most is sent, it is the best, and every research
\* asset has its turn.
CycleIsSound == D!OneSubmitted /\ D!BestIsSent /\ D!RotationCovers

\* What the worker keeps for research stands: a stored scan is frozen before its outcomes,
\* generations grow, a verdict rests on forward evidence and is final, and behind its
\* cursor the replay is complete and counted once.
ArchivesHold ==
    /\ [](G!GenerationsGrow /\ G!VerdictsHaveEvidence /\ P!ReplayCovers)
    /\ [][A!Frozen]_archiveVars
    /\ G!OnceOnly

\* The rate limit holds whatever is swept, and an alert is accepted once.
GateHolds == W!GateHolds
=============================================================================
