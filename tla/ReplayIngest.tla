------------------------------ MODULE ReplayIngest ------------------------------
(***************************************************************************)
(* The historical replay: research/runner.js walks an asset's candles in   *)
(* chunks from the cursor the worker keeps, and commits each chunk's       *)
(* decisions; the worker (researchIngest, materializeDataset) stores them, *)
(* moves the cursor and rebuilds the dataset in separate statements.  One  *)
(* run at a time (the workflow's concurrency group), and any statement or  *)
(* answer can be the last of a run.                                        *)
(*                                                                         *)
(* A candle is named by its opening time in units of BASE_MS; the decision *)
(* at time t sees the candles before t.                                    *)
(***************************************************************************)
EXTENDS Integers, FiniteSets

CONSTANTS
    Horizon,       \* bound: candles of the history
    ChunkSize,     \* candles of a chunk
    Chunks,        \* RESEARCH_CHUNKS_PER_ASSET
    EvaluateEvery, \* EVALUATION_MS
    OutcomeBars,   \* candles an outcome needs
    MinRows        \* sampleGate: rows below which no dataset is stored

Times == 0..Horizon

VARIABLES
    candles,       \* the venue's candles; an interval without a trade has none
    setups,        \* decision times with a valid setup
    now,
    start, cursor, processed,   \* replay_states
    decisions,     \* historical_decision_points: stored times
    resolved,      \* those stored with their outcome
    dataset,       \* rows the stored dataset hash covers
    run            \* the run under way

vars == <<candles, setups, now, start, cursor, processed, decisions, resolved, dataset, run>>

Idle == [pc |-> "idle"]

Init ==
    /\ candles \in SUBSET (0..Horizon - 1)
    /\ setups \in SUBSET {t \in 1..Horizon : t % EvaluateEvery = 0}
    /\ now = 0
    /\ start \in {0, 1} /\ cursor = start /\ processed = 0
    /\ decisions = {} /\ resolved = {} /\ dataset = {}
    /\ run = Idle

Archive == UNCHANGED <<cursor, processed, decisions, resolved, dataset>>
World == UNCHANGED <<candles, setups, start>>

Tick ==
    /\ now < Horizon
    /\ now' = now + 1
    /\ World /\ Archive /\ UNCHANGED run

-----------------------------------------------------------------------------
(* The runner                                                              *)

\* candlesFor: what the venue has from the cursor on, for the chunks and their outcomes.
Fetched == {c \in candles : cursor <= c /\ c < now /\ c < cursor + ChunkSize * Chunks + OutcomeBars}

Begins ==
    /\ run = Idle
    /\ run' = [pc |-> "build", chunk |-> 0, first |-> cursor, have |-> Fetched]
    /\ World /\ Archive /\ UNCHANGED now

\* outcome: enough candles after the decision.
HasOutcome(t, have) == Cardinality({c \in have : c >= t}) >= OutcomeBars

\* Mutant: the cursor moves by a whole chunk.
WholeChunk(input, work) == input + ChunkSize

\* cursor_timestamp: one interval for each candle of the chunk.
NextCursor(input, work) == input + Cardinality(work)

Payload(r) ==
    LET input == r.first + r.chunk * ChunkSize
        work == {c \in r.have : input <= c /\ c < input + ChunkSize}
        rows == {c + 1 : c \in work} \cap setups
    IN [input |-> input, work |-> work, rows |-> rows, cursor |-> NextCursor(input, work),
        known |-> {t \in rows : HasOutcome(t, r.have)}]

\* researchIngest's checks: the last candle and every decision lie before the cursor.
Accepted(p) ==
    /\ \A c \in p.work : c < p.cursor
    /\ \A t \in p.rows : p.input <= t /\ t < p.cursor

\* No candle in the chunk, or the chunks are done, or the time of the action is up.
RunEnds ==
    /\ run.pc = "build"
    /\ run' = Idle
    /\ World /\ Archive /\ UNCHANGED now

\* A refused commit throws, and ends the asset's turn.
Commit ==
    /\ run.pc = "build" /\ run.chunk < Chunks
    /\ LET p == Payload(run)
       IN /\ p.work # {}
          /\ run' = IF Accepted(p) THEN [pc |-> "batch", chunk |-> run.chunk, first |-> run.first,
                                         have |-> run.have, payload |-> p]
                    ELSE Idle
    /\ World /\ Archive /\ UNCHANGED now

-----------------------------------------------------------------------------
(* The worker                                                              *)

\* INSERT OR IGNORE of the decisions: a stored row keeps the outcome it was stored with.
Batch ==
    /\ run.pc = "batch"
    /\ decisions' = decisions \cup run.payload.rows
    /\ resolved' = resolved \cup (run.payload.known \ decisions)
    /\ run' = [run EXCEPT !.pc = "state"]
    /\ World /\ UNCHANGED <<now, cursor, processed, dataset>>

\* The replay state's upsert: the cursor is replaced, the counters are added to.
SaveState ==
    /\ run.pc = "state"
    /\ cursor' = run.payload.cursor
    /\ processed' = processed + Cardinality(run.payload.work)
    /\ run' = [run EXCEPT !.pc = "dataset"]
    /\ World /\ UNCHANGED <<now, decisions, resolved, dataset>>

\* materializeDataset, the run's row, and the answer.
MaterializeDataset ==
    /\ run.pc = "dataset"
    /\ dataset' = IF Cardinality(resolved) < MinRows THEN dataset ELSE resolved
    /\ run' = [pc |-> "build", chunk |-> run.chunk + 1, first |-> run.first, have |-> run.have]
    /\ World /\ UNCHANGED <<now, cursor, processed, decisions, resolved>>

\* A statement fails, the answer is lost, the runner is stopped.
Fails ==
    /\ run.pc \in {"batch", "state", "dataset"}
    /\ run' = Idle
    /\ World /\ Archive /\ UNCHANGED now

Next ==
    \/ Tick \/ Begins \/ Commit \/ RunEnds
    \/ Batch \/ SaveState \/ MaterializeDataset \/ Fails

-----------------------------------------------------------------------------
(* Properties                                                              *)

\* Behind the cursor the replay is complete and counted once: whatever failed and was
\* walked again, every candle there was processed once, and every decision there is stored.
ReplayCovers ==
    /\ processed = Cardinality({c \in candles : start <= c /\ c < cursor})
    /\ \A t \in setups : t - 1 \in candles /\ start < t /\ t <= cursor => t \in decisions
    /\ dataset \subseteq resolved /\ resolved \subseteq decisions

\* A chunk the runner builds is one the worker takes.
CommitsAreTaken ==
    run.pc = "build" /\ run.chunk < Chunks /\ Payload(run).work # {} => Accepted(Payload(run))

\* A decision whose outcome is known by now is stored with it.
OutcomesArrive ==
    \A t \in decisions : Cardinality({c \in candles : t <= c /\ c < now}) > OutcomeBars => t \in resolved
=============================================================================
