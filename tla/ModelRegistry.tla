----------------------------- MODULE ModelRegistry -----------------------------
(***************************************************************************)
(* The research models of the worker (worker.mjs) and the two scheduled    *)
(* jobs that feed them: ml-generation.js trains challengers whenever there *)
(* are enough new resolved rows, promotion-readiness.js resolves the       *)
(* shadow scans and judges the challengers by them.  A job runs alone (the *)
(* workflows' concurrency groups); replay commits and shadow scans arrive  *)
(* at any time, and each job reads what it later writes about.             *)
(***************************************************************************)
EXTENDS Integers, Sequences, FiniteSets, SequencesExt

CONSTANTS
    Signals,       \* decision points whose outcome can be resolved
    ScanIds,
    Threshold,     \* ML_NEW_ROW_THRESHOLD
    MaxActive,     \* MAX_ACTIVE_CHALLENGERS
    MinForward     \* minForwardResolved (the diversity gates count as more scans)

Pending == 0
Targets == {"TP1_BEFORE_SL", "FINAL_R"}

VARIABLES
    resolved,      \* historical_decision_points with a resolved target
    generations,   \* ml_dataset_generations: [rows, status], oldest first
    trainer,       \* the generation job
    lifecycle,     \* model |-> its latest lifecycle event
    scans,         \* shadow scans: [model, outcome], outcome Pending until it is resolved
    posts,         \* shadow scans found eligible and not stored yet
    judge          \* the readiness job

vars == <<resolved, generations, trainer, lifecycle, scans, posts, judge>>

-----------------------------------------------------------------------------
(* Reading the registry                                                    *)

Model(g, t) == [generation |-> g, target |-> t]
Models == {Model(g, t) : g \in DOMAIN generations, t \in Targets}
Challengers == {m \in Models : generations[m.generation].status = "CHALLENGER"}
Judged == DOMAIN lifecycle

\* shadowChallengers: the newest challengers without a verdict.
Newer(m) == {o \in Challengers \ Judged :
    \/ o.generation > m.generation
    \/ o.generation = m.generation /\ m.target = "FINAL_R" /\ o.target # m.target}
ShadowChallengers == {m \in Challengers \ Judged : Cardinality(Newer(m)) < MaxActive}

\* The rows of the latest generation.
Latest == IF generations = <<>> THEN {} ELSE Last(generations).rows

-----------------------------------------------------------------------------
(* The generation job                                                      *)

Init ==
    /\ resolved = {} /\ generations = <<>>
    /\ trainer = [pc |-> "idle"]
    /\ lifecycle = [m \in {} |-> "none"] /\ scans = [s \in {} |-> Pending] /\ posts = {}
    /\ judge = [pc |-> "idle"]

\* A replay commit writes a decision point whose outcome is known.
Resolve(x) ==
    /\ x \notin resolved
    /\ resolved' = resolved \cup {x}
    /\ UNCHANGED <<generations, trainer, lifecycle, scans, posts, judge>>

\* run: the rows, the last generation, and the snapshot of both; too few new rows end it.
Snapshot ==
    /\ trainer.pc = "idle"
    /\ Cardinality(resolved \ Latest) >= Threshold
    /\ \E status \in {"CHALLENGER", "REJECTED"} :       \* enough rows out of sample
          trainer' = [pc |-> "commit", rows |-> resolved, status |-> status]
    /\ UNCHANGED <<resolved, generations, lifecycle, scans, posts, judge>>

\* mlGenerationIngest: the rows are the complete resolved set of this moment.
Complete(rows) == rows = resolved

Check ==
    /\ trainer.pc = "commit"
    /\ trainer' = IF Complete(trainer.rows) THEN [trainer EXCEPT !.pc = "batch"] ELSE [pc |-> "idle"]
    /\ UNCHANGED <<resolved, generations, lifecycle, scans, posts, judge>>

\* The batch: the generation and its two models, in one piece.
Store ==
    /\ trainer.pc = "batch"
    /\ generations' = IF \E i \in DOMAIN generations : generations[i].rows = trainer.rows THEN generations
                      ELSE Append(generations, [rows |-> trainer.rows, status |-> trainer.status])
    /\ trainer' = [pc |-> "idle"]
    /\ UNCHANGED <<resolved, lifecycle, scans, posts, judge>>

-----------------------------------------------------------------------------
(* Shadow scans                                                            *)

\* shadowScanIngest: the challenger is eligible when it is read ...
ShadowScan(s, m) ==
    /\ m \in ShadowChallengers
    /\ posts' = posts \cup {[scan |-> s, model |-> m]}
    /\ posts = {}                                        \* bound: one at a time
    /\ s \in DOMAIN scans => scans[s].model = m
    /\ UNCHANGED <<resolved, generations, trainer, lifecycle, scans, judge>>

\* ... and the frozen scan is inserted; a second delivery is ignored.
ShadowStored(p) ==
    /\ p \in posts
    /\ posts' = posts \ {p}
    /\ scans' = [s \in DOMAIN scans \cup {p.scan} |->
                    IF s \in DOMAIN scans THEN scans[s] ELSE [model |-> p.model, outcome |-> Pending]]
    /\ UNCHANGED <<resolved, generations, trainer, lifecycle, judge>>

-----------------------------------------------------------------------------
(* The readiness job                                                       *)

\* shadow-resolver: the pending scans of the active challengers.
Begins ==
    /\ judge.pc = "idle"
    /\ ShadowChallengers # {}
    /\ judge' = [pc |-> "resolve",
                 left |-> {s \in DOMAIN scans : scans[s].model \in ShadowChallengers /\ scans[s].outcome = Pending}]
    /\ UNCHANGED <<resolved, generations, trainer, lifecycle, scans, posts>>

\* Mutant: whatever the scan's outcome is.
AnyScan(s) == TRUE

\* UPDATE ... WHERE outcome_json IS NULL.
IsPending(s) == scans[s].outcome = Pending

\* A scan whose candles are there gets its outcome (the challenger's utility less the
\* incumbent's); every error, and the end of a scan's candles, leaves it pending.  Two
\* deliveries of the same outcome are two updates.
ShadowResolve(s) ==
    /\ judge.pc = "resolve"
    /\ s \in DOMAIN scans /\ scans[s].model \in Challengers
    /\ \E r \in {-1, 1} : scans' = IF IsPending(s) THEN [scans EXCEPT ![s].outcome = r] ELSE scans
    /\ judge' = [judge EXCEPT !.left = @ \ {s}]
    /\ UNCHANGED <<resolved, generations, trainer, lifecycle, posts>>

Forward(m) == {s \in DOMAIN scans : scans[s].model = m /\ scans[s].outcome # Pending}

Utility(m) == Cardinality({s \in Forward(m) : scans[s].outcome = 1})
              - Cardinality({s \in Forward(m) : scans[s].outcome = -1})

\* evaluate: the gates in their order (the integrity gates of reportFor hold of every
\* generation that ml-generation.js stores).
Decision(m) ==
    IF Cardinality(Forward(m)) < MinForward THEN "INSUFFICIENT_EVIDENCE"
    ELSE IF Utility(m) < 0 THEN "REJECTED"
    ELSE IF Utility(m) > 0 THEN "PROMOTION_READY" ELSE "KEEP_CHALLENGER"

\* readinessSource read again, and a report for every active challenger.
Evaluates ==
    /\ judge.pc = "resolve"
    /\ judge' = IF ShadowChallengers = {} THEN [pc |-> "idle"]
                ELSE [pc |-> "commit", reports |-> [m \in ShadowChallengers |-> Decision(m)]]
    /\ UNCHANGED <<resolved, generations, trainer, lifecycle, scans, posts>>

\* readinessCommit: every report is of a challenger still active, or none is saved.
ReadinessCommit ==
    /\ judge.pc = "commit"
    /\ LET verdicts == {m \in DOMAIN judge.reports : judge.reports[m] \in {"PROMOTION_READY", "REJECTED"}}
       IN lifecycle' = IF DOMAIN judge.reports \subseteq ShadowChallengers
                       THEN [m \in Judged \cup verdicts |->
                                IF m \in verdicts THEN judge.reports[m] ELSE lifecycle[m]]
                       ELSE lifecycle
    /\ judge' = [pc |-> "idle"]
    /\ UNCHANGED <<resolved, generations, trainer, scans, posts>>

\* A job that throws, or whose runner is stopped, ends where it is.
Stops ==
    \/ trainer.pc # "idle" /\ trainer' = [pc |-> "idle"]
       /\ UNCHANGED <<resolved, generations, lifecycle, scans, posts, judge>>
    \/ judge.pc # "idle" /\ judge' = [pc |-> "idle"]
       /\ UNCHANGED <<resolved, generations, trainer, lifecycle, scans, posts>>

Next ==
    \/ \E x \in Signals : Resolve(x)
    \/ Snapshot \/ Check \/ Store
    \/ \E s \in ScanIds : ShadowResolve(s) \/ \E m \in Models : ShadowScan(s, m)
    \/ \E p \in posts : ShadowStored(p)
    \/ Begins \/ Evaluates \/ ReadinessCommit \/ Stops

-----------------------------------------------------------------------------
(* Properties                                                              *)

\* Every generation was trained on the complete set of its time: one contains the one
\* before, with at least a threshold of rows that one had not.
GenerationsGrow ==
    \A i \in DOMAIN generations : \A j \in 1..i - 1 :
        /\ generations[j].rows \subseteq generations[i].rows
        /\ Cardinality(generations[i].rows \ generations[j].rows) >= Threshold

\* A verdict rests on enough forward scans, frozen before their outcome was known, and
\* on which way they went.
VerdictsHaveEvidence ==
    \A m \in Judged :
        /\ m \in Challengers
        /\ Cardinality({s \in DOMAIN scans : scans[s].model = m /\ scans[s].outcome # Pending}) >= MinForward

\* An outcome is written once and a verdict is final.
OnceOnly ==
    [][/\ \A s \in DOMAIN scans : scans[s].outcome # Pending => scans'[s] = scans[s]
       /\ \A m \in Judged : lifecycle'[m] = lifecycle[m]]_<<scans, lifecycle>>
=============================================================================
