------------------------------ MODULE Supervisor ------------------------------
(***************************************************************************)
(* The desktop's supervisor: one thread that looks for a crashed service,  *)
(* then for a crashed forward loop, then probes the market, and around it  *)
(* the operator's commands and the crashes it reacts to.  The execution    *)
(* service keeps one pause flag with one reason; the supervisor, for three *)
(* different causes, and the operator share it.                            *)
(*                                                                         *)
(* Every call to the service is a step of its own: in between, the service *)
(* or the loop may crash and the operator may act.  A call to a service    *)
(* that is down fails, and one to a service that is up may time out, with  *)
(* or without its effect.  What a reconciliation finds is left open.       *)
(***************************************************************************)
EXTENDS Naturals

CONSTANTS
    MaxExecRestarts,   \* MAX_EXEC_RESTARTS
    MaxLoopRestarts,   \* MAX_LOOP_RESTARTS
    Timeouts,          \* calls to a running service may time out
    Commands           \* what the operator does: "pause", "paper", "kill", "restart"

ASSUME RestartAssumption ==
    /\ MaxExecRestarts \in Nat
    /\ MaxLoopRestarts \in Nat
    /\ Timeouts \in BOOLEAN

NotPaused == "NOT_PAUSED"
Owned == {"SUPERVISOR_RECOVERY", "FORWARD_LOOP_CRASHED", "MARKET_DATA_OFFLINE"}
OperatorPause == "DESKTOP_PAUSE"

VARIABLES
    \* the execution service
    alive,             \* it answers
    pause,             \* entries_paused and its reason, in SQLite
    halted,            \* the kill switch
    \* Services (process.rs)
    execCrash,         \* a crash of the service nobody has taken yet
    loop,              \* the forward loop's process
    loopCrash,         \* a crash of the loop nobody has taken yet
    \* Supervisor
    pc,                \* where its thread is
    mine,              \* its last pause request did pause the entries
    execRestarts,      \* automatic restarts within EXEC_WINDOW
    loopRestarts,      \* and within LOOP_WINDOW
    gaveUp,            \* view.exec_gave_up
    recovering,        \* view.recovering
    wantsLoop,         \* wants_loop
    online,            \* view.market.online
    \* the operator has pressed RESUME, and the app has checked the market
    resuming,
    \* history, for the properties only
    reviewed           \* since the last crash a reconciliation was clean, or the
                       \* operator restarted the services

service    == <<alive, pause, halted>>
processes  == <<execCrash, loop, loopCrash>>
budget     == <<execRestarts, loopRestarts>>
view       == <<gaveUp, recovering, wantsLoop, online>>
vars == <<service, processes, budget, view, pc, mine, resuming, reviewed>>

\* startup_sequence has started and reconciled the service, probed the market, and
\* perhaps started the loop.
Init ==
    /\ alive = TRUE
    /\ online \in BOOLEAN
    /\ pause = IF online THEN NotPaused ELSE "MARKET_DATA_OFFLINE"
    /\ halted = FALSE
    /\ execCrash = FALSE
    /\ loop \in {"Stopped", "Running"}
    /\ loopCrash = FALSE
    /\ pc = "tick"
    /\ mine = FALSE
    /\ execRestarts = 0
    /\ loopRestarts = 0
    /\ gaveUp = FALSE
    /\ recovering = FALSE
    /\ wantsLoop = (loop = "Running")
    /\ resuming = FALSE
    /\ reviewed = TRUE

Goto(l) == pc' = l
LoopHasPid == loop \in {"Running", "Stopping"}

-----------------------------------------------------------------------------
(* The service's side of the calls (control/settings.py, api/app.py): each  *)
(* is one transaction.                                                     *)

\* set_entries_paused(True, reason, only_if_unpaused) and (False, only_if_reason).
PauseOverwrites(reason) == pause' = reason
PauseIfUnpaused(reason) == pause' = IF pause = NotPaused THEN reason ELSE pause
ResumeIfReason(reason) == pause' = IF pause = reason THEN NotPaused ELSE pause

\* The call fails, or its answer does not come in time.
NoAnswer == ~alive \/ Timeouts

\* Supervisor.pause: mine is "the answer says it paused".
Pauses(reason) ==
    \/ /\ alive
       /\ PauseIfUnpaused(reason)
       /\ mine' = (pause = NotPaused)
    \/ /\ NoAnswer
       /\ \/ alive /\ PauseIfUnpaused(reason)
          \/ UNCHANGED pause
       /\ mine' = FALSE

ResumesOwn(reason) ==
    \/ alive /\ ResumeIfReason(reason)
    \/ NoAnswer /\ UNCHANGED pause

\* _reconcile: a divergence halts trading.
ReconciledClean == alive /\ reviewed' = TRUE /\ UNCHANGED halted
ReconcileFails ==
    \/ alive /\ halted' = TRUE /\ UNCHANGED reviewed
    \/ NoAnswer /\ UNCHANGED <<halted, reviewed>>
    \/ Timeouts /\ ReconciledClean

\* Services.start_execution_service: a service that runs is left as it is.  One that
\* exits while it starts is reported to the caller, and is no crash.
Started ==
    /\ alive' = TRUE
    /\ UNCHANGED execCrash
StartFails ==
    /\ ~alive
    /\ execCrash' = FALSE
    /\ UNCHANGED alive

-----------------------------------------------------------------------------
(* on_exec_crash and recover_after_restart                                 *)

RestartOnceMore ==
    /\ pc = "tick"
    /\ execCrash
    /\ execCrash' = FALSE
    /\ loop' = IF loop = "Running" THEN "Stopping" ELSE loop
    /\ IF execRestarts > MaxExecRestarts
       THEN gaveUp' = TRUE /\ recovering' = FALSE /\ Goto("loop")
       ELSE recovering' = TRUE /\ UNCHANGED gaveUp /\ Goto("start")
    /\ UNCHANGED <<service, loopCrash, budget, wantsLoop, online, mine, resuming, reviewed>>

TakeExecCrash ==
    /\ pc = "tick"
    /\ execCrash
    /\ execCrash' = FALSE
    /\ loop' = IF loop = "Running" THEN "Stopping" ELSE loop
    /\ IF execRestarts >= MaxExecRestarts
       THEN gaveUp' = TRUE /\ recovering' = FALSE /\ Goto("loop")
       ELSE recovering' = TRUE /\ UNCHANGED gaveUp /\ Goto("start")
    /\ UNCHANGED <<service, loopCrash, budget, wantsLoop, online, mine, resuming, reviewed>>

NoExecCrash ==
    /\ pc = "tick"
    /\ ~execCrash
    /\ Goto("loop")
    /\ UNCHANGED <<service, processes, budget, view, mine, resuming, reviewed>>

RestartUncounted ==
    /\ pc = "start"
    /\ \/ Started /\ Goto("pause") /\ UNCHANGED recovering
       \/ StartFails /\ Goto("loop") /\ recovering' = FALSE
    /\ UNCHANGED <<pause, halted, loop, loopCrash, budget, gaveUp, wantsLoop,
                   online, mine, resuming, reviewed>>

RestartForgotten ==
    /\ pc = "start"
    /\ execRestarts' = execRestarts + 1
    /\ \/ Started /\ Goto("pause")
       \/ StartFails /\ Goto("loop")
    /\ UNCHANGED <<pause, halted, loop, loopCrash, loopRestarts, view,
                   mine, resuming, reviewed>>

\* After the back-off, and after waiting for the loop for ten seconds at most.
RestartService ==
    /\ pc = "start"
    /\ execRestarts' = execRestarts + 1
    /\ \/ Started /\ Goto("pause") /\ UNCHANGED recovering
       \/ StartFails /\ Goto("loop") /\ recovering' = FALSE
    /\ UNCHANGED <<pause, halted, loop, loopCrash, loopRestarts, gaveUp, wantsLoop,
                   online, mine, resuming, reviewed>>

PauseForRecovery ==
    /\ pc = "pause"
    /\ Pauses("SUPERVISOR_RECOVERY")
    /\ Goto("reconcile")
    /\ UNCHANGED <<alive, halted, processes, budget, view, resuming, reviewed>>

RecoverAnyway ==
    /\ pc = "reconcile"
    /\ (ReconciledClean \/ ReconcileFails) /\ Goto("resume")
    /\ UNCHANGED <<alive, pause, processes, budget, view, mine, resuming>>

ReconcileRecovery ==
    /\ pc = "reconcile"
    /\ \/ ReconciledClean /\ Goto("resume") /\ UNCHANGED recovering
       \/ ReconcileFails /\ Goto("loop") /\ recovering' = FALSE
    /\ UNCHANGED <<alive, pause, processes, budget, gaveUp, wantsLoop, online, mine, resuming>>

ResumeRecovery ==
    /\ pc = "resume"
    /\ IF mine THEN ResumesOwn("SUPERVISOR_RECOVERY") ELSE UNCHANGED pause
    /\ Goto("loopBack")
    /\ UNCHANGED <<alive, halted, processes, budget, view, mine, resuming, reviewed>>

BringLoopBack ==
    /\ pc = "loopBack"
    /\ loop' = IF wantsLoop /\ ~LoopHasPid /\ alive THEN "Running" ELSE loop
    /\ recovering' = FALSE
    /\ Goto("loop")
    /\ UNCHANGED <<service, execCrash, loopCrash, budget, gaveUp, wantsLoop, online,
                   mine, resuming, reviewed>>

-----------------------------------------------------------------------------
(* on_loop_crash                                                           *)

TakeLoopCrash ==
    /\ pc = "loop"
    /\ loopCrash
    /\ loopCrash' = FALSE
    /\ Goto("pauseLoop")
    /\ UNCHANGED <<service, execCrash, loop, budget, view, mine, resuming, reviewed>>

NoLoopCrash ==
    /\ pc = "loop"
    /\ ~loopCrash
    /\ Goto("probe")
    /\ UNCHANGED <<service, processes, budget, view, mine, resuming, reviewed>>

PauseForLoop ==
    /\ pc = "pauseLoop"
    /\ Pauses("FORWARD_LOOP_CRASHED")
    /\ Goto(IF wantsLoop THEN "checkLoop" ELSE "probe")
    /\ UNCHANGED <<alive, halted, processes, budget, view, resuming, reviewed>>

\* A status call that fails tells of no halt.
LoopMayRestart ==
    /\ loopRestarts < MaxLoopRestarts
    /\ alive
    /\ ~halted \/ Timeouts
    /\ online
LoopMustNot ==
    \/ loopRestarts >= MaxLoopRestarts
    \/ NoAnswer
    \/ halted
    \/ ~online

CheckLoop ==
    /\ pc = "checkLoop"
    /\ \/ LoopMayRestart /\ Goto("reconcileLoop")
       \/ LoopMustNot /\ Goto("probe")
    /\ UNCHANGED <<service, processes, budget, view, mine, resuming, reviewed>>

ReconcileLoop ==
    /\ pc = "reconcileLoop"
    /\ \/ ReconciledClean /\ loopRestarts' = loopRestarts + 1 /\ Goto("startLoop")
       \/ ReconcileFails /\ Goto("probe") /\ UNCHANGED loopRestarts
    /\ UNCHANGED <<alive, pause, processes, execRestarts, view, mine, resuming>>

\* start_loop refuses a loop that already has a process.
RestartLoop ==
    /\ pc = "startLoop"
    /\ IF LoopHasPid \/ ~alive
       THEN UNCHANGED loop /\ Goto("probe")
       ELSE loop' = "Running" /\ Goto("resumeLoop")
    /\ UNCHANGED <<service, execCrash, loopCrash, budget, view, mine, resuming, reviewed>>

ResumeLoop ==
    /\ pc = "resumeLoop"
    /\ IF mine THEN ResumesOwn("FORWARD_LOOP_CRASHED") ELSE UNCHANGED pause
    /\ Goto("probe")
    /\ UNCHANGED <<alive, halted, processes, budget, view, mine, resuming, reviewed>>

-----------------------------------------------------------------------------
(* probe_market: a rate limit (429) counts as no fresh data.               *)

ProbeMarket ==
    /\ pc = "probe"
    /\ online' \in BOOLEAN
    /\ Goto(IF online' THEN "resumeOffline" ELSE "pauseOffline")
    /\ UNCHANGED <<service, processes, budget, gaveUp, recovering, wantsLoop,
                   mine, resuming, reviewed>>

ProbeNotDue ==
    /\ pc = "probe"
    /\ Goto("tick")
    /\ UNCHANGED <<service, processes, budget, view, mine, resuming, reviewed>>

PauseForMarket ==
    /\ pc = "pauseOffline"
    /\ Pauses("MARKET_DATA_OFFLINE")
    /\ Goto("tick")
    /\ UNCHANGED <<alive, halted, processes, budget, view, resuming, reviewed>>

ResumeForMarket ==
    /\ pc = "resumeOffline"
    /\ ResumesOwn("MARKET_DATA_OFFLINE")
    /\ Goto("tick")
    /\ UNCHANGED <<alive, halted, processes, budget, view, mine, resuming, reviewed>>

-----------------------------------------------------------------------------
(* Crashes, and the passing of time.                                       *)

ServiceCrashes ==
    /\ alive
    /\ alive' = FALSE
    /\ execCrash' = TRUE
    /\ reviewed' = FALSE
    /\ UNCHANGED <<pause, halted, loop, loopCrash, budget, view, pc, mine, resuming>>

LoopCrashes ==
    /\ loop = "Running"
    /\ loop' = "Failed"
    /\ loopCrash' = TRUE
    /\ reviewed' = FALSE
    /\ UNCHANGED <<service, execCrash, budget, view, pc, mine, resuming>>

\* It ends its cycle, or is killed after the grace period.
LoopStops ==
    /\ loop = "Stopping"
    /\ loop' = "Stopped"
    /\ UNCHANGED <<service, execCrash, loopCrash, budget, view, pc, mine, resuming, reviewed>>

\* The oldest restart of a window is forgotten (prune).
WindowPasses ==
    /\ \/ execRestarts > 0 /\ execRestarts' = execRestarts - 1 /\ UNCHANGED loopRestarts
       \/ loopRestarts > 0 /\ loopRestarts' = loopRestarts - 1 /\ UNCHANGED execRestarts
    /\ UNCHANGED <<service, processes, view, pc, mine, resuming, reviewed>>

-----------------------------------------------------------------------------
(* The operator (lib.rs): each command is a thread of its own.             *)

OperatorPauses ==
    /\ "pause" \in Commands
    /\ alive
    /\ pause' = OperatorPause
    /\ UNCHANGED <<alive, halted, processes, budget, view, pc, mine, resuming, reviewed>>

\* resume_entries: the market is checked first, and the resume is unconditional.
AskToResume ==
    /\ "pause" \in Commands
    /\ online
    /\ ~resuming
    /\ resuming' = TRUE
    /\ UNCHANGED <<service, processes, budget, view, pc, mine, reviewed>>

OperatorResumes ==
    /\ resuming
    /\ resuming' = FALSE
    /\ IF alive THEN pause' = NotPaused ELSE UNCHANGED pause
    /\ UNCHANGED <<alive, halted, processes, budget, view, pc, mine, reviewed>>

StartPaper ==
    /\ "paper" \in Commands
    /\ ~LoopHasPid /\ alive
    /\ loop' = "Running"
    /\ wantsLoop' = TRUE
    /\ UNCHANGED <<service, execCrash, loopCrash, budget, gaveUp, recovering, online,
                   pc, mine, resuming, reviewed>>

StopPaper ==
    /\ "paper" \in Commands
    /\ wantsLoop \/ loop = "Running"
    /\ wantsLoop' = FALSE
    /\ loop' = IF loop = "Running" THEN "Stopping" ELSE loop
    /\ UNCHANGED <<service, execCrash, loopCrash, budget, gaveUp, recovering, online,
                   pc, mine, resuming, reviewed>>

\* /kill, and /control/clear-halt after a clean reconciliation.
KillOrClear ==
    /\ "kill" \in Commands
    /\ alive
    /\ \/ halted' = TRUE /\ UNCHANGED reviewed
       \/ halted' = FALSE /\ reviewed' = TRUE
    /\ UNCHANGED <<alive, pause, processes, budget, view, pc, mine, resuming>>

\* restart_services; the reconciliation after it is RECONCILE NOW.
RestartServices ==
    /\ "restart" \in Commands
    /\ Started \/ StartFails
    /\ execRestarts' = 0 /\ loopRestarts' = 0
    /\ gaveUp' = FALSE
    /\ reviewed' = TRUE
    /\ UNCHANGED <<pause, halted, loop, loopCrash, recovering, wantsLoop, online,
                   pc, mine, resuming>>

ReconcileNow ==
    /\ "restart" \in Commands
    /\ ReconciledClean \/ ReconcileFails
    /\ UNCHANGED <<alive, pause, processes, budget, view, pc, mine, resuming>>

-----------------------------------------------------------------------------
OnExecCrash ==
    \/ TakeExecCrash \/ NoExecCrash \/ RestartService
    \/ PauseForRecovery \/ ReconcileRecovery \/ ResumeRecovery \/ BringLoopBack
OnLoopCrash ==
    \/ TakeLoopCrash \/ NoLoopCrash \/ PauseForLoop \/ CheckLoop
    \/ ReconcileLoop \/ RestartLoop \/ ResumeLoop
Market == ProbeMarket \/ ProbeNotDue \/ PauseForMarket \/ ResumeForMarket
Supervise == OnExecCrash \/ OnLoopCrash \/ Market

Environment == ServiceCrashes \/ LoopCrashes \/ LoopStops \/ WindowPasses
Operator ==
    \/ OperatorPauses \/ AskToResume \/ OperatorResumes
    \/ StartPaper \/ StopPaper \/ KillOrClear \/ RestartServices \/ ReconcileNow

Next == Supervise \/ Environment \/ Operator

Spec == Init /\ [][Next]_vars

\* The supervisor's thread keeps running: every call it makes has a timeout.
FairSpec == Spec /\ WF_vars(Supervise)
-----------------------------------------------------------------------------
(* Properties.                                                             *)

Flags ==
    /\ alive \in BOOLEAN /\ halted \in BOOLEAN
    /\ execCrash \in BOOLEAN /\ loopCrash \in BOOLEAN
    /\ mine \in BOOLEAN
    /\ gaveUp \in BOOLEAN /\ recovering \in BOOLEAN
    /\ wantsLoop \in BOOLEAN /\ online \in BOOLEAN
    /\ resuming \in BOOLEAN /\ reviewed \in BOOLEAN

\* Among the types: a restart counter never exceeds its limit (supervisor.rs
\* MAX_EXEC_RESTARTS, MAX_LOOP_RESTARTS).
TypeOK ==
    /\ Flags
    /\ pause \in Owned \union {OperatorPause, NotPaused}
    /\ loop \in {"Stopped", "Running", "Stopping", "Failed"}
    /\ pc \in {"tick", "start", "pause", "reconcile", "resume", "loopBack",
               "loop", "pauseLoop", "checkLoop", "reconcileLoop", "startLoop", "resumeLoop",
               "probe", "pauseOffline", "resumeOffline"}
    /\ execRestarts \in 0..MaxExecRestarts
    /\ loopRestarts \in 0..MaxLoopRestarts

\* An operator's pause is never undone (supervisor.rs:18-20), wherever in the
\* supervisor's sequences of calls it was made.
OperatorPauseKept ==
    [][pause = OperatorPause /\ pause' # OperatorPause => OperatorResumes]_vars

\* The supervisor lifts the pause it made for a crash, and starts the loop, only
\* when a reconciliation was clean since that crash, or the operator has restarted the
\* services; if there has been another crash since, that one is still waiting for it
\* (supervisor.rs:7-13).
Pending == execCrash \/ loopCrash
Reopens ==
    \/ pause \in {"SUPERVISOR_RECOVERY", "FORWARD_LOOP_CRASHED"} /\ pause' = NotPaused
    \/ ~LoopHasPid /\ LoopHasPid'
OnlyReopensReviewed ==
    [][Supervise /\ Reopens => reviewed \/ Pending]_vars

\* Only as many restarts as the operator or the window allow: a service or a loop
\* that keeps crashing is not restarted for ever (integration test: "no infinite
\* restart loop").
RestartsAreBounded ==
    []<><<RestartService \/ RestartLoop>>_vars
        => []<><<WindowPasses \/ RestartServices>>_vars

\* A recovery ends, one way or the other.
RecoveryEnds == recovering ~> ~recovering

\* "only a clean reconciliation lifts that pause and restarts the loop"
\* (supervisor.rs:8): after it, unless there has been another crash, the entries are
\* not paused for recovery any more.
CleanRecoveryResumes ==
    pc = "loopBack" /\ reviewed => pause # "SUPERVISOR_RECOVERY"
==============================================================================
