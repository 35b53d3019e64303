--------------------------- MODULE SupervisorProofs ---------------------------
(***************************************************************************)
(* What the supervisor never does, for any restart limits, whatever        *)
(* crashes, times out or is commanded in between.                          *)
(***************************************************************************)
EXTENDS Supervisor, TLAPS

\* The budget that the supervisor has looked at is still there when it spends it.
BudgetInv ==
    /\ pc = "start" => execRestarts < MaxExecRestarts
    /\ pc = "reconcileLoop" => loopRestarts < MaxLoopRestarts

\* Where the supervisor is about to reopen, the last crash has been reviewed, or it
\* is one that the supervisor has not taken yet.
ReviewInv ==
    pc \in {"resume", "loopBack", "startLoop", "resumeLoop"} => reviewed \/ Pending

\* TypeOK without the flags, and what makes its bounds inductive.
Rest ==
    /\ pause \in Owned \union {OperatorPause, NotPaused}
    /\ loop \in {"Stopped", "Running", "Stopping", "Failed"}
    /\ pc \in {"tick", "start", "pause", "reconcile", "resume", "loopBack",
               "loop", "pauseLoop", "checkLoop", "reconcileLoop", "startLoop", "resumeLoop",
               "probe", "pauseOffline", "resumeOffline"}
    /\ execRestarts \in 0..MaxExecRestarts
    /\ loopRestarts \in 0..MaxLoopRestarts
    /\ BudgetInv

LEMMA InitFlags == Init => Flags
  BY Zenon DEF Init, Flags

LEMMA InitRest == Init => Rest /\ ReviewInv
  BY RestartAssumption DEF Init, Rest, BudgetInv, ReviewInv, Owned, NotPaused, OperatorPause

\* What the calls leave in the flags, and in the pause.
LEMMA CallFlags ==
    ASSUME Flags
    PROVE  /\ \A reason \in Owned : Pauses(reason) => mine' \in BOOLEAN
           /\ ReconciledClean \/ ReconcileFails => halted' \in BOOLEAN /\ reviewed' \in BOOLEAN
           /\ Started \/ StartFails => alive' \in BOOLEAN /\ execCrash' \in BOOLEAN
<1>1. ASSUME NEW reason \in Owned, Pauses(reason) PROVE mine' \in BOOLEAN
  BY <1>1, Zenon DEF Pauses
<1>2. ASSUME ReconciledClean \/ ReconcileFails PROVE halted' \in BOOLEAN /\ reviewed' \in BOOLEAN
  BY <1>2, Zenon DEF ReconciledClean, ReconcileFails, Flags
<1>3. ASSUME Started \/ StartFails PROVE alive' \in BOOLEAN /\ execCrash' \in BOOLEAN
  BY <1>3, Zenon DEF Started, StartFails, Flags
<1> QED  BY <1>1, <1>2, <1>3

LEMMA CallPause ==
    ASSUME Rest, NEW reason \in Owned, Pauses(reason) \/ ResumesOwn(reason)
    PROVE  pause' \in Owned \union {OperatorPause, NotPaused}
  BY DEF Rest, Pauses, PauseIfUnpaused, ResumesOwn, ResumeIfReason

LEMMA NextFlags == Flags /\ [Next]_vars => Flags'
<1> SUFFICES ASSUME Flags, [Next]_vars PROVE Flags'
  OBVIOUS
<1> USE Zenon DEF Flags, service, processes, budget, view
<1>1. CASE OnExecCrash
  <2>1. CASE TakeExecCrash
    BY <2>1 DEF TakeExecCrash
  <2>2. CASE NoExecCrash
    BY <2>2 DEF NoExecCrash
  <2>3. CASE RestartService
    BY <2>3, CallFlags DEF RestartService
  <2>4. CASE PauseForRecovery
    BY <2>4, CallFlags DEF PauseForRecovery, Owned
  <2>5. CASE ReconcileRecovery
    BY <2>5, CallFlags DEF ReconcileRecovery
  <2>6. CASE ResumeRecovery
    BY <2>6 DEF ResumeRecovery
  <2>7. CASE BringLoopBack
    BY <2>7 DEF BringLoopBack
  <2> QED  BY <1>1, <2>1, <2>2, <2>3, <2>4, <2>5, <2>6, <2>7 DEF OnExecCrash
<1>2. CASE OnLoopCrash
  <2>1. CASE TakeLoopCrash
    BY <2>1 DEF TakeLoopCrash
  <2>2. CASE NoLoopCrash
    BY <2>2 DEF NoLoopCrash
  <2>3. CASE PauseForLoop
    BY <2>3, CallFlags DEF PauseForLoop, Owned
  <2>4. CASE CheckLoop
    BY <2>4 DEF CheckLoop
  <2>5. CASE ReconcileLoop
    BY <2>5, CallFlags DEF ReconcileLoop
  <2>6. CASE RestartLoop
    BY <2>6 DEF RestartLoop
  <2>7. CASE ResumeLoop
    BY <2>7 DEF ResumeLoop
  <2> QED  BY <1>2, <2>1, <2>2, <2>3, <2>4, <2>5, <2>6, <2>7 DEF OnLoopCrash
<1>3. CASE Market
  <2>1. CASE ProbeMarket
    BY <2>1 DEF ProbeMarket
  <2>2. CASE ProbeNotDue
    BY <2>2 DEF ProbeNotDue
  <2>3. CASE PauseForMarket
    BY <2>3, CallFlags DEF PauseForMarket, Owned
  <2>4. CASE ResumeForMarket
    BY <2>4 DEF ResumeForMarket
  <2> QED  BY <1>3, <2>1, <2>2, <2>3, <2>4 DEF Market
<1>4. CASE Environment
  <2>1. CASE ServiceCrashes
    BY <2>1, RestartAssumption DEF ServiceCrashes
  <2>2. CASE LoopCrashes
    BY <2>2 DEF LoopCrashes
  <2>3. CASE LoopStops
    BY <2>3 DEF LoopStops
  <2>4. CASE WindowPasses
    BY <2>4 DEF WindowPasses
  <2> QED  BY <1>4, <2>1, <2>2, <2>3, <2>4 DEF Environment
<1>5. CASE Operator
  <2>1. CASE OperatorPauses
    BY <2>1 DEF OperatorPauses
  <2>2. CASE AskToResume
    BY <2>2 DEF AskToResume
  <2>3. CASE OperatorResumes
    BY <2>3 DEF OperatorResumes
  <2>4. CASE StartPaper
    BY <2>4 DEF StartPaper
  <2>5. CASE StopPaper
    BY <2>5 DEF StopPaper
  <2>6. CASE KillOrClear
    BY <2>6 DEF KillOrClear
  <2>7. CASE RestartServices
    BY <2>7, CallFlags DEF RestartServices
  <2>8. CASE ReconcileNow
    BY <2>8, CallFlags DEF ReconcileNow
  <2> QED  BY <1>5, <2>1, <2>2, <2>3, <2>4, <2>5, <2>6, <2>7, <2>8 DEF Operator
<1>6. CASE UNCHANGED vars  BY <1>6 DEF vars
<1> QED  BY <1>1, <1>2, <1>3, <1>4, <1>5, <1>6 DEF Next, Supervise

LEMMA NextRest == Rest /\ [Next]_vars => Rest'
<1> SUFFICES ASSUME Rest, [Next]_vars PROVE Rest'
  OBVIOUS
<1> USE RestartAssumption DEF Rest, BudgetInv, Goto, service, processes, budget, view
<1>1. CASE OnExecCrash
  <2>1. CASE TakeExecCrash
    BY <2>1 DEF TakeExecCrash
  <2>2. CASE NoExecCrash
    BY <2>2 DEF NoExecCrash
  <2>3. CASE RestartService
    BY <2>3 DEF RestartService
  <2>4. CASE PauseForRecovery
    BY <2>4, CallPause DEF PauseForRecovery, Owned
  <2>5. CASE ReconcileRecovery
    BY <2>5 DEF ReconcileRecovery
  <2>6. CASE ResumeRecovery
    BY <2>6, CallPause DEF ResumeRecovery, Owned
  <2>7. CASE BringLoopBack
    BY <2>7 DEF BringLoopBack
  <2> QED  BY <1>1, <2>1, <2>2, <2>3, <2>4, <2>5, <2>6, <2>7 DEF OnExecCrash
<1>2. CASE OnLoopCrash
  <2>1. CASE TakeLoopCrash
    BY <2>1 DEF TakeLoopCrash
  <2>2. CASE NoLoopCrash
    BY <2>2 DEF NoLoopCrash
  <2>3. CASE PauseForLoop
    BY <2>3, CallPause DEF PauseForLoop, Owned
  <2>4. CASE CheckLoop
    BY <2>4 DEF CheckLoop, LoopMayRestart
  <2>5. CASE ReconcileLoop
    BY <2>5 DEF ReconcileLoop
  <2>6. CASE RestartLoop
    BY <2>6 DEF RestartLoop
  <2>7. CASE ResumeLoop
    BY <2>7, CallPause DEF ResumeLoop, Owned
  <2> QED  BY <1>2, <2>1, <2>2, <2>3, <2>4, <2>5, <2>6, <2>7 DEF OnLoopCrash
<1>3. CASE Market
  <2>1. CASE ProbeMarket
    BY <2>1 DEF ProbeMarket
  <2>2. CASE ProbeNotDue
    BY <2>2 DEF ProbeNotDue
  <2>3. CASE PauseForMarket
    BY <2>3, CallPause DEF PauseForMarket, Owned
  <2>4. CASE ResumeForMarket
    BY <2>4, CallPause DEF ResumeForMarket, Owned
  <2> QED  BY <1>3, <2>1, <2>2, <2>3, <2>4 DEF Market
<1>4. CASE Environment
  <2>1. CASE ServiceCrashes
    BY <2>1 DEF ServiceCrashes
  <2>2. CASE LoopCrashes
    BY <2>2 DEF LoopCrashes
  <2>3. CASE LoopStops
    BY <2>3 DEF LoopStops
  <2>4. CASE WindowPasses
    BY <2>4 DEF WindowPasses
  <2> QED  BY <1>4, <2>1, <2>2, <2>3, <2>4 DEF Environment
<1>5. CASE Operator
  <2>1. CASE OperatorPauses
    BY <2>1 DEF OperatorPauses
  <2>2. CASE AskToResume
    BY <2>2 DEF AskToResume
  <2>3. CASE OperatorResumes
    BY <2>3 DEF OperatorResumes
  <2>4. CASE StartPaper
    BY <2>4 DEF StartPaper
  <2>5. CASE StopPaper
    BY <2>5 DEF StopPaper
  <2>6. CASE KillOrClear
    BY <2>6 DEF KillOrClear
  <2>7. CASE RestartServices
    BY <2>7 DEF RestartServices
  <2>8. CASE ReconcileNow
    BY <2>8 DEF ReconcileNow
  <2> QED  BY <1>5, <2>1, <2>2, <2>3, <2>4, <2>5, <2>6, <2>7, <2>8 DEF Operator
<1>6. CASE UNCHANGED vars  BY <1>6 DEF vars
<1> QED  BY <1>1, <1>2, <1>3, <1>4, <1>5, <1>6 DEF Next, Supervise

-----------------------------------------------------------------------------
\* Every variable keeps its type; among them the restart counters their limits
\* (supervisor.rs MAX_EXEC_RESTARTS, MAX_LOOP_RESTARTS).
THEOREM SupervisorTypeCorrect == Spec => []TypeOK
<1>1. Flags /\ Rest => TypeOK  BY DEF Rest, TypeOK
<1> QED  BY <1>1, InitFlags, InitRest, NextFlags, NextRest, PTL DEF Spec

\* No step but the operator's own RESUME ends an operator's pause (supervisor.rs:18).
THEOREM OperatorPauseIsKept == Spec => OperatorPauseKept
<1> DEFINE Kept == pause = OperatorPause /\ pause' # OperatorPause => OperatorResumes
<1>1. [Next]_vars => [Kept]_vars
  <2> SUFFICES ASSUME [Next]_vars, pause = OperatorPause, pause' # OperatorPause
               PROVE  OperatorResumes
    BY DEF vars
  <2> USE DEF service, processes, budget, view, OperatorPause, NotPaused
  <2>1. ASSUME NEW reason \in Owned PROVE ~Pauses(reason) /\ ~ResumesOwn(reason)
    BY <2>1 DEF Pauses, ResumesOwn, PauseIfUnpaused, ResumeIfReason, Owned
  <2>2. ~OnExecCrash
    BY <2>1 DEF OnExecCrash, TakeExecCrash, NoExecCrash, RestartService, PauseForRecovery,
                ReconcileRecovery, ResumeRecovery, BringLoopBack, Owned
  <2>3. ~OnLoopCrash
    BY <2>1 DEF OnLoopCrash, TakeLoopCrash, NoLoopCrash, PauseForLoop, CheckLoop,
                ReconcileLoop, RestartLoop, ResumeLoop, Owned
  <2>4. ~Market
    BY <2>1 DEF Market, ProbeMarket, ProbeNotDue, PauseForMarket, ResumeForMarket, Owned
  <2>5. ~Environment
    BY DEF Environment, ServiceCrashes, LoopCrashes, LoopStops, WindowPasses
  <2>6. CASE Operator
    BY <2>6 DEF Operator, OperatorPauses, AskToResume, StartPaper, StopPaper, KillOrClear,
                RestartServices, ReconcileNow
  <2>7. ~UNCHANGED vars  BY DEF vars
  <2> QED  BY <2>2, <2>3, <2>4, <2>5, <2>6, <2>7 DEF Next, Supervise
<1> QED  BY <1>1, PTL DEF Spec, OperatorPauseKept, Kept

-----------------------------------------------------------------------------
\* A crash of the service leaves something pending, and only a clean
\* reconciliation or the operator's restart makes a crash reviewed.
LEMMA NextReviewInv == ReviewInv /\ [Next]_vars => ReviewInv'
<1> SUFFICES ASSUME ReviewInv, [Next]_vars PROVE ReviewInv'
  OBVIOUS
<1> USE DEF ReviewInv, Pending, Goto, service, processes, budget, view
<1>1. CASE OnExecCrash
  BY <1>1 DEF OnExecCrash, TakeExecCrash, NoExecCrash, RestartService, PauseForRecovery,
              ReconcileRecovery, ReconciledClean, ResumeRecovery, BringLoopBack
<1>2. CASE OnLoopCrash
  BY <1>2 DEF OnLoopCrash, TakeLoopCrash, NoLoopCrash, PauseForLoop, CheckLoop,
              ReconcileLoop, ReconciledClean, RestartLoop, ResumeLoop
<1>3. CASE Market
  BY <1>3 DEF Market, ProbeMarket, ProbeNotDue, PauseForMarket, ResumeForMarket
<1>4. CASE Environment
  BY <1>4 DEF Environment, ServiceCrashes, LoopCrashes, LoopStops, WindowPasses
<1>5. CASE Operator
  BY <1>5 DEF Operator, OperatorPauses, AskToResume, OperatorResumes, StartPaper, StopPaper,
              KillOrClear, RestartServices,
              ReconcileNow, ReconciledClean, ReconcileFails
<1>6. CASE UNCHANGED vars  BY <1>6 DEF vars
<1> QED  BY <1>1, <1>2, <1>3, <1>4, <1>5, <1>6 DEF Next, Supervise

\* A step of the supervisor that lifts the pause of a crash, or starts the loop, is
\* one of four.
LEMMA WhereItReopens ==
    ASSUME Supervise, Reopens
    PROVE  pc \in {"resume", "loopBack", "startLoop", "resumeLoop"}
<1> USE DEF Goto, service, processes, budget, view, Reopens, LoopHasPid
<1>1. ASSUME NEW reason \in Owned, Pauses(reason)
      PROVE  pause' = NotPaused => pause = NotPaused
  BY <1>1 DEF Pauses, PauseIfUnpaused, Owned, NotPaused
<1>2. ASSUME ResumesOwn("MARKET_DATA_OFFLINE"), pause' # pause
      PROVE  pause = "MARKET_DATA_OFFLINE"
  BY <1>2 DEF ResumesOwn, ResumeIfReason
<1>3. CASE OnExecCrash
  BY <1>1, <1>3 DEF OnExecCrash, TakeExecCrash, NoExecCrash, RestartService, PauseForRecovery,
              ReconcileRecovery, ResumeRecovery, BringLoopBack, Owned, NotPaused
<1>4. CASE OnLoopCrash
  BY <1>1, <1>4 DEF OnLoopCrash, TakeLoopCrash, NoLoopCrash, PauseForLoop, CheckLoop,
              ReconcileLoop, RestartLoop, ResumeLoop, Owned, NotPaused
<1>5. CASE Market
  BY <1>1, <1>2, <1>5 DEF Market, ProbeMarket, ProbeNotDue, PauseForMarket, ResumeForMarket,
              Owned, NotPaused
<1> QED  BY <1>3, <1>4, <1>5 DEF Supervise

\* After a crash of the service or of the loop, the supervisor reopens
\* only what a clean reconciliation has reviewed (supervisor.rs:7-13).
THEOREM ReopensReviewed == Spec => OnlyReopensReviewed
<1>1. Init => ReviewInv  BY InitRest
<1>2. ReviewInv /\ [Next]_vars => ReviewInv'  BY NextReviewInv
<1>3. ReviewInv => [Supervise /\ Reopens => reviewed \/ Pending]_vars
  BY WhereItReopens DEF ReviewInv
<1> QED  BY <1>1, <1>2, <1>3, PTL DEF Spec, OnlyReopensReviewed
==============================================================================
