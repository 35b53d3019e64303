---------------------------- MODULE ForwardLoop ----------------------------
(***************************************************************************)
(* The forward loop (signal-bridge/forward_loop.mjs) and the monitor it    *)
(* starts, wakes and stops.                                                *)
(*                                                                         *)
(* A cycle marks every open trade against its completed candles, scans,    *)
(* perhaps posts one signal, lets the research observe, reconciles, and    *)
(* wakes the monitor; a request that fails ends it early, and then the     *)
(* monitor is not woken.  Between cycles the loop sleeps, and a stop is    *)
(* looked at only there.                                                   *)
(***************************************************************************)
EXTENDS PositionMonitor

VARIABLES
    lpc,           \* listing, marking, pricing, observing, reconciling, asleep, ended
    marks,         \* instruments the cycle has still to mark
    dataOk,        \* every open trade's candles could be read
    requested      \* stopControl.requested

loop == <<lpc, marks, dataOk, requested>>
monitor == <<state, open, posts, timer, again, coins, beat>>
allVars == <<vars, loop>>

LoopInit ==
    /\ Init
    /\ lpc = "listing"
    /\ marks = {}
    /\ dataOk = TRUE
    /\ requested = FALSE

Goto(l) == lpc' = l

\* A cycle that throws is over: the loop sleeps, and nobody is woken.
CycleThrows ==
    /\ Goto("asleep")
    /\ marks' = {}
    /\ dataOk' = TRUE
    /\ UNCHANGED <<requested, monitor>>

-----------------------------------------------------------------------------
(* advanceOpenTrades                                                       *)

ListsOpen ==
    /\ lpc = "listing"
    /\ \/ /\ Goto("marking")
          /\ marks' = Listed(OpenRows)
          /\ dataOk' = TRUE
          /\ UNCHANGED <<requested, monitor, failures>>
       \/ Fails /\ CycleThrows
    /\ UNCHANGED <<service>>

\* The candles of i cannot be read; the other trades are still marked.
CandlesUnread(i) ==
    /\ lpc = "marking"
    /\ i \in marks
    /\ marks' = marks \ {i}
    /\ dataOk' = FALSE
    /\ UNCHANGED <<lpc, requested, service, monitor, failures>>

\* POST /paper/mark: the completed candles reached price p, or none has completed.
Marked(i) ==
    /\ lpc = "marking"
    /\ i \in marks
    /\ \/ UNCHANGED stage
       \/ \E p \in Prices :
            /\ Live(i) /\ Crosses(stage[i], p)
            /\ stage' = [stage EXCEPT ![i] = After(@, p)]
    /\ \/ marks' = marks \ {i} /\ UNCHANGED <<lpc, dataOk, requested, monitor, failures>>
       \/ Fails /\ CycleThrows
    /\ UNCHANGED <<opened, falling>>

-----------------------------------------------------------------------------
(* runCycle                                                                *)

\* The market is scanned.  A candidate goes on to be priced when every open trade's
\* candles could be read; otherwise the reason is posted as no-trade, and after a scan
\* deferred for the rate limit the research has nothing to observe.
Scanned(next) ==
    /\ lpc = "marking"
    /\ marks = {}
    /\ next = "pricing" => dataOk
    /\ \/ Goto(next) /\ dataOk' = TRUE /\ UNCHANGED <<marks, requested, monitor, failures>>
       \/ Fails /\ CycleThrows
    /\ UNCHANGED <<service>>

\* POST /paper/signal: the service opens the trade, or refuses it.
SignalPosted(i) ==
    /\ lpc = "pricing"
    /\ \/ /\ ~Live(i)
          /\ i \notin falling
          /\ opened[i] < MaxTrades
          /\ opened' = [opened EXCEPT ![i] = @ + 1]
          /\ stage' = [stage EXCEPT ![i] = "open"]
       \/ UNCHANGED <<opened, stage>>
    /\ \/ Goto("observing") /\ UNCHANGED <<marks, dataOk, requested, monitor, failures>>
       \/ Fails /\ CycleThrows
    /\ UNCHANGED falling

\* shadowObserve: whatever becomes of it, the cycle goes on.
Observed ==
    /\ lpc = "observing"
    /\ Goto("reconciling")
    /\ UNCHANGED <<marks, dataOk, requested, service, monitor, failures>>

-----------------------------------------------------------------------------
(* runLoop                                                                 *)

WakesMonitor ==
    /\ IF state = "STOPPED" THEN UNCHANGED <<pc, again, timer>> ELSE Wake /\ KeepsTimer
    /\ UNCHANGED <<state, open, posts, coins, answer, mids, at, tickExited>>

Reconciles ==
    /\ lpc = "reconciling"
    /\ \/ /\ Goto("asleep")
          /\ WakesMonitor
          /\ UNCHANGED <<marks, dataOk, requested, failures>>
       \/ Fails /\ CycleThrows
    /\ UNCHANGED <<service>>

\* Mutant: a stop requested in a cycle is looked at only by the sleep.
NextCycleAnyway ==
    /\ lpc = "asleep"
    /\ Goto("listing")
    /\ UNCHANGED <<marks, dataOk, requested, service, monitor, failures>>

NextCycle ==
    /\ lpc = "asleep"
    /\ ~requested
    /\ Goto("listing")
    /\ UNCHANGED <<marks, dataOk, requested, service, monitor, failures>>

RequestStop ==
    /\ ~requested
    /\ lpc # "ended"
    /\ requested' = TRUE
    /\ UNCHANGED <<lpc, marks, dataOk, service, monitor, failures>>

\* The loop is left: the monitor is stopped and the segment ended.
Ends ==
    /\ lpc = "asleep"
    /\ requested
    /\ Goto("ended")
    /\ Stop
    /\ UNCHANGED <<marks, dataOk, requested, service, posts, again, beat, failures>>

Cycle ==
    \/ ListsOpen
    \/ \E i \in Instruments : CandlesUnread(i) \/ Marked(i)
    \/ \E next \in {"pricing", "observing", "reconciling"} : Scanned(next)
    \/ \E i \in Instruments : SignalPosted(i)
    \/ Observed
    \/ Reconciles
    \/ NextCycle

LoopAside == UNCHANGED loop

TimerRuns == TimerFires /\ LoopAside
BeatRuns == Beat /\ LoopAside
ForwardRuns(t) == Forward(t) /\ LoopAside
MarketMoves == Market /\ LoopAside

LoopNext ==
    \/ TimerRuns \/ BeatRuns
    \/ \E t \in Trades : ForwardRuns(t)
    \/ MarketMoves
    \/ Cycle \/ RequestStop \/ Ends

\* Timers fire, answers come, and the loop goes on; prints, prices, failures and
\* the operator do as they like.
Progress ==
    /\ WF_allVars(TimerRuns)
    /\ WF_allVars(BeatRuns)
    /\ \A t \in Trades : WF_allVars(ForwardRuns(t))
    /\ WF_allVars(Cycle)
    /\ WF_allVars(Ends)

LoopSpec == LoopInit /\ [][LoopNext]_allVars /\ Progress

-----------------------------------------------------------------------------
(* Properties                                                              *)

TypeOK ==
    /\ opened \in [Instruments -> 0..MaxTrades]
    /\ stage \in [Instruments -> {"none", "open", "tp1"}]
    /\ falling \subseteq Instruments
    /\ state \in {"STOPPED", "IDLE", "ACTIVE"}
    /\ \A i \in Instruments : {open[i], answer[i], at[i]} \subseteq
            [n : 0..MaxTrades, stage : {"none", "open", "tp1"}]
    /\ \A t \in Trades : posts[t].phase \in {"none", "sent", "exited", "awaiting"}
    /\ pc \in {"off", "reading", "read", "pricing", "ticking", "posted", "resting"}
    /\ mids \in [Instruments -> Prices \cup {NoPrice}]
    /\ failures \in 0..MaxFailures
    /\ lpc \in {"listing", "marking", "pricing", "observing", "reconciling", "asleep", "ended"}
    /\ marks \subseteq Instruments

\* A monitor that follows positions always has something to bring it back to them:
\* a beat that runs, or the heartbeat timer.
ActiveIsArmed == state = "ACTIVE" /\ pc = "off" => timer

\* Once the loop has stopped it, the monitor stays stopped, arms no timer and follows no
\* coin, whatever was running or in flight then.
StoppedIsQuiet == lpc = "ended" => state = "STOPPED" /\ ~timer /\ coins = {}

\* With no request lost, whenever the loop sleeps and no beat runs, the monitor judges
\* prints by exactly the trades the service has open, at the stage they are in: what
\* opened in the cycle and what exited under a running beat has been read again.
RowsAgree ==
    /\ lpc = "asleep" /\ pc = "off" /\ failures = 0
    /\ \A t \in Trades : posts[t].phase \in {"none", "sent"}
    => open = OpenRows

\* The monitor keeps its state, and something that will bring it back, until it is told
\* to stop; then it is quiet. Asleep with no request lost, it has read what there is.
MonitorIsKept == TypeOK /\ ActiveIsArmed /\ StoppedIsQuiet /\ RowsAgree

\* An open position whose price has gone through its stop for good is closed, unless
\* the loop is stopped first; any number of prints, refusals and restarts of a beat,
\* and MaxFailures failed requests, do not prevent it.
StopFires == \A i \in Instruments : i \in falling /\ Live(i) ~> ~Live(i) \/ lpc = "ended"

\* A requested stop ends the loop, and a monitor that was told to stop comes to rest.
StopEnds == requested ~> lpc = "ended" /\ pc = "off"

\* "Can't see the ledger: keep trying on the heartbeat, never guess": a refresh that
\* failed is tried again by a round of the beat or by the heartbeat.
KeepsTrying == [][OpenFails => pc' # "off" \/ timer' \/ state = "STOPPED"]_allVars
=============================================================================
