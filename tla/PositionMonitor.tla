-------------------------- MODULE PositionMonitor --------------------------
(***************************************************************************)
(* The open-position monitor (signal-bridge/position_monitor.mjs) and what *)
(* it touches of the execution service.                                    *)
(*                                                                         *)
(* A trade is <<instrument, n>>: the service opens at most one at a time   *)
(* on an instrument and numbers them.  Every await of the monitor is two   *)
(* steps, the service's part and the answer's, and anything may happen in  *)
(* between: prints, timers, answers to other requests, the discovery loop. *)
(*                                                                         *)
(* Prices are the five regions the exit rules tell apart, seen from a long *)
(* position (a short one mirrors them):                                    *)
(*   0 beyond the stop, 1 between stop and entry, 2 between entry and TP1, *)
(*   3 beyond TP1, 4 beyond TP2.                                           *)
(* The time of an observation is the stage the trade was in: the service   *)
(* refuses one from before the entry, and one from before the last exit.   *)
(***************************************************************************)
EXTENDS Naturals, FiniteSets

CONSTANTS
    Instruments,
    Prices,        \* the price regions the market shows, a subset of 0..4
    MaxTrades,     \* trades an instrument has in the model's lifetime
    MaxFailures    \* calls that fail in the model's lifetime

ASSUME MonitorAssumption ==
    /\ Instruments # {}
    /\ Prices \subseteq 0..4
    /\ MaxTrades \in Nat \ {0}
    /\ MaxFailures \in Nat

Trades == Instruments \X (1..MaxTrades)
NoRow == [n |-> 0, stage |-> "none"]
NoPrice == 5
NoRows == [i \in Instruments |-> NoRow]
NoMids == [i \in Instruments |-> NoPrice]
NoPost == [phase |-> "none", price |-> NoPrice, seen |-> NoRow]

VARIABLES
    \* the service: trades opened so far, and where the latest one is
    opened, stage,     \* "none": no open trade
    falling,           \* instruments whose price is beyond the stop for good
    \* PositionMonitor
    state,             \* STOPPED, IDLE, ACTIVE
    open,              \* this.open: per instrument the /paper/open row, or NoRow
    posts,             \* per trade: the WS_TRADE tick being posted
    timer,             \* the heartbeat is armed
    again,             \* this.again
    coins,             \* what the trade stream was told to follow
    \* the beat that is running
    pc,                \* off, reading, read, pricing, ticking, posted, resting
    answer,            \* the rows /paper/open answered with
    mids,              \* per instrument this beat has still to tick: its price in allMids
    at,                \* per instrument: the trade and stage allMids was read in
    tickExited,        \* the tick being answered closed something
    failures           \* calls that have failed

service == <<opened, stage, falling>>
beat    == <<pc, answer, mids, at, tickExited>>
vars == <<service, state, open, posts, timer, again, coins, beat, failures>>

Live(i) == stage[i] # "none"
Row(i) == IF Live(i) THEN [n |-> opened[i], stage |-> stage[i]] ELSE NoRow
OpenRows == [i \in Instruments |-> Row(i)]
Listed(rows) == {i \in Instruments : rows[i] # NoRow}

\* A restart finds the trades an earlier run left open; start() has woken the monitor.
Init ==
    /\ stage \in [Instruments -> {"none", "open"}]
    /\ opened = [i \in Instruments |-> IF Live(i) THEN 1 ELSE 0]
    /\ falling = {}
    /\ state = "IDLE"
    /\ open = NoRows
    /\ posts = [t \in Trades |-> NoPost]
    /\ timer = FALSE
    /\ again = FALSE
    /\ coins = {}
    /\ pc = "reading"
    /\ answer = NoRows
    /\ mids = NoMids
    /\ at = NoRows
    /\ tickExited = FALSE
    /\ failures = 0

-----------------------------------------------------------------------------
(* The service's part.                                                     *)

\* crossesTrigger, and the same rule in the service (PaperLifecycle).
\* Mutant: after TP1 only the second target is watched.
CrossesTargets(s, p) ==
    \/ s = "open" /\ (p = 0 \/ p >= 3)
    \/ s = "tp1" /\ p = 4

Crosses(s, p) ==
    \/ s = "open" /\ (p = 0 \/ p >= 3)
    \/ s = "tp1" /\ (p <= 1 \/ p = 4)

\* Mutant: the partial exit is recorded under the level that was hit.
AfterIsLevel(s, p) == IF p = 3 THEN "tp2" ELSE "none"

\* The stage an exit at price p leaves.
After(s, p) ==
    IF s = "open" /\ p = 3 THEN "tp1" ELSE "none"

\* What the market can show of instrument i.
Shows(i) == IF i \in falling THEN Prices \cap {0} ELSE Prices

\* /paper/tick with a price seen when the instrument's trade was `seen.n`, in seen.stage:
\* refused before the entry, and without effect before the last exit.
TickFires(i, p, seen) ==
    /\ Live(i)
    /\ seen.n = opened[i]
    /\ seen.stage = stage[i]
    /\ Crosses(stage[i], p)

Tick(i, p, seen) ==
    stage' = IF TickFires(i, p, seen) THEN [stage EXCEPT ![i] = After(@, p)] ELSE stage

Fails == failures < MaxFailures /\ failures' = failures + 1

-----------------------------------------------------------------------------
(* wake, schedule and the loop around beat                                 *)

Schedule == timer' = (state' = "ACTIVE" \/ timer)

\* wake(): a beat that runs is asked for one more round; otherwise one starts now, and
\* the heartbeat is disarmed.
KeepsTimer == timer' = (timer /\ pc # "off")

\* Mutant: a beat that runs is enough.
WakeJoins ==
    IF pc # "off"
    THEN UNCHANGED <<again, pc>>
    ELSE pc' = "reading" /\ again' = FALSE

Wake ==
    IF pc # "off"
    THEN again' = TRUE /\ UNCHANGED pc
    ELSE pc' = "reading" /\ again' = FALSE

\* The end of beat(): one more round if asked for, else whoever awaited this beat goes on.
BeatEnds ==
    /\ answer' = NoRows /\ at' = NoRows /\ mids' = NoMids
    /\ IF again /\ state' # "STOPPED"
       THEN pc' = "reading" /\ again' = FALSE /\ UNCHANGED posts
       ELSE /\ pc' = "off"
            /\ posts' = [t \in Trades |-> IF posts[t].phase = "awaiting" THEN NoPost ELSE posts[t]]
            /\ UNCHANGED again

TimerFires ==
    /\ timer
    /\ timer' = FALSE
    /\ Wake
    /\ UNCHANGED <<service, state, open, posts, coins, answer, mids, at, tickExited, failures>>

\* stop()
Stop ==
    /\ state' = "STOPPED"
    /\ timer' = FALSE
    /\ coins' = {}
    /\ open' = NoRows

-----------------------------------------------------------------------------
(* beat                                                                    *)

\* refreshOpen: the service answers, or the request fails.
OpenRead ==
    /\ pc = "reading"
    /\ answer' = OpenRows
    /\ pc' = "read"
    /\ UNCHANGED <<service, state, open, posts, timer, again, coins, mids, at, tickExited, failures>>

OpenFails ==
    /\ pc = "reading"
    /\ Fails
    /\ UNCHANGED state
    /\ Schedule
    /\ BeatEnds
    /\ UNCHANGED <<service, open, coins, tickExited>>

\* The rows replace this.open.
TakesRows ==
    /\ pc = "read"
    /\ open' = answer
    /\ UNCHANGED <<service, tickExited, failures>>

ReadAfterStop ==
    /\ TakesRows
    /\ state = "STOPPED"
    /\ UNCHANGED <<state, timer, coins>>
    /\ BeatEnds

GoesIdle ==
    /\ TakesRows
    /\ state # "STOPPED"
    /\ Listed(answer) = {}
    /\ state' = "IDLE"
    /\ coins' = {}
    /\ pc' = "resting"
    /\ UNCHANGED <<posts, timer, again, answer, mids, at>>

\* Mutant: the stop that came while the rows were read is not noticed.
GoesActiveStopped ==
    /\ TakesRows
    /\ Listed(answer) # {}
    /\ state' = "ACTIVE"
    /\ coins' = Listed(answer)
    /\ pc' = "pricing"
    /\ UNCHANGED <<posts, timer, again, answer, mids, at>>

GoesActive ==
    /\ TakesRows
    /\ state # "STOPPED"
    /\ Listed(answer) # {}
    /\ state' = "ACTIVE"
    /\ coins' = Listed(answer)
    /\ pc' = "pricing"
    /\ UNCHANGED <<posts, timer, again, answer, mids, at>>

\* fetchMids: a price of every position, or only of some, or of none at all.
MidsRead ==
    /\ pc = "pricing"
    /\ state # "STOPPED"
    /\ \E priced \in SUBSET Listed(answer) :
        /\ IF priced = Listed(answer) THEN UNCHANGED failures ELSE Fails
        /\ mids' \in {m \in [Instruments -> Prices \cup {NoPrice}] : \A i \in Instruments :
                        m[i] \in IF i \in priced THEN Shows(i) ELSE {NoPrice}}
    /\ at' = OpenRows
    /\ pc' = "ticking"
    /\ UNCHANGED <<service, state, open, posts, timer, again, coins, answer, tickExited>>

MidsAfterStop ==
    /\ pc = "pricing"
    /\ state = "STOPPED"
    /\ UNCHANGED <<service, state, open, timer, coins, tickExited, failures>>
    /\ BeatEnds

\* POST /paper/tick with the mid, one position after the other.
PollTick(i) ==
    /\ pc = "ticking"
    /\ mids[i] # NoPrice
    /\ mids' = [mids EXCEPT ![i] = NoPrice]
    /\ \/ /\ Tick(i, mids[i], at[i])
          /\ tickExited' = TickFires(i, mids[i], at[i])
          /\ UNCHANGED failures
       \/ /\ Tick(i, mids[i], at[i]) \/ UNCHANGED stage
          /\ tickExited' = FALSE
          /\ Fails
    /\ pc' = "posted"
    /\ UNCHANGED <<opened, falling, state, open, posts, timer, again, coins, answer, at>>

\* noteExits: an exit asks for one more round.
PollAnswered ==
    /\ pc = "posted"
    /\ again' = (again \/ tickExited)
    /\ tickExited' = FALSE
    /\ pc' = "ticking"
    /\ UNCHANGED <<service, state, open, posts, timer, coins, answer, mids, at, failures>>

\* The report, whatever becomes of it, and the next heartbeat.
Reports ==
    /\ pc = "ticking"
    /\ \A i \in Instruments : mids[i] = NoPrice
    /\ UNCHANGED state
    /\ Schedule
    /\ BeatEnds
    /\ UNCHANGED <<service, open, coins, tickExited, failures>>

RestsIdle ==
    /\ pc = "resting"
    /\ UNCHANGED <<service, state, open, timer, coins, tickExited, failures>>
    /\ BeatEnds

-----------------------------------------------------------------------------
(* onTrade and forward.  The extremes of the prints, sent along with the   *)
(* next heartbeat's tick for the trade's excursions, are left out.         *)

\* A print of instrument i through a level of its trade, seen when the trade was in
\* stage `seen`; prints may be late.  One post per trade is in flight at a time.  A print
\* the one-second throttle drops, or that crosses nothing, changes only the extremes.
TradePrint(i, p, seen) ==
    LET t == <<i, open[i].n>> IN
    /\ i \in coins
    /\ open[i] # NoRow
    /\ seen.n >= open[i].n
    /\ Crosses(open[i].stage, p)
    /\ posts[t].phase = "none"
    /\ posts' = [posts EXCEPT ![t] = [phase |-> "sent", price |-> p, seen |-> seen]]
    /\ UNCHANGED <<service, state, open, timer, again, coins, beat, failures>>

\* A print is of now, or from before the last change of the trade.
Seen(i) == IF stage[i] = "tp1" THEN {Row(i), [Row(i) EXCEPT !.stage = "open"]} ELSE {Row(i)}

Forwarded(t, phase) == posts' = [posts EXCEPT ![t] = [NoPost EXCEPT !.phase = phase]]

\* The tick reaches the service, or is lost on the way there or back.
ForwardArrives(t) ==
    LET i == t[1]
        seen == posts[t].seen IN
    /\ posts[t].phase = "sent"
    /\ \/ /\ Tick(i, posts[t].price, seen)
          /\ Forwarded(t, IF TickFires(i, posts[t].price, seen) THEN "exited" ELSE "none")
          /\ UNCHANGED failures
       \/ /\ Tick(i, posts[t].price, seen) \/ UNCHANGED stage
          /\ Forwarded(t, "none")
          /\ Fails
    /\ UNCHANGED <<opened, falling, state, open, timer, again, coins, beat>>

\* An exit re-reads the positions, and the trade stays in flight until that is done.
ForwardExited(t) ==
    /\ posts[t].phase = "exited"
    /\ IF state = "STOPPED"
       THEN /\ Forwarded(t, "none")
            /\ again' = TRUE
            /\ UNCHANGED <<pc, timer>>
       ELSE Forwarded(t, "awaiting") /\ Wake /\ KeepsTimer
    /\ UNCHANGED <<service, state, open, coins, answer, mids, at, tickExited, failures>>

\* The price of i falls through the stop and stays there.
Falls(i) ==
    /\ i \notin falling
    /\ falling' = falling \cup {i}
    /\ UNCHANGED <<opened, stage, state, open, posts, timer, again, coins, beat, failures>>

Beat ==
    \/ OpenRead \/ OpenFails
    \/ ReadAfterStop \/ GoesIdle \/ GoesActive
    \/ MidsRead \/ MidsAfterStop
    \/ \E i \in Instruments : PollTick(i)
    \/ PollAnswered
    \/ Reports \/ RestsIdle

Forward(t) == ForwardArrives(t) \/ ForwardExited(t)

Market ==
    \/ \E i \in Instruments : \E p \in Shows(i) : \E seen \in Seen(i) : TradePrint(i, p, seen)
    \/ \E i \in Instruments : Falls(i)
=============================================================================
