--------------------------- MODULE ForwardLoopProofs ---------------------------
(***************************************************************************)
(* MonitorIsKept holds for any number of instruments, trades and failed    *)
(* requests.  What makes it inductive is who owes the monitor a read when  *)
(* its rows are not the service's: the cycle that runs, a post whose exit  *)
(* was answered, the tick being answered, or the round already asked for.  *)
(***************************************************************************)
EXTENDS ForwardLoop, TLAPS

RowType == [n : 0..MaxTrades, stage : {"none", "open", "tp1"}]
PostType == [phase : {"none", "sent", "exited", "awaiting"}, price : Prices \cup {NoPrice}, seen : RowType]

\* The type invariant with what its parts leave out: the functions themselves, the flags.
Typed ==
    /\ TypeOK
    /\ open \in [Instruments -> RowType]
    /\ answer \in [Instruments -> RowType]
    /\ at \in [Instruments -> RowType]
    /\ posts \in [Trades -> PostType]
    /\ timer \in BOOLEAN
    /\ again \in BOOLEAN
    /\ tickExited \in BOOLEAN

\* Only the end of the loop stops the monitor, and what follows no trade has no coins.
StoppedIsEnded == state = "STOPPED" <=> lpc = "ended"
RestsWithoutTrades == pc = "resting" => state # "ACTIVE"

\* A read of the service is owed to the monitor.
ReadOwed ==
    \/ lpc # "asleep"
    \/ \E t \in Trades : posts[t].phase = "exited"
    \/ pc = "reading"
    \/ pc # "off" /\ again
    \/ pc = "posted" /\ tickExited

\* The rows the monitor has, or is about to take.
RowsNow == IF pc = "read" THEN answer ELSE open

RowsAreOwed == failures = 0 /\ ~ReadOwed => RowsNow = OpenRows

LoopInv == Typed /\ ActiveIsArmed /\ StoppedIsQuiet /\ StoppedIsEnded /\ RestsWithoutTrades /\ RowsAreOwed

-----------------------------------------------------------------------------
\* The invariant is enough.
LEMMA LoopInvIsEnough == LoopInv => MonitorIsKept
BY DEF LoopInv, Typed, MonitorIsKept, RowsAgree, RowsAreOwed, ReadOwed, RowsNow

\* Rows of a typed state are typed.
LEMMA RowsAreTyped ==
    ASSUME Typed
    PROVE  OpenRows \in [Instruments -> RowType] /\ NoRows \in [Instruments -> RowType]
BY MonitorAssumption DEF Typed, TypeOK, OpenRows, Row, Live, NoRow, NoRows, RowType

\* A tick leaves the service typed, and alone unless it fires.
LEMMA TickIsTyped ==
    ASSUME Typed, NEW i \in Instruments, NEW p, NEW seen, Tick(i, p, seen)
    PROVE  /\ stage' \in [Instruments -> {"none", "open", "tp1"}]
           /\ ~TickFires(i, p, seen) => stage' = stage
BY DEF Tick, After, Typed, TypeOK

\* A failed request is counted.
LEMMA FailsCounts ==
    ASSUME Typed, Fails
    PROVE  failures' \in 0..MaxFailures /\ failures' # 0
BY MonitorAssumption DEF Fails, Typed, TypeOK

\* The invariant holds when the loop starts.
LEMMA Initially == LoopInit => LoopInv
<1> SUFFICES ASSUME LoopInit PROVE LoopInv
  OBVIOUS
<1> USE MonitorAssumption DEF LoopInit, Init
<1>1. NoRow \in RowType /\ NoPrice \in Prices \cup {NoPrice}
  BY DEF NoRow, RowType
<1>2. NoRows \in [Instruments -> RowType] /\ [t \in Trades |-> NoPost] \in [Trades -> PostType]
  BY <1>1 DEF NoRows, NoPost, PostType
<1>3. opened \in [Instruments -> 0..MaxTrades] /\ stage \in [Instruments -> {"none", "open", "tp1"}]
  BY DEF Live
<1>4. mids \in [Instruments -> Prices \cup {NoPrice}] /\ failures \in 0..MaxFailures
  BY DEF NoMids
<1>5. \A t \in Trades : posts[t].phase = "none"
  BY DEF NoPost
<1>6. TypeOK
  BY <1>2, <1>3, <1>4, <1>5 DEF TypeOK, RowType
<1> QED
  BY <1>2, <1>6 DEF LoopInv, Typed, ActiveIsArmed, StoppedIsQuiet, StoppedIsEnded, RestsWithoutTrades,
                    RowsAreOwed, ReadOwed

-----------------------------------------------------------------------------
(* The beat                                                                *)

\* A beat ends: the rows it read are gone, and whoever awaited it goes on.
LEMMA BeatEndKeeps ==
    ASSUME LoopInv, BeatEnds, pc # "off", UNCHANGED <<service, state, coins, tickExited, loop>>,
           open' \in [Instruments -> RowType], failures' \in 0..MaxFailures, failures' = 0 => failures = 0,
           timer' \in BOOLEAN, lpc = "ended" => timer' = timer, state = "ACTIVE" => timer',
           failures' = 0 => ReadOwed \/ open' = OpenRows,
           pc = "posted" => FALSE, pc = "reading" => failures' # 0
    PROVE  LoopInv'
<1> USE MonitorAssumption
<1>1. Typed'
  <2>1. \A t \in Trades : NoPost \in PostType /\ posts[t] \in PostType
    BY DEF NoPost, PostType, NoRow, RowType, LoopInv, Typed
  <2>2. posts' \in [Trades -> PostType]
    BY <2>1 DEF BeatEnds, LoopInv, Typed
  <2>3. NoRows \in [Instruments -> RowType] /\ NoMids \in [Instruments -> Prices \cup {NoPrice}]
    BY RowsAreTyped DEF LoopInv, NoMids
  <2>4. pc' \in {"off", "reading"} /\ again' \in BOOLEAN
    BY DEF BeatEnds, LoopInv, Typed
  <2>5. \A t \in Trades : posts'[t].phase \in {"none", "sent", "exited", "awaiting"}
    BY <2>2 DEF PostType
  <2> QED
    BY <2>2, <2>3, <2>4, <2>5 DEF BeatEnds, LoopInv, Typed, TypeOK, service, loop, RowType
<1>2. /\ UNCHANGED <<OpenRows, lpc>>
      /\ \A t \in Trades : posts[t].phase = "exited" => posts'[t].phase = "exited"
  BY DEF BeatEnds, service, loop, OpenRows, Row, Live, LoopInv, Typed
<1>3. RowsAreOwed'
  <2>1. CASE pc' = "reading"
    BY <2>1 DEF RowsAreOwed, ReadOwed
  <2>2. CASE pc' # "reading"
    <3>1. pc' = "off" /\ (again => state = "STOPPED")
      BY <2>2 DEF BeatEnds
    <3>2. ReadOwed /\ ~ReadOwed' => failures' # 0
      BY <1>2, <3>1 DEF ReadOwed, LoopInv, StoppedIsEnded
    <3> QED
      BY <1>2, <3>1, <3>2 DEF RowsAreOwed, RowsNow
  <2> QED
    BY <2>1, <2>2
<1> QED
  BY <1>1, <1>3 DEF BeatEnds, LoopInv, ActiveIsArmed, StoppedIsQuiet, StoppedIsEnded, RestsWithoutTrades, loop, Typed

\* A beat that goes on: what its own step changes.
LEMMA BeatStepKeeps ==
    ASSUME LoopInv, Typed', UNCHANGED <<timer, lpc>>,
           pc # "off", pc' # "off", failures' = 0 => failures = 0,
           state' = state \/ (state # "STOPPED" /\ state' # "STOPPED"),
           lpc = "ended" => coins' = coins,
           pc' = "resting" => state' # "ACTIVE",
           failures' = 0 /\ ~ReadOwed' => RowsNow' = OpenRows'
    PROVE  LoopInv'
BY DEF LoopInv, ActiveIsArmed, StoppedIsQuiet, StoppedIsEnded, RestsWithoutTrades, RowsAreOwed

LEMMA ReadingKeeps ==
    ASSUME LoopInv, UNCHANGED loop, OpenRead \/ OpenFails
    PROVE  LoopInv'
<1>1. CASE OpenRead
  <2>1. Typed'
    BY <1>1, RowsAreTyped DEF OpenRead, LoopInv, Typed, TypeOK, service, loop, RowType
  <2>2. RowsNow' = OpenRows'
    BY <1>1 DEF OpenRead, RowsNow, OpenRows, Row, Live, service
  <2> QED
    BY <1>1, <2>1, <2>2, BeatStepKeeps DEF OpenRead, loop
<1>2. CASE OpenFails
  <2>1. failures' \in 0..MaxFailures /\ failures' # 0
    BY <1>2, FailsCounts DEF OpenFails, LoopInv
  <2> QED
    BY <1>2, <2>1, BeatEndKeeps DEF OpenFails, Schedule, LoopInv, Typed, TypeOK, StoppedIsEnded
<1> QED
  BY <1>1, <1>2

LEMMA RowsTakenKeeps ==
    ASSUME LoopInv, UNCHANGED loop, ReadAfterStop \/ GoesIdle \/ GoesActive
    PROVE  LoopInv'
<1>1. /\ pc = "read" /\ open' = answer /\ UNCHANGED <<service, tickExited, failures>>
      /\ answer \in [Instruments -> RowType] /\ OpenRows' = OpenRows
  BY DEF ReadAfterStop, GoesIdle, GoesActive, TakesRows, LoopInv, Typed, OpenRows, Row, Live, service
<1>2. failures = 0 => ReadOwed \/ answer = OpenRows
  BY <1>1 DEF LoopInv, RowsAreOwed, RowsNow
<1>3. CASE ReadAfterStop
  BY <1>1, <1>2, <1>3, BeatEndKeeps DEF ReadAfterStop, LoopInv, Typed, TypeOK
<1>4. CASE GoesIdle \/ GoesActive
  <2>1. Typed'
    BY <1>1, <1>4 DEF GoesIdle, GoesActive, LoopInv, Typed, TypeOK, service, loop, RowType
  <2>2. failures' = 0 /\ ~ReadOwed' => RowsNow' = OpenRows'
    BY <1>1, <1>2, <1>4 DEF GoesIdle, GoesActive, ReadOwed, RowsNow, loop
  <2> QED
    BY <1>1, <1>4, <2>1, <2>2, BeatStepKeeps DEF GoesIdle, GoesActive, loop, LoopInv, StoppedIsEnded
<1> QED
  BY <1>3, <1>4

LEMMA PricingKeeps ==
    ASSUME LoopInv, UNCHANGED loop, MidsRead \/ MidsAfterStop
    PROVE  LoopInv'
<1>1. pc = "pricing" /\ UNCHANGED <<service, open>> /\ OpenRows' = OpenRows
  BY DEF MidsRead, MidsAfterStop, OpenRows, Row, Live, service
<1>2. failures = 0 => ReadOwed \/ open = OpenRows
  BY <1>1 DEF LoopInv, RowsAreOwed, RowsNow
<1>3. CASE MidsRead
  <2>1. failures' \in 0..MaxFailures /\ (failures' = 0 => failures = 0)
    BY <1>3, FailsCounts DEF MidsRead, LoopInv, Typed, TypeOK
  <2>2. Typed'
    BY <1>1, <1>3, <2>1, RowsAreTyped DEF MidsRead, LoopInv, Typed, TypeOK, service, loop, RowType
  <2>3. failures' = 0 /\ ~ReadOwed' => RowsNow' = OpenRows'
    BY <1>1, <1>2, <1>3, <2>1 DEF MidsRead, ReadOwed, RowsNow, loop
  <2> QED
    BY <1>1, <1>3, <2>1, <2>2, <2>3, BeatStepKeeps DEF MidsRead, loop
<1>4. CASE MidsAfterStop
  BY <1>1, <1>2, <1>4, BeatEndKeeps DEF MidsAfterStop, LoopInv, Typed, TypeOK
<1> QED
  BY <1>3, <1>4

LEMMA PollKeeps ==
    ASSUME LoopInv, UNCHANGED loop, NEW i \in Instruments, PollTick(i)
    PROVE  LoopInv'
<1>1. /\ pc = "ticking" /\ pc' = "posted"
      /\ UNCHANGED <<opened, falling, state, open, posts, timer, again, coins, answer, at>>
      /\ mids' = [mids EXCEPT ![i] = NoPrice]
      /\ Tick(i, mids[i], at[i]) \/ UNCHANGED stage
      /\ tickExited' \in BOOLEAN
  BY DEF PollTick, TickFires
<1>2. failures = 0 => ReadOwed \/ open = OpenRows
  BY <1>1 DEF LoopInv, RowsAreOwed, RowsNow
<1>3. failures' \in 0..MaxFailures /\ (failures' = 0 => failures = 0)
  BY FailsCounts DEF PollTick, LoopInv, Typed, TypeOK
<1>4. stage' \in [Instruments -> {"none", "open", "tp1"}]
  BY <1>1, TickIsTyped DEF LoopInv, Typed, TypeOK
<1>5. Typed'
  BY <1>1, <1>3, <1>4 DEF LoopInv, Typed, TypeOK, loop, RowType
<1>6. failures' = 0 => tickExited' \/ stage' = stage
  <2>1. Fails => failures' # 0
    BY FailsCounts DEF LoopInv
  <2> QED
    BY <2>1, TickIsTyped DEF PollTick, LoopInv
<1>7. failures' = 0 /\ ~ReadOwed' => RowsNow' = OpenRows'
  BY <1>1, <1>2, <1>3, <1>6 DEF ReadOwed, RowsNow, OpenRows, Row, Live, loop
<1> QED
  BY <1>1, <1>3, <1>5, <1>7, BeatStepKeeps DEF loop

LEMMA AnswerKeeps ==
    ASSUME LoopInv, UNCHANGED loop, PollAnswered
    PROVE  LoopInv'
<1>1. Typed'
  BY DEF PollAnswered, LoopInv, Typed, TypeOK, service, loop, RowType
<1>2. OpenRows' = OpenRows
  BY DEF PollAnswered, OpenRows, Row, Live, service
<1>3. failures' = 0 /\ ~ReadOwed' => RowsNow' = OpenRows'
  BY <1>2 DEF PollAnswered, LoopInv, RowsAreOwed, ReadOwed, RowsNow, loop
<1> QED
  BY <1>1, <1>3, BeatStepKeeps DEF PollAnswered, loop

LEMMA BeatOverKeeps ==
    ASSUME LoopInv, UNCHANGED loop, Reports \/ RestsIdle
    PROVE  LoopInv'
<1>1. pc \in {"ticking", "resting"} /\ UNCHANGED <<service, state, open, coins, tickExited, failures>> /\ BeatEnds
  BY DEF Reports, RestsIdle
<1>2. failures = 0 => ReadOwed \/ open = OpenRows
  BY <1>1 DEF LoopInv, RowsAreOwed, RowsNow
<1>3. timer' \in BOOLEAN /\ (lpc = "ended" => timer' = timer) /\ (state = "ACTIVE" => timer')
  BY DEF Reports, RestsIdle, Schedule, LoopInv, Typed, StoppedIsEnded, RestsWithoutTrades
<1> QED
  BY <1>1, <1>2, <1>3, BeatEndKeeps DEF LoopInv, Typed, TypeOK

-----------------------------------------------------------------------------
(* Timers, posts and prints                                                *)

\* Waking a monitor that has not been stopped gives it a read.
LEMMA WakingReads ==
    ASSUME Typed, Wake
    PROVE  /\ pc' \in {pc, "reading"} /\ pc' # "off" /\ again' \in BOOLEAN
           /\ pc' = "reading" \/ (pc' = pc /\ again')
BY DEF Wake, Typed, TypeOK

LEMMA TimerKeeps ==
    ASSUME LoopInv, UNCHANGED loop, TimerFires
    PROVE  LoopInv'
<1>1. /\ pc' \in {pc, "reading"} /\ pc' # "off" /\ again' \in BOOLEAN
      /\ pc' = "reading" \/ (pc' = pc /\ again')
  BY WakingReads DEF TimerFires, LoopInv
<1>2. Typed'
  BY <1>1 DEF TimerFires, LoopInv, Typed, TypeOK, service, loop, RowType
<1>3. RowsAreOwed'
  BY <1>1 DEF RowsAreOwed, ReadOwed
<1> QED
  BY <1>1, <1>2, <1>3 DEF TimerFires, LoopInv, ActiveIsArmed, StoppedIsQuiet, StoppedIsEnded, RestsWithoutTrades, loop

\* A post that takes another phase.
LEMMA PhaseIsTyped ==
    ASSUME Typed, NEW t \in Trades, NEW phase \in {"none", "sent", "exited", "awaiting"}, Forwarded(t, phase)
    PROVE  /\ posts' \in [Trades -> PostType]
           /\ posts'[t].phase = phase
           /\ \A u \in Trades \ {t} : posts'[u] = posts[u]
<1>1. NoPost \in PostType
  BY MonitorAssumption DEF NoPost, PostType, NoRow, RowType, Typed
<1>2. [NoPost EXCEPT !.phase = phase] \in PostType /\ [NoPost EXCEPT !.phase = phase].phase = phase
  BY <1>1 DEF PostType
<1> QED
  BY <1>2 DEF Forwarded, Typed

LEMMA ForwardArrivesKeeps ==
    ASSUME LoopInv, UNCHANGED loop, NEW t \in Trades, ForwardArrives(t)
    PROVE  LoopInv'
<1> DEFINE i == t[1]
           fires == TickFires(i, posts[t].price, posts[t].seen)
<1>0. i \in Instruments
  BY DEF Trades
<1>1. /\ posts[t].phase = "sent"
      /\ UNCHANGED <<opened, falling, state, open, timer, again, coins, pc, answer, mids, at, tickExited>>
      /\ Tick(i, posts[t].price, posts[t].seen) \/ UNCHANGED stage
      /\ Forwarded(t, IF fires THEN "exited" ELSE "none") \/ Forwarded(t, "none")
      /\ \/ /\ Tick(i, posts[t].price, posts[t].seen)
            /\ Forwarded(t, IF fires THEN "exited" ELSE "none")
            /\ UNCHANGED failures
         \/ Fails
  BY DEF ForwardArrives, beat
<1>2. failures' \in 0..MaxFailures /\ (failures' = 0 => failures = 0)
  BY FailsCounts DEF ForwardArrives, LoopInv, Typed, TypeOK
<1>3. stage' \in [Instruments -> {"none", "open", "tp1"}]
  BY <1>0, <1>1, TickIsTyped DEF LoopInv, Typed, TypeOK
<1>4. /\ posts' \in [Trades -> PostType]
      /\ \A u \in Trades \ {t} : posts'[u] = posts[u]
  BY <1>1, PhaseIsTyped DEF LoopInv
<1>5. Typed'
  <2>1. \A u \in Trades : posts'[u].phase \in {"none", "sent", "exited", "awaiting"}
    BY <1>4 DEF PostType
  <2> QED
    BY <1>1, <1>2, <1>3, <1>4, <2>1 DEF LoopInv, Typed, TypeOK, loop, RowType
<1>6. failures' = 0 => stage' = stage \/ posts'[t].phase = "exited"
  <2>1. Fails => failures' # 0
    BY FailsCounts DEF LoopInv
  <2>2. ~fires => (Tick(i, posts[t].price, posts[t].seen) => stage' = stage)
    BY <1>0, TickIsTyped DEF LoopInv
  <2>3. fires /\ Forwarded(t, IF fires THEN "exited" ELSE "none") => posts'[t].phase = "exited"
    BY PhaseIsTyped DEF LoopInv
  <2> QED
    BY <1>1, <2>1, <2>2, <2>3
<1>7. RowsAreOwed'
  <2>1. ReadOwed => ReadOwed'
    BY <1>1, <1>4 DEF ReadOwed, loop
  <2>2. posts'[t].phase = "exited" => ReadOwed'
    BY DEF ReadOwed
  <2>3. stage' = stage => OpenRows' = OpenRows /\ RowsNow' = RowsNow
    BY <1>1 DEF OpenRows, Row, Live, RowsNow
  <2>4. RowsNow' = RowsNow
    BY <1>1 DEF RowsNow
  <2> QED
    BY <1>2, <1>6, <2>1, <2>2, <2>3, <2>4 DEF LoopInv, RowsAreOwed
<1> QED
  BY <1>1, <1>5, <1>7 DEF LoopInv, ActiveIsArmed, StoppedIsQuiet, StoppedIsEnded, RestsWithoutTrades, loop

LEMMA ForwardExitedKeeps ==
    ASSUME LoopInv, UNCHANGED loop, NEW t \in Trades, ForwardExited(t)
    PROVE  LoopInv'
<1>1. /\ Forwarded(t, "none") \/ Forwarded(t, "awaiting")
      /\ UNCHANGED <<service, state, open, coins, answer, mids, at, tickExited, failures>>
  BY DEF ForwardExited
<1>2. posts' \in [Trades -> PostType] /\ \A u \in Trades : posts'[u].phase \in {"none", "sent", "exited", "awaiting"}
  <2>1. posts' \in [Trades -> PostType]
    BY <1>1, PhaseIsTyped DEF LoopInv
  <2> QED
    BY <2>1 DEF PostType
<1>3. CASE state = "STOPPED"
  <2>1. again' = TRUE /\ UNCHANGED <<pc, timer>>
    BY <1>3 DEF ForwardExited
  <2>2. Typed'
    BY <1>1, <1>2, <2>1 DEF LoopInv, Typed, TypeOK, service, loop, RowType
  <2>3. lpc' = "ended" /\ RowsAreOwed'
    BY <1>3 DEF LoopInv, StoppedIsEnded, RowsAreOwed, ReadOwed, loop
  <2> QED
    BY <1>1, <2>1, <2>2, <2>3 DEF LoopInv, ActiveIsArmed, StoppedIsQuiet, StoppedIsEnded, RestsWithoutTrades, loop
<1>4. CASE state # "STOPPED"
  <2>1. /\ Wake /\ KeepsTimer
        /\ pc' \in {pc, "reading"} /\ pc' # "off" /\ again' \in BOOLEAN
        /\ pc' = "reading" \/ (pc' = pc /\ again')
    BY <1>4, WakingReads DEF ForwardExited, LoopInv
  <2>2. Typed'
    BY <1>1, <1>2, <2>1 DEF KeepsTimer, LoopInv, Typed, TypeOK, service, loop, RowType
  <2>3. RowsAreOwed'
    BY <2>1 DEF RowsAreOwed, ReadOwed
  <2> QED
    BY <1>1, <1>4, <2>1, <2>2, <2>3
       DEF KeepsTimer, LoopInv, ActiveIsArmed, StoppedIsQuiet, StoppedIsEnded, RestsWithoutTrades, loop
<1> QED
  BY <1>3, <1>4

LEMMA PrintKeeps ==
    ASSUME LoopInv, UNCHANGED loop, NEW i \in Instruments, NEW p \in Shows(i), NEW seen \in Seen(i), TradePrint(i, p, seen)
    PROVE  LoopInv'
<1> DEFINE t == <<i, open[i].n>>
           post == [phase |-> "sent", price |-> p, seen |-> seen]
<1>1. /\ posts[t].phase = "none" /\ posts' = [posts EXCEPT ![t] = post]
      /\ UNCHANGED <<service, state, open, timer, again, coins, pc, answer, mids, at, tickExited, failures>>
  BY DEF TradePrint, beat
<1>2. p \in Prices /\ seen \in RowType
  <2>1. p \in Prices
    BY DEF Shows
  <2>2. Row(i) \in RowType
    BY RowsAreTyped DEF OpenRows, LoopInv
  <2>3. [Row(i) EXCEPT !.stage = "open"] \in RowType
    BY <2>2 DEF RowType
  <2> QED
    BY <2>1, <2>2, <2>3 DEF Seen
<1>3. posts' \in [Trades -> PostType]
  <2>1. post \in PostType
    BY <1>2 DEF PostType
  <2> HIDE DEF t, post
  <2> QED
    BY <1>1, <2>1 DEF LoopInv, Typed
<1>4. Typed'
  <2>1. \A u \in Trades : posts'[u].phase \in {"none", "sent", "exited", "awaiting"}
    BY <1>3 DEF PostType
  <2> QED
    BY <1>1, <1>3, <2>1 DEF LoopInv, Typed, TypeOK, service, loop, RowType
<1>5. RowsAreOwed'
  <2>1. \A u \in Trades : posts[u].phase = "exited" => posts'[u].phase = "exited"
    BY <1>1 DEF LoopInv, Typed
  <2>2. ReadOwed => ReadOwed'
    BY <1>1, <2>1 DEF ReadOwed, loop
  <2>3. OpenRows' = OpenRows /\ RowsNow' = RowsNow
    BY <1>1 DEF OpenRows, Row, Live, RowsNow, service
  <2> QED
    BY <1>1, <2>2, <2>3 DEF LoopInv, RowsAreOwed
<1> QED
  BY <1>1, <1>4, <1>5 DEF LoopInv, ActiveIsArmed, StoppedIsQuiet, StoppedIsEnded, RestsWithoutTrades, loop

LEMMA FallKeeps ==
    ASSUME LoopInv, UNCHANGED loop, NEW i \in Instruments, Falls(i)
    PROVE  LoopInv'
<1>1. UNCHANGED <<opened, stage, state, open, posts, timer, again, coins, pc, answer, mids, at, tickExited, failures>>
  BY DEF Falls, beat
<1>2. Typed'
  BY <1>1 DEF Falls, LoopInv, Typed, TypeOK, loop, RowType
<1>3. RowsAreOwed'
  BY <1>1 DEF LoopInv, RowsAreOwed, ReadOwed, RowsNow, OpenRows, Row, Live, loop
<1> QED
  BY <1>1, <1>2, <1>3 DEF LoopInv, ActiveIsArmed, StoppedIsQuiet, StoppedIsEnded, RestsWithoutTrades, loop

-----------------------------------------------------------------------------
(* The loop                                                                *)

\* In a cycle, and after one that threw, only the service, the loop and the failures move:
\* the cycle owes the read, or the failed request excuses it.
LEMMA CycleStepKeeps ==
    ASSUME LoopInv, UNCHANGED <<monitor, falling>>, lpc \notin {"ended"}, lpc' \notin {"ended"},
           opened' \in [Instruments -> 0..MaxTrades], stage' \in [Instruments -> {"none", "open", "tp1"}],
           lpc' \in {"listing", "marking", "pricing", "observing", "reconciling", "asleep"},
           marks' \subseteq Instruments, failures' \in 0..MaxFailures,
           lpc' = "asleep" => failures' # 0
    PROVE  LoopInv'
<1>1. Typed'
  BY DEF monitor, beat, LoopInv, Typed, TypeOK, RowType
<1>2. RowsAreOwed'
  BY DEF RowsAreOwed, ReadOwed
<1> QED
  BY <1>1, <1>2 DEF monitor, beat, LoopInv, ActiveIsArmed, StoppedIsQuiet, StoppedIsEnded, RestsWithoutTrades

LEMMA ThrowingKeeps ==
    ASSUME LoopInv, lpc # "ended", CycleThrows, Fails, UNCHANGED falling,
           opened' \in [Instruments -> 0..MaxTrades], stage' \in [Instruments -> {"none", "open", "tp1"}]
    PROVE  LoopInv'
<1>1. failures' \in 0..MaxFailures /\ failures' # 0
  BY FailsCounts DEF LoopInv
<1> QED
  BY <1>1, CycleStepKeeps DEF CycleThrows, Goto

LEMMA ListingKeeps ==
    ASSUME LoopInv, ListsOpen
    PROVE  LoopInv'
<1>1. Listed(OpenRows) \subseteq Instruments /\ opened' = opened /\ stage' = stage /\ UNCHANGED falling
  BY DEF ListsOpen, Listed, service
<1> QED
  BY <1>1, CycleStepKeeps, ThrowingKeeps DEF ListsOpen, Goto, LoopInv, Typed, TypeOK

LEMMA MarkingKeeps ==
    ASSUME LoopInv, NEW i \in Instruments, CandlesUnread(i) \/ Marked(i)
    PROVE  LoopInv'
<1>1. CASE CandlesUnread(i)
  BY <1>1, CycleStepKeeps DEF CandlesUnread, service, LoopInv, Typed, TypeOK
<1>2. CASE Marked(i)
  <2>1. stage' \in [Instruments -> {"none", "open", "tp1"}] /\ opened' = opened /\ UNCHANGED falling /\ lpc = "marking"
    BY <1>2 DEF Marked, After, LoopInv, Typed, TypeOK
  <2>2. CASE marks' = marks \ {i} /\ UNCHANGED <<lpc, dataOk, requested, monitor, failures>>
    BY <2>1, <2>2, CycleStepKeeps DEF LoopInv, Typed, TypeOK
  <2>3. CASE Fails /\ CycleThrows
    BY <2>1, <2>3, ThrowingKeeps DEF LoopInv, Typed, TypeOK
  <2> QED
    BY <1>2, <2>2, <2>3 DEF Marked
<1> QED
  BY <1>1, <1>2

LEMMA DecidingKeeps ==
    ASSUME LoopInv, \/ \E next \in {"pricing", "observing", "reconciling"} : Scanned(next)
                    \/ \E i \in Instruments : SignalPosted(i)
                    \/ Observed
    PROVE  LoopInv'
<1>1. ASSUME NEW next \in {"pricing", "observing", "reconciling"}, Scanned(next) PROVE LoopInv'
  <2>1. opened' = opened /\ stage' = stage /\ UNCHANGED falling /\ lpc = "marking"
    BY <1>1 DEF Scanned, service
  <2>2. CASE Goto(next) /\ UNCHANGED <<marks, requested, monitor, failures>>
    BY <2>1, <2>2, CycleStepKeeps DEF Goto, LoopInv, Typed, TypeOK
  <2>3. CASE Fails /\ CycleThrows
    BY <2>1, <2>3, ThrowingKeeps DEF LoopInv, Typed, TypeOK
  <2> QED
    BY <1>1, <2>2, <2>3 DEF Scanned
<1>2. ASSUME NEW i \in Instruments, SignalPosted(i) PROVE LoopInv'
  <2>1. /\ stage' \in [Instruments -> {"none", "open", "tp1"}] /\ opened' \in [Instruments -> 0..MaxTrades]
        /\ UNCHANGED falling /\ lpc = "pricing"
    <3>1. \A n \in 0..MaxTrades : n < MaxTrades => n + 1 \in 0..MaxTrades
      BY MonitorAssumption
    <3>2. UNCHANGED falling /\ lpc = "pricing"
      BY <1>2 DEF SignalPosted
    <3>3. CASE UNCHANGED <<opened, stage>>
      BY <3>2, <3>3 DEF LoopInv, Typed, TypeOK
    <3>4. CASE /\ opened[i] < MaxTrades
               /\ opened' = [opened EXCEPT ![i] = opened[i] + 1]
               /\ stage' = [stage EXCEPT ![i] = "open"]
      <4>1. opened[i] \in 0..MaxTrades
        BY DEF LoopInv, Typed, TypeOK
      <4>2. opened[i] + 1 \in 0..MaxTrades
        BY <3>1, <3>4, <4>1
      <4> QED
        BY <3>2, <3>4, <4>2 DEF LoopInv, Typed, TypeOK
    <3> QED
      BY <1>2, <3>3, <3>4 DEF SignalPosted
  <2>2. CASE Goto("observing") /\ UNCHANGED <<marks, dataOk, requested, monitor, failures>>
    BY <2>1, <2>2, CycleStepKeeps DEF Goto, LoopInv, Typed, TypeOK
  <2>3. CASE Fails /\ CycleThrows
    BY <2>1, <2>3, ThrowingKeeps
  <2> QED
    BY <1>2, <2>2, <2>3 DEF SignalPosted
<1>3. CASE Observed
  BY <1>3, CycleStepKeeps DEF Observed, Goto, service, LoopInv, Typed, TypeOK
<1> QED
  BY <1>1, <1>2, <1>3

LEMMA ReconcilingKeeps ==
    ASSUME LoopInv, Reconciles
    PROVE  LoopInv'
<1>1. lpc = "reconciling" /\ UNCHANGED service
  BY DEF Reconciles
<1>2. CASE Goto("asleep") /\ WakesMonitor /\ UNCHANGED <<marks, dataOk, requested, failures>>
  <2>1. state # "STOPPED"
    BY <1>1 DEF LoopInv, StoppedIsEnded
  <2>2. /\ KeepsTimer
        /\ pc' \in {pc, "reading"} /\ pc' # "off" /\ again' \in BOOLEAN
        /\ pc' = "reading" \/ (pc' = pc /\ again')
        /\ UNCHANGED <<state, open, posts, coins, answer, mids, at, tickExited>>
    BY <1>2, <2>1, WakingReads DEF WakesMonitor, LoopInv
  <2>3. Typed'
    BY <1>1, <1>2, <2>2 DEF Goto, KeepsTimer, LoopInv, Typed, TypeOK, service, RowType
  <2>4. RowsAreOwed'
    BY <2>2 DEF RowsAreOwed, ReadOwed
  <2> QED
    BY <1>1, <1>2, <2>1, <2>2, <2>3, <2>4
       DEF Goto, KeepsTimer, LoopInv, ActiveIsArmed, StoppedIsQuiet, StoppedIsEnded, RestsWithoutTrades
<1>3. CASE Fails /\ CycleThrows
  BY <1>1, <1>3, ThrowingKeeps DEF service, LoopInv, Typed, TypeOK
<1> QED
  BY <1>2, <1>3 DEF Reconciles

LEMMA SleepingKeeps ==
    ASSUME LoopInv, NextCycle \/ RequestStop
    PROVE  LoopInv'
<1>1. CASE NextCycle
  BY <1>1, CycleStepKeeps DEF NextCycle, Goto, service, LoopInv, Typed, TypeOK
<1>2. CASE RequestStop
  <2>1. Typed'
    BY <1>2 DEF RequestStop, service, monitor, beat, LoopInv, Typed, TypeOK, RowType
  <2>2. RowsAreOwed'
    BY <1>2 DEF RequestStop, service, monitor, beat, LoopInv, RowsAreOwed, ReadOwed, RowsNow, OpenRows, Row, Live
  <2> QED
    BY <1>2, <2>1, <2>2
       DEF RequestStop, monitor, LoopInv, ActiveIsArmed, StoppedIsQuiet, StoppedIsEnded, RestsWithoutTrades, beat
<1> QED
  BY <1>1, <1>2

LEMMA EndingKeeps ==
    ASSUME LoopInv, Ends
    PROVE  LoopInv'
<1>1. Typed'
  <2>1. open' \in [Instruments -> RowType]
    BY RowsAreTyped DEF Ends, Stop, LoopInv
  <2>2. UNCHANGED <<opened, stage, falling, posts, again, pc, answer, mids, at, tickExited, failures, marks>>
    BY DEF Ends, beat, service
  <2>3. state' = "STOPPED" /\ timer' = FALSE /\ lpc' = "ended"
    BY DEF Ends, Stop, Goto
  <2>4. \A i \in Instruments : {open'[i], answer'[i], at'[i]} \subseteq RowType
    BY <2>1, <2>2 DEF LoopInv, Typed
  <2> QED
    BY <2>1, <2>2, <2>3, <2>4 DEF LoopInv, Typed, TypeOK, RowType
<1>2. RowsAreOwed'
  BY DEF Ends, Goto, RowsAreOwed, ReadOwed
<1> QED
  BY <1>1, <1>2 DEF Ends, Stop, Goto, beat, LoopInv, ActiveIsArmed, StoppedIsQuiet, StoppedIsEnded, RestsWithoutTrades

\* Whatever the loop, the beat, the posts, the timer and the market do, a monitor that
\* follows trades is armed, a stopped one is quiet, and asleep with no request lost it
\* judges prints by exactly the trades the service has open.
THEOREM MonitorStaysKept == LoopSpec => []MonitorIsKept
<1>1. LoopInv /\ [LoopNext]_allVars => LoopInv'
  <2> SUFFICES ASSUME LoopInv, [LoopNext]_allVars PROVE LoopInv'
    OBVIOUS
  <2>1. CASE TimerRuns
    BY <2>1, TimerKeeps DEF TimerRuns, LoopAside
  <2>2. CASE BeatRuns
    BY <2>2, ReadingKeeps, RowsTakenKeeps, PricingKeeps, PollKeeps, AnswerKeeps, BeatOverKeeps
       DEF BeatRuns, Beat, LoopAside
  <2>3. ASSUME NEW t \in Trades, ForwardRuns(t) PROVE LoopInv'
    BY <2>3, ForwardArrivesKeeps, ForwardExitedKeeps DEF ForwardRuns, Forward, LoopAside
  <2>4. CASE MarketMoves
    BY <2>4, PrintKeeps, FallKeeps DEF MarketMoves, Market, LoopAside
  <2>5. CASE Cycle
    BY <2>5, ListingKeeps, MarkingKeeps, DecidingKeeps, ReconcilingKeeps, SleepingKeeps DEF Cycle
  <2>6. CASE RequestStop \/ Ends
    BY <2>6, SleepingKeeps, EndingKeeps
  <2>7. CASE UNCHANGED allVars
    <3>1. Typed'
      BY <2>7 DEF allVars, vars, service, beat, loop, LoopInv, Typed, TypeOK, RowType
    <3>2. RowsAreOwed'
      BY <2>7 DEF allVars, vars, service, beat, loop, LoopInv, RowsAreOwed, ReadOwed, RowsNow, OpenRows, Row, Live
    <3> QED
      BY <2>7, <3>1, <3>2
         DEF allVars, vars, beat, loop, LoopInv, ActiveIsArmed, StoppedIsQuiet, StoppedIsEnded, RestsWithoutTrades
  <2> QED
    BY <2>1, <2>2, <2>3, <2>4, <2>5, <2>6, <2>7 DEF LoopNext
<1> QED
  BY <1>1, Initially, LoopInvIsEnough, PTL DEF LoopSpec
=============================================================================
