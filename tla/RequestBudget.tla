---------------------------- MODULE RequestBudget ----------------------------
(***************************************************************************)
(* The budget of requests to the market's public API that all callers of   *)
(* one Node process share (rate_limit.mjs): priorities, the cool-down      *)
(* after a 429, weight pacing, identical requests joined into one, and the *)
(* one timer that wakes the queue.                                         *)
(*                                                                         *)
(* Time is kept relative to now, in whole ticks: what is left of the       *)
(* cool-down, of a request's wait, until the timer; the age of what was    *)
(* spent.  So nothing counts up for ever.  JavaScript runs one handler at  *)
(* a time: while pump() is at work nothing else happens.                   *)
(***************************************************************************)
EXTENDS Integers, FiniteSets, Functions

CONSTANTS
    Caller,            \* whoever waits for one request at a time
    Key,               \* URL and body of a request
    NoCaller,
    KeyOf,             \* [Caller -> Key]
    Priority,          \* [Caller -> 0..5]: P0_POSITION_MONITOR .. P5_CHART_HISTORY
    Weight,            \* [Key -> Nat]: requestWeight
    Budgets,           \* settings of weightPerMinute; 0: no pacing
    Reserve,           \* [0..5 -> Nat]
    MaxWait,           \* [0..5 -> Nat]: DEFAULT_MAX_WAIT_MS
    Window,            \* WINDOW_MS
    MaxCooldown,       \* the longest backoff or Retry-After
    MaxConcurrent

ASSUME BudgetAssumption ==
    /\ IsFiniteSet(Caller)
    /\ NoCaller \notin Caller
    /\ KeyOf \in [Caller -> Key]
    /\ Priority \in [Caller -> 0..5]
    /\ Weight \in [Key -> Nat]
    /\ Budgets \subseteq Nat
    /\ Reserve \in [0..5 -> Nat]
    /\ MaxWait \in [0..5 -> Nat]
    /\ \A p \in 0..5 : p # 2 => MaxWait[p] = 0
    /\ Window \in Nat \ {0}
    /\ MaxCooldown \in Nat
    /\ MaxConcurrent \in Nat \ {0}

\* DEFAULT_RESERVE: nobody has more room than discovery but P0 and P1.
ASSUME ReserveAssumption == \A p \in 2..5 : Reserve[2] <= Reserve[p]

VARIABLES
    weightPerMinute,   \* fixed when the budget is made
    stage,             \* where each caller's request is
    inflight,          \* for each key, the caller whose promise is shared
    ahead,             \* for each waiting request, those that came before it (seq)
    left,              \* for each waiting request, the time to its deadline; -1: passed
    cooldown,          \* time left until cooldownUntil
    since429,          \* time since last_429_at_ms; Window: longer ago, or never
    spent,             \* weight started by age, up to Window
    timer,             \* time until timerAt; Never: no timer
    pumping,           \* pump() is at work
    todo,              \* what it has still to look at
    wake,              \* its wakeAt
    discretionary      \* history: the part of spent that P0 and P1 did not ask for

calls  == <<stage, inflight, ahead, left>>
clocks == <<cooldown, since429, spent, discretionary>>
pump   == <<pumping, todo, wake>>
vars   == <<weightPerMinute, calls, clocks, timer, pump>>

\* Later than any time that can be waited for.
Never == MaxCooldown + Window + 1

AtMost(a, b) == IF a <= b THEN a ELSE b
AtLeast(a, b) == IF a >= b THEN a ELSE b
Less1(n) == IF n = 0 THEN 0 ELSE n - 1

In(s) == {c \in Caller : stage[c] = s}
Full == Cardinality(In("running")) >= MaxConcurrent
Urgent(c) == Priority[c] <= 1
Research(c) == Priority[c] >= 3

Ages == 0 .. Window - 1
Paced == weightPerMinute > 0

\* windowWeight: a request leaves the window when it is Window old.
YoungerThan(age) == SumFunctionOnSet(spent, {a \in Ages : a < age})
WindowWeight == YoungerThan(Window)

RoomBesidesMine(c) == weightPerMinute - Reserve[Priority[c]]
Room(c) == weightPerMinute - Reserve[Priority[c]] - Weight[KeyOf[c]]

\* blockedReason # null
Blocked(c) ==
    /\ ~Urgent(c)
    /\ \/ cooldown > 0
       \/ Research(c) /\ since429 < Window
       \/ Paced /\ WindowWeight > Room(c)

\* What was spent at this age is the first to leave room when it leaves the window.
MakesRoom(c, age) ==
    /\ spent[age] > 0
    /\ YoungerThan(age) <= Room(c)
    /\ \A older \in Ages :
          older > age /\ spent[older] > 0 => YoungerThan(older) > Room(c)

\* nextOpportunity, as the time until then; a request that fits no window looks again
\* a little later.
NextOpportunity(c) ==
    IF cooldown > 0 THEN cooldown
    ELSE IF Research(c) /\ since429 < Window THEN Window - since429
    ELSE IF ~Paced THEN 0
    ELSE IF \E age \in Ages : MakesRoom(c, age)
         THEN Window - CHOOSE age \in Ages : MakesRoom(c, age)
         ELSE 1

Init ==
    /\ weightPerMinute \in Budgets
    /\ stage = [c \in Caller |-> "idle"]
    /\ inflight = [k \in Key |-> NoCaller]
    /\ ahead = [c \in Caller |-> {}]
    /\ left = [c \in Caller |-> 0]
    /\ cooldown = 0
    /\ since429 = Window
    /\ spent = [a \in Ages |-> 0]
    /\ timer = Never
    /\ pumping = FALSE /\ todo = {} /\ wake = Never
    /\ discretionary = [a \in Ages |-> 0]

StartPumping(entries) ==
    /\ pumping' = TRUE
    /\ todo' = entries
    /\ wake' = Never

\* The promise of c's request settles: its owner goes on, and whoever had joined it.
Settled(c) ==
    /\ stage' = [d \in Caller |->
                   IF d = c \/ (stage[d] = "joined" /\ KeyOf[d] = KeyOf[c])
                   THEN "idle" ELSE stage[d]]
    /\ inflight' = [inflight EXCEPT ![KeyOf[c]] = NoCaller]

LeavesQueue(c) ==
    /\ ahead' = [d \in Caller |-> IF d = c THEN {} ELSE ahead[d] \ {c}]
    /\ left' = [left EXCEPT ![c] = 0]

-----------------------------------------------------------------------------
(* fetch and schedule                                                      *)

Join(c) ==
    /\ ~pumping
    /\ stage[c] = "idle"
    /\ inflight[KeyOf[c]] # NoCaller
    /\ stage' = [stage EXCEPT ![c] = "joined"]
    /\ UNCHANGED <<weightPerMinute, inflight, ahead, left, clocks, timer, pump>>

Schedule(c) ==
    /\ ~pumping
    /\ stage[c] = "idle"
    /\ inflight[KeyOf[c]] = NoCaller
    /\ inflight' = [inflight EXCEPT ![KeyOf[c]] = c]
    /\ stage' = [stage EXCEPT ![c] = "queued"]
    /\ ahead' = [ahead EXCEPT ![c] = In("queued")]
    /\ left' = [left EXCEPT ![c] = MaxWait[Priority[c]]]
    /\ StartPumping(In("queued") \union {c})
    /\ UNCHANGED <<weightPerMinute, clocks, timer>>

-----------------------------------------------------------------------------
(* pump: the queue is sorted by priority, then by arrival.                 *)

FirstByArrival(c) == \A d \in todo \ {c} : c \in ahead[d]
First(c) ==
    \A d \in todo \ {c} :
        \/ Priority[c] < Priority[d]
        \/ Priority[c] = Priority[d] /\ c \in ahead[d]
LooksOnward(c) == pumping /\ c \in todo /\ First(c)
Looks(c) == pumping /\ ~Full /\ c \in todo /\ First(c)

\* Weights above the budget are alike: they leave no room.
Spend(byAge, c) ==
    [byAge EXCEPT ![0] = AtMost(@ + Weight[KeyOf[c]], weightPerMinute + 1)]

\* start, to the call of doFetch.
Start(c) ==
    /\ Looks(c)
    /\ ~Blocked(c)
    /\ stage' = [stage EXCEPT ![c] = "running"]
    /\ LeavesQueue(c)
    /\ todo' = todo \ {c}
    /\ IF Paced
       THEN /\ spent' = Spend(spent, c)
            /\ discretionary' = IF Urgent(c) THEN discretionary ELSE Spend(discretionary, c)
       ELSE UNCHANGED <<spent, discretionary>>
    /\ UNCHANGED <<weightPerMinute, inflight, cooldown, since429, timer, pumping, wake>>

DeferSilently(c) ==
    /\ Looks(c)
    /\ Blocked(c)
    /\ NextOpportunity(c) > left[c]
    /\ stage' = [stage EXCEPT ![c] = "idle"]
    /\ inflight' = [inflight EXCEPT ![KeyOf[c]] = NoCaller]
    /\ LeavesQueue(c)
    /\ todo' = todo \ {c}
    /\ UNCHANGED <<weightPerMinute, clocks, timer, pumping, wake>>

Defer(c) ==
    /\ Looks(c)
    /\ Blocked(c)
    /\ NextOpportunity(c) > left[c]
    /\ Settled(c)
    /\ LeavesQueue(c)
    /\ todo' = todo \ {c}
    /\ UNCHANGED <<weightPerMinute, clocks, timer, pumping, wake>>

Keep(c) ==
    /\ Looks(c)
    /\ Blocked(c)
    /\ NextOpportunity(c) <= left[c]
    /\ todo' = todo \ {c}
    /\ wake' = AtMost(wake, NextOpportunity(c))
    /\ UNCHANGED <<weightPerMinute, calls, clocks, timer, pumping>>

ArmLatest == IF timer = Never THEN wake ELSE timer

\* arm: a timer that is due no later stays.
Arm == AtMost(timer, wake)

PumpEnds ==
    /\ pumping
    /\ todo = {} \/ Full
    /\ timer' = Arm
    /\ pumping' = FALSE /\ todo' = {} /\ wake' = Never
    /\ UNCHANGED <<weightPerMinute, calls, clocks>>

PumpStep == PumpEnds \/ \E c \in Caller : Start(c) \/ Defer(c) \/ Keep(c)

-----------------------------------------------------------------------------
(* Answers, the timer, and time.                                           *)

\* The request's answer, an error or its timeout; then the queue is pumped.
Finishes(c) ==
    /\ ~pumping
    /\ stage[c] = "running"
    /\ Settled(c)
    /\ StartPumping(In("queued"))
    /\ UNCHANGED <<weightPerMinute, ahead, left, spent, timer, discretionary>>

Answered(c) ==
    /\ Finishes(c)
    /\ UNCHANGED <<cooldown, since429>>

\* parseRetryAfter and backoffMs: what the server asks for, or a backoff with its jitter.
Waits == 0..MaxCooldown

\* note429: the cool-down only grows.
RateLimited(c) ==
    /\ Finishes(c)
    /\ since429' = 0
    /\ \E wait \in Waits : cooldown' = AtLeast(cooldown, wait)

\* Not before its time, and perhaps late.
TimerFires ==
    /\ ~pumping
    /\ timer = 0
    /\ timer' = Never
    /\ StartPumping(In("queued"))
    /\ UNCHANGED <<weightPerMinute, calls, clocks>>

Older(byAge) == [a \in Ages |-> IF a = 0 THEN 0 ELSE byAge[a - 1]]

Tick ==
    /\ ~pumping
    /\ cooldown' = Less1(cooldown)
    /\ since429' = AtMost(since429 + 1, Window)
    /\ left' = [c \in Caller |-> IF stage[c] = "queued" THEN AtLeast(left[c] - 1, -1) ELSE 0]
    /\ timer' = IF timer = Never THEN Never ELSE Less1(timer)
    /\ spent' = Older(spent)
    /\ discretionary' = Older(discretionary)
    /\ UNCHANGED <<weightPerMinute, stage, inflight, ahead, pump>>

Next ==
    \/ \E c \in Caller : Join(c) \/ Schedule(c) \/ Answered(c) \/ RateLimited(c)
    \/ PumpStep \/ TimerFires \/ Tick

Spec == Init /\ [][Next]_vars
-----------------------------------------------------------------------------
(* Properties.                                                             *)

\* Among the types: no more requests run than maxConcurrent.
TypeOK ==
    /\ weightPerMinute \in Budgets
    /\ stage \in [Caller -> {"idle", "queued", "joined", "running"}]
    /\ inflight \in [Key -> Caller \union {NoCaller}]
    /\ ahead \in [Caller -> SUBSET Caller]
    /\ left \in [Caller -> Int]
    /\ cooldown \in 0..MaxCooldown
    /\ since429 \in 0..Window
    /\ spent \in [Ages -> Nat] /\ discretionary \in [Ages -> Nat]
    /\ timer \in 0..Never /\ wake \in 0..Never
    /\ pumping \in BOOLEAN /\ todo \subseteq In("queued")
    /\ Cardinality(In("running")) <= MaxConcurrent

\* "identical concurrent requests share one HTTP request" (rate_limit.mjs:31): a key
\* has at most one request queued or running, and whoever joined it is still waiting
\* for that one: nobody waits for a promise that has settled.
Waiting == In("queued") \union In("running")
OneRequestPerKey ==
    \A c \in Waiting, d \in Caller :
        KeyOf[d] = KeyOf[c] => d = c \/ d \notin Waiting
NobodyWaitsInVain ==
    \A c \in In("joined") : \E d \in Waiting : KeyOf[d] = KeyOf[c]
RequestsAreShared == OneRequestPerKey /\ NobodyWaitsInVain

\* The queue never sleeps through its chance: with a slot free, no request waits that
\* could start, unless the timer is due; and a request that cannot start yet has a
\* timer set for no later than the first moment it could.
AlwaysWoken ==
    ~pumping /\ ~Full =>
        \A c \in In("queued") :
            timer <= IF Blocked(c) THEN NextOpportunity(c) ELSE 0

\* "P0/P1 ... always start before anything queued below them" (rate_limit.mjs:23).
UrgentFirst ==
    [][\A c \in Caller :
          Start(c) /\ ~Urgent(c) => \A d \in In("queued") : ~Urgent(d)]_vars

\* "Budget each priority may NOT eat into": in any window, what P2 to P5 started
\* leaves the rest of the weight to P0 and P1.
WithinBudget ==
    Paced => SumFunction(discretionary) <= AtLeast(weightPerMinute - Reserve[2], 0)

\* "P0/P1 never wait for the budget or a cooldown" (rate_limit.mjs:22): with a slot
\* free, the request an urgent caller waits for is under way.
UrgentNeverWaits ==
    ~pumping /\ ~Full =>
        \A c \in In("joined") : Urgent(c) => inflight[KeyOf[c]] \in In("running")
==============================================================================
