------------------------- MODULE RequestBudgetProofs -------------------------
(***************************************************************************)
(* What the shared budget keeps for any callers, keys, priorities and      *)
(* times: the bound on running requests, the sharing of identical ones,    *)
(* the rank of urgent ones, and, without pacing, that the timer is always  *)
(* set in time.                                                            *)
(***************************************************************************)
EXTENDS RequestBudget, SumTheorems

\* The variables' types, in the parts that prove together.
CallTypes ==
    /\ stage \in [Caller -> {"idle", "queued", "joined", "running"}]
    /\ inflight \in [Key -> Caller \union {NoCaller}]
    /\ ahead \in [Caller -> SUBSET Caller]
    /\ pumping \in BOOLEAN
    /\ todo \subseteq In("queued")
WaitTypes == left \in [Caller -> Int]
ClockTypes ==
    /\ weightPerMinute \in Budgets
    /\ cooldown \in 0..MaxCooldown
    /\ since429 \in 0..Window
    /\ timer \in 0..Never
    /\ wake \in 0..Never
SpentTypes == spent \in [Ages -> Nat] /\ discretionary \in [Ages -> Nat]

Bounded == Cardinality(In("running")) <= MaxConcurrent

\* The promise kept for a key is the one of its queued or running request.
OwnerInv ==
    /\ \A c \in Waiting : inflight[KeyOf[c]] = c
    /\ \A k \in Key : inflight[k] # NoCaller =>
          inflight[k] \in Waiting /\ KeyOf[inflight[k]] = k
    /\ \A c \in In("joined") : inflight[KeyOf[c]] # NoCaller

\* What pump() has looked at and left in the queue is not urgent.
RankInv ==
    pumping => \A c \in In("queued") \ todo : ~Urgent(c)

\* The types hold before the first request.
LEMMA InitTypes == Init => CallTypes /\ WaitTypes /\ ClockTypes /\ SpentTypes
<1> SUFFICES ASSUME Init PROVE CallTypes /\ WaitTypes /\ ClockTypes /\ SpentTypes
  OBVIOUS
<1> USE BudgetAssumption DEF Init
<1>1. CallTypes  BY DEF CallTypes, In
<1>2. WaitTypes  BY DEF WaitTypes
<1>3. ClockTypes  BY DEF ClockTypes, Never
<1>4. SpentTypes  BY DEF SpentTypes
<1> QED  BY <1>1, <1>2, <1>3, <1>4

LEMMA NextCallTypes == CallTypes /\ [Next]_vars => CallTypes'
<1> SUFFICES ASSUME CallTypes, [Next]_vars PROVE CallTypes'
  OBVIOUS
<1> USE BudgetAssumption DEF CallTypes, In, calls, clocks, pump
<1>1. ASSUME NEW c \in Caller, Join(c) PROVE CallTypes'
  BY <1>1 DEF Join
<1>2. ASSUME NEW c \in Caller, Schedule(c) PROVE CallTypes'
  BY <1>2 DEF Schedule, StartPumping
<1>3. ASSUME NEW c \in Caller, Finishes(c) PROVE CallTypes'
  BY <1>3 DEF Finishes, Settled, StartPumping
<1>4. CASE PumpEnds
  BY <1>4 DEF PumpEnds
<1>5. ASSUME NEW c \in Caller, Start(c) PROVE CallTypes'
  BY <1>5 DEF Start, LeavesQueue, Looks
<1>6. ASSUME NEW c \in Caller, Defer(c) PROVE CallTypes'
  BY <1>6 DEF Defer, Settled, LeavesQueue, Looks
<1>7. ASSUME NEW c \in Caller, Keep(c) PROVE CallTypes'
  BY <1>7 DEF Keep
<1>8. CASE TimerFires
  BY <1>8 DEF TimerFires, StartPumping
<1>9. CASE Tick
  BY <1>9 DEF Tick
<1>10. CASE UNCHANGED vars
  BY <1>10 DEF vars
<1> QED  BY <1>1, <1>2, <1>3, <1>4, <1>5, <1>6, <1>7, <1>8, <1>9, <1>10
         DEF Next, PumpStep, Answered, RateLimited

LEMMA NextWaitTypes == WaitTypes /\ [Next]_vars => WaitTypes'
<1> SUFFICES ASSUME WaitTypes, [Next]_vars PROVE WaitTypes'
  OBVIOUS
<1> USE BudgetAssumption DEF WaitTypes, calls, LeavesQueue
<1>1. ASSUME NEW c \in Caller, Schedule(c) PROVE WaitTypes'
  BY <1>1 DEF Schedule
<1>2. ASSUME NEW c \in Caller, Start(c) \/ Defer(c) PROVE WaitTypes'
  BY <1>2 DEF Start, Defer
<1>3. CASE Tick
  BY <1>3 DEF Tick, AtLeast
<1> QED  BY <1>1, <1>2, <1>3 DEF Next, PumpStep, Join, Finishes, Answered, RateLimited,
                                  PumpEnds, Keep, TimerFires, vars

\* The next opportunity is a time that can be waited for.
LEMMA NextOpportunityIsATime ==
    ASSUME ClockTypes, NEW c \in Caller
    PROVE  NextOpportunity(c) \in 0..Never
<1> USE BudgetAssumption DEF ClockTypes, Never, Ages
<1>1. CASE \E age \in Ages : MakesRoom(c, age)
  <2>1. (CHOOSE age \in Ages : MakesRoom(c, age)) \in Ages
    BY <1>1
  <2> QED  BY <2>1 DEF NextOpportunity
<1>2. CASE ~ \E age \in Ages : MakesRoom(c, age)
  BY <1>2 DEF NextOpportunity
<1> QED  BY <1>1, <1>2

LEMMA NextClockTypes == ClockTypes /\ [Next]_vars => ClockTypes'
<1> SUFFICES ASSUME ClockTypes, [Next]_vars PROVE ClockTypes'
  OBVIOUS
<1> USE BudgetAssumption DEF ClockTypes, clocks, pump, AtMost, AtLeast, Never
<1>1. ASSUME NEW c \in Caller, Join(c) PROVE ClockTypes'
  BY <1>1 DEF Join
<1>2. ASSUME NEW c \in Caller, Schedule(c) PROVE ClockTypes'
  BY <1>2 DEF Schedule, StartPumping
<1>3. ASSUME NEW c \in Caller, Answered(c) PROVE ClockTypes'
  BY <1>3 DEF Answered, Finishes, StartPumping
<1>4. ASSUME NEW c \in Caller, RateLimited(c) PROVE ClockTypes'
  BY <1>4 DEF RateLimited, Waits, Finishes, StartPumping
<1>5. CASE PumpEnds
  BY <1>5 DEF PumpEnds, Arm
<1>6. ASSUME NEW c \in Caller, Start(c) PROVE ClockTypes'
  BY <1>6 DEF Start
<1>7. ASSUME NEW c \in Caller, Defer(c) PROVE ClockTypes'
  BY <1>7 DEF Defer
<1>8. ASSUME NEW c \in Caller, Keep(c) PROVE ClockTypes'
  BY <1>8, NextOpportunityIsATime DEF Keep
<1>9. CASE TimerFires
  BY <1>9 DEF TimerFires, StartPumping
<1>10. CASE Tick
  BY <1>10 DEF Tick, Less1
<1>11. CASE UNCHANGED vars
  BY <1>11 DEF vars
<1> QED  BY <1>1, <1>2, <1>3, <1>4, <1>5, <1>6, <1>7, <1>8, <1>9, <1>10, <1>11
         DEF Next, PumpStep

LEMMA NextSpentTypes == ClockTypes /\ SpentTypes /\ [Next]_vars => SpentTypes'
<1> SUFFICES ASSUME ClockTypes, SpentTypes, [Next]_vars PROVE SpentTypes'
  OBVIOUS
<1> USE BudgetAssumption DEF SpentTypes, clocks
<1>1. ASSUME NEW c \in Caller, Start(c) PROVE SpentTypes'
  <2>1. weightPerMinute + 1 \in Nat /\ Weight[KeyOf[c]] \in Nat
    BY DEF ClockTypes
  <2>2. ASSUME NEW byAge \in [Ages -> Nat] PROVE Spend(byAge, c) \in [Ages -> Nat]
    <3>1. AtMost(byAge[0] + Weight[KeyOf[c]], weightPerMinute + 1) \in Nat
      <4>1. 0 \in Ages  BY DEF Ages
      <4>2. byAge[0] \in Nat  BY <4>1, <2>2
      <4> QED  BY <2>1, <4>2 DEF AtMost
    <3> QED  BY <3>1, <2>2 DEF Spend
  <2> QED  BY <1>1, <2>2 DEF Start
<1>2. CASE Tick
  <2>1. ASSUME NEW byAge \in [Ages -> Nat] PROVE Older(byAge) \in [Ages -> Nat]
    <3>1. ASSUME NEW a \in Ages, a # 0 PROVE byAge[a - 1] \in Nat
      <4>1. a - 1 \in Ages  BY <3>1 DEF Ages
      <4> QED  BY <4>1, <2>1
    <3> QED  BY <3>1 DEF Older
  <2> QED  BY <1>2, <2>1 DEF Tick
<1> QED  BY <1>1, <1>2 DEF Next, PumpStep, Schedule, Join, Finishes, Answered, RateLimited,
                            PumpEnds, Defer, Keep, TimerFires, vars

-----------------------------------------------------------------------------
\* The bound on running requests: a start needs a free slot.
LEMMA NextBounded == CallTypes /\ Bounded /\ [Next]_vars => Bounded'
<1> SUFFICES ASSUME CallTypes, Bounded, [Next]_vars PROVE Bounded'
  OBVIOUS
<1>1. IsFiniteSet(In("running"))
  <2>1. In("running") \in SUBSET Caller  BY DEF In
  <2> QED  BY <2>1, FS_Subset, BudgetAssumption
<1>2. Cardinality(In("running")) \in Nat  BY <1>1, FS_CardinalityType
<1>3. ASSUME In("running")' \subseteq In("running") PROVE Bounded'
  <2>1. Cardinality(In("running")') <= Cardinality(In("running"))  BY <1>1, <1>3, FS_Subset
  <2>2. Cardinality(In("running")') \in Nat
    <3>1. IsFiniteSet(In("running")')  BY <1>1, <1>3, FS_Subset
    <3> QED  BY <3>1, FS_CardinalityType
  <2> QED  BY <2>1, <2>2, <1>2, BudgetAssumption DEF Bounded
<1>4. ASSUME NEW c \in Caller, Start(c) PROVE Bounded'
  <2>1. In("running")' = In("running") \union {c}
    BY <1>4 DEF Start, In, CallTypes
  <2>2. /\ IsFiniteSet(In("running") \union {c})
        /\ Cardinality(In("running") \union {c}) =
             IF c \in In("running") THEN Cardinality(In("running"))
                                   ELSE Cardinality(In("running")) + 1
    BY <1>1, FS_AddElement
  <2>3. Cardinality(In("running")) < MaxConcurrent
    BY <1>2, <1>4, BudgetAssumption DEF Start, Looks, Full
  <2>4. Cardinality(In("running") \union {c}) \in Nat
    BY <2>2, FS_CardinalityType
  <2> QED  BY <2>1, <2>2, <2>3, <2>4, <1>2, BudgetAssumption DEF Bounded
<1>5. ASSUME NEW c \in Caller, Join(c) \/ Schedule(c) \/ Defer(c) \/ Finishes(c)
      PROVE  In("running")' \subseteq In("running")
  BY <1>5 DEF Join, Schedule, Defer, Finishes, Settled, In, CallTypes
<1>6. ASSUME UNCHANGED stage PROVE In("running")' \subseteq In("running")
  BY <1>6 DEF In
<1> QED  BY <1>3, <1>4, <1>5, <1>6
         DEF Next, PumpStep, Answered, RateLimited, Keep, PumpEnds, TimerFires, Tick, calls, vars

\* Every variable keeps its type, and no more than maxConcurrent requests run
\* (rate_limit.mjs pump).
THEOREM BudgetTypeCorrect == Spec => []TypeOK
<1>1. Init => CallTypes /\ WaitTypes /\ ClockTypes /\ SpentTypes /\ Bounded
  <2>1. Init => In("running") = {}  BY DEF Init, In
  <2> QED  BY <2>1, InitTypes, FS_EmptySet, BudgetAssumption DEF Bounded
<1>2. CallTypes /\ WaitTypes /\ ClockTypes /\ SpentTypes /\ Bounded /\ [Next]_vars
        => CallTypes' /\ WaitTypes' /\ ClockTypes' /\ SpentTypes' /\ Bounded'
  BY NextCallTypes, NextWaitTypes, NextClockTypes, NextSpentTypes, NextBounded
<1>3. CallTypes /\ WaitTypes /\ ClockTypes /\ SpentTypes /\ Bounded => TypeOK
  BY DEF CallTypes, WaitTypes, ClockTypes, SpentTypes, Bounded, TypeOK
<1> QED  BY <1>1, <1>2, <1>3, PTL DEF Spec

-----------------------------------------------------------------------------
LEMMA InitOwnerInv == Init => OwnerInv
  BY BudgetAssumption DEF Init, OwnerInv, Waiting, In

LEMMA NextOwnerInv == CallTypes /\ OwnerInv /\ [Next]_vars => OwnerInv'
<1> SUFFICES ASSUME CallTypes, OwnerInv, [Next]_vars PROVE OwnerInv'
  OBVIOUS
<1> USE BudgetAssumption DEF CallTypes, OwnerInv, Waiting, In, calls
<1>1. ASSUME NEW c \in Caller, Join(c) PROVE OwnerInv'
  BY <1>1 DEF Join
<1>2. ASSUME NEW c \in Caller, Schedule(c) PROVE OwnerInv'
  BY <1>2 DEF Schedule
<1>3. ASSUME NEW c \in Caller, c \in Waiting, Settled(c) PROVE OwnerInv'
  BY <1>3 DEF Settled
<1>4. ASSUME NEW c \in Caller, Finishes(c) PROVE OwnerInv'
  BY <1>3, <1>4 DEF Finishes
<1>5. ASSUME NEW c \in Caller, Start(c) PROVE OwnerInv'
  BY <1>5 DEF Start, Looks
<1>6. ASSUME NEW c \in Caller, Defer(c) PROVE OwnerInv'
  BY <1>3, <1>6 DEF Defer, Looks
<1>7. ASSUME UNCHANGED <<stage, inflight>> PROVE OwnerInv'
  BY <1>7
<1> QED  BY <1>1, <1>2, <1>4, <1>5, <1>6, <1>7
         DEF Next, PumpStep, Answered, RateLimited, Keep, PumpEnds, TimerFires, Tick, vars

\* A key has at most one request under way, and nobody waits for one that has settled
\* (rate_limit.mjs fetch and its finally, defer).
THEOREM RequestsStayShared == Spec => []RequestsAreShared
<1>1. Init => CallTypes /\ OwnerInv  BY InitTypes, InitOwnerInv
<1>2. CallTypes /\ OwnerInv /\ [Next]_vars => CallTypes' /\ OwnerInv'
  BY NextCallTypes, NextOwnerInv
<1>3. OwnerInv => RequestsAreShared
  <2> SUFFICES ASSUME OwnerInv PROVE OneRequestPerKey /\ NobodyWaitsInVain
    BY DEF RequestsAreShared
  <2>1. OneRequestPerKey  BY DEF OwnerInv, OneRequestPerKey
  <2>2. NobodyWaitsInVain
    BY BudgetAssumption DEF OwnerInv, NobodyWaitsInVain, In
  <2> QED  BY <2>1, <2>2
<1> QED  BY <1>1, <1>2, <1>3, PTL DEF Spec

-----------------------------------------------------------------------------
LEMMA NextRankInv == CallTypes /\ RankInv /\ [Next]_vars => RankInv'
<1> SUFFICES ASSUME CallTypes, RankInv, [Next]_vars PROVE RankInv'
  OBVIOUS
<1> USE DEF CallTypes, RankInv, In, Urgent, calls, pump
<1>1. ASSUME NEW c \in Caller, Join(c) \/ Schedule(c) \/ Finishes(c) PROVE RankInv'
  BY <1>1 DEF Join, Schedule, Finishes, Settled, StartPumping
<1>2. ASSUME NEW c \in Caller, Start(c) \/ Defer(c) PROVE RankInv'
  BY <1>2 DEF Start, Defer, Settled
<1>3. ASSUME NEW c \in Caller, Keep(c) PROVE RankInv'
  BY <1>3 DEF Keep, Blocked
<1>4. CASE PumpEnds \/ TimerFires \/ Tick \/ UNCHANGED vars
  BY <1>4 DEF PumpEnds, TimerFires, StartPumping, Tick, vars
<1> QED  BY <1>1, <1>2, <1>3, <1>4 DEF Next, PumpStep, Answered, RateLimited

\* No request below P1 starts while one of P0 or P1 waits in the queue
\* (rate_limit.mjs:23, the sort in schedule and the loop of pump).
THEOREM UrgentStartFirst == Spec => UrgentFirst
<1>1. Init => CallTypes /\ RankInv  BY InitTypes DEF Init, RankInv
<1>2. CallTypes /\ RankInv /\ [Next]_vars => CallTypes' /\ RankInv'
  BY NextCallTypes, NextRankInv
<1>3. ASSUME RankInv, NEW c \in Caller, Start(c), ~Urgent(c), NEW d \in In("queued")
      PROVE  ~Urgent(d)
  <2>1. CASE d \notin todo
    BY <1>3, <2>1 DEF RankInv, Start, Looks
  <2>2. CASE d \in todo
    <3>1. Priority[c] \in 0..5 /\ Priority[d] \in 0..5
      BY BudgetAssumption DEF In
    <3>2. d = c \/ Priority[c] <= Priority[d]
      BY <1>3, <2>2, <3>1 DEF Start, Looks, First
    <3> QED  BY <1>3, <3>1, <3>2 DEF Urgent
  <2> QED  BY <2>1, <2>2
<1>4. RankInv => [\A c \in Caller :
                    Start(c) /\ ~Urgent(c) => \A d \in In("queued") : ~Urgent(d)]_vars
  BY <1>3
<1> QED  BY <1>1, <1>2, <1>4, PTL DEF Spec, UrgentFirst

-----------------------------------------------------------------------------
(* With pacing off, when a request may start depends on the cool-down and  *)
(* the last 429 only.                                                      *)

Opening(c) ==
    IF cooldown > 0 THEN cooldown
    ELSE IF Research(c) /\ since429 < Window THEN Window - since429 ELSE 0

\* Without pacing, the opening of a request is a wait, and the code's opportunity.
LEMMA UnpacedOpening ==
    ASSUME weightPerMinute = 0, ClockTypes, NEW c \in Caller
    PROVE  /\ NextOpportunity(c) = Opening(c)
           /\ Blocked(c) <=> ~Urgent(c) /\ Opening(c) > 0
           /\ Opening(c) \in 0..Never - 1
<1> USE BudgetAssumption DEF ClockTypes, Opening, Paced, Never
<1>1. NextOpportunity(c) = Opening(c)  BY DEF NextOpportunity
<1>2. Blocked(c) <=> ~Urgent(c) /\ Opening(c) > 0  BY DEF Blocked
<1>3. Opening(c) \in 0..Never - 1  OBVIOUS
<1> QED  BY <1>1, <1>2, <1>3

\* AlwaysWoken and WakeInv in these terms.
Woken ==
    ~pumping /\ ~Full =>
        \A c \in In("queued") : timer <= IF Urgent(c) THEN 0 ELSE Opening(c)
Passed ==
    pumping => \A c \in In("queued") \ todo : ~Urgent(c) /\ wake <= Opening(c)
UnpacedInv == weightPerMinute = 0 /\ ClockTypes /\ CallTypes /\ Woken /\ Passed

\* Timer and pump hand the promise of a wake-up over to each other.
LEMMA NextWoken == UnpacedInv /\ [Next]_vars => Woken' /\ Passed'
<1> SUFFICES ASSUME UnpacedInv, [Next]_vars PROVE Woken' /\ Passed'
  OBVIOUS
<1> USE BudgetAssumption DEF UnpacedInv, calls, clocks, pump
<1>1. ASSUME NEW c \in Caller, Join(c) PROVE Woken' /\ Passed'
  <2>1. In("queued")' = In("queued") /\ In("running")' = In("running")
    BY <1>1 DEF Join, In, CallTypes
  <2>2. Full' <=> Full  BY <2>1 DEF Full
  <2> QED  BY <1>1, <2>1, <2>2 DEF Join, Woken, Passed, Opening
<1>2. ASSUME pumping' = TRUE, todo' = In("queued")' PROVE Woken' /\ Passed'
  BY <1>2 DEF Woken, Passed
<1>3. ASSUME NEW c \in Caller, Schedule(c) PROVE Woken' /\ Passed'
  <2>1. In("queued")' = In("queued") \union {c}
    BY <1>3 DEF Schedule, In, CallTypes
  <2> QED  BY <1>2, <1>3, <2>1 DEF Schedule, StartPumping
<1>4. ASSUME NEW c \in Caller, Finishes(c) PROVE Woken' /\ Passed'
  <2>1. In("queued")' = In("queued")
    BY <1>4 DEF Finishes, Settled, In, CallTypes
  <2> QED  BY <1>2, <1>4, <2>1 DEF Finishes, StartPumping
<1>5. CASE PumpEnds
  <2>1. In("queued")' = In("queued") /\ In("running")' = In("running")
    BY <1>5 DEF PumpEnds, In
  <2>2. Full' <=> Full  BY <2>1 DEF Full
  <2>3. ASSUME ~Full, NEW c \in In("queued")
        PROVE  timer' <= IF Urgent(c) THEN 0 ELSE Opening(c)
    <3>1. c \in Caller /\ ~Urgent(c) /\ wake <= Opening(c)
      BY <1>5, <2>3 DEF PumpEnds, Passed, In
    <3>2. Opening(c) \in 0..Never - 1  BY <3>1, UnpacedOpening
    <3> QED  BY <1>5, <3>1, <3>2 DEF PumpEnds, Arm, AtMost, ClockTypes, Never
  <2> QED  BY <1>5, <2>1, <2>2, <2>3 DEF PumpEnds, Woken, Passed, Opening
<1>6. ASSUME NEW c \in Caller, Start(c) \/ Defer(c) PROVE Woken' /\ Passed'
  <2>1. pumping' = TRUE /\ wake' = wake /\ pumping = TRUE
    BY <1>6 DEF Start, Defer, Looks, CallTypes
  <2>2. In("queued")' = In("queued") \ {c} /\ todo' = todo \ {c}
    BY <1>6 DEF Start, Defer, Settled, Looks, In, CallTypes
  <2>3. UNCHANGED <<cooldown, since429>>
    BY <1>6 DEF Start, Defer
  <2> QED  BY <2>1, <2>2, <2>3 DEF Woken, Passed, Opening
<1>7. ASSUME NEW c \in Caller, Keep(c) PROVE Woken' /\ Passed'
  <2>1. ~Urgent(c) /\ NextOpportunity(c) = Opening(c) /\ Opening(c) \in 0..Never - 1
    BY <1>7, UnpacedOpening DEF Keep
  <2>2. wake' <= Opening(c) /\ wake' <= wake
    BY <1>7, <2>1 DEF Keep, AtMost, ClockTypes, Never
  <2>3. ASSUME NEW d \in In("queued"), d \notin todo PROVE wake' <= Opening(d)
    <3>1. wake <= Opening(d)  BY <1>7, <2>3 DEF Keep, Looks, Passed
    <3>2. Opening(d) \in 0..Never - 1  BY <2>3, UnpacedOpening DEF In
    <3>3. wake' \in Int
      BY <1>7, <2>1 DEF Keep, AtMost, ClockTypes, Never
    <3> QED  BY <2>2, <3>1, <3>2, <3>3 DEF ClockTypes, Never
  <2>4. UNCHANGED <<stage, cooldown, since429, pumping>> /\ todo' = todo \ {c} /\ pumping
    BY <1>7 DEF Keep, Looks
  <2> QED  BY <2>1, <2>2, <2>3, <2>4 DEF Woken, Passed, Opening, In
<1>8. CASE TimerFires
  <2>1. In("queued")' = In("queued")  BY <1>8 DEF TimerFires, In
  <2> QED  BY <1>2, <1>8, <2>1 DEF TimerFires, StartPumping
<1>9. CASE Tick
  <2>1. In("queued")' = In("queued") /\ In("running")' = In("running")
    BY <1>9 DEF Tick, In
  <2>2. Full' <=> Full  BY <2>1 DEF Full
  <2>3. ASSUME ~Full, NEW c \in In("queued")
        PROVE  timer' <= IF Urgent(c) THEN 0 ELSE Opening(c)'
    <3>1. c \in Caller /\ timer <= IF Urgent(c) THEN 0 ELSE Opening(c)
      BY <1>9, <2>3 DEF Tick, Woken, In
    <3>2. Opening(c) \in 0..Never - 1  BY <3>1, UnpacedOpening
    <3>3. timer # Never /\ timer' = Less1(timer)
      BY <1>9, <3>1, <3>2 DEF Tick, ClockTypes, Never
    <3>4. cooldown' = Less1(cooldown) /\ since429' = AtMost(since429 + 1, Window)
      BY <1>9 DEF Tick
    <3> QED  BY <3>1, <3>3, <3>4 DEF Opening, Less1, AtMost, ClockTypes, Never
  <2> QED  BY <1>9, <2>1, <2>2, <2>3 DEF Tick, Woken, Passed
<1>10. CASE UNCHANGED vars
  BY <1>10 DEF vars, Woken, Passed, Opening, In, Full
<1> QED  BY <1>1, <1>3, <1>4, <1>5, <1>6, <1>7, <1>8, <1>9, <1>10
         DEF Next, PumpStep, Answered, RateLimited

\* With pacing off, as shipped: while a slot is free, the timer is set for no later
\* than the moment a waiting request could start (rate_limit.mjs nextOpportunity, arm).
THEOREM UnpacedAlwaysWoken ==
    ASSUME Budgets = {0}
    PROVE  Spec => []AlwaysWoken
<1>1. Init => UnpacedInv
  BY InitTypes DEF Init, UnpacedInv, Woken, Passed, In
<1>2. UnpacedInv /\ [Next]_vars => UnpacedInv'
  BY NextWoken, NextClockTypes, NextCallTypes DEF UnpacedInv, ClockTypes
<1>3. UnpacedInv => AlwaysWoken
  <2> SUFFICES ASSUME UnpacedInv, ~pumping, ~Full, NEW c \in In("queued")
               PROVE  timer <= IF Blocked(c) THEN NextOpportunity(c) ELSE 0
    BY DEF AlwaysWoken
  <2>1. /\ c \in Caller
        /\ NextOpportunity(c) = Opening(c)
        /\ Blocked(c) <=> ~Urgent(c) /\ Opening(c) > 0
        /\ Opening(c) \in 0..Never - 1
    BY UnpacedOpening DEF UnpacedInv, In
  <2>2. timer <= IF Urgent(c) THEN 0 ELSE Opening(c)
    BY DEF UnpacedInv, Woken
  <2> QED  BY <2>1, <2>2, BudgetAssumption DEF UnpacedInv, ClockTypes, Never
<1> QED  BY <1>1, <1>2, <1>3, PTL DEF Spec

-----------------------------------------------------------------------------
(* The budget itself.  What P2 to P5 have started is a part of all that was *)
(* started, age by age; so the room a start has left of the whole window   *)
(* is room it leaves of theirs.                                            *)

\* The cap of Spend is never passed, and the discretionary part is a part.
PartInv ==
    Paced => \A a \in Ages : discretionary[a] <= spent[a] /\ spent[a] <= weightPerMinute + 1
LeftInv ==
    Paced => SumOn(discretionary, Ages) <= AtLeast(weightPerMinute - Reserve[2], 0)
BudgetInv == CallTypes /\ ClockTypes /\ SpentTypes /\ PartInv /\ LeftInv

\* A window has finitely many ages.
LEMMA AgesAreFinite == IsFiniteSet(Ages) /\ 0 \in Ages
BY BudgetAssumption, FS_Interval DEF Ages

\* The weight of the window is a sum over its ages.
LEMMA WindowWeightIsSum == WindowWeight = SumOn(spent, Ages)
<1>1. {a \in Ages : a < Window} = Ages
  BY BudgetAssumption DEF Ages
<1> QED  BY <1>1 DEF WindowWeight, YoungerThan, SumOn

\* Spending what is capped at the budget keeps a part a part.
LEMMA StartKeepsBudget ==
    ASSUME BudgetInv, NEW c \in Caller, Start(c)
    PROVE  PartInv' /\ LeftInv'
<1> USE BudgetAssumption
<1> SUFFICES ASSUME Paced PROVE PartInv' /\ LeftInv'
  BY DEF Start, PartInv, LeftInv, Paced
<1> DEFINE W == weightPerMinute
           w == Weight[KeyOf[c]]
<1>1. W \in Nat /\ w \in Nat /\ W' = W
  BY DEF BudgetInv, ClockTypes, Start
<1>2. /\ spent \in [Ages -> Nat] /\ discretionary \in [Ages -> Nat]
      /\ \A a \in Ages : discretionary[a] <= spent[a] /\ spent[a] <= W + 1
      /\ SumOn(discretionary, Ages) <= AtLeast(W - Reserve[2], 0)
  BY DEF BudgetInv, SpentTypes, PartInv, LeftInv
<1>3. spent' = [spent EXCEPT ![0] = AtMost(@ + w, W + 1)]
  BY DEF Start, Spend
<1>4. \/ Urgent(c) /\ discretionary' = discretionary
      \/ ~Urgent(c) /\ discretionary' = [discretionary EXCEPT ![0] = AtMost(@ + w, W + 1)]
  BY DEF Start, Spend
<1>5. 0 \in Ages /\ IsFiniteSet(Ages)
  BY AgesAreFinite
<1> HIDE DEF W, w
<1>6. \A a \in Ages : discretionary'[a] <= spent'[a] /\ spent'[a] <= W + 1
  BY <1>1, <1>2, <1>3, <1>4, <1>5 DEF AtMost
<1>7. SumOn(discretionary, Ages)' <= AtLeast(W - Reserve[2], 0)
  <2>1. CASE Urgent(c)
    BY <1>2, <1>4, <2>1
  <2>2. CASE ~Urgent(c)
    <3> DEFINE d == discretionary
               e == [discretionary EXCEPT ![0] = AtMost(@ + w, W + 1)]
    <3>1. /\ e \in [Ages -> Nat] /\ e[0] <= d[0] + w
          /\ \A a \in Ages \ {0} : d[a] = e[a]
      BY <1>1, <1>2, <1>5 DEF AtMost
    <3>2. Ints(d, Ages) /\ Ints(e, Ages) /\ Ints(spent, Ages)
      BY <1>2, <3>1 DEF Ints
    <3>3. d[0] \in Nat /\ e[0] \in Nat
      BY <1>2, <1>5, <3>1
    <3>4. discretionary' = e
      BY <1>4, <2>2
    <3> HIDE DEF d, e
    <3>5. SumOn(e, Ages) = SumOn(d, Ages) - d[0] + e[0]
      BY <1>5, <3>1, <3>2, SumChanges
    <3>6. SumOn(d, Ages) <= SumOn(spent, Ages)
      BY <1>2, <1>5, <3>2, SumIsMonotone DEF d
    <3>7. SumOn(d, Ages) \in Int /\ SumOn(spent, Ages) \in Int
      BY <1>5, <3>2, SumIsInteger
    <3>8. SumOn(spent, Ages) <= W - Reserve[Priority[c]] - w
      <4>1. ~(WindowWeight > Room(c))
        BY <2>2 DEF Start, Blocked
      <4>2. Room(c) = W - Reserve[Priority[c]] - w
        BY DEF Room, W, w
      <4>3. Room(c) \in Int
        BY <1>1, <4>2
      <4> QED  BY <3>7, <4>1, <4>2, <4>3, WindowWeightIsSum
    <3>9. Reserve[2] <= Reserve[Priority[c]] /\ Reserve[2] \in Nat /\ Reserve[Priority[c]] \in Nat
      BY <2>2, ReserveAssumption DEF Urgent
    <3>10. SumOn(e, Ages) <= W - Reserve[2]
      <4>1. SumOn(e, Ages) <= SumOn(d, Ages) + w
        BY <1>1, <3>1, <3>3, <3>5, <3>7
      <4> QED  BY <1>1, <3>3, <3>5, <3>6, <3>7, <3>8, <3>9, <4>1
    <3>11. SumOn(discretionary, Ages)' = SumOn(e, Ages)
      BY <3>4
    <3>12. SumOn(e, Ages) \in Int
      BY <1>5, <3>2, SumIsInteger
    <3> QED  BY <1>1, <3>9, <3>10, <3>11, <3>12 DEF AtLeast
  <2> QED  BY <2>1, <2>2
<1>8. PartInv'
  BY <1>1, <1>6 DEF PartInv, W
<1>9. LeftInv'
  BY <1>1, <1>7 DEF LeftInv, W, AtLeast
<1> QED  BY <1>8, <1>9

\* Time takes what has left the window out of both.
LEMMA TickKeepsBudget ==
    ASSUME BudgetInv, Tick
    PROVE  PartInv' /\ LeftInv'
<1> USE BudgetAssumption
<1> SUFFICES ASSUME Paced PROVE PartInv' /\ LeftInv'
  BY DEF Tick, PartInv, LeftInv, Paced
<1>1. /\ spent \in [Ages -> Nat] /\ discretionary \in [Ages -> Nat]
      /\ \A a \in Ages : discretionary[a] <= spent[a] /\ spent[a] <= weightPerMinute + 1
      /\ SumOn(discretionary, Ages) <= AtLeast(weightPerMinute - Reserve[2], 0)
      /\ weightPerMinute \in Nat
  BY DEF BudgetInv, SpentTypes, PartInv, LeftInv, ClockTypes
<1>2. /\ spent' = Older(spent) /\ discretionary' = Older(discretionary)
      /\ weightPerMinute' = weightPerMinute
  BY DEF Tick
<1>3. PartInv'
  <2>1. ASSUME NEW a \in Ages
        PROVE  Older(discretionary)[a] <= Older(spent)[a] /\ Older(spent)[a] <= weightPerMinute + 1
    <3>1. CASE a = 0  BY <1>1, <3>1 DEF Older
    <3>2. CASE a # 0
      <4>1. a - 1 \in Ages  BY <3>2 DEF Ages
      <4> QED  BY <1>1, <3>2, <4>1 DEF Older
    <3> QED  BY <3>1, <3>2
  <2> QED  BY <1>2, <2>1 DEF PartInv
<1>4. SumOn(Older(discretionary), Ages) <= SumOn(discretionary, Ages)
  <2> DEFINE n == Window - 1
             d == discretionary
             e == Older(discretionary)
  <2>1. n \in Nat /\ Ages = 0..n
    BY DEF Ages
  <2>2. \A a \in 0..n : d[a] \in Nat
    BY <1>1, <2>1
  <2>3. e[0] = 0 /\ \A a \in 1..n : e[a] = d[a - 1]
    BY <2>1 DEF Older
  <2> HIDE DEF n, d, e
  <2>4. SumOn(e, 0..n) <= SumOn(d, 0..n)
    BY <2>1, <2>2, <2>3, SumMovesOn
  <2> QED  BY <2>1, <2>4 DEF d, e
<1>5. SumOn(discretionary, Ages)' = SumOn(Older(discretionary), Ages)
  BY <1>2
<1>6. /\ SumOn(discretionary, Ages) \in Int /\ SumOn(Older(discretionary), Ages) \in Int
      /\ AtLeast(weightPerMinute - Reserve[2], 0) \in Int
  <2>1. Older(discretionary) \in [Ages -> Nat]
    <3>1. ASSUME NEW a \in Ages, a # 0 PROVE discretionary[a - 1] \in Nat
      <4>1. a - 1 \in Ages  BY <3>1 DEF Ages
      <4> QED  BY <1>1, <4>1
    <3> QED  BY <3>1 DEF Older
  <2>2. Ints(discretionary, Ages) /\ Ints(Older(discretionary), Ages)
    BY <1>1, <2>1 DEF Ints
  <2>3. Reserve[2] \in Nat  OBVIOUS
  <2> QED  BY <1>1, <2>2, <2>3, AgesAreFinite, SumIsInteger DEF AtLeast
<1>7. LeftInv'
  BY <1>1, <1>2, <1>4, <1>5, <1>6 DEF LeftInv, AtLeast
<1> QED  BY <1>3, <1>7

\* In any window, what P2 to P5 have started leaves the reserve of discovery to P0 and P1
\* (rate_limit.mjs blockedReason, start).
THEOREM BudgetIsKept == Spec => []WithinBudget
<1>1. Init => BudgetInv
  <2> SUFFICES ASSUME Init PROVE BudgetInv
    OBVIOUS
  <2>1. \A a \in Ages : discretionary[a] = 0 /\ spent[a] = 0
    BY DEF Init
  <2>2. SumOn(discretionary, Ages) = 0
    BY <2>1, AgesAreFinite, SumOfZeros
  <2>3. weightPerMinute \in Nat /\ Reserve[2] \in Nat
    BY BudgetAssumption DEF Init
  <2> QED  BY <2>1, <2>2, <2>3, InitTypes DEF BudgetInv, PartInv, LeftInv, AtLeast
<1>2. BudgetInv /\ [Next]_vars => BudgetInv'
  <2> SUFFICES ASSUME BudgetInv, [Next]_vars PROVE BudgetInv'
    OBVIOUS
  <2>1. CallTypes' /\ ClockTypes' /\ SpentTypes'
    BY NextCallTypes, NextClockTypes, NextSpentTypes DEF BudgetInv
  <2>2. ASSUME UNCHANGED <<weightPerMinute, spent, discretionary>> PROVE PartInv' /\ LeftInv'
    BY <2>2 DEF BudgetInv, PartInv, LeftInv, Paced, AtLeast
  <2>3. PartInv' /\ LeftInv'
    BY <2>2, StartKeepsBudget, TickKeepsBudget
       DEF Next, PumpStep, Join, Schedule, Finishes, Answered, RateLimited, PumpEnds,
           Defer, Keep, TimerFires, clocks, vars
  <2> QED  BY <2>1, <2>3 DEF BudgetInv
<1>3. BudgetInv => WithinBudget
  <2> SUFFICES ASSUME BudgetInv, Paced
               PROVE  SumFunction(discretionary) <= AtLeast(weightPerMinute - Reserve[2], 0)
    BY DEF WithinBudget
  <2>1. DOMAIN discretionary = Ages
    BY DEF BudgetInv, SpentTypes
  <2> QED  BY <2>1 DEF BudgetInv, LeftInv, SumFunction, SumOn
<1> QED  BY <1>1, <1>2, <1>3, PTL DEF Spec
=============================================================================
