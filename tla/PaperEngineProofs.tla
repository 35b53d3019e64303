-------------------------- MODULE PaperEngineProofs --------------------------
(***************************************************************************)
(* Theorems about PaperEngine, for any number of signals, instruments and  *)
(* threads and any number of crashes and aborted requests.                 *)
(***************************************************************************)
EXTENDS PaperEngine, SumTheorems, TLAPS, FiniteSetTheorems, SequenceTheorems

-----------------------------------------------------------------------------
(* The helpers on a trade's progress.                                      *)

\* Half of a size is a number of units, whichever way it is rounded.
LEMMA HalfFits ==
    ASSUME NEW n \in Nat
    PROVE  Half(n) \in 0..n
BY DEF Half

\* TP1 sells a part of what is left.
LEMMA Tp1PartFits ==
    ASSUME NEW t \in Trade
    PROVE  Tp1Part(t) \in 0..t.remaining
BY HalfFits DEF Tp1Part, Trade

\* An exit leaves the size alone and never adds to what remains.
LEMMA ApplyExitShrinks ==
    ASSUME NEW t \in Trade, NEW o \in OrderType
    PROVE  /\ ApplyExit(t, o) \in Trade
           /\ ApplyExit(t, o).remaining <= t.remaining
<1>1. Less(t.remaining, o.qty) \in Nat /\ Less(t.remaining, o.qty) <= t.remaining
  BY DEF Less, Trade, OrderType
<1>2. (t.tp1Hit \/ o.kind = "TP1") \in BOOLEAN
  OBVIOUS
<1> QED  BY <1>1, <1>2 DEF ApplyExit, Trade

ExitOrder == {o \in OrderType : o.kind # "ENTRY"}

LEMMA ExitOrders ==
    ASSUME NEW kind \in Kind, NEW qty \in Nat
    PROVE  Order(kind, qty) \in ExitOrder
BY DEF Order, ExitOrder, OrderType, Kind

\* Every plan is a sequence of exits, none of them an entry.
LEMMA PlansAreExits ==
    ASSUME NEW t \in Trade, NEW plan \in PlanShapes(t)
    PROVE  plan \in Seq(OrderType) /\ \A k \in DOMAIN plan : plan[k].kind # "ENTRY"
<1>1. t.remaining \in Nat /\ Tp1Part(t) \in Nat /\ t.remaining - Tp1Part(t) \in Nat
  BY Tp1PartFits DEF Trade
<1>2. \A k \in Kind, qty \in Nat : Order(k, qty) \in ExitOrder
  BY ExitOrders
<1>3. \/ plan = <<>>
      \/ \E o \in ExitOrder : plan = <<o>>
      \/ \E o, p \in ExitOrder : plan = <<o, p>>
  <2>1. CASE plan = <<>>
    BY <2>1
  <2>2. CASE \E k \in Kind : plan = <<Order(k, t.remaining)>>
    BY <1>1, <1>2, <2>2
  <2>3. CASE plan = <<Order("TP1", Tp1Part(t))>>
    BY <1>1, <1>2, <2>3 DEF Kind
  <2>4. CASE \E k \in Kind :
               plan = <<Order("TP1", Tp1Part(t)), Order(k, t.remaining - Tp1Part(t))>>
    <3>1. Order("TP1", Tp1Part(t)) \in ExitOrder
      BY <1>1, <1>2 DEF Kind
    <3> QED  BY <1>1, <1>2, <2>4, <3>1
  <2> QED  BY <2>1, <2>2, <2>3, <2>4 DEF PlanShapes, Kind
<1>4. CASE plan = <<>>
  BY <1>4
<1>5. CASE \E o \in ExitOrder : plan = <<o>>
  BY <1>5 DEF ExitOrder
<1>6. CASE \E o, p \in ExitOrder : plan = <<o, p>>
  BY <1>6 DEF ExitOrder
<1> QED  BY <1>3, <1>4, <1>5, <1>6

-----------------------------------------------------------------------------
(* Type correctness.                                                       *)

\* The order at the head of a routing request's list, and its intent id.
LEMMA CurrentOrder ==
    ASSUME TypeOK, Control, NEW w \in Worker, pc[w] \in Routing
    PROVE  /\ sig[w] \in Signal
           /\ todo[w] # <<>>
           /\ Current(w) \in OrderType
           /\ Tail(todo[w]) \in Seq(OrderType)
           /\ Id(w) \in IntentId
           /\ Filled(w) \in [Instrument -> Int]
           /\ NewTrade(Current(w).qty) \in Trade
<1>1. todo[w] \in Seq(OrderType) /\ todo[w] # <<>> /\ sig[w] \in Signal
  BY DEF TypeOK, Control, RequestOk, TodoOk
<1>2. Current(w) \in OrderType /\ Tail(todo[w]) \in Seq(OrderType)
  BY <1>1, HeadTailProperties DEF Current
<1>3. Id(w) \in IntentId
  BY <1>1, <1>2 DEF Id, IntentId, OrderType
<1>4. Delta(w) \in Int
  BY <1>2 DEF Delta, Signed, OrderType
<1>5. Filled(w) \in [Instrument -> Int]
  BY <1>1, <1>4, SignalAssumption DEF Filled, TypeOK
<1>6. NewTrade(Current(w).qty) \in Trade
  BY <1>2 DEF NewTrade, Trade, OrderType
<1> QED  BY <1>1, <1>2, <1>3, <1>5, <1>6

\* What an approved entry has read, and what it goes on with.
AccountRead(price, ceiling) ==
    [price |-> price, ceiling |-> ceiling, open |-> OpenTrades,
     marks |-> [s \in Signal |-> IF s \in OpenTrades THEN mark[s] ELSE 0]]
Approved(w, size, price, ceiling, qty) ==
    /\ Approves(size, price, ceiling, qty)
    /\ account' = [account EXCEPT ![w] = AccountRead(price, ceiling)]
    /\ todo' = [todo EXCEPT ![w] = <<Order("ENTRY", qty)>>]

LEMMA HowEntriesAreApproved ==
    ASSUME NEW w \in Worker, ApproveEntry(w)
    PROVE  /\ \E price \in Prices, ceiling \in Ceilings, size \in Sizes, qty \in Nat :
                 qty \in 1..size /\ Approved(w, size, price, ceiling, qty)
           /\ pc[w] = "size" /\ Goto(w, "route")
           /\ UNCHANGED <<store, memory, locks, sig, trade, view, history>>
<1>1. \A size \in Sizes : 1..size \subseteq Nat
  BY LimitAssumption
<1>2. PICK price \in Prices, ceiling \in Ceilings, size \in Sizes :
         \E qty \in 1..size : Approved(w, size, price, ceiling, qty)
  BY DEF ApproveEntry, Approved, AccountRead
<1> QED  BY <1>1, <1>2 DEF ApproveEntry

LEMMA InitTypeOK == Init => TypeOK
<1> SUFFICES ASSUME Init PROVE TypeOK
  OBVIOUS
<1>1. /\ NoRow \in Trade /\ Flat \in [Instrument -> Int] /\ <<>> \in Seq(OrderType)
      /\ NoAccount \in AccountType
  BY DEF NoRow, Flat, Trade, NoAccount, AccountType
<1>2. TypeOK
  <2>1. /\ intents \subseteq IntentId /\ events \subseteq IntentId
        /\ orders \in [IntentId -> {"NONE", "FILLED", "SUBMIT_FAILED_UNKNOWN"}]
        /\ submits \in [IntentId -> Nat]
    BY DEF Init
  <2>2. /\ storedPos \in [Instrument -> Int] /\ position \in [Instrument -> Int]
        /\ trades \in [Signal -> Trade] /\ mark \in [Signal -> Nat]
        /\ halt \in HaltReason \union {NoHalt} /\ killed \in BOOLEAN
    BY <1>1 DEF Init
  <2>3. /\ entryLock \in Worker \union {NoWorker} /\ lifecycleLock \in Worker \union {NoWorker}
        /\ pc \in [Worker -> Label] /\ sig \in [Worker -> Signal \union {NoSignal}]
        /\ trade \in [Worker -> Trade] /\ todo \in [Worker -> Seq(OrderType)]
        /\ view \in [Worker -> [Instrument -> Int]] /\ account \in [Worker -> AccountType]
    BY <1>1 DEF Init, Label
  <2>4. lateEntries \in Nat /\ faults \in 0..MaxFaults
    BY LimitAssumption DEF Init
  <2> QED  BY <2>1, <2>2, <2>3, <2>4 DEF TypeOK
<1> QED  BY <1>2

LEMMA NextTypeOK ==
    ASSUME TypeOK, Control, [Next]_vars
    PROVE  TypeOK'
<1> USE DEF TypeOK, Goto, EndRequest, ReleaseLocks, Unlocked, Label,
            store, memory, locks, request, history
<1> /\ NoRow \in Trade /\ Flat \in [Instrument -> Int] /\ <<>> \in Seq(OrderType)
    /\ NoAccount \in AccountType
  BY DEF NoRow, Flat, Trade, NoAccount, AccountType
<1>1. ASSUME NEW w \in Worker, NEW s \in Signal, RequestEntry(w, s)
      PROVE  TypeOK'
  BY <1>1 DEF RequestEntry
<1>2. ASSUME NEW w \in Worker, LockEntry(w)
      PROVE  TypeOK'
  BY <1>2 DEF LockEntry
<1>3. ASSUME NEW w \in Worker, CheckInstrument(w)
      PROVE  TypeOK'
  BY <1>3 DEF CheckInstrument
<1>4. ASSUME NEW w \in Worker, ApproveEntry(w)
      PROVE  TypeOK'
  <2>1. PICK price \in Prices, ceiling \in Ceilings, size \in Sizes, qty \in Nat :
                              qty \in 1..size /\ Approved(w, size, price, ceiling, qty)
    BY <1>4, HowEntriesAreApproved
  <2>2. todo' = [todo EXCEPT ![w] = <<Order("ENTRY", qty)>>]
    BY <2>1 DEF Approved
  <2>3. Order("ENTRY", qty) \in OrderType
    BY LimitAssumption DEF Order, OrderType
  <2>4. <<Order("ENTRY", qty)>> \in Seq(OrderType)
    BY <2>3
  <2>5. AccountRead(price, ceiling) \in AccountType
    BY LimitAssumption DEF AccountRead, AccountType, OpenTrades
  <2>6. account' \in [Worker -> AccountType]
    BY <2>1, <2>5 DEF Approved
  <2> QED  BY <1>4, <2>2, <2>4, <2>6 DEF ApproveEntry
<1>5. ASSUME NEW w \in Worker, RejectEntry(w)
      PROVE  TypeOK'
  BY <1>5 DEF RejectEntry
<1>6. ASSUME NEW w \in Worker, NEW s \in Signal, BeginExits(w, s)
      PROVE  TypeOK'
  <2>1. PICK plan \in PlanShapes(trades[s]) :
           /\ todo' = [todo EXCEPT ![w] = plan]
           /\ Goto(w, IF plan = <<>> THEN "save" ELSE "route")
    BY <1>6 DEF BeginExits, ReadExits
  <2>2. plan \in Seq(OrderType)
    BY PlansAreExits
  <2> QED  BY <1>6, <2>1, <2>2 DEF BeginExits, ReadExits
<1>7. ASSUME NEW w \in Worker, SaveTrade(w)
      PROVE  TypeOK'
  <2>1. mark' \in [Signal -> Nat]
    BY <1>7, LimitAssumption DEF SaveTrade
  <2> QED  BY <1>7, <2>1 DEF SaveTrade
<1>8. ASSUME NEW w \in Worker, PassHalt(w)
      PROVE  TypeOK'
  BY <1>8 DEF PassHalt
<1>9. ASSUME NEW w \in Worker, StopAtHalt(w)
      PROVE  TypeOK'
  BY <1>9 DEF StopAtHalt
<1>10. ASSUME NEW w \in Worker, RecordIntent(w)
       PROVE  TypeOK'
  BY <1>10, CurrentOrder DEF RecordIntent, Routing
<1>11. ASSUME NEW w \in Worker, DuplicateEntry(w)
       PROVE  TypeOK'
  BY <1>11 DEF DuplicateEntry
<1>12. ASSUME NEW w \in Worker, DuplicateExit(w)
       PROVE  TypeOK'
  BY <1>12, CurrentOrder DEF DuplicateExit, NextExit, Routing
<1>13. ASSUME NEW w \in Worker, Submit(w)
       PROVE  TypeOK'
  BY <1>13, CurrentOrder DEF Submit, Routing
<1>14. ASSUME NEW w \in Worker, SubmitFails(w)
       PROVE  TypeOK'
  <2>1. pc[w] \in Routing /\ Id(w) \in IntentId /\ Filled(w) \in [Instrument -> Int]
    BY <1>14, CurrentOrder DEF SubmitFails, Routing
  <2>2. position' \in [Instrument -> Int]
    BY <1>14, <2>1 DEF SubmitFails
  <2>3. submits' \in [IntentId -> Nat]
    <3>1. submits' = [submits EXCEPT ![Id(w)] = @ + 1] \/ submits' = submits
      BY <1>14 DEF SubmitFails
    <3>2. submits \in [IntentId -> Nat] /\ \A n \in Nat : n + 1 \in Nat
      BY DEF TypeOK
    <3> HIDE DEF TypeOK
    <3> QED  BY <2>1, <3>1, <3>2
  <2> QED  BY <1>14, <2>2, <2>3, LimitAssumption DEF SubmitFails
<1>15. ASSUME NEW w \in Worker, MarkUnknown(w)
       PROVE  TypeOK'
  <2> orders' \in [IntentId -> {"NONE", "FILLED", "SUBMIT_FAILED_UNKNOWN"}]
    BY <1>15, CurrentOrder DEF MarkUnknown, Routing
  <2>1. CASE IsEntry(w)
    <3>1. EndRequest(w) /\ ReleaseLocks(w)
      BY <1>15, <2>1 DEF MarkUnknown
    <3>2. UNCHANGED <<intents, storedPos, trades, mark, events, halt, memory, history>>
      BY <1>15 DEF MarkUnknown
    <3> QED  BY <3>1, <3>2
  <2>2. CASE ~IsEntry(w)
    BY <1>15, <2>2 DEF MarkUnknown
  <2> QED  BY <2>1, <2>2
<1>16. ASSUME NEW w \in Worker, HaltOnUnknown(w)
       PROVE  TypeOK'
  BY <1>16 DEF HaltOnUnknown, Kill, HaltReason
<1>17. ASSUME NEW w \in Worker, RecordOrder(w)
       PROVE  TypeOK'
  BY <1>17, CurrentOrder DEF RecordOrder, Routing
<1>18. ASSUME NEW w \in Worker, RecordTrade(w)
       PROVE  TypeOK'
  <2>1. mark' \in [Signal -> Nat]
    BY <1>18, LimitAssumption DEF RecordTrade
  <2> QED  BY <1>18, <2>1, CurrentOrder DEF RecordTrade, Routing
<1>19. ASSUME NEW w \in Worker, RecordExit(w)
       PROVE  TypeOK'
  <2>1. ApplyExit(trade[w], Current(w)) \in Trade
    BY <1>19, CurrentOrder, ApplyExitShrinks DEF RecordExit, Routing
  <2> QED  BY <1>19, <2>1, CurrentOrder DEF RecordExit, NextExit, Routing
<1>20. ASSUME NEW w \in Worker, NEW l \in {"reconcile", "clear"}, ReadPortfolio(w, l)
       PROVE  TypeOK'
  BY <1>20 DEF ReadPortfolio
<1>21. ASSUME NEW w \in Worker, CompareFails(w)
       PROVE  TypeOK'
  BY <1>21 DEF CompareFails, Kill, HaltReason
<1>22. ASSUME NEW w \in Worker, CompareSucceeds(w)
       PROVE  TypeOK'
  BY <1>22 DEF CompareSucceeds
<1>23. CASE ManualKill
  BY <1>23 DEF ManualKill, Kill, HaltReason
<1>24. ASSUME NEW w \in Worker, Abort(w)
       PROVE  TypeOK'
  BY <1>24, LimitAssumption DEF Abort
<1>25. CASE Restart
  BY <1>25, LimitAssumption DEF Restart
<1>26. CASE UNCHANGED vars
  BY <1>26 DEF vars
<1> QED
  BY <1>1, <1>2, <1>3, <1>4, <1>5, <1>6, <1>7, <1>8, <1>9, <1>10, <1>11, <1>12,
     <1>13, <1>14, <1>15, <1>16, <1>17, <1>18, <1>19, <1>20, <1>21, <1>22, <1>23,
     <1>24, <1>25, <1>26
  DEF Next, Request, Run, EntryStep, RouteStep, LedgerStep, ReconcileStep, Fault

-----------------------------------------------------------------------------
(* Control: what each request may count on.                                *)

\* A step of thread w leaves the requests and the locks of the others alone.
Others(w) ==
    \A v \in Worker \ {w} :
        /\ pc'[v] = pc[v] /\ sig'[v] = sig[v]
        /\ trade'[v] = trade[v] /\ todo'[v] = todo[v]
        /\ entryLock = v => entryLock' = v
        /\ lifecycleLock = v => lifecycleLock' = v

\* An exit changes one trade, which it does not make larger, under one lock; an
\* entry adds a row under the other.
LedgerStepOf(w) ==
    \/ UNCHANGED trades
    \/ /\ lifecycleLock = w
       /\ \E t \in Trade :
             /\ trades' = [trades EXCEPT ![sig[w]] = t]
             /\ t.remaining <= trades[sig[w]].remaining
             /\ t.size = trades[sig[w]].size
    \/ /\ entryLock = w
       /\ ~HasRow(trades[sig[w]])
       /\ \E t \in Trade : trades' = [trades EXCEPT ![sig[w]] = t]

LEMMA OpenTradesFinite ==
    /\ IsFiniteSet(OpenTrades) /\ Cardinality(OpenTrades) \in Nat
    /\ IsFiniteSet(OpenTrades') /\ Cardinality(OpenTrades') \in Nat
<1>1. OpenTrades \subseteq Signal /\ OpenTrades' \subseteq Signal
  BY DEF OpenTrades
<1> QED  BY <1>1, SignalAssumption, FS_Subset, FS_CardinalityType

\* With no trade growing, no instrument is taken and no place is filled.
LEMMA FewerOpenTrades ==
    ASSUME TypeOK, TypeOK', \A s \in Signal : trades'[s].remaining <= trades[s].remaining
    PROVE  /\ OpenTrades' \subseteq OpenTrades
           /\ Cardinality(OpenTrades') <= Cardinality(OpenTrades)
           /\ \A i : OpenOn(i) = {} => OpenOn(i)' = {}
<1>1. \A s \in Signal : trades[s].remaining \in Nat /\ trades'[s].remaining \in Nat
  BY DEF TypeOK, Trade
<1>2. OpenTrades' \subseteq OpenTrades
  BY <1>1 DEF OpenTrades, IsOpen
<1>3. Cardinality(OpenTrades') <= Cardinality(OpenTrades)
  BY <1>2, OpenTradesFinite, FS_Subset
<1>4. \A i : OpenOn(i) = {} => OpenOn(i)' = {}
  BY <1>2 DEF OpenOn
<1> QED  BY <1>2, <1>3, <1>4

\* A step of w keeps what the other requests count on.
LEMMA FrameControl ==
    ASSUME TypeOK, TypeOK', Control, NEW w \in Worker,
           Others(w), LedgerStepOf(w), LedgerStepOf(w) /\ trades' # trades => sig[w] \in Signal,
           RequestOk(w)'
    PROVE  Control'
<1> SUFFICES ASSUME NEW v \in Worker \ {w}
             PROVE  RequestOk(v)'
  BY DEF Control
<1>1. RequestOk(v)
  BY DEF Control
<1>2. /\ pc'[v] = pc[v] /\ sig'[v] = sig[v]
      /\ trade'[v] = trade[v] /\ todo'[v] = todo[v]
      /\ entryLock = v => entryLock' = v
      /\ lifecycleLock = v => lifecycleLock' = v
  BY DEF Others
<1>3. /\ IsEntry(v)' <=> IsEntry(v)
      /\ RoutesEntry(v)' <=> RoutesEntry(v)
      /\ RoutesExit(v)' <=> RoutesExit(v)
  BY <1>2 DEF IsEntry, Current, RoutesEntry, RoutesExit
<1>4. TodoOk(v)' /\ LockOk(v)'
  BY <1>1, <1>2, <1>3 DEF RequestOk, TodoOk, LockOk
<1>5. ASSUME UNCHANGED trades
      PROVE  EntryOk(v)' /\ ExitOk(v)'
  BY <1>1, <1>2, <1>3, <1>5 DEF RequestOk, EntryOk, ExitOk, OpenOn, OpenTrades
<1>6. ASSUME lifecycleLock = w, sig[w] \in Signal, NEW t \in Trade,
             trades' = [trades EXCEPT ![sig[w]] = t],
             t.remaining <= trades[sig[w]].remaining,
             t.size = trades[sig[w]].size
      PROVE  EntryOk(v)' /\ ExitOk(v)'
  <2>1. ~(pc[v] = "save" \/ RoutesExit(v))
    BY <1>1, <1>6 DEF RequestOk, LockOk
  <2>2. \A s \in Signal : /\ trades'[s].remaining <= trades[s].remaining
                          /\ trades'[s].size = trades[s].size
    <3>1. \A s \in Signal : trades[s].remaining \in Nat
      BY DEF TypeOK, Trade
    <3>2. \A s \in Signal : trades'[s] = IF s = sig[w] THEN t ELSE trades[s]
      BY <1>6 DEF TypeOK
    <3> QED  BY <1>6, <3>1, <3>2
  <2>3. /\ Cardinality(OpenTrades') <= Cardinality(OpenTrades)
        /\ \A i : OpenOn(i) = {} => OpenOn(i)' = {}
    BY <2>2, FewerOpenTrades
  <2>4. Cardinality(OpenTrades) \in Nat /\ Cardinality(OpenTrades') \in Nat
    BY OpenTradesFinite
  <2>5. pc[v] \in Routing => sig[v] \in Signal
    BY <1>1 DEF RequestOk, TodoOk
  <2>6. EntryOk(v)'
    BY <1>1, <1>2, <1>3, <2>2, <2>3, <2>4, <2>5, LimitAssumption
       DEF RequestOk, EntryOk, HasRow, Routing
  <2> QED  BY <1>2, <1>3, <2>1, <2>6 DEF ExitOk
<1>7. ASSUME entryLock = w, sig[w] \in Signal, ~HasRow(trades[sig[w]]), NEW t \in Trade,
             trades' = [trades EXCEPT ![sig[w]] = t]
      PROVE  EntryOk(v)' /\ ExitOk(v)'
  <2>1. ~(pc[v] = "size" \/ RoutesEntry(v))
    BY <1>1, <1>7 DEF RequestOk, LockOk
  <2>2. EntryOk(v)'
    BY <1>2, <1>3, <2>1 DEF EntryOk, RoutesEntry, Routing
  <2>3. pc[v] = "save" \/ RoutesExit(v) => sig[v] \in Signal /\ sig[v] # sig[w]
    BY <1>1, <1>7 DEF RequestOk, TodoOk, ExitOk, RoutesExit
  <2>4. ExitOk(v)'
    BY <1>1, <1>2, <1>3, <1>7, <2>3 DEF RequestOk, ExitOk, TypeOK
  <2> QED  BY <2>2, <2>4
<1> QED
  BY <1>4, <1>5, <1>6, <1>7 DEF RequestOk, LedgerStepOf

\* A request that ends and gives back what it holds counts on nothing any more.
LEMMA EndControl ==
    ASSUME TypeOK, TypeOK', Control, NEW w \in Worker,
           EndRequest(w), ReleaseLocks(w), LedgerStepOf(w),
           trades' # trades => sig[w] \in Signal
    PROVE  Control'
<1>1. Others(w)
  BY DEF EndRequest, Goto, ReleaseLocks, Unlocked, Others, TypeOK
<1>2. RequestOk(w)'
  <2>1. pc'[w] = "idle"
    BY DEF EndRequest, Goto, TypeOK
  <2> QED  BY <2>1 DEF RequestOk, TodoOk, LockOk, EntryOk, ExitOk, Routing, RoutesEntry, RoutesExit
<1> QED  BY <1>1, <1>2, FrameControl

\* A routing request that goes on with the same order, or ends its exits.
LEMMA GotoControl ==
    ASSUME TypeOK, TypeOK', Control, NEW w \in Worker, NEW l \in Label,
           pc[w] \in Routing, Goto(w, l),
           l \in Routing \/ (l = "save" /\ ~IsEntry(w)),
           l = "halt" => ~IsEntry(w),
           l \in {"submit", "unknown", "order", "ledger"} /\ IsEntry(w) => ~HasRow(trades[sig[w]]),
           UNCHANGED <<trades, locks, sig, trade, todo>>
    PROVE  Control'
<1>1. Others(w)
  BY DEF Goto, Others, TypeOK, locks
<1>2. /\ pc'[w] = l /\ RequestOk(w)
      /\ UNCHANGED <<trades, entryLock, lifecycleLock, sig, trade, todo>>
  BY DEF Goto, TypeOK, Control, locks
<1>3. IsEntry(w)' <=> IsEntry(w)
  BY <1>2 DEF IsEntry, Current
<1>4. TodoOk(w)'
  BY <1>2, <1>3 DEF RequestOk, TodoOk, Routing, IsEntry, Current
<1>5. LockOk(w)'
  BY <1>2, <1>3 DEF RequestOk, LockOk, Routing, RoutesEntry, RoutesExit
<1>6. EntryOk(w)'
  BY <1>2, <1>3 DEF RequestOk, EntryOk, OpenOn, OpenTrades, Routing, RoutesEntry, RoutesExit
<1>7. ExitOk(w)'
  BY <1>2, <1>3 DEF RequestOk, ExitOk, Routing, RoutesEntry, RoutesExit
<1> QED  BY <1>1, <1>2, <1>4, <1>5, <1>6, <1>7, FrameControl DEF RequestOk, LedgerStepOf

LEMMA InitControl == Init => Control
BY DEF Init, Control, RequestOk, TodoOk, LockOk, EntryOk, ExitOk, Routing, RoutesEntry, RoutesExit

LEMMA FirstOfSeq ==
    ASSUME NEW S, NEW q \in Seq(S), q # <<>>
    PROVE  Head(q) = q[1]
OBVIOUS

\* The rest of a plan of exits.
LEMMA NextExitControl ==
    ASSUME TypeOK, TypeOK', Control, NEW w \in Worker,
           pc[w] \in Routing, ~IsEntry(w), NextExit(w), LedgerStepOf(w),
           trade'[w] = trades'[sig[w]], HasRow(trade'[w]),
           \A v \in Worker \ {w} : trade'[v] = trade[v]
    PROVE  Control'
<1>1. RequestOk(w) /\ sig[w] \in Signal /\ todo[w] \in Seq(OrderType) /\ todo[w] # <<>>
  BY CurrentOrder DEF Control, TypeOK
<1>2. Others(w)
  BY DEF NextExit, Goto, Others, TypeOK, locks
<1>3. /\ todo'[w] = Tail(todo[w]) /\ sig'[w] = sig[w]
      /\ pc'[w] = IF Len(todo[w]) > 1 THEN "route" ELSE "save"
      /\ UNCHANGED <<entryLock, lifecycleLock>>
  BY DEF NextExit, Goto, TypeOK, locks
<1>4. \A k \in DOMAIN todo[w] : todo[w][k].kind # "ENTRY"
  BY <1>1 DEF RequestOk, TodoOk
<1>5. /\ Len(Tail(todo[w])) = Len(todo[w]) - 1
      /\ Tail(todo[w]) \in Seq(OrderType)
      /\ \A k \in 1..Len(Tail(todo[w])) : Tail(todo[w])[k] = todo[w][k + 1]
  BY <1>1, HeadTailProperties
<1>6. \A k \in DOMAIN Tail(todo[w]) : Tail(todo[w])[k].kind # "ENTRY"
  BY <1>1, <1>4, <1>5
<1>7. Len(todo[w]) > 1 => Tail(todo[w]) # <<>>
  BY <1>1, <1>5
<1>8. Len(todo[w]) > 1 => ~IsEntry(w)'
  <2>1. Len(todo[w]) > 1 => 1 \in DOMAIN Tail(todo[w])
    BY <1>1, <1>5
  <2>2. Len(todo[w]) > 1 => Head(Tail(todo[w])) = Tail(todo[w])[1]
    BY <1>5, <1>7, FirstOfSeq
  <2>3. Len(todo[w]) > 1 => Head(Tail(todo[w])).kind # "ENTRY"
    BY <1>6, <2>1, <2>2
  <2> QED  BY <1>3, <2>3 DEF IsEntry, Current
<1>9. pc'[w] \notin Routing \/ ~IsEntry(w)'
  BY <1>3, <1>8 DEF Routing
<1>10. TodoOk(w)'
  BY <1>1, <1>3, <1>6, <1>7 DEF TodoOk, Routing
<1>11. lifecycleLock = w
  BY <1>1 DEF RequestOk, LockOk, RoutesExit
<1>12. LockOk(w)'
  BY <1>3, <1>9, <1>11 DEF LockOk, RoutesEntry
<1>13. EntryOk(w)'
  BY <1>3, <1>9 DEF EntryOk, RoutesEntry, Routing
<1>14. ExitOk(w)'
  BY <1>3 DEF ExitOk
<1> QED  BY <1>1, <1>2, <1>10, <1>12, <1>13, <1>14, FrameControl DEF RequestOk

LEMMA NextControl ==
    ASSUME TypeOK, TypeOK', Control, RowInv, [Next]_vars
    PROVE  Control'
<1> USE DEF store, memory, request, history
<1>1. ASSUME NEW w \in Worker, NEW s \in Signal, RequestEntry(w, s)
      PROVE  Control'
  <2>1. Others(w)
    BY <1>1 DEF RequestEntry, Goto, Others, TypeOK, locks
  <2>2. pc'[w] = "wait" /\ sig'[w] = s /\ UNCHANGED trades
    BY <1>1 DEF RequestEntry, Goto, TypeOK
  <2>3. RequestOk(w)'
    BY <2>2 DEF RequestOk, TodoOk, LockOk, EntryOk, ExitOk, Routing, RoutesEntry, RoutesExit
  <2> QED  BY <2>1, <2>2, <2>3, FrameControl DEF LedgerStepOf
<1>2. ASSUME NEW w \in Worker, LockEntry(w)
      PROVE  Control'
  <2>1. Others(w)
    BY <1>2, SignalAssumption DEF LockEntry, Goto, Others, TypeOK
  <2>2. pc'[w] = "check" /\ sig'[w] = sig[w] /\ entryLock' = w /\ UNCHANGED trades
    BY <1>2 DEF LockEntry, Goto, TypeOK
  <2>3. sig[w] \in Signal
    BY <1>2 DEF LockEntry, Control, RequestOk, TodoOk
  <2>4. RequestOk(w)'
    BY <2>2, <2>3 DEF RequestOk, TodoOk, LockOk, EntryOk, ExitOk, Routing, RoutesEntry, RoutesExit
  <2> QED  BY <2>1, <2>2, <2>4, FrameControl DEF LedgerStepOf
<1>3. ASSUME NEW w \in Worker, CheckInstrument(w)
      PROVE  Control'
  <2>1. Others(w)
    BY <1>3 DEF CheckInstrument, Goto, Others, TypeOK, locks
  <2>2. /\ pc[w] = "check" /\ pc'[w] = "size"
        /\ sig'[w] = sig[w] /\ UNCHANGED <<entryLock, trades>>
        /\ OpenOn(InstrumentOf[sig[w]]) = {}
    BY <1>3 DEF CheckInstrument, Goto, TypeOK, locks
  <2>3. sig[w] \in Signal /\ entryLock = w
    BY <2>2 DEF Control, RequestOk, TodoOk, LockOk
  <2>4. OpenOn(InstrumentOf[sig[w]])' = {}
    BY <2>2 DEF OpenOn, OpenTrades
  <2>5. RequestOk(w)'
    BY <2>2, <2>3, <2>4
       DEF RequestOk, TodoOk, LockOk, EntryOk, ExitOk, Routing, RoutesEntry, RoutesExit
  <2> QED  BY <2>1, <2>2, <2>5, FrameControl DEF LedgerStepOf
<1>4. ASSUME NEW w \in Worker, ApproveEntry(w)
      PROVE  Control'
  <2>1. Others(w)
    BY <1>4 DEF ApproveEntry, Approves, Goto, Others, TypeOK, locks
  <2>2. /\ pc[w] = "size" /\ pc'[w] = "route"
        /\ sig'[w] = sig[w] /\ UNCHANGED <<entryLock, trades>>
        /\ Cardinality(OpenTrades) < MaxOpen
        /\ \E qty : todo'[w] = <<Order("ENTRY", qty)>>
    BY <1>4 DEF ApproveEntry, Approves, Goto, TypeOK, locks
  <2>3. sig[w] \in Signal /\ entryLock = w /\ OpenOn(InstrumentOf[sig[w]]) = {}
    BY <2>2 DEF Control, RequestOk, TodoOk, LockOk, EntryOk
  <2>4. OpenOn(InstrumentOf[sig[w]])' = {} /\ OpenTrades' = OpenTrades
    BY <2>2, <2>3 DEF OpenOn, OpenTrades
  <2>5. todo'[w] # <<>> /\ Len(todo'[w]) = 1 /\ IsEntry(w)'
    BY <2>2 DEF IsEntry, Current, Order
  <2>6. TodoOk(w)' /\ LockOk(w)'
    BY <2>2, <2>3, <2>5 DEF TodoOk, LockOk, Routing, RoutesEntry, RoutesExit
  <2>7. EntryOk(w)' /\ ExitOk(w)'
    BY <2>2, <2>4, <2>5 DEF EntryOk, ExitOk, RoutesEntry, RoutesExit
  <2> QED  BY <2>1, <2>2, <2>6, <2>7, FrameControl DEF RequestOk, LedgerStepOf
<1>5. ASSUME NEW w \in Worker, NEW s \in Signal, BeginExits(w, s)
      PROVE  Control'
  <2>1. PICK plan \in PlanShapes(trades[s]) :
           todo' = [todo EXCEPT ![w] = plan] /\ Goto(w, IF plan = <<>> THEN "save" ELSE "route")
    BY <1>5 DEF BeginExits, ReadExits
  <2>2. /\ todo'[w] = plan /\ pc'[w] = (IF plan = <<>> THEN "save" ELSE "route")
        /\ sig'[w] = s /\ trade'[w] = trades[s] /\ lifecycleLock' = w
        /\ UNCHANGED <<trades, entryLock>>
    BY <1>5, <2>1 DEF BeginExits, ReadExits, Goto, TypeOK
  <2>3. Others(w)
    BY <1>5, <2>1, SignalAssumption DEF BeginExits, ReadExits, Goto, Others, TypeOK
  <2>4. HasRow(trades[s])
    BY <1>5 DEF BeginExits, IsOpen, HasRow, TypeOK, Trade
  <2>5. plan \in Seq(OrderType) /\ \A k \in DOMAIN plan : plan[k].kind # "ENTRY"
    BY PlansAreExits DEF TypeOK
  <2>6. plan # <<>> => ~IsEntry(w)'
    BY <2>2, <2>5 DEF IsEntry, Current
  <2>7. TodoOk(w)'
    BY <2>2, <2>5 DEF TodoOk, Routing
  <2>8. LockOk(w)' /\ EntryOk(w)' /\ ExitOk(w)'
    BY <2>2, <2>4, <2>6 DEF LockOk, EntryOk, ExitOk, Routing, RoutesEntry, RoutesExit
  <2> QED  BY <2>2, <2>3, <2>7, <2>8, FrameControl DEF RequestOk, LedgerStepOf
<1>6. ASSUME NEW w \in Worker,
             RejectEntry(w) \/ StopAtHalt(w) \/ DuplicateEntry(w) \/ Abort(w)
      PROVE  Control'
  <2>1. EndRequest(w) /\ ReleaseLocks(w) /\ UNCHANGED trades
    BY <1>6 DEF RejectEntry, StopAtHalt, DuplicateEntry, Abort
  <2> QED  BY <2>1, EndControl DEF LedgerStepOf
<1>7. ASSUME NEW w \in Worker, PassHalt(w)
      PROVE  Control'
  <2> pc[w] \in Routing /\ "record" \in Routing /\ "record" \in Label
    BY <1>7 DEF PassHalt, Routing, Label
  <2> QED  BY <1>7, GotoControl DEF PassHalt
<1>8. ASSUME NEW w \in Worker, RecordIntent(w)
      PROVE  Control'
  <2>1. pc[w] \in Routing /\ "submit" \in Routing /\ "submit" \in Label
    BY <1>8 DEF RecordIntent, Routing, Label
  <2>2. IsEntry(w) => ~HasRow(trades[sig[w]])
    BY <1>8, <2>1, CurrentOrder DEF RecordIntent, RowInv, Id, IsEntry
  <2> QED  BY <1>8, <2>1, <2>2, GotoControl DEF RecordIntent
<1>9. ASSUME NEW w \in Worker, Submit(w) \/ SubmitFails(w) \/ RecordOrder(w)
      PROVE  Control'
  <2>1. PICK l \in {"order", "unknown", "ledger"} :
           /\ Goto(w, l) /\ pc[w] \in {"submit", "order"}
           /\ UNCHANGED <<trades, locks, sig, trade, todo>>
    BY <1>9 DEF Submit, SubmitFails, RecordOrder
  <2>2. pc[w] \in Routing /\ l \in Routing /\ l \in Label /\ l # "halt"
    BY <2>1 DEF Routing, Label
  <2>3. IsEntry(w) => ~HasRow(trades[sig[w]])
    BY <2>1 DEF Control, RequestOk, EntryOk
  <2> QED  BY <2>1, <2>2, <2>3, GotoControl
<1>10. ASSUME NEW w \in Worker, MarkUnknown(w)
       PROVE  Control'
  <2>1. CASE IsEntry(w)
    <3>1. EndRequest(w) /\ ReleaseLocks(w) /\ UNCHANGED trades
      BY <1>10, <2>1 DEF MarkUnknown
    <3> QED  BY <3>1, EndControl DEF LedgerStepOf
  <2>2. CASE ~IsEntry(w)
    <3>1. /\ pc[w] \in Routing /\ "halt" \in Routing /\ "halt" \in Label
          /\ Goto(w, "halt") /\ UNCHANGED <<trades, locks, sig, trade, todo>>
      BY <1>10, <2>2 DEF MarkUnknown, Routing, Label
    <3> QED  BY <2>2, <3>1, GotoControl
  <2> QED  BY <2>1, <2>2
<1>11. ASSUME NEW w \in Worker, HaltOnUnknown(w)
       PROVE  Control'
  <2>1. /\ pc[w] = "halt" /\ Goto(w, "save") /\ pc[w] \in Routing /\ "save" \in Label
        /\ UNCHANGED <<trades, locks, sig, trade, todo>>
    BY <1>11 DEF HaltOnUnknown, Routing, Label
  <2>2. ~IsEntry(w)
    <3>1. TodoOk(w) /\ todo[w] \in Seq(OrderType) /\ todo[w] # <<>>
      BY <2>1, CurrentOrder DEF Control, RequestOk, TypeOK
    <3>2. \A k \in DOMAIN todo[w] : todo[w][k].kind # "ENTRY"
      BY <2>1, <3>1 DEF TodoOk
    <3> QED  BY <3>1, <3>2 DEF IsEntry, Current
  <2> QED  BY <2>1, <2>2, GotoControl DEF Routing
<1>12. ASSUME NEW w \in Worker, DuplicateExit(w)
       PROVE  Control'
  <2>1. /\ pc[w] \in Routing /\ ~IsEntry(w) /\ NextExit(w)
        /\ UNCHANGED <<trades, trade>>
    BY <1>12 DEF DuplicateExit, Routing
  <2>2. trade[w] = trades[sig[w]] /\ HasRow(trade[w])
    BY <2>1 DEF Control, RequestOk, ExitOk, RoutesExit
  <2> QED  BY <2>1, <2>2, NextExitControl DEF LedgerStepOf
<1>13. ASSUME NEW w \in Worker, RecordTrade(w)
       PROVE  Control'
  <2>1. /\ pc[w] = "ledger" /\ IsEntry(w) /\ pc[w] \in Routing
        /\ EndRequest(w) /\ ReleaseLocks(w)
        /\ trades' = [trades EXCEPT ![sig[w]] = NewTrade(Current(w).qty)]
    BY <1>13 DEF RecordTrade, Routing
  <2>2. entryLock = w /\ ~HasRow(trades[sig[w]])
    BY <2>1 DEF Control, RequestOk, LockOk, EntryOk, RoutesEntry
  <2>3. NewTrade(Current(w).qty) \in Trade /\ sig[w] \in Signal
    BY <2>1, CurrentOrder
  <2> QED  BY <2>1, <2>2, <2>3, EndControl DEF LedgerStepOf
<1>14. ASSUME NEW w \in Worker, RecordExit(w)
       PROVE  Control'
  <2>1. /\ pc[w] \in Routing /\ ~IsEntry(w) /\ NextExit(w)
    BY <1>14 DEF RecordExit, Routing
  <2>2. /\ sig[w] \in Signal /\ Current(w) \in OrderType /\ trade[w] \in Trade
        /\ trade[w] = trades[sig[w]] /\ HasRow(trade[w]) /\ lifecycleLock = w
    BY <2>1, CurrentOrder DEF Control, RequestOk, ExitOk, LockOk, RoutesExit, TypeOK
  <2> DEFINE after == IF Id(w) \in events THEN trade[w] ELSE ApplyExit(trade[w], Current(w))
  <2>3. /\ after \in Trade /\ after.remaining <= trade[w].remaining
        /\ after.size = trade[w].size /\ HasRow(after)
    <3>1. ApplyExit(trade[w], Current(w)).size = trade[w].size
      BY DEF ApplyExit
    <3>2. trade[w].remaining <= trade[w].remaining
      BY <2>2 DEF Trade
    <3> QED  BY <2>2, <3>1, <3>2, ApplyExitShrinks DEF HasRow
  <2>4. trade' = [trade EXCEPT ![w] = after]
    BY <1>14 DEF RecordExit
  <2>5. trades' = [trades EXCEPT ![sig[w]] = after]
    BY <1>14, <2>2 DEF RecordExit, TypeOK
  <2>6. trade'[w] = trades'[sig[w]] /\ HasRow(trade'[w])
    BY <2>2, <2>3, <2>4, <2>5 DEF TypeOK
  <2>7. LedgerStepOf(w)
    BY <2>2, <2>3, <2>5 DEF LedgerStepOf
  <2> HIDE DEF after
  <2> QED  BY <2>1, <2>4, <2>6, <2>7, NextExitControl DEF TypeOK
<1>15. ASSUME NEW w \in Worker, SaveTrade(w)
       PROVE  Control'
  <2>1. /\ EndRequest(w) /\ ReleaseLocks(w) /\ sig[w] \in Signal
        /\ trade[w] = trades[sig[w]] /\ trades' = [trades EXCEPT ![sig[w]] = trade[w]]
    BY <1>15 DEF SaveTrade, Control, RequestOk, TodoOk, ExitOk
  <2>2. trades' = trades
    BY <2>1 DEF TypeOK
  <2> QED  BY <2>1, <2>2, EndControl DEF LedgerStepOf
<1>16. ASSUME NEW w \in Worker, NEW l \in {"reconcile", "clear"}, ReadPortfolio(w, l)
       PROVE  Control'
  <2>1. Others(w)
    BY <1>16 DEF ReadPortfolio, Goto, Others, TypeOK, locks
  <2>2. pc'[w] = l /\ UNCHANGED trades
    BY <1>16 DEF ReadPortfolio, Goto, TypeOK
  <2>3. RequestOk(w)'
    BY <2>2 DEF RequestOk, TodoOk, LockOk, EntryOk, ExitOk, Routing, RoutesEntry, RoutesExit
  <2> QED  BY <2>1, <2>2, <2>3, FrameControl DEF LedgerStepOf
<1>17. ASSUME NEW w \in Worker, CompareFails(w) \/ CompareSucceeds(w)
       PROVE  Control'
  <2>1. EndRequest(w) /\ UNCHANGED <<trades, locks>>
    BY <1>17 DEF CompareFails, CompareSucceeds
  <2>2. Others(w)
    BY <2>1 DEF EndRequest, Goto, Others, TypeOK, locks
  <2>3. pc'[w] = "idle"
    BY <2>1 DEF EndRequest, Goto, TypeOK
  <2>4. RequestOk(w)'
    BY <2>3 DEF RequestOk, TodoOk, LockOk, EntryOk, ExitOk, Routing, RoutesEntry, RoutesExit
  <2> QED  BY <2>1, <2>2, <2>4, FrameControl DEF LedgerStepOf
<1>18. CASE ManualKill \/ UNCHANGED vars
  <2>1. UNCHANGED <<trades, entryLock, lifecycleLock, pc, sig, trade, todo>>
    BY <1>18 DEF ManualKill, vars, locks
  <2> QED
    BY <2>1 DEF Control, RequestOk, TodoOk, LockOk, EntryOk, ExitOk, RoutesEntry, RoutesExit,
                IsEntry, Current, OpenOn, OpenTrades
<1>19. CASE Restart
  <2>1. \A w \in Worker : pc'[w] = "idle"
    BY <1>19 DEF Restart
  <2> QED
    BY <2>1 DEF Control, RequestOk, TodoOk, LockOk, EntryOk, ExitOk, Routing, RoutesEntry, RoutesExit
<1> QED
  BY <1>1, <1>2, <1>3, <1>4, <1>5, <1>6, <1>7, <1>8, <1>9, <1>10, <1>11, <1>12,
     <1>13, <1>14, <1>15, <1>16, <1>17, <1>18, <1>19
  DEF Next, Request, Run, EntryStep, RouteStep, LedgerStep, ReconcileStep, Fault

-----------------------------------------------------------------------------
(***************************************************************************)
(* The safety theorems.  The inductive invariant is TypeOK and Control,    *)
(* proved above, with RowInv, FillInv, LateInv and the four safety         *)
(* properties themselves.  Control says what each request may count on     *)
(* under its lock; every safety property follows in one step from it and   *)
(* from the part on rows or fills.                                         *)
(***************************************************************************)


-----------------------------------------------------------------------------
(* Steps in which a request touches neither trades, intents nor fills.     *)

\* Everything about the ledger and the intents stays, and no request enters the
\* part of the route behind its intent.
Aside(w) ==
    /\ UNCHANGED <<intents, trades, submits>>
    /\ pc'[w] \notin Recorded
    /\ \A v \in Worker \ {w} : pc'[v] = pc[v] /\ sig'[v] = sig[v] /\ todo'[v] = todo[v]

\* A request stays with its order while it is routed.
SameOrder(w) ==
    /\ \A v \in Worker \ {w} : pc'[v] = pc[v]
    /\ UNCHANGED <<sig, todo>>

LEMMA AsideKeeps ==
    ASSUME RowInv, FillInv, NEW w \in Worker, Aside(w)
    PROVE  RowInv' /\ FillInv'
<1>1. \A v \in Worker \ {w} : pc'[v] = pc[v] /\ Id(v)' = Id(v)
  BY DEF Aside, Id, Current
<1>2. RowInv'
  BY <1>1 DEF Aside, RowInv
<1>3. FillInv'
  BY <1>1 DEF Aside, FillInv, Recorded
<1> QED  BY <1>2, <1>3

LEMMA SameOrderIds ==
    ASSUME NEW w \in Worker, SameOrder(w)
    PROVE  \A v \in Worker : Id(v)' = Id(v)
BY DEF SameOrder, Id, Current

\* Two requests that submit at once submit different intents: their locks see to it.
LEMMA SubmitsAlone ==
    ASSUME Control, NEW v \in Worker, NEW w \in Worker,
           pc[v] = "submit", pc[w] = "submit", Id(v) = Id(w)
    PROVE  v = w
<1>1. IsEntry(v) <=> IsEntry(w)
  BY DEF Id, IsEntry
<1>2. LockOk(v) /\ LockOk(w)
  BY DEF Control, RequestOk
<1>3. CASE IsEntry(v)
  BY <1>1, <1>2, <1>3 DEF LockOk, RoutesEntry, Routing
<1>4. CASE ~IsEntry(v)
  BY <1>1, <1>2, <1>4 DEF LockOk, RoutesExit, Routing
<1> QED  BY <1>3, <1>4

-----------------------------------------------------------------------------
(* Rows and fills.                                                         *)

LEMMA NextRowsAndFills ==
    ASSUME TypeOK, Control, RowInv, FillInv, [Next]_vars
    PROVE  RowInv' /\ FillInv'
<1> USE DEF Recorded
<1>1. ASSUME NEW w \in Worker,
             \/ \E s \in Signal : RequestEntry(w, s) \/ BeginExits(w, s)
             \/ LockEntry(w) \/ CheckInstrument(w) \/ ApproveEntry(w) \/ RejectEntry(w)
             \/ PassHalt(w) \/ StopAtHalt(w) \/ DuplicateEntry(w) \/ DuplicateExit(w)
             \/ HaltOnUnknown(w) \/ CompareFails(w) \/ CompareSucceeds(w) \/ Abort(w)
             \/ \E l \in {"reconcile", "clear"} : ReadPortfolio(w, l)
      PROVE  RowInv' /\ FillInv'
  <2> USE DEF Goto, EndRequest, TypeOK, store, history
  <2>1. ASSUME NEW s \in Signal, RequestEntry(w, s)
        PROVE  Aside(w)
    BY <2>1 DEF RequestEntry, Aside
  <2>2. ASSUME NEW s \in Signal, BeginExits(w, s)
        PROVE  Aside(w)
    BY <2>2 DEF BeginExits, ReadExits, Aside
  <2>3. ASSUME LockEntry(w) \/ CheckInstrument(w)
        PROVE  Aside(w)
    BY <2>3 DEF LockEntry, CheckInstrument, Aside
  <2>4. ASSUME ApproveEntry(w)
        PROVE  Aside(w)
    BY <2>4 DEF ApproveEntry, Approves, Aside
  <2>5. ASSUME RejectEntry(w) \/ StopAtHalt(w) \/ DuplicateEntry(w) \/ Abort(w)
        PROVE  Aside(w)
    BY <2>5 DEF RejectEntry, StopAtHalt, DuplicateEntry, Abort, Aside
  <2>6. ASSUME PassHalt(w)
        PROVE  Aside(w)
    BY <2>6 DEF PassHalt, Aside
  <2>7. ASSUME DuplicateExit(w)
        PROVE  Aside(w)
    BY <2>7 DEF DuplicateExit, NextExit, Aside
  <2>8. ASSUME HaltOnUnknown(w)
        PROVE  Aside(w)
    BY <2>8 DEF HaltOnUnknown, Aside
  <2>9. ASSUME CompareFails(w) \/ CompareSucceeds(w)
        PROVE  Aside(w)
    BY <2>9 DEF CompareFails, CompareSucceeds, Aside
  <2>10. ASSUME NEW l \in {"reconcile", "clear"}, ReadPortfolio(w, l)
         PROVE  Aside(w)
    BY <2>10 DEF ReadPortfolio, Aside
  <2> QED
    BY <1>1, <2>1, <2>2, <2>3, <2>4, <2>5, <2>6, <2>7, <2>8, <2>9, <2>10, AsideKeeps
<1>2. ASSUME NEW w \in Worker, SaveTrade(w)
      PROVE  RowInv' /\ FillInv'
  <2>1. trade[w] = trades[sig[w]]
    BY <1>2 DEF SaveTrade, Control, RequestOk, ExitOk
  <2>2. Aside(w)
    BY <1>2, <2>1 DEF SaveTrade, EndRequest, Goto, TypeOK, history, Aside
  <2> QED  BY <2>2, AsideKeeps
<1>3. ASSUME NEW w \in Worker, RecordIntent(w)
      PROVE  RowInv' /\ FillInv'
  <2>1. /\ intents' = intents \union {Id(w)} /\ UNCHANGED <<trades, submits>>
        /\ SameOrder(w) /\ Id(w) \notin intents
    BY <1>3 DEF RecordIntent, Goto, TypeOK, history, SameOrder
  <2>2. RowInv'
    BY <2>1, SameOrderIds DEF RowInv, SameOrder
  <2>3. submits[Id(w)] = 0
    BY <1>3, <2>1, CurrentOrder DEF RecordIntent, FillInv, Routing
  <2>4. FillInv'
    BY <2>1, <2>3, SameOrderIds DEF FillInv, SameOrder
  <2> QED  BY <2>2, <2>4
<1>4. ASSUME NEW w \in Worker, Submit(w) \/ SubmitFails(w)
      PROVE  RowInv' /\ FillInv'
  <2>1. /\ pc[w] = "submit" /\ pc'[w] \in {"order", "unknown"}
        /\ UNCHANGED <<intents, trades>> /\ SameOrder(w)
        /\ submits' \in {submits, [submits EXCEPT ![Id(w)] = @ + 1]}
    BY <1>4 DEF Submit, SubmitFails, Goto, TypeOK, store, SameOrder
  <2>2. Id(w) \in intents /\ Id(w) \in IntentId
    BY <2>1, CurrentOrder DEF RowInv, Routing
  <2>3. RowInv'
    BY <2>1, <2>2, SameOrderIds DEF RowInv, SameOrder
  <2>4. \A id \in IntentId : id # Id(w) => submits'[id] = submits[id]
    BY <2>1, <2>2 DEF TypeOK
  <2>5. \A id \in IntentId : submits'[id] # 0 => id \in intents'
    BY <2>1, <2>2, <2>4 DEF FillInv
  <2>6. ASSUME NEW v \in Worker, pc'[v] = "submit"
        PROVE  submits'[Id(v)'] = 0
    <3>1. v # w /\ pc[v] = "submit" /\ Id(v)' = Id(v) /\ Id(v) \in IntentId
      BY <2>1, <2>6, SameOrderIds, CurrentOrder DEF SameOrder, Routing
    <3>2. Id(v) # Id(w)
      BY <2>1, <3>1, SubmitsAlone
    <3> QED  BY <2>4, <3>1, <3>2 DEF FillInv
  <2> QED  BY <2>3, <2>5, <2>6 DEF FillInv
<1>5. ASSUME NEW w \in Worker, RecordOrder(w)
      PROVE  RowInv' /\ FillInv'
  <2>1. /\ pc[w] = "order" /\ pc'[w] = "ledger" /\ SameOrder(w)
        /\ UNCHANGED <<intents, trades, submits>>
    BY <1>5 DEF RecordOrder, Goto, TypeOK, history, SameOrder
  <2> QED  BY <2>1, SameOrderIds DEF RowInv, FillInv, SameOrder
<1>6. ASSUME NEW w \in Worker, MarkUnknown(w)
      PROVE  RowInv' /\ FillInv'
  <2>1. UNCHANGED <<intents, trades, submits>>
    BY <1>6 DEF MarkUnknown, history
  <2>2. CASE IsEntry(w)
    <3>1. EndRequest(w)
      BY <1>6, <2>2 DEF MarkUnknown
    <3>2. Aside(w)
      BY <2>1, <3>1 DEF EndRequest, Goto, TypeOK, Aside
    <3> QED  BY <3>2, AsideKeeps
  <2>3. CASE ~IsEntry(w)
    <3>1. Goto(w, "halt") /\ UNCHANGED <<sig, todo>>
      BY <1>6, <2>3 DEF MarkUnknown
    <3>2. Aside(w)
      BY <2>1, <3>1 DEF Goto, TypeOK, Aside
    <3> QED  BY <3>2, AsideKeeps
  <2> QED  BY <2>2, <2>3
<1>7. ASSUME NEW w \in Worker, RecordTrade(w)
      PROVE  RowInv' /\ FillInv'
  <2>1. /\ pc[w] = "ledger" /\ IsEntry(w) /\ EndRequest(w)
        /\ trades' = [trades EXCEPT ![sig[w]] = NewTrade(Current(w).qty)]
        /\ UNCHANGED <<intents, submits>>
    BY <1>7 DEF RecordTrade, history
  <2>2. <<sig[w], "ENTRY">> \in intents
    BY <2>1 DEF RowInv, Id, IsEntry
  <2>3. \A s \in Signal : HasRow(trades'[s]) => <<s, "ENTRY">> \in intents
    BY <2>1, <2>2 DEF RowInv, TypeOK
  <2>4. /\ pc'[w] = "idle"
        /\ \A v \in Worker \ {w} : pc'[v] = pc[v] /\ Id(v)' = Id(v)
    BY <2>1 DEF EndRequest, Goto, TypeOK, Id, Current
  <2> QED  BY <2>1, <2>3, <2>4 DEF RowInv, FillInv
<1>8. ASSUME NEW w \in Worker, RecordExit(w)
      PROVE  RowInv' /\ FillInv'
  <2>1. /\ pc[w] \in Routing /\ ~IsEntry(w) /\ NextExit(w)
        /\ UNCHANGED <<intents, submits>>
    BY <1>8 DEF RecordExit, Routing, history
  <2>2. trade[w] = trades[sig[w]] /\ HasRow(trade[w]) /\ sig[w] \in Signal
    BY <2>1, CurrentOrder DEF Control, RequestOk, ExitOk, RoutesExit
  <2>3. \A s \in Signal : HasRow(trades'[s]) => HasRow(trades[s])
    BY <1>8, <2>2 DEF RecordExit, TypeOK
  <2>4. /\ pc'[w] \notin Recorded
        /\ \A v \in Worker \ {w} : pc'[v] = pc[v] /\ Id(v)' = Id(v)
    BY <2>1 DEF NextExit, Goto, TypeOK, Id, Current
  <2> QED  BY <2>1, <2>3, <2>4 DEF RowInv, FillInv
<1>9. CASE ManualKill \/ UNCHANGED vars
  <2>1. UNCHANGED <<intents, trades, submits, pc, sig, todo>>
    BY <1>9 DEF ManualKill, vars, store, request, history
  <2> QED  BY <2>1 DEF RowInv, FillInv, Id, Current
<1>10. CASE Restart
  <2>1. UNCHANGED <<intents, trades, submits>> /\ \A w \in Worker : pc'[w] = "idle"
    BY <1>10 DEF Restart, store
  <2> QED  BY <2>1 DEF RowInv, FillInv
<1> QED
  BY <1>1, <1>2, <1>3, <1>4, <1>5, <1>6, <1>7, <1>8, <1>9, <1>10
  DEF Next, Request, Run, EntryStep, RouteStep, LedgerStep, ReconcileStep, Fault
-----------------------------------------------------------------------------
(* The trade table: only RecordTrade opens a trade, and it opens one on a  *)
(* free instrument, below the limit.                                       *)

\* Only the ledger steps of a request write a trade.
LEMMA WhoWritesTrades ==
    ASSUME [Next]_vars
    PROVE  UNCHANGED trades \/ \E w \in Worker : SaveTrade(w) \/ RecordExit(w) \/ RecordTrade(w)
BY DEF Next, Request, Run, EntryStep, RouteStep, LedgerStep, ReconcileStep, Fault, vars, store,
       RequestEntry, BeginExits, ReadExits, ReadPortfolio, LockEntry, CheckInstrument,
       ApproveEntry, Approves, RejectEntry, PassHalt, StopAtHalt, RecordIntent, DuplicateEntry,
       DuplicateExit, Submit, SubmitFails, MarkUnknown, HaltOnUnknown, RecordOrder,
       CompareFails, CompareSucceeds, ManualKill, Abort, Restart

\* An entry opens on an instrument it has found free, and nothing opened there since.
LEMMA TradesOpenOneAtATime ==
    ASSUME TypeOK, TypeOK', Control, [Next]_vars
    PROVE  \/ OpenTrades' \subseteq OpenTrades
           \/ \E s \in Signal : /\ OpenTrades' \subseteq OpenTrades \union {s}
                               /\ OpenOn(InstrumentOf[s]) = {}
                               /\ Cardinality(OpenTrades) < MaxOpen
<1>1. ASSUME UNCHANGED trades
      PROVE  OpenTrades' \subseteq OpenTrades
  BY <1>1 DEF OpenTrades
<1>2. ASSUME NEW w \in Worker, SaveTrade(w)
      PROVE  OpenTrades' \subseteq OpenTrades
  <2>1. trade[w] = trades[sig[w]]
    BY <1>2 DEF SaveTrade, Control, RequestOk, ExitOk
  <2>2. UNCHANGED trades
    BY <1>2, <2>1 DEF SaveTrade, TypeOK
  <2> QED  BY <1>1, <2>2
<1>3. ASSUME NEW w \in Worker, RecordExit(w)
      PROVE  OpenTrades' \subseteq OpenTrades
  <2>1. pc[w] \in Routing /\ ~IsEntry(w)
    BY <1>3 DEF RecordExit, Routing
  <2>2. /\ trade[w] = trades[sig[w]] /\ trade[w] \in Trade
        /\ sig[w] \in Signal /\ Current(w) \in OrderType
    BY <2>1, CurrentOrder DEF Control, RequestOk, ExitOk, RoutesExit, TypeOK
  <2>3. ApplyExit(trade[w], Current(w)).remaining <= trade[w].remaining
    BY <2>2, ApplyExitShrinks
  <2>4. \A s \in Signal : trades[s].remaining \in Nat
    BY DEF TypeOK, Trade
  <2>5. \A s \in Signal : trades'[s].remaining <= trades[s].remaining
    BY <1>3, <2>2, <2>3, <2>4 DEF RecordExit, TypeOK
  <2> QED  BY <2>5, FewerOpenTrades
<1>4. ASSUME NEW w \in Worker, RecordTrade(w)
      PROVE  \E s \in Signal : /\ OpenTrades' \subseteq OpenTrades \union {s}
                              /\ OpenOn(InstrumentOf[s]) = {}
                              /\ Cardinality(OpenTrades) < MaxOpen
  <2>1. pc[w] \in Routing /\ IsEntry(w)
    BY <1>4 DEF RecordTrade, Routing
  <2>2. /\ sig[w] \in Signal /\ OpenOn(InstrumentOf[sig[w]]) = {}
        /\ Cardinality(OpenTrades) < MaxOpen
    BY <2>1, CurrentOrder DEF Control, RequestOk, EntryOk, RoutesEntry
  <2>3. OpenTrades' \subseteq OpenTrades \union {sig[w]}
    BY <1>4 DEF RecordTrade, OpenTrades, TypeOK
  <2> QED  BY <2>2, <2>3
<1>5. UNCHANGED trades \/ \E w \in Worker : SaveTrade(w) \/ RecordExit(w) \/ RecordTrade(w)
  BY WhoWritesTrades
<1> QED  BY <1>1, <1>2, <1>3, <1>4, <1>5

LEMMA NextOneOpenTrade ==
    ASSUME TypeOK, TypeOK', Control, OneOpenTradePerInstrument, [Next]_vars
    PROVE  OneOpenTradePerInstrument'
<1>1. CASE OpenTrades' \subseteq OpenTrades
  BY <1>1 DEF OneOpenTradePerInstrument
<1>2. ASSUME NEW s \in Signal, OpenTrades' \subseteq OpenTrades \union {s},
             OpenOn(InstrumentOf[s]) = {}
      PROVE  OneOpenTradePerInstrument'
  <2>1. \A t \in OpenTrades : InstrumentOf[t] # InstrumentOf[s]
    BY <1>2 DEF OpenOn
  <2> QED  BY <1>2, <2>1 DEF OneOpenTradePerInstrument
<1> QED  BY <1>1, <1>2, TradesOpenOneAtATime

LEMMA NextPositionLimit ==
    ASSUME TypeOK, TypeOK', Control, PositionLimit, [Next]_vars
    PROVE  PositionLimit'
<1> USE DEF PositionLimit
<1>1. /\ IsFiniteSet(OpenTrades) /\ Cardinality(OpenTrades) \in Nat
      /\ IsFiniteSet(OpenTrades') /\ Cardinality(OpenTrades') \in Nat /\ MaxOpen \in Nat
  BY OpenTradesFinite, LimitAssumption
<1>2. ASSUME OpenTrades' \subseteq OpenTrades
      PROVE  Cardinality(OpenTrades') <= MaxOpen
  <2>1. Cardinality(OpenTrades') <= Cardinality(OpenTrades)
    BY <1>1, <1>2, FS_Subset
  <2> QED  BY <1>1, <2>1
<1>3. ASSUME NEW s \in Signal, OpenTrades' \subseteq OpenTrades \union {s},
             Cardinality(OpenTrades) < MaxOpen
      PROVE  Cardinality(OpenTrades') <= MaxOpen
  <2>1. /\ IsFiniteSet(OpenTrades \union {s})
        /\ Cardinality(OpenTrades \union {s}) <= Cardinality(OpenTrades) + 1
        /\ Cardinality(OpenTrades \union {s}) \in Nat
    <3>1. /\ IsFiniteSet(OpenTrades \union {s})
          /\ Cardinality(OpenTrades \union {s}) =
               IF s \in OpenTrades THEN Cardinality(OpenTrades) ELSE Cardinality(OpenTrades) + 1
      BY <1>1, FS_AddElement
    <3> QED  BY <1>1, <3>1
  <2>2. Cardinality(OpenTrades') <= Cardinality(OpenTrades \union {s})
    BY <1>3, <2>1, FS_Subset
  <2> QED  BY <1>1, <1>3, <2>1, <2>2
<1> QED  BY <1>2, <1>3, TradesOpenOneAtATime

LEMMA NextAtMostOneFill ==
    ASSUME TypeOK, Control, FillInv, AtMostOneFill, [Next]_vars
    PROVE  AtMostOneFill'
<1> USE DEF AtMostOneFill
<1>1. ASSUME NEW w \in Worker, Submit(w) \/ SubmitFails(w)
      PROVE  AtMostOneFill'
  <2>1. pc[w] = "submit" /\ submits' \in {submits, [submits EXCEPT ![Id(w)] = @ + 1]}
    BY <1>1 DEF Submit, SubmitFails
  <2>2. submits[Id(w)] = 0 /\ Id(w) \in IntentId
    BY <2>1, CurrentOrder DEF FillInv, Routing
  <2>3. \A id \in IntentId : submits'[id] \in {submits[id], IF id = Id(w) THEN 1 ELSE submits[id]}
    BY <2>1, <2>2 DEF TypeOK
  <2> QED  BY <2>3
<1>2. UNCHANGED submits \/ \E w \in Worker : Submit(w) \/ SubmitFails(w)
  BY DEF Next, Request, Run, EntryStep, RouteStep, LedgerStep, ReconcileStep, Fault, vars, history,
         RequestEntry, BeginExits, ReadExits, ReadPortfolio, LockEntry, CheckInstrument,
         ApproveEntry, Approves, RejectEntry, PassHalt, StopAtHalt, RecordIntent, DuplicateEntry,
         DuplicateExit, MarkUnknown, HaltOnUnknown, RecordOrder, RecordTrade, RecordExit,
         SaveTrade, CompareFails, CompareSucceeds, ManualKill, Abort, Restart
<1> QED  BY <1>1, <1>2

-----------------------------------------------------------------------------
(* The entry that slips past a kill.                                       *)

Passing == {"record", "submit"}

\* The kill switch stays as it is, and no entry gets past it.
BehindTheSwitch(w) ==
    /\ UNCHANGED <<killed, halt, lateEntries>>
    /\ \A v \in Worker \ {w} : pc'[v] = pc[v] /\ todo'[v] = todo[v]
    /\ pc'[w] \in Passing => /\ todo'[w] = todo[w]
                             /\ pc[w] \in Passing \/ (killed => ~IsEntry(w))

LEMMA BehindTheSwitchKeeps ==
    ASSUME LateInv, AtMostOneLateEntry, NEW w \in Worker, BehindTheSwitch(w)
    PROVE  LateInv' /\ AtMostOneLateEntry'
<1>1. \A v \in Worker : todo'[v] = todo[v] => (IsEntry(v)' <=> IsEntry(v))
  BY DEF IsEntry, Current
<1> QED  BY <1>1 DEF BehindTheSwitch, LateInv, AtMostOneLateEntry, Passing

LEMMA KillKeeps ==
    ASSUME TypeOK, LateInv, AtMostOneLateEntry, NEW reason \in HaltReason, Kill(reason),
           \A v \in Worker : (pc'[v] = pc[v] /\ todo'[v] = todo[v]) \/ pc'[v] \notin Passing
    PROVE  LateInv' /\ AtMostOneLateEntry'
<1>1. \A v \in Worker : todo'[v] = todo[v] => (IsEntry(v)' <=> IsEntry(v))
  BY DEF IsEntry, Current
<1>2. reason # NoHalt
  BY DEF HaltReason, NoHalt
<1>3. CASE killed
  BY <1>1, <1>3 DEF Kill, LateInv, AtMostOneLateEntry, Passing, TypeOK
<1>4. CASE ~killed
  BY <1>2, <1>4 DEF Kill, LateInv, AtMostOneLateEntry, TypeOK
<1> QED  BY <1>3, <1>4

LEMMA NextLate ==
    ASSUME TypeOK, Control, LateInv, AtMostOneLateEntry, [Next]_vars
    PROVE  LateInv' /\ AtMostOneLateEntry'
<1> USE DEF store, memory, history, Goto, EndRequest
<1>1. ASSUME NEW w \in Worker, NEW s \in Signal, RequestEntry(w, s) \/ BeginExits(w, s)
      PROVE  BehindTheSwitch(w)
  BY <1>1 DEF RequestEntry, BeginExits, ReadExits, BehindTheSwitch, Passing, TypeOK
<1>2. ASSUME NEW w \in Worker, LockEntry(w) \/ CheckInstrument(w)
      PROVE  BehindTheSwitch(w)
  BY <1>2 DEF LockEntry, CheckInstrument, BehindTheSwitch, Passing, TypeOK
<1>3. ASSUME NEW w \in Worker, ApproveEntry(w)
      PROVE  BehindTheSwitch(w)
  BY <1>3 DEF ApproveEntry, Approves, BehindTheSwitch, Passing, TypeOK
<1>4. ASSUME NEW w \in Worker,
             RejectEntry(w) \/ StopAtHalt(w) \/ DuplicateEntry(w) \/ Abort(w)
      PROVE  BehindTheSwitch(w)
  BY <1>4 DEF RejectEntry, StopAtHalt, DuplicateEntry, Abort, BehindTheSwitch, Passing, TypeOK
<1>5. ASSUME NEW w \in Worker, PassHalt(w) \/ RecordIntent(w)
      PROVE  BehindTheSwitch(w)
  BY <1>5 DEF PassHalt, RecordIntent, BehindTheSwitch, Passing, TypeOK
<1>6. ASSUME NEW w \in Worker, SubmitFails(w) \/ RecordOrder(w)
      PROVE  BehindTheSwitch(w)
  BY <1>6 DEF SubmitFails, RecordOrder, BehindTheSwitch, Passing, TypeOK
<1>7. ASSUME NEW w \in Worker, MarkUnknown(w)
      PROVE  BehindTheSwitch(w)
  BY <1>7 DEF MarkUnknown, BehindTheSwitch, Passing, TypeOK
<1>8. ASSUME NEW w \in Worker, DuplicateExit(w) \/ RecordExit(w)
      PROVE  BehindTheSwitch(w)
  BY <1>8 DEF DuplicateExit, RecordExit, NextExit, BehindTheSwitch, Passing, TypeOK
<1>9. ASSUME NEW w \in Worker, SaveTrade(w) \/ RecordTrade(w)
      PROVE  BehindTheSwitch(w)
  BY <1>9 DEF SaveTrade, RecordTrade, BehindTheSwitch, Passing, TypeOK
<1>10. ASSUME NEW w \in Worker, NEW l \in {"reconcile", "clear"}, ReadPortfolio(w, l)
       PROVE  BehindTheSwitch(w)
  BY <1>10 DEF ReadPortfolio, BehindTheSwitch, Passing, TypeOK
<1>11. ASSUME NEW w \in Worker, Submit(w)
       PROVE  LateInv' /\ AtMostOneLateEntry'
  <2>1. /\ pc[w] = "submit" /\ pc' = [pc EXCEPT ![w] = "order"]
        /\ UNCHANGED <<killed, halt, todo>>
        /\ lateEntries' = IF killed /\ IsEntry(w) THEN lateEntries + 1 ELSE lateEntries
    BY <1>11 DEF Submit
  <2>2. \A v \in Worker : /\ IsEntry(v)' <=> IsEntry(v)
                          /\ v # w => pc'[v] = pc[v]
                          /\ v = w => pc'[v] = "order"
    BY <2>1 DEF IsEntry, Current, TypeOK
  <2>3. CASE killed /\ IsEntry(w)
    <3>1. lateEntries = 0
      BY <2>1, <2>3 DEF LateInv, AtMostOneLateEntry, TypeOK
    <3>2. \A v \in Worker \ {w} : pc[v] \in Passing => ~IsEntry(v)
      BY <2>1, <2>3 DEF Control, RequestOk, LockOk, RoutesEntry, Routing, Passing
    <3> QED  BY <2>1, <2>2, <2>3, <3>1, <3>2 DEF LateInv, AtMostOneLateEntry, Passing
  <2>4. CASE ~(killed /\ IsEntry(w))
    BY <2>1, <2>2, <2>4 DEF LateInv, AtMostOneLateEntry
  <2> QED  BY <2>3, <2>4
<1>12. ASSUME NEW w \in Worker, HaltOnUnknown(w)
       PROVE  LateInv' /\ AtMostOneLateEntry'
  <2>1. Kill("EXIT_ROUTE_FAILED") /\ pc' = [pc EXCEPT ![w] = "save"] /\ UNCHANGED todo
    BY <1>12 DEF HaltOnUnknown
  <2>2. \A v \in Worker : (pc'[v] = pc[v] /\ todo'[v] = todo[v]) \/ pc'[v] \notin Passing
    BY <2>1 DEF TypeOK, Passing
  <2> QED  BY <2>1, <2>2, KillKeeps DEF HaltReason
<1>13. ASSUME NEW w \in Worker, CompareFails(w)
       PROVE  LateInv' /\ AtMostOneLateEntry'
  <2>1. Kill("RECONCILIATION_FAILED") /\ EndRequest(w)
    BY <1>13 DEF CompareFails
  <2>2. \A v \in Worker : (pc'[v] = pc[v] /\ todo'[v] = todo[v]) \/ pc'[v] \notin Passing
    BY <2>1 DEF TypeOK, Passing
  <2> QED  BY <2>1, <2>2, KillKeeps DEF HaltReason
<1>14. ASSUME NEW w \in Worker, CompareSucceeds(w)
       PROVE  LateInv' /\ AtMostOneLateEntry'
  <2>1. CASE pc[w] = "clear"
    BY <1>14, <2>1 DEF CompareSucceeds, LateInv, AtMostOneLateEntry
  <2>2. CASE pc[w] # "clear"
    <3>1. BehindTheSwitch(w)
      BY <1>14, <2>2 DEF CompareSucceeds, BehindTheSwitch, Passing, TypeOK
    <3> QED  BY <3>1, BehindTheSwitchKeeps
  <2> QED  BY <2>1, <2>2
<1>15. CASE ManualKill
  <2>1. Kill("MANUAL") /\ UNCHANGED <<pc, todo>>
    BY <1>15 DEF ManualKill, request
  <2> QED  BY <2>1, KillKeeps DEF HaltReason
<1>16. CASE Restart
  BY <1>16 DEF Restart, LateInv, AtMostOneLateEntry
<1>17. CASE UNCHANGED vars
  BY <1>17 DEF vars, request, LateInv, AtMostOneLateEntry, IsEntry, Current
<1> QED
  BY <1>1, <1>2, <1>3, <1>4, <1>5, <1>6, <1>7, <1>8, <1>9, <1>10, <1>11, <1>12,
     <1>13, <1>14, <1>15, <1>16, <1>17, BehindTheSwitchKeeps
  DEF Next, Request, Run, EntryStep, RouteStep, LedgerStep, ReconcileStep, Fault

-----------------------------------------------------------------------------
(* The inductive invariant and the theorems.                               *)

IInv ==
    /\ TypeOK /\ Control /\ RowInv /\ FillInv /\ LateInv
    /\ OneOpenTradePerInstrument /\ PositionLimit
    /\ AtMostOneFill /\ AtMostOneLateEntry

LEMMA InitIInv == Init => IInv
<1> SUFFICES ASSUME Init PROVE IInv
  OBVIOUS
<1>1. TypeOK /\ Control
  BY InitTypeOK, InitControl
<1>2. RowInv /\ FillInv /\ LateInv /\ AtMostOneFill /\ AtMostOneLateEntry
  BY DEF Init, RowInv, FillInv, LateInv, AtMostOneFill, AtMostOneLateEntry,
         HasRow, NoRow, Recorded
<1>3. OpenTrades = {}
  BY DEF Init, OpenTrades, IsOpen, NoRow
<1>4. OneOpenTradePerInstrument /\ PositionLimit
  BY <1>3, FS_EmptySet, LimitAssumption DEF OneOpenTradePerInstrument, PositionLimit
<1> QED  BY <1>1, <1>2, <1>4 DEF IInv

LEMMA NextIInv == IInv /\ [Next]_vars => IInv'
<1> SUFFICES ASSUME IInv, [Next]_vars PROVE IInv'
  OBVIOUS
<1> USE DEF IInv
<1>1. TypeOK'
  BY NextTypeOK
<1>2. Control'
  BY <1>1, NextControl
<1>3. RowInv' /\ FillInv'
  BY NextRowsAndFills
<1>4. LateInv' /\ AtMostOneLateEntry'
  BY NextLate
<1>5. OneOpenTradePerInstrument'
  BY <1>1, NextOneOpenTrade
<1>6. PositionLimit'
  BY <1>1, NextPositionLimit
<1>7. AtMostOneFill'
  BY NextAtMostOneFill
<1> QED  BY <1>1, <1>2, <1>3, <1>4, <1>5, <1>6, <1>7

LEMMA Inductive == Spec => []IInv
<1> QED  BY InitIInv, NextIInv, PTL DEF Spec

\* Every variable stays in its type, through every crash and aborted request.
THEOREM TypeCorrect == Spec => []TypeOK
<1>1. IInv => TypeOK
  BY DEF IInv
<1> QED  BY <1>1, Inductive, PTL

\* Two live trades never share an instrument: the check that open_from_signal makes
\* under the entry lock holds until the ledger row is written, whoever else runs and
\* whatever fails (engine.py:233-245).
THEOREM NeverPyramids == Spec => []OneOpenTradePerInstrument
<1>1. IInv => OneOpenTradePerInstrument
  BY DEF IInv
<1> QED  BY <1>1, Inductive, PTL

\* Racing entries never pass limits.max_concurrent_positions (engine.py:136).
THEOREM LimitHolds == Spec => []PositionLimit
<1>1. IInv => PositionLimit
  BY DEF IInv
<1> QED  BY <1>1, Inductive, PTL

\* No intent reaches the portfolio twice, for any number of retries, crashes and
\* restarts (router.py route, store.py record_intent).
THEOREM FillsOnce == Spec => []AtMostOneFill
<1>1. IInv => AtMostOneFill
  BY DEF IInv
<1> QED  BY <1>1, Inductive, PTL

\* After a kill at most one entry still fills, however many are in flight
\* (router.py route checks the switch before the intent, not with it).
THEOREM OneLateEntry == Spec => []AtMostOneLateEntry
<1>1. IInv => AtMostOneLateEntry
  BY DEF IInv
<1> QED  BY <1>1, Inductive, PTL

\* No request undoes what another recorded on a trade: neither apply_exit nor the
\* trailing save, which overwrite the whole row (ledger.py _save_trade).
THEOREM TradesProgress == Spec => TradesOnlyProgress
<1>1. IInv /\ [Next]_vars => [EveryTradeMovesOn]_trades
  <2> SUFFICES ASSUME IInv, [Next]_vars
               PROVE  [EveryTradeMovesOn]_trades
    OBVIOUS
  <2>1. TypeOK /\ Control /\ RowInv
    BY DEF IInv
  <2>2. \A s \in Signal : trades[s].remaining \in Nat
    BY <2>1 DEF TypeOK, Trade
  <2>3. ASSUME NEW w \in Worker, SaveTrade(w)
        PROVE  UNCHANGED trades
    <3>1. trade[w] = trades[sig[w]]
      BY <2>1, <2>3 DEF SaveTrade, Control, RequestOk, ExitOk
    <3> QED  BY <2>1, <2>3, <3>1 DEF SaveTrade, TypeOK
  <2>4. ASSUME NEW w \in Worker, RecordExit(w)
        PROVE  EveryTradeMovesOn
    <3>1. pc[w] \in Routing /\ ~IsEntry(w)
      BY <2>4 DEF RecordExit, Routing
    <3>2. /\ trade[w] = trades[sig[w]] /\ trade[w] \in Trade
          /\ sig[w] \in Signal /\ Current(w) \in OrderType
      BY <2>1, <3>1, CurrentOrder DEF Control, RequestOk, ExitOk, RoutesExit, TypeOK
    <3> DEFINE after == ApplyExit(trade[w], Current(w))
    <3>3. /\ after.size = trades[sig[w]].size
          /\ after.remaining <= trades[sig[w]].remaining
          /\ trades[sig[w]].tp1Hit => after.tp1Hit
      BY <3>2, ApplyExitShrinks DEF ApplyExit
    <3>4. trades' \in {trades, [trades EXCEPT ![sig[w]] = after]}
      BY <2>1, <2>4, <3>2 DEF RecordExit, TypeOK
    <3>5. \A s \in Signal : trades'[s] \in {trades[s], IF s = sig[w] THEN after ELSE trades[s]}
      BY <2>1, <3>4 DEF TypeOK
    <3> HIDE DEF after
    <3>6. ASSUME NEW s \in Signal
          PROVE  MovesOn(s)
      <4>1. CASE trades'[s] = trades[s]
        BY <2>2, <4>1 DEF MovesOn
      <4>2. CASE s = sig[w] /\ trades'[s] = after
        BY <3>3, <4>2 DEF MovesOn
      <4> QED  BY <3>5, <4>1, <4>2
    <3> QED  BY <3>6 DEF EveryTradeMovesOn
  <2>5. ASSUME NEW w \in Worker, RecordTrade(w)
        PROVE  EveryTradeMovesOn
    <3>1. pc[w] = "ledger" /\ IsEntry(w) /\ pc[w] \in Routing
      BY <2>5 DEF RecordTrade, Routing
    <3>2. ~HasRow(trades[sig[w]]) /\ sig[w] \in Signal
      BY <2>1, <3>1, CurrentOrder DEF Control, RequestOk, EntryOk
    <3>3. \A s \in Signal : s # sig[w] => trades'[s] = trades[s]
      BY <2>1, <2>5 DEF RecordTrade, TypeOK
    <3> QED  BY <2>2, <3>2, <3>3 DEF EveryTradeMovesOn, MovesOn
  <2>6. UNCHANGED trades \/ \E w \in Worker : SaveTrade(w) \/ RecordExit(w) \/ RecordTrade(w)
    BY WhoWritesTrades
  <2> QED  BY <2>3, <2>4, <2>5, <2>6
<1> QED  BY <1>1, Inductive, PTL DEF Spec, TradesOnlyProgress
-----------------------------------------------------------------------------
(***************************************************************************)
(* What the engine adds up: the exposure ceiling, whatever fails; and, as  *)
(* long as nothing fails, that the portfolio is the ledger plus the fills  *)
(* in flight, that an exit only shrinks the position, and that the trade   *)
(* table implements TradeBook.                                             *)
(***************************************************************************)
-----------------------------------------------------------------------------
(* The invariants.                                                         *)

\* The room an entry was approved for stays free until it is recorded: every live
\* trade is one that the approval read, for only another entry could add one, and the
\* entry lock keeps that one out.
RoomOk(w) == RoutesEntry(w) => /\ OpenTrades \subseteq account[w].open
                               /\ WithinCeiling(w)
CapInv == \A w \in Worker : RoomOk(w)

\* An entry asks for a size that sizing may ask for, or for less.
SizeInv == \A w \in Worker :
               RoutesEntry(w) => \E size \in Sizes : Current(w).qty \in 1..size

\* Nothing but TP1 sells a part of a trade.
Whole(t) == ~t.tp1Hit => t.remaining \in {0, t.size}

\* The exits a request has still to route are a plan of the trade as it is now.
PlanOk(w) == RoutesExit(w) => /\ IsOpen(trades[sig[w]])
                              /\ todo[w] \in PlanShapes(trades[sig[w]])

\* The trade shows the exit that an intent, or an event, stands for.
Taken(id) ==
    LET t == trades[id[1]]
    IN  HasRow(t) /\ IF id[2] = "TP1" THEN t.tp1Hit ELSE ~IsOpen(t)

\* Between the intent and the ledger.
Underway(id) == \E w \in Worker : pc[w] \in {"submit", "order", "ledger"} /\ Id(w) = id

\* As long as nothing fails: every exit whose id is used is underway or recorded.
PlanInv ==
    /\ \A s \in Signal : Whole(trades[s])
    /\ \A w \in Worker : pc[w] \notin {"unknown", "halt"} /\ PlanOk(w)
    /\ \A id \in intents : id[2] # "ENTRY" => Underway(id) \/ Taken(id)
    /\ \A id \in events : id[2] # "ENTRY" => Taken(id)
-----------------------------------------------------------------------------
(* The open notional.                                                      *)

\* What the trades of b come to at a value.
Valued(b, value) == [s \in Signal |-> b[s].remaining * value[s]]
Values == [Signal -> Nat]

\* A closed trade adds nothing, so the notional is the sum over all signals.
LEMMA NotionalIsTotal ==
    ASSUME NEW b \in [Signal -> Trade], NEW value \in Values
    PROVE  /\ Ints(Valued(b, value), Signal)
           /\ SumOn(Valued(b, value), {s \in Signal : IsOpen(b[s])})
                = SumOn(Valued(b, value), Signal)
           /\ SumOn(Valued(b, value), Signal) \in Int
<1>1. \A s \in Signal : b[s].remaining \in Nat /\ value[s] \in Nat
  BY DEF Trade, Values
<1>2. \A m, n \in Nat : m * n \in Int
  OBVIOUS
<1>3. Ints(Valued(b, value), Signal)
  BY <1>1, <1>2 DEF Ints, Valued
<1>4. \A s \in Signal \ {s \in Signal : IsOpen(b[s])} : Valued(b, value)[s] = 0
  <2>1. \A n \in Nat : 0 * n = 0
    OBVIOUS
  <2>2. \A s \in Signal \ {s \in Signal : IsOpen(b[s])} : b[s].remaining = 0
    BY <1>1 DEF IsOpen
  <2> QED  BY <1>1, <2>1, <2>2 DEF Valued
<1>5. SumOn(Valued(b, value), Signal) \in Int
  BY <1>3, SignalAssumption, SumIsInteger
<1>6. {s \in Signal : IsOpen(b[s])} \in SUBSET Signal
  OBVIOUS
<1> QED  BY <1>3, <1>4, <1>5, <1>6, SignalAssumption, SumLeavesOutZeros

\* The notional that an entry sees shrinks with the trades that it counts, whatever
\* the others' marks do.
LEMMA SeenNotionalShrinks ==
    ASSUME TypeOK, TypeOK', NEW v \in Worker, account'[v] = account[v],
           OpenTrades \subseteq account[v].open,
           \A s \in Signal : trades'[s].remaining <= trades[s].remaining
    PROVE  /\ OpenTrades' \subseteq account[v].open
           /\ Notional(SeenBy(v)) \in Int /\ Notional(SeenBy(v))' \in Int
           /\ Notional(SeenBy(v))' <= Notional(SeenBy(v))
<1> DEFINE old == SeenBy(v)
           new == SeenBy(v)'
           f == Valued(trades, old)
           e == Valued(trades', new)
<1>1. /\ trades \in [Signal -> Trade] /\ trades' \in [Signal -> Trade]
      /\ mark \in [Signal -> Nat] /\ mark' \in [Signal -> Nat]
      /\ account[v].marks \in [Signal -> Nat]
  BY DEF TypeOK, AccountType
<1>2. old \in Values /\ new \in Values
  BY <1>1 DEF SeenBy, Values
<1>3. OpenTrades' \subseteq OpenTrades
  BY FewerOpenTrades
<1>4. /\ Notional(SeenBy(v)) = SumOn(f, {s \in Signal : IsOpen(trades[s])})
      /\ Notional(SeenBy(v))' = SumOn(e, {s \in Signal : IsOpen(trades'[s])})
  BY DEF Notional, Valued, OpenTrades, SumOn
<1>5. \A s \in Signal : e[s] <= f[s]
  <2> SUFFICES ASSUME NEW s \in Signal PROVE e[s] <= f[s]
    OBVIOUS
  <2>1. /\ e[s] = trades'[s].remaining * new[s] /\ f[s] = trades[s].remaining * old[s]
        /\ trades[s].remaining \in Nat /\ trades'[s].remaining \in Nat
        /\ trades'[s].remaining <= trades[s].remaining
        /\ old[s] \in Nat /\ new[s] \in Nat
    BY <1>1, <1>2 DEF Valued, Trade, Values
  <2>2. CASE s \in OpenTrades
    <3>1. new[s] = old[s]
      BY <2>2 DEF SeenBy
    <3>2. \A k, m, n \in Nat : k <= m => k * n <= m * n
      OBVIOUS
    <3> HIDE DEF old, new, f, e
    <3> QED  BY <2>1, <3>1, <3>2
  <2>3. CASE s \notin OpenTrades
    <3>1. trades[s].remaining = 0 /\ trades'[s].remaining = 0
      BY <2>1, <2>3 DEF OpenTrades, IsOpen
    <3>2. \A n \in Nat : 0 * n = 0
      OBVIOUS
    <3> HIDE DEF old, new, f, e
    <3> QED  BY <2>1, <3>1, <3>2
  <2> QED  BY <2>2, <2>3
<1> HIDE DEF old, new
<1>6. /\ Ints(f, Signal) /\ Ints(e, Signal)
      /\ Notional(SeenBy(v)) = SumOn(f, Signal) /\ Notional(SeenBy(v))' = SumOn(e, Signal)
      /\ SumOn(f, Signal) \in Int /\ SumOn(e, Signal) \in Int
  BY <1>1, <1>2, <1>4, NotionalIsTotal
<1> HIDE DEF f, e
<1>7. SumOn(e, Signal) <= SumOn(f, Signal)
  BY <1>5, <1>6, SumIsMonotone, SignalAssumption
<1> QED  BY <1>3, <1>6, <1>7

\* An entry that is approved sees the notional that approve() was given.
LEMMA ApprovedWithinCeiling ==
    ASSUME TypeOK, TypeOK', NEW v \in Worker, ApproveEntry(v)
    PROVE  /\ OpenTrades' \subseteq account'[v].open
           /\ WithinCeiling(v)'
<1>1. PICK price \in Prices, ceiling \in Ceilings, size \in Sizes, qty \in Nat :
         qty \in 1..size /\ Approved(v, size, price, ceiling, qty)
  BY HowEntriesAreApproved
<1>2. UNCHANGED trades /\ UNCHANGED mark
  BY HowEntriesAreApproved DEF store
<1>3. /\ Current(v)'.qty = qty
      /\ account'[v] = AccountRead(price, ceiling)
  BY <1>1 DEF Approved, Current, Order, TypeOK
<1>4. OpenTrades' = OpenTrades
  BY <1>2 DEF OpenTrades
<1>5. /\ account'[v].open = OpenTrades /\ account'[v].price = price
      /\ account'[v].ceiling = ceiling
  BY <1>3 DEF AccountRead
<1>6. Notional(SeenBy(v))' = OpenNotional /\ OpenNotional \in Int
  <2> DEFINE new == SeenBy(v)'
             f == Valued(trades, mark)
             e == Valued(trades, new)
  <2>1. /\ trades \in [Signal -> Trade] /\ mark \in Values /\ new \in Values
    <3>1. mark' \in [Signal -> Nat] /\ account'[v].marks \in [Signal -> Nat]
      BY DEF TypeOK, AccountType
    <3> QED  BY <3>1 DEF TypeOK, SeenBy, Values
  <2>2. /\ Notional(SeenBy(v))' = SumOn(e, OpenTrades)
        /\ OpenNotional = SumOn(f, OpenTrades)
    BY <1>2, <1>4 DEF Notional, OpenNotional, Valued, SumOn
  <2>3. \A s \in OpenTrades : e[s] = f[s]
    <3>1. \A s \in OpenTrades : s \in Signal /\ new[s] = mark[s]
      BY <1>2, <1>3, <1>4 DEF SeenBy, AccountRead, OpenTrades
    <3> HIDE DEF new
    <3> QED  BY <3>1 DEF Valued
  <2> HIDE DEF new
  <2>4. Ints(f, Signal) /\ Ints(e, Signal)
    BY <2>1, NotionalIsTotal
  <2>5. /\ OpenTrades \subseteq Signal /\ IsFiniteSet(OpenTrades)
        /\ Ints(f, OpenTrades) /\ Ints(e, OpenTrades)
    BY <2>4, OpenTradesFinite DEF OpenTrades, Ints
  <2> HIDE DEF f, e
  <2>6. SumOn(e, OpenTrades) = SumOn(f, OpenTrades)
    BY <2>3, <2>5, SumAgrees
  <2>7. SumOn(f, OpenTrades) \in Int
    BY <2>5, SumIsInteger
  <2> QED  BY <2>2, <2>6, <2>7
<1>7. 2 * (OpenNotional + qty * price) <= 2 * ceiling + price
  <2> DEFINE room == ceiling - OpenNotional
             cost == qty * price
  <2>1. price \in Nat /\ ceiling \in Int /\ qty \in Nat /\ size \in Nat /\ size * price \in Int
    BY LimitAssumption
  <2>2. cost \in Int /\ room \in Int /\ room = ceiling - OpenNotional
    BY <1>6, <2>1
  <2>3. cost <= room \/ 2 * cost <= 2 * room + price
    BY <1>1 DEF Approved, Approves, IsNearest
  <2> HIDE DEF room, cost
  <2>4. 2 * (OpenNotional + cost) <= 2 * ceiling + price
    BY <1>6, <2>1, <2>2, <2>3
  <2> QED  BY <2>4 DEF cost
<1> QED  BY <1>3, <1>4, <1>5, <1>6, <1>7 DEF WithinCeiling

-----------------------------------------------------------------------------
(* How a request comes to route an order.                                  *)

SameRequest(v) == /\ pc[v] \in Routing /\ todo'[v] = todo[v] /\ sig'[v] = sig[v]
                  /\ account'[v] = account[v]

LEMMA HowOrdersAreRouted ==
    ASSUME TypeOK, [Next]_vars, NEW v \in Worker, pc'[v] \in Routing
    PROVE  \/ SameRequest(v)
           \/ ApproveEntry(v)
           \/ \E s \in Signal : BeginExits(v, s)
           \/ DuplicateExit(v) \/ RecordExit(v)
<1> USE DEF TypeOK, Goto, EndRequest, Routing, SameRequest
<1>1. ASSUME NEW w \in Worker, w # v, Request(w) \/ Run(w) \/ SubmitFails(w) \/ Abort(w)
      PROVE  /\ pc'[v] = pc[v] /\ todo'[v] = todo[v] /\ sig'[v] = sig[v]
             /\ account'[v] = account[v]
  <2>1. CASE Request(w)
    BY <1>1, <2>1 DEF Request, RequestEntry, BeginExits, ReadExits, ReadPortfolio
  <2>2. CASE EntryStep(w)
    BY <1>1, <2>2 DEF EntryStep, LockEntry, CheckInstrument, ApproveEntry, Approves, RejectEntry
  <2>3. CASE RouteStep(w)
    BY <1>1, <2>3 DEF RouteStep, PassHalt, StopAtHalt, RecordIntent, DuplicateEntry,
       DuplicateExit, NextExit, Submit, MarkUnknown, HaltOnUnknown, RecordOrder
  <2>4. CASE LedgerStep(w) \/ ReconcileStep(w) \/ SubmitFails(w) \/ Abort(w)
    BY <1>1, <2>4 DEF LedgerStep, RecordTrade, RecordExit, NextExit, SaveTrade,
       ReconcileStep, CompareFails, CompareSucceeds, SubmitFails, Abort
  <2> QED  BY <1>1, <2>1, <2>2, <2>3, <2>4 DEF Run
<1>2. ASSUME Request(v) \/ EntryStep(v)
      PROVE  ApproveEntry(v) \/ \E s \in Signal : BeginExits(v, s)
  BY <1>2 DEF Request, RequestEntry, ReadPortfolio, EntryStep, LockEntry, CheckInstrument,
              RejectEntry
<1>3. ASSUME RouteStep(v)
      PROVE  SameRequest(v) \/ DuplicateExit(v)
  BY <1>3 DEF RouteStep, PassHalt, StopAtHalt, RecordIntent, DuplicateEntry, Submit,
              MarkUnknown, HaltOnUnknown, RecordOrder
<1>4. ASSUME LedgerStep(v) \/ ReconcileStep(v) \/ SubmitFails(v) \/ Abort(v)
      PROVE  SameRequest(v) \/ RecordExit(v)
  BY <1>4 DEF LedgerStep, RecordTrade, SaveTrade, ReconcileStep, CompareFails,
              CompareSucceeds, SubmitFails, Abort
<1>5. CASE ManualKill \/ UNCHANGED vars
  BY <1>5 DEF ManualKill, vars, request
<1>6. CASE Restart
  BY <1>6 DEF Restart
<1>7. \/ \E w \in Worker : Request(w) \/ Run(w) \/ SubmitFails(w) \/ Abort(w)
      \/ ManualKill \/ Restart \/ UNCHANGED vars
  BY DEF Next, Fault
<1> QED  BY <1>1, <1>2, <1>3, <1>4, <1>5, <1>6, <1>7 DEF Run

\* A request that routes exits goes on to an exit.
LEMMA ExitsStayExits ==
    ASSUME TypeOK, Control, NEW v \in Worker, pc'[v] \in Routing,
           (\E s \in Signal : BeginExits(v, s)) \/ DuplicateExit(v) \/ RecordExit(v)
    PROVE  ~IsEntry(v)'
<1>1. ASSUME NEW s \in Signal, BeginExits(v, s)
      PROVE  ~IsEntry(v)'
  <2>1. PICK plan \in PlanShapes(trades[s]) :
           todo' = [todo EXCEPT ![v] = plan] /\ Goto(v, IF plan = <<>> THEN "save" ELSE "route")
    BY <1>1 DEF BeginExits, ReadExits
  <2>2. plan # <<>> /\ todo'[v] = plan
    BY <2>1 DEF Goto, TypeOK, Routing
  <2>3. plan \in Seq(OrderType) /\ \A k \in DOMAIN plan : plan[k].kind # "ENTRY"
    BY PlansAreExits DEF TypeOK
  <2> QED  BY <2>2, <2>3 DEF IsEntry, Current
<1>2. ASSUME DuplicateExit(v) \/ RecordExit(v)
      PROVE  ~IsEntry(v)'
  <2>1. pc[v] \in Routing /\ ~IsEntry(v) /\ NextExit(v)
    BY <1>2 DEF DuplicateExit, RecordExit, Routing
  <2>2. /\ todo[v] \in Seq(OrderType) /\ todo[v] # <<>>
        /\ \A k \in DOMAIN todo[v] : todo[v][k].kind # "ENTRY"
    BY <2>1, CurrentOrder DEF Control, RequestOk, TodoOk, TypeOK
  <2>3. todo'[v] = Tail(todo[v]) /\ Len(todo[v]) > 1
    BY <2>1 DEF NextExit, Goto, TypeOK, Routing
  <2>4. /\ Len(Tail(todo[v])) = Len(todo[v]) - 1 /\ Tail(todo[v]) \in Seq(OrderType)
        /\ \A k \in 1..Len(Tail(todo[v])) : Tail(todo[v])[k] = todo[v][k + 1]
    BY <2>2, HeadTailProperties
  <2>5. Tail(todo[v]) # <<>> /\ Tail(todo[v])[1] = todo[v][2] /\ 2 \in DOMAIN todo[v]
    BY <2>2, <2>3, <2>4
  <2>6. Head(Tail(todo[v])) = todo[v][2]
    BY <2>4, <2>5, FirstOfSeq
  <2> QED  BY <2>2, <2>3, <2>5, <2>6 DEF IsEntry, Current
<1> QED  BY <1>1, <1>2

-----------------------------------------------------------------------------
(* The exposure ceiling.                                                   *)

\* A step keeps the room of every entry.
LEMMA NextCapInv ==
    ASSUME TypeOK, TypeOK', Control, CapInv, [Next]_vars
    PROVE  CapInv'
<1>1. ASSUME \A s \in Signal : trades'[s].remaining <= trades[s].remaining
      PROVE  CapInv'
  <2> SUFFICES ASSUME NEW v \in Worker, RoutesEntry(v)'
               PROVE  OpenTrades' \subseteq account'[v].open /\ WithinCeiling(v)'
    BY DEF CapInv, RoomOk
  <2>1. CASE SameRequest(v)
    <3>1. Current(v)' = Current(v) /\ RoutesEntry(v) /\ account'[v] = account[v]
      BY <2>1 DEF SameRequest, RoutesEntry, IsEntry, Current
    <3>2. OpenTrades \subseteq account[v].open /\ WithinCeiling(v)
      BY <3>1 DEF CapInv, RoomOk
    <3>3. /\ OpenTrades' \subseteq account[v].open
          /\ Notional(SeenBy(v)) \in Int /\ Notional(SeenBy(v))' \in Int
          /\ Notional(SeenBy(v))' <= Notional(SeenBy(v))
      BY <1>1, <3>1, <3>2, SeenNotionalShrinks
    <3>4. Current(v).qty \in Nat /\ account[v].price \in Nat /\ account[v].ceiling \in Nat
      BY <3>1, CurrentOrder DEF RoutesEntry, OrderType, TypeOK, AccountType
    <3>5. WithinCeiling(v)'
      <4> DEFINE own == Current(v).qty * account[v].price
                 before == Notional(SeenBy(v))
                 after == Notional(SeenBy(v))'
                 limit == 2 * account[v].ceiling + account[v].price
      <4>1. own \in Int /\ limit \in Int /\ before \in Int /\ after \in Int /\ after <= before
        BY <3>3, <3>4
      <4>2. 2 * (before + own) <= limit
        BY <3>2 DEF WithinCeiling
      <4>3. WithinCeiling(v)' = (2 * (after + own) <= limit)
        BY <3>1 DEF WithinCeiling
      <4> HIDE DEF own, before, after, limit
      <4>4. 2 * (after + own) <= limit
        BY <4>1, <4>2
      <4> QED  BY <4>3, <4>4
    <3> QED  BY <3>1, <3>3, <3>5
  <2>2. CASE ApproveEntry(v)
    BY <2>2, ApprovedWithinCeiling
  <2>3. ~((\E s \in Signal : BeginExits(v, s)) \/ DuplicateExit(v) \/ RecordExit(v))
    BY ExitsStayExits DEF RoutesEntry
  <2> QED  BY <2>1, <2>2, <2>3, HowOrdersAreRouted DEF RoutesEntry
<1>2. ASSUME NEW w \in Worker, RecordTrade(w)
      PROVE  CapInv'
  <2>1. pc[w] = "ledger" /\ RoutesEntry(w) /\ EndRequest(w)
    BY <1>2 DEF RecordTrade, RoutesEntry, Routing
  <2>2. entryLock = w
    BY <2>1 DEF Control, RequestOk, LockOk
  <2>3. ASSUME NEW v \in Worker
        PROVE  ~RoutesEntry(v)'
    <3>1. CASE v = w
      BY <2>1, <3>1 DEF EndRequest, Goto, TypeOK, RoutesEntry, Routing
    <3>2. CASE v # w
      <4>1. ~RoutesEntry(v)
        BY <2>2, <3>2 DEF Control, RequestOk, LockOk
      <4>2. pc'[v] = pc[v] /\ todo'[v] = todo[v]
        BY <2>1, <3>2 DEF EndRequest, Goto, TypeOK
      <4> QED  BY <4>1, <4>2 DEF RoutesEntry, IsEntry, Current
    <3> QED  BY <3>1, <3>2
  <2> QED  BY <2>3 DEF CapInv, RoomOk
<1>3. CASE UNCHANGED trades
  <2>1. \A s \in Signal : trades'[s].remaining <= trades[s].remaining
    BY <1>3 DEF TypeOK, Trade
  <2> QED  BY <1>1, <2>1
<1>4. ASSUME NEW w \in Worker, SaveTrade(w) \/ RecordExit(w)
      PROVE  \A s \in Signal : trades'[s].remaining <= trades[s].remaining
  <2>1. \A s \in Signal : trades[s].remaining \in Nat
    BY DEF TypeOK, Trade
  <2>2. CASE SaveTrade(w)
    <3>1. trade[w] = trades[sig[w]]
      BY <2>2 DEF SaveTrade, Control, RequestOk, ExitOk
    <3>2. UNCHANGED trades
      BY <2>2, <3>1 DEF SaveTrade, TypeOK
    <3> QED  BY <2>1, <3>2
  <2>3. CASE RecordExit(w)
    <3>1. pc[w] \in Routing /\ ~IsEntry(w)
      BY <2>3 DEF RecordExit, Routing
    <3>2. /\ trade[w] = trades[sig[w]] /\ trade[w] \in Trade
          /\ sig[w] \in Signal /\ Current(w) \in OrderType
      BY <3>1, CurrentOrder DEF Control, RequestOk, ExitOk, RoutesExit, TypeOK
    <3>3. ApplyExit(trade[w], Current(w)).remaining <= trade[w].remaining
      BY <3>2, ApplyExitShrinks
    <3> QED  BY <2>1, <2>3, <3>2, <3>3 DEF RecordExit, TypeOK
  <2> QED  BY <1>4, <2>2, <2>3
<1> QED  BY <1>1, <1>2, <1>3, <1>4, WhoWritesTrades

\* An entry's order is as large as it was approved.
LEMMA NextSizeInv ==
    ASSUME TypeOK, Control, SizeInv, [Next]_vars
    PROVE  SizeInv'
<1> SUFFICES ASSUME NEW v \in Worker, RoutesEntry(v)'
             PROVE  \E size \in Sizes : Current(v)'.qty \in 1..size
  BY DEF SizeInv
<1>1. CASE SameRequest(v)
  <2>1. Current(v)' = Current(v) /\ RoutesEntry(v)
    BY <1>1 DEF SameRequest, RoutesEntry, IsEntry, Current
  <2> QED  BY <2>1 DEF SizeInv
<1>2. CASE ApproveEntry(v)
  <2>1. PICK price \in Prices, ceiling \in Ceilings, size \in Sizes, qty \in Nat :
           qty \in 1..size /\ Approved(v, size, price, ceiling, qty)
    BY <1>2, HowEntriesAreApproved
  <2>2. Current(v)'.qty = qty
    BY <2>1 DEF Approved, Current, Order, TypeOK
  <2> QED  BY <2>1, <2>2
<1>3. ~((\E s \in Signal : BeginExits(v, s)) \/ DuplicateExit(v) \/ RecordExit(v))
  BY ExitsStayExits DEF RoutesEntry
<1> QED  BY <1>1, <1>2, <1>3, HowOrdersAreRouted DEF RoutesEntry
-----------------------------------------------------------------------------
(* Plans, while nothing fails.                                             *)

\* A plan starts with TP1 and goes on with the rest at most, or it is one exit that
\* sells everything.
LEMMA PlanHeads ==
    ASSUME NEW t, NEW plan \in PlanShapes(t), plan # <<>>
    PROVE  \/ /\ ~t.tp1Hit /\ Head(plan) = Order("TP1", Tp1Part(t))
              /\ Tail(plan) # <<>> =>
                    /\ Tp1Part(t) < t.remaining
                    /\ \E k \in {"BREAKEVEN_STOP", "TP2", "TIMEOUT"} :
                           Tail(plan) = <<Order(k, t.remaining - Tp1Part(t))>>
           \/ /\ \E k \in Kind \ {"TP1"} : Head(plan) = Order(k, t.remaining)
              /\ Tail(plan) = <<>>
<1>1. CASE ~t.tp1Hit /\ plan = <<Order("TP1", Tp1Part(t))>>
  BY <1>1
<1>2. ASSUME NEW k \in Kind \ {"TP1"}, plan = <<Order(k, t.remaining)>>
      PROVE  Head(plan) = Order(k, t.remaining) /\ Tail(plan) = <<>>
  BY <1>2
<1>3. ASSUME ~t.tp1Hit, NEW k \in {"BREAKEVEN_STOP", "TP2", "TIMEOUT"},
             plan = <<Order("TP1", Tp1Part(t)), Order(k, t.remaining - Tp1Part(t))>>
      PROVE  /\ Head(plan) = Order("TP1", Tp1Part(t))
             /\ Tail(plan) = <<Order(k, t.remaining - Tp1Part(t))>>
  BY <1>3
<1> QED  BY <1>1, <1>2, <1>3 DEF PlanShapes, Kind

\* What the exit at the head of the plan makes of the trade, and that the rest is a
\* plan of the trade it leaves.
LEMMA PlanSells ==
    ASSUME NEW t \in Trade, IsOpen(t), Whole(t), NEW plan \in PlanShapes(t), plan # <<>>
    PROVE  LET o == Head(plan)
               after == ApplyExit(t, o)
           IN  /\ o.qty \in 0..t.remaining
               /\ after.remaining = t.remaining - o.qty
               /\ after \in Trade /\ Whole(after)
               /\ after.size = t.size
               /\ t.tp1Hit => after.tp1Hit
               /\ IF o.kind = "TP1" THEN ~t.tp1Hit /\ after.tp1Hit ELSE ~IsOpen(after)
               /\ Tail(plan) # <<>> => IsOpen(after) /\ Tail(plan) \in PlanShapes(after)
<1> DEFINE o == Head(plan)
           after == ApplyExit(t, o)
<1>1. /\ t.size \in Nat /\ t.remaining \in Nat /\ t.remaining <= t.size /\ t.remaining > 0
      /\ t.tp1Hit \in BOOLEAN /\ Tp1Part(t) \in 0..t.remaining
  BY Tp1PartFits DEF Trade, IsOpen
<1>2. CASE ~t.tp1Hit /\ o = Order("TP1", Tp1Part(t))
  <2>1. o.kind = "TP1" /\ o.qty = Tp1Part(t)
    BY <1>2 DEF Order
  <2>2. t.remaining = t.size
    BY <1>1, <1>2 DEF Whole
  <2>4. /\ after.remaining = t.remaining - Tp1Part(t)
        /\ after.tp1Hit = TRUE /\ after.size = t.size /\ after \in Trade
    <3>1. after.remaining = Less(t.remaining, Tp1Part(t)) /\ after.size = t.size
      BY <2>1 DEF ApplyExit
    <3>2. after.tp1Hit = TRUE
      BY <2>1 DEF ApplyExit
    <3>3. /\ Less(t.remaining, Tp1Part(t)) = t.remaining - Tp1Part(t)
          /\ t.remaining - Tp1Part(t) \in Nat
          /\ t.remaining - Tp1Part(t) <= t.size
      BY <1>1, <2>2 DEF Less
    <3>4. after = [size |-> after.size, remaining |-> after.remaining, tp1Hit |-> after.tp1Hit]
      BY DEF ApplyExit
    <3> HIDE DEF after
    <3> QED  BY <1>1, <3>1, <3>2, <3>3, <3>4 DEF Trade
  <2>5. Tail(plan) # <<>> =>
           /\ IsOpen(after)
           /\ \E k \in {"BREAKEVEN_STOP", "TP2", "TIMEOUT"} :
                  Tail(plan) = <<Order(k, after.remaining)>>
    <3>1. o.kind = "TP1"
      BY <2>1
    <3>2. \A k \in Kind \ {"TP1"} : o # Order(k, t.remaining)
      BY <3>1 DEF Order
    <3>3. /\ Tail(plan) # <<>> => Tp1Part(t) < t.remaining
          /\ Tail(plan) # <<>> => \E k \in {"BREAKEVEN_STOP", "TP2", "TIMEOUT"} :
                 Tail(plan) = <<Order(k, t.remaining - Tp1Part(t))>>
      BY <3>2, PlanHeads
    <3>4. Tp1Part(t) < t.remaining => t.remaining - Tp1Part(t) > 0
      BY <1>1
    <3> HIDE DEF after
    <3> QED  BY <2>4, <3>3, <3>4 DEF IsOpen
  <2>6. Tail(plan) # <<>> => Tail(plan) \in PlanShapes(after)
    <3> HIDE DEF after
    <3> QED  BY <2>4, <2>5 DEF PlanShapes
  <2> QED  BY <1>1, <1>2, <2>1, <2>4, <2>5, <2>6 DEF Whole
<1>3. ASSUME NEW k \in Kind \ {"TP1"}, o = Order(k, t.remaining), Tail(plan) = <<>>
      PROVE  /\ o.qty \in 0..t.remaining
             /\ after.remaining = t.remaining - o.qty
             /\ after \in Trade /\ Whole(after)
             /\ after.size = t.size
             /\ t.tp1Hit => after.tp1Hit
             /\ o.kind # "TP1" /\ ~IsOpen(after)
  <2>1. o.kind # "TP1" /\ o.qty = t.remaining
    BY <1>3 DEF Order
  <2>2. /\ after.remaining = 0 /\ after.tp1Hit = t.tp1Hit
        /\ after.size = t.size /\ after \in Trade
    BY <1>1, <2>1 DEF ApplyExit, Less, Trade
  <2> QED  BY <1>1, <2>1, <2>2 DEF Whole, IsOpen
<1> HIDE DEF after
<1>4. \/ ~t.tp1Hit /\ o = Order("TP1", Tp1Part(t))
      \/ \E k \in Kind \ {"TP1"} : o = Order(k, t.remaining) /\ Tail(plan) = <<>>
  BY PlanHeads
<1> QED  BY <1>2, <1>3, <1>4 DEF after
\* The trade does not show the exit that is about to be taken.
LEMMA NotTakenYet ==
    ASSUME TypeOK, Control, PlanInv, NEW w \in Worker, RoutesExit(w)
    PROVE  /\ sig[w] \in Signal /\ trades[sig[w]] \in Trade
           /\ IsOpen(trades[sig[w]]) /\ HasRow(trades[sig[w]])
           /\ todo[w] \in PlanShapes(trades[sig[w]]) /\ todo[w] # <<>>
           /\ ~Taken(Id(w)) /\ Id(w)[1] = sig[w] /\ Id(w)[2] # "ENTRY"
<1> DEFINE t == trades[sig[w]]
<1>1. /\ sig[w] \in Signal /\ todo[w] # <<>> /\ t \in Trade
  BY CurrentOrder DEF RoutesExit, TypeOK
<1>2. IsOpen(t) /\ todo[w] \in PlanShapes(t) /\ Whole(t)
  BY <1>1 DEF PlanInv, PlanOk
<1>3. HasRow(t)
  BY <1>1, <1>2 DEF IsOpen, HasRow, Trade
<1>4. Current(w).kind = "TP1" => ~t.tp1Hit
  <2>1. ApplyExit(t, Head(todo[w])) \in Trade /\ (Head(todo[w]).kind = "TP1" => ~t.tp1Hit)
    BY <1>1, <1>2, PlanSells
  <2> QED  BY <2>1 DEF Current
<1>5. Id(w)[1] = sig[w] /\ Id(w)[2] = Current(w).kind
  BY DEF Id
<1>6. ~Taken(Id(w))
  BY <1>2, <1>4, <1>5 DEF Taken
<1> QED  BY <1>1, <1>2, <1>3, <1>5, <1>6 DEF RoutesExit, IsEntry

\* So no exit is skipped as a duplicate.
LEMMA NoDuplicateExit ==
    ASSUME TypeOK, Control, PlanInv, NEW w \in Worker
    PROVE  ~DuplicateExit(w)
<1> SUFFICES ASSUME DuplicateExit(w) PROVE FALSE
  OBVIOUS
<1>1. pc[w] = "record" /\ RoutesExit(w) /\ Id(w) \in intents
  BY DEF DuplicateExit, RoutesExit, Routing
<1>2. ~Taken(Id(w)) /\ Id(w)[2] # "ENTRY"
  BY <1>1, NotTakenYet
<1>3. PICK v \in Worker : pc[v] \in {"submit", "order", "ledger"} /\ Id(v) = Id(w)
  BY <1>1, <1>2 DEF PlanInv, Underway
<1>4. RoutesExit(v)
  BY <1>2, <1>3 DEF RoutesExit, IsEntry, Id, Routing
<1>5. lifecycleLock = w /\ lifecycleLock = v
  BY <1>1, <1>4 DEF Control, RequestOk, LockOk
<1> QED  BY <1>1, <1>3, <1>5

\* An exit that the ledger records is new to it, and takes its part of the trade.
LEMMA ExitIsTaken ==
    ASSUME TypeOK, Control, PlanInv, NEW w \in Worker, RecordExit(w)
    PROVE  LET t == trades[sig[w]]
               after == ApplyExit(t, Current(w))
           IN  /\ sig[w] \in Signal /\ IsOpen(t) /\ HasRow(t) /\ t \in Trade
               /\ todo[w] \in PlanShapes(t) /\ todo[w] # <<>>
               /\ trades' = [trades EXCEPT ![sig[w]] = after]
               /\ Current(w).qty \in 0..t.remaining
               /\ after.remaining = t.remaining - Current(w).qty
               /\ Whole(after) /\ HasRow(after)
               /\ t.tp1Hit => after.tp1Hit
               /\ IF Current(w).kind = "TP1" THEN after.tp1Hit ELSE ~IsOpen(after)
               /\ Tail(todo[w]) # <<>> => IsOpen(after) /\ Tail(todo[w]) \in PlanShapes(after)
<1> DEFINE t == trades[sig[w]]
<1>1. RoutesExit(w) /\ pc[w] = "ledger"
  BY DEF RecordExit, RoutesExit, Routing
<1>2. /\ sig[w] \in Signal /\ t \in Trade /\ IsOpen(t) /\ HasRow(t)
      /\ todo[w] \in PlanShapes(t) /\ todo[w] # <<>>
      /\ ~Taken(Id(w)) /\ Id(w)[2] # "ENTRY"
  BY <1>1, NotTakenYet
<1>3. Id(w) \notin events /\ Whole(t)
  BY <1>2 DEF PlanInv
<1>4. trade[w] = t
  BY <1>1 DEF Control, RequestOk, ExitOk
<1>5. trades' = [trades EXCEPT ![sig[w]] = ApplyExit(t, Current(w))]
  BY <1>3, <1>4 DEF RecordExit
<1>6. Current(w) = Head(todo[w])
  BY DEF Current
<1> HIDE DEF t
<1>7. /\ Current(w).qty \in 0..t.remaining
      /\ ApplyExit(t, Current(w)).remaining = t.remaining - Current(w).qty
      /\ Whole(ApplyExit(t, Current(w)))
      /\ ApplyExit(t, Current(w)).size = t.size
      /\ t.tp1Hit => ApplyExit(t, Current(w)).tp1Hit
      /\ IF Current(w).kind = "TP1" THEN ApplyExit(t, Current(w)).tp1Hit
                                    ELSE ~IsOpen(ApplyExit(t, Current(w)))
      /\ Tail(todo[w]) # <<>> =>
            /\ IsOpen(ApplyExit(t, Current(w)))
            /\ Tail(todo[w]) \in PlanShapes(ApplyExit(t, Current(w)))
  BY <1>2, <1>3, <1>6, PlanSells
<1>8. HasRow(ApplyExit(t, Current(w)))
  BY <1>2, <1>7 DEF HasRow
<1> QED  BY <1>2, <1>5, <1>7, <1>8 DEF t
\* What is left of a longer list is not empty.
LEMMA TailOfMore ==
    ASSUME NEW S, NEW q \in Seq(S), Len(q) > 1
    PROVE  Tail(q) # <<>>
<1>1. q # <<>>
  OBVIOUS
<1>2. Len(Tail(q)) = Len(q) - 1
  BY <1>1, HeadTailProperties
<1>3. Len(q) \in Nat
  OBVIOUS
<1>4. Len(Tail(q)) > 0
  BY <1>2, <1>3
<1>5. Len(<<>>) = 0 /\ ~(0 > 0)
  BY EmptySeq
<1> QED  BY <1>4, <1>5, Zenon

\* The fills of the others stay underway.
Keeps(v) == /\ pc'[v] \in {"submit", "order", "ledger"}
            /\ todo'[v] = todo[v] /\ sig'[v] = sig[v]

LEMMA WhoFinishes ==
    ASSUME TypeOK, PlanInv, [Next]_vars, faults' = 0, faults = 0, NEW v \in Worker
    PROVE  /\ pc'[v] \notin {"unknown", "halt"}
           /\ pc[v] \in {"submit", "order", "ledger"} => Keeps(v) \/ RecordTrade(v) \/ RecordExit(v)
<1> USE DEF TypeOK, Goto, EndRequest, Keeps, PlanInv
<1>1. ASSUME NEW w \in Worker, Request(w) \/ EntryStep(w)
      PROVE  /\ pc'[v] \notin {"unknown", "halt"}
             /\ pc[v] \in {"submit", "order", "ledger"} => Keeps(v)
  BY <1>1 DEF Request, RequestEntry, BeginExits, ReadExits, ReadPortfolio, EntryStep,
              LockEntry, CheckInstrument, ApproveEntry, Approves, RejectEntry
<1>2. ASSUME NEW w \in Worker, RouteStep(w)
      PROVE  /\ pc'[v] \notin {"unknown", "halt"}
             /\ pc[v] \in {"submit", "order", "ledger"} => Keeps(v)
  <2>1. pc[w] \notin {"unknown", "halt"}
    OBVIOUS
  <2> QED
    BY <1>2, <2>1 DEF RouteStep, PassHalt, StopAtHalt, RecordIntent, DuplicateEntry,
       DuplicateExit, NextExit, Submit, MarkUnknown, HaltOnUnknown, RecordOrder
<1>3. ASSUME NEW w \in Worker, LedgerStep(w) \/ ReconcileStep(w)
      PROVE  /\ pc'[v] \notin {"unknown", "halt"}
             /\ pc[v] \in {"submit", "order", "ledger"} => Keeps(v) \/ RecordTrade(v) \/ RecordExit(v)
  <2>1. CASE v # w
    BY <1>3, <2>1 DEF LedgerStep, RecordTrade, RecordExit, NextExit, SaveTrade,
       ReconcileStep, CompareFails, CompareSucceeds
  <2>2. CASE v = w
    BY <1>3, <2>2 DEF LedgerStep, RecordTrade, RecordExit, NextExit, SaveTrade,
       ReconcileStep, CompareFails, CompareSucceeds
  <2> QED  BY <2>1, <2>2
<1>4. CASE ManualKill \/ UNCHANGED vars
  BY <1>4 DEF ManualKill, vars, request
<1>5. ~Fault
  BY DEF Fault, Restart, Abort, SubmitFails
<1> QED  BY <1>1, <1>2, <1>3, <1>4, <1>5 DEF Next, Run

\* A trade that shows an exit shows it from then on.
LEMMA TakenStays ==
    ASSUME TypeOK, Control, PlanInv, [Next]_vars, NEW id \in IntentId, Taken(id), id[2] # "ENTRY"
    PROVE  Taken(id)'
<1> DEFINE s == id[1]
<1>1. s \in Signal /\ HasRow(trades[s])
  BY DEF IntentId, Taken
<1>2. CASE trades'[s] = trades[s]
  BY <1>2 DEF Taken
<1>3. ASSUME NEW w \in Worker, RecordTrade(w)
      PROVE  trades'[s] = trades[s]
  <2>1. ~HasRow(trades[sig[w]])
    BY <1>3 DEF RecordTrade, Control, RequestOk, EntryOk
  <2> QED  BY <1>1, <1>3, <2>1 DEF RecordTrade, TypeOK
<1>4. ASSUME NEW w \in Worker, SaveTrade(w)
      PROVE  trades'[s] = trades[s]
  <2>1. trade[w] = trades[sig[w]]
    BY <1>4 DEF SaveTrade, Control, RequestOk, ExitOk
  <2> QED  BY <1>1, <1>4, <2>1 DEF SaveTrade, TypeOK
<1>5. ASSUME NEW w \in Worker, RecordExit(w), sig[w] = s
      PROVE  Taken(id)'
  <2> DEFINE after == ApplyExit(trades[s], Current(w))
  <2>1. /\ trades'[s] = after /\ HasRow(after) /\ IsOpen(trades[s])
        /\ trades[s].tp1Hit => after.tp1Hit
    BY <1>1, <1>5, ExitIsTaken DEF TypeOK
  <2> HIDE DEF after
  <2> QED  BY <2>1 DEF Taken
<1>6. ASSUME NEW w \in Worker, RecordExit(w), sig[w] # s
      PROVE  trades'[s] = trades[s]
  BY <1>1, <1>6, ExitIsTaken DEF TypeOK
<1> QED  BY <1>1, <1>2, <1>3, <1>4, <1>5, <1>6, WhoWritesTrades

\* What a request has recorded, its trade shows.
LEMMA RecordedIsTaken ==
    ASSUME TypeOK, Control, PlanInv, NEW w \in Worker, RecordExit(w)
    PROVE  \A id : id = Id(w) => Taken(id)'
<1>1. /\ sig[w] \in Signal
      /\ trades'[sig[w]] = ApplyExit(trades[sig[w]], Current(w))
      /\ HasRow(trades'[sig[w]])
      /\ IF Current(w).kind = "TP1" THEN trades'[sig[w]].tp1Hit ELSE ~IsOpen(trades'[sig[w]])
  BY ExitIsTaken DEF TypeOK
<1>2. Id(w)[1] = sig[w] /\ Id(w)[2] = Current(w).kind
  BY DEF Id
<1>3. \A id : id[1] = sig[w] /\ id[2] = Current(w).kind => Taken(id)'
  BY <1>1 DEF Taken
<1> QED  BY <1>2, <1>3
\* While nothing fails, a step keeps every request on a plan of its trade.
LEMMA NextPlanInv ==
    ASSUME TypeOK, Control, PlanInv, [Next]_vars, faults' = 0, faults = 0
    PROVE  PlanInv'
<1>1. ASSUME NEW s \in Signal
      PROVE  Whole(trades'[s])
  <2>1. Whole(trades[s])
    BY DEF PlanInv
  <2>2. ASSUME NEW w \in Worker, RecordTrade(w)
        PROVE  Whole(trades'[s])
    <3>1. Whole(NewTrade(Current(w).qty))
      BY DEF Whole, NewTrade
    <3> QED  BY <2>1, <2>2, <3>1 DEF RecordTrade, TypeOK
  <2>3. ASSUME NEW w \in Worker, SaveTrade(w)
        PROVE  Whole(trades'[s])
    <3>1. trade[w] = trades[sig[w]]
      BY <2>3 DEF SaveTrade, Control, RequestOk, ExitOk
    <3> QED  BY <2>1, <2>3, <3>1 DEF SaveTrade, TypeOK
  <2>4. ASSUME NEW w \in Worker, RecordExit(w)
        PROVE  Whole(trades'[s])
    BY <2>1, <2>4, ExitIsTaken DEF TypeOK
  <2> QED  BY <2>1, <2>2, <2>3, <2>4, WhoWritesTrades
<1>2. ASSUME NEW v \in Worker, RoutesExit(v)'
      PROVE  IsOpen(trades'[sig'[v]]) /\ todo'[v] \in PlanShapes(trades'[sig'[v]])
  <2>1. ~ApproveEntry(v) /\ ~DuplicateExit(v)
    BY <1>2, NoDuplicateExit DEF ApproveEntry, RoutesExit, IsEntry, Current, Order, TypeOK
  <2>2. CASE \E s \in Signal : BeginExits(v, s)
    <3>1. PICK s \in Signal : BeginExits(v, s)
      BY <2>2
    <3>2. PICK plan \in PlanShapes(trades[s]) : todo' = [todo EXCEPT ![v] = plan]
      BY <3>1 DEF BeginExits, ReadExits
    <3> QED  BY <3>1, <3>2 DEF BeginExits, ReadExits, store, TypeOK
  <2>3. CASE RecordExit(v)
    <3>1. /\ sig[v] \in Signal
          /\ trades' = [trades EXCEPT ![sig[v]] = ApplyExit(trades[sig[v]], Current(v))]
          /\ Tail(todo[v]) # <<>> =>
                /\ IsOpen(ApplyExit(trades[sig[v]], Current(v)))
                /\ Tail(todo[v]) \in PlanShapes(ApplyExit(trades[sig[v]], Current(v)))
      BY <2>3, ExitIsTaken
    <3>2. todo[v] \in Seq(OrderType) /\ todo[v] # <<>>
      BY <2>3, CurrentOrder DEF RecordExit, Routing, TypeOK
    <3>3. todo'[v] = Tail(todo[v]) /\ sig'[v] = sig[v] /\ Len(todo[v]) > 1
      BY <1>2, <2>3 DEF RecordExit, NextExit, Goto, TypeOK, RoutesExit, Routing
    <3>4. Tail(todo[v]) # <<>>
      BY <3>2, <3>3, TailOfMore
    <3>5. trades'[sig[v]] = ApplyExit(trades[sig[v]], Current(v))
      BY <3>1 DEF TypeOK
    <3> QED  BY <3>1, <3>3, <3>4, <3>5
  <2>4. CASE SameRequest(v) /\ ~RecordExit(v)
    <3>1. RoutesExit(v)
      BY <1>2, <2>4 DEF SameRequest, RoutesExit, IsEntry, Current
    <3>2. /\ sig[v] \in Signal /\ HasRow(trades[sig[v]]) /\ IsOpen(trades[sig[v]])
          /\ todo[v] \in PlanShapes(trades[sig[v]])
      BY <3>1, NotTakenYet
    <3>3. ASSUME NEW w \in Worker, RecordTrade(w)
          PROVE  trades'[sig[v]] = trades[sig[v]]
      <4>1. ~HasRow(trades[sig[w]])
        BY <3>3 DEF RecordTrade, Control, RequestOk, EntryOk
      <4> QED  BY <3>2, <3>3, <4>1 DEF RecordTrade, TypeOK
    <3>4. ASSUME NEW w \in Worker, SaveTrade(w)
          PROVE  trades'[sig[v]] = trades[sig[v]]
      <4>1. trade[w] = trades[sig[w]]
        BY <3>4 DEF SaveTrade, Control, RequestOk, ExitOk
      <4> QED  BY <3>2, <3>4, <4>1 DEF SaveTrade, TypeOK
    <3>5. \A w \in Worker : ~RecordExit(w)
      BY <2>4, <3>1 DEF RecordExit, RoutesExit, Routing, Control, RequestOk, LockOk
    <3>6. trades'[sig[v]] = trades[sig[v]]
      BY <3>3, <3>4, <3>5, WhoWritesTrades
    <3> QED  BY <2>4, <3>2, <3>6 DEF SameRequest
  <2> QED  BY <1>2, <2>1, <2>2, <2>3, <2>4, HowOrdersAreRouted DEF RoutesExit
<1>3. ASSUME NEW id \in intents', id[2] # "ENTRY"
      PROVE  Underway(id)' \/ Taken(id)'
  <2>1. CASE id \in intents /\ Taken(id)
    BY <1>3, <2>1, TakenStays DEF TypeOK
  <2>2. ASSUME NEW v \in Worker, pc[v] \in {"submit", "order", "ledger"}, Id(v) = id
        PROVE  Underway(id)' \/ Taken(id)'
    <3>1. CASE Keeps(v)
      <4>1. Id(v)' = id /\ pc'[v] \in {"submit", "order", "ledger"}
        BY <2>2, <3>1 DEF Keeps, Id, Current
      <4> QED  BY <4>1 DEF Underway
    <3>2. ~RecordTrade(v)
      BY <1>3, <2>2 DEF RecordTrade, IsEntry, Id
    <3>3. CASE RecordExit(v)
      BY <2>2, <3>3, RecordedIsTaken
    <3> QED  BY <2>2, <3>1, <3>2, <3>3, WhoFinishes
  <2>3. ASSUME NEW w \in Worker, RecordIntent(w), id = Id(w)
        PROVE  Underway(id)'
    <3>1. Id(w)' = id /\ pc'[w] = "submit"
      BY <2>3 DEF RecordIntent, Goto, Id, Current, TypeOK
    <3> QED  BY <3>1 DEF Underway
  <2>4. id \in intents \/ \E w \in Worker : RecordIntent(w) /\ id = Id(w)
    BY <1>3 DEF Next, Request, Run, EntryStep, RouteStep, LedgerStep, ReconcileStep, Fault,
       vars, store,
       RequestEntry, BeginExits, ReadExits, ReadPortfolio, LockEntry, CheckInstrument,
       ApproveEntry, Approves, RejectEntry, PassHalt, StopAtHalt, RecordIntent, DuplicateEntry,
       DuplicateExit, Submit, SubmitFails, MarkUnknown, HaltOnUnknown, RecordOrder,
       RecordTrade, RecordExit, SaveTrade,
       CompareFails, CompareSucceeds, ManualKill, Abort, Restart
  <2> QED  BY <1>3, <2>1, <2>2, <2>3, <2>4 DEF PlanInv, Underway
<1>4. ASSUME NEW id \in events', id[2] # "ENTRY"
      PROVE  Taken(id)'
  <2>1. CASE id \in events
    BY <1>4, <2>1, TakenStays DEF PlanInv, TypeOK
  <2>2. ASSUME NEW w \in Worker, RecordTrade(w), id = Id(w)
        PROVE  FALSE
    BY <1>4, <2>2 DEF RecordTrade, IsEntry, Id
  <2>3. ASSUME NEW w \in Worker, RecordExit(w), id = Id(w)
        PROVE  Taken(id)'
    BY <2>3, RecordedIsTaken
  <2>4. \/ id \in events
        \/ \E w \in Worker : (RecordTrade(w) \/ RecordExit(w)) /\ id = Id(w)
    BY <1>4 DEF Next, Request, Run, EntryStep, RouteStep, LedgerStep, ReconcileStep, Fault,
       vars, store,
       RequestEntry, BeginExits, ReadExits, ReadPortfolio, LockEntry, CheckInstrument,
       ApproveEntry, Approves, RejectEntry, PassHalt, StopAtHalt, RecordIntent, DuplicateEntry,
       DuplicateExit, Submit, SubmitFails, MarkUnknown, HaltOnUnknown, RecordOrder,
       RecordTrade, RecordExit, SaveTrade,
       CompareFails, CompareSucceeds, ManualKill, Abort, Restart
  <2> QED  BY <2>1, <2>2, <2>3, <2>4
<1>5. \A v \in Worker : pc'[v] \notin {"unknown", "halt"}
  BY WhoFinishes
<1> QED  BY <1>1, <1>2, <1>3, <1>4, <1>5 DEF PlanInv, PlanOk
-----------------------------------------------------------------------------
(* The portfolio and the ledger, while nothing fails.                      *)

\* The instrument's positions in the ledger, and its fills in flight, as sums over
\* all signals and all threads.
Owned(b, i) ==
    [s \in Signal |-> IF InstrumentOf[s] = i THEN Signed(s, b[s].remaining) ELSE 0]
Moves(w, i) == pc[w] \in {"order", "ledger"} /\ InstrumentOf[sig[w]] = i
Moving(i) == [w \in Worker |-> IF Moves(w, i) THEN Delta(w) ELSE 0]

LEMMA OwnedIsTotal ==
    ASSUME NEW b \in [Signal -> Trade], NEW i
    PROVE  /\ Ints(Owned(b, i), Signal)
           /\ SumOn([s \in Signal |-> Signed(s, b[s].remaining)],
                    {s \in {s \in Signal : IsOpen(b[s])} : InstrumentOf[s] = i})
                = SumOn(Owned(b, i), Signal)
<1> DEFINE T == {s \in {s \in Signal : IsOpen(b[s])} : InstrumentOf[s] = i}
           f == [s \in Signal |-> Signed(s, b[s].remaining)]
           e == Owned(b, i)
<1>1. \A s \in Signal : b[s].remaining \in Nat
  BY DEF Trade
<1>2. T \in SUBSET Signal /\ Ints(f, T)
  BY <1>1 DEF Ints, Signed
<1>3. \A s \in Signal : e[s] = IF s \in T THEN f[s] ELSE 0
  BY <1>1 DEF Owned, Signed, IsOpen
<1> HIDE DEF T, f, e
<1>4. Ints(e, Signal) /\ SumOn(f, T) = SumOn(e, Signal)
  BY <1>2, <1>3, SumOverAll, SignalAssumption
<1> QED  BY <1>4 DEF T, f, e

LEMMA LedgerThen ==
    ASSUME TypeOK, TypeOK', NEW i
    PROVE  /\ LedgerQty(i) = SumOn(Owned(trades, i), Signal)
           /\ LedgerQty(i)' = SumOn(Owned(trades', i), Signal)
           /\ Ints(Owned(trades, i), Signal) /\ Ints(Owned(trades', i), Signal)
<1>1. trades \in [Signal -> Trade] /\ trades' \in [Signal -> Trade]
  BY DEF TypeOK
<1>2. LedgerQty(i) = SumOn([s \in Signal |-> Signed(s, trades[s].remaining)],
                           {s \in {s \in Signal : IsOpen(trades[s])} : InstrumentOf[s] = i})
  BY DEF LedgerQty, OpenOn, OpenTrades, SumOn
<1>3. LedgerQty(i)' = SumOn([s \in Signal |-> Signed(s, trades'[s].remaining)],
                            {s \in {s \in Signal : IsOpen(trades'[s])} : InstrumentOf[s] = i})
  BY DEF LedgerQty, OpenOn, OpenTrades, SumOn, Signed
<1> QED  BY <1>1, <1>2, <1>3, OwnedIsTotal

LEMMA HeadOrder ==
    ASSUME NEW q \in Seq(OrderType), q # <<>>
    PROVE  Head(q) \in OrderType
BY HeadTailProperties

LEMMA InFlightThen ==
    ASSUME TypeOK, TypeOK', Control, Control', NEW i
    PROVE  /\ InFlight(i) = SumOn(Moving(i), Worker)
           /\ InFlight(i)' = SumOn(Moving(i)', Worker)
           /\ Ints(Moving(i), Worker) /\ Ints(Moving(i)', Worker)
<1>1. ASSUME NEW w \in Worker, Moves(w, i)
      PROVE  Delta(w) \in Int
  <2>1. Current(w) \in OrderType
    BY <1>1, CurrentOrder DEF Moves, Routing
  <2> QED  BY <2>1 DEF Delta, Signed, OrderType
<1>2. ASSUME NEW w \in Worker, Moves(w, i)'
      PROVE  Delta(w)' \in Int
  <2>1. todo'[w] # <<>> /\ todo'[w] \in Seq(OrderType)
    BY <1>2 DEF Moves, Routing, Control, RequestOk, TodoOk, TypeOK
  <2>2. Head(todo'[w]) \in OrderType
    BY <2>1, HeadOrder
  <2> QED  BY <2>2 DEF Delta, Signed, OrderType, Current, IsEntry
<1>3. InFlight(i) = SumOn(Moving(i), Worker) /\ Ints(Moving(i), Worker)
  <2> DEFINE T == {w \in Worker : Moves(w, i)}
             f == [w \in Worker |-> Delta(w)]
             e == Moving(i)
  <2>1. T \in SUBSET Worker /\ Ints(f, T) /\ \A w \in Worker : e[w] = IF w \in T THEN f[w] ELSE 0
    BY <1>1 DEF Ints, Moving
  <2>2. InFlight(i) = SumOn(f, T)
    BY DEF InFlight, Moves, SumOn
  <2> HIDE DEF T, f, e
  <2>3. Ints(e, Worker) /\ SumOn(f, T) = SumOn(e, Worker)
    BY <2>1, SumOverAll, SignalAssumption
  <2> QED  BY <2>2, <2>3 DEF e
<1>4. InFlight(i)' = SumOn(Moving(i)', Worker) /\ Ints(Moving(i)', Worker)
  <2> DEFINE T == {w \in Worker : Moves(w, i)'}
             f == [w \in Worker |-> Delta(w)']
             e == Moving(i)'
  <2>1. T \in SUBSET Worker /\ Ints(f, T) /\ \A w \in Worker : e[w] = IF w \in T THEN f[w] ELSE 0
    BY <1>2 DEF Ints, Moving
  <2>2. InFlight(i)' = SumOn(f, T)
    BY DEF InFlight, Moves, SumOn
  <2> HIDE DEF T, f, e
  <2>3. Ints(e, Worker) /\ SumOn(f, T) = SumOn(e, Worker)
    BY <2>1, SumOverAll, SignalAssumption
  <2> QED  BY <2>2, <2>3 DEF e
<1> QED  BY <1>3, <1>4
\* A step of w moves w's part of the fills in flight, and s's part of the ledger.
LEMMA InFlightChanges ==
    ASSUME TypeOK, TypeOK', Control, Control', NEW i, NEW w \in Worker,
           \A v \in Worker \ {w} : pc'[v] = pc[v] /\ sig'[v] = sig[v] /\ todo'[v] = todo[v]
    PROVE  /\ InFlight(i)' = InFlight(i) - Moving(i)[w] + Moving(i)'[w]
           /\ InFlight(i) \in Int /\ Moving(i)[w] \in Int /\ Moving(i)'[w] \in Int
<1> DEFINE f == Moving(i)
           e == Moving(i)'
<1>1. \A v \in Worker \ {w} : f[v] = e[v]
  BY DEF Moving, Moves, Delta, IsEntry, Current
<1>2. Ints(f, Worker) /\ Ints(e, Worker)
  BY InFlightThen
<1>3. InFlight(i) = SumOn(f, Worker) /\ InFlight(i)' = SumOn(e, Worker)
  BY InFlightThen
<1> HIDE DEF f, e
<1>4. SumOn(e, Worker) = SumOn(f, Worker) - f[w] + e[w]
  BY <1>1, <1>2, SumChanges, SignalAssumption
<1>5. SumOn(f, Worker) \in Int /\ f[w] \in Int /\ e[w] \in Int
  BY <1>2, SumIsInteger, SignalAssumption DEF Ints
<1> QED  BY <1>3, <1>4, <1>5 DEF f, e

LEMMA LedgerChanges ==
    ASSUME TypeOK, TypeOK', NEW i, NEW s \in Signal,
           \A r \in Signal \ {s} : trades'[r] = trades[r]
    PROVE  /\ LedgerQty(i)' = LedgerQty(i) - Owned(trades, i)[s] + Owned(trades', i)[s]
           /\ LedgerQty(i) \in Int
<1> DEFINE f == Owned(trades, i)
           e == Owned(trades', i)
<1>1. \A r \in Signal \ {s} : f[r] = e[r]
  BY DEF Owned
<1>2. Ints(f, Signal) /\ Ints(e, Signal)
  BY LedgerThen
<1>3. LedgerQty(i) = SumOn(f, Signal) /\ LedgerQty(i)' = SumOn(e, Signal)
  BY LedgerThen
<1> HIDE DEF f, e
<1>4. SumOn(e, Signal) = SumOn(f, Signal) - f[s] + e[s]
  BY <1>1, <1>2, SumChanges, SignalAssumption
<1>5. SumOn(f, Signal) \in Int
  BY <1>2, SumIsInteger, SignalAssumption
<1> QED  BY <1>3, <1>4, <1>5 DEF f, e

\* The other steps leave all three alone.
Still(w) ==
    /\ UNCHANGED <<position, trades>>
    /\ \A v \in Worker \ {w} : pc'[v] = pc[v] /\ sig'[v] = sig[v] /\ todo'[v] = todo[v]
    /\ \/ pc[w] \notin {"order", "ledger"} /\ pc'[w] \notin {"order", "ledger"}
       \/ /\ pc[w] \in {"order", "ledger"} /\ pc'[w] \in {"order", "ledger"}
          /\ sig'[w] = sig[w] /\ todo'[w] = todo[w]

LEMMA OthersStandStill ==
    ASSUME TypeOK, Control, PlanInv, NEW w \in Worker, Request(w) \/ Run(w)
    PROVE  Still(w) \/ Submit(w) \/ RecordTrade(w) \/ RecordExit(w)
<1> USE DEF TypeOK, Goto, EndRequest, Still, store, memory
<1>1. ASSUME Request(w) \/ EntryStep(w)
      PROVE  Still(w)
  BY <1>1 DEF Request, RequestEntry, BeginExits, ReadExits, ReadPortfolio, EntryStep,
              LockEntry, CheckInstrument, ApproveEntry, Approves, RejectEntry
<1>2. ASSUME RouteStep(w)
      PROVE  Still(w) \/ Submit(w)
  <2>1. ~MarkUnknown(w) /\ ~HaltOnUnknown(w)
    BY DEF PlanInv, MarkUnknown, HaltOnUnknown
  <2> QED
    BY <1>2, <2>1 DEF RouteStep, PassHalt, StopAtHalt, RecordIntent, DuplicateEntry,
       DuplicateExit, NextExit, RecordOrder
<1>3. ASSUME LedgerStep(w)
      PROVE  Still(w) \/ RecordTrade(w) \/ RecordExit(w)
  <2>1. ASSUME SaveTrade(w)
        PROVE  Still(w)
    <3>1. trade[w] = trades[sig[w]]
      BY <2>1 DEF SaveTrade, Control, RequestOk, ExitOk
    <3>2. UNCHANGED trades
      BY <2>1, <3>1 DEF SaveTrade
    <3> QED  BY <2>1, <3>2 DEF SaveTrade
  <2> QED  BY <1>3, <2>1 DEF LedgerStep
<1>4. ASSUME ReconcileStep(w)
      PROVE  Still(w)
  BY <1>4 DEF ReconcileStep, CompareFails, CompareSucceeds
<1> QED  BY <1>1, <1>2, <1>3, <1>4 DEF Run

Balanced(i) == position[i] = LedgerQty(i) + InFlight(i)

\* While nothing fails, a step changes portfolio and ledger by the same amounts.
LEMMA NextBalanced ==
    ASSUME TypeOK, TypeOK', Control, Control', PlanInv, [Next]_vars, faults' = 0, faults = 0,
           NEW i \in Instrument, Balanced(i)
    PROVE  Balanced(i)'
<1>1. /\ InFlight(i) \in Int /\ LedgerQty(i) \in Int /\ position[i] \in Int
  <2>1. Ints(Moving(i), Worker) /\ InFlight(i) = SumOn(Moving(i), Worker)
    BY InFlightThen
  <2>2. Ints(Owned(trades, i), Signal) /\ LedgerQty(i) = SumOn(Owned(trades, i), Signal)
    BY LedgerThen
  <2> QED  BY <2>1, <2>2, SumIsInteger, SignalAssumption DEF TypeOK
<1>2. ASSUME UNCHANGED trades
      PROVE  LedgerQty(i)' = LedgerQty(i)
  BY <1>2 DEF LedgerQty, OpenOn, OpenTrades
<1>3. ASSUME NEW w \in Worker, Still(w)
      PROVE  Balanced(i)'
  <2>1. Moving(i)'[w] = Moving(i)[w]
    BY <1>3 DEF Still, Moving, Moves, Delta, IsEntry, Current
  <2>2. InFlight(i)' = InFlight(i) - Moving(i)[w] + Moving(i)'[w] /\ Moving(i)[w] \in Int
    BY <1>3, InFlightChanges DEF Still
  <2>3. InFlight(i)' = InFlight(i)
    BY <1>1, <2>1, <2>2
  <2> QED  BY <1>2, <1>3, <2>3 DEF Still, Balanced
<1>4. ASSUME NEW w \in Worker, Submit(w)
      PROVE  Balanced(i)'
  <2>1. /\ pc[w] = "submit" /\ pc'[w] = "order" /\ UNCHANGED <<trades, sig, todo>>
        /\ \A v \in Worker \ {w} : pc'[v] = pc[v]
        /\ position' = Filled(w) /\ sig[w] \in Signal
    BY <1>4, CurrentOrder DEF Submit, Goto, TypeOK, Routing
  <2>2. Moving(i)[w] = 0 /\ Moving(i)'[w] = IF InstrumentOf[sig[w]] = i THEN Delta(w) ELSE 0
    BY <2>1 DEF Moving, Moves, Delta, IsEntry, Current
  <2>3. position'[i] = position[i] + Moving(i)'[w]
    BY <1>1, <2>1, <2>2, SignalAssumption DEF Filled, TypeOK
  <2>4. InFlight(i)' = InFlight(i) - Moving(i)[w] + Moving(i)'[w] /\ Moving(i)'[w] \in Int
    BY <2>1, InFlightChanges
  <2> QED  BY <1>1, <1>2, <2>1, <2>2, <2>3, <2>4 DEF Balanced
<1>5. ASSUME NEW w \in Worker, RecordTrade(w)
      PROVE  Balanced(i)'
  <2>1. /\ pc[w] = "ledger" /\ pc'[w] = "idle" /\ UNCHANGED position /\ IsEntry(w)
        /\ \A v \in Worker \ {w} : pc'[v] = pc[v] /\ sig'[v] = sig[v] /\ todo'[v] = todo[v]
        /\ trades' = [trades EXCEPT ![sig[w]] = NewTrade(Current(w).qty)]
        /\ sig[w] \in Signal /\ Current(w).qty \in Nat /\ ~HasRow(trades[sig[w]])
    BY <1>5, CurrentOrder
       DEF RecordTrade, EndRequest, Goto, TypeOK, Routing, memory, OrderType,
           Control, RequestOk, EntryOk
  <2>2. /\ Moving(i)'[w] = 0
        /\ Moving(i)[w] = IF InstrumentOf[sig[w]] = i THEN Signed(sig[w], Current(w).qty) ELSE 0
    BY <2>1 DEF Moving, Moves, Delta
  <2>3. trades[sig[w]].remaining = 0 /\ trades'[sig[w]].remaining = Current(w).qty
    BY <2>1 DEF HasRow, TypeOK, Trade, NewTrade
  <2>4. Owned(trades, i)[sig[w]] = 0 /\ Owned(trades', i)[sig[w]] = Moving(i)[w]
    BY <2>1, <2>2, <2>3 DEF Owned, Signed
  <2>5. /\ InFlight(i)' = InFlight(i) - Moving(i)[w] + Moving(i)'[w]
        /\ Moving(i)[w] \in Int
    BY <2>1, InFlightChanges
  <2>6. LedgerQty(i)' = LedgerQty(i) - Owned(trades, i)[sig[w]] + Owned(trades', i)[sig[w]]
    BY <2>1, LedgerChanges DEF TypeOK
  <2> QED  BY <1>1, <2>1, <2>2, <2>4, <2>5, <2>6 DEF Balanced
<1>6. ASSUME NEW w \in Worker, RecordExit(w)
      PROVE  Balanced(i)'
  <2> DEFINE t == trades[sig[w]]
  <2>1. /\ pc[w] = "ledger" /\ pc'[w] \in {"route", "save"} /\ UNCHANGED position /\ ~IsEntry(w)
        /\ \A v \in Worker \ {w} : pc'[v] = pc[v] /\ sig'[v] = sig[v] /\ todo'[v] = todo[v]
    BY <1>6 DEF RecordExit, NextExit, Goto, TypeOK, memory
  <2>2. /\ sig[w] \in Signal /\ t.remaining \in Nat /\ Current(w).qty \in 0..t.remaining
        /\ trades' = [trades EXCEPT ![sig[w]] = ApplyExit(t, Current(w))]
        /\ ApplyExit(t, Current(w)).remaining = t.remaining - Current(w).qty
    BY <1>6, ExitIsTaken DEF Trade
  <2>3. trades'[sig[w]].remaining = t.remaining - Current(w).qty
    BY <2>2 DEF TypeOK
  <2>4. /\ Moving(i)'[w] = 0
        /\ Moving(i)[w] = IF InstrumentOf[sig[w]] = i THEN -Signed(sig[w], Current(w).qty) ELSE 0
    BY <2>1 DEF Moving, Moves, Delta
  <2>5. /\ Owned(trades, i)[sig[w]] \in Int
        /\ Owned(trades', i)[sig[w]] = Owned(trades, i)[sig[w]] + Moving(i)[w]
    BY <2>2, <2>3, <2>4 DEF Owned, Signed
  <2>6. /\ InFlight(i)' = InFlight(i) - Moving(i)[w] + Moving(i)'[w]
        /\ Moving(i)[w] \in Int
    BY <2>1, InFlightChanges
  <2>7. LedgerQty(i)' = LedgerQty(i) - Owned(trades, i)[sig[w]] + Owned(trades', i)[sig[w]]
    BY <2>2, LedgerChanges DEF TypeOK
  <2> QED  BY <1>1, <2>1, <2>4, <2>5, <2>6, <2>7 DEF Balanced
<1>7. CASE ManualKill \/ UNCHANGED vars
  <2>1. UNCHANGED <<position, trades, pc, sig, todo>>
    BY <1>7 DEF ManualKill, vars, memory, store, request
  <2>2. InFlight(i)' = InFlight(i)
    BY <2>1 DEF InFlight, Delta, IsEntry, Current
  <2> QED  BY <1>2, <2>1, <2>2 DEF Balanced
<1>8. ~Fault
  BY DEF Fault, Restart, Abort, SubmitFails
<1> QED  BY <1>3, <1>4, <1>5, <1>6, <1>7, <1>8, OthersStandStill DEF Next
-----------------------------------------------------------------------------
(* An exit that fills, while nothing fails.                                *)

\* No other fill is in flight on the instrument, so that the portfolio has there
\* what remains of the trade.
LEMMA PositionIsTheTrade ==
    ASSUME IInv, IInv', PlanInv, NEW w \in Worker, pc[w] = "submit", ~IsEntry(w),
           Balanced(InstrumentOf[sig[w]])
    PROVE  position[InstrumentOf[sig[w]]] = Signed(sig[w], trades[sig[w]].remaining)
<1> DEFINE s == sig[w]
           i == InstrumentOf[sig[w]]
           f == Moving(i)
           e == Owned(trades, i)
<1>1. TypeOK /\ TypeOK' /\ Control /\ Control' /\ RoutesExit(w)
  BY DEF IInv, RoutesExit, Routing
<1>2. s \in Signal /\ IsOpen(trades[s]) /\ lifecycleLock = w
  BY <1>1, NotTakenYet DEF Control, RequestOk, LockOk
<1>3. ASSUME NEW v \in Worker
      PROVE  ~Moves(v, i)
  <2> SUFFICES ASSUME Moves(v, i) PROVE FALSE
    OBVIOUS
  <2>1. pc[v] \in {"order", "ledger"} /\ InstrumentOf[sig[v]] = i
    BY DEF Moves
  <2>2. CASE IsEntry(v)
    <3>1. OpenOn(InstrumentOf[sig[v]]) = {}
      BY <1>1, <2>1, <2>2 DEF Control, RequestOk, EntryOk, RoutesEntry, Routing
    <3>2. s \in OpenOn(i)
      BY <1>2 DEF OpenOn, OpenTrades
    <3> QED  BY <2>1, <3>1, <3>2
  <2>3. CASE ~IsEntry(v)
    <3>1. lifecycleLock = v
      BY <1>1, <2>1, <2>3 DEF Control, RequestOk, LockOk, RoutesExit, Routing
    <3> QED  BY <1>2, <2>1, <3>1
  <2> QED  BY <2>2, <2>3
<1>4. InFlight(i) = 0
  <2>1. \A v \in Worker : f[v] = 0
    BY <1>3 DEF Moving
  <2>2. InFlight(i) = SumOn(f, Worker)
    BY <1>1, InFlightThen
  <2> HIDE DEF f
  <2> QED  BY <2>1, <2>2, SumOfZeros, SignalAssumption
<1>5. LedgerQty(i) = Signed(s, trades[s].remaining)
  <2>1. \A r \in Signal : trades[r].remaining \in Nat
    BY <1>1 DEF TypeOK, Trade
  <2>2. \A r \in Signal \ {s} : IsOpen(trades[r]) => InstrumentOf[r] # i
    BY <1>2 DEF IInv, OneOpenTradePerInstrument, OpenTrades
  <2>3. \A r \in Signal \ {s} : e[r] = 0
    BY <2>1, <2>2 DEF Owned, Signed, IsOpen
  <2>4. e[s] = Signed(s, trades[s].remaining) /\ e[s] \in Int
    BY <1>2, <2>1 DEF Owned, Signed
  <2>5. Ints(e, Signal) /\ LedgerQty(i) = SumOn(e, Signal)
    BY <1>1, LedgerThen
  <2> HIDE DEF e
  <2>6. \A r \in Signal \ {s} : e[r] \in Int
    BY <2>3
  <2>7. SumOn(e, Signal) = e[s] + SumOn(e, Signal \ {s})
    BY <1>2, <2>5, SumTakesOut, SignalAssumption
  <2>8. SumOn(e, Signal \ {s}) = 0
    <3>1. IsFiniteSet(Signal \ {s})
      BY SignalAssumption, FS_RemoveElement, FS_Subset
    <3> QED  BY <2>3, <3>1, SumOfZeros
  <2> QED  BY <2>4, <2>5, <2>7, <2>8
<1>6. Signed(s, trades[s].remaining) \in Int
  BY <1>1, <1>2 DEF TypeOK, Trade, Signed
<1> QED  BY <1>4, <1>5, <1>6 DEF Balanced

\* While nothing fails, what an exit submits is no more than its trade holds.
LEMMA NextShrinks ==
    ASSUME IInv, IInv', PlanInv, [Next]_vars, faults' = 0, faults = 0,
           \A i \in Instrument : Balanced(i)
    PROVE  \A i \in Instrument : ExitFilledOn(i) => Shrinks(position[i], position'[i])
<1>1. SUFFICES ASSUME NEW i \in Instrument, NEW w \in Worker,
                      pc[w] = "submit", ~IsEntry(w), submits'[Id(w)] # submits[Id(w)],
                      InstrumentOf[sig[w]] = i
               PROVE  Shrinks(position[i], position'[i])
  BY DEF ExitFilledOn
<1>2. TypeOK /\ Control /\ RoutesExit(w)
  BY <1>1 DEF IInv, RoutesExit, Routing
<1>3. PICK v \in Worker : Submit(v)
  <2>1. submits' # submits
    BY <1>1
  <2>2. ~Fault
    BY DEF Fault, Restart, Abort, SubmitFails
  <2> QED
    BY <2>1, <2>2
    DEF Next, Request, Run, EntryStep, RouteStep, LedgerStep, ReconcileStep, vars, history,
       RequestEntry, BeginExits, ReadExits, ReadPortfolio, LockEntry, CheckInstrument,
       ApproveEntry, Approves, RejectEntry, PassHalt, StopAtHalt, RecordIntent, DuplicateEntry,
       DuplicateExit, MarkUnknown, HaltOnUnknown, RecordOrder,
       RecordTrade, RecordExit, SaveTrade,
       CompareFails, CompareSucceeds, ManualKill
<1>4. v = w
  <2>1. pc[v] = "submit" /\ submits' = [submits EXCEPT ![Id(v)] = @ + 1]
    BY <1>3 DEF Submit
  <2>2. Id(v) = Id(w)
    BY <1>1, <1>2, <2>1, CurrentOrder DEF TypeOK, Routing
  <2> QED  BY <1>1, <1>2, <2>1, <2>2, SubmitsAlone
<1> DEFINE s == sig[w]
           r == trades[s].remaining
<1>5. s \in Signal /\ IsOpen(trades[s]) /\ trades[s] \in Trade /\ Whole(trades[s])
      /\ todo[w] \in PlanShapes(trades[s]) /\ todo[w] # <<>>
  BY <1>2, NotTakenYet DEF PlanInv
<1>6. Current(w).qty \in 0..r
  <2>1. Head(todo[w]).qty \in 0..r
    BY <1>5, PlanSells
  <2> QED  BY <2>1 DEF Current
<1>7. position[i] = Signed(s, r)
  BY <1>1, PositionIsTheTrade
<1>8. position'[i] = position[i] - Signed(s, Current(w).qty)
  <2>1. position' = Filled(w)
    BY <1>3, <1>4 DEF Submit
  <2>2. position'[i] = position[i] + Delta(w)
    BY <1>1, <1>2, <2>1 DEF Filled, TypeOK
  <2>3. Delta(w) = -Signed(s, Current(w).qty)
    BY <1>1 DEF Delta
  <2>4. Signed(s, Current(w).qty) \in Int /\ position[i] \in Int
    BY <1>2, <1>6 DEF Signed, TypeOK
  <2> QED  BY <2>2, <2>3, <2>4
<1>9. r \in Nat
  BY <1>5 DEF Trade
<1> QED  BY <1>6, <1>7, <1>8, <1>9 DEF Shrinks, Signed
-----------------------------------------------------------------------------
(* The abstract specification.                                             *)

\* While nothing fails, a step is one of the book or leaves it alone.
LEMMA NextIsBookStep ==
    ASSUME IInv, SizeInv, PlanInv, [Next]_vars, faults' = 0, faults = 0
    PROVE  [Book!Next]_trades
<1>1. TypeOK /\ Control
  BY DEF IInv
<1>2. ASSUME NEW w \in Worker, SaveTrade(w)
      PROVE  UNCHANGED trades
  <2>1. trade[w] = trades[sig[w]]
    BY <1>1, <1>2 DEF SaveTrade, Control, RequestOk, ExitOk
  <2> QED  BY <1>1, <1>2, <2>1 DEF SaveTrade, TypeOK
<1>3. ASSUME NEW w \in Worker, RecordTrade(w)
      PROVE  Book!Next
  <2>1. RoutesEntry(w) /\ pc[w] = "ledger"
    BY <1>3 DEF RecordTrade, RoutesEntry, Routing
  <2>2. /\ sig[w] \in Signal /\ ~HasRow(trades[sig[w]])
        /\ OpenOn(InstrumentOf[sig[w]]) = {} /\ Cardinality(OpenTrades) < MaxOpen
        /\ Current(w).qty \in Nat
    BY <1>1, <2>1, CurrentOrder DEF RoutesEntry, Control, RequestOk, EntryOk, OrderType
  <2>3. Book!Live = OpenTrades
    BY DEF Book!Live, OpenTrades, Book!IsOpen, IsOpen
  <2>5. \A t \in Book!Live : InstrumentOf[t] # InstrumentOf[sig[w]]
    BY <2>2, <2>3 DEF OpenOn
  <2>6. \E size \in Sizes : Current(w).qty \in 1..size
    BY <2>1 DEF SizeInv
  <2>7. trades' = [trades EXCEPT ![sig[w]] = Book!NewTrade(Current(w).qty)]
    BY <1>3 DEF RecordTrade, Book!NewTrade, NewTrade
  <2>8. Book!Cardinality(OpenTrades) = Cardinality(OpenTrades)
    BY DEF Book!Cardinality, Cardinality
  <2>9. Book!Open(sig[w])
    BY <2>2, <2>3, <2>5, <2>6, <2>7, <2>8 DEF Book!Open, Book!HasRow, HasRow
  <2> QED  BY <2>2, <2>9 DEF Book!Next
<1>4. ASSUME NEW w \in Worker, RecordExit(w)
      PROVE  Book!Next
  <2>1. /\ sig[w] \in Signal /\ IsOpen(trades[sig[w]])
        /\ todo[w] \in PlanShapes(trades[sig[w]]) \ {<<>>}
        /\ trades' = [trades EXCEPT ![sig[w]] = ApplyExit(trades[sig[w]], Head(todo[w]))]
    BY <1>1, <1>4, ExitIsTaken DEF Current
  <2>2. /\ Book!IsOpen(trades[sig[w]])
        /\ todo[w] \in Book!PlanShapes(trades[sig[w]]) \ {<<>>}
        /\ trades' = [trades EXCEPT ![sig[w]] = Book!ApplyExit(@, Head(todo[w]))]
    BY <2>1
    DEF Book!IsOpen, IsOpen, Book!PlanShapes, PlanShapes, Book!Order, Order,
        Book!Tp1Part, Tp1Part, Book!Half, Half, Book!ApplyExit, ApplyExit, Book!Less, Less
  <2>3. Book!TakeMilestone(sig[w])
    BY <2>2 DEF Book!TakeMilestone
  <2> QED  BY <2>1, <2>3 DEF Book!Next
<1> QED  BY <1>2, <1>3, <1>4, WhoWritesTrades

-----------------------------------------------------------------------------
(* The theorems.                                                           *)

\* While nothing fails; once something has, faults stays above 0.
QuietInv == faults = 0 => PlanInv /\ \A i \in Instrument : Balanced(i)
SumsInv == IInv /\ CapInv /\ SizeInv /\ QuietInv

\* A state without faults comes from states without faults.
LEMMA NothingFailedBefore ==
    ASSUME TypeOK, [Next]_vars, faults' = 0
    PROVE  faults = 0
<1>1. faults \in Nat
  BY LimitAssumption DEF TypeOK
<1>2. faults' = faults \/ faults' = faults + 1
  BY DEF Next, Request, Run, EntryStep, RouteStep, LedgerStep, ReconcileStep, Fault, vars, history,
       RequestEntry, BeginExits, ReadExits, ReadPortfolio, LockEntry, CheckInstrument,
       ApproveEntry, Approves, RejectEntry, PassHalt, StopAtHalt, RecordIntent, DuplicateEntry,
       DuplicateExit, Submit, SubmitFails, MarkUnknown, HaltOnUnknown, RecordOrder,
       RecordTrade, RecordExit, SaveTrade,
       CompareFails, CompareSucceeds, ManualKill, Abort, Restart
<1> QED  BY <1>1, <1>2

LEMMA InitSums == Init => SumsInv
<1> SUFFICES ASSUME Init PROVE SumsInv
  OBVIOUS
<1>1. IInv
  BY InitIInv
<1>2. OpenTrades = {} /\ \A i : OpenOn(i) = {}
  BY DEF Init, OpenTrades, OpenOn, IsOpen, NoRow
<1>3. \A w \in Worker : pc[w] = "idle"
  BY DEF Init
<1>5. CapInv /\ SizeInv
  BY <1>3 DEF CapInv, RoomOk, SizeInv, RoutesEntry, Routing
<1>6. PlanInv
  BY <1>3 DEF Init, PlanInv, PlanOk, RoutesExit, Routing, Whole, NoRow
<1>7. ASSUME NEW i \in Instrument
      PROVE  Balanced(i)
  <2>1. LedgerQty(i) = 0
    <3>1. LedgerQty(i) = SumOn([s \in Signal |-> Signed(s, trades[s].remaining)], {})
      BY <1>2 DEF LedgerQty, SumOn
    <3> QED  BY <3>1, SumEmpty
  <2>2. InFlight(i) = 0
    <3>1. InFlight(i) = SumOn([w \in Worker |-> Delta(w)], {})
      BY <1>3 DEF InFlight, SumOn
    <3> QED  BY <3>1, SumEmpty
  <2>3. position[i] = 0
    BY DEF Init, Flat
  <2> QED  BY <2>1, <2>2, <2>3 DEF Balanced
<1> QED  BY <1>1, <1>5, <1>6, <1>7 DEF SumsInv, QuietInv

LEMMA NextSums == SumsInv /\ [Next]_vars => SumsInv'
<1> SUFFICES ASSUME SumsInv, [Next]_vars PROVE SumsInv'
  OBVIOUS
<1>1. IInv' /\ IInv
  BY NextIInv DEF SumsInv
<1>2. TypeOK /\ TypeOK' /\ Control /\ Control'
  BY <1>1 DEF IInv
<1>3. CapInv' /\ SizeInv'
  BY <1>2, NextCapInv, NextSizeInv DEF SumsInv
<1>4. ASSUME faults' = 0
      PROVE  PlanInv' /\ \A i \in Instrument : Balanced(i)'
  <2>1. faults = 0
    BY <1>2, <1>4, NothingFailedBefore
  <2>2. PlanInv /\ \A i \in Instrument : Balanced(i)
    BY <2>1 DEF SumsInv, QuietInv
  <2>3. PlanInv'
    BY <1>2, <1>4, <2>1, <2>2, NextPlanInv
  <2>4. \A i \in Instrument : Balanced(i)'
    BY <1>2, <1>4, <2>1, <2>2, NextBalanced
  <2> QED  BY <2>3, <2>4
<1> QED  BY <1>1, <1>3, <1>4 DEF SumsInv, QuietInv

LEMMA SumsAreInductive == Spec => []SumsInv
<1> QED  BY InitSums, NextSums, PTL DEF Spec

\* The room an entry is approved for is its own until it is recorded, whatever
\* aborts, fails or restarts, wherever prices and equity go meanwhile: valued as the
\* approval read them, the live trades and the entry stay under its ceiling, but for
\* the half unit of rounding (ledger.py:167, risk/engine.py:104, engine.py:136,
\* 252-326).
THEOREM RoomStaysReserved == Spec => []RoomIsReserved
<1>1. SumsInv => RoomIsReserved
  BY DEF SumsInv, CapInv, RoomOk, RoomIsReserved
<1> QED  BY <1>1, SumsAreInductive, PTL

\* Until something fails, the position the portfolio holds on an instrument is what
\* the ledger has of it and the fills between the two (engine.py:547).
THEOREM PortfolioFollowsLedger == Spec => []PortfolioIsLedgerPlusInFlight
<1>1. SumsInv => PortfolioIsLedgerPlusInFlight
  BY DEF SumsInv, QuietInv, PortfolioIsLedgerPlusInFlight, Balanced
<1> QED  BY <1>1, SumsAreInductive, PTL

\* In a run in which nothing fails, an exit brings the position on its instrument
\* towards zero and never past it (router.py:53).
THEOREM ExitsOnlyShrink == Spec /\ [](faults = 0) => ReduceOnlyShrinks
<1>1. /\ SumsInv /\ SumsInv' /\ [Next]_vars /\ faults = 0 /\ (faults = 0)'
      => [\A i \in Instrument : ExitFilledOn(i) => Shrinks(position[i], position'[i])]_vars
  BY NextShrinks DEF SumsInv, QuietInv
<1> QED  BY <1>1, SumsAreInductive, PTL DEF Spec, ReduceOnlyShrinks

\* In a run in which nothing fails, requests, locks, routing and ledger together do
\* what TradeBook says of the trades: the detailed specification implements the
\* abstract one, every step of it a step of the book or none.
THEOREM ImplementsTradeBook == Spec /\ [](faults = 0) => TradesAreABook
<1>1. Init => Book!Init
  BY DEF Init, Book!Init, NoRow, Book!NoRow
<1>2. /\ SumsInv /\ [Next]_vars /\ faults = 0 /\ (faults = 0)'
      => [Book!Next]_trades
  BY NextIsBookStep DEF SumsInv, QuietInv
<1> QED  BY <1>1, <1>2, SumsAreInductive, PTL DEF Spec, TradesAreABook, Book!Spec
==============================================================================
