----------------------------- MODULE PaperEngine -----------------------------
(***************************************************************************)
(* The paper execution service: FastAPI runs its synchronous endpoints in  *)
(* a thread pool, so the requests below interleave.                        *)
(*                                                                         *)
(*   /paper/signal     PaperEngine.open_from_signal  (under _entry_lock)   *)
(*   /paper/tick, mark PaperEngine.tick and .mark    (under _lifecycle_lock)*)
(*   /reconcile, /control/clear-halt, /kill                                *)
(*                                                                         *)
(* An entry and an exit take the same path through ExecutionRouter.route:  *)
(* record the intent, submit to the portfolio, record the order; then the  *)
(* ledger records the trade or the exit.  Every SQLite commit on the way is*)
(* a step of its own, and between any two of them another request may run, *)
(* the request may be aborted by a database error, or the process may die. *)
(***************************************************************************)
EXTENDS TradeProgress, FiniteSets, FiniteSetsExt

CONSTANTS
    Signal,        \* signal ids; a trade has the id of its signal
    NoSignal,      \* a thread without a request
    Instrument,
    InstrumentOf,  \* the instrument each signal trades
    Long,          \* the signals with direction "long"
    Worker,        \* thread-pool threads
    NoWorker,      \* a lock nobody holds
    Sizes,         \* what risk sizing may ask for, in units
    MaxOpen,       \* limits.max_concurrent_positions
    Prices,        \* what a unit may cost
    Ceilings,      \* what equity * max_portfolio_exposure_pct may come to
    MaxFaults      \* bound on crashes, aborted requests and failed submits

ASSUME SignalAssumption ==
    /\ InstrumentOf \in [Signal -> Instrument]
    /\ Long \subseteq Signal
    /\ NoSignal \notin Signal
    /\ NoWorker \notin Worker
    /\ IsFiniteSet(Signal)
    /\ IsFiniteSet(Worker)
ASSUME LimitAssumption ==
    /\ Sizes \subseteq Nat \ {0}
    /\ MaxOpen \in Nat
    /\ Prices \subseteq Nat \ {0}
    /\ Ceilings \subseteq Nat
    /\ MaxFaults \in Nat

IntentId == Signal \X (Kind \union {"ENTRY"})

\* The reasons router.kill() stores with a halt; NoHalt is "no active halt".
NoHalt == "NONE"
HaltReason == {"MANUAL", "RECONCILIATION_FAILED", "EXIT_ROUTE_FAILED"}

VARIABLES
    \* SQLite: survives a restart
    intents,       \* routing/router.py record_intent: ids already used
    orders,        \* id -> NONE, FILLED or SUBMIT_FAILED_UNKNOWN
    storedPos,     \* positions table: instrument -> signed quantity
    trades,        \* paper_trades: signal -> progress (NoRow: no such row)
    mark,          \* paper_trades: the mark_price of a trade
    events,        \* paper_trade_events: UNIQUE (trade_id, kind)
    halt,          \* the active halt row
    \* process memory
    position,      \* NautilusPortfolio._positions
    killed,        \* ExecutionRouter.killed
    entryLock,     \* PaperEngine._entry_lock
    lifecycleLock, \* PaperEngine._lifecycle_lock
    \* one request per thread
    pc,
    sig,           \* the signal or trade the request is about
    trade,         \* the trade dict an exit request read from the ledger
    todo,          \* the orders the request has still to route
    view,          \* portfolio.open_positions() as a reconciliation read it
    account,       \* what account_state() and the market price told an entry
    \* history, for the properties only
    submits,       \* how often each intent reached the portfolio
    lateEntries,   \* entries filled since the kill switch engaged
    faults

store   == <<intents, orders, storedPos, trades, mark, events, halt>>
memory  == <<position, killed>>
locks   == <<entryLock, lifecycleLock>>
request == <<pc, sig, trade, todo, view, account>>
history == <<submits, lateEntries, faults>>
vars    == <<store, memory, locks, request, history>>

-----------------------------------------------------------------------------
OpenTrades == {s \in Signal : IsOpen(trades[s])}
OpenOn(i) == {s \in OpenTrades : InstrumentOf[s] = i}

\* The open trades, a unit of each at a value.
Notional(value) ==
    SumFunctionOnSet([s \in Signal |-> trades[s].remaining * value[s]], OpenTrades)

\* totals()["open_notional"]
OpenNotional == Notional(mark)

Signed(s, qty) == IF s \in Long THEN qty ELSE -qty
LedgerQty(i) ==
    SumFunctionOnSet([s \in Signal |-> Signed(s, trades[s].remaining)], OpenOn(i))

Current(w) == Head(todo[w])
Id(w) == <<sig[w], Current(w).kind>>
IsEntry(w) == Current(w).kind = "ENTRY"

\* What the current order adds to the position: an exit is on the other side.
Delta(w) == IF IsEntry(w) THEN Signed(sig[w], Current(w).qty)
                          ELSE -Signed(sig[w], Current(w).qty)
Filled(w) == [position EXCEPT ![InstrumentOf[sig[w]]] = @ + Delta(w)]

\* No position on any instrument.
Flat == [i \in Instrument |-> 0]

\* An entry that has not read its account.
NoAccount == [price |-> 0, ceiling |-> 0, open |-> {}, marks |-> [s \in Signal |-> 0]]

Goto(w, l) == pc' = [pc EXCEPT ![w] = l]

\* The thread returns its response and keeps nothing of the request.
EndRequest(w) ==
    /\ Goto(w, "idle")
    /\ sig' = [sig EXCEPT ![w] = NoSignal]
    /\ trade' = [trade EXCEPT ![w] = NoRow]
    /\ todo' = [todo EXCEPT ![w] = <<>>]
    /\ view' = [view EXCEPT ![w] = Flat]
    /\ account' = [account EXCEPT ![w] = NoAccount]

Unlocked(lock, w) == IF lock = w THEN NoWorker ELSE lock
ReleaseLocks(w) ==
    /\ entryLock' = Unlocked(entryLock, w)
    /\ lifecycleLock' = Unlocked(lifecycleLock, w)

\* The loop of _route_exits goes on with the next event, or ends.
NextExit(w) ==
    /\ todo' = [todo EXCEPT ![w] = Tail(@)]
    /\ Goto(w, IF Len(todo[w]) > 1 THEN "route" ELSE "save")
    /\ UNCHANGED <<sig, view, account, locks>>

\* router.kill(): the first reason is stored, a second kill changes nothing.
Kill(reason) ==
    /\ killed' = TRUE
    /\ halt' = IF killed THEN halt ELSE reason
    /\ lateEntries' = IF killed THEN lateEntries ELSE 0

Init ==
    /\ intents = {}
    /\ orders = [id \in IntentId |-> "NONE"]
    /\ storedPos = Flat
    /\ trades = [s \in Signal |-> NoRow]
    /\ mark = [s \in Signal |-> 0]
    /\ events = {}
    /\ halt = NoHalt
    /\ position = Flat
    /\ killed = FALSE
    /\ entryLock = NoWorker
    /\ lifecycleLock = NoWorker
    /\ pc = [w \in Worker |-> "idle"]
    /\ sig = [w \in Worker |-> NoSignal]
    /\ trade = [w \in Worker |-> NoRow]
    /\ todo = [w \in Worker |-> <<>>]
    /\ view = [w \in Worker |-> Flat]
    /\ account = [w \in Worker |-> NoAccount]
    /\ submits = [id \in IntentId |-> 0]
    /\ lateEntries = 0
    /\ faults = 0

-----------------------------------------------------------------------------
(* open_from_signal                                                        *)

\* The checks before the lock.  Those on the signal and the mark alone (shape,
\* freshness, direction, price) only ever end the request, and are left out.
RequestEntry(w, s) ==
    /\ pc[w] = "idle"
    /\ ~killed
    /\ <<s, "ENTRY">> \notin intents
    /\ ~HasRow(trades[s])
    /\ Goto(w, "wait")
    /\ sig' = [sig EXCEPT ![w] = s]
    /\ UNCHANGED <<store, memory, locks, trade, todo, view, account, history>>

EnterWithoutLock(w) ==
    /\ pc[w] = "wait"
    /\ entryLock' = w
    /\ Goto(w, "check")
    /\ UNCHANGED <<store, memory, lifecycleLock, sig, trade, todo, view, account, history>>

LockEntry(w) ==
    /\ pc[w] = "wait"
    /\ entryLock = NoWorker
    /\ entryLock' = w
    /\ Goto(w, "check")
    /\ UNCHANGED <<store, memory, lifecycleLock, sig, trade, todo, view, account, history>>

\* No live trade and no canonical position on the instrument.
CheckInstrument(w) ==
    /\ pc[w] = "check"
    /\ OpenOn(InstrumentOf[sig[w]]) = {}
    /\ position[InstrumentOf[sig[w]]] = 0
    /\ Goto(w, "size")
    /\ UNCHANGED <<store, memory, locks, sig, trade, todo, view, account, history>>

\* round(position_size, 8): a nearest number of units that the room pays for.
IsNearest(qty, room, price) ==
    /\ 2 * (qty * price) <= 2 * room + price
    /\ 2 * room <= 2 * (qty * price) + price

\* approve(): the size risk sizing asks for, shrunk to the room that the live trades,
\* at their marks, leave under the portfolio ceiling.
Approves(size, price, ceiling, qty) ==
    LET room == ceiling - OpenNotional
    IN  /\ ~killed
        /\ Cardinality(OpenTrades) < MaxOpen
        /\ room > 0
        /\ IF size * price <= room THEN qty = size ELSE IsNearest(qty, room, price)

\* One account_state() is all that approve() looks at: the equity, which moves with
\* every price, and the open trades at their marks.
ApproveEntry(w) ==
    /\ pc[w] = "size"
    /\ \E price \in Prices, ceiling \in Ceilings, size \in Sizes : \E qty \in 1..size :
          /\ Approves(size, price, ceiling, qty)
          /\ account' = [account EXCEPT ![w] =
                [price |-> price, ceiling |-> ceiling, open |-> OpenTrades,
                 marks |-> [s \in Signal |-> IF s \in OpenTrades THEN mark[s] ELSE 0]]]
          /\ todo' = [todo EXCEPT ![w] = <<Order("ENTRY", qty)>>]
    /\ Goto(w, "route")
    /\ UNCHANGED <<store, memory, locks, sig, trade, view, history>>

\* Every other outcome of the checks under the lock: an occupied instrument, a
\* breached stop or target, the drawdown pause, a limit of approve(), no size.
RejectEntry(w) ==
    /\ pc[w] \in {"check", "size"}
    /\ EndRequest(w)
    /\ ReleaseLocks(w)
    /\ UNCHANGED <<store, memory, history>>

-----------------------------------------------------------------------------
(* tick and mark.  They differ in how they evaluate the trade, which       *)
(* PaperLifecycle and TradeManagement model: here either may return any of *)
(* the exit sequences an open trade allows.                                *)

ReadExits(w, s) ==
    /\ lifecycleLock' = w
    /\ sig' = [sig EXCEPT ![w] = s]
    /\ trade' = [trade EXCEPT ![w] = trades[s]]
    /\ \E plan \in PlanShapes(trades[s]) :
          /\ todo' = [todo EXCEPT ![w] = plan]
          /\ Goto(w, IF plan = <<>> THEN "save" ELSE "route")
    /\ UNCHANGED <<store, memory, entryLock, view, account, history>>

BeginExitsUnlocked(w, s) ==
    /\ pc[w] = "idle"
    /\ IsOpen(trades[s])
    /\ ReadExits(w, s)

NothingToDoKeepsLock(w, s) ==
    /\ pc[w] = "idle"
    /\ lifecycleLock = NoWorker
    /\ IsOpen(trades[s])
    /\ \/ ReadExits(w, s)
       \/ /\ lifecycleLock' = w
          /\ UNCHANGED <<store, memory, entryLock, request, history>>

BeginExits(w, s) ==
    /\ pc[w] = "idle"
    /\ lifecycleLock = NoWorker
    /\ IsOpen(trades[s])
    /\ ReadExits(w, s)

\* The trailing ledger.save(trade), and the end of the locked section: mark() has
\* set a trade that is still open to the last close, tick() leaves its mark alone.
SaveTrade(w) ==
    /\ pc[w] = "save"
    /\ trades' = [trades EXCEPT ![sig[w]] = trade[w]]
    /\ \/ mark' = mark
       \/ IsOpen(trade[w]) /\ \E p \in Prices : mark' = [mark EXCEPT ![sig[w]] = p]
    /\ EndRequest(w)
    /\ ReleaseLocks(w)
    /\ UNCHANGED <<intents, orders, storedPos, events, halt, memory, history>>

-----------------------------------------------------------------------------
(* ExecutionRouter.route, for the entry or the exit at the head of todo.   *)

\* "Reduce-only orders can only shrink exposure, so a halt must not trap a
\* position open past its stop; everything else is blocked."
PassHalt(w) ==
    /\ pc[w] = "route"
    /\ killed => ~IsEntry(w)
    /\ Goto(w, "record")
    /\ UNCHANGED <<store, memory, locks, sig, trade, todo, view, account, history>>

WaitAtHalt(w) ==
    /\ pc[w] = "route"
    /\ killed /\ IsEntry(w)
    /\ UNCHANGED vars

StopAtHalt(w) ==
    /\ pc[w] = "route"
    /\ killed /\ IsEntry(w)
    /\ EndRequest(w)
    /\ ReleaseLocks(w)
    /\ UNCHANGED <<store, memory, history>>

RecordIntentAgain(w) ==
    /\ pc[w] = "record"
    /\ intents' = intents \union {Id(w)}
    /\ Goto(w, "submit")
    /\ UNCHANGED <<orders, storedPos, trades, mark, events, halt, memory, locks,
                   sig, trade, todo, view, account, history>>

RecordIntent(w) ==
    /\ pc[w] = "record"
    /\ Id(w) \notin intents
    /\ intents' = intents \union {Id(w)}
    /\ Goto(w, "submit")
    /\ UNCHANGED <<orders, storedPos, trades, mark, events, halt, memory, locks,
                   sig, trade, todo, view, account, history>>

\* DuplicateSignalError: an entry is rejected, an exit is skipped.
DuplicateEntry(w) ==
    /\ pc[w] = "record"
    /\ Id(w) \in intents /\ IsEntry(w)
    /\ EndRequest(w)
    /\ ReleaseLocks(w)
    /\ UNCHANGED <<store, memory, history>>

DuplicateExit(w) ==
    /\ pc[w] = "record"
    /\ Id(w) \in intents /\ ~IsEntry(w)
    /\ NextExit(w)
    /\ UNCHANGED <<store, memory, trade, history>>

\* backend.submit: NautilusPortfolio.apply_fill changes the position in memory
\* and then stores it.
Submit(w) ==
    /\ pc[w] = "submit"
    /\ position' = Filled(w)
    /\ storedPos' = Filled(w)
    /\ submits' = [submits EXCEPT ![Id(w)] = @ + 1]
    /\ lateEntries' = IF killed /\ IsEntry(w) THEN lateEntries + 1 ELSE lateEntries
    /\ Goto(w, "order")
    /\ UNCHANGED <<intents, orders, trades, mark, events, halt, killed, locks,
                   sig, trade, todo, view, account, faults>>

\* The same, but it raises: before the position moved, or with the position moved
\* in memory and not stored.
SubmitFails(w) ==
    /\ pc[w] = "submit"
    /\ faults < MaxFaults
    /\ faults' = faults + 1
    /\ \/ /\ position' = Filled(w)
          /\ submits' = [submits EXCEPT ![Id(w)] = @ + 1]
       \/ UNCHANGED <<position, submits>>
    /\ Goto(w, "unknown")
    /\ UNCHANGED <<store, killed, locks, sig, trade, todo, view, account, lateEntries>>

MarkUnknown(w) ==
    /\ pc[w] = "unknown"
    /\ orders' = [orders EXCEPT ![Id(w)] = "SUBMIT_FAILED_UNKNOWN"]
    /\ IF IsEntry(w)
       THEN EndRequest(w) /\ ReleaseLocks(w)
       ELSE Goto(w, "halt") /\ UNCHANGED <<sig, trade, todo, view, account, locks>>
    /\ UNCHANGED <<intents, storedPos, trades, mark, events, halt, memory, history>>

\* _route_exits: "Unknown exit state: stop processing this trade, halt new risk".
HaltOnUnknown(w) ==
    /\ pc[w] = "halt"
    /\ Kill("EXIT_ROUTE_FAILED")
    /\ Goto(w, "save")
    /\ UNCHANGED <<intents, orders, storedPos, trades, mark, events, position, locks,
                   sig, trade, todo, view, account, submits, faults>>

\* upsert_order and record_fill.
RecordOrder(w) ==
    /\ pc[w] = "order"
    /\ orders' = [orders EXCEPT ![Id(w)] = "FILLED"]
    /\ Goto(w, "ledger")
    /\ UNCHANGED <<intents, storedPos, trades, mark, events, halt, memory, locks,
                   sig, trade, todo, view, account, history>>

-----------------------------------------------------------------------------
(* The ledger, one commit each.                                            *)

\* open_trade: the trade row, with the market price before slippage for its mark, and
\* its ENTRY event.
RecordTrade(w) ==
    /\ pc[w] = "ledger" /\ IsEntry(w)
    /\ trades' = [trades EXCEPT ![sig[w]] = NewTrade(Current(w).qty)]
    /\ \E p \in Prices : mark' = [mark EXCEPT ![sig[w]] = p]
    /\ events' = events \union {Id(w)}
    /\ EndRequest(w)
    /\ ReleaseLocks(w)
    /\ UNCHANGED <<intents, orders, storedPos, halt, memory, history>>

\* apply_exit: the UNIQUE event row, and the trade as this request knows it.
RecordExit(w) ==
    /\ pc[w] = "ledger" /\ ~IsEntry(w)
    /\ LET after == IF Id(w) \in events THEN trade[w] ELSE ApplyExit(trade[w], Current(w))
       IN  /\ trade' = [trade EXCEPT ![w] = after]
           /\ trades' = [trades EXCEPT ![sig[w]] = IF Id(w) \in events THEN @ ELSE after]
    /\ events' = events \union {Id(w)}
    /\ NextExit(w)
    /\ UNCHANGED <<intents, orders, storedPos, mark, halt, memory, history>>

-----------------------------------------------------------------------------
(* /reconcile and /control/clear-halt: neither takes a lock.               *)

\* portfolio.open_positions() ...
ReadPortfolio(w, l) ==
    /\ pc[w] = "idle"
    /\ Goto(w, l)
    /\ view' = [view EXCEPT ![w] = position]
    /\ UNCHANGED <<store, memory, locks, sig, trade, todo, account, history>>

\* ... and reconcile_ledger, over the instruments the ledger has traded.
PaperInstruments == {InstrumentOf[s] : s \in {t \in Signal : HasRow(trades[t])}}
Agrees(v) == \A i \in PaperInstruments : v[i] = LedgerQty(i)

CompareFails(w) ==
    /\ pc[w] \in {"reconcile", "clear"}
    /\ ~Agrees(view[w])
    /\ Kill("RECONCILIATION_FAILED")
    /\ EndRequest(w)
    /\ UNCHANGED <<intents, orders, storedPos, trades, mark, events, position, locks,
                   submits, faults>>

CompareSucceeds(w) ==
    /\ pc[w] \in {"reconcile", "clear"}
    /\ Agrees(view[w])
    /\ IF pc[w] = "clear" THEN killed' = FALSE /\ halt' = NoHalt
                          ELSE UNCHANGED <<killed, halt>>
    /\ EndRequest(w)
    /\ UNCHANGED <<intents, orders, storedPos, trades, mark, events, position, locks, history>>

ManualKill ==
    /\ ~killed
    /\ Kill("MANUAL")
    /\ UNCHANGED <<intents, orders, storedPos, trades, mark, events, position, locks,
                   request, submits, faults>>

-----------------------------------------------------------------------------
(* Faults.                                                                 *)

\* A database call other than the guarded submit raises: the exception leaves the
\* handler, and its with-blocks release the locks.
Abort(w) ==
    /\ pc[w] \notin {"idle", "wait", "submit"}
    /\ faults < MaxFaults
    /\ faults' = faults + 1
    /\ EndRequest(w)
    /\ ReleaseLocks(w)
    /\ UNCHANGED <<store, memory, submits, lateEntries>>

\* The process dies and is started again on the same database.
Restart ==
    /\ faults < MaxFaults
    /\ faults' = faults + 1
    /\ position' = storedPos
    /\ killed' = (halt # NoHalt)
    /\ entryLock' = NoWorker
    /\ lifecycleLock' = NoWorker
    /\ pc' = [w \in Worker |-> "idle"]
    /\ sig' = [w \in Worker |-> NoSignal]
    /\ trade' = [w \in Worker |-> NoRow]
    /\ todo' = [w \in Worker |-> <<>>]
    /\ view' = [w \in Worker |-> Flat]
    /\ account' = [w \in Worker |-> NoAccount]
    /\ UNCHANGED <<store, submits, lateEntries>>

-----------------------------------------------------------------------------
EntryStep(w) == LockEntry(w) \/ CheckInstrument(w) \/ ApproveEntry(w) \/ RejectEntry(w)
RouteStep(w) ==
    \/ PassHalt(w) \/ StopAtHalt(w)
    \/ RecordIntent(w) \/ DuplicateEntry(w) \/ DuplicateExit(w)
    \/ Submit(w) \/ MarkUnknown(w) \/ HaltOnUnknown(w) \/ RecordOrder(w)
LedgerStep(w) == RecordTrade(w) \/ RecordExit(w) \/ SaveTrade(w)
ReconcileStep(w) == CompareFails(w) \/ CompareSucceeds(w)

\* What a thread does once it has a request.
Run(w) == EntryStep(w) \/ RouteStep(w) \/ LedgerStep(w) \/ ReconcileStep(w)

Request(w) ==
    \/ \E s \in Signal : RequestEntry(w, s) \/ BeginExits(w, s)
    \/ \E l \in {"reconcile", "clear"} : ReadPortfolio(w, l)

Fault == Restart \/ \E w \in Worker : Abort(w) \/ SubmitFails(w)

Next ==
    \/ \E w \in Worker : Request(w) \/ Run(w)
    \/ ManualKill
    \/ Fault

Spec == Init /\ [][Next]_vars

\* The operating system schedules every thread that can run.
FairSpec == Spec /\ \A w \in Worker : WF_vars(Run(w))
-----------------------------------------------------------------------------
(* Properties.                                                             *)

Trade == {t \in [size : Nat, remaining : Nat, tp1Hit : BOOLEAN] : t.remaining <= t.size}
AccountType == [price : Nat, ceiling : Nat, open : SUBSET Signal, marks : [Signal -> Nat]]
OrderType == [kind : Kind \union {"ENTRY"}, qty : Nat]
Label == {"idle", "wait", "check", "size", "route", "record", "submit", "unknown",
          "halt", "order", "ledger", "save", "reconcile", "clear"}

TypeOK ==
    /\ intents \subseteq IntentId
    /\ orders \in [IntentId -> {"NONE", "FILLED", "SUBMIT_FAILED_UNKNOWN"}]
    /\ storedPos \in [Instrument -> Int]
    /\ trades \in [Signal -> Trade]
    /\ mark \in [Signal -> Nat]
    /\ events \subseteq IntentId
    /\ halt \in HaltReason \union {NoHalt}
    /\ position \in [Instrument -> Int]
    /\ killed \in BOOLEAN
    /\ entryLock \in Worker \union {NoWorker}
    /\ lifecycleLock \in Worker \union {NoWorker}
    /\ pc \in [Worker -> Label]
    /\ sig \in [Worker -> Signal \union {NoSignal}]
    /\ trade \in [Worker -> Trade]
    /\ todo \in [Worker -> Seq(OrderType)]
    /\ view \in [Worker -> [Instrument -> Int]]
    /\ account \in [Worker -> AccountType]
    /\ submits \in [IntentId -> Nat]
    /\ lateEntries \in Nat
    /\ faults \in 0..MaxFaults

\* What each request may count on while it runs.  With TypeOK and the two parts on
\* rows and fills below, this is inductive, whatever fails.
Routing == {"route", "record", "submit", "unknown", "halt", "order", "ledger"}
RoutesEntry(w) == pc[w] \in Routing /\ IsEntry(w)
RoutesExit(w) == pc[w] \in Routing /\ ~IsEntry(w)

\* It has its orders: one entry, or the rest of a plan of exits.
TodoOk(w) ==
    /\ pc[w] \in Routing \union {"wait", "check", "size", "save"} => sig[w] \in Signal
    /\ pc[w] \in Routing =>
          /\ todo[w] # <<>>
          /\ \/ Len(todo[w]) = 1 /\ IsEntry(w) /\ pc[w] # "halt"
             \/ \A k \in DOMAIN todo[w] : todo[w][k].kind # "ENTRY"

\* Inside a locked section it holds the lock.
LockOk(w) ==
    /\ pc[w] \in {"check", "size"} \/ RoutesEntry(w) => entryLock = w
    /\ pc[w] = "save" \/ RoutesExit(w) => lifecycleLock = w

\* What an entry has checked under the entry lock stays so until it is recorded.
EntryOk(w) ==
    /\ pc[w] = "size" \/ RoutesEntry(w) => OpenOn(InstrumentOf[sig[w]]) = {}
    /\ RoutesEntry(w) => Cardinality(OpenTrades) < MaxOpen
    /\ pc[w] \in {"submit", "unknown", "order", "ledger"} /\ IsEntry(w) =>
          ~HasRow(trades[sig[w]])

\* The trade an exit request has read is the trade the ledger has.
ExitOk(w) ==
    pc[w] = "save" \/ RoutesExit(w) =>
        trade[w] = trades[sig[w]] /\ HasRow(trade[w])

RequestOk(w) == TodoOk(w) /\ LockOk(w) /\ EntryOk(w) /\ ExitOk(w)
Control == \A w \in Worker : RequestOk(w)

\* A trade row has its entry intent, and a request works on an intent it recorded.
Recorded == {"submit", "unknown", "order", "ledger"}
RowInv ==
    /\ \A s \in Signal : HasRow(trades[s]) => <<s, "ENTRY">> \in intents
    /\ \A w \in Worker : pc[w] \in Recorded => Id(w) \in intents

\* So has every fill; the intent that a request is about to submit has none yet.
FillInv ==
    /\ \A id \in IntentId : submits[id] # 0 => id \in intents
    /\ \A w \in Worker : pc[w] = "submit" => submits[Id(w)] = 0

\* The halt row is the kill switch, and once an entry has slipped past it there is
\* no other behind it.
LateInv ==
    /\ killed <=> halt # NoHalt
    /\ killed /\ lateEntries = 1 =>
          \A w \in Worker : pc[w] \in {"record", "submit"} => ~IsEntry(w)

\* However requests interleave, abort or crash, two live trades never share an
\* instrument (engine.py:234 "must not pyramid into it").
OneOpenTradePerInstrument ==
    \A s, t \in OpenTrades : InstrumentOf[s] = InstrumentOf[t] => s = t

\* Concurrent entries cannot together pass the position limit that each of them
\* checked on its own (engine.py:136 "two /paper/signal calls can interleave").
PositionLimit == Cardinality(OpenTrades) <= MaxOpen

\* The room under the exposure ceiling is never given away twice: from the moment an
\* entry is approved until it is recorded, the live trades and the entry together
\* stay under the ceiling it was approved on, give or take the half unit it was
\* rounded by, with every trade at the mark the approval read and one that it never
\* read at the mark it has (engine.py:136; engine.py:255 "the entry lock is the
\* reservation").  What prices and equity do to the ceiling afterwards is no entry's
\* doing.
SeenBy(w) ==
    [s \in Signal |-> IF s \in account[w].open THEN account[w].marks[s] ELSE mark[s]]
WithinCeiling(w) ==
    2 * (Notional(SeenBy(w)) + Current(w).qty * account[w].price)
        <= 2 * account[w].ceiling + account[w].price
RoomIsReserved == \A w \in Worker : RoutesEntry(w) => WithinCeiling(w)

\* No intent reaches the portfolio twice, whatever is retried or restarted: an
\* entry's signal id and each exit's "<trade_id>:<KIND>" are used once
\* (engine.py _route_exits, router.py record_intent).
AtMostOneFill == \A id \in IntentId : submits[id] <= 1

\* Fills that the portfolio has and the ledger has still to record.
InFlight(i) ==
    SumFunctionOnSet([w \in Worker |-> Delta(w)],
                     {w \in Worker : pc[w] \in {"order", "ledger"} /\ InstrumentOf[sig[w]] = i})

\* While nothing has failed, the portfolio is the ledger plus the fills in flight,
\* on every instrument and at every moment (engine.py:547 "two records of the same
\* fills; they must agree per instrument").
PortfolioIsLedgerPlusInFlight ==
    faults = 0 => \A i \in Instrument : position[i] = LedgerQty(i) + InFlight(i)

\* A kill lets at most the one entry through that had passed the check already:
\* the entry lock keeps every other one before it (router.py:53 "everything else
\* is blocked").
AtMostOneLateEntry == lateEntries <= 1

\* An exit fill only ever shrinks the position, and never turns it over
\* (router.py:53 "Reduce-only orders can only shrink exposure").
Shrinks(before, after) == \/ 0 <= after /\ after <= before
                          \/ before <= after /\ after <= 0
ExitFilledOn(i) == \E w \in Worker : /\ pc[w] = "submit" /\ ~IsEntry(w)
                                     /\ submits'[Id(w)] # submits[Id(w)]
                                     /\ InstrumentOf[sig[w]] = i
ReduceOnlyShrinks ==
    [][\A i \in Instrument : ExitFilledOn(i) => Shrinks(position[i], position'[i])]_vars

\* A trade only ever moves on: no request, however late it saves the trade it read,
\* gives back what another has sold, reopens what is closed or forgets TP1
\* (engine.py:136 "two ... calls can interleave"; ledger.py _save_trade overwrites
\* the row).
MovesOn(s) ==
    HasRow(trades[s]) => /\ trades'[s].size = trades[s].size
                         /\ trades'[s].remaining <= trades[s].remaining
                         /\ trades[s].tp1Hit => trades'[s].tp1Hit
EveryTradeMovesOn == \A s \in Signal : MovesOn(s)
TradesOnlyProgress == [][EveryTradeMovesOn]_trades

\* The stop that protects a live trade can still be routed: its id is unused, or a
\* request is working on it, or the halt asks for a human.  An id that is used up
\* is never routed again (router.py:53 a halt "must not trap a position open past
\* its stop"; ledger.py:231 "a restart resumes exactly where it left off").
ProtectiveStop(s) == <<s, IF trades[s].tp1Hit THEN "BREAKEVEN_STOP" ELSE "STOP">>
WorkingOn(id) == \E w \in Worker : todo[w] # <<>> /\ Id(w) = id
NoStopIsTrapped ==
    \A s \in OpenTrades :
        ProtectiveStop(s) \in intents => WorkingOn(ProtectiveStop(s)) \/ killed

\* Nothing having failed, a reconciliation finds nothing: it engages the kill
\* switch for a divergence, and there is none.
NoFalseHalt == faults = 0 => halt # "RECONCILIATION_FAILED"

\* A request that holds a lock gives it back (no request waits for a second lock
\* while it holds one).
EntryLockReleased ==
    \A w \in Worker : entryLock = w ~> entryLock # w
LifecycleLockReleased ==
    \A w \in Worker : lifecycleLock = w ~> lifecycleLock # w
LocksReleased == EntryLockReleased /\ LifecycleLockReleased

\* While nothing fails, the paper_trades table behaves as TradeBook says: opened
\* once and within the position limit, each milestone once and in order, CLOSED for good.
Book == INSTANCE TradeBook WITH book <- trades
TradesAreABook == Book!Spec
==============================================================================
