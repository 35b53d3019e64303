--------------------------- MODULE ChartAssistant ---------------------------
(***************************************************************************)
(* The chart assistant of the browser page (ai-ui.js) and the engine it    *)
(* calls (ai-engine.js).  A scan hands it the quantitative snapshot of     *)
(* each market; the user picks a market, asks the model about it, and may  *)
(* paper the setup when both agree.  The answer of the model comes later:  *)
(* the user may have picked another market, a scan may have replaced the   *)
(* snapshots, or the page may be gone.  The paper portfolio is kept in     *)
(* localStorage, which every tab of the page loads once and saves whole.   *)
(*                                                                         *)
(* A snapshot is what sanitizeQuantSnapshot keeps of a result and the      *)
(* assistant decides by: prices in whole numbers, and the plan's quantity, *)
(* its position value by its entry, as `units`.  Extremes are kept in the  *)
(* currency of the account, not in units of the trade's risk.  Texts,      *)
(* chart images and layout are left out; a chat only keeps the assistant   *)
(* busy.                                                                   *)
(***************************************************************************)
EXTENDS Integers, Sequences, Functions

CONSTANTS
    Tabs,          \* open copies of the page
    Markets,       \* assets of the scan
    Found,         \* what scans find: functions from markets to snapshots without their market
    Balances,      \* starting balances of a portfolio
    FirstBalance,  \* ... and the one it has when nothing is stored
    NoQuant, NoAnalysis, NoAsk,
    FreeMode,      \* ai-config.js: the chart model is off
    MaxScanned, MaxPapered     \* bounds: scans of all tabs, trades of a portfolio

VARIABLES
    page,          \* page[t]: the assistant's state but the portfolio
    portfolio,     \* portfolio[t]: the portfolio tab t shows
    saved,         \* the portfolio in localStorage
    scanned        \* scans made

assistantVars == <<page, portfolio, saved, scanned>>

Verdicts == {"LONG", "SHORT", "WAIT", "NO_TRADE"}
MakePortfolio(start) == [starting |-> start, balance |-> start, signals |-> <<>>]

\* localStorage before anything is saved.
NoPortfolio == <<>>
LoadPortfolio(stored) == IF stored = NoPortfolio THEN MakePortfolio(FirstBalance) ELSE stored

\* market, offered: what the market selector shows and lists, every asset before the first
\* scan; fallback: chats are answered by the page itself.
Fresh == [market |-> CHOOSE a \in Markets : TRUE, offered |-> Markets, quants |-> {}, quant |-> NoQuant,
          analysis |-> NoAnalysis, asking |-> NoAsk, fallback |-> FreeMode]

AssistantInit ==
    /\ saved = NoPortfolio
    /\ page = [t \in Tabs |-> Fresh]
    /\ portfolio = [t \in Tabs |-> LoadPortfolio(saved)]
    /\ scanned = 0

-----------------------------------------------------------------------------
(* ai-engine.js                                                            *)

\* sanitizeQuantSnapshot; the scan that found it is for the properties.
Snapshot(a, result, scan) ==
    [market |-> a, scan |-> scan, decision |-> result.decision, direction |-> result.direction,
     price |-> result.price, entry |-> result.entry, units |-> result.units,
     margin |-> result.margin, valid |-> result.valid]

\* fuseDecision: the model can confirm or hold back, never promote.
FuseDecision(quant, analysis) ==
    CASE quant = NoQuant \/ quant.decision \in {"ANALYSIS UNAVAILABLE", "NO TRADE"} -> "NO TRADE"
      [] quant # NoQuant /\ quant.decision = "WAIT" -> "WAIT"
      [] quant # NoQuant /\ quant.decision = "TAKE TRADE" ->
            CASE quant.direction \notin {"LONG", "SHORT"} -> "NO TRADE"
              [] quant.direction \in {"LONG", "SHORT"} /\ analysis = NoAnalysis -> "WAIT"
              [] quant.direction \in {"LONG", "SHORT"} /\ analysis # NoAnalysis ->
                    CASE analysis.verdict = "NO_TRADE" -> "NO TRADE"
                      [] analysis.verdict = quant.direction -> quant.direction
                      [] OTHER -> "WAIT"

Side(signal) == IF signal.quant.direction = "LONG" THEN 1 ELSE -1
Pnl(signal, price) == (price - signal.quant.entry) * signal.quant.units * Side(signal)
Greater(a, b) == IF a > b THEN a ELSE b
Lesser(a, b) == IF a < b THEN a ELSE b
Marked(signal, price) ==
    [signal EXCEPT !.last = price, !.mfe = Greater(@, Pnl(signal, price)),
                   !.mae = Lesser(@, Pnl(signal, price))]

\* makePaperSignal: an aligned setup with a risk-sized plan only; the snapshot and the
\* answer are locked in it.  Its id is random, so that no two trades have the same.
MakePaperSignal(quant, analysis) ==
    [quant |-> quant, ai |-> analysis, status |-> "open", last |-> quant.entry,
     mfe |-> 0, mae |-> 0, made |-> 0]
MayPaper(quant, analysis) ==
    /\ quant # NoQuant /\ analysis # NoAnalysis
    /\ FuseDecision(quant, analysis) \in {"LONG", "SHORT"}
    /\ quant.valid

OpenSignals(p) == {i \in DOMAIN p.signals : p.signals[i].status = "open"}
ClosedSignals(p) == {i \in DOMAIN p.signals : p.signals[i].status = "closed"}
Reserved(p) == SumFunctionOnSet([i \in DOMAIN p.signals |-> p.signals[i].quant.margin], OpenSignals(p))
Realized(p) == SumFunctionOnSet([i \in DOMAIN p.signals |-> p.signals[i].made], ClosedSignals(p))

\* addPaperSignal refuses what the balance cannot carry besides the open positions.
AddPaperSignal(p, s) ==
    IF s.quant.margin <= 0 \/ s.quant.margin + Reserved(p) > p.balance THEN p
    ELSE [p EXCEPT !.signals = Append(@, s)]

\* updatePaperMarks; found: the snapshots of the scan.
UpdatePaperMarks(p, found) ==
    [p EXCEPT !.signals =
        [i \in DOMAIN p.signals |->
            LET s == p.signals[i]
                now == {q \in found : q.market = s.quant.market} IN
            IF s.status = "open" /\ now # {}
            THEN Marked(s, (CHOOSE q \in now : TRUE).price) ELSE s]]

\* closePaperSignal at the last mark.
ClosePaperSignal(p, i) ==
    LET s == p.signals[i] IN
    [p EXCEPT !.balance = @ + Pnl(s, s.last),
              !.signals[i] = [Marked(s, s.last) EXCEPT !.status = "closed", !.made = Pnl(s, s.last)]]

-----------------------------------------------------------------------------
(* ai-ui.js                                                                *)

Save(t, p) == portfolio' = [portfolio EXCEPT ![t] = p] /\ saved' = p
Shows(t, new) == page' = [page EXCEPT ![t] = new]
QuantOf(quants, market) ==
    IF \E q \in quants : q.market = market THEN CHOOSE q \in quants : q.market = market
    ELSE NoQuant

\* handleScan; a scan that failed brings nothing, and leaves no market to choose: the
\* selector then shows none.  The analysis stays.
HandleScan(t) ==
    /\ scanned < MaxScanned
    /\ \E results \in Found :
          \E best \in IF results = <<>> THEN {NoQuant} ELSE DOMAIN results :
          LET found == {Snapshot(a, results[a], scanned + 1) : a \in DOMAIN results}
              market == IF page[t].market \in DOMAIN results THEN page[t].market ELSE best IN
          /\ Shows(t, [page[t] EXCEPT !.market = market, !.offered = DOMAIN results, !.quants = found,
                                      !.quant = QuantOf(found, market)])
          /\ Save(t, UpdatePaperMarks(portfolio[t], found))
    /\ scanned' = scanned + 1

\* selectQuant: a market no scan has found has no snapshot.
SelectQuant(t) ==
    /\ \E a \in page[t].offered :
          Shows(t, [page[t] EXCEPT !.market = a, !.quant = QuantOf(page[t].quants, a),
                                  !.analysis = NoAnalysis])
    /\ UNCHANGED <<portfolio, saved, scanned>>

ClearCharts(t) ==
    /\ Shows(t, [page[t] EXCEPT !.analysis = NoAnalysis])
    /\ UNCHANGED <<portfolio, saved, scanned>>

\* analyze and sendChat lock the assistant until they are answered; a chat the page
\* answers itself is over at once.
Analyze(t) ==
    /\ ~FreeMode
    /\ page[t].asking = NoAsk
    /\ Shows(t, [page[t] EXCEPT !.asking = [kind |-> "analyze", about |-> page[t].quant]])
    /\ UNCHANGED <<portfolio, saved, scanned>>

SendChat(t) ==
    /\ ~page[t].fallback
    /\ page[t].asking = NoAsk
    /\ Shows(t, [page[t] EXCEPT !.asking = [kind |-> "chat", about |-> NoQuant]])
    /\ UNCHANGED <<portfolio, saved, scanned>>

\* The answer is fused with whatever is selected when it arrives.  late is for the
\* properties: the selection had moved.
Answered(t) ==
    LET ask == page[t].asking IN
    /\ ask # NoAsk /\ ask.kind = "analyze"
    /\ \E v \in Verdicts :
          Shows(t, [page[t] EXCEPT !.asking = NoAsk,
                                   !.analysis = [verdict |-> v, about |-> ask.about,
                                                 late |-> ask.about # page[t].quant]])
    /\ UNCHANGED <<portfolio, saved, scanned>>

\* A timeout, an error of the backend or an answer that does not parse.
Refused(t) ==
    /\ page[t].asking # NoAsk /\ page[t].asking.kind = "analyze"
    /\ Shows(t, [page[t] EXCEPT !.asking = NoAsk, !.analysis = NoAnalysis])
    /\ UNCHANGED <<portfolio, saved, scanned>>

\* Answered, refused, or refused for want of credits, after which the page answers itself.
ChatAnswered(t) ==
    /\ page[t].asking # NoAsk /\ page[t].asking.kind = "chat"
    /\ \E spent \in BOOLEAN : Shows(t, [page[t] EXCEPT !.asking = NoAsk, !.fallback = spent])
    /\ UNCHANGED <<portfolio, saved, scanned>>

\* What throws is not saved.
PaperSetup(t) ==
    /\ MayPaper(page[t].quant, page[t].analysis)
    /\ Len(portfolio[t].signals) < MaxPapered
    /\ LET p == AddPaperSignal(portfolio[t], MakePaperSignal(page[t].quant, page[t].analysis))
       IN  p # portfolio[t] /\ Save(t, p)
    /\ UNCHANGED <<page, scanned>>

Close(t) ==
    /\ \E i \in DOMAIN portfolio[t].signals :
          /\ portfolio[t].signals[i].status = "open" /\ portfolio[t].signals[i].last > 0
          /\ Save(t, ClosePaperSignal(portfolio[t], i))
    /\ UNCHANGED <<page, scanned>>

\* The page asks first when there are trades.
ResetPaper(t) ==
    /\ \E b \in Balances : Save(t, MakePortfolio(b))
    /\ UNCHANGED <<page, scanned>>

\* The page is loaded again; an answer under way is lost.
Reload(t) ==
    /\ Shows(t, Fresh)
    /\ portfolio' = [portfolio EXCEPT ![t] = LoadPortfolio(saved)]
    /\ UNCHANGED <<saved, scanned>>

AssistantNext ==
    \E t \in Tabs :
        \/ HandleScan(t) \/ SelectQuant(t) \/ ClearCharts(t)
        \/ Analyze(t) \/ SendChat(t) \/ Answered(t) \/ Refused(t) \/ ChatAnswered(t)
        \/ PaperSetup(t) \/ Close(t) \/ ResetPaper(t) \/ Reload(t)

-----------------------------------------------------------------------------
(* Properties                                                              *)

\* The balance is the starting balance and what the closed trades made (portfolioStats
\* shows the difference as realised profit), in every tab and in localStorage.
MoneyAddsUp ==
    \A p \in {LoadPortfolio(saved)} \union {portfolio[t] : t \in Tabs} : p.balance = p.starting + Realized(p)

\* While no trade has lost more than its margin the balance carries every open position.
Solvent ==
    \A t \in Tabs :
        LET p == portfolio[t] IN
        (\A i \in DOMAIN p.signals : p.signals[i].made >= -p.signals[i].quant.margin) =>
            Reserved(p) <= p.balance

\* An answer about another snapshot is fused with the selected one only when it came
\* after the selection had moved, or when a scan has replaced the snapshot since.
AnsweredAboutThis ==
    \A t \in Tabs :
        LET a == page[t].analysis
            q == page[t].quant IN
        a # NoAnalysis /\ ~a.late /\ q # NoQuant =>
            q = a.about \/ (a.about # NoQuant => q.scan > a.about.scan)

\* What a reload brings back is what some tab shows: the only tab loses nothing by it.
ReloadLosesNothing == \E t \in Tabs : LoadPortfolio(saved) = portfolio[t]

\* A paper trade was a qualified setup when it was taken, and the extremes of a closed
\* one bracket what it made.
TradesWereQualified ==
    \A t \in Tabs : \A i \in DOMAIN portfolio[t].signals :
        LET s == portfolio[t].signals[i] IN
        /\ s.quant.decision = "TAKE TRADE" /\ s.ai.verdict = s.quant.direction
        /\ s.mae <= s.made /\ s.made <= s.mfe

AssistantHolds == MoneyAddsUp /\ Solvent /\ AnsweredAboutThis /\ ReloadLosesNothing /\ TradesWereQualified

\* What the documents say and the page does not keep (see the README): an answer
\* confirms the setup it was asked about.
ConfirmedIsAnalysed ==
    \A t \in Tabs : \A i \in DOMAIN portfolio[t].signals :
        portfolio[t].signals[i].ai.about = portfolio[t].signals[i].quant

\* ... and a scan never removes a recorded trade.
ScanKeepsTrades ==
    [][scanned' # scanned =>
           Len(LoadPortfolio(saved').signals) >= Len(LoadPortfolio(saved).signals)]_assistantVars
=============================================================================
