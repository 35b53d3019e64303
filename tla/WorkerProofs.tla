----------------------------- MODULE WorkerProofs -----------------------------
(***************************************************************************)
(* What holds, for every value of the constants, of the ten parts of       *)
(* MCWorker.  First those who call the cloud worker: the customer's page,  *)
(* the browser page with its chart assistant and its paper portfolio, the  *)
(* trade stream and the scan cycle of the bridge, each proved of the       *)
(* component alone, for a behaviour of MCWorker is one of a single part.   *)
(* Then what the worker keeps: the daily allowance, the journal, its door, *)
(* the archive of rank scans, the registry of models and the historical    *)
(* replay.  Last, all ten together.                                        *)
(***************************************************************************)
EXTENDS MCWorker, SumTheorems, SequenceTheorems, TLAPS

-----------------------------------------------------------------------------
(* The customer's page                                                     *)

\* Scans are numbered as they begin, and every one under way has begun.
ClientInv ==
    /\ C!LatestScanOnly
    /\ sequence \in Nat
    /\ DOMAIN flight \subseteq 1..sequence

\* Whatever is answered late, refused or aborted, only the scan begun last puts anything on
\* the page.
THEOREM PageShowsLatest == C!Init /\ [][C!Next]_(C!vars) => []C!LatestScanOnly
<1>1. C!Init => ClientInv
  BY DEF C!Init, ClientInv, C!LatestScanOnly
<1>2. ASSUME ClientInv, [C!Next]_(C!vars) PROVE ClientInv'
  <2> USE <1>2 DEF ClientInv, C!LatestScanOnly
  <2>1. CASE UNCHANGED C!scanVars
    BY <2>1 DEF C!scanVars
  <2>2. CASE C!StartScan
    <3>1. DOMAIN flight' = DOMAIN flight \union {sequence + 1}
      BY <2>2 DEF C!StartScan
    <3>2. sequence' = sequence + 1 /\ active' = sequence + 1 /\ scanning' = TRUE /\ scan' = NoScan
      BY <2>2 DEF C!StartScan
    <3> QED
      BY <3>1, <3>2
  <2>3. CASE C!Expires
    BY <2>3 DEF C!Expires
  <2>4. ASSUME NEW id \in DOMAIN flight, C!Settled(id),
               \/ ~C!IsCurrent(id) /\ scan' = scan
               \/ C!IsCurrent(id) /\ (scan' # NoScan => scan'.id = id)
        PROVE  ClientInv'
    <3>1. DOMAIN flight' = DOMAIN flight \ {id}
      BY <2>4 DEF C!Settled
    <3> QED
      BY <2>4, <3>1 DEF C!Settled, C!IsCurrent
  <2>5. ASSUME NEW id \in DOMAIN flight, C!Answered(id) \/ C!Failed(id) PROVE ClientInv'
    BY <2>4, <2>5 DEF C!Answered, C!Failed, C!IsCurrent
  <2> QED
    BY <2>1, <2>2, <2>3, <2>5 DEF C!Next, C!vars, C!Hydrate, C!SignIn, C!SignOut, C!CloudJournal, C!Allowance,
       C!TakeCloud, C!SaveAcceptedTrade, C!TakeAnswered, C!TakeLost, C!RemoveLocal
<1>3. ClientInv => C!LatestScanOnly
  BY DEF ClientInv
<1> QED
  BY <1>1, <1>2, <1>3, PTL

-----------------------------------------------------------------------------
(* The chart assistant                                                     *)

\* The sum of the assistant's module is the one of SumTheorems.
LEMMA SumsAgree == ASSUME NEW f, NEW X PROVE H!SumFunctionOnSet(f, X) = SumOn(f, X)
BY DEF SumOn, SumFunctionOnSet, FoldFunctionOnSet, MapThenFoldSet,
       H!SumFunctionOnSet, H!FoldFunctionOnSet, H!MapThenFoldSet

Decisions == {"ANALYSIS UNAVAILABLE", "NO TRADE", "WAIT", "TAKE TRADE"}
Quants == [market : Markets, scan : Nat, decision : Decisions, direction : STRING, price : Int, entry : Int,
           units : Int, margin : Int, valid : BOOLEAN]
Analyses == [verdict : H!Verdicts, about : Quants \union {NoQuant}, late : BOOLEAN]
Papered == [quant : Quants, ai : Analyses, status : {"open", "closed"},
            last : Int, mfe : Int, mae : Int, made : Int]
Portfolios == [starting : Int, balance : Int, signals : Seq(Papered)]

\* A recorded trade was a qualified setup with a margin, has made nothing while it is open,
\* and what it made lies between its extremes.
SignalOk(s) ==
    /\ s.quant.decision = "TAKE TRADE" /\ s.ai.verdict = s.quant.direction /\ s.quant.margin > 0
    /\ s.status = "open" => s.made = 0
    /\ s.mae <= s.made /\ s.made <= s.mfe

MoneyOk(p) == p.balance = p.starting + H!Realized(p)
CarriesOk(p) ==
    (\A i \in DOMAIN p.signals : p.signals[i].made >= -p.signals[i].quant.margin) =>
        H!Reserved(p) <= p.balance
PortfolioOk(p) ==
    /\ p \in Portfolios
    /\ \A i \in DOMAIN p.signals : SignalOk(p.signals[i])
    /\ MoneyOk(p) /\ CarriesOk(p)

Margins(p) == [i \in DOMAIN p.signals |-> p.signals[i].quant.margin]
Mades(p) == [i \in DOMAIN p.signals |-> p.signals[i].made]

\* What a portfolio reserves and has made are sums of integers over finite sets of its trades.
LEMMA PortfolioSums ==
    ASSUME NEW p \in Portfolios
    PROVE  /\ DOMAIN p.signals = 1..Len(p.signals) /\ Len(p.signals) \in Nat /\ IsFiniteSet(DOMAIN p.signals)
           /\ IsFiniteSet(H!OpenSignals(p)) /\ IsFiniteSet(H!ClosedSignals(p))
           /\ Ints(Margins(p), H!OpenSignals(p)) /\ Ints(Mades(p), H!ClosedSignals(p))
           /\ H!Reserved(p) = SumOn(Margins(p), H!OpenSignals(p))
           /\ H!Realized(p) = SumOn(Mades(p), H!ClosedSignals(p))
           /\ H!Reserved(p) \in Int /\ H!Realized(p) \in Int
<1>1. p.signals \in Seq(Papered) /\ DOMAIN p.signals = 1..Len(p.signals) /\ Len(p.signals) \in Nat
  BY DEF Portfolios
<1>2. IsFiniteSet(DOMAIN p.signals)
  BY <1>1, FS_Interval
<1>3. IsFiniteSet(H!OpenSignals(p)) /\ IsFiniteSet(H!ClosedSignals(p))
  BY <1>2, FS_Subset DEF H!OpenSignals, H!ClosedSignals
<1>4. Ints(Margins(p), H!OpenSignals(p)) /\ Ints(Mades(p), H!ClosedSignals(p))
  <2>1. \A i \in DOMAIN p.signals : p.signals[i] \in Papered
    BY <1>1
  <2>2. \A i \in DOMAIN p.signals : p.signals[i].quant.margin \in Int /\ p.signals[i].made \in Int
    BY <2>1 DEF Papered, Quants
  <2> QED
    BY <2>2 DEF Ints, Margins, Mades, H!OpenSignals, H!ClosedSignals
<1>5. H!Reserved(p) = SumOn(Margins(p), H!OpenSignals(p)) /\ H!Realized(p) = SumOn(Mades(p), H!ClosedSignals(p))
  BY SumsAgree DEF H!Reserved, H!Realized, Margins, Mades
<1>6. H!Reserved(p) \in Int /\ H!Realized(p) \in Int
  BY <1>3, <1>4, <1>5, SumIsInteger
<1> QED
  BY <1>1, <1>2, <1>3, <1>4, <1>5, <1>6

\* A mark moves the last price and the extremes of a trade and nothing else.
LEMMA MarkedIs ==
    ASSUME NEW s \in Papered, NEW price \in Int
    PROVE  /\ H!Pnl(s, price) \in Int
           /\ H!Marked(s, price) =
                [quant |-> s.quant, ai |-> s.ai, status |-> s.status, last |-> price,
                 mfe |-> H!Greater(s.mfe, H!Pnl(s, price)), mae |-> H!Lesser(s.mae, H!Pnl(s, price)),
                 made |-> s.made]
           /\ H!Marked(s, price) \in Papered
<1>1. H!Pnl(s, price) \in Int
  BY DEF H!Pnl, H!Side, Papered, Quants
<1> DEFINE pnl == H!Pnl(s, price)
           one == [s EXCEPT !.last = price]
           two == [one EXCEPT !.mfe = H!Greater(@, pnl)]
           three == [two EXCEPT !.mae = H!Lesser(@, pnl)]
<1>2. one = [quant |-> s.quant, ai |-> s.ai, status |-> s.status, last |-> price,
             mfe |-> s.mfe, mae |-> s.mae, made |-> s.made]
  BY DEF Papered
<1>3. two = [quant |-> s.quant, ai |-> s.ai, status |-> s.status, last |-> price,
             mfe |-> H!Greater(s.mfe, pnl), mae |-> s.mae, made |-> s.made]
  <2> HIDE DEF one
  <2> QED  BY <1>2
<1>4. three = [quant |-> s.quant, ai |-> s.ai, status |-> s.status, last |-> price,
             mfe |-> H!Greater(s.mfe, pnl), mae |-> H!Lesser(s.mae, pnl), made |-> s.made]
  <2> HIDE DEF two
  <2> QED  BY <1>3
<1>5. H!Marked(s, price) = three
  BY DEF H!Marked
<1> HIDE DEF three, pnl
<1>6. three \in Papered
  BY <1>1, <1>4 DEF Papered, H!Greater, H!Lesser, pnl
<1> QED
  BY <1>1, <1>4, <1>5, <1>6 DEF pnl

\* What the invariant of a portfolio says, field by field.
LEMMA PortfolioIs ==
    ASSUME NEW p, PortfolioOk(p)
    PROVE  /\ p \in Portfolios /\ p.signals \in Seq(Papered) /\ p.balance \in Int /\ p.starting \in Int
           /\ DOMAIN p.signals = 1..Len(p.signals) /\ Len(p.signals) \in Nat
           /\ \A i \in DOMAIN p.signals : p.signals[i] \in Papered /\ SignalOk(p.signals[i])
BY DEF PortfolioOk, Portfolios

\* A new portfolio carries nothing.
LEMMA NewPortfolioOk ==
    ASSUME NEW b \in Int, b >= 0
    PROVE  PortfolioOk(H!MakePortfolio(b))
<1> DEFINE p == H!MakePortfolio(b)
<1>1. p \in Portfolios /\ p.balance = b /\ p.starting = b /\ p.signals = <<>>
  BY DEF H!MakePortfolio, Portfolios
<1> HIDE DEF p
<1>2. H!OpenSignals(p) = {} /\ H!ClosedSignals(p) = {} /\ DOMAIN p.signals = {}
  BY <1>1 DEF H!OpenSignals, H!ClosedSignals
<1>3. H!Reserved(p) = 0 /\ H!Realized(p) = 0
  BY <1>1, <1>2, PortfolioSums, SumEmpty
<1>4. PortfolioOk(p)
  BY <1>1, <1>2, <1>3 DEF PortfolioOk, MoneyOk, CarriesOk
<1> QED
  BY <1>4 DEF p

\* Marks change no margin, no balance and no trade that is closed.
LEMMA MarkingKeepsPortfolio ==
    ASSUME NEW p, PortfolioOk(p), NEW marks \in SUBSET Quants
    PROVE  PortfolioOk(H!UpdatePaperMarks(p, marks))
<1> DEFINE new == [i \in DOMAIN p.signals |->
            LET s == p.signals[i]
                here == {q \in marks : q.market = s.quant.market} IN
            IF s.status = "open" /\ here # {}
            THEN H!Marked(s, (CHOOSE q \in here : TRUE).price) ELSE s]
           q == H!UpdatePaperMarks(p, marks)
<1>1. /\ p \in Portfolios /\ p.signals \in Seq(Papered) /\ p.balance \in Int /\ p.starting \in Int
      /\ DOMAIN p.signals = 1..Len(p.signals) /\ Len(p.signals) \in Nat
      /\ \A j \in DOMAIN p.signals : p.signals[j] \in Papered /\ SignalOk(p.signals[j])
  BY PortfolioIs
<1>2. \A i \in DOMAIN p.signals :
        \/ new[i] = p.signals[i]
        \/ p.signals[i].status = "open" /\ \E price \in Int : new[i] = H!Marked(p.signals[i], price)
  <2> SUFFICES ASSUME NEW i \in DOMAIN p.signals
               PROVE  \/ new[i] = p.signals[i]
                      \/ p.signals[i].status = "open" /\ \E price \in Int : new[i] = H!Marked(p.signals[i], price)
    OBVIOUS
  <2> DEFINE here == {r \in marks : r.market = p.signals[i].quant.market}
             pick == CHOOSE r \in here : TRUE
  <2>1. here # {} => pick \in Quants
    OBVIOUS
  <2>2. here # {} => pick.price \in Int
    <3> HIDE DEF pick
    <3> QED  BY <2>1 DEF Quants
  <2>3. new[i] = IF p.signals[i].status = "open" /\ here # {} THEN H!Marked(p.signals[i], pick.price) ELSE p.signals[i]
    OBVIOUS
  <2> HIDE DEF pick, here, new
  <2> QED
    BY <2>2, <2>3
<1>3. DOMAIN new = DOMAIN p.signals
  OBVIOUS
<1>0. new = [i \in DOMAIN p.signals |-> new[i]]
  OBVIOUS
<1> HIDE DEF new
<1>4. \A i \in DOMAIN p.signals :
        /\ new[i] \in Papered
        /\ SignalOk(new[i])
        /\ new[i].quant = p.signals[i].quant /\ new[i].status = p.signals[i].status /\ new[i].made = p.signals[i].made
  <2> SUFFICES ASSUME NEW i \in DOMAIN p.signals
               PROVE  /\ new[i] \in Papered
                      /\ SignalOk(new[i])
                      /\ new[i].quant = p.signals[i].quant /\ new[i].status = p.signals[i].status
                      /\ new[i].made = p.signals[i].made
    OBVIOUS
  <2>1. p.signals[i] \in Papered /\ SignalOk(p.signals[i])
    BY <1>1 DEF PortfolioOk
  <2>2. ASSUME NEW price \in Int, new[i] = H!Marked(p.signals[i], price), p.signals[i].status = "open"
        PROVE  /\ new[i] \in Papered
               /\ SignalOk(new[i])
               /\ new[i].quant = p.signals[i].quant /\ new[i].status = p.signals[i].status
               /\ new[i].made = p.signals[i].made
    <3> DEFINE s == p.signals[i]
               pnl == H!Pnl(s, price)
    <3>1. /\ pnl \in Int /\ new[i] \in Papered
          /\ new[i] = [quant |-> s.quant, ai |-> s.ai, status |-> s.status, last |-> price,
                       mfe |-> H!Greater(s.mfe, pnl), mae |-> H!Lesser(s.mae, pnl), made |-> s.made]
      BY <2>1, <2>2, MarkedIs, Zenon
    <3>2. s.mfe \in Int /\ s.mae \in Int /\ s.made \in Int
      BY <2>1 DEF Papered
    <3> HIDE DEF s, pnl
    <3>3. new[i].quant = s.quant /\ new[i].ai = s.ai /\ new[i].status = s.status /\ new[i].made = s.made
      BY <3>1
    <3>4. new[i].mae = H!Lesser(s.mae, pnl) /\ new[i].mfe = H!Greater(s.mfe, pnl)
      BY <3>1
    <3>5. SignalOk(s)
      BY <2>1 DEF s
    <3>6. H!Lesser(s.mae, pnl) <= s.made /\ s.made <= H!Greater(s.mfe, pnl)
      <4>1. \A a, b, c \in Int : (a <= c => H!Lesser(a, b) <= c) /\ (c <= a => c <= H!Greater(a, b))
        BY DEF H!Greater, H!Lesser
      <4> QED
        BY <3>1, <3>2, <3>5, <4>1 DEF SignalOk
    <3>7. SignalOk(new[i])
      BY <3>3, <3>4, <3>5, <3>6 DEF SignalOk
    <3> QED
      BY <3>1, <3>3, <3>7 DEF s
  <2>3. CASE new[i] = p.signals[i]
    BY <2>1, <2>3
  <2> QED
    BY <1>2, <2>2, <2>3, Zenon
<1>5. new \in Seq(Papered)
  <2>1. new \in [1..Len(p.signals) -> Papered]
    BY <1>0, <1>1, <1>4
  <2> QED
    BY <1>1, <2>1, SeqDef
<1>6. q = [starting |-> p.starting, balance |-> p.balance, signals |-> new]
  <2>1. q = [p EXCEPT !.signals = new]
    BY DEF H!UpdatePaperMarks, new
  <2> HIDE DEF q
  <2> QED
    BY <1>1, <2>1 DEF Portfolios
<1> HIDE DEF q
<1>7. q \in Portfolios /\ q.starting = p.starting /\ q.balance = p.balance /\ q.signals = new
  BY <1>1, <1>5, <1>6 DEF Portfolios
<1>8. /\ H!OpenSignals(q) = H!OpenSignals(p) /\ H!ClosedSignals(q) = H!ClosedSignals(p)
      /\ Margins(q) = Margins(p) /\ Mades(q) = Mades(p)
  BY <1>3, <1>4, <1>7 DEF H!OpenSignals, H!ClosedSignals, Margins, Mades
<1>9. H!Reserved(q) = H!Reserved(p) /\ H!Realized(q) = H!Realized(p)
  BY <1>1, <1>7, <1>8, PortfolioSums
<1>10. PortfolioOk(q)
  BY <1>3, <1>4, <1>7, <1>9 DEF PortfolioOk, MoneyOk, CarriesOk
<1> QED
  BY <1>10 DEF q

\* A trade as makePaperSignal makes it.
Opened(s) ==
    /\ s.status = "open" /\ s.made = 0 /\ s.mae = 0 /\ s.mfe = 0
    /\ s.quant.decision = "TAKE TRADE" /\ s.ai.verdict = s.quant.direction

\* A trade is added when the balance carries its margin besides what is reserved.
LEMMA AddingKeepsPortfolio ==
    ASSUME NEW p, PortfolioOk(p), NEW s \in Papered, Opened(s)
    PROVE  PortfolioOk(H!AddPaperSignal(p, s))
<1>1. /\ p \in Portfolios /\ p.signals \in Seq(Papered) /\ p.balance \in Int /\ p.starting \in Int
      /\ DOMAIN p.signals = 1..Len(p.signals) /\ Len(p.signals) \in Nat
      /\ \A j \in DOMAIN p.signals : p.signals[j] \in Papered /\ SignalOk(p.signals[j])
  BY PortfolioIs
<1> DEFINE q == [p EXCEPT !.signals = Append(@, s)]
           n == Len(p.signals) + 1
<1>2. CASE s.quant.margin <= 0 \/ s.quant.margin + H!Reserved(p) > p.balance
  BY <1>2, Zenon DEF H!AddPaperSignal
<1>3. CASE ~(s.quant.margin <= 0 \/ s.quant.margin + H!Reserved(p) > p.balance)
  <2>1. q = [starting |-> p.starting, balance |-> p.balance, signals |-> Append(p.signals, s)]
    BY <1>1 DEF Portfolios
  <2>2. H!AddPaperSignal(p, s) = q
    BY <1>3, Zenon DEF H!AddPaperSignal
  <2> HIDE DEF q
  <2>3. q \in Portfolios /\ q.starting = p.starting /\ q.balance = p.balance /\ q.signals = Append(p.signals, s)
    <3>1. Append(p.signals, s) \in Seq(Papered)
      BY <1>1
    <3> QED
      BY <1>1, <2>1, <3>1 DEF Portfolios
  <2>4. /\ DOMAIN q.signals = DOMAIN p.signals \union {n} /\ n \notin DOMAIN p.signals
        /\ q.signals[n] = s /\ \A i \in DOMAIN p.signals : q.signals[i] = p.signals[i]
    BY <1>1, <2>3
  <2> HIDE DEF n
  <2>5. H!OpenSignals(q) = H!OpenSignals(p) \union {n} /\ n \notin H!OpenSignals(p) /\ H!ClosedSignals(q) = H!ClosedSignals(p)
    BY <2>4 DEF H!OpenSignals, H!ClosedSignals, Opened
  <2>6. Margins(q)[n] = s.quant.margin /\ \A i \in H!OpenSignals(p) : Margins(q)[i] = Margins(p)[i]
    BY <2>4 DEF Margins, H!OpenSignals
  <2>7. \A i \in H!ClosedSignals(p) : Mades(q)[i] = Mades(p)[i]
    BY <2>4 DEF Mades, H!ClosedSignals
  <2>8. H!Realized(q) = H!Realized(p)
    <3>1. SumOn(Mades(p), H!ClosedSignals(p)) = SumOn(Mades(q), H!ClosedSignals(p))
      BY <1>1, <2>7, PortfolioSums, SumAgrees
    <3> QED
      BY <1>1, <2>3, <2>5, <3>1, PortfolioSums
  <2>9. H!Reserved(q) = s.quant.margin + H!Reserved(p)
    <3>1. SumOn(Margins(q), H!OpenSignals(q)) = Margins(q)[n] + SumOn(Margins(q), H!OpenSignals(p))
      BY <1>1, <2>3, <2>5, PortfolioSums, SumAddsTo
    <3>2. SumOn(Margins(q), H!OpenSignals(p)) = SumOn(Margins(p), H!OpenSignals(p))
      BY <1>1, <2>6, PortfolioSums, SumAgrees
    <3> QED
      BY <1>1, <2>3, <2>6, <3>1, <3>2, PortfolioSums
  <2>10. s.quant.margin \in Int /\ H!Reserved(p) \in Int
    <3>1. s.quant \in Quants
      BY DEF Papered
    <3> QED
      BY <1>1, <3>1, PortfolioSums DEF Quants
  <2>11. H!Reserved(q) <= q.balance /\ s.quant.margin > 0
    <3>1. s.quant.margin > 0 /\ s.quant.margin + H!Reserved(p) <= p.balance
      <4>1. \A a, b, c \in Int : ~(a <= 0 \/ a + b > c) => a + b <= c /\ a > 0
        OBVIOUS
      <4> QED
        BY <1>1, <1>3, <2>10, <4>1
    <3>2. H!Reserved(q) = s.quant.margin + H!Reserved(p) /\ q.balance = p.balance
      BY <2>3, <2>9
    <3> QED
      BY <3>1, <3>2
  <2>12. \A i \in DOMAIN q.signals : SignalOk(q.signals[i])
    <3>1. SignalOk(s)
      <4>1. 0 <= 0
        OBVIOUS
      <4> QED
        BY <2>11, <4>1, Zenon DEF SignalOk, Opened
    <3> QED
      BY <1>1, <2>4, <3>1
  <2>13. PortfolioOk(q)
    BY <2>3, <2>8, <2>11, <2>12 DEF PortfolioOk, MoneyOk, CarriesOk
  <2> QED
    BY <2>2, <2>13
<1> QED
  BY <1>2, <1>3

\* A close gives up the margin and books what the trade made.
LEMMA ClosingKeepsPortfolio ==
    ASSUME NEW p, PortfolioOk(p), NEW i \in DOMAIN p.signals, p.signals[i].status = "open"
    PROVE  PortfolioOk(H!ClosePaperSignal(p, i))
<1>1. /\ p \in Portfolios /\ p.signals \in Seq(Papered) /\ p.balance \in Int /\ p.starting \in Int
      /\ DOMAIN p.signals = 1..Len(p.signals) /\ Len(p.signals) \in Nat
      /\ \A j \in DOMAIN p.signals : p.signals[j] \in Papered /\ SignalOk(p.signals[j])
  BY PortfolioIs
<1> DEFINE s == p.signals[i]
           pnl == H!Pnl(s, s.last)
           m == H!Marked(s, s.last)
           shut == [m EXCEPT !.status = "closed"]
           closed == [shut EXCEPT !.made = pnl]
           moved == [p EXCEPT !.balance = @ + pnl]
           q == [moved EXCEPT !.signals[i] = closed]
<1>2. s \in Papered /\ SignalOk(s) /\ s.last \in Int
  BY <1>1 DEF Papered
<1>3. /\ pnl \in Int /\ m \in Papered
      /\ m = [quant |-> s.quant, ai |-> s.ai, status |-> s.status, last |-> s.last,
              mfe |-> H!Greater(s.mfe, pnl), mae |-> H!Lesser(s.mae, pnl), made |-> s.made]
  BY <1>2, MarkedIs, Zenon
<1>4. H!ClosePaperSignal(p, i) = q
  BY DEF H!ClosePaperSignal
<1> HIDE DEF s, pnl
<1>5. shut = [quant |-> s.quant, ai |-> s.ai, status |-> "closed", last |-> s.last,
              mfe |-> H!Greater(s.mfe, pnl), mae |-> H!Lesser(s.mae, pnl), made |-> s.made]
  <2> HIDE DEF m
  <2> QED  BY <1>3
<1>6. closed = [quant |-> s.quant, ai |-> s.ai, status |-> "closed", last |-> s.last,
              mfe |-> H!Greater(s.mfe, pnl), mae |-> H!Lesser(s.mae, pnl), made |-> pnl]
  <2> HIDE DEF shut
  <2> QED  BY <1>5
<1> HIDE DEF closed
<1>7. /\ closed \in Papered
      /\ closed.quant = s.quant /\ closed.ai = s.ai /\ closed.status = "closed" /\ closed.made = pnl
  BY <1>2, <1>3, <1>6 DEF Papered, H!Greater, H!Lesser
<1>8. SignalOk(closed)
  <2>1. closed.mae = H!Lesser(s.mae, pnl) /\ closed.mfe = H!Greater(s.mfe, pnl)
    BY <1>6
  <2>2. \A a, b \in Int : H!Lesser(a, b) <= b /\ b <= H!Greater(a, b)
    BY DEF H!Lesser, H!Greater
  <2>3. s.mae \in Int /\ s.mfe \in Int
    BY <1>2 DEF Papered
  <2> QED
    BY <1>2, <1>3, <1>7, <2>1, <2>2, <2>3 DEF SignalOk
<1>9. moved = [starting |-> p.starting, balance |-> p.balance + pnl, signals |-> p.signals]
  BY <1>1 DEF Portfolios
<1>10. q = [starting |-> p.starting, balance |-> p.balance + pnl, signals |-> [p.signals EXCEPT ![i] = closed]]
  <2> HIDE DEF moved
  <2> QED  BY <1>9
<1> HIDE DEF q
<1>11. p.balance \in Int /\ p.starting \in Int
  BY <1>1 DEF Portfolios
<1>12. [p.signals EXCEPT ![i] = closed] \in Seq(Papered)
  BY <1>1, <1>7
<1>13. /\ q.starting = p.starting /\ q.balance = p.balance + pnl /\ q.signals = [p.signals EXCEPT ![i] = closed]
       /\ q \in Portfolios
  <2>1. p.balance + pnl \in Int
    BY <1>3, <1>11
  <2> QED
    BY <1>10, <1>11, <1>12, <2>1 DEF Portfolios
<1>14. /\ DOMAIN q.signals = DOMAIN p.signals /\ q.signals[i] = closed
       /\ \A j \in DOMAIN p.signals \ {i} : q.signals[j] = p.signals[j]
  BY <1>1, <1>13
<1>15. /\ i \in H!OpenSignals(p) /\ H!OpenSignals(q) = H!OpenSignals(p) \ {i}
       /\ i \notin H!ClosedSignals(p) /\ H!ClosedSignals(q) = H!ClosedSignals(p) \union {i}
  BY <1>7, <1>14 DEF H!OpenSignals, H!ClosedSignals
<1>16. \A j \in H!OpenSignals(q) : Margins(q)[j] = Margins(p)[j]
  BY <1>14, <1>15 DEF Margins, H!OpenSignals
<1>17. (\A j \in H!ClosedSignals(p) : Mades(q)[j] = Mades(p)[j]) /\ Mades(q)[i] = pnl /\ Margins(p)[i] = s.quant.margin
  <2>1. \A j \in H!ClosedSignals(p) : j \in DOMAIN p.signals \ {i}
    BY <1>15 DEF H!ClosedSignals
  <2>2. \A j \in H!ClosedSignals(p) : Mades(q)[j] = Mades(p)[j]
    BY <1>14, <2>1 DEF Mades
  <2>3. Mades(q)[i] = pnl
    BY <1>7, <1>14 DEF Mades
  <2>4. Margins(p)[i] = s.quant.margin
    BY DEF Margins, s
  <2> QED
    BY <2>2, <2>3, <2>4
<1>18. H!Realized(q) = pnl + H!Realized(p)
  <2>1. SumOn(Mades(q), H!ClosedSignals(q)) = Mades(q)[i] + SumOn(Mades(q), H!ClosedSignals(p))
    <3>1. IsFiniteSet(H!ClosedSignals(p)) /\ Ints(Mades(q), H!ClosedSignals(p) \union {i})
      BY <1>1, <1>13, <1>15, PortfolioSums
    <3> QED
      BY <1>15, <3>1, SumAddsTo
  <2>2. SumOn(Mades(q), H!ClosedSignals(p)) = SumOn(Mades(p), H!ClosedSignals(p))
    BY <1>1, <1>17, PortfolioSums, SumAgrees
  <2> QED
    BY <1>1, <1>13, <1>17, <2>1, <2>2, PortfolioSums
<1>19. H!Reserved(p) = s.quant.margin + H!Reserved(q)
  <2>1. SumOn(Margins(p), H!OpenSignals(p)) = Margins(p)[i] + SumOn(Margins(p), H!OpenSignals(q))
    <3>1. IsFiniteSet(H!OpenSignals(p)) /\ Ints(Margins(p), H!OpenSignals(p))
      BY <1>1, PortfolioSums
    <3>2. H!OpenSignals(q) = H!OpenSignals(p) \ {i} /\ i \in H!OpenSignals(p)
      BY <1>15
    <3>3. SumOn(Margins(p), H!OpenSignals(p)) = Margins(p)[i] + SumOn(Margins(p), H!OpenSignals(p) \ {i})
      BY <3>1, <3>2, SumTakesOut
    <3> QED
      BY <3>2, <3>3
  <2>2. SumOn(Margins(q), H!OpenSignals(q)) = SumOn(Margins(p), H!OpenSignals(q))
    BY <1>13, <1>16, PortfolioSums, SumAgrees
  <2> QED
    BY <1>1, <1>13, <1>17, <2>1, <2>2, PortfolioSums
<1>20. /\ H!Realized(p) \in Int /\ H!Reserved(p) \in Int /\ H!Reserved(q) \in Int /\ H!Realized(q) \in Int
       /\ s.quant.margin \in Int
  BY <1>1, <1>2, <1>13, PortfolioSums DEF Papered, Quants
<1>21. MoneyOk(q)
  <2>1. p.balance = p.starting + H!Realized(p)
    BY DEF PortfolioOk, MoneyOk
  <2> QED
    BY <1>3, <1>11, <1>13, <1>18, <1>20, <2>1 DEF MoneyOk
<1>22. CarriesOk(q)
  <2> SUFFICES ASSUME \A j \in DOMAIN q.signals : q.signals[j].made >= -q.signals[j].quant.margin
               PROVE  H!Reserved(q) <= q.balance
    BY DEF CarriesOk
  <2>1. pnl >= -s.quant.margin
    BY <1>7, <1>14
  <2>2. s.made = 0 /\ s.quant.margin > 0
    BY <1>2 DEF SignalOk, s
  <2>3. p.signals[i].made >= -p.signals[i].quant.margin
    BY <1>20, <2>2 DEF s
  <2>4. H!Reserved(p) <= p.balance
    BY <1>14, <2>3 DEF PortfolioOk, CarriesOk
  <2> QED
    BY <1>3, <1>11, <1>13, <1>19, <1>20, <2>1, <2>4
<1>23. \A j \in DOMAIN q.signals : SignalOk(q.signals[j])
  BY <1>8, <1>14 DEF PortfolioOk
<1> QED
  BY <1>4, <1>13, <1>21, <1>22, <1>23 DEF PortfolioOk

\* A question is about a snapshot of a scan made, or about none.
Asks == [kind : {"analyze", "chat"}, about : Quants \union {NoQuant}]
Pages == [market : Markets \union {NoQuant}, offered : SUBSET Markets, quants : SUBSET Quants,
          quant : Quants \union {NoQuant}, analysis : Analyses \union {NoAnalysis},
          asking : Asks \union {NoAsk}, fallback : BOOLEAN]
PageOf(market, offered, quants, quant, analysis, asking, fallback) ==
    [market |-> market, offered |-> offered, quants |-> quants, quant |-> quant,
     analysis |-> analysis, asking |-> asking, fallback |-> fallback]
Made(q) == q # NoQuant => q.scan <= scanned
PageOk(g) ==
    /\ \A q \in g.quants : Made(q)
    /\ Made(g.quant)
    /\ g.analysis # NoAnalysis =>
          /\ g.analysis \in Analyses /\ Made(g.analysis.about)
          /\ ~g.analysis.late /\ g.quant # NoQuant =>
                \/ g.quant = g.analysis.about
                \/ g.analysis.about # NoQuant => g.quant.scan > g.analysis.about.scan
    /\ g.asking # NoAsk => g.asking \in Asks /\ Made(g.asking.about)

AssistantInv ==
    /\ scanned \in Nat
    /\ page \in [Tabs -> Pages] /\ \A t \in Tabs : PageOk(page[t])
    /\ portfolio \in [Tabs -> Portfolios] /\ \A t \in Tabs : PortfolioOk(portfolio[t])
    /\ PortfolioOk(H!LoadPortfolio(saved))
    /\ H!ReloadLosesNothing

\* What a choice, an answer, the answer of a chat and a scan write to a page.
Choosing(g, m, q) == [g EXCEPT !.market = m, !.quant = q, !.analysis = NoAnalysis]
Answering(g, v) == [g EXCEPT !.asking = NoAsk, !.analysis = v]
Chatting(g, f) == [g EXCEPT !.asking = NoAsk, !.fallback = f]
Scanning(g, m, o, qs, q) == [g EXCEPT !.market = m, !.offered = o, !.quants = qs, !.quant = q]
USE DEF PageOf

\* ... and what they leave of it.
LEMMA ChoosingIs ==
    ASSUME NEW g \in Pages, NEW m, NEW q
    PROVE  Choosing(g, m, q) =
                PageOf(m, g.offered, g.quants, q, NoAnalysis, g.asking, g.fallback)
<1>1. g = PageOf(g.market, g.offered, g.quants, g.quant, g.analysis, g.asking, g.fallback)
  BY DEF Pages
<1> DEFINE
      u1 == [g EXCEPT !.market = m]
      u2 == [u1 EXCEPT !.quant = q]
      u3 == [u2 EXCEPT !.analysis = NoAnalysis]
<1>2. u1 = PageOf(m, g.offered, g.quants, g.quant, g.analysis, g.asking, g.fallback)
  BY <1>1
<1>3. u2 = PageOf(m, g.offered, g.quants, q, g.analysis, g.asking, g.fallback)
  <2> HIDE DEF u1
  <2> QED  BY <1>2
<1>4. u3 = PageOf(m, g.offered, g.quants, q, NoAnalysis, g.asking, g.fallback)
  <2> HIDE DEF u2
  <2> QED  BY <1>3
<1>5. Choosing(g, m, q) = u3
  BY DEF Choosing
<1> HIDE DEF u3
<1> QED
  BY <1>4, <1>5

\* The page a scan writes, field by field.
LEMMA ScanningIs ==
    ASSUME NEW g \in Pages, NEW m, NEW o, NEW qs, NEW q
    PROVE  Scanning(g, m, o, qs, q) = PageOf(m, o, qs, q, g.analysis, g.asking, g.fallback)
<1>1. g = PageOf(g.market, g.offered, g.quants, g.quant, g.analysis, g.asking, g.fallback)
  BY DEF Pages
<1> DEFINE
      u1 == [g EXCEPT !.market = m]
      u2 == [u1 EXCEPT !.offered = o]
      u3 == [u2 EXCEPT !.quants = qs]
      u4 == [u3 EXCEPT !.quant = q]
<1>2. u1 = PageOf(m, g.offered, g.quants, g.quant, g.analysis, g.asking, g.fallback)
  BY <1>1
<1>3. u2 = PageOf(m, o, g.quants, g.quant, g.analysis, g.asking, g.fallback)
  <2> HIDE DEF u1
  <2> QED  BY <1>2
<1>4. u3 = PageOf(m, o, qs, g.quant, g.analysis, g.asking, g.fallback)
  <2> HIDE DEF u2
  <2> QED  BY <1>3
<1>5. u4 = PageOf(m, o, qs, q, g.analysis, g.asking, g.fallback)
  <2> HIDE DEF u3
  <2> QED  BY <1>4
<1>6. Scanning(g, m, o, qs, q) = u4
  BY DEF Scanning
<1> HIDE DEF u4
<1> QED
  BY <1>5, <1>6

\* The page the answer of a chat leaves, field by field.
LEMMA ChattingIs ==
    ASSUME NEW g \in Pages, NEW f
    PROVE  Chatting(g, f) = PageOf(g.market, g.offered, g.quants, g.quant, g.analysis, NoAsk, f)
<1>1. g = PageOf(g.market, g.offered, g.quants, g.quant, g.analysis, g.asking, g.fallback)
  BY DEF Pages
<1> DEFINE u1 == [g EXCEPT !.asking = NoAsk]
           u2 == [u1 EXCEPT !.fallback = f]
<1>2. u1 = PageOf(g.market, g.offered, g.quants, g.quant, g.analysis, NoAsk, g.fallback)
  BY <1>1
<1>3. u2 = PageOf(g.market, g.offered, g.quants, g.quant, g.analysis, NoAsk, f)
  <2> HIDE DEF u1
  <2> QED  BY <1>2
<1>4. Chatting(g, f) = u2
  BY DEF Chatting
<1> HIDE DEF u2
<1> QED
  BY <1>3, <1>4

\* The page an answer writes, field by field.
LEMMA AnsweringIs ==
    ASSUME NEW g \in Pages, NEW v
    PROVE  Answering(g, v) = PageOf(g.market, g.offered, g.quants, g.quant, v, NoAsk, g.fallback)
<1>1. g = PageOf(g.market, g.offered, g.quants, g.quant, g.analysis, g.asking, g.fallback)
  BY DEF Pages
<1> DEFINE a1 == [g EXCEPT !.asking = NoAsk]
           a2 == [a1 EXCEPT !.analysis = v]
<1>2. a1 = PageOf(g.market, g.offered, g.quants, g.quant, g.analysis, NoAsk, g.fallback)
  BY <1>1
<1>3. a2 = PageOf(g.market, g.offered, g.quants, g.quant, v, NoAsk, g.fallback)
  <2> HIDE DEF a1
  <2> QED  BY <1>2
<1>4. Answering(g, v) = a2
  BY DEF Answering
<1> HIDE DEF a2
<1> QED
  BY <1>3, <1>4

\* What an answer may do: it fills in the page, and no portfolio.
LEMMA PageMoves ==
    ASSUME AssistantInv, NEW t \in Tabs, NEW to \in Pages, page' = [page EXCEPT ![t] = to],
           scanned' \in Nat, scanned <= scanned', PageOk(to)'
    PROVE  page' \in [Tabs -> Pages] /\ \A u \in Tabs : PageOk(page[u])'
<1>1. \A u \in Tabs \ {t} : page'[u] = page[u]
  BY DEF AssistantInv
<1>2. \A q \in Quants \union {NoQuant} : Made(q) => Made(q)'
  BY DEF Made, Quants, AssistantInv
<1>3. ASSUME NEW u \in Tabs \ {t} PROVE PageOk(page[u])'
  <2>0. PICK g : g = page[u]
    OBVIOUS
  <2>1. g \in Pages /\ PageOk(g) /\ page'[u] = g
    BY <1>1, <2>0 DEF AssistantInv
  <2>2. g.quants \subseteq Quants /\ g.quant \in Quants \union {NoQuant}
    BY <2>1 DEF Pages
  <2>3. g.analysis # NoAnalysis /\ g.analysis \in Analyses => g.analysis.about \in Quants \union {NoQuant}
    BY DEF Analyses
  <2>4. g.asking # NoAsk /\ g.asking \in Asks => g.asking.about \in Quants \union {NoQuant}
    BY DEF Asks
  <2>5. PageOk(g)'
    BY <1>2, <2>1, <2>2, <2>3, <2>4 DEF PageOk
  <2> QED
    BY <2>1, <2>5
<1>4. page' \in [Tabs -> Pages]
  BY DEF AssistantInv
<1> QED
  BY <1>3, <1>4

\* So do a choice and an answer that touch no portfolio.
LEMMA ShowingKeeps ==
    ASSUME AssistantInv, NEW t \in Tabs, NEW to \in Pages, PageOk(to), H!Shows(t, to),
           UNCHANGED <<portfolio, saved, scanned>>
    PROVE  AssistantInv'
<1>1. scanned' \in Nat /\ scanned <= scanned' /\ PageOk(to)'
  BY DEF AssistantInv, PageOk, Made
<1>2. page' \in [Tabs -> Pages] /\ \A u \in Tabs : PageOk(page[u])'
  BY <1>1, PageMoves DEF H!Shows
<1> QED
  BY <1>1, <1>2 DEF AssistantInv, H!ReloadLosesNothing

\* What is stored is what a reload brings.
LEMMA StoredIsLoaded == ASSUME NEW p \in Portfolios PROVE H!LoadPortfolio(p) = p
<1>1. DOMAIN p = {"starting", "balance", "signals"} /\ DOMAIN H!NoPortfolio = {}
  BY DEF Portfolios, H!NoPortfolio
<1>2. p # H!NoPortfolio
  BY <1>1
<1> QED
  BY <1>2, Zenon DEF H!LoadPortfolio

\* Saving puts the same sound portfolio on the page and in localStorage.
LEMMA SavingKeeps ==
    ASSUME AssistantInv, NEW t \in Tabs, NEW p, PortfolioOk(p), H!Save(t, p)
    PROVE  /\ portfolio' \in [Tabs -> Portfolios] /\ \A u \in Tabs : PortfolioOk(portfolio'[u])
           /\ PortfolioOk(H!LoadPortfolio(saved'))
           /\ H!ReloadLosesNothing'
<1>1. portfolio' = [portfolio EXCEPT ![t] = p] /\ saved' = p
  BY DEF H!Save
<1>2. p \in Portfolios
  BY PortfolioIs
<1>3. portfolio' \in [Tabs -> Portfolios] /\ portfolio'[t] = p /\ \A u \in Tabs \ {t} : portfolio'[u] = portfolio[u]
  BY <1>1, <1>2 DEF AssistantInv
<1>4. H!LoadPortfolio(saved') = p
  BY <1>1, <1>2, StoredIsLoaded
<1> QED
  BY <1>3, <1>4 DEF AssistantInv, H!ReloadLosesNothing

\* What is papered was agreed on by the scan and the model.
LEMMA PaperedWasQualified ==
    ASSUME NEW quant \in Quants, NEW analysis \in Analyses,
           H!FuseDecision(quant, analysis) \in {"LONG", "SHORT"}, quant # NoQuant, analysis # NoAnalysis
    PROVE  H!MakePaperSignal(quant, analysis) \in Papered /\ Opened(H!MakePaperSignal(quant, analysis))
<1>1. quant.decision \in Decisions /\ quant.entry \in Int
  BY DEF Quants
<1>2. quant.decision = "TAKE TRADE" /\ analysis.verdict = quant.direction
  BY <1>1 DEF H!FuseDecision, Decisions
<1> DEFINE s == H!MakePaperSignal(quant, analysis)
<1>3. s = [quant |-> quant, ai |-> analysis, status |-> "open", last |-> quant.entry,
           mfe |-> 0, mae |-> 0, made |-> 0]
  BY DEF H!MakePaperSignal
<1> HIDE DEF s
<1>4. s \in Papered
  BY <1>1, <1>3 DEF Papered
<1>5. Opened(s)
  BY <1>2, <1>3 DEF Opened
<1> QED
  BY <1>4, <1>5 DEF s

\* What the state of the assistant promises follows from what every page and portfolio keeps.
LEMMA AssistantInvHolds == AssistantInv => H!AssistantHolds
<1> SUFFICES ASSUME AssistantInv PROVE H!AssistantHolds
  OBVIOUS
<1>1. H!MoneyAddsUp
  BY DEF H!MoneyAddsUp, AssistantInv, PortfolioOk, MoneyOk
<1>2. H!Solvent
  BY DEF H!Solvent, AssistantInv, PortfolioOk, CarriesOk
<1>3. H!AnsweredAboutThis
  BY DEF H!AnsweredAboutThis, AssistantInv, PageOk
<1>4. H!TradesWereQualified
  BY DEF H!TradesWereQualified, AssistantInv, PortfolioOk, SignalOk
<1> QED
  BY <1>1, <1>2, <1>3, <1>4 DEF H!AssistantHolds, AssistantInv

\* The portfolio adds up, carries what it holds and survives a reload; what is in it was
\* qualified; and an answer is about the selection unless that moved meanwhile: for any
\* tabs, markets, scans and answers.
THEOREM AssistantKeepsBooks == H!AssistantInit /\ [][H!AssistantNext]_(H!assistantVars) => []H!AssistantHolds
<1>1. ASSUME H!AssistantInit PROVE AssistantInv
  <2>1. /\ page = [t \in Tabs |-> H!Fresh] /\ portfolio = [t \in Tabs |-> H!LoadPortfolio(saved)]
        /\ saved = H!NoPortfolio /\ scanned = 0
    BY <1>1 DEF H!AssistantInit
  <2>2. PortfolioOk(H!LoadPortfolio(saved))
    <3>1. H!LoadPortfolio(saved) = H!MakePortfolio(FirstBalance)
      BY <2>1 DEF H!LoadPortfolio
    <3>2. FirstBalance \in Nat
      BY AssistantAssumption, Zenon
    <3>3. FirstBalance \in Int /\ FirstBalance >= 0
      BY <3>2
    <3> QED
      BY <3>1, <3>3, NewPortfolioOk
  <2>3. H!Fresh \in Pages
    BY AssistantAssumption DEF H!Fresh, Pages
  <2>4. \A t \in Tabs : PageOk(page[t])
    BY <2>1 DEF PageOk, H!Fresh, Made
  <2>5. H!LoadPortfolio(saved) \in Portfolios
    BY <2>2, PortfolioIs
  <2>6. portfolio \in [Tabs -> Portfolios] /\ \A t \in Tabs : portfolio[t] = H!LoadPortfolio(saved)
    <3> HIDE DEF H!LoadPortfolio
    <3> QED  BY <2>1, <2>5
  <2>7. page \in [Tabs -> Pages] /\ scanned \in Nat
    BY <2>1, <2>3
  <2> QED
    BY <2>2, <2>4, <2>6, <2>7, AssistantAssumption, Zenon DEF AssistantInv, H!ReloadLosesNothing
<1>2. ASSUME AssistantInv, [H!AssistantNext]_(H!assistantVars) PROVE AssistantInv'
  <2>1. CASE UNCHANGED H!assistantVars
    BY <1>2, <2>1 DEF H!assistantVars, AssistantInv, PageOk, Made, H!ReloadLosesNothing
  <2> SUFFICES ASSUME NEW t \in Tabs,
          \/ H!HandleScan(t) \/ H!SelectQuant(t) \/ H!ClearCharts(t)
          \/ H!Analyze(t) \/ H!SendChat(t) \/ H!Answered(t) \/ H!Refused(t) \/ H!ChatAnswered(t)
          \/ H!PaperSetup(t) \/ H!Close(t) \/ H!ResetPaper(t) \/ H!Reload(t)
               PROVE  AssistantInv'
    BY <1>2, <2>1, Zenon DEF H!AssistantNext
  <2> DEFINE g == page[t]
  <2>2. /\ g \in Pages /\ PageOk(g)
        /\ g = PageOf(g.market, g.offered, g.quants, g.quant, g.analysis, g.asking, g.fallback)
    BY <1>2 DEF AssistantInv, Pages
  <2> HIDE DEF g
  <2>3. CASE H!ClearCharts(t)
    <3> DEFINE to == PageOf(g.market, g.offered, g.quants, g.quant, NoAnalysis, g.asking, g.fallback)
    <3>1. H!Shows(t, to) /\ UNCHANGED <<portfolio, saved, scanned>>
      BY <2>2, <2>3 DEF H!ClearCharts, g
    <3>2. to \in Pages /\ PageOk(to)
      BY <2>2 DEF Pages, PageOk
    <3> QED
      BY <1>2, <3>1, <3>2, ShowingKeeps
  <2>4. CASE H!SelectQuant(t)
    <3>1. PICK a \in g.offered : H!Shows(t, Choosing(g, a, H!QuantOf(g.quants, a)))
      BY <2>4 DEF H!SelectQuant, Choosing, g
    <3> DEFINE q == H!QuantOf(g.quants, a)
    <3>2. q \in g.quants \union {NoQuant} /\ a \in Markets
      BY <2>2 DEF H!QuantOf, Pages
    <3> HIDE DEF q
    <3> DEFINE to == PageOf(a, g.offered, g.quants, q, NoAnalysis, g.asking, g.fallback)
    <3>3. to = Choosing(g, a, q)
      BY <2>2, ChoosingIs, Zenon
    <3>4. H!Shows(t, to) /\ UNCHANGED <<portfolio, saved, scanned>>
      BY <2>4, <3>1, <3>3, Zenon DEF H!SelectQuant, q
    <3>5. to \in Pages /\ PageOk(to)
      BY <2>2, <3>2 DEF Pages, PageOk, Made
    <3> QED
      BY <1>2, <3>4, <3>5, ShowingKeeps
  <2>5. CASE H!Analyze(t)
    <3> DEFINE ask == [kind |-> "analyze", about |-> g.quant]
               to == PageOf(g.market, g.offered, g.quants, g.quant, g.analysis, ask, g.fallback)
    <3>1. H!Shows(t, to) /\ UNCHANGED <<portfolio, saved, scanned>>
      BY <2>2, <2>5 DEF H!Analyze, g
    <3>2. to \in Pages /\ PageOk(to)
      BY <2>2 DEF Pages, PageOk, Asks
    <3> QED
      BY <1>2, <3>1, <3>2, ShowingKeeps
  <2>6. CASE H!SendChat(t)
    <3> DEFINE ask == [kind |-> "chat", about |-> NoQuant]
               to == PageOf(g.market, g.offered, g.quants, g.quant, g.analysis, ask, g.fallback)
    <3>1. H!Shows(t, to) /\ UNCHANGED <<portfolio, saved, scanned>>
      BY <2>2, <2>6 DEF H!SendChat, g
    <3>2. to \in Pages /\ PageOk(to)
      BY <2>2 DEF Pages, PageOk, Asks, Made
    <3> QED
      BY <1>2, <3>1, <3>2, ShowingKeeps
  <2>7. CASE H!Refused(t)
    <3> DEFINE to == PageOf(g.market, g.offered, g.quants, g.quant, NoAnalysis, NoAsk, g.fallback)
    <3>1. to = Answering(g, NoAnalysis)
      BY <2>2, AnsweringIs, Zenon
    <3>2. H!Shows(t, Answering(g, NoAnalysis)) /\ UNCHANGED <<portfolio, saved, scanned>>
      BY <2>7 DEF H!Refused, Answering, g
    <3>3. H!Shows(t, to) /\ UNCHANGED <<portfolio, saved, scanned>>
      BY <3>1, <3>2, Zenon
    <3>4. to \in Pages /\ PageOk(to)
      BY <2>2 DEF Pages, PageOk
    <3> QED
      BY <1>2, <3>3, <3>4, ShowingKeeps
  <2>8. CASE H!ChatAnswered(t)
    <3>1. PICK f \in BOOLEAN : H!Shows(t, Chatting(g, f))
      BY <2>8 DEF H!ChatAnswered, Chatting, g
    <3> DEFINE to == PageOf(g.market, g.offered, g.quants, g.quant, g.analysis, NoAsk, f)
    <3>2. to = Chatting(g, f)
      BY <2>2, ChattingIs, Zenon
    <3>3. H!Shows(t, to) /\ UNCHANGED <<portfolio, saved, scanned>>
      BY <2>8, <3>1, <3>2, Zenon DEF H!ChatAnswered
    <3>4. to \in Pages /\ PageOk(to)
      BY <2>2 DEF Pages, PageOk
    <3> QED
      BY <1>2, <3>3, <3>4, ShowingKeeps
  <2>9. CASE H!Answered(t)
    <3>1. PICK v \in H!Verdicts :
            H!Shows(t, Answering(g, [verdict |-> v, about |-> g.asking.about, late |-> g.asking.about # g.quant]))
      BY <2>9 DEF H!Answered, Answering, g
    <3> DEFINE new == [verdict |-> v, about |-> g.asking.about, late |-> g.asking.about # g.quant]
               to == PageOf(g.market, g.offered, g.quants, g.quant, new, NoAsk, g.fallback)
    <3>2. to = Answering(g, new)
      BY <2>2, AnsweringIs, Zenon
    <3>3. H!Shows(t, Answering(g, new)) /\ UNCHANGED <<portfolio, saved, scanned>> /\ g.asking # NoAsk
      BY <2>9, <3>1 DEF H!Answered, g
    <3>4. H!Shows(t, to) /\ UNCHANGED <<portfolio, saved, scanned>> /\ g.asking # NoAsk
      BY <3>2, <3>3, Zenon
    <3>5. g.asking.about \in Quants \union {NoQuant} /\ Made(g.asking.about)
      BY <2>2, <3>4 DEF PageOk, Asks
    <3>6. new \in Analyses
      BY <3>1, <3>5 DEF Analyses
    <3>7. to \in Pages /\ PageOk(to)
      BY <2>2, <3>5, <3>6 DEF Pages, PageOk
    <3> QED
      BY <1>2, <3>4, <3>7, ShowingKeeps
  \* A step that saves a sound portfolio and shows nothing else.
  <2>10. ASSUME NEW p, PortfolioOk(p), H!Save(t, p), UNCHANGED <<page, scanned>> PROVE AssistantInv'
    <3>1. /\ portfolio' \in [Tabs -> Portfolios] /\ \A u \in Tabs : PortfolioOk(portfolio'[u])
          /\ PortfolioOk(H!LoadPortfolio(saved')) /\ H!ReloadLosesNothing'
      BY <1>2, <2>10, SavingKeeps
    <3> QED
      BY <1>2, <2>10, <3>1 DEF AssistantInv, PageOk, Made
  <2>11. CASE H!PaperSetup(t)
    <3>1. /\ H!MayPaper(g.quant, g.analysis) /\ UNCHANGED <<page, scanned>>
          /\ H!Save(t, H!AddPaperSignal(portfolio[t], H!MakePaperSignal(g.quant, g.analysis)))
      BY <2>11 DEF H!PaperSetup, g
    <3>2. g.quant \in Quants /\ g.analysis \in Analyses
      BY <2>2, <3>1 DEF H!MayPaper, Pages
    <3>3. H!MakePaperSignal(g.quant, g.analysis) \in Papered /\ Opened(H!MakePaperSignal(g.quant, g.analysis))
      BY <3>1, <3>2, PaperedWasQualified, Zenon DEF H!MayPaper
    <3>4. PortfolioOk(H!AddPaperSignal(portfolio[t], H!MakePaperSignal(g.quant, g.analysis)))
      BY <1>2, <3>3, AddingKeepsPortfolio, Zenon DEF AssistantInv
    <3> QED
      BY <2>10, <3>1, <3>4
  <2>12. CASE H!Close(t)
    <3>1. PICK i \in DOMAIN portfolio[t].signals :
             portfolio[t].signals[i].status = "open" /\ H!Save(t, H!ClosePaperSignal(portfolio[t], i))
      BY <2>12 DEF H!Close
    <3>2. PortfolioOk(H!ClosePaperSignal(portfolio[t], i))
      BY <1>2, <3>1, ClosingKeepsPortfolio, Zenon DEF AssistantInv
    <3> QED
      BY <2>10, <2>12, <3>1, <3>2 DEF H!Close
  <2>13. CASE H!ResetPaper(t)
    <3>1. PICK b \in Balances : H!Save(t, H!MakePortfolio(b))
      BY <2>13 DEF H!ResetPaper
    <3>2. b \in Nat
      BY AssistantAssumption, Zenon
    <3>3. b \in Int /\ b >= 0
      BY <3>2
    <3>4. PortfolioOk(H!MakePortfolio(b))
      BY <3>3, NewPortfolioOk
    <3> QED
      BY <2>10, <2>13, <3>1, <3>4 DEF H!ResetPaper
  <2>14. CASE H!Reload(t)
    <3>1. H!Fresh \in Pages /\ PageOk(H!Fresh)
      BY AssistantAssumption DEF H!Fresh, Pages, PageOk, Made
    <3>2. /\ page' = [page EXCEPT ![t] = H!Fresh] /\ portfolio' = [portfolio EXCEPT ![t] = H!LoadPortfolio(saved)]
          /\ UNCHANGED <<saved, scanned>>
      BY <2>14 DEF H!Reload, H!Shows
    <3>3. scanned' \in Nat /\ scanned <= scanned' /\ PageOk(H!Fresh)'
      BY <1>2, <3>1, <3>2 DEF AssistantInv, PageOk, Made, H!Fresh
    <3>4. page' \in [Tabs -> Pages] /\ \A u \in Tabs : PageOk(page[u])'
      <4>1. PICK to : to = H!Fresh
        OBVIOUS
      <4> QED
        BY <1>2, <3>1, <3>2, <3>3, <4>1, PageMoves
    <3> DEFINE p == H!LoadPortfolio(saved)
    <3>5. p \in Portfolios /\ PortfolioOk(p)
      BY <1>2, PortfolioIs DEF AssistantInv
    <3>6. portfolio' = [portfolio EXCEPT ![t] = p] /\ H!LoadPortfolio(saved') = p
      BY <3>2
    <3> HIDE DEF p
    <3>7. /\ portfolio' \in [Tabs -> Portfolios] /\ \A u \in Tabs : PortfolioOk(portfolio'[u])
          /\ portfolio'[t] = p
      BY <1>2, <3>5, <3>6 DEF AssistantInv
    <3> QED
      BY <1>2, <3>2, <3>3, <3>4, <3>5, <3>6, <3>7 DEF AssistantInv, H!ReloadLosesNothing
  <2>15. CASE H!HandleScan(t)
    <3>1. PICK results \in Found : \E best \in IF results = <<>> THEN {NoQuant} ELSE DOMAIN results :
            LET added == {[market |-> a, scan |-> scanned + 1, decision |-> results[a].decision,
                           direction |-> results[a].direction, price |-> results[a].price,
                           entry |-> results[a].entry, units |-> results[a].units,
                           margin |-> results[a].margin, valid |-> results[a].valid] : a \in DOMAIN results}
                market == IF g.market \in DOMAIN results THEN g.market ELSE best IN
            /\ H!Shows(t, Scanning(g, market, DOMAIN results, added, H!QuantOf(added, market)))
            /\ H!Save(t, H!UpdatePaperMarks(portfolio[t], added))
      BY <2>15, Zenon DEF H!HandleScan, H!Snapshot, Scanning, g
    <3> DEFINE added == {[market |-> a, scan |-> scanned + 1, decision |-> results[a].decision,
                          direction |-> results[a].direction, price |-> results[a].price,
                          entry |-> results[a].entry, units |-> results[a].units,
                          margin |-> results[a].margin, valid |-> results[a].valid] : a \in DOMAIN results}
    <3>0. PICK best \in IF results = <<>> THEN {NoQuant} ELSE DOMAIN results :
            LET market == IF g.market \in DOMAIN results THEN g.market ELSE best IN
            /\ H!Shows(t, Scanning(g, market, DOMAIN results, added, H!QuantOf(added, market)))
            /\ H!Save(t, H!UpdatePaperMarks(portfolio[t], added))
      BY <3>1, Zenon
    <3> DEFINE market == IF g.market \in DOMAIN results THEN g.market ELSE best
               quant == H!QuantOf(added, market)
    <3>2. /\ H!Shows(t, Scanning(g, market, DOMAIN results, added, quant))
          /\ H!Save(t, H!UpdatePaperMarks(portfolio[t], added))
      BY <3>0, Zenon
    <3>3. scanned' = scanned + 1 /\ scanned \in Nat
      BY <1>2, <2>15 DEF H!HandleScan, AssistantInv
    <3>4. added \in SUBSET Quants /\ \A q \in added : q.scan = scanned + 1
      <4>1. \A a \in DOMAIN results :
               /\ a \in Markets /\ results[a].decision \in Decisions /\ results[a].direction \in STRING
               /\ results[a].price \in Int /\ results[a].entry \in Int /\ results[a].units \in Int
               /\ results[a].margin \in Int /\ results[a].valid \in BOOLEAN
        BY AssistantAssumption, Zenon DEF Decisions
      <4>2. scanned + 1 \in Nat
        BY <3>3
      <4> HIDE DEF market, quant
      <4> QED
        BY <4>1, <4>2 DEF Quants
    <3>5. market \in Markets \union {NoQuant} /\ DOMAIN results \subseteq Markets
      BY AssistantAssumption DEF Pages
    <3> HIDE DEF added, market
    <3>6. quant \in added \union {NoQuant}
      BY DEF H!QuantOf
    <3> HIDE DEF quant
    <3> DEFINE to == PageOf(market, DOMAIN results, added, quant, g.analysis, g.asking, g.fallback)
    <3>7. page' = [page EXCEPT ![t] = to]
      <4>1. to = Scanning(g, market, DOMAIN results, added, quant)
        BY <2>2, ScanningIs
      <4> QED
        BY <3>2, <4>1, Zenon DEF H!Shows
    <3>8. to \in Pages
      BY <2>2, <3>4, <3>5, <3>6 DEF Pages
    <3>9. PICK new \in Pages : new = to
      BY <3>8, Zenon
    <3>10. PageOk(new)'
      BY <2>2, <3>3, <3>4, <3>6, <3>9 DEF PageOk, Made, Analyses, Asks, Quants
    <3>11. scanned' \in Nat /\ scanned <= scanned'
      BY <3>3
    <3>12. page' \in [Tabs -> Pages] /\ \A u \in Tabs : PageOk(page[u])'
      BY <1>2, <3>7, <3>9, <3>10, <3>11, PageMoves, Zenon
    <3>13. PortfolioOk(H!UpdatePaperMarks(portfolio[t], added))
      BY <1>2, <3>4, MarkingKeepsPortfolio, Zenon DEF AssistantInv
    <3>14. /\ portfolio' \in [Tabs -> Portfolios] /\ \A u \in Tabs : PortfolioOk(portfolio'[u])
           /\ PortfolioOk(H!LoadPortfolio(saved')) /\ H!ReloadLosesNothing'
      BY <1>2, <3>2, <3>13, SavingKeeps
    <3> QED
      BY <3>11, <3>12, <3>14 DEF AssistantInv
  <2> QED
    BY <2>3, <2>4, <2>5, <2>6, <2>7, <2>8, <2>9, <2>11, <2>12, <2>13, <2>14, <2>15
<1> QED
  BY <1>1, <1>2, AssistantInvHolds, PTL


HIDE DEF PageOf

-----------------------------------------------------------------------------
(* The trade stream                                                        *)

\* What the state of the stream says of its socket and its timers.
StateTellsSocket ==
    /\ state \in {"UNAVAILABLE", "IDLE", "DISCONNECTED"} => ws = NoSocket
    /\ state = "CONNECTING" => ws # NoSocket /\ sock[ws] = "opening"
    /\ state = "CONNECTED" => ws # NoSocket /\ sock[ws] = "open"
    /\ state = "UNAVAILABLE" => ~reconnect /\ ~ping
    /\ state = "CONNECTED" => subscribed = desired

StreamInv == StreamFollowsPositions /\ StateTellsSocket

\* The stream keeps one socket or the timer that will open one while a position is held,
\* and is sent exactly the prints of the coins held.
THEOREM StreamStaysFollowing == S!Spec => []StreamFollowsPositions
<1> USE DEF StreamInv, StreamFollowsPositions, StateTellsSocket, S!TypeOK, S!OneLiveSocket,
            S!NeverGivesUp, S!FeedsWhatIsHeld, S!Available
<1>1. S!Init => StreamInv
  <2> SUFFICES ASSUME S!Init PROVE StreamInv
    OBVIOUS
  <2>1. attempts \in 0..LastBackoff
    BY StreamAssumption, SMT DEF S!Init
  <2> QED
    BY <2>1, StreamAssumption DEF S!Init
<1>2. StreamInv /\ [S!Next]_(S!vars) => StreamInv'
  <2> SUFFICES ASSUME StreamInv, [S!Next]_(S!vars) PROVE StreamInv'
    OBVIOUS
  <2> USE StreamAssumption
  <2>0. S!ArmReconnect => attempts' \in 0..LastBackoff
    BY SMT DEF S!ArmReconnect
  <2>c. ASSUME S!Connect, desired' # {}, desired' \subseteq Coins, ws = NoSocket, S!Available,
               UNCHANGED <<subscribed, ping>>
        PROVE StreamInv'
    <3>1. ASSUME NEW s \in Sockets, sock[s] = "unused", sock' = [sock EXCEPT ![s] = "opening"],
                 ws' = s, state' = "CONNECTING", reconnect' = FALSE, UNCHANGED <<attempts, feed>>
          PROVE StreamInv'
      BY <2>c, <3>1
    <3>2. CASE state' = "DISCONNECTED" /\ S!ArmReconnect /\ UNCHANGED <<ws, sock, feed>>
      BY <2>0, <2>c, <3>2 DEF S!ArmReconnect
    <3> QED
      BY <2>c, <3>1, <3>2 DEF S!Connect
  <2>1. CASE S!ForgetsCoins
    BY <2>1 DEF S!ForgetsCoins, S!Close
  <2>2. ASSUME NEW new \in SUBSET Coins, S!SetCoins(new) PROVE StreamInv'
    <3>1. CASE S!Available /\ ws = NoSocket /\ ~reconnect /\ S!Connect /\ UNCHANGED <<subscribed, ping>>
      BY <2>c, <2>2, <3>1 DEF S!SetCoins
    <3>2. CASE /\ state = "CONNECTED" /\ S!Resubscribe(new)
               /\ UNCHANGED <<state, ws, attempts, reconnect, ping, sock>>
      BY <2>2, <3>2 DEF S!SetCoins, S!Resubscribe
    <3>3. CASE /\ ~S!Available \/ reconnect \/ state = "CONNECTING"
               /\ UNCHANGED <<state, subscribed, ws, attempts, reconnect, ping, sock, feed>>
      BY <2>2, <3>3 DEF S!SetCoins
    <3> QED
      BY <2>2, <3>1, <3>2, <3>3 DEF S!SetCoins
  <2>3. CASE S!ReconnectTimer
    <3>1. ws = NoSocket /\ S!Available
      BY <2>3 DEF S!ReconnectTimer
    <3> QED
      BY <2>c, <2>3, <3>1 DEF S!ReconnectTimer
  <2>4. ASSUME NEW s \in Sockets, S!OnOpen(s) PROVE StreamInv'
    BY <2>4 DEF S!OnOpen
  <2>5. ASSUME NEW s \in Sockets, S!OnClose(s) PROVE StreamInv'
    BY <2>0, <2>5 DEF S!OnClose, S!ArmReconnect
  <2>6. ASSUME NEW s \in Sockets, S!LateClose(s) PROVE StreamInv'
    BY <2>6 DEF S!LateClose, S!stream
  <2>7. CASE UNCHANGED S!vars
    BY <2>7 DEF S!vars, S!stream
  <2> QED
    BY <2>1, <2>2, <2>3, <2>4, <2>5, <2>6, <2>7 DEF S!Next
<1> QED
  BY <1>1, <1>2, PTL DEF S!Spec

-----------------------------------------------------------------------------
(* The scan cycle                                                          *)

\* The card of the instance is the library's.
LEMMA CardAgrees == \A X : D!Cardinality(X) = Cardinality(X)
BY DEF D!Cardinality, Cardinality

\* The positions in an order tell its members apart.
LEMMA PositionIs ==
    ASSUME NEW order, order \in Seq({order[i] : i \in DOMAIN order}),
           NEW a \in D!ToSet(order)
    PROVE  /\ D!Position(order, a) \in 1..Len(order)
           /\ order[D!Position(order, a)] = a
<1>1. \E i \in DOMAIN order : order[i] = a
  BY DEF D!ToSet
<1>2. DOMAIN order = 1..Len(order)
  OBVIOUS
<1> QED
  BY <1>1, <1>2 DEF D!Position

\* An order has finitely many members.
LEMMA OrderIsFinite ==
    ASSUME NEW order, order \in Seq({order[i] : i \in DOMAIN order})
    PROVE  IsFiniteSet(D!ToSet(order))
<1>1. IsFiniteSet(1..Len(order))
  BY FS_Interval
<1>2. DOMAIN order = 1..Len(order)
  OBVIOUS
<1>3. D!ToSet(order) = {order[i] : i \in 1..Len(order)}
  BY <1>2 DEF D!ToSet
<1>4. order \in Surjection(1..Len(order), D!ToSet(order))
  BY <1>2, <1>3 DEF Surjection
<1> QED
  BY <1>1, <1>4, FS_Surjection

Scanned == [markets : [D!ToSet(Selected) -> D!Market \union {D!Failed}], listed : {{}, D!ToSet(Approved)}]

\* What is evaluated was selected, and is finite.
LEMMA EvaluatedIs ==
    ASSUME NEW s \in Scanned
    PROVE  /\ IsFiniteSet(D!Evaluated(s))
           /\ \A a \in D!Evaluated(s) : a \in D!ToSet(Selected) /\ s.markets[a] \in D!Market
<1>1. D!Evaluated(s) \subseteq D!ToSet(Selected)
  BY DEF Scanned, D!Evaluated
<1>2. IsFiniteSet(D!Evaluated(s))
  BY <1>1, CycleAssumption, OrderIsFinite, FS_Subset, Zenon
<1>3. \A a \in D!Evaluated(s) : s.markets[a] \in D!Market
  BY DEF Scanned, D!Evaluated
<1> QED
  BY <1>1, <1>2, <1>3

\* The ranking is a strict total order of what was evaluated.
LEMMA RankingIsTotal ==
    ASSUME NEW s \in Scanned,
           NEW a \in D!Evaluated(s), NEW b \in D!Evaluated(s), NEW c \in D!Evaluated(s)
    PROVE  /\ ~ D!Better(s, a, a)
           /\ D!Better(s, a, b) /\ D!Better(s, b, c) => D!Better(s, a, c)
           /\ a # b => D!Better(s, a, b) \/ D!Better(s, b, a)
<1>1. /\ s.markets[a].score \in Nat /\ s.markets[b].score \in Nat /\ s.markets[c].score \in Nat
      /\ a \in D!ToSet(Selected) /\ b \in D!ToSet(Selected) /\ c \in D!ToSet(Selected)
  BY EvaluatedIs DEF D!Market
<1>2. \A x \in D!ToSet(Selected) :
         D!Position(Selected, x) \in 1..Len(Selected) /\ Selected[D!Position(Selected, x)] = x
  BY CycleAssumption, PositionIs, Zenon
<1>3. Len(Selected) \in Nat
  BY CycleAssumption, LenProperties
<1>4. /\ D!Position(Selected, a) \in Int /\ D!Position(Selected, b) \in Int /\ D!Position(Selected, c) \in Int
      /\ a # b => D!Position(Selected, a) # D!Position(Selected, b)
  BY <1>1, <1>2, <1>3
<1> HIDE DEF Scanned
<1>5. \A x, y, z, i, j, k \in Int :
        /\ ~ (x > x \/ (x = x /\ i < i))
        /\ (x > y \/ (x = y /\ i < j)) /\ (y > z \/ (y = z /\ j < k)) => (x > z \/ (x = z /\ i < k))
        /\ i # j => \/ (x > y \/ (x = y /\ i < j))
                    \/ (y > x \/ (y = x /\ j < i))
  OBVIOUS
<1> DEFINE x == s.markets[a].score
           y == s.markets[b].score
           z == s.markets[c].score
<1>6. x \in Int /\ y \in Int /\ z \in Int
  BY <1>1
<1> QED
  BY <1>4, <1>5, <1>6 DEF D!Better, D!Before

\* So a better market has the lower rank.
LEMMA BetterRanksLower ==
    ASSUME NEW s \in Scanned, NEW a \in D!Evaluated(s), NEW b \in D!Evaluated(s), D!Better(s, a, b)
    PROVE  /\ D!RankOf(s, a) \in Nat /\ D!RankOf(s, b) \in Nat
           /\ D!RankOf(s, a) < D!RankOf(s, b)
<1> DEFINE above(x) == {c \in D!Evaluated(s) : D!Better(s, c, x)}
<1>1. IsFiniteSet(above(a)) /\ IsFiniteSet(above(b))
  BY EvaluatedIs, FS_Subset
<1>2. above(a) \subseteq above(b) /\ a \in above(b) /\ a \notin above(a)
  BY RankingIsTotal
<1>3. Cardinality(above(a)) < Cardinality(above(b))
  <2> HIDE DEF above
  <2>1. above(a) # above(b)
    BY <1>2
  <2>2. Cardinality(above(a)) <= Cardinality(above(b)) /\ Cardinality(above(a)) # Cardinality(above(b))
    BY <1>1, <1>2, <2>1, FS_Subset
  <2> QED
    BY <1>1, <2>2, FS_CardinalityType
<1>4. Cardinality(above(a)) \in Nat /\ Cardinality(above(b)) \in Nat
  BY <1>1, FS_CardinalityType
<1>5. D!RankOf(s, a) = 1 + Cardinality(above(a)) /\ D!RankOf(s, b) = 1 + Cardinality(above(b))
  BY CardAgrees DEF D!RankOf
<1> QED
  BY <1>3, <1>4, <1>5

\* One market at most is the best that can be traded, and none with a plan scores higher.
LEMMA BestIsOne ==
    ASSUME NEW s \in Scanned, NEW a \in D!BestTradeNow(s)
    PROVE  /\ D!BestTradeNow(s) = {a}
           /\ a \in D!Evaluated(s) /\ D!HasGeometry(s.markets[a])
           /\ \A b \in D!Evaluated(s) :
                 D!HasGeometry(s.markets[b]) => s.markets[b].score <= s.markets[a].score
<1>1. a \in D!Evaluated(s) /\ D!HasGeometry(s.markets[a])
  BY DEF D!BestTradeNow
<1>2. ASSUME NEW b \in D!Evaluated(s), D!HasGeometry(s.markets[b])
      PROVE  ~ D!Better(s, b, a)
  <2>1. D!RankOf(s, a) <= D!RankOf(s, b)
    BY <1>2 DEF D!BestTradeNow
  <2> QED
    BY <1>1, <2>1, BetterRanksLower
<1>3. ASSUME NEW b \in D!BestTradeNow(s) PROVE b = a
  <2>1. b \in D!Evaluated(s) /\ D!HasGeometry(s.markets[b])
    BY <1>3 DEF D!BestTradeNow
  <2>2. D!RankOf(s, b) <= D!RankOf(s, a)
    BY <1>1, <1>3 DEF D!BestTradeNow
  <2>3. ~ D!Better(s, a, b)
    BY <1>1, <2>1, <2>2, BetterRanksLower
  <2> QED
    BY <1>1, <1>2, <2>1, <2>3, RankingIsTotal
<1>4. ASSUME NEW b \in D!Evaluated(s), D!HasGeometry(s.markets[b])
      PROVE  s.markets[b].score <= s.markets[a].score
  <2>1. s.markets[a].score \in Int /\ s.markets[b].score \in Int
    BY <1>1, <1>4, EvaluatedIs DEF D!Market
  <2>2. ~ (s.markets[b].score > s.markets[a].score)
    BY <1>2, <1>4 DEF D!Better
  <2>3. \A x, y \in Int : ~ (x > y) => x <= y
    OBVIOUS
  <2> QED
    BY <2>1, <2>2, <2>3
<1> QED
  BY <1>1, <1>3, <1>4

Decided(s, executed) == executed.decision = "NO_SIGNAL" <=> D!BestTradeNow(s) = {}
Submits(executed) == executed.decision # "NO_SIGNAL"
Chosen(noted) == {c \in noted : c.reason = "none"}
Observed(s, a, c, submitting) == [asset |-> a, setup |-> c, reason |-> D!Reason(s, a, c, submitting)]

\* What is recorded of a scan, one by one.
LEMMA PayloadIs ==
    ASSUME NEW s, NEW executed
    PROVE  /\ D!BuildShadowPayload(s, executed).states = D!Evaluated(s)
           /\ \A o : o \in D!BuildShadowPayload(s, executed).candidates <=>
                 \E a \in D!Evaluated(s) : \E c \in D!Recorded(s.markets[a]) :
                    o = Observed(s, a, c, Submits(executed))
<1> DEFINE Of(a) == {Observed(s, a, c, Submits(executed)) : c \in D!Recorded(s.markets[a])}
<1>1. D!BuildShadowPayload(s, executed) =
         [states |-> D!Evaluated(s), candidates |-> UNION {Of(a) : a \in D!Evaluated(s)}]
  BY DEF D!BuildShadowPayload, Observed, Submits
<1>2. ASSUME NEW o
      PROVE  o \in UNION {Of(a) : a \in D!Evaluated(s)} <=>
                \E a \in D!Evaluated(s) : \E c \in D!Recorded(s.markets[a]) : o = Observed(s, a, c, Submits(executed))
  OBVIOUS
<1> HIDE DEF Of
<1> QED
  BY <1>1, <1>2

\* The reason of a candidate is "none" for the plan of the market whose signal went out.
LEMMA ReasonIs ==
    ASSUME NEW s \in Scanned, NEW executed, Decided(s, executed),
           NEW a \in D!Evaluated(s), NEW c \in D!Recorded(s.markets[a])
    PROVE  D!Reason(s, a, c, Submits(executed)) = "none"
              <=> D!BestTradeNow(s) = {a} /\ c = s.markets[a].pick
<1>1. "NOT_ASSET_PICK" # "none" /\ "INCOMPLETE_GEOMETRY" # "none"
      /\ "RANK_BELOW_SELECTED" # "none" /\ "NO_SIGNAL_THIS_SCAN" # "none"
  OBVIOUS
<1>2. D!BestTradeNow(s) = {a} => Submits(executed)
  BY DEF Decided, Submits
<1> QED
  BY <1>1, <1>2 DEF D!Reason

\* A recorded scan has every candidate once, and one of them submitted when one could be.
LEMMA OneIsSubmitted ==
    ASSUME NEW s \in Scanned, NEW executed, Decided(s, executed),
           NEW noted, noted = D!BuildShadowPayload(s, executed).candidates
    PROVE  /\ \A a \in D!Evaluated(s) : \A c \in s.markets[a].candidates :
                 D!Cardinality({o \in noted : o.asset = a /\ o.setup = c}) = 1
           /\ D!Cardinality(Chosen(noted)) = IF D!BestTradeNow(s) = {} THEN 0 ELSE 1
           /\ \A c \in Chosen(noted) : D!BestTradeNow(s) = {c.asset} /\ s.markets[c.asset].complete
<1> DEFINE submitting == Submits(executed)
           chosen == Chosen(noted)
<1> USE DEF Chosen
<1>1. \A o : o \in noted <=> \E a \in D!Evaluated(s) : \E c \in D!Recorded(s.markets[a]) :
                               o = Observed(s, a, c, submitting)
  BY PayloadIs
<1>2. ASSUME NEW a, NEW c
      PROVE  /\ Observed(s, a, c, submitting).asset = a
             /\ Observed(s, a, c, submitting).setup = c
             /\ Observed(s, a, c, submitting).reason = D!Reason(s, a, c, submitting)
  BY DEF Observed
<1>3. ASSUME NEW a \in D!Evaluated(s), NEW c \in s.markets[a].candidates
      PROVE  D!Cardinality({o \in noted : o.asset = a /\ o.setup = c}) = 1
  <2>1. c \in D!Recorded(s.markets[a])
    BY DEF D!Recorded
  <2>2. {o \in noted : o.asset = a /\ o.setup = c} = {Observed(s, a, c, submitting)}
    <3> HIDE DEF submitting
    <3> QED
      BY <1>1, <1>2, <2>1
  <2> QED
    BY <2>2, FS_Singleton, CardAgrees, Zenon
<1>4. \A a \in D!Evaluated(s) : \A c \in D!Recorded(s.markets[a]) :
         D!Reason(s, a, c, submitting) = "none" <=> D!BestTradeNow(s) = {a} /\ c = s.markets[a].pick
  BY ReasonIs
<1> HIDE DEF submitting
<1>5. \A o \in chosen : D!BestTradeNow(s) = {o.asset} /\ o = Observed(s, o.asset, s.markets[o.asset].pick, submitting)
  <2> SUFFICES ASSUME NEW o \in chosen
               PROVE  D!BestTradeNow(s) = {o.asset} /\ o = Observed(s, o.asset, s.markets[o.asset].pick, submitting)
    OBVIOUS
  <2>0. PICK a \in D!Evaluated(s) : \E c \in D!Recorded(s.markets[a]) : o = Observed(s, a, c, submitting)
    BY <1>1, Zenon
  <2>1. PICK c \in D!Recorded(s.markets[a]) : o = Observed(s, a, c, submitting)
    BY <2>0, Zenon
  <2>2. o.asset = a /\ D!Reason(s, a, c, submitting) = "none"
    BY <1>2, <2>1
  <2>3. D!BestTradeNow(s) = {a} /\ c = s.markets[a].pick
    BY <1>4, <2>2
  <2> QED
    BY <2>1, <2>2, <2>3
<1>6. D!Cardinality(chosen) = IF D!BestTradeNow(s) = {} THEN 0 ELSE 1
  <2>1. CASE D!BestTradeNow(s) = {}
    <3>1. chosen = {}
      BY <1>5, <2>1
    <3> QED
      BY <2>1, <3>1, CardAgrees, FS_EmptySet, Zenon
  <2>2. CASE D!BestTradeNow(s) # {}
    <3>1. PICK a : a \in D!BestTradeNow(s)
      BY <2>2
    <3> DEFINE o == Observed(s, a, s.markets[a].pick, submitting)
    <3>2. D!BestTradeNow(s) = {a} /\ a \in D!Evaluated(s) /\ D!HasGeometry(s.markets[a])
      BY <3>1, BestIsOne
    <3>3. s.markets[a].pick \in D!Recorded(s.markets[a])
      BY <3>2 DEF D!Recorded, D!HasGeometry
    <3>4. o \in chosen
      <4>1. o \in noted
        BY <1>1, <3>2, <3>3
      <4>2. o.reason = "none"
        BY <1>2, <1>4, <3>2, <3>3
      <4> QED
        BY <4>1, <4>2
    <3>5. chosen = {o}
      <4> HIDE DEF o
      <4>1. \A x \in chosen : x = o
        BY <1>5, <3>2 DEF o
      <4> QED
        BY <3>4, <4>1
    <3> QED
      BY <2>2, <3>5, CardAgrees, FS_Singleton, Zenon
  <2> QED
    BY <2>1, <2>2
<1>7. ASSUME NEW o \in chosen PROVE D!BestTradeNow(s) = {o.asset} /\ s.markets[o.asset].complete
  <2>1. D!BestTradeNow(s) = {o.asset}
    BY <1>5
  <2>2. D!HasGeometry(s.markets[o.asset])
    <3>1. o.asset \in D!BestTradeNow(s)
      BY <2>1
    <3> QED
      BY <3>1, BestIsOne
  <2> QED
    BY <2>1, <2>2 DEF D!HasGeometry
<1> QED
  BY <1>3, <1>6, <1>7

-----------------------------------------------------------------------------
\* A number below the divisor is the remainder of what lies a multiple above it.
LEMMA RemainderIs ==
    ASSUME NEW x \in Nat, NEW q \in Nat, NEW r \in Nat, NEW n \in Nat \ {0}, r < n, x = q * n + r
    PROVE  x % n = r
OBVIOUS

\* Remainders add up.
LEMMA RemainderOfSum ==
    ASSUME NEW a \in Nat, NEW b \in Nat, NEW n \in Nat \ {0}
    PROVE  ((a % n) + (b % n)) % n = (a + b) % n
<1> DEFINE p == a \div n
           q == b \div n
           r == a % n
           s == b % n
           t == (r + s) % n
           u == (r + s) \div n
<1>1. a = p * n + r /\ b = q * n + s /\ p \in Nat /\ q \in Nat /\ r \in 0..n-1 /\ s \in 0..n-1
  OBVIOUS
<1>2. r + s = u * n + t /\ u \in Nat /\ t \in 0..n-1
  <2> HIDE DEF p, q, r, s
  <2> QED
    BY <1>1
<1> HIDE DEF p, q, r, s, t, u
<1>3. a + b = (p + q + u) * n + t
  BY <1>1, <1>2
<1>4. p + q + u \in Nat
  BY <1>1, <1>2
<1>6. t \in Nat /\ t < n
  BY <1>2
<1>7. (a + b) % n = t
  <2> DEFINE m == p + q + u
             c == a + b
  <2>1. m \in Nat /\ c \in Nat /\ c = m * n + t
    BY <1>3, <1>4
  <2> HIDE DEF m, c
  <2>2. c % n = t
    BY <1>6, <2>1, RemainderIs
  <2> QED
    BY <2>2 DEF c
<1> QED
  BY <1>7 DEF t, r, s

\* Of n numbers in a row each remainder is one's.
LEMMA EveryRemainder ==
    ASSUME NEW n \in Nat \ {0}, NEW r \in Nat, r < n, NEW lo \in Nat, NEW hi \in Nat, lo + n <= hi
    PROVE  \E x \in lo..(hi - 1) : x \in Nat /\ x % n = r
<1> DEFINE q == lo \div n
           t == lo % n
<1>1. lo = q * n + t /\ q \in Nat /\ t \in 0..n-1
  OBVIOUS
<1> HIDE DEF q, t
<1>2. CASE t <= r
  <2> DEFINE x == lo + (r - t)
  <2>1. x \in lo..(hi - 1) /\ x \in Nat
    BY <1>1, <1>2
  <2>2. x = q * n + r
    BY <1>1
  <2>3. x % n = r
    <3> HIDE DEF x
    <3> QED
      BY <1>1, <2>1, <2>2
  <2> QED
    BY <2>1, <2>3
<1>3. CASE ~(t <= r)
  <2> DEFINE x == lo + (r - t) + n
  <2>1. x \in lo..(hi - 1) /\ x \in Nat
    BY <1>1, <1>3
  <2>2. x = (q + 1) * n + r
    BY <1>1
  <2>3. x % n = r
    <3> HIDE DEF x
    <3>1. q + 1 \in Nat
      BY <1>1
    <3> QED
      BY <2>1, <2>2, <3>1, RemainderIs
  <2> QED
    BY <2>1, <2>3
<1> QED
  BY <1>2, <1>3

\* An asset's place among the eligible ones is below their number.
LEMMA PlaceIs ==
    ASSUME NEW e \in SUBSET D!ToSet(Approved), NEW a \in e
    PROVE  /\ D!Cardinality(e) \in Nat \ {0}
           /\ D!Place(e, a) \in Nat
           /\ D!Place(e, a) < D!Cardinality(e)
<1> DEFINE before == {b \in e : D!Before(Approved, b, a)}
<1>1. IsFiniteSet(e)
  BY CycleAssumption, OrderIsFinite, FS_Subset, Zenon
<1>2. D!Position(Approved, a) \in Int
  <2>1. D!Position(Approved, a) \in 1..Len(Approved)
    BY CycleAssumption, PositionIs
  <2>2. Len(Approved) \in Nat
    BY CycleAssumption, LenProperties
  <2> QED
    BY <2>1, <2>2
<1>3. a \notin before
  BY <1>2 DEF D!Before
<1>4. Cardinality(e) \in Nat \ {0} /\ IsFiniteSet(before)
  BY <1>1, FS_EmptySet, FS_CardinalityType, FS_Subset
<1>5. before # e /\ before \subseteq e
  BY <1>3
<1> HIDE DEF before
<1>6. Cardinality(before) <= Cardinality(e) /\ Cardinality(before) # Cardinality(e)
  BY <1>1, <1>5, FS_Subset
<1>7. Cardinality(before) \in Nat
  BY <1>4, FS_CardinalityType
<1>8. D!Place(e, a) = Cardinality(before) /\ D!Cardinality(e) = Cardinality(e)
  BY CardAgrees DEF D!Place, before
<1> QED
  BY <1>4, <1>6, <1>7, <1>8

Turns == [eligible : SUBSET D!ToSet(Approved), cycles : Nat, evaluated : SUBSET D!ToSet(Approved)]

\* Of the numbers between lo and hi, the asset's place is the remainder of one.
Reached(e, a, lo, hi) == \E x \in Nat : lo <= x /\ x < hi /\ D!Place(e, a) = x % D!Cardinality(e)

\* In the cycles of the turn, of which the last before `last`, everything was evaluated
\* whose place a start of theirs passed.
TurnOk(t, last) ==
    /\ t \in Turns /\ t.cycles <= last
    /\ t.evaluated \subseteq t.eligible
    /\ t.cycles > 0 => PerCycle # 0
    /\ \A a \in t.eligible :
          t.cycles > 0 /\ Reached(t.eligible, a, (last - t.cycles) * PerCycle, last * PerCycle) => a \in t.evaluated

\* A turn of as many cycles as there are eligible assets has evaluated them all.
LEMMA LongTurnsCover ==
    ASSUME NEW t, NEW last \in Nat, TurnOk(t, last), t.cycles > 0, t.cycles >= D!Cardinality(t.eligible)
    PROVE  t.evaluated = t.eligible
<1> SUFFICES ASSUME NEW a \in t.eligible PROVE a \in t.evaluated
  BY DEF TurnOk
<1> DEFINE n == D!Cardinality(t.eligible)
           k == t.cycles
           lo == (last - k) * PerCycle
           hi == last * PerCycle
<1>1. n \in Nat \ {0} /\ D!Place(t.eligible, a) \in Nat /\ D!Place(t.eligible, a) < n
  BY PlaceIs DEF TurnOk, Turns
<1>2. k \in Nat /\ k <= last /\ k >= n /\ PerCycle \in Nat \ {0}
  BY CycleAssumption DEF TurnOk, Turns
<1>3. lo \in Nat /\ hi \in Nat /\ lo + n <= hi
  <2> HIDE DEF n, k
  <2>1. \A p, x, y, z \in Nat : p # 0 /\ x <= y /\ x >= z =>
           (y - x) * p \in Nat /\ y * p \in Nat /\ (y - x) * p + z <= y * p
    <3> SUFFICES ASSUME NEW p \in Nat, NEW x \in Nat, NEW y \in Nat, NEW z \in Nat, p # 0, x <= y, x >= z
                 PROVE  (y - x) * p \in Nat /\ y * p \in Nat /\ (y - x) * p + z <= y * p
      OBVIOUS
    <3>1. (y - x) * p = y * p - x * p
      OBVIOUS
    <3>2. x * p >= x /\ y * p >= x * p /\ x * p \in Nat /\ y * p \in Nat
      OBVIOUS
    <3> QED
      BY <3>1, <3>2
  <2> QED
    BY <1>1, <1>2, <2>1
<1> HIDE DEF n, k, lo, hi
<1>4. \E x \in lo..(hi - 1) : x \in Nat /\ x % n = D!Place(t.eligible, a)
  BY <1>1, <1>3, EveryRemainder
<1>5. Reached(t.eligible, a, lo, hi)
  BY <1>3, <1>4 DEF Reached, n
<1> QED
  BY <1>5 DEF TurnOk, lo, hi, k

\* The supplement of a cycle evaluates what its start passes.
LEMMA PlanReaches ==
    ASSUME NEW s, ~D!Skipped(s), cycle \in Nat
    PROVE  /\ PerCycle # 0
           /\ D!Eligible(s) \in SUBSET D!ToSet(Approved)
           /\ D!SupplementPlan(s) \subseteq D!Eligible(s)
           /\ \A a \in D!Eligible(s) :
                 Reached(D!Eligible(s), a, cycle * PerCycle, (cycle + 1) * PerCycle) => a \in D!SupplementPlan(s)
<1> DEFINE e == D!Eligible(s)
           n == D!Cardinality(e)
           c == cycle * PerCycle
<1>1. PerCycle # 0 /\ e \in SUBSET D!ToSet(Approved)
  BY DEF D!Skipped, D!Eligible
<1>2. D!SupplementPlan(s) = D!FromStart(e, c % n)
  BY DEF D!SupplementPlan
<1>3. c \in Nat /\ (cycle + 1) * PerCycle = c + PerCycle /\ PerCycle \in Nat
  BY CycleAssumption
<1> HIDE DEF e, c
<1>4. ASSUME NEW a \in e, NEW x \in Nat, c <= x, x < c + PerCycle, D!Place(e, a) = x % n
      PROVE  a \in D!FromStart(e, c % n)
  <2> DEFINE j == x - c
             i == j % n
  <2>1. j \in Nat /\ j < PerCycle /\ c + j = x
    BY <1>3, <1>4
  <2>2. n \in Nat \ {0}
    BY <1>1, PlaceIs
  <2> HIDE DEF n, j
  <2>3. i \in Nat /\ i < n /\ (j < n => i = j)
    BY <2>1, <2>2
  <2>4. i \in 0..(D!Least(PerCycle, n) - 1)
    BY <1>3, <2>1, <2>2, <2>3 DEF D!Least
  <2>5. ((c % n) + i) % n = x % n
    BY <1>3, <2>1, <2>2, RemainderOfSum
  <2> HIDE DEF i
  <2>6. \E m \in 0..(D!Least(PerCycle, n) - 1) : D!Place(e, a) = ((c % n) + m) % n
    BY <1>4, <2>4, <2>5
  <2> QED
    BY <2>6 DEF D!FromStart, n
<1>5. D!FromStart(e, c % n) \subseteq e
  BY DEF D!FromStart
<1>6. \A a \in e : Reached(e, a, c, c + PerCycle) => a \in D!FromStart(e, c % n)
  BY <1>4 DEF Reached
<1> QED
  BY <1>1, <1>2, <1>3, <1>5, <1>6 DEF e, c

\* One more cycle with the same assets goes on with the turn; other assets begin one.
LEMMA TurnGoesOn ==
    ASSUME NEW t, NEW s, cycle \in Nat, TurnOk(t, cycle), ~D!Skipped(s)
    PROVE  LET e == D!Eligible(s)
           IN  /\ t.eligible = e =>
                    TurnOk([eligible |-> e, cycles |-> t.cycles + 1, evaluated |-> t.evaluated \union D!SupplementPlan(s)], cycle + 1)
               /\ TurnOk([eligible |-> e, cycles |-> 1, evaluated |-> D!SupplementPlan(s)], cycle + 1)
<1> DEFINE e == D!Eligible(s)
           plan == D!SupplementPlan(s)
           next == [eligible |-> e, cycles |-> t.cycles + 1, evaluated |-> t.evaluated \union plan]
           first == [eligible |-> e, cycles |-> 1, evaluated |-> plan]
<1>1. /\ PerCycle # 0 /\ e \in SUBSET D!ToSet(Approved) /\ plan \subseteq e
      /\ \A a \in e : Reached(e, a, cycle * PerCycle, (cycle + 1) * PerCycle) => a \in plan
  BY PlanReaches
<1>2. /\ t \in Turns /\ t.cycles \in Nat /\ t.cycles <= cycle /\ t.evaluated \subseteq t.eligible
      /\ \A a \in t.eligible :
            t.cycles > 0 /\ Reached(t.eligible, a, (cycle - t.cycles) * PerCycle, cycle * PerCycle)
               => a \in t.evaluated
  BY DEF TurnOk, Turns
<1> HIDE DEF e, plan
<1>3. ASSUME t.eligible = e PROVE TurnOk(next, cycle + 1)
  <2>1. /\ next \in Turns
        /\ next.eligible = e /\ next.cycles = t.cycles + 1 /\ next.evaluated = t.evaluated \union plan
    BY <1>1, <1>2, <1>3 DEF Turns
  <2>2. ASSUME NEW a \in e, Reached(e, a, ((cycle + 1) - (t.cycles + 1)) * PerCycle, (cycle + 1) * PerCycle)
        PROVE  a \in t.evaluated \union plan
    <3>1. (cycle + 1) - (t.cycles + 1) = cycle - t.cycles
      BY <1>2
    <3>2. PICK x \in Nat : /\ (cycle - t.cycles) * PerCycle <= x /\ x < (cycle + 1) * PerCycle
                           /\ D!Place(e, a) = x % D!Cardinality(e)
      BY <2>2, <3>1 DEF Reached
    <3>3. CASE x < cycle * PerCycle
      <4>1. Reached(e, a, (cycle - t.cycles) * PerCycle, cycle * PerCycle)
        BY <3>2, <3>3 DEF Reached
      <4>2. t.cycles > 0
        <5>1. t.cycles = 0 => (cycle - t.cycles) * PerCycle = cycle * PerCycle
          BY <1>2
        <5>2. cycle * PerCycle \in Nat
          BY CycleAssumption
        <5>3. t.cycles # 0
          BY <3>2, <3>3, <5>1, <5>2
        <5> QED
          BY <1>2, <5>3
      <4> QED
        BY <1>2, <1>3, <4>1, <4>2
    <3>4. CASE ~(x < cycle * PerCycle)
      <4>1. cycle * PerCycle \in Nat
        BY CycleAssumption
      <4>2. cycle * PerCycle <= x
        BY <3>4, <4>1
      <4>3. Reached(e, a, cycle * PerCycle, (cycle + 1) * PerCycle)
        BY <3>2, <4>2 DEF Reached
      <4> QED
        BY <1>1, <4>3
    <3> QED
      BY <3>3, <3>4
  <2> HIDE DEF next
  <2>3. next.cycles <= cycle + 1 /\ next.evaluated \subseteq next.eligible
    BY <1>1, <1>2, <1>3, <2>1
  <2> QED
    BY <1>1, <2>1, <2>2, <2>3 DEF TurnOk
<1>4. TurnOk(first, cycle + 1)
  <2>1. /\ first \in Turns
        /\ first.eligible = e /\ first.cycles = 1 /\ first.evaluated = plan
    BY <1>1 DEF Turns
  <2>2. (cycle + 1) - 1 = cycle /\ 1 <= cycle + 1
    OBVIOUS
  <2> HIDE DEF first
  <2> QED
    BY <1>1, <2>1, <2>2 DEF TurnOk
<1> QED
  BY <1>3, <1>4 DEF e, plan

\* Before the first cycle no asset is owed its turn.
LEMMA NoTurnOk == ASSUME NEW last \in Nat PROVE TurnOk(D!NoTurn, last)
BY DEF TurnOk, Turns, D!NoTurn

CycleInv ==
    /\ pc \in {"idle", "scanned", "answered", "recorded"}
    /\ cycle \in Nat
    /\ found \in Scanned
    /\ sent \subseteq D!BestTradeNow(found)
    /\ pc \in {"idle", "scanned"} => sent = {}
    /\ pc \in {"answered", "recorded"} => Decided(found, execution)
    /\ pc = "recorded" /\ D!Observes => payload = D!BuildShadowPayload(found, execution)
    /\ EveryN = 1 => TurnOk(turn, IF pc = "recorded" THEN cycle + 1 ELSE cycle)

\* The invariant of the cycle is enough.
LEMMA CycleInvHolds == CycleInv => D!OneSubmitted /\ D!BestIsSent /\ (EveryN = 1 => D!RotationCovers)
<1> SUFFICES ASSUME CycleInv PROVE D!OneSubmitted /\ D!BestIsSent /\ (EveryN = 1 => D!RotationCovers)
  OBVIOUS
<1>1. D!OneSubmitted
  <2> SUFFICES ASSUME pc = "recorded", D!Observes PROVE D!OneSubmitted
    BY DEF D!OneSubmitted
  <2>1. Decided(found, execution) /\ payload = D!BuildShadowPayload(found, execution)
        /\ sent \subseteq D!BestTradeNow(found) /\ found \in Scanned
    BY DEF CycleInv
  <2>2. payload.states = D!Evaluated(found)
    BY <2>1, PayloadIs
  <2>3. /\ \A a \in D!Evaluated(found) : \A c \in found.markets[a].candidates :
              D!Cardinality({o \in payload.candidates : o.asset = a /\ o.setup = c}) = 1
        /\ D!Cardinality(Chosen(payload.candidates)) = IF D!BestTradeNow(found) = {} THEN 0 ELSE 1
        /\ \A c \in Chosen(payload.candidates) : sent \subseteq {c.asset} /\ found.markets[c.asset].complete
    <3> DEFINE noted == payload.candidates
    <3>1. noted = D!BuildShadowPayload(found, execution).candidates
      BY <2>1
    <3> HIDE DEF noted
    <3>2. /\ \A a \in D!Evaluated(found) : \A c \in found.markets[a].candidates :
                D!Cardinality({o \in noted : o.asset = a /\ o.setup = c}) = 1
          /\ D!Cardinality(Chosen(noted)) = IF D!BestTradeNow(found) = {} THEN 0 ELSE 1
          /\ \A c \in Chosen(noted) : D!BestTradeNow(found) = {c.asset} /\ found.markets[c.asset].complete
      BY <2>1, <3>1, OneIsSubmitted
    <3> QED
      BY <2>1, <3>2 DEF noted
  <2> QED
    BY <2>2, <2>3, Zenon DEF D!OneSubmitted, Chosen
<1>2. D!BestIsSent
  BY BestIsOne DEF CycleInv, D!BestIsSent
<1>3. ASSUME EveryN = 1 PROVE D!RotationCovers
  <2>1. D!SupplementPlan(found) \intersect D!Evaluated(found) = {}
    BY PlanReaches DEF CycleInv, D!SupplementPlan, D!FromStart, D!Eligible
  <2> DEFINE last == IF pc = "recorded" THEN cycle + 1 ELSE cycle
  <2>2. last \in Nat /\ TurnOk(turn, last)
    BY <1>3 DEF CycleInv
  <2> HIDE DEF last
  <2> QED
    BY <2>1, <2>2, LongTurnsCover DEF D!RotationCovers
<1> QED
  BY <1>1, <1>2, <1>3

\* Before the first scan there is nothing to choose from.
LEMMA UnscannedIs == D!Unscanned \in Scanned
BY DEF D!Unscanned, Scanned

\* The cycle that ends or throws leaves no scan behind.
LEMMA OverKeeps ==
    ASSUME CycleInv, D!Over,
           \/ turn' = D!NoTurn
           \/ pc = "recorded" /\ turn' = turn
    PROVE  CycleInv'
<1>1. /\ pc' = "idle" /\ cycle' = cycle + 1 /\ cycle' \in Nat
      /\ found' = D!Unscanned /\ found' \in Scanned /\ sent' = {}
  BY UnscannedIs DEF D!Over, CycleInv
<1>2. EveryN = 1 => TurnOk(turn', cycle + 1)
  BY NoTurnOk DEF CycleInv
<1> QED
  BY <1>1, <1>2 DEF CycleInv

\* In every scan with its observations one candidate at most is the submitted one, the plan
\* that went out and the best there was; and when every cycle observes, as the loop does
\* unless told otherwise, each eligible asset has its turn.
THEOREM CycleStands ==
    D!Init /\ [][D!Next]_(D!vars) => [](D!OneSubmitted /\ D!BestIsSent /\ (EveryN = 1 => D!RotationCovers))
<1>1. D!Init => CycleInv
  <2> SUFFICES ASSUME D!Init PROVE CycleInv
    OBVIOUS
  <2>1. /\ pc = "idle" /\ cycle = 0 /\ found = D!Unscanned /\ sent = {} /\ turn = D!NoTurn
    BY DEF D!Init
  <2>2. TurnOk(turn, 0)
    BY <2>1, NoTurnOk
  <2> QED
    BY <2>1, <2>2, UnscannedIs DEF CycleInv
<1>2. ASSUME CycleInv, [D!Next]_(D!vars) PROVE CycleInv'
  <2>1. CASE UNCHANGED D!vars
    BY <1>2, <2>1 DEF CycleInv, D!vars, D!Observes
  <2>2. CASE D!Deferred
    BY <1>2, <2>2, OverKeeps DEF D!Deferred
  <2>3. CASE D!Throws
    BY <1>2, <2>3, OverKeeps DEF D!Throws
  <2>4. CASE D!Ends
    BY <1>2, <2>4, OverKeeps DEF D!Ends
  <2>5. CASE D!Scans
    <3>1. /\ pc = "idle" /\ pc' = "scanned" /\ UNCHANGED <<cycle, sent, execution, payload, turn>>
          /\ found' \in Scanned
      BY <2>5 DEF D!Scans, Scanned
    <3>2. sent = {}
      BY <1>2, <3>1 DEF CycleInv
    <3> QED
      BY <1>2, <3>1, <3>2 DEF CycleInv
  <2>6. ASSUME NEW outcome, D!Decides(outcome), sent' \subseteq D!BestTradeNow(found),
               outcome = "NO_SIGNAL" <=> D!BestTradeNow(found) = {}
        PROVE  CycleInv'
    <3>1. /\ pc = "scanned" /\ pc' = "answered" /\ execution' = D!ExecutionFromCycle(outcome)
          /\ UNCHANGED <<cycle, found, payload, turn>>
      BY <2>6 DEF D!Decides
    <3>2. D!ExecutionFromCycle(outcome).decision = "NO_SIGNAL" <=> outcome = "NO_SIGNAL"
      BY DEF D!ExecutionFromCycle
    <3>3. Decided(found, execution)'
      BY <2>6, <3>1, <3>2 DEF Decided
    <3> QED
      BY <1>2, <2>6, <3>1, <3>3 DEF CycleInv
  <2>7. CASE D!NoSignal
    BY <1>2, <2>6, <2>7 DEF D!NoSignal, CycleInv
  <2>8. CASE D!StaleOpenPositions
    BY <1>2, <2>6, <2>8 DEF D!StaleOpenPositions, CycleInv
  <2>9. ASSUME NEW answer \in {"EXECUTED", "STALE_SIGNAL", "DUPLICATE", "REJECTED"}, D!PostSignal(answer)
        PROVE  CycleInv'
    BY <2>6, <2>9 DEF D!PostSignal
  <2>10. CASE D!ShadowObserve
    <3>1. /\ pc = "answered" /\ pc' = "recorded" /\ UNCHANGED <<cycle, found, sent, execution>>
          /\ payload' = IF D!Observes THEN D!BuildShadowPayload(found, execution) ELSE payload
      BY <2>10 DEF D!ShadowObserve
    <3>2. D!Observes' = D!Observes
      BY <3>1 DEF D!Observes
    <3>3. ASSUME EveryN = 1 PROVE TurnOk(turn', cycle + 1)
      <4>1. cycle \in Nat /\ TurnOk(turn, cycle)
        BY <1>2, <3>1, <3>3 DEF CycleInv
      <4>2. D!Observes
        BY <3>3, <4>1 DEF D!Observes
      <4>3. CASE D!Skipped(found)
        BY <2>10, <4>1, <4>2, <4>3, NoTurnOk DEF D!ShadowObserve
      <4>4. CASE ~D!Skipped(found)
        <5> DEFINE e == D!Eligible(found)
                   goesOn == [eligible |-> e, cycles |-> turn.cycles + 1,
                              evaluated |-> turn.evaluated \union D!SupplementPlan(found)]
                   begins == [eligible |-> e, cycles |-> 1, evaluated |-> D!SupplementPlan(found)]
        <5>1. \/ turn.eligible = e /\ turn' = goesOn
              \/ turn' = begins
          BY <2>10, <4>2, <4>4 DEF D!ShadowObserve
        <5>2. (turn.eligible = e => TurnOk(goesOn, cycle + 1)) /\ TurnOk(begins, cycle + 1)
          BY <4>1, <4>4, TurnGoesOn
        <5> HIDE DEF e, goesOn, begins
        <5> QED
          BY <5>1, <5>2
      <4> QED
        BY <4>3, <4>4
    <3> QED
      BY <1>2, <3>1, <3>2, <3>3 DEF CycleInv
  <2>11. CASE D!SignalLost
    BY <2>3, <2>11 DEF D!SignalLost
  <2> QED
    BY <1>2, <2>1, <2>2, <2>3, <2>4, <2>5, <2>7, <2>8, <2>9, <2>10, <2>11 DEF D!Next
<1> QED
  BY <1>1, <1>2, CycleInvHolds, PTL

\* With a cycle of research at every scan, as the bridge is started, all of it is sound.
THEOREM EveryScanIsSound ==
    ASSUME EveryN = 1 PROVE D!Init /\ [][D!Next]_(D!vars) => []CycleIsSound
<1>1. D!OneSubmitted /\ D!BestIsSent /\ (EveryN = 1 => D!RotationCovers) => CycleIsSound
  BY DEF CycleIsSound
<1> QED
  BY <1>1, CycleStands, PTL

-----------------------------------------------------------------------------
(* The daily allowance                                                     *)

Places(table) == {i \in Ids : table[i] \in {"RESERVED", "FINALIZED"}}

\* A request that stores its scan has it charged, and one that may charge it has scanned.
StepsInOrder ==
    \A r \in Requests :
        /\ req[r].pc \in {"finalizing", "storing"} => req[r].scanned
        /\ req[r].pc \in {"storing", "delivered"} => req[r].id \in Charged

AllowanceInv == TypeOK /\ WithinCap /\ ChargedAsDelivered /\ StepsInOrder

\* One more place fits below the cap.
LEMMA OnePlaceMore ==
    ASSUME NEW T \in SUBSET Ids, NEW i \in Ids, Cardinality(T) < Cap
    PROVE  Cardinality(T \cup {i}) <= Cap
<1>1. IsFiniteSet(T)
  BY AllowanceAssumption, FS_Subset
<1>2. Cardinality(T \cup {i}) = IF i \in T THEN Cardinality(T) ELSE Cardinality(T) + 1
  BY <1>1, FS_AddElement
<1> QED
  BY <1>1, <1>2, FS_CardinalityType, AllowanceAssumption

\* Fewer places are no more than the cap either.
LEMMA NoMorePlaces ==
    ASSUME NEW T \in SUBSET Ids, NEW U \in SUBSET T, Cardinality(T) <= Cap
    PROVE  Cardinality(U) <= Cap
<1>1. IsFiniteSet(T)
  BY AllowanceAssumption, FS_Subset
<1> QED
  BY <1>1, FS_Subset, FS_CardinalityType, AllowanceAssumption

\* After the sweep exactly the places that count are taken.
LEMMA SweptPlaces ==
    ASSUME TypeOK
    PROVE  /\ Swept \in [Ids -> {"none", "RESERVED", "FINALIZED", "RELEASED"}]
           /\ Places(Swept) = Consumed(Swept)
           /\ Places(Swept) \subseteq Places(usage)
           /\ \A i \in Ids : Swept[i] = "FINALIZED" <=> usage[i] = "FINALIZED"
BY DEF TypeOK, Swept, Expired, Places, Consumed

\* A reservation keeps the cap and every charge.
LEMMA ReservingKeepsCap ==
    ASSUME TypeOK, WithinCap, UNCHANGED unlimited, NEW i \in Ids, ReserveScan(i)
    PROVE  /\ usage' \in [Ids -> {"none", "RESERVED", "FINALIZED", "RELEASED"}]
           /\ Charged' = Charged
           /\ WithinCap'
<1>1. Charged' = Charged /\ usage' \in [Ids -> {"none", "RESERVED", "FINALIZED", "RELEASED"}]
  BY SweptPlaces DEF ReserveScan, Charged
<1>2. ASSUME ~unlimited, Swept[i] = "none", Allowed(i) PROVE Cardinality(Places(usage')) <= Cap
  <2>1. Places(usage') = Places(Swept) \cup {i}
    BY <1>2, SweptPlaces DEF ReserveScan, Places
  <2>2. Cardinality(Places(Swept)) < Cap
    BY <1>2, SweptPlaces DEF Allowed
  <2>3. Places(Swept) \in SUBSET Ids
    BY DEF Places
  <2> QED
    BY <2>1, <2>2, <2>3, OnePlaceMore
<1>3. ASSUME ~unlimited, ~(Swept[i] = "none" /\ Allowed(i)) PROVE Cardinality(Places(usage')) <= Cap
  <2>1. Places(usage') \in SUBSET Places(usage)
    BY <1>3, SweptPlaces DEF ReserveScan
  <2>2. Places(usage) \in SUBSET Ids /\ Cardinality(Places(usage)) <= Cap
    BY <1>3 DEF Places, WithinCap
  <2> QED
    BY <2>1, <2>2, NoMorePlaces
<1> QED
  BY <1>1, <1>2, <1>3 DEF WithinCap, Places

\* Finalizing charges a place that was taken, releasing gives up one that was not charged.
LEMMA FinalizingKeepsCap ==
    ASSUME TypeOK, WithinCap, UNCHANGED unlimited, NEW i \in Ids, FinalizeScan(i)
    PROVE  /\ usage' \in [Ids -> {"none", "RESERVED", "FINALIZED", "RELEASED"}]
           /\ Charged' = IF CanFinalize(i) THEN Charged \cup {i} ELSE Charged
           /\ WithinCap'
<1>1. Places(usage') = Places(usage)
  BY DEF FinalizeScan, CanFinalize, Places, TypeOK
<1> QED
  BY <1>1 DEF FinalizeScan, CanFinalize, Charged, TypeOK, WithinCap, Places

\* A place that is released only makes room.
LEMMA ReleasingKeepsCap ==
    ASSUME TypeOK, WithinCap, UNCHANGED unlimited, NEW i \in Ids, ReleaseScan(i)
    PROVE  /\ usage' \in [Ids -> {"none", "RESERVED", "FINALIZED", "RELEASED"}]
           /\ Charged' = Charged
           /\ WithinCap'
<1>1. Places(usage') \in SUBSET Places(usage)
  BY DEF ReleaseScan, Places, TypeOK
<1>2. Places(usage) \in SUBSET Ids
  BY DEF Places
<1>3. ASSUME ~unlimited PROVE Cardinality(Places(usage')) <= Cap
  BY <1>1, <1>2, <1>3, NoMorePlaces DEF WithinCap, Places
<1> QED
  BY <1>3 DEF ReleaseScan, Charged, TypeOK, WithinCap, Places

\* What a request's step may do to the requests and the charges without disturbing the
\* order of its steps.
LEMMA StepKeepsOrder ==
    ASSUME AllowanceInv, NEW r \in Requests, UNCHANGED unlimited,
           usage' \in [Ids -> {"none", "RESERVED", "FINALIZED", "RELEASED"}], WithinCap', old' \subseteq Ids,
           Charged \subseteq Charged',
           NEW to \in Steps, NEW did \in BOOLEAN,
           req' = [req EXCEPT ![r] = [pc |-> to, id |-> req[r].id, scanned |-> did]],
           req[r].scanned => did,
           to \in {"finalizing", "storing"} => did,
           to \in {"storing", "delivered"} => req[r].id \in Charged',
           Charged' \subseteq Charged \cup (IF did THEN {req[r].id} ELSE {})
    PROVE  AllowanceInv'
<1>1. TypeOK'
  BY DEF AllowanceInv, TypeOK
<1>2. \A q \in Requests : req'[q].id = req[q].id /\ (req[q].scanned => req'[q].scanned)
  BY DEF AllowanceInv, TypeOK
<1>3. req'[r].pc = to /\ req'[r].scanned = did /\ \A q \in Requests \ {r} : req'[q] = req[q]
  BY DEF AllowanceInv, TypeOK
<1>4. ChargedAsDelivered'
  <2>1. ASSUME NEW q \in Requests, req'[q].pc = "delivered" PROVE req'[q].id \in Charged'
    BY <1>2, <1>3, <2>1 DEF AllowanceInv, ChargedAsDelivered
  <2>2. ASSUME NEW i \in Charged' PROVE \E q \in Requests : req'[q].id = i /\ req'[q].scanned
    <3>1. CASE i \in Charged
      BY <1>2, <3>1 DEF AllowanceInv, ChargedAsDelivered
    <3>2. CASE did /\ i = req[r].id
      BY <1>2, <1>3, <3>2
    <3> QED
      BY <2>2, <3>1, <3>2
  <2> QED
    BY <2>1, <2>2 DEF ChargedAsDelivered
<1>5. StepsInOrder'
  <2> SUFFICES ASSUME NEW q \in Requests
               PROVE  /\ req'[q].pc \in {"finalizing", "storing"} => req'[q].scanned
                      /\ req'[q].pc \in {"storing", "delivered"} => req'[q].id \in Charged'
    BY DEF StepsInOrder
  <2> QED
    BY <1>2, <1>3 DEF AllowanceInv, StepsInOrder
<1> QED
  BY <1>1, <1>4, <1>5 DEF AllowanceInv

\* What Goto writes, field by field.
LEMMA GotoIs ==
    ASSUME TypeOK, NEW r \in Requests, NEW to \in Steps, Goto(r, to)
    PROVE  req' = [req EXCEPT ![r] = [pc |-> to, id |-> req[r].id, scanned |-> req[r].scanned]]
<1>1. req[r] \in [pc : Steps, id : Ids, scanned : BOOLEAN]
  BY DEF TypeOK
<1>2. [req[r] EXCEPT !.pc = to] = [pc |-> to, id |-> req[r].id, scanned |-> req[r].scanned]
  BY <1>1
<1> QED
  BY <1>2 DEF TypeOK, Goto

\* What the end of a scan writes, field by field.
LEMMA ScannedIs ==
    ASSUME NEW rec \in [pc : Steps, id : Ids, scanned : BOOLEAN], NEW to \in Steps
    PROVE  [[rec EXCEPT !.pc = to] EXCEPT !.scanned = TRUE] = [pc |-> to, id |-> rec.id, scanned |-> TRUE]
<1> DEFINE moved == [rec EXCEPT !.pc = to]
           done == [moved EXCEPT !.scanned = TRUE]
<1>1. moved = [pc |-> to, id |-> rec.id, scanned |-> rec.scanned]
  OBVIOUS
<1>2. moved \in [pc : Steps, id : Ids, scanned : BOOLEAN] /\ moved.pc = to /\ moved.id = rec.id
  BY <1>1
<1> HIDE DEF moved
<1>3. done \in [pc : Steps, id : Ids, scanned : BOOLEAN]
  BY <1>2
<1>4. done.pc = to /\ done.id = rec.id /\ done.scanned
  BY <1>2
<1> HIDE DEF done
<1>5. done = [pc |-> to, id |-> rec.id, scanned |-> TRUE]
  BY <1>3, <1>4
<1> QED
  BY <1>5 DEF done, moved

\* One step of a request keeps the invariant and the charges, and refuses only when what
\* counts has reached the cap.
LEMMA RequestKeepsAllowance ==
    ASSUME AllowanceInv, NEW r \in Requests,
           \/ Reserve(r) \/ NotReserved(r) \/ Scan(r) \/ Finalize(r) \/ Store(r) \/ Release(r) \/ Dies(r)
    PROVE  AllowanceInv' /\ Charged \subseteq Charged'
<1> USE DEF Steps
<1>0. /\ TypeOK /\ WithinCap /\ req[r].id \in Ids /\ req[r].scanned \in BOOLEAN /\ usage[req[r].id] # "x"
      /\ old \subseteq Ids /\ usage \in [Ids -> {"none", "RESERVED", "FINALIZED", "RELEASED"}]
  BY DEF AllowanceInv, TypeOK
<1> DEFINE Leaves(to, done) ==
             req' = [req EXCEPT ![r] = [pc |-> to, id |-> req[r].id, scanned |-> done]]
<1>g. ASSUME NEW to \in Steps, Goto(r, to) PROVE Leaves(to, req[r].scanned)
  BY <1>0, <1>g, GotoIs
<1>f. ASSUME NEW to \in Steps \ {"finalizing", "storing", "delivered"}, Goto(r, to), Charged' = Charged,
             UNCHANGED <<unlimited, old>>, WithinCap',
             usage' \in [Ids -> {"none", "RESERVED", "FINALIZED", "RELEASED"}]
      PROVE  AllowanceInv'
  BY <1>0, <1>f, <1>g, StepKeepsOrder
<1>u. UNCHANGED <<unlimited, usage>> => WithinCap' /\ Charged' = Charged
  BY <1>0 DEF WithinCap, Charged
<1>1. CASE Reserve(r)
  <2>1. /\ Charged' = Charged /\ WithinCap'
        /\ usage' \in [Ids -> {"none", "RESERVED", "FINALIZED", "RELEASED"}]
    BY <1>0, <1>1, ReservingKeepsCap DEF Reserve
  <2> QED
    BY <1>1, <1>f, <2>1 DEF Reserve
<1>2. CASE NotReserved(r)
  BY <1>0, <1>2, <1>f, <1>u DEF NotReserved
<1>3. CASE Scan(r)
  <2>1. CASE req' = [req EXCEPT ![r].pc = "finalizing", ![r].scanned = TRUE]
    <3>1. Leaves("finalizing", TRUE)
      <4>1. req[r] \in [pc : Steps, id : Ids, scanned : BOOLEAN] /\ req \in [Requests -> [pc : Steps, id : Ids, scanned : BOOLEAN]]
        BY <1>0 DEF TypeOK
      <4>2. req' = [req EXCEPT ![r] = [[req[r] EXCEPT !.pc = "finalizing"] EXCEPT !.scanned = TRUE]]
        BY <2>1, <4>1
      <4> QED
        BY <4>1, <4>2, ScannedIs
    <3> QED
      BY <1>0, <1>3, <1>u, <3>1, StepKeepsOrder DEF Scan
  <2>2. CASE Goto(r, "releasing")
    BY <1>0, <1>3, <1>f, <1>u, <2>2 DEF Scan
  <2> QED
    BY <1>3, <2>1, <2>2 DEF Scan
<1>4. CASE Finalize(r)
  <2>1. req[r].scanned /\ UNCHANGED <<unlimited, old>>
    BY <1>4 DEF Finalize, AllowanceInv, StepsInOrder
  <2>2. CASE FinalizeScan(req[r].id)
    <3>1. /\ usage' \in [Ids -> {"none", "RESERVED", "FINALIZED", "RELEASED"}]
          /\ Charged' = IF CanFinalize(req[r].id) THEN Charged \cup {req[r].id} ELSE Charged
          /\ WithinCap'
      BY <1>0, <2>1, <2>2, FinalizingKeepsCap
    <3>2. CASE Goto(r, "storing") /\ CanFinalize(req[r].id)
      BY <1>0, <1>g, <2>1, <3>1, <3>2, StepKeepsOrder
    <3>3. CASE Goto(r, "releasing")
      BY <1>0, <1>g, <2>1, <3>1, <3>3, StepKeepsOrder
    <3> QED
      BY <1>4, <3>1, <3>2, <3>3 DEF Finalize
  <2>3. CASE UNCHANGED usage /\ Goto(r, "releasing")
    BY <1>0, <1>f, <1>u, <2>1, <2>3
  <2> QED
    BY <1>4, <2>2, <2>3 DEF Finalize
<1>5. CASE Store(r)
  <2>1. req[r].scanned /\ req[r].id \in Charged /\ Charged' = Charged /\ WithinCap' /\ UNCHANGED <<unlimited, usage, old>>
    BY <1>5, <1>u DEF Store, AllowanceInv, StepsInOrder
  <2> QED
    BY <1>0, <1>5, <1>g, <2>1, StepKeepsOrder DEF Store
<1>6. CASE Release(r)
  <2>1. /\ Charged' = Charged /\ WithinCap'
        /\ usage' \in [Ids -> {"none", "RESERVED", "FINALIZED", "RELEASED"}]
    BY <1>0, <1>6, <1>u, ReleasingKeepsCap DEF Release
  <2> QED
    BY <1>6, <1>f, <2>1 DEF Release
<1>7. CASE Dies(r)
  BY <1>0, <1>7, <1>f, <1>u DEF Dies
<1> QED
  BY <1>1, <1>2, <1>3, <1>4, <1>5, <1>6, <1>7

\* No more than Cap scans of a day are charged, what was delivered is charged and what is
\* charged was scanned; no step gives a charge back, and a new id is refused only when the
\* charges and the young reservations have reached the cap.
THEOREM AllowanceStands == Spec => AllowanceKept
<1>1. Init => AllowanceInv
  <2> SUFFICES ASSUME Init PROVE AllowanceInv
    OBVIOUS
  <2>1. TypeOK
    BY DEF Init, TypeOK, Steps
  <2>2. Charged = {} /\ {i \in Ids : usage[i] \in {"RESERVED", "FINALIZED"}} = {}
    BY DEF Init, Charged
  <2>3. WithinCap
    BY <2>2, FS_EmptySet, AllowanceAssumption DEF WithinCap
  <2> QED
    BY <2>1, <2>2, <2>3 DEF Init, AllowanceInv, ChargedAsDelivered, StepsInOrder
<1>2. ASSUME AllowanceInv, [Next]_vars PROVE AllowanceInv' /\ Charged \subseteq Charged'
  <2>1. ASSUME NEW i \in Ids, Ages(i) PROVE AllowanceInv' /\ Charged \subseteq Charged'
    BY <1>2, <2>1 DEF Ages, AllowanceInv, TypeOK, WithinCap, ChargedAsDelivered, StepsInOrder, Charged
  <2>2. CASE UNCHANGED vars
    BY <1>2, <2>2 DEF vars, AllowanceInv, TypeOK, WithinCap, ChargedAsDelivered, StepsInOrder, Charged
  <2> QED
    BY <1>2, <2>1, <2>2, RequestKeepsAllowance DEF Next
<1>3. ASSUME AllowanceInv, [Next]_vars, NEW r \in Requests, req[r].pc = "idle", req'[r].pc = "refused"
      PROVE  LET i == req[r].id IN
             \/ usage'[i] = "RELEASED"
             \/ Cardinality({j \in Ids : usage'[j] = "FINALIZED" \/ (usage'[j] = "RESERVED" /\ j \notin old)}) >= Cap
  <2> USE DEF AllowanceInv, TypeOK
  <2>1. Reserve(r) /\ ~Allowed(req[r].id)
    <3>1. \A q \in Requests, to \in Steps : Goto(q, to) => req' = [req EXCEPT ![q] = [pc |-> to, id |-> req[q].id, scanned |-> req[q].scanned]]
      BY <1>3, GotoIs
    <3>2. ASSUME NEW q \in Requests, q # r, req'[r] # req[r]
          PROVE  ~(Reserve(q) \/ NotReserved(q) \/ Scan(q) \/ Finalize(q) \/ Store(q) \/ Release(q) \/ Dies(q))
      BY <1>3, <3>2 DEF Reserve, NotReserved, Scan, Finalize, Store, Release, Dies, Goto
    <3>3. req'[r] # req[r] /\ ~UNCHANGED req
      BY <1>3
    <3>4. Reserve(r) \/ NotReserved(r)
      BY <1>3, <3>2, <3>3 DEF Next, vars, Ages, Scan, Finalize, Store, Release, Dies
    <3> QED
      BY <1>3, <3>1, <3>4 DEF Reserve, NotReserved, Steps
  <2>2. /\ Swept \in [Ids -> {"none", "RESERVED", "FINALIZED", "RELEASED"}] /\ usage' = Swept
    BY <1>3, <2>1, SweptPlaces DEF Reserve, ReserveScan
  <2>3. CASE Swept[req[r].id] # "none"
    BY <2>1, <2>2, <2>3 DEF Allowed
  <2>4. CASE Swept[req[r].id] = "none"
    <3>1. ~(Cardinality(Consumed(Swept)) < Cap)
      BY <2>1, <2>4 DEF Allowed
    <3>2. IsFiniteSet(Consumed(Swept))
      BY AllowanceAssumption, FS_Subset DEF Consumed
    <3>3. Cardinality(Consumed(Swept)) >= Cap
      BY <3>1, <3>2, FS_CardinalityType, AllowanceAssumption
    <3>4. Consumed(Swept) = {j \in Ids : usage'[j] = "FINALIZED" \/ (usage'[j] = "RESERVED" /\ j \notin old)}
      <4>1. Consumed(Swept) = Consumed(usage')
        BY <2>2
      <4> QED
        BY <4>1, Zenon DEF Consumed
    <3> QED
      BY <3>3, <3>4
  <2> QED
    BY <2>3, <2>4
<1>4. Spec => []AllowanceInv
  BY <1>1, <1>2, PTL DEF Spec
<1>5. Spec => ChargesStand
  BY <1>1, <1>2, PTL DEF Spec, ChargesStand
<1>6. Spec => RefusedOnlyWhenSpent
  <2>1. AllowanceInv /\ [Next]_vars =>
          [\A r \in Requests : req[r].pc = "idle" /\ req'[r].pc = "refused" =>
            LET i == req[r].id IN
            \/ usage'[i] = "RELEASED"
            \/ Cardinality({j \in Ids : \/ usage'[j] = "FINALIZED"
                                        \/ usage'[j] = "RESERVED" /\ j \notin old}) >= Cap]_vars
    <3> SUFFICES ASSUME AllowanceInv, [Next]_vars, NEW r \in Requests, req[r].pc = "idle", req'[r].pc = "refused"
                 PROVE  LET i == req[r].id IN
                        \/ usage'[i] = "RELEASED"
                        \/ Cardinality({j \in Ids : \/ usage'[j] = "FINALIZED"
                                                    \/ usage'[j] = "RESERVED" /\ j \notin old}) >= Cap
      OBVIOUS
    <3> QED
      BY <1>3
  <2> QED
    BY <1>4, <2>1, PTL DEF Spec, RefusedOnlyWhenSpent
<1>7. AllowanceInv => TypeOK /\ WithinCap /\ ChargedAsDelivered
  BY DEF AllowanceInv
<1> QED
  BY <1>4, <1>5, <1>6, <1>7, PTL DEF AllowanceKept

-----------------------------------------------------------------------------
(* The journal                                                             *)

TradeRow == [rec : Recommendations, status : {"OPEN", "CLOSED"}, exit : Exits \cup {NoExit}]

\* A table with one row of a recommendation.
TableOK ==
    /\ trades \in [Rows -> TradeRow \cup {J!None}]
    /\ \A row, other \in J!Written : trades[row].rec = trades[other].rec => row = other

\* A request that checks or inserts names a recommendation, one that was answered with a
\* trade has it, and one that closes has read an open row of the table.
CallsOK ==
    /\ DOMAIN calls = Calls
    /\ \A q \in Calls :
        /\ calls[q].pc \in {"checking", "inserting", "taken"} => calls[q].rec \in Recommendations
        /\ calls[q].pc = "checking" => calls[q] = [pc |-> "checking", rec |-> calls[q].rec]
        /\ calls[q].pc = "taken" => J!Of(calls[q].rec) # {}
        /\ calls[q].pc = "closing" =>
            calls[q].row \in J!Written /\ calls[q].was.status = "OPEN" /\ calls[q].exit \in Exits

JournalInv == current \subseteq stored /\ stored \subseteq Recommendations /\ TableOK /\ CallsOK

\* What a step that writes no trade may do to one request.
LEMMA CallMoves ==
    ASSUME JournalInv, UNCHANGED trades, current' \subseteq stored', stored' \subseteq Recommendations,
           NEW q \in Calls, NEW to, calls' = [calls EXCEPT ![q] = to],
           to.pc \in {"checking", "inserting", "taken"} => to.rec \in Recommendations,
           to.pc = "checking" => to = [pc |-> "checking", rec |-> to.rec],
           to.pc = "taken" => J!Of(to.rec) # {},
           to.pc = "closing" => to.row \in J!Written /\ to.was.status = "OPEN" /\ to.exit \in Exits
    PROVE  JournalInv'
<1>1. J!Written' = J!Written /\ \A r : r \in Recommendations => J!Of(r)' = J!Of(r)
  BY DEF J!Written, J!Of
<1>2. TableOK'
  BY <1>1 DEF JournalInv, TableOK
<1>3. CallsOK'
  BY <1>1 DEF JournalInv, CallsOK
<1> QED
  BY <1>2, <1>3 DEF JournalInv

\* The rows of the table a write leaves written, with their recommendations.
LEMMA RowsStay ==
    ASSUME TableOK, NEW row \in Rows,
           NEW to \in TradeRow, trades' = [trades EXCEPT ![row] = to],
           row \in J!Written => to.rec = trades[row].rec,
           row \notin J!Written => J!Of(to.rec) = {}
    PROVE  /\ TableOK'
           /\ J!Written' = J!Written \cup {row}
           /\ \A r \in Recommendations : J!Of(r)' = J!Of(r) \cup (IF r = to.rec THEN {row} ELSE {})
<1>1. to # J!None /\ \A x \in TradeRow : x # J!None
  BY DEF TradeRow, J!None
<1>2. J!Written' = J!Written \cup {row}
  BY <1>1 DEF TableOK, J!Written
<1>3. \A x \in J!Written' : trades'[x].rec = IF x = row THEN to.rec ELSE trades[x].rec
  BY <1>2 DEF TableOK, J!Written
<1>4. \A r \in Recommendations : J!Of(r)' = J!Of(r) \cup (IF r = to.rec THEN {row} ELSE {})
  BY <1>2, <1>3 DEF J!Of, J!Written
<1>5. ASSUME NEW x \in J!Written', NEW y \in J!Written', trades'[x].rec = trades'[y].rec PROVE x = y
  BY <1>2, <1>3, <1>5 DEF TableOK, J!Of, J!Written
<1>6. trades' \in [Rows -> TradeRow \cup {J!None}]
  BY DEF TableOK
<1> QED
  BY <1>2, <1>4, <1>5, <1>6 DEF TableOK

\* So with a write, whose request is then answered with the trade, with a failure, or closed.
LEMMA CallWrites ==
    ASSUME JournalInv, UNCHANGED <<current, stored>>, NEW row \in Rows,
           NEW rec \in TradeRow, trades' = [trades EXCEPT ![row] = rec],
           row \in J!Written => rec.rec = trades[row].rec,
           row \notin J!Written => J!Of(rec.rec) = {},
           NEW q \in Calls, NEW to, calls' = [calls EXCEPT ![q] = to],
           to.pc \in {"taken", "failed", "closed"}, to.pc = "taken" => to.rec = rec.rec
    PROVE  JournalInv'
<1>1. /\ TableOK'
      /\ J!Written' = J!Written \cup {row}
      /\ \A r \in Recommendations : J!Of(r)' = J!Of(r) \cup (IF r = rec.rec THEN {row} ELSE {})
  BY RowsStay DEF JournalInv
<1>2. rec.rec \in Recommendations
  BY DEF TradeRow
<1>3. CallsOK'
  <2>1. \A o \in Calls : calls'[o] = IF o = q THEN to ELSE calls[o]
    BY DEF JournalInv, CallsOK
  <2>2. \A r \in Recommendations : J!Of(r) # {} => J!Of(r)' # {}
    BY <1>1
  <2>3. J!Of(rec.rec)' # {}
    BY <1>1, <1>2
  <2> DEFINE Fits(c) ==
               /\ c.pc \in {"checking", "inserting", "taken"} => c.rec \in Recommendations
               /\ c.pc = "checking" => c = [pc |-> "checking", rec |-> c.rec]
               /\ c.pc = "taken" => \E x \in J!Written' : trades'[x].rec = c.rec
               /\ c.pc = "closing" => c.row \in J!Written' /\ c.was.status = "OPEN" /\ c.exit \in Exits
  <2>4. Fits(to)
    BY <1>2, <2>3 DEF J!Of
  <2>5. ASSUME NEW o \in Calls \ {q} PROVE Fits(calls[o])
    BY <1>1, <2>2, <2>5 DEF JournalInv, CallsOK, J!Of
  <2>6. \A o \in Calls : Fits(calls'[o])
    BY <2>1, <2>4, <2>5
  <2>7. DOMAIN calls' = Calls
    BY DEF JournalInv, CallsOK
  <2> QED
    BY <2>6, <2>7 DEF CallsOK, J!Of
<1> QED
  BY <1>1, <1>3 DEF JournalInv

\* The row a close writes, field by field.
LEMMA ClosedIs ==
    ASSUME NEW was \in TradeRow, NEW p \in Exits
    PROVE  [[was EXCEPT !.status = "CLOSED"] EXCEPT !.exit = p] = [rec |-> was.rec, status |-> "CLOSED", exit |-> p]
<1> DEFINE moved == [was EXCEPT !.status = "CLOSED"]
           done == [moved EXCEPT !.exit = p]
<1>1. moved \in TradeRow /\ moved.rec = was.rec /\ moved.status = "CLOSED"
  BY DEF TradeRow
<1> HIDE DEF moved
<1>2. done \in TradeRow /\ done.rec = was.rec /\ done.status = "CLOSED" /\ done.exit = p
  BY <1>1 DEF TradeRow
<1> HIDE DEF done
<1>3. done = [rec |-> was.rec, status |-> "CLOSED", exit |-> p]
  BY <1>2 DEF TradeRow
<1> QED
  BY <1>3 DEF done, moved

\* However often a recommendation is taken there is one trade of it, a request answered
\* with a trade has one, and only a close that read it open changes a trade.
THEOREM JournalStands == J!Spec => JournalHolds
<1>1. J!Init => JournalInv
  BY DEF J!Init, JournalInv, TableOK, CallsOK, J!Written
<1>2. ASSUME JournalInv, [J!Next]_(J!vars) PROVE JournalInv'
  <2>1. ASSUME NEW r \in Recommendations, J!Offer(r) \/ J!Expires(r) PROVE JournalInv'
    BY <1>2, <2>1 DEF J!Offer, J!Expires, JournalInv, TableOK, CallsOK, J!Written, J!Of
  <2>2. ASSUME NEW q \in Calls, NEW r \in Recommendations, J!ReadsRecommendation(q, r) PROVE JournalInv'
    <3>1. CASE r \in current /\ calls' = [calls EXCEPT ![q] = [pc |-> "checking", rec |-> r]]
      BY <1>2, <2>2, <3>1, CallMoves DEF J!ReadsRecommendation, JournalInv
    <3>2. CASE calls' = [calls EXCEPT ![q] = [pc |-> "expired"]]
      BY <1>2, <2>2, <3>2, CallMoves DEF J!ReadsRecommendation, JournalInv
    <3> QED
      BY <2>2, <3>1, <3>2 DEF J!ReadsRecommendation, J!Goto, J!Ends
  <2>3. ASSUME NEW q \in Calls, J!ReadsExisting(q) PROVE JournalInv'
    <3>1. calls[q].rec \in Recommendations
      BY <1>2, <2>3 DEF J!ReadsExisting, JournalInv, CallsOK
    <3>2. CASE J!Of(calls[q].rec) # {} /\ calls' = [calls EXCEPT ![q] = [pc |-> "taken", rec |-> calls[q].rec]]
      BY <1>2, <2>3, <3>1, <3>2, CallMoves DEF J!ReadsExisting, JournalInv
    <3>3. CASE calls' = [calls EXCEPT ![q] = [calls[q] EXCEPT !.pc = "inserting"]]
      <4>1. calls[q] = [pc |-> "checking", rec |-> calls[q].rec]
        BY <1>2, <2>3 DEF J!ReadsExisting, JournalInv, CallsOK
      <4>2. \A x, y : [[pc |-> x, rec |-> y] EXCEPT !.pc = "inserting"] = [pc |-> "inserting", rec |-> y]
        OBVIOUS
      <4>3. calls' = [calls EXCEPT ![q] = [pc |-> "inserting", rec |-> calls[q].rec]]
        BY <3>3, <4>1, <4>2
      <4> QED
        BY <1>2, <2>3, <3>1, <4>3, CallMoves DEF J!ReadsExisting, JournalInv
    <3> QED
      BY <2>3, <3>2, <3>3 DEF J!ReadsExisting, J!Goto
  <2>4. ASSUME NEW q \in Calls, J!Inserts(q) PROVE JournalInv'
    <3>1. calls[q].rec \in Recommendations /\ UNCHANGED <<current, stored>>
      BY <1>2, <2>4 DEF J!Inserts, JournalInv, CallsOK
    <3>2. CASE J!Insert(calls[q].rec)
      <4>1. PICK row \in Rows \ J!Written :
              trades' = [trades EXCEPT ![row] = [rec |-> calls[q].rec, status |-> "OPEN", exit |-> NoExit]]
        BY <3>2 DEF J!Insert
      <4>2. [rec |-> calls[q].rec, status |-> "OPEN", exit |-> NoExit] \in TradeRow
        BY <3>1 DEF TradeRow
      <4>3. J!Of(calls[q].rec) = {}
        BY <3>2 DEF J!Insert
      <4>4. CASE calls' = [calls EXCEPT ![q] = [pc |-> "taken", rec |-> calls[q].rec]]
        BY <1>2, <3>1, <4>1, <4>2, <4>3, <4>4, CallWrites
      <4>5. CASE calls' = [calls EXCEPT ![q] = [pc |-> "failed"]]
        BY <1>2, <3>1, <4>1, <4>2, <4>3, <4>5, CallWrites
      <4>6. CASE UNCHANGED trades
        <5>1. [pc |-> "failed"].pc = "failed" /\ calls' = [calls EXCEPT ![q] = [pc |-> "failed"]]
          BY <2>4, <4>4, <4>6, <4>1, <4>2 DEF J!Inserts, J!Goto, J!Ends, J!Written, JournalInv, TableOK, TradeRow, J!None
        <5> QED
          BY <1>2, <3>1, <4>6, <5>1, CallMoves DEF JournalInv
      <4> QED
        BY <2>4, <4>4, <4>5, <4>6 DEF J!Inserts, J!Goto, J!Ends
    <3>3. CASE UNCHANGED trades /\ calls' = [calls EXCEPT ![q] = [pc |-> "failed"]]
      BY <1>2, <3>1, <3>3, CallMoves DEF JournalInv
    <3> QED
      BY <2>4, <3>2, <3>3 DEF J!Inserts, J!Ends, J!Goto
  <2>5. ASSUME NEW q \in Calls, NEW row \in Rows, NEW p \in Exits, J!ReadsOpen(q, row, p) PROVE JournalInv'
    <3>1. CASE /\ row \in J!Written /\ trades[row].status = "OPEN"
               /\ calls' = [calls EXCEPT ![q] = [pc |-> "closing", row |-> row, exit |-> p, was |-> trades[row]]]
      BY <1>2, <2>5, <3>1, CallMoves DEF J!ReadsOpen, JournalInv
    <3>2. CASE calls' = [calls EXCEPT ![q] = [pc |-> "refused"]]
      BY <1>2, <2>5, <3>2, CallMoves DEF J!ReadsOpen, JournalInv
    <3> QED
      BY <2>5, <3>1, <3>2 DEF J!ReadsOpen, J!Goto, J!Ends
  <2>6. ASSUME NEW q \in Calls, J!Closes(q) PROVE JournalInv'
    <3> DEFINE row == calls[q].row
               rec == [rec |-> trades[row].rec, status |-> "CLOSED", exit |-> calls[q].exit]
    <3>1. /\ row \in J!Written /\ calls[q].exit \in Exits /\ UNCHANGED <<current, stored>>
          /\ row \in Rows /\ trades[row] \in TradeRow /\ trades \in [Rows -> TradeRow \cup {J!None}]
      BY <1>2, <2>6 DEF J!Closes, JournalInv, CallsOK, TableOK, J!Written
    <3>2. CASE trades' = [trades EXCEPT ![row].status = "CLOSED", ![row].exit = calls[q].exit]
      <4>1. rec \in TradeRow
        BY <3>1 DEF TradeRow
      <4>2. trades' = [trades EXCEPT ![row] = rec]
        <5>1. [[trades[row] EXCEPT !.status = "CLOSED"] EXCEPT !.exit = calls[q].exit] = rec
          BY <3>1, ClosedIs
        <5>2. trades' = [trades EXCEPT ![row] = [[trades[row] EXCEPT !.status = "CLOSED"] EXCEPT !.exit = calls[q].exit]]
          BY <3>1, <3>2
        <5> QED
          BY <5>1, <5>2
      <4>3. CASE calls' = [calls EXCEPT ![q] = [pc |-> "closed"]]
        BY <1>2, <3>1, <4>1, <4>2, <4>3, CallWrites
      <4>4. CASE calls' = [calls EXCEPT ![q] = [pc |-> "failed"]]
        BY <1>2, <3>1, <4>1, <4>2, <4>4, CallWrites
      <4> QED
        BY <2>6, <4>3, <4>4 DEF J!Closes, J!Ends, J!Goto
    <3>3. CASE UNCHANGED trades /\ calls' = [calls EXCEPT ![q] = [pc |-> "failed"]]
      BY <1>2, <3>1, <3>3, CallMoves DEF JournalInv
    <3> QED
      BY <2>6, <3>2, <3>3 DEF J!Closes, J!Ends, J!Goto
  <2>7. CASE UNCHANGED J!vars
    BY <1>2, <2>7 DEF J!vars, JournalInv, TableOK, CallsOK, J!Written, J!Of
  <2> QED
    BY <1>2, <2>1, <2>2, <2>3, <2>4, <2>5, <2>6, <2>7 DEF J!Next
<1>3. ASSUME JournalInv PROVE J!OneTradeEach
  <2>1. ASSUME NEW r \in Recommendations PROVE Cardinality(J!Of(r)) <= 1
    <3>1. CASE J!Of(r) = {}
      BY <3>1, FS_EmptySet
    <3>2. CASE J!Of(r) # {}
      <4>1. PICK row \in J!Of(r) : TRUE
        BY <3>2
      <4>2. \A other \in J!Of(r) : other = row
        BY <1>3, <4>1 DEF JournalInv, TableOK, J!Of
      <4>3. J!Of(r) = {row}
        BY <4>1, <4>2
      <4>4. Cardinality(J!Of(r)) = 1
        BY <4>3, FS_Singleton
      <4> QED
        BY <4>4
    <3> QED
      BY <3>1, <3>2
  <2> QED
    <3>1. \A q \in Calls : calls[q].pc = "taken" => J!Of(calls[q].rec) # {}
      BY <1>3 DEF JournalInv, CallsOK
    <3> QED
      BY <2>1, <3>1, Zenon DEF J!OneTradeEach, J!Cardinality, Cardinality
<1>4. ASSUME JournalInv, [J!Next]_(J!vars), NEW row \in J!Written, trades'[row] # trades[row]
      PROVE  \E q \in Calls : calls[q].pc = "closing" /\ calls[q].row = row /\ calls[q].was.status = "OPEN"
  <2>1. PICK q \in Calls : J!Inserts(q) \/ J!Closes(q)
    BY <1>4 DEF J!Next, J!vars, J!Offer, J!Expires, J!ReadsRecommendation, J!ReadsExisting, J!ReadsOpen
  <2>2. ~J!Inserts(q)
    BY <1>4 DEF J!Inserts, J!Insert, J!Written, JournalInv, TableOK
  <2>3. calls[q].pc = "closing" /\ calls[q].row = row
    BY <1>4, <2>1, <2>2 DEF J!Closes, J!Written, JournalInv, TableOK
  <2> QED
    BY <1>4, <2>3 DEF JournalInv, CallsOK
<1>5. J!Spec => []JournalInv
  BY <1>1, <1>2, PTL DEF J!Spec
<1>6. J!Spec => J!OnlyOpenIsClosed
  <2>1. JournalInv /\ [J!Next]_(J!vars) =>
          [\A row \in J!Written : trades'[row] # trades[row] =>
              \E q \in Calls : calls[q].pc = "closing" /\ calls[q].row = row /\ calls[q].was.status = "OPEN"]_(J!vars)
    BY <1>4
  <2> QED
    BY <1>5, <2>1, PTL DEF J!Spec, J!OnlyOpenIsClosed
<1> QED
  BY <1>3, <1>5, <1>6, PTL DEF JournalHolds, J!JournalHolds

-----------------------------------------------------------------------------
(* The worker's door                                                       *)

\* How many of a caller's requests passed at a time of T.
PassedIn(s, T) == Cardinality({i \in DOMAIN s : s[i] \in T})

Span(from, to) == {t \in Nat : from <= t /\ t < to}
Since(from) == {t \in Nat : from <= t}

\* The times of the window before t.
Before(t) == {u \in Nat : t < u + Window /\ u < t}

\* The requests that passed at some times are a natural number.
LEMMA PassedIsNatural ==
    ASSUME NEW s \in Seq(Nat), NEW T
    PROVE  IsFiniteSet({i \in DOMAIN s : s[i] \in T}) /\ PassedIn(s, T) \in Nat
<1>1. IsFiniteSet(1..Len(s)) /\ DOMAIN s = 1..Len(s)
  BY FS_Interval
<1>2. IsFiniteSet({i \in DOMAIN s : s[i] \in T})
  BY <1>1, FS_Subset
<1> QED
  BY <1>2, FS_CardinalityType DEF PassedIn

\* None passed at no time.
LEMMA PassedNever ==
    ASSUME NEW s \in Seq(Nat), NEW T, \A i \in DOMAIN s : s[i] \notin T
    PROVE  PassedIn(s, T) = 0
<1>1. {i \in DOMAIN s : s[i] \in T} = {}
  OBVIOUS
<1> QED
  BY <1>1, FS_EmptySet DEF PassedIn

\* One more request adds one where its time is counted, and nothing elsewhere.
LEMMA PassedOnce ==
    ASSUME NEW s \in Seq(Nat), NEW t \in Nat, NEW T
    PROVE  PassedIn(Append(s, t), T) = PassedIn(s, T) + (IF t \in T THEN 1 ELSE 0)
<1> DEFINE X == {i \in DOMAIN s : s[i] \in T}
           more == {i \in DOMAIN Append(s, t) : Append(s, t)[i] \in T}
<1>1. more = X \cup (IF t \in T THEN {Len(s) + 1} ELSE {})
  OBVIOUS
<1>2. IsFiniteSet(X) /\ Len(s) + 1 \notin X /\ Cardinality(X) = PassedIn(s, T) /\ PassedIn(s, T) \in Nat
  <2>1. Len(s) + 1 \notin X
    OBVIOUS
  <2>2. Cardinality(X) = PassedIn(s, T)
    BY DEF PassedIn
  <2> QED
    BY <2>1, <2>2, PassedIsNatural
<1>3. Cardinality(more) = PassedIn(Append(s, t), T)
  BY DEF PassedIn
<1> HIDE DEF X, more
<1>4. CASE t \in T
  <2>1. Cardinality(X \cup {Len(s) + 1}) = Cardinality(X) + 1
    BY <1>2, FS_AddElement
  <2> QED
    BY <1>1, <1>2, <1>3, <1>4, <2>1
<1>5. CASE t \notin T
  BY <1>1, <1>2, <1>3, <1>5
<1> QED
  BY <1>4, <1>5

\* More times count no fewer requests.
LEMMA PassedInMore ==
    ASSUME NEW s \in Seq(Nat), NEW T, NEW U, \A i \in DOMAIN s : s[i] \in T => s[i] \in U
    PROVE  PassedIn(s, T) <= PassedIn(s, U)
<1>1. {i \in DOMAIN s : s[i] \in T} \subseteq {i \in DOMAIN s : s[i] \in U}
  OBVIOUS
<1> QED
  BY <1>1, PassedIsNatural, FS_Subset DEF PassedIn

\* Times covered by two sets count no more than both.
LEMMA PassedInEither ==
    ASSUME NEW s \in Seq(Nat), NEW T, NEW U, NEW V, \A i \in DOMAIN s : s[i] \in T => s[i] \in U \/ s[i] \in V
    PROVE  PassedIn(s, T) <= PassedIn(s, U) + PassedIn(s, V)
<1> DEFINE Us == {i \in DOMAIN s : s[i] \in U}
           Vs == {i \in DOMAIN s : s[i] \in V}
           Ts == {i \in DOMAIN s : s[i] \in T}
<1>1. IsFiniteSet(Us) /\ IsFiniteSet(Vs) /\ Ts \subseteq Us \cup Vs
  BY PassedIsNatural
<1>2. /\ Cardinality(Us) = PassedIn(s, U) /\ Cardinality(Vs) = PassedIn(s, V) /\ Cardinality(Ts) = PassedIn(s, T)
      /\ PassedIn(s, U) \in Nat /\ PassedIn(s, V) \in Nat /\ PassedIn(s, T) \in Nat
  BY PassedIsNatural DEF PassedIn
<1> HIDE DEF Us, Vs, Ts
<1>3. /\ IsFiniteSet(Us \cup Vs) /\ IsFiniteSet(Us \cap Vs)
      /\ Cardinality(Us \cup Vs) = Cardinality(Us) + Cardinality(Vs) - Cardinality(Us \cap Vs)
  BY <1>1, FS_Union, FS_Intersection
<1>4. Cardinality(Us \cap Vs) \in Nat /\ Cardinality(Ts) <= Cardinality(Us \cup Vs) /\ Cardinality(Us \cup Vs) \in Nat
  BY <1>1, <1>3, FS_CardinalityType, FS_Subset
<1> QED
  BY <1>2, <1>3, <1>4

\* A caller's times and its bucket: the requests that passed since the bucket began are
\* counted in it, those of the window before it were counted in another, and all of a
\* caller without a bucket are older than a window.
Within(s, started, count) ==
    /\ \A i \in DOMAIN s : s[i] < started + Window
    /\ PassedIn(s, Since(started)) <= count
    /\ PassedIn(s, Since(started)) <= Limit
    /\ PassedIn(s, Before(started)) <= Limit
Past(s, t) == \A i \in DOMAIN s : s[i] + Window < t
Spaced(s) == \A from \in Nat : PassedIn(s, Span(from, from + Window)) <= 2 * Limit

\* A first request of a window, after the last bucket or without one.
LEMMA FirstOfWindow ==
    ASSUME NEW s \in Seq(Nat), NEW t \in Nat, Spaced(s),
           \/ Past(s, t)
           \/ \E started, count \in Nat : Within(s, started, count) /\ started + Window <= t
    PROVE  Spaced(Append(s, t)) /\ Within(Append(s, t), t, 1)
<1> DEFINE lately == {u \in Nat : t < u + Window}
<1>0. Limit >= 1 /\ Window >= 1 /\ Limit \in Nat /\ Window \in Nat
  BY GateAssumption
<1>1. /\ \A i \in DOMAIN s : s[i] < t /\ s[i] \in Nat
      /\ PassedIn(s, lately) <= Limit
  <2>1. CASE Past(s, t)
    <3>1. \A i \in DOMAIN s : s[i] \notin lately /\ s[i] < t /\ s[i] \in Nat
      BY <1>0, <2>1 DEF Past
    <3> HIDE DEF lately
    <3>2. PassedIn(s, lately) = 0
      BY <3>1, PassedNever
    <3> QED
      BY <1>0, <3>1, <3>2
  <2>2. CASE \E started, count \in Nat : Within(s, started, count) /\ started + Window <= t
    <3>1. PICK started, count \in Nat : Within(s, started, count) /\ started + Window <= t
      BY <2>2
    <3>2. \A i \in DOMAIN s : s[i] < t /\ s[i] \in Nat /\ (s[i] \in lately => s[i] \in Since(started))
      BY <1>0, <3>1 DEF Within, Since
    <3> HIDE DEF lately
    <3>3. PassedIn(s, lately) <= PassedIn(s, Since(started))
      BY <3>2, PassedInMore
    <3>4. PassedIn(s, lately) \in Nat /\ PassedIn(s, Since(started)) \in Nat
      BY PassedIsNatural
    <3> QED
      BY <1>0, <3>1, <3>2, <3>3, <3>4 DEF Within
  <2> QED
    BY <2>1, <2>2
<1>2. Append(s, t) \in Seq(Nat) /\ DOMAIN Append(s, t) = 1..Len(s) + 1 /\ DOMAIN s = 1..Len(s)
  OBVIOUS
<1>3. \A i \in DOMAIN Append(s, t) : Append(s, t)[i] < t + Window
  BY <1>0, <1>1, <1>2
<1>4. PassedIn(Append(s, t), Since(t)) = 1
  <2>1. PassedIn(s, Since(t)) = 0
    <3>1. \A i \in DOMAIN s : s[i] \notin Since(t)
      BY <1>1 DEF Since
    <3> QED
      BY <3>1, PassedNever
  <2> QED
    BY <2>1, PassedOnce DEF Since
<1>5. PassedIn(Append(s, t), Before(t)) <= Limit
  <2>1. t \notin Before(t) /\ \A i \in DOMAIN s : s[i] \in Before(t) => s[i] \in lately
    BY DEF Before
  <2> HIDE DEF lately
  <2>2. PassedIn(s, Before(t)) <= PassedIn(s, lately)
    BY <2>1, PassedInMore
  <2>3. PassedIn(Append(s, t), Before(t)) = PassedIn(s, Before(t)) + 0
    BY <2>1, PassedOnce
  <2>4. PassedIn(s, lately) \in Nat /\ PassedIn(s, Before(t)) \in Nat
    BY PassedIsNatural
  <2> QED
    BY <1>0, <1>1, <2>2, <2>3, <2>4 DEF lately
<1>6. ASSUME NEW from \in Nat PROVE PassedIn(Append(s, t), Span(from, from + Window)) <= 2 * Limit
  <2> DEFINE span == Span(from, from + Window)
  <2>1. PassedIn(s, span) <= 2 * Limit /\ PassedIn(s, span) \in Nat
    BY PassedIsNatural DEF Spaced
  <2>2. PassedIn(Append(s, t), span) = PassedIn(s, span) + (IF t \in span THEN 1 ELSE 0)
    BY PassedOnce
  <2>3. CASE t \in span
    <3>1. \A i \in DOMAIN s : s[i] \in span => s[i] \in lately
      BY <1>0, <2>3 DEF Span
    <3> HIDE DEF lately, span
    <3>2. PassedIn(s, span) <= PassedIn(s, lately) /\ PassedIn(s, lately) \in Nat
      BY <3>1, PassedInMore, PassedIsNatural
    <3> QED
      BY <1>0, <1>1, <2>1, <2>2, <2>3, <3>2 DEF span
  <2>4. CASE t \notin span
    <3> HIDE DEF span
    <3> QED
      BY <2>1, <2>2, <2>4 DEF span
  <2> QED
    BY <2>3, <2>4
<1>7. Within(Append(s, t), t, 1)
  BY <1>0, <1>3, <1>4, <1>5 DEF Within
<1> QED
  BY <1>6, <1>7 DEF Spaced

\* One more request of a bucket that is not full.
LEMMA OneMoreOfWindow ==
    ASSUME NEW s \in Seq(Nat), NEW t \in Nat, Spaced(s), NEW started \in Nat, NEW count \in Nat,
           Within(s, started, count), started <= t, t < started + Window, count + 1 <= Limit
    PROVE  Spaced(Append(s, t)) /\ Within(Append(s, t), started, count + 1)
<1>0. Limit \in Nat /\ Window \in Nat
  BY GateAssumption
<1>1. Append(s, t) \in Seq(Nat) /\ DOMAIN Append(s, t) = 1..Len(s) + 1 /\ DOMAIN s = 1..Len(s)
  OBVIOUS
<1>2. \A i \in DOMAIN Append(s, t) : Append(s, t)[i] < started + Window
  BY <1>0, <1>1 DEF Within
<1>3. PassedIn(Append(s, t), Since(started)) = PassedIn(s, Since(started)) + 1
  BY PassedOnce DEF Since
<1>4. PassedIn(Append(s, t), Before(started)) = PassedIn(s, Before(started)) + 0
  <2>1. t \notin Before(started)
    BY DEF Before
  <2> QED
    BY <2>1, PassedOnce
<1>5. PassedIn(s, Since(started)) \in Nat /\ PassedIn(s, Before(started)) \in Nat
  BY PassedIsNatural
<1>6. ASSUME NEW from \in Nat PROVE PassedIn(Append(s, t), Span(from, from + Window)) <= 2 * Limit
  <2> DEFINE span == Span(from, from + Window)
  <2>1. PassedIn(s, span) <= 2 * Limit /\ PassedIn(s, span) \in Nat
    BY PassedIsNatural DEF Spaced
  <2>2. PassedIn(Append(s, t), span) = PassedIn(s, span) + (IF t \in span THEN 1 ELSE 0)
    BY PassedOnce
  <2>3. CASE t \in span
    <3>1. \A i \in DOMAIN s : s[i] \in span => s[i] \in Since(started) \/ s[i] \in Before(started)
      BY <1>0, <2>3 DEF Span, Since, Before
    <3> HIDE DEF span
    <3>2. PassedIn(s, span) <= PassedIn(s, Since(started)) + PassedIn(s, Before(started))
      BY <3>1, PassedInEither
    <3> QED
      BY <1>0, <1>5, <2>1, <2>2, <2>3, <3>2 DEF span, Within
  <2>4. CASE t \notin span
    <3> HIDE DEF span
    <3> QED
      BY <2>1, <2>2, <2>4 DEF span
  <2> QED
    BY <2>3, <2>4
<1>7. Within(Append(s, t), started, count + 1)
  BY <1>0, <1>2, <1>3, <1>4, <1>5 DEF Within
<1> QED
  BY <1>6, <1>7 DEF Spaced

\* What a bucket and the times of its caller say of each other.
BucketCounts(k) ==
    IF k \in DOMAIN buckets
    THEN /\ buckets[k].started <= now
         /\ Within(admitted[k], buckets[k].started, buckets[k].count)
    ELSE Past(admitted[k], now)

GateTypeOK ==
    /\ now \in Nat
    /\ DOMAIN buckets \subseteq Callers
    /\ buckets \in [DOMAIN buckets -> [started : Nat, count : Nat]]
    /\ admitted \in [Callers -> Seq(Nat)]

AnswersAreStored ==
    /\ DOMAIN answers = Alerts
    /\ \A a \in Alerts : answers[a] = IF a \in evidence THEN 1 ELSE 0
    /\ \/ request.kind \in {"none", "ai"}
       \/ \E kind \in {"alert", "insert"}, a \in Alerts, sound \in BOOLEAN :
            request = [kind |-> kind, alert |-> a, sound |-> sound]

GateInv ==
    /\ GateTypeOK /\ AnswersAreStored
    /\ \A k \in Callers : BucketCounts(k) /\ Spaced(admitted[k])

\* The rate limit after one more request of k.
LEMMA ArrivalKeepsLimit ==
    ASSUME GateInv, NEW k \in Callers, NEW r, W!Arrives(k, r)
    PROVE  GateTypeOK' /\ \A c \in Callers : BucketCounts(c)' /\ Spaced(admitted'[c])
<1>0. /\ now \in Nat /\ now' = now /\ Window \in Nat \ {0} /\ Limit \in Nat \ {0}
      /\ DOMAIN buckets \subseteq Callers
      /\ buckets \in [DOMAIN buckets -> [started : Nat, count : Nat]]
      /\ admitted \in [Callers -> Seq(Nat)]
      /\ buckets' = W!Counted(k)
      /\ admitted' = IF W!Allowed(k) THEN [admitted EXCEPT ![k] = Append(@, now)] ELSE admitted
      /\ BucketCounts(k) /\ Spaced(admitted[k])
  BY GateAssumption DEF W!Arrives, GateInv, GateTypeOK
<1>1. CASE W!Starts(k)
  <2>1. /\ buckets' = [c \in DOMAIN buckets \cup {k} |->
                           IF c = k THEN [started |-> now, count |-> 1] ELSE buckets[c]]
        /\ admitted' = [admitted EXCEPT ![k] = Append(@, now)]
    BY <1>0, <1>1 DEF W!Counted, W!Allowed
  <2>2. GateTypeOK'
    BY <1>0, <2>1 DEF GateTypeOK
  <2>3. \/ Past(admitted[k], now)
        \/ \E started, count \in Nat : Within(admitted[k], started, count) /\ started + Window <= now
    BY <1>0, <1>1 DEF W!Starts, BucketCounts
  <2>4. Spaced(Append(admitted[k], now)) /\ Within(Append(admitted[k], now), now, 1)
    BY <1>0, <2>3, FirstOfWindow
  <2>5. BucketCounts(k)' /\ Spaced(admitted'[k])
    BY <1>0, <2>1, <2>4 DEF BucketCounts
  <2>6. ASSUME NEW c \in Callers \ {k} PROVE BucketCounts(c)' /\ Spaced(admitted'[c])
    BY <1>0, <2>1, <2>6 DEF BucketCounts, GateInv
  <2> QED
    BY <2>2, <2>5, <2>6
<1>2. CASE ~W!Starts(k)
  <2> DEFINE full == buckets[k].count
             counted == [buckets EXCEPT ![k].count = IF @ > Limit THEN @ ELSE @ + 1]
  <2>1. /\ k \in DOMAIN buckets /\ now < buckets[k].started + Window /\ buckets[k].started <= now
        /\ buckets[k].started \in Nat /\ full \in Nat
        /\ Within(admitted[k], buckets[k].started, full)
        /\ W!Allowed(k) <=> full + 1 <= Limit
        /\ buckets' = W!Swept(counted)
    BY <1>0, <1>2 DEF W!Starts, W!Allowed, W!Counted, BucketCounts
  <2>2. /\ DOMAIN counted = DOMAIN buckets
        /\ counted \in [DOMAIN buckets -> [started : Nat, count : Nat]]
        /\ \A c \in DOMAIN buckets : counted[c].started = buckets[c].started
        /\ \A c \in DOMAIN buckets \ {k} : counted[c] = buckets[c]
        /\ counted[k].count = IF full > Limit THEN full ELSE full + 1
    BY <1>0, <2>1
  <2> HIDE DEF counted
  <2>3. /\ DOMAIN buckets' \subseteq DOMAIN buckets
        /\ \A c \in DOMAIN buckets' : buckets'[c] = counted[c]
        /\ \A c \in DOMAIN buckets \ DOMAIN buckets' : ~(now - buckets[c].started <= 2 * Window)
        /\ buckets' \in [DOMAIN buckets' -> [started : Nat, count : Nat]]
    BY <2>1, <2>2 DEF W!Swept
  <2>4. k \in DOMAIN buckets'
    BY <1>0, <2>1, <2>3
  <2>5. GateTypeOK'
    BY <1>0, <2>3 DEF GateTypeOK
  <2>6. BucketCounts(k)' /\ Spaced(admitted'[k])
    <3>1. CASE full + 1 <= Limit
      <4>1. admitted'[k] = Append(admitted[k], now)
        BY <1>0, <2>1, <3>1
      <4>2. Spaced(Append(admitted[k], now)) /\ Within(Append(admitted[k], now), buckets[k].started, full + 1)
        BY <1>0, <2>1, <3>1, OneMoreOfWindow
      <4>3. buckets'[k].started = buckets[k].started /\ buckets'[k].count = full + 1
        BY <1>0, <2>1, <2>2, <2>3, <2>4, <3>1
      <4> QED
        BY <1>0, <2>1, <2>4, <4>1, <4>2, <4>3 DEF BucketCounts
    <3>2. CASE ~(full + 1 <= Limit)
      <4>1. admitted' = admitted
        BY <1>0, <2>1, <3>2
      <4>2. buckets'[k].started = buckets[k].started /\ buckets'[k].count >= full /\ buckets'[k].count \in Nat
        BY <1>0, <2>1, <2>2, <2>3, <2>4
      <4>3. PassedIn(admitted[k], Since(buckets[k].started)) \in Nat
        BY <1>0, PassedIsNatural
      <4>4. Within(admitted[k], buckets[k].started, buckets'[k].count)
        BY <2>1, <4>2, <4>3 DEF Within
      <4> QED
        BY <1>0, <2>1, <2>4, <4>1, <4>2, <4>4 DEF BucketCounts
    <3> QED
      BY <3>1, <3>2
  <2>7. ASSUME NEW c \in Callers \ {k} PROVE BucketCounts(c)' /\ Spaced(admitted'[c])
    <3>1. admitted'[c] = admitted[c] /\ BucketCounts(c) /\ Spaced(admitted[c])
      BY <1>0 DEF GateInv
    <3>2. CASE c \in DOMAIN buckets'
      BY <1>0, <2>2, <2>3, <3>1, <3>2 DEF BucketCounts
    <3>3. CASE c \in DOMAIN buckets \ DOMAIN buckets'
      <4>1. buckets[c].started \in Nat /\ ~(now - buckets[c].started <= 2 * Window)
        BY <1>0, <2>3, <3>3
      <4>2. Past(admitted[c], now)
        <5>1. \A i \in DOMAIN admitted[c] : admitted[c][i] < buckets[c].started + Window /\ admitted[c][i] \in Nat
          BY <1>0, <3>1, <3>3 DEF BucketCounts, Within
        <5>2. \A t, x, y, w \in Nat : ~(t - x <= 2 * w) /\ y < x + w => y + w < t
          OBVIOUS
        <5>3. now \in Nat /\ Window \in Nat
          BY <1>0
        <5> QED
          BY <4>1, <5>1, <5>2, <5>3 DEF Past
      <4> QED
        BY <1>0, <3>1, <3>3, <4>2 DEF BucketCounts
    <3>4. CASE c \notin DOMAIN buckets
      BY <1>0, <2>3, <3>1, <3>4 DEF BucketCounts
    <3> QED
      BY <3>2, <3>3, <3>4
  <2> QED
    BY <2>5, <2>6, <2>7
<1> QED
  BY <1>1, <1>2

\* What leaves the rate limit's variables alone leaves its invariant alone.
LEMMA LimitUntouched ==
    ASSUME GateInv, UNCHANGED <<now, buckets, admitted>>
    PROVE  GateTypeOK' /\ \A c \in Callers : BucketCounts(c)' /\ Spaced(admitted'[c])
BY DEF GateInv, GateTypeOK, BucketCounts

\* An isolate passes at most twice the limit of a caller's requests in any window, and an
\* alert is accepted once, across isolates, exactly when its evidence is stored.
THEOREM GateStands == W!Spec => []GateHolds
<1>1. ASSUME W!Init PROVE GateInv
  <2>1. now = 0 /\ DOMAIN buckets = {} /\ admitted = [k \in Callers |-> <<>>]
    BY <1>1 DEF W!Init
  <2>2. GateTypeOK
    BY <2>1, <1>1 DEF W!Init, GateTypeOK
  <2>3. \A k \in Callers : BucketCounts(k) /\ Spaced(admitted[k])
    <3>1. <<>> \in Seq(Nat) /\ \A i \in DOMAIN <<>> : FALSE
      OBVIOUS
    <3>2. \A from \in Nat : PassedIn(<<>>, Span(from, from + Window)) = 0
      BY <3>1, PassedNever
    <3>3. Spaced(<<>>) /\ Past(<<>>, 0)
      BY <3>1, <3>2, GateAssumption DEF Spaced, Past
    <3> QED
      BY <2>1, <3>3 DEF BucketCounts
  <2>4. AnswersAreStored
    BY <1>1 DEF W!Init, AnswersAreStored, W!NoRequest
  <2> QED
    BY <2>2, <2>3, <2>4 DEF GateInv
<1>2. ASSUME GateInv, [W!Next]_(W!vars) PROVE GateInv'
  <2>1. CASE W!Tick
    <3>1. now \in Nat /\ now' = now + 1 /\ UNCHANGED <<buckets, admitted, answers, evidence, request>>
      BY <1>2, <2>1 DEF W!Tick, GateInv, GateTypeOK
    <3>2. ASSUME NEW k \in Callers PROVE BucketCounts(k)' /\ Spaced(admitted'[k])
      <4>1. CASE k \in DOMAIN buckets
        <5>1. buckets[k].started \in Nat
          BY <1>2, <4>1 DEF GateInv, GateTypeOK
        <5> QED
          BY <1>2, <3>1, <4>1, <5>1 DEF GateInv, BucketCounts
      <4>2. CASE k \notin DOMAIN buckets
        <5>1. \A i \in DOMAIN admitted[k] : admitted[k][i] \in Nat
          BY <1>2 DEF GateInv, GateTypeOK
        <5> QED
          BY <1>2, <3>1, <4>2, <5>1, GateAssumption DEF GateInv, BucketCounts, Past
      <4> QED
        BY <4>1, <4>2
    <3> QED
      BY <1>2, <3>1, <3>2 DEF GateInv, GateTypeOK, AnswersAreStored
  <2>2. CASE W!Replaced
    <3>1. DOMAIN buckets' = {} /\ admitted' = [k \in Callers |-> <<>>] /\ now' = now /\ UNCHANGED <<answers, evidence>>
      BY <2>2 DEF W!Replaced
    <3>2. \A k \in Callers : BucketCounts(k)' /\ Spaced(admitted'[k])
      <4>1. <<>> \in Seq(Nat) /\ \A i \in DOMAIN <<>> : FALSE
        OBVIOUS
      <4>2. \A from \in Nat : PassedIn(<<>>, Span(from, from + Window)) = 0
        BY <4>1, PassedNever
      <4>3. Spaced(<<>>) /\ Past(<<>>, now)
        BY <4>1, <4>2, GateAssumption DEF Spaced, Past
      <4> QED
        BY <3>1, <4>3 DEF BucketCounts
    <3>3. GateTypeOK'
      BY <1>2, <2>2, <3>1 DEF W!Replaced, GateInv, GateTypeOK
    <3>4. AnswersAreStored'
      BY <1>2, <2>2, <3>1 DEF W!Replaced, W!NoRequest, GateInv, AnswersAreStored
    <3> QED
      BY <3>2, <3>3, <3>4 DEF GateInv
  <2>3. CASE W!Takes
    <3>1. request.kind = "alert" /\ UNCHANGED <<now, buckets, admitted, evidence, answers>>
      BY <2>3 DEF W!Takes
    <3>2. PICK a \in Alerts, sound \in BOOLEAN : request = [kind |-> "alert", alert |-> a, sound |-> sound]
      BY <1>2, <3>1 DEF GateInv, AnswersAreStored
    <3>3. request' = W!NoRequest \/ request' = [request EXCEPT !.kind = "insert"]
      BY <2>3 DEF W!Takes
    <3>4. [request EXCEPT !.kind = "insert"] = [kind |-> "insert", alert |-> a, sound |-> sound]
      <4>1. \A x, y, z, to : [[kind |-> x, alert |-> y, sound |-> z] EXCEPT !.kind = to]
                              = [kind |-> to, alert |-> y, sound |-> z]
        OBVIOUS
      <4> QED
        BY <3>2, <4>1
    <3>5. AnswersAreStored'
      BY <1>2, <3>1, <3>3, <3>4 DEF GateInv, AnswersAreStored, W!NoRequest
    <3> QED
      BY <1>2, <3>1, <3>5, LimitUntouched DEF GateInv
  <2>4. CASE W!AiAnswers
    BY <1>2, <2>4, LimitUntouched DEF W!AiAnswers, W!NoRequest, GateInv, AnswersAreStored
  <2>5. ASSUME NEW k \in Callers, NEW r, W!Arrives(k, r),
               \/ r.kind \in {"none", "ai"}
               \/ \E a \in Alerts, sound \in BOOLEAN : r = [kind |-> "alert", alert |-> a, sound |-> sound]
        PROVE  GateInv'
    <3>1. GateTypeOK' /\ \A c \in Callers : BucketCounts(c)' /\ Spaced(admitted'[c])
      BY <1>2, <2>5, ArrivalKeepsLimit
    <3>2. request' = r \/ request' = W!NoRequest
      BY <2>5 DEF W!Arrives
    <3>3. AnswersAreStored'
      BY <1>2, <2>5, <3>2 DEF W!Arrives, W!NoRequest, GateInv, AnswersAreStored
    <3> QED
      BY <3>1, <3>3 DEF GateInv
  <2>6. ASSUME NEW k \in Callers,
               \/ W!BadRequest(k) \/ W!AiCall(k)
               \/ \E a \in Alerts, sound \in BOOLEAN : W!Alert(k, a, sound)
        PROVE  GateInv'
    BY <2>5, <2>6 DEF W!BadRequest, W!AiCall, W!Alert, W!NoRequest
  <2>7. ASSUME NEW works \in BOOLEAN, W!Persists(works) PROVE GateInv'
    <3>1. /\ request.kind = "insert" /\ request' = W!NoRequest /\ UNCHANGED <<now, buckets, admitted>>
          /\ request.alert \in Alerts
      BY <1>2, <2>7 DEF W!Persists, GateInv, AnswersAreStored
    <3>2. AnswersAreStored'
      <4>1. CASE works /\ request.alert \notin evidence
        BY <1>2, <2>7, <3>1, <4>1 DEF W!Persists, W!Insertable, W!NoRequest, GateInv, AnswersAreStored
      <4>2. CASE ~(works /\ request.alert \notin evidence)
        BY <1>2, <2>7, <3>1, <4>2 DEF W!Persists, W!Insertable, W!NoRequest, GateInv, AnswersAreStored
      <4> QED
        BY <4>1, <4>2
    <3> QED
      BY <1>2, <3>1, <3>2, LimitUntouched DEF GateInv
  <2>8. CASE UNCHANGED W!vars
    BY <1>2, <2>8, LimitUntouched DEF W!vars, GateInv, AnswersAreStored
  <2> QED
    BY <1>2, <2>1, <2>2, <2>3, <2>4, <2>6, <2>7, <2>8 DEF W!Next
<1>3. ASSUME GateInv PROVE GateHolds
  <2>1. ASSUME NEW k \in Callers, NEW from \in W!Now
        PROVE  Cardinality({i \in DOMAIN admitted[k] : from <= admitted[k][i] /\ admitted[k][i] < from + Window}) <= 2 * Limit
    <3>1. from \in Nat /\ admitted[k] \in Seq(Nat)
      BY <1>3, GateAssumption DEF W!Now, GateInv, GateTypeOK
    <3>2. {i \in DOMAIN admitted[k] : from <= admitted[k][i] /\ admitted[k][i] < from + Window}
          = {i \in DOMAIN admitted[k] : admitted[k][i] \in Span(from, from + Window)}
      BY <3>1 DEF Span
    <3> QED
      BY <1>3, <3>1, <3>2 DEF GateInv, Spaced, PassedIn
  <2> QED
    BY <1>3, <2>1, Zenon DEF GateHolds, W!GateHolds, W!Cardinality, Cardinality, GateInv, AnswersAreStored
<1> QED
  BY <1>1, <1>2, <1>3, PTL DEF W!Spec

-----------------------------------------------------------------------------
(* The archive of rank scans                                               *)

StoredLabels == {A!Gap, A!Pending} \union Results
StoredRows == [rank : Nat, label : StoredLabels]
Batches == [kind : {"batch"}, hash : Hashes, universe : {u \in Rebuilds : A!Contiguous(u)},
            sequenced : BOOLEAN, existed : BOOLEAN]

RanksDiffer(r) ==
    \A c, d \in DOMAIN r : r[c].rank # 0 /\ r[c].rank = r[d].rank => c = d

\* A batch that found the scan stored was of the same content.
ArchiveInv ==
    /\ snapshot \in {A!None} \union Hashes
    /\ rows \in [DOMAIN rows -> StoredRows]
    /\ RanksDiffer(rows)
    /\ clients \in [Clients -> {A!Idle} \union Batches \union A!Outcome]
    /\ \A k \in Clients : clients[k].kind = "batch" /\ clients[k].existed => snapshot = clients[k].hash

\* A contiguous order gives no rank twice: as many ranks as ranked candidates.
LEMMA ContiguousDiffers ==
    ASSUME NEW u \in Rebuilds, A!Contiguous(u),
           NEW c \in DOMAIN u, NEW d \in DOMAIN u, u[c] # 0, u[c] = u[d]
    PROVE  c = d
<1> DEFINE ranked == {x \in DOMAIN u : u[x] # 0}
           order == [x \in ranked |-> u[x]]
           n == Cardinality(ranked)
<1>1. IsFiniteSet(ranked) /\ n \in Nat
  <2>1. IsFiniteSet(DOMAIN u)
    BY ArchiveAssumption
  <2>2. IsFiniteSet(ranked)
    BY <2>1, FS_Subset
  <2> HIDE DEF ranked
  <2> QED
    BY <2>2, FS_CardinalityType
<1>2. {u[x] : x \in ranked} = 1..n
  BY Zenon DEF A!Contiguous, A!Cardinality, Cardinality
<1>3. order \in Surjection(ranked, 1..n)
  BY <1>2 DEF Surjection
<1>4. IsFiniteSet(1..n) /\ Cardinality(1..n) = n
  <2> HIDE DEF n
  <2> QED
    BY <1>1, FS_Interval
<1>5. order \in Injection(ranked, 1..n)
  <2> HIDE DEF order, ranked
  <2> QED
    BY <1>1, <1>3, <1>4, FS_SurjSameCardinalityImpliesInj
<1> QED
  BY <1>5 DEF Injection, IsInjective

\* The rows that a batch adds keep the ranks apart.
LEMMA FreshKeepsRanks ==
    ASSUME ArchiveInv, NEW u \in Rebuilds, A!Contiguous(u)
    PROVE  LET added == A!Fresh(u)
               all == [c \in DOMAIN rows \union added |->
                          IF c \in DOMAIN rows THEN rows[c] ELSE [rank |-> u[c], label |-> A!Pending]]
           IN  RanksDiffer(all) /\ all \in [DOMAIN all -> StoredRows]
<1> DEFINE added == A!Fresh(u)
           all == [c \in DOMAIN rows \union added |->
                      IF c \in DOMAIN rows THEN rows[c] ELSE [rank |-> u[c], label |-> A!Pending]]
<1>1. ASSUME NEW c \in added
      PROVE  /\ c \in DOMAIN u /\ c \notin DOMAIN rows
             /\ u[c] # 0 => \A d \in DOMAIN rows : rows[d].rank # u[c]
             /\ all[c].rank = u[c] /\ all[c] \in StoredRows
  <2>1. c \in DOMAIN u /\ c \notin DOMAIN rows /\ (u[c] # 0 => \A d \in DOMAIN rows : rows[d].rank # u[c])
    BY DEF A!Fresh
  <2>2. u[c] \in Nat
    BY <2>1, ArchiveAssumption
  <2>3. all[c] = [rank |-> u[c], label |-> A!Pending]
    BY <2>1
  <2> QED
    BY <2>1, <2>2, <2>3 DEF StoredRows, StoredLabels
<1>2. ASSUME NEW c \in DOMAIN rows PROVE all[c] = rows[c] /\ all[c] \in StoredRows
  BY DEF ArchiveInv
<1>3. DOMAIN all = DOMAIN rows \union added
  OBVIOUS
<1> HIDE DEF all, added
<1>4. ASSUME NEW c \in DOMAIN all, NEW d \in DOMAIN all, all[c].rank # 0, all[c].rank = all[d].rank
      PROVE  c = d
  <2>1. CASE c \in DOMAIN rows /\ d \in DOMAIN rows
    BY <1>2, <1>4, <2>1 DEF ArchiveInv, RanksDiffer
  <2>2. CASE c \in added /\ d \in added
    BY <1>1, <1>4, <2>2, ContiguousDiffers
  <2>3. CASE c \in DOMAIN rows /\ d \in added
    BY <1>1, <1>2, <1>4, <2>3
  <2>4. CASE c \in added /\ d \in DOMAIN rows
    BY <1>1, <1>2, <1>4, <2>4
  <2> QED
    BY <1>3, <1>4, <2>1, <2>2, <2>3, <2>4
<1>5. all \in [DOMAIN all -> StoredRows]
  <2>1. \A c \in DOMAIN all : all[c] \in StoredRows
    BY <1>1, <1>2, <1>3
  <2>2. all = [c \in DOMAIN all |-> all[c]]
    BY DEF all
  <2> QED
    BY <2>1, <2>2
<1> QED
  BY <1>4, <1>5 DEF RanksDiffer, all, added

\* What a request leaves of the others.
LEMMA SendIs ==
    ASSUME NEW k \in Clients, NEW r, A!Send(k, r), clients \in [Clients -> {A!Idle} \union Batches \union A!Outcome],
           r \in {A!Idle} \union Batches \union A!Outcome
    PROVE  /\ clients' \in [Clients -> {A!Idle} \union Batches \union A!Outcome]
           /\ clients'[k] = r
           /\ \A j \in Clients : j # k => clients'[j] = clients[j]
BY DEF A!Send

\* The two kinds of requests differ.
LEMMA KindsAre ==
    /\ A!Idle.kind = "idle"
    /\ \A r \in Batches : r.kind = "batch" /\ r.hash \in Hashes /\ r.universe \in Rebuilds /\ A!Contiguous(r.universe)
    /\ \A r \in A!Outcome : r.kind \in {"outcome", "recovery"} /\ r.kind # "batch"
BY DEF A!Idle, Batches, A!Outcome

\* One step keeps the archive and changes it as Frozen allows.
LEMMA ArchiveStep == ASSUME ArchiveInv, [A!Next]_(A!vars) PROVE ArchiveInv' /\ A!Frozen
<1>1. /\ snapshot \in {A!None} \union Hashes
      /\ rows \in [DOMAIN rows -> StoredRows] /\ RanksDiffer(rows)
      /\ clients \in [Clients -> {A!Idle} \union Batches \union A!Outcome]
      /\ \A k \in Clients : clients[k].kind = "batch" /\ clients[k].existed => snapshot = clients[k].hash
  BY DEF ArchiveInv
<1>2. A!None \notin Hashes /\ A!Gap # A!Pending /\ A!Gap \notin Results /\ A!Pending \notin Results
  BY ArchiveAssumption DEF A!None, A!Gap, A!Pending
\* A request that writes nothing.
<1>3. ASSUME UNCHANGED <<snapshot, rows, sequences>> PROVE A!Frozen
  <2>1. \A c \in DOMAIN rows : rows[c].label = A!Gap => rows[c].label # A!Pending
    BY <1>2
  <2> QED
    BY <1>1, <1>3, <2>1 DEF A!Frozen, RanksDiffer
<1>4. ASSUME NEW k \in Clients, NEW r \in {A!Idle} \union A!Outcome, A!Send(k, r), A!Stored
      PROVE  ArchiveInv' /\ A!Frozen
  <2>1. UNCHANGED <<snapshot, rows, sequences>>
    BY <1>4 DEF A!Stored
  <2>2. /\ clients' \in [Clients -> {A!Idle} \union Batches \union A!Outcome]
        /\ clients'[k] = r /\ \A j \in Clients : j # k => clients'[j] = clients[j]
    BY <1>1, <1>4, SendIs
  <2>3. clients'[k].kind # "batch"
    BY <1>4, <2>2, KindsAre
  <2> QED
    BY <1>1, <1>3, <2>1, <2>2, <2>3 DEF ArchiveInv
<1>5. CASE UNCHANGED A!vars
  BY <1>1, <1>3, <1>5 DEF A!vars, ArchiveInv
<1>6. ASSUME NEW k \in Clients, A!SnapshotRead(k) PROVE ArchiveInv' /\ A!Frozen
  <2>1. PICK p \in A!Snapshot :
           /\ snapshot \in {A!None, p.hash}
           /\ A!Send(k, [kind |-> "batch", hash |-> p.hash, universe |-> p.universe,
                         sequenced |-> p.sequenced, existed |-> snapshot # A!None])
    BY <1>6 DEF A!SnapshotRead
  <2> DEFINE r == [kind |-> "batch", hash |-> p.hash, universe |-> p.universe,
                   sequenced |-> p.sequenced, existed |-> snapshot # A!None]
  <2>2. r \in Batches /\ r.existed = (snapshot # A!None) /\ r.hash = p.hash
    BY DEF A!Snapshot, Batches
  <2>3. A!Send(k, r)
    BY <2>1
  <2> HIDE DEF r
  <2>4. /\ clients' \in [Clients -> {A!Idle} \union Batches \union A!Outcome]
        /\ clients'[k] = r /\ \A j \in Clients : j # k => clients'[j] = clients[j]
    BY <1>1, <2>2, <2>3, SendIs
  <2>5. UNCHANGED <<snapshot, rows, sequences>>
    BY <1>6 DEF A!SnapshotRead, A!Stored
  <2>6. clients'[k].existed => snapshot = clients'[k].hash
    BY <2>1, <2>2, <2>4
  <2> QED
    BY <1>1, <1>3, <2>4, <2>5, <2>6 DEF ArchiveInv
<1>7. ASSUME NEW k \in Clients, A!SnapshotBatch(k) PROVE ArchiveInv' /\ A!Frozen
  <2> DEFINE p == clients[k]
             added == A!Fresh(p.universe)
             all == [c \in DOMAIN rows \union added |->
                        IF c \in DOMAIN rows THEN rows[c] ELSE [rank |-> p.universe[c], label |-> A!Pending]]
  <2>1. p \in Batches /\ p.kind = "batch" /\ p.hash \in Hashes /\ p.universe \in Rebuilds /\ A!Contiguous(p.universe)
    BY <1>1, <1>7, KindsAre DEF A!SnapshotBatch
  <2>2. A!Send(k, A!Idle)
    BY <1>7 DEF A!SnapshotBatch
  <2>3. CASE A!Stored
    BY <1>4, <2>2, <2>3
  <2>4. CASE /\ p.existed \/ snapshot = A!None
             /\ snapshot' = p.hash /\ rows' = all /\ sequences \subseteq sequences'
    <3>1. RanksDiffer(all) /\ all \in [DOMAIN all -> StoredRows]
      BY <2>1, FreshKeepsRanks
    <3>2. DOMAIN rows \subseteq DOMAIN all /\ \A c \in DOMAIN rows : all[c] = rows[c]
      OBVIOUS
    <3> HIDE DEF all
    <3>3. snapshot # A!None => snapshot' = snapshot
      BY <1>1, <1>7, <2>1, <2>4
    <3>4. A!Frozen
      BY <1>2, <2>4, <3>1, <3>2, <3>3 DEF A!Frozen, RanksDiffer
    <3>5. /\ clients' \in [Clients -> {A!Idle} \union Batches \union A!Outcome]
          /\ clients'[k] = A!Idle /\ \A j \in Clients : j # k => clients'[j] = clients[j]
      BY <1>1, <2>2, SendIs
    <3>6. clients'[k].kind # "batch"
      BY <3>5, KindsAre
    <3>7. ASSUME NEW j \in Clients, clients'[j].kind = "batch", clients'[j].existed
          PROVE  snapshot' = clients'[j].hash
      <4>1. j # k /\ clients'[j] = clients[j]
        BY <3>5, <3>6, <3>7
      <4>2. snapshot = clients[j].hash /\ clients[j] \in Batches
        BY <1>1, <3>7, <4>1, KindsAre
      <4>3. snapshot # A!None
        BY <1>2, <4>2, KindsAre
      <4> QED
        BY <3>3, <4>1, <4>2, <4>3
    <3> QED
      BY <2>1, <2>4, <3>1, <3>4, <3>5, <3>7 DEF ArchiveInv
  <2> QED
    BY <1>7, <2>3, <2>4 DEF A!SnapshotBatch
<1>8. ASSUME NEW k \in Clients, A!OutcomeSent(k) PROVE ArchiveInv' /\ A!Frozen
  BY <1>4, <1>8 DEF A!OutcomeSent
<1>9. ASSUME NEW k \in Clients, A!Cut(k) PROVE ArchiveInv' /\ A!Frozen
  BY <1>4, <1>9 DEF A!Cut
<1>10. ASSUME NEW k \in Clients, NEW c \in Ids, A!Label(k, c) PROVE ArchiveInv' /\ A!Frozen
  <2> DEFINE r == clients[k]
             rest == r.ids \ {c}
             to == IF rest = {} THEN A!Idle ELSE [r EXCEPT !.ids = rest]
  <2>1. r \in A!Outcome
    BY <1>1, <1>10, KindsAre DEF A!Label
  <2>2. to \in {A!Idle} \union A!Outcome
    BY <2>1 DEF A!Outcome
  <2>3. A!Send(k, to) /\ UNCHANGED <<snapshot, sequences>>
    BY <1>10 DEF A!Label
  <2>4. CASE UNCHANGED rows
    BY <1>4, <2>2, <2>3, <2>4 DEF A!Stored
  <2>5. ASSUME c \in DOMAIN rows, rows[c].label \in {A!Pending, A!Gap},
               NEW l \in A!Labels, rows' = [rows EXCEPT ![c].label = l]
        PROVE  ArchiveInv' /\ A!Frozen
    <3>1. /\ rows' \in [DOMAIN rows -> StoredRows] /\ DOMAIN rows' = DOMAIN rows
          /\ \A d \in DOMAIN rows : rows'[d].rank = rows[d].rank
          /\ \A d \in DOMAIN rows : d # c => rows'[d] = rows[d]
          /\ rows'[c].label = l
      BY <1>1, <2>5 DEF StoredRows, StoredLabels, A!Labels
    <3>2. l # A!Pending /\ rows[c].label \notin Results
      BY <1>2, <2>5 DEF A!Labels
    <3>3. RanksDiffer(rows)'
      BY <1>1, <3>1 DEF RanksDiffer
    <3>4. A!Frozen
      BY <1>2, <2>3, <3>1, <3>2, <3>3 DEF A!Frozen, RanksDiffer
    <3>5. /\ clients' \in [Clients -> {A!Idle} \union Batches \union A!Outcome]
          /\ clients'[k] = to /\ \A j \in Clients : j # k => clients'[j] = clients[j]
      BY <1>1, <2>2, <2>3, SendIs
    <3>6. clients'[k].kind # "batch"
      BY <2>2, <3>5, KindsAre
    <3> QED
      BY <1>1, <2>3, <3>1, <3>3, <3>4, <3>5, <3>6 DEF ArchiveInv
  <2>6. \/ UNCHANGED rows
        \/ /\ c \in DOMAIN rows /\ rows[c].label \in {A!Pending, A!Gap}
           /\ \E l \in A!Labels : rows' = [rows EXCEPT ![c].label = l]
    BY <1>10 DEF A!Label, A!Replaces
  <2> QED
    BY <2>4, <2>5, <2>6
<1> QED
  BY <1>5, <1>6, <1>7, <1>8, <1>9, <1>10 DEF A!Next

\* Whatever is sent twice, cut off or recovered, a stored scan keeps its snapshot, its ranks,
\* its sequences and every label it was given.
THEOREM ArchiveStaysFrozen == A!Init /\ [][A!Next]_(A!vars) => [][A!Frozen]_(A!vars)
<1>1. A!Init => ArchiveInv
  <2>1. A!Init => snapshot = A!None /\ rows = [c \in {} |-> 0] /\ clients = [k \in Clients |-> A!Idle]
    BY DEF A!Init
  <2>2. rows = [c \in {} |-> 0] => rows \in [DOMAIN rows -> StoredRows] /\ RanksDiffer(rows)
    BY DEF RanksDiffer
  <2> QED
    BY <2>1, <2>2, KindsAre DEF ArchiveInv
<1> QED
  BY <1>1, ArchiveStep, PTL

-----------------------------------------------------------------------------
(* The model registry                                                      *)

Evidence(m) == {s \in DOMAIN scans : scans[s].model = m /\ scans[s].outcome # G!Pending}

Generations == [rows : SUBSET Signals, status : {"CHALLENGER", "REJECTED"}]
Trainings == [pc : {"commit", "batch"}, rows : SUBSET Signals, status : {"CHALLENGER", "REJECTED"}]

\* What the generation job holds between its steps: the rows it has read are more than the
\* latest generation's.
Trained ==
    trainer.pc \in {"commit", "batch"} =>
        /\ trainer \in Trainings
        /\ trainer.rows \subseteq resolved /\ G!Latest \subseteq trainer.rows
        /\ Cardinality(trainer.rows \ G!Latest) >= Threshold

TrainerInv ==
    /\ resolved \subseteq Signals
    /\ generations \in Seq(Generations)
    /\ \A i \in DOMAIN generations : generations[i].rows \subseteq resolved
    /\ Trained
    /\ G!GenerationsGrow

ScansInv ==
    /\ DOMAIN scans \subseteq ScanIds /\ scans = [s \in DOMAIN scans |-> scans[s]]
    /\ \A p \in posts : p.scan \in ScanIds
    /\ judge.pc = "resolve" => judge = [pc |-> "resolve", left |-> judge.left]

\* A challenger with enough forward evidence.
Proven(m) == m \in G!Challengers /\ Cardinality(Evidence(m)) >= MinForward

\* Every verdict given, and every one about to be, rests on evidence.
VerdictInv ==
    /\ judge.pc = "commit" =>
          \A m \in DOMAIN judge.reports : judge.reports[m] \in {"PROMOTION_READY", "REJECTED"} => Proven(m)
    /\ \A m \in G!Judged : Proven(m)

RegistryInv == TrainerInv /\ ScansInv /\ VerdictInv

\* A larger finite set has no fewer elements.
LEMMA MoreIsNotLess ==
    ASSUME NEW X, NEW T, X \subseteq T, IsFiniteSet(T), NEW n \in Nat, Cardinality(X) >= n
    PROVE  Cardinality(T) >= n
<1>1. IsFiniteSet(X) /\ Cardinality(X) <= Cardinality(T)
  BY FS_Subset
<1>2. Cardinality(X) \in Nat /\ Cardinality(T) \in Nat
  BY <1>1, FS_CardinalityType
<1> QED
  BY <1>1, <1>2

\* Scans are kept and their outcomes are, so evidence only grows.
ScansGrow == /\ DOMAIN scans \subseteq DOMAIN scans'
             /\ DOMAIN scans' \subseteq ScanIds /\ scans' = [s \in DOMAIN scans' |-> scans'[s]]
             /\ \A s \in DOMAIN scans : scans'[s].model = scans[s].model
             /\ \A s \in DOMAIN scans : scans[s].outcome # G!Pending => scans'[s] = scans[s]

\* A challenger with enough evidence keeps enough.
LEMMA EvidenceGrows ==
    ASSUME ScansGrow, NEW m, Cardinality(Evidence(m)) >= MinForward
    PROVE  Cardinality(Evidence(m)') >= MinForward
<1>1. Evidence(m) \subseteq Evidence(m)'
  BY DEF Evidence, ScansGrow
<1>2. IsFiniteSet(Evidence(m)')
  <2>1. Evidence(m)' \subseteq ScanIds
    BY DEF Evidence, ScansGrow
  <2> QED
    BY <2>1, RegistryAssumption, FS_Subset
<1> QED
  BY <1>1, <1>2, MoreIsNotLess, RegistryAssumption

\* A challenger stays one, and a verdict what it is.
LEMMA ChallengersStay ==
    ASSUME \/ generations' = generations
           \/ \E g : generations' = Append(generations, g),
           generations \in Seq(Generations),
           NEW m \in G!Challengers
    PROVE  m \in G!Challengers'
<1>1. DOMAIN generations \subseteq DOMAIN generations' /\ \A i \in DOMAIN generations : generations'[i] = generations[i]
  OBVIOUS
<1> QED
  BY <1>1 DEF G!Challengers, G!Models, G!Model

\* What one step does to outcomes and verdicts.
OnceStep ==
    /\ \A s \in DOMAIN scans : scans[s].outcome # G!Pending => scans'[s] = scans[s]
    /\ \A m \in G!Judged : lifecycle'[m] = lifecycle[m]

\* A step that leaves the judge and the verdicts keeps the evidence for both.
LEMMA VerdictsStand ==
    ASSUME RegistryInv, ScansGrow,
           \/ generations' = generations
           \/ \E g : generations' = Append(generations, g),
           UNCHANGED lifecycle,
           \/ judge' = judge
           \/ judge'.pc # "commit"
    PROVE  VerdictInv'
<1>1. ASSUME NEW m, Proven(m) PROVE Proven(m)'
  BY <1>1, ChallengersStay, EvidenceGrows DEF RegistryInv, TrainerInv, Proven
<1>2. G!Judged' = G!Judged
  BY DEF G!Judged
<1>3. \A m \in G!Judged : Proven(m)'
  BY <1>1 DEF RegistryInv, VerdictInv
<1>4. ASSUME judge' = judge, judge.pc = "commit",
             NEW m \in DOMAIN judge.reports, judge.reports[m] \in {"PROMOTION_READY", "REJECTED"}
      PROVE  Proven(m)'
  BY <1>1, <1>4 DEF RegistryInv, VerdictInv
<1> QED
  BY <1>2, <1>3, <1>4 DEF VerdictInv

\* The generations and what the trainer holds, when no generation is stored.
LEMMA GenerationsStay ==
    ASSUME TrainerInv, resolved \subseteq resolved', resolved' \subseteq Signals, UNCHANGED generations,
           \/ trainer' = trainer
           \/ trainer'.pc = "idle"
           \/ Trained'
    PROVE  TrainerInv'
<1>1. G!Latest' = G!Latest
  BY DEF G!Latest, G!Last
<1>2. G!GenerationsGrow'
  BY DEF TrainerInv, G!GenerationsGrow
<1>3. \A i \in DOMAIN generations' : generations'[i].rows \subseteq resolved'
  BY DEF TrainerInv
<1>4. Trained'
  BY <1>1 DEF TrainerInv, Trained
<1> QED
  BY <1>2, <1>3, <1>4 DEF TrainerInv

\* The registry's Cardinality is the library's.
LEMMA CountsAgree == \A X : G!Cardinality(X) = Cardinality(X)
BY DEF G!Cardinality, Cardinality

\* The stored generation has at least a threshold of rows more than any before it.
LEMMA StoringGrows ==
    ASSUME RegistryInv, trainer.pc = "batch",
           generations' = Append(generations, [rows |-> trainer.rows, status |-> trainer.status])
    PROVE  /\ generations' \in Seq(Generations)
           /\ \A i \in DOMAIN generations' : generations'[i].rows \subseteq resolved
           /\ G!GenerationsGrow'
<1> DEFINE g == [rows |-> trainer.rows, status |-> trainer.status]
           n == Len(generations)
<1>1. /\ generations \in Seq(Generations)
      /\ resolved \subseteq Signals /\ trainer \in Trainings
      /\ trainer.rows \subseteq resolved /\ G!Latest \subseteq trainer.rows
      /\ Cardinality(trainer.rows \ G!Latest) >= Threshold
      /\ \A i \in DOMAIN generations : generations[i].rows \subseteq resolved
  BY DEF RegistryInv, TrainerInv, Trained
<1>2. g \in Generations /\ g.rows = trainer.rows
  BY <1>1 DEF Trainings, Generations
<1> HIDE DEF g
<1>3. generations' = Append(generations, g)
  BY DEF g
<1>4. /\ n \in Nat /\ DOMAIN generations = 1..n /\ DOMAIN generations' = 1..n + 1
      /\ \A i \in 1..n : generations'[i] = generations[i]
      /\ generations'[n + 1] = g
      /\ generations' \in Seq(Generations)
  BY <1>1, <1>2, <1>3
<1>5. ASSUME NEW j \in 1..n
      PROVE  /\ generations[j].rows \subseteq G!Latest
             /\ Cardinality(trainer.rows \ generations[j].rows) >= Threshold
  <2>1. G!Latest = generations[n].rows
    BY <1>4, <1>5 DEF G!Latest, G!Last
  <2>2. generations[j].rows \subseteq generations[n].rows
    <3>1. CASE j = n
      BY <3>1
    <3>2. CASE j # n
      <4>1. n \in DOMAIN generations /\ j \in 1..n - 1
        <5>1. n \in Nat /\ j \in 1..n /\ j # n /\ DOMAIN generations = 1..n
          BY <1>4, <1>5, <3>2
        <5> HIDE DEF n
        <5> QED
          BY <5>1
      <4> QED
        BY <4>1 DEF RegistryInv, TrainerInv, G!GenerationsGrow
    <3> QED
      BY <3>1, <3>2
  <2>3. trainer.rows \ G!Latest \subseteq trainer.rows \ generations[j].rows
    BY <2>1, <2>2
  <2>4. IsFiniteSet(trainer.rows \ generations[j].rows)
    BY <1>1, RegistryAssumption, FS_Subset
  <2> HIDE DEF n
  <2> QED
    BY <1>1, <2>1, <2>2, <2>3, <2>4, MoreIsNotLess, RegistryAssumption
<1>6. ASSUME NEW i \in DOMAIN generations', NEW j \in 1..i - 1
      PROVE  /\ generations'[j].rows \subseteq generations'[i].rows
             /\ G!Cardinality(generations'[i].rows \ generations'[j].rows) >= Threshold
  <2>1. CASE i = n + 1
    <3>1. j \in 1..n /\ generations'[j] = generations[j] /\ generations'[i].rows = trainer.rows
      BY <1>2, <1>4, <1>6, <2>1
    <3> QED
      BY <1>1, <1>5, <3>1, CountsAgree
  <2>2. CASE i # n + 1
    <3>1. i \in DOMAIN generations /\ generations'[i] = generations[i] /\ generations'[j] = generations[j]
      BY <1>4, <1>6, <2>2
    <3> QED
      BY <1>6, <3>1 DEF RegistryInv, TrainerInv, G!GenerationsGrow
  <2> QED
    BY <2>1, <2>2
<1>7. \A i \in DOMAIN generations' : generations'[i].rows \subseteq resolved
  BY <1>1, <1>2, <1>4
<1> QED
  BY <1>4, <1>6, <1>7 DEF G!GenerationsGrow

\* A step of neither the scans nor the verdicts.
LEMMA ScansStay ==
    ASSUME RegistryInv, UNCHANGED <<scans, lifecycle>>
    PROVE  ScansGrow /\ OnceStep
BY DEF RegistryInv, ScansInv, ScansGrow, OnceStep

\* One step keeps the registry, no outcome and no verdict changes in it.
LEMMA RegistryStep == ASSUME RegistryInv, [G!Next]_(G!vars) PROVE RegistryInv' /\ OnceStep
<1>1. TrainerInv /\ ScansInv /\ VerdictInv
  BY DEF RegistryInv
\* A step of the judge that commits nothing.
<1>2. ASSUME UNCHANGED <<resolved, generations, trainer, lifecycle, scans, posts>>,
             \/ judge' = judge
             \/ judge'.pc = "idle"
             \/ judge'.pc = "resolve" /\ judge' = [pc |-> "resolve", left |-> judge'.left]
      PROVE  RegistryInv' /\ OnceStep
  <2>1. ScansGrow /\ OnceStep
    BY <1>2, ScansStay
  <2>2. VerdictInv'
    BY <1>2, <2>1, VerdictsStand
  <2>3. ScansInv'
    BY <1>1, <1>2 DEF ScansInv
  <2>4. TrainerInv'
    <3>1. resolved \subseteq resolved' /\ resolved' \subseteq Signals
      BY <1>1, <1>2 DEF TrainerInv
    <3> QED
      BY <1>1, <1>2, <3>1, GenerationsStay
  <2> QED
    BY <2>1, <2>2, <2>3, <2>4 DEF RegistryInv
\* A step of the generation job, or a row.
<1>3. ASSUME UNCHANGED <<lifecycle, scans, posts, judge>>, TrainerInv',
             \/ generations' = generations
             \/ \E g : generations' = Append(generations, g)
      PROVE  RegistryInv' /\ OnceStep
  <2>1. ScansGrow /\ OnceStep
    BY <1>3, ScansStay
  <2>2. VerdictInv'
    BY <1>3, <2>1, VerdictsStand
  <2>3. ScansInv'
    BY <1>1, <1>3 DEF ScansInv
  <2> QED
    BY <1>3, <2>1, <2>2, <2>3 DEF RegistryInv
<1>4. CASE UNCHANGED G!vars
  BY <1>2, <1>4 DEF G!vars
<1>5. ASSUME NEW x \in Signals, G!Resolve(x) PROVE RegistryInv' /\ OnceStep
  <2>1. resolved \subseteq resolved' /\ resolved' \subseteq Signals
    BY <1>1, <1>5 DEF G!Resolve, TrainerInv
  <2>2. UNCHANGED <<generations, trainer, lifecycle, scans, posts, judge>>
    BY <1>5 DEF G!Resolve
  <2> QED
    BY <1>1, <1>3, <2>1, <2>2, GenerationsStay
<1>6. CASE G!Snapshot
  <2>1. UNCHANGED <<resolved, generations, lifecycle, scans, posts, judge>>
    BY <1>6 DEF G!Snapshot
  <2>2. Trained'
    <3>1. G!Latest' = G!Latest
      BY <2>1 DEF G!Latest, G!Last
    <3>2. G!Latest \subseteq resolved
      <4>1. generations # <<>> => Len(generations) \in DOMAIN generations
        BY <1>1 DEF TrainerInv
      <4> QED
        BY <1>1, <4>1 DEF TrainerInv, G!Latest, G!Last
    <3>3. PICK status \in {"CHALLENGER", "REJECTED"} :
             trainer' = [pc |-> "commit", rows |-> resolved, status |-> status]
      BY <1>6 DEF G!Snapshot
    <3>4. trainer' \in Trainings /\ trainer'.rows = resolved
      BY <1>1, <3>3 DEF Trainings, TrainerInv
    <3>5. Cardinality(resolved \ G!Latest) >= Threshold
      BY <1>6, CountsAgree DEF G!Snapshot
    <3> QED
      BY <2>1, <3>1, <3>2, <3>4, <3>5 DEF Trained
  <2>3. TrainerInv'
    BY <1>1, <2>1, <2>2, GenerationsStay DEF TrainerInv
  <2> QED
    BY <1>3, <2>1, <2>3
<1>7. CASE G!Check
  <2>1. UNCHANGED <<resolved, generations, lifecycle, scans, posts, judge>>
    BY <1>7 DEF G!Check
  <2>2. Trained' \/ trainer'.pc = "idle"
    <3>1. G!Latest' = G!Latest
      BY <2>1 DEF G!Latest, G!Last
    <3>2. CASE trainer' = [trainer EXCEPT !.pc = "batch"]
      <4>1. trainer \in Trainings /\ Trained
        BY <1>1, <1>7 DEF G!Check, TrainerInv, Trained
      <4>2. trainer' \in Trainings /\ trainer'.rows = trainer.rows
        BY <3>2, <4>1 DEF Trainings
      <4> QED
        BY <1>7, <2>1, <3>1, <4>1, <4>2 DEF Trained, G!Check
    <3> QED
      BY <1>7, <3>2 DEF G!Check
  <2>3. TrainerInv'
    BY <1>1, <2>1, <2>2, GenerationsStay DEF TrainerInv
  <2> QED
    BY <1>3, <2>1, <2>3
<1>8. CASE G!Store
  <2>1. /\ UNCHANGED <<resolved, lifecycle, scans, posts, judge>>
        /\ trainer.pc = "batch" /\ trainer'.pc = "idle"
    BY <1>8 DEF G!Store
  <2>2. CASE generations' = generations
    <3>1. TrainerInv'
      BY <1>1, <2>1, <2>2, GenerationsStay DEF TrainerInv
    <3> QED
      BY <1>3, <2>1, <2>2, <3>1
  <2>3. CASE generations' = Append(generations, [rows |-> trainer.rows, status |-> trainer.status])
    <3>1. TrainerInv'
      <4>1. Trained'
        BY <2>1 DEF Trained
      <4> QED
        BY <1>1, <2>1, <2>3, <4>1, StoringGrows DEF TrainerInv
    <3> QED
      BY <1>3, <2>1, <2>3, <3>1
  <2>4. \/ generations' = generations
        \/ generations' = Append(generations, [rows |-> trainer.rows, status |-> trainer.status])
    BY <1>8, Zenon DEF G!Store
  <2> QED
    BY <2>2, <2>3, <2>4
\* A scan, or its outcome, is stored.
<1>9. ASSUME UNCHANGED <<resolved, generations, trainer, lifecycle>>, ScansGrow, ScansInv',
             judge' = judge \/ judge'.pc = "resolve"
      PROVE  RegistryInv' /\ OnceStep
  <2>1. OnceStep
    BY <1>9 DEF ScansGrow, OnceStep
  <2>2. VerdictInv'
    BY <1>9, VerdictsStand
  <2>3. TrainerInv'
    <3>1. resolved \subseteq resolved' /\ resolved' \subseteq Signals
      BY <1>1, <1>9 DEF TrainerInv
    <3> QED
      BY <1>1, <1>9, <3>1, GenerationsStay
  <2> QED
    BY <1>9, <2>1, <2>2, <2>3 DEF RegistryInv
<1>10. ASSUME NEW s \in ScanIds, NEW m, G!ShadowScan(s, m) PROVE RegistryInv' /\ OnceStep
  <2>1. /\ UNCHANGED <<resolved, generations, trainer, lifecycle, scans, judge>>
        /\ posts' = posts \union {[scan |-> s, model |-> m]}
    BY <1>10 DEF G!ShadowScan
  <2>2. ScansInv'
    BY <1>1, <2>1 DEF ScansInv
  <2>3. ScansGrow
    BY <2>1, ScansStay
  <2> QED
    BY <1>9, <2>1, <2>2, <2>3
<1>11. ASSUME NEW p \in posts, G!ShadowStored(p) PROVE RegistryInv' /\ OnceStep
  <2>1. /\ UNCHANGED <<resolved, generations, trainer, lifecycle, judge>>
        /\ posts' = posts \ {p}
        /\ scans' = [s \in DOMAIN scans \union {p.scan} |->
                        IF s \in DOMAIN scans THEN scans[s] ELSE [model |-> p.model, outcome |-> G!Pending]]
    BY <1>11 DEF G!ShadowStored
  <2>2. p.scan \in ScanIds
    BY <1>1 DEF ScansInv
  <2>3. ScansGrow
    BY <1>1, <2>1, <2>2 DEF ScansInv, ScansGrow
  <2>4. ScansInv'
    BY <1>1, <2>1, <2>3 DEF ScansInv, ScansGrow
  <2> QED
    BY <1>9, <2>1, <2>3, <2>4
<1>12. ASSUME NEW s \in ScanIds, G!ShadowResolve(s) PROVE RegistryInv' /\ OnceStep
  <2>1. /\ UNCHANGED <<resolved, generations, trainer, lifecycle, posts>>
        /\ judge.pc = "resolve" /\ s \in DOMAIN scans
        /\ judge' = [judge EXCEPT !.left = @ \ {s}]
        /\ \/ scans' = scans
           \/ scans[s].outcome = G!Pending /\ \E r \in {-1, 1} : scans' = [scans EXCEPT ![s].outcome = r]
    BY <1>12 DEF G!ShadowResolve, G!IsPending
  <2>2. judge'.pc = "resolve" /\ judge' = [pc |-> "resolve", left |-> judge'.left]
    <3>1. judge = [pc |-> "resolve", left |-> judge.left]
      BY <1>1, <2>1 DEF ScansInv
    <3>2. judge' = [pc |-> "resolve", left |-> judge.left \ {s}]
      BY <2>1, <3>1
    <3> QED
      BY <3>2
  <2>3. ScansGrow
    <3>1. CASE scans' = scans
      BY <1>1, <3>1 DEF ScansInv, ScansGrow
    <3>2. ASSUME scans[s].outcome = G!Pending, NEW r \in {-1, 1}, scans' = [scans EXCEPT ![s].outcome = r]
          PROVE  ScansGrow
      <4>1. /\ DOMAIN scans' = DOMAIN scans /\ scans' = [x \in DOMAIN scans' |-> scans'[x]]
            /\ \A x \in DOMAIN scans : x # s => scans'[x] = scans[x]
            /\ scans'[s] = [scans[s] EXCEPT !.outcome = r]
        BY <1>1, <2>1, <3>2 DEF ScansInv
      <4>2. scans'[s].model = scans[s].model
        BY <4>1
      <4> QED
        BY <1>1, <3>2, <4>1, <4>2 DEF ScansInv, ScansGrow
    <3> QED
      BY <2>1, <3>1, <3>2
  <2>4. ScansInv'
    BY <1>1, <2>1, <2>2, <2>3 DEF ScansInv, ScansGrow
  <2> QED
    BY <1>9, <2>1, <2>2, <2>3, <2>4
<1>13. CASE G!Begins
  <2>1. /\ UNCHANGED <<resolved, generations, trainer, lifecycle, scans, posts>>
        /\ judge' = [pc |-> "resolve",
                     left |-> {s \in DOMAIN scans : scans[s].model \in G!ShadowChallengers /\ scans[s].outcome = G!Pending}]
    BY <1>13 DEF G!Begins
  <2>2. judge'.pc = "resolve" /\ judge' = [pc |-> "resolve", left |-> judge'.left]
    BY <2>1
  <2> QED
    BY <1>2, <2>1, <2>2
<1>14. CASE G!Evaluates
  <2>1. /\ UNCHANGED <<resolved, generations, trainer, lifecycle, scans, posts>>
        /\ \/ judge' = [pc |-> "idle"]
           \/ judge' = [pc |-> "commit", reports |-> [m \in G!ShadowChallengers |-> G!Decision(m)]]
    BY <1>14 DEF G!Evaluates
  <2>2. CASE judge' = [pc |-> "idle"]
    <3>1. judge'.pc = "idle"
      BY <2>2
    <3> QED
      BY <1>2, <2>1, <3>1
  <2>3. CASE judge' = [pc |-> "commit", reports |-> [m \in G!ShadowChallengers |-> G!Decision(m)]]
    <3>1. /\ judge'.pc = "commit" /\ DOMAIN judge'.reports = G!ShadowChallengers
          /\ \A m \in G!ShadowChallengers : judge'.reports[m] = G!Decision(m)
      BY <2>3
    <3>2. ASSUME NEW m \in G!ShadowChallengers, G!Decision(m) \in {"PROMOTION_READY", "REJECTED"}
          PROVE  Proven(m)
      <4>1. ~(G!Cardinality(G!Forward(m)) < MinForward)
        BY <3>2 DEF G!Decision
      <4>2. G!Forward(m) = Evidence(m)
        BY DEF G!Forward, Evidence
      <4>3. Cardinality(Evidence(m)) \in Nat
        <5>1. Evidence(m) \subseteq ScanIds
          BY <1>1 DEF ScansInv, Evidence
        <5> QED
          BY <5>1, RegistryAssumption, FS_Subset, FS_CardinalityType
      <4> QED
        BY <4>1, <4>2, <4>3, CountsAgree, RegistryAssumption DEF Proven, G!ShadowChallengers
    <3>3. \A m : Proven(m) => Proven(m)'
      BY <2>1 DEF Proven, Evidence, G!Challengers, G!Models, G!Model
    <3>4. VerdictInv'
      <4>1. G!Judged' = G!Judged
        BY <2>1 DEF G!Judged
      <4> QED
        BY <1>1, <3>1, <3>2, <3>3, <4>1 DEF VerdictInv
    <3>5. ScansInv'
      BY <1>1, <2>1, <3>1 DEF ScansInv
    <3>6. TrainerInv'
      <4>1. resolved \subseteq resolved' /\ resolved' \subseteq Signals
        BY <1>1, <2>1 DEF TrainerInv
      <4> QED
        BY <1>1, <2>1, <4>1, GenerationsStay
    <3> QED
      BY <2>1, <3>4, <3>5, <3>6, ScansStay DEF RegistryInv
  <2> QED
    BY <2>1, <2>2, <2>3
<1>15. CASE G!ReadinessCommit
  <2> DEFINE verdicts == {m \in DOMAIN judge.reports : judge.reports[m] \in {"PROMOTION_READY", "REJECTED"}}
  <2>1. /\ UNCHANGED <<resolved, generations, trainer, scans, posts>>
        /\ judge.pc = "commit" /\ judge'.pc = "idle"
    BY <1>15 DEF G!ReadinessCommit
  <2>2. CASE lifecycle' = lifecycle
    BY <1>2, <2>1, <2>2
  <2>3. CASE /\ DOMAIN judge.reports \subseteq G!ShadowChallengers
             /\ lifecycle' = [m \in G!Judged \union verdicts |-> IF m \in verdicts THEN judge.reports[m] ELSE lifecycle[m]]
    <3>1. verdicts \intersect G!Judged = {}
      BY <2>3 DEF G!ShadowChallengers
    <3>2. \A m \in G!Judged \union verdicts : Proven(m)
      BY <1>1, <2>1 DEF VerdictInv
    <3>3. \A m : Proven(m) => Proven(m)'
      BY <2>1 DEF Proven, Evidence, G!Challengers, G!Models, G!Model
    <3>4. G!Judged' = G!Judged \union verdicts /\ \A m \in G!Judged : lifecycle'[m] = lifecycle[m]
      BY <2>3, <3>1 DEF G!Judged
    <3>5. OnceStep
      BY <2>1, <3>4 DEF OnceStep
    <3>6. VerdictInv'
      BY <2>1, <3>2, <3>3, <3>4 DEF VerdictInv
    <3>7. ScansInv'
      BY <1>1, <2>1 DEF ScansInv
    <3>8. TrainerInv'
      <4>1. resolved \subseteq resolved' /\ resolved' \subseteq Signals
        BY <1>1, <2>1 DEF TrainerInv
      <4> QED
        BY <1>1, <2>1, <4>1, GenerationsStay
    <3> QED
      BY <3>5, <3>6, <3>7, <3>8 DEF RegistryInv
  <2>4. \/ lifecycle' = lifecycle
        \/ /\ DOMAIN judge.reports \subseteq G!ShadowChallengers
           /\ lifecycle' = [m \in G!Judged \union verdicts |-> IF m \in verdicts THEN judge.reports[m] ELSE lifecycle[m]]
    BY <1>15, Zenon DEF G!ReadinessCommit
  <2> QED
    BY <2>2, <2>3, <2>4
<1>16. CASE G!Stops
  <2>1. CASE trainer'.pc = "idle" /\ UNCHANGED <<resolved, generations, lifecycle, scans, posts, judge>>
    <3>1. TrainerInv'
      BY <1>1, <2>1, GenerationsStay DEF TrainerInv
    <3> QED
      BY <1>3, <2>1, <3>1
  <2>2. CASE judge'.pc = "idle" /\ UNCHANGED <<resolved, generations, trainer, lifecycle, scans, posts>>
    BY <1>2, <2>2
  <2> QED
    BY <1>16, <2>1, <2>2 DEF G!Stops
<1> QED
  BY <1>4, <1>5, <1>6, <1>7, <1>8, <1>10, <1>11, <1>12, <1>13, <1>14, <1>15, <1>16 DEF G!Next

\* Each generation learned from all there was, a verdict rests on forward evidence, and
\* neither an outcome nor a verdict is ever written twice.
THEOREM RegistryStands ==
    G!Init /\ [][G!Next]_(G!vars) => [](G!GenerationsGrow /\ G!VerdictsHaveEvidence) /\ G!OnceOnly
<1>1. G!Init => RegistryInv
  <2> SUFFICES ASSUME G!Init PROVE RegistryInv
    OBVIOUS
  <2>1. /\ resolved = {} /\ generations = <<>> /\ trainer = [pc |-> "idle"]
        /\ lifecycle = [m \in {} |-> "none"] /\ scans = [s \in {} |-> G!Pending] /\ posts = {}
        /\ judge = [pc |-> "idle"]
    BY DEF G!Init
  <2>2. TrainerInv
    BY <2>1 DEF TrainerInv, Trained, G!GenerationsGrow
  <2>3. ScansInv
    BY <2>1 DEF ScansInv
  <2>4. VerdictInv
    BY <2>1 DEF VerdictInv, G!Judged
  <2> QED
    BY <2>2, <2>3, <2>4 DEF RegistryInv
<1>2. RegistryInv => G!GenerationsGrow /\ G!VerdictsHaveEvidence
  BY CountsAgree DEF RegistryInv, TrainerInv, VerdictInv, Proven, Evidence, G!VerdictsHaveEvidence
<1>3. ASSUME RegistryInv, [G!Next]_(G!vars)
      PROVE  [ /\ \A s \in DOMAIN scans : scans[s].outcome # G!Pending => scans'[s] = scans[s]
               /\ \A m \in G!Judged : lifecycle'[m] = lifecycle[m] ]_<<scans, lifecycle>>
  BY <1>3, RegistryStep DEF OnceStep
<1> QED
  BY <1>1, <1>2, <1>3, RegistryStep, PTL DEF G!OnceOnly

-----------------------------------------------------------------------------
(* The replay                                                              *)

Between(a, b) == {c \in candles : a <= c /\ c < b}

\* What a run has fetched: the candles from its first on, without a hole of its own.
FetchedFrom(first, have) ==
    /\ have \subseteq candles
    /\ \A c \in have : first <= c
    /\ \A c \in have, d \in candles : first <= d /\ d <= c => d \in have

\* A run is at `next` and everything it has before that lies before `done`.
Walked(first, have, done, next) ==
    /\ done \in Nat /\ next \in Nat /\ first <= done /\ done <= next
    /\ \A c \in have : ~(done <= c /\ c < next)

\* A chunk the worker took: all candles up to its cursor, and their decisions.
Whole(p) ==
    /\ p.cursor \in Nat /\ cursor <= p.cursor
    /\ p.work = Between(cursor, p.cursor)
    /\ \A t \in setups : t - 1 \in p.work => t \in p.rows
    /\ p.known \subseteq p.rows

RunInv ==
    /\ run.pc \in {"build", "batch", "state", "dataset"} =>
          run.chunk \in Nat /\ run.first \in Nat /\ FetchedFrom(run.first, run.have)
    /\ run.pc = "build" => Walked(run.first, run.have, cursor, run.first + run.chunk * ChunkSize)
    /\ run.pc \in {"batch", "state", "dataset"} =>
          run = [pc |-> run.pc, chunk |-> run.chunk, first |-> run.first, have |-> run.have, payload |-> run.payload]
    /\ run.pc \in {"batch", "state"} =>
          /\ Whole(run.payload)
          /\ Walked(run.first, run.have, run.payload.cursor, run.first + (run.chunk + 1) * ChunkSize)
    /\ run.pc = "state" => run.payload.rows \subseteq decisions
    /\ run.pc = "dataset" => Walked(run.first, run.have, cursor, run.first + (run.chunk + 1) * ChunkSize)

CoveredInv ==
    /\ candles \subseteq 0..Horizon - 1 /\ setups \subseteq 1..Horizon
    /\ start \in Nat /\ cursor \in Nat /\ start <= cursor /\ clock \in Nat
    /\ processed = Cardinality(Between(start, cursor))
    /\ \A t \in setups : t - 1 \in candles /\ start < t /\ t <= cursor => t \in decisions
    /\ dataset \subseteq labelled /\ labelled \subseteq decisions

ReplayInv == CoveredInv /\ RunInv

\* The replay's Cardinality is the library's.
LEMMA CandlesAgree == \A X : P!Cardinality(X) = Cardinality(X)
BY DEF P!Cardinality, Cardinality

\* A part of a finite set is finite, no larger, and the whole if it is as large.
LEMMA PartIsFinite ==
    ASSUME NEW X, IsFiniteSet(X), NEW T, \A t \in T : t \in X
    PROVE  /\ IsFiniteSet(T) /\ Cardinality(T) \in Nat /\ Cardinality(T) <= Cardinality(X)
           /\ Cardinality(X) = Cardinality(T) => X = T
<1>1. T \in SUBSET X
  OBVIOUS
<1>2. IsFiniteSet(T) /\ Cardinality(T) <= Cardinality(X) /\ (Cardinality(X) = Cardinality(T) => X = T)
  BY <1>1, FS_Subset
<1> QED
  BY <1>2, FS_CardinalityType

\* An interval of candles without a hole has as many as its ends are apart.
LEMMA CountOfRange ==
    ASSUME NEW a \in Nat, NEW n \in Nat
    PROVE  /\ IsFiniteSet(a..(a + n - 1)) /\ Cardinality(a..(a + n - 1)) = n
           /\ \A c \in Nat : c \in a..(a + n - 1) <=> a <= c /\ c < a + n
<1> DEFINE b == a + n - 1
<1>1. b \in Int /\ (IF a > b THEN 0 ELSE b - a + 1) = n
  OBVIOUS
<1>2. \A c \in Nat : c \in a..(a + n - 1) <=> a <= c /\ c < a + n
  OBVIOUS
<1> HIDE DEF b
<1>3. IsFiniteSet(a..b) /\ Cardinality(a..b) = n
  BY <1>1, FS_Interval
<1> QED
  BY <1>2, <1>3 DEF b

\* A chunk that is taken is whole: its candles lie side by side, and a hole before them is
\* one of the venue's.
LEMMA TakenIsWhole ==
    ASSUME ReplayInv, run.pc = "build", P!Payload(run).work # {}, P!Accepted(P!Payload(run))
    PROVE  /\ Whole(P!Payload(run))
           /\ Walked(run.first, run.have, P!Payload(run).cursor, run.first + (run.chunk + 1) * ChunkSize)
<1> DEFINE p == P!Payload(run)
           input == run.first + run.chunk * ChunkSize
           work == {c \in run.have : input <= c /\ c < input + ChunkSize}
           n == Cardinality(work)
<1>1. /\ p.work = work /\ p.cursor = input + n
      /\ p.rows = {c + 1 : c \in work} \intersect setups /\ p.known \subseteq p.rows
  BY CandlesAgree DEF P!Payload, P!NextCursor
<1>2. /\ run.chunk \in Nat /\ run.first \in Nat /\ FetchedFrom(run.first, run.have)
      /\ Walked(run.first, run.have, cursor, input)
      /\ candles \subseteq Nat /\ setups \subseteq Nat
  BY ReplayAssumption DEF ReplayInv, RunInv, CoveredInv
<1>3. input \in Nat /\ run.first + (run.chunk + 1) * ChunkSize = input + ChunkSize /\ ChunkSize \in Nat
  BY <1>2, ReplayAssumption
<1>4. p.work # {} /\ \A c \in p.work : c < p.cursor
  BY DEF P!Accepted
<1> HIDE DEF p, input
<1>0. /\ work \subseteq run.have /\ run.have \subseteq Nat
      /\ \A c \in run.have : c \in work <=> input <= c /\ c < input + ChunkSize
  BY <1>2 DEF FetchedFrom
<1> HIDE DEF work
<1>5. work \subseteq input..(input + ChunkSize - 1)
  <2>1. \A c \in work : c \in Nat /\ input <= c /\ c < input + ChunkSize
    BY <1>0
  <2> QED
    BY <1>3, <2>1, CountOfRange
<1>6. IsFiniteSet(work) /\ n \in Nat /\ n <= ChunkSize
  <2>1. /\ IsFiniteSet(input..(input + ChunkSize - 1))
        /\ Cardinality(input..(input + ChunkSize - 1)) = ChunkSize
    BY <1>3, CountOfRange
  <2>2. \A c \in work : c \in input..(input + ChunkSize - 1)
    BY <1>5
  <2>3. IsFiniteSet(work) /\ Cardinality(work) \in Nat
        /\ Cardinality(work) <= Cardinality(input..(input + ChunkSize - 1))
    BY <2>1, <2>2, PartIsFinite
  <2> QED
    BY <2>1, <2>3
<1>7. work = input..(input + n - 1)
  <2>1. work \subseteq input..(input + n - 1)
    <3> HIDE DEF n
    <3>1. \A c \in work : c \in Nat /\ input <= c /\ c < input + n
      BY <1>0, <1>1, <1>4
    <3> QED
      BY <1>3, <1>6, <3>1, CountOfRange
  <2>2. IsFiniteSet(input..(input + n - 1)) /\ Cardinality(input..(input + n - 1)) = n
    BY <1>3, <1>6, CountOfRange
  <2> QED
    BY <2>1, <2>2, FS_Subset
<1>8. input + n \in Nat /\ input + n <= input + ChunkSize /\ input <= input + n
  BY <1>3, <1>6
<1>9. work = Between(cursor, input + n)
  <2>1. ASSUME NEW c \in work PROVE c \in Between(cursor, input + n)
    <3>1. c \in candles /\ c \in Nat /\ input <= c /\ cursor <= input /\ cursor \in Nat
      BY <1>0, <1>2, <2>1 DEF FetchedFrom, Walked
    <3>2. c < input + n
      BY <1>1, <1>4, <2>1
    <3> QED
      BY <1>3, <3>1, <3>2 DEF Between
  <2>2. ASSUME NEW c \in Between(cursor, input + n) PROVE c \in work
    <3>1. c \in candles /\ c \in Nat /\ cursor <= c /\ c < input + n
          /\ cursor \in Nat /\ run.first \in Nat /\ run.first <= cursor
      BY <1>2, <2>2 DEF Between, Walked
    <3>2. CASE input <= c
      BY <1>3, <1>6, <1>7, <3>1, <3>2, CountOfRange
    <3>3. CASE ~(input <= c)
      <4>1. PICK w \in work : w \in run.have /\ input <= w
        BY <1>0, <1>1, <1>4
      <4>2. run.first <= c /\ c <= w /\ w \in Nat
        <5>1. w \in Nat /\ input <= w
          BY <1>0, <4>1
        <5>2. \A f, d, x, i, y \in Nat : f <= d /\ d <= x /\ ~(i <= x) /\ i <= y => f <= x /\ x <= y
          OBVIOUS
        <5> QED
          BY <1>3, <3>1, <3>3, <5>1, <5>2
      <4>3. c \in run.have
        BY <1>2, <3>1, <4>1, <4>2 DEF FetchedFrom
      <4>4. c < input
        BY <1>3, <3>1, <3>3
      <4> QED
        BY <1>2, <3>1, <4>3, <4>4 DEF Walked
    <3> QED
      BY <3>2, <3>3
  <2> QED
    BY <2>1, <2>2
<1>10. \A t \in setups : t - 1 \in p.work => t \in p.rows
  <2> SUFFICES ASSUME NEW t \in setups, t - 1 \in p.work PROVE t \in p.rows
    OBVIOUS
  <2>1. t \in Nat /\ t = (t - 1) + 1
    BY <1>2
  <2>2. t \in {c + 1 : c \in work}
    BY <1>1, <2>1
  <2> QED
    BY <1>1, <2>2
<1>11. Whole(p)
  <2>1. cursor \in Nat /\ cursor <= input
    BY <1>2 DEF Walked
  <2>2. cursor <= input + n
    BY <1>3, <1>6, <2>1
  <2> QED
    BY <1>1, <1>8, <1>9, <1>10, <2>2 DEF Whole
<1>12. Walked(run.first, run.have, input + n, input + ChunkSize)
  <2>1. ASSUME NEW c \in run.have, input + n <= c, c < input + ChunkSize PROVE FALSE
    <3>1. c \in Nat
      BY <1>0, <2>1
    <3>2. c \in work
      BY <1>0, <1>3, <1>6, <2>1, <3>1
    <3> HIDE DEF n
    <3>3. c < input + n
      BY <1>3, <1>6, <1>7, <3>1, <3>2, CountOfRange
    <3> QED
      BY <1>3, <1>6, <2>1, <3>1, <3>3
  <2>2. run.first <= input + n
    BY <1>2, <1>3, <1>6 DEF Walked
  <2>3. input + ChunkSize \in Nat
    BY <1>3
  <2> QED
    BY <1>8, <2>1, <2>2, <2>3 DEF Walked
<1> QED
  BY <1>1, <1>3, <1>11, <1>12 DEF p

\* The parts of a chunk once it is stored are counted once.
LEMMA CountGoesOn ==
    ASSUME NEW a \in Nat, NEW b \in Nat, NEW c \in Nat, a <= b, b <= c, candles \subseteq 0..Horizon - 1
    PROVE  Cardinality(Between(a, c)) = Cardinality(Between(a, b)) + Cardinality(Between(b, c))
<1>1. IsFiniteSet(candles) /\ candles \subseteq Nat
  <2>1. Horizon - 1 \in Int
    BY ReplayAssumption
  <2>2. IsFiniteSet(0..Horizon - 1)
    BY <2>1, FS_Interval
  <2>3. \A x \in candles : x \in 0..Horizon - 1
    OBVIOUS
  <2>4. IsFiniteSet(candles)
    BY <2>2, <2>3, PartIsFinite
  <2> QED
    BY <2>1, <2>3, <2>4
<1>2. IsFiniteSet(Between(a, b)) /\ IsFiniteSet(Between(b, c))
  <2>1. /\ \A x \in Between(a, b) : x \in candles
        /\ \A x \in Between(b, c) : x \in candles
    BY DEF Between
  <2>2. IsFiniteSet(candles)
    BY <1>1
  <2>3. IsFiniteSet(Between(a, b))
    BY <2>1, <2>2, PartIsFinite
  <2>4. IsFiniteSet(Between(b, c))
    BY <2>1, <2>2, PartIsFinite
  <2> QED
    BY <2>3, <2>4
<1>3. Between(a, c) = Between(a, b) \union Between(b, c) /\ Between(a, b) \intersect Between(b, c) = {}
  <2>1. \A x \in Nat : /\ a <= x /\ x < c <=> (a <= x /\ x < b) \/ (b <= x /\ x < c)
                       /\ ~((a <= x /\ x < b) /\ (b <= x /\ x < c))
    OBVIOUS
  <2>2. \A x \in candles : /\ a <= x /\ x < c <=> (a <= x /\ x < b) \/ (b <= x /\ x < c)
                           /\ ~((a <= x /\ x < b) /\ (b <= x /\ x < c))
    BY <1>1, <2>1
  <2>3. Between(a, c) = Between(a, b) \union Between(b, c)
    BY <2>2, Zenon DEF Between
  <2>4. Between(a, b) \intersect Between(b, c) = {}
    BY <2>2, Zenon DEF Between
  <2> QED
    BY <2>3, <2>4
<1>4. /\ Cardinality(Between(a, b) \intersect Between(b, c)) = 0
      /\ Cardinality(Between(a, b)) \in Nat /\ Cardinality(Between(b, c)) \in Nat
  BY <1>2, <1>3, FS_EmptySet, FS_CardinalityType
<1>5. Cardinality(Between(a, b) \union Between(b, c)) =
         Cardinality(Between(a, b)) + Cardinality(Between(b, c)) - Cardinality(Between(a, b) \intersect Between(b, c))
  BY <1>2, FS_Union
<1> QED
  BY <1>3, <1>4, <1>5

\* Each statement of a run, and the end of one after any of them, keeps the invariant.
LEMMA ReplayStep == ASSUME ReplayInv, [P!Next]_(P!vars) PROVE ReplayInv'
<1>1. CoveredInv /\ RunInv
  BY DEF ReplayInv
\* A step of the run alone, or of the clock.
<1>2. ASSUME UNCHANGED <<candles, setups, start, cursor, processed, decisions, labelled, dataset>>, clock' \in Nat
      PROVE  CoveredInv' /\ (run' = run \/ run' = P!Idle => RunInv')
  <2>1. CoveredInv'
    BY <1>1, <1>2 DEF CoveredInv, Between
  <2>2. ASSUME run' = run PROVE RunInv'
    BY <1>1, <1>2, <2>2 DEF RunInv, FetchedFrom, Walked, Whole, Between
  <2>3. ASSUME run' = P!Idle PROVE RunInv'
    <3>1. run'.pc = "idle"
      BY <2>3 DEF P!Idle
    <3> QED
      BY <3>1 DEF RunInv
  <2> QED
    BY <2>1, <2>2, <2>3
<1>3. CASE UNCHANGED P!vars
  BY <1>1, <1>2, <1>3 DEF P!vars, ReplayInv, CoveredInv
<1>4. CASE P!Tick
  BY <1>1, <1>2, <1>4 DEF P!Tick, P!World, P!Archive, ReplayInv, CoveredInv
<1>5. CASE P!RunEnds \/ P!Fails
  BY <1>1, <1>2, <1>5 DEF P!RunEnds, P!Fails, P!World, P!Archive, ReplayInv, CoveredInv
<1>6. CASE P!Begins
  <2>1. /\ UNCHANGED <<candles, setups, start, cursor, processed, decisions, labelled, dataset>>
        /\ run' = [pc |-> "build", chunk |-> 0, first |-> cursor, have |-> P!Fetched] /\ clock' = clock
    BY <1>6 DEF P!Begins, P!World, P!Archive
  <2>2. run'.pc = "build" /\ run'.chunk = 0 /\ run'.first = cursor /\ run'.have = P!Fetched
    BY <2>1
  <2>3. candles \subseteq Nat /\ cursor \in Nat /\ clock \in Nat
    BY <1>1, ReplayAssumption DEF CoveredInv
  <2> DEFINE F == P!Fetched
             end == cursor + ChunkSize * Chunks + OutcomeBars
  <2>4. FetchedFrom(cursor, F)
    <3>1. \A c \in candles : c \in F <=> cursor <= c /\ c < clock /\ c < end
      BY DEF P!Fetched
    <3>2. F \subseteq candles /\ end \in Nat
      BY <2>3, ReplayAssumption DEF P!Fetched
    <3> HIDE DEF F, end
    <3>3. ASSUME NEW c \in F, NEW d \in candles, cursor <= d, d <= c PROVE d \in F
      <4>1. c \in Nat /\ d \in Nat /\ c < clock /\ c < end
        BY <2>3, <3>1, <3>2
      <4>2. d < clock /\ d < end
        BY <2>3, <3>2, <3>3, <4>1
      <4> QED
        BY <3>1, <3>3, <4>2
    <3> QED
      BY <3>1, <3>2, <3>3 DEF FetchedFrom
  <2>5. Walked(cursor, F, cursor, cursor + 0 * ChunkSize)
    <3>1. cursor + 0 * ChunkSize = cursor
      BY <2>3, ReplayAssumption
    <3>2. \A c \in F : ~(cursor <= c /\ c < cursor)
      BY <2>3 DEF P!Fetched
    <3> HIDE DEF F
    <3> QED
      BY <2>3, <3>1, <3>2 DEF Walked
  <2>6. RunInv'
    <3> HIDE DEF F
    <3>1. PICK f, have : f = cursor /\ have = P!Fetched
      OBVIOUS
    <3>2. FetchedFrom(f, have) /\ Walked(f, have, cursor, f + 0 * ChunkSize)
      BY <2>4, <2>5, <3>1 DEF F
    <3>3. run'.pc = "build" /\ run'.chunk = 0 /\ run'.first = f /\ run'.have = have
      BY <2>2, <3>1
    <3>4. FetchedFrom(run.first, run.have)'
      BY <2>1, <3>2, <3>3 DEF FetchedFrom
    <3>5. Walked(run.first, run.have, cursor, run.first + run.chunk * ChunkSize)'
      BY <2>1, <3>2, <3>3 DEF Walked
    <3>6. f \in Nat
      BY <2>3, <3>1
    <3> QED
      BY <3>3, <3>4, <3>5, <3>6 DEF RunInv
  <2> QED
    BY <1>2, <2>1, <2>3, <2>6 DEF ReplayInv
<1>7. CASE P!Commit
  <2> DEFINE p == P!Payload(run)
  <2>1. /\ UNCHANGED <<candles, setups, start, cursor, processed, decisions, labelled, dataset>> /\ clock' = clock
        /\ run.pc = "build" /\ p.work # {}
        /\ \/ run' = P!Idle
           \/ /\ P!Accepted(p)
              /\ run' = [pc |-> "batch", chunk |-> run.chunk, first |-> run.first,
                         have |-> run.have, payload |-> p]
    BY <1>7 DEF P!Commit, P!World, P!Archive
  <2>2. clock' \in Nat
    BY <1>1, <2>1 DEF CoveredInv
  <2>3. CASE run' = P!Idle
    BY <1>2, <2>1, <2>2, <2>3 DEF ReplayInv
  <2>4. CASE /\ P!Accepted(p)
             /\ run' = [pc |-> "batch", chunk |-> run.chunk, first |-> run.first,
                        have |-> run.have, payload |-> p]
    <3>1. Whole(p) /\ Walked(run.first, run.have, p.cursor, run.first + (run.chunk + 1) * ChunkSize)
      BY <2>1, <2>4, TakenIsWhole
    <3>2. run.chunk \in Nat /\ run.first \in Nat /\ FetchedFrom(run.first, run.have)
      BY <1>1, <2>1 DEF RunInv
    <3> HIDE DEF p
    <3>3. /\ run'.pc = "batch" /\ run'.chunk = run.chunk /\ run'.first = run.first
          /\ run'.have = run.have /\ run'.payload = p
          /\ run' = [pc |-> run'.pc, chunk |-> run'.chunk, first |-> run'.first,
                     have |-> run'.have, payload |-> run'.payload]
      BY <2>4
    <3>4. RunInv'
      BY <2>1, <3>1, <3>2, <3>3 DEF RunInv, Whole, Walked, FetchedFrom, Between
    <3> QED
      BY <1>2, <2>1, <2>2, <3>4 DEF ReplayInv
  <2> QED
    BY <2>1, <2>3, <2>4
\* The three statements of the worker.
<1>8. CASE P!Batch
  <2>1. /\ UNCHANGED <<candles, setups, start, clock, cursor, processed, dataset>> /\ run.pc = "batch"
        /\ decisions' = decisions \union run.payload.rows
        /\ labelled' = labelled \union (run.payload.known \ decisions)
        /\ run' = [run EXCEPT !.pc = "state"]
    BY <1>8 DEF P!Batch, P!World
  <2>2. /\ run = [pc |-> "batch", chunk |-> run.chunk, first |-> run.first, have |-> run.have, payload |-> run.payload]
        /\ run.chunk \in Nat /\ run.first \in Nat /\ FetchedFrom(run.first, run.have)
        /\ Whole(run.payload)
        /\ Walked(run.first, run.have, run.payload.cursor, run.first + (run.chunk + 1) * ChunkSize)
    BY <1>1, <2>1 DEF RunInv
  <2>3. run' = [pc |-> "state", chunk |-> run.chunk, first |-> run.first, have |-> run.have, payload |-> run.payload]
    BY <2>1, <2>2
  <2>4. /\ run'.pc = "state" /\ run'.chunk = run.chunk /\ run'.first = run.first
        /\ run'.have = run.have /\ run'.payload = run.payload
        /\ run' = [pc |-> run'.pc, chunk |-> run'.chunk, first |-> run'.first,
                   have |-> run'.have, payload |-> run'.payload]
    BY <2>3
  <2>5. RunInv'
    BY <2>1, <2>2, <2>4 DEF RunInv, Whole, Walked, FetchedFrom, Between
  <2>6. CoveredInv'
    BY <1>1, <2>1, <2>2 DEF CoveredInv, Whole, Between
  <2> QED
    BY <2>5, <2>6 DEF ReplayInv
<1>9. CASE P!SaveState
  <2>1. /\ UNCHANGED <<candles, setups, start, clock, decisions, labelled, dataset>> /\ run.pc = "state"
        /\ cursor' = run.payload.cursor
        /\ processed' = processed + Cardinality(run.payload.work)
        /\ run' = [run EXCEPT !.pc = "dataset"]
    BY <1>9, CandlesAgree DEF P!SaveState, P!World
  <2>2. /\ run = [pc |-> "state", chunk |-> run.chunk, first |-> run.first, have |-> run.have, payload |-> run.payload]
        /\ run.chunk \in Nat /\ run.first \in Nat /\ FetchedFrom(run.first, run.have)
        /\ Whole(run.payload) /\ run.payload.rows \subseteq decisions
        /\ Walked(run.first, run.have, run.payload.cursor, run.first + (run.chunk + 1) * ChunkSize)
    BY <1>1, <2>1 DEF RunInv
  <2>3. run' = [pc |-> "dataset", chunk |-> run.chunk, first |-> run.first, have |-> run.have, payload |-> run.payload]
    BY <2>1, <2>2
  <2>4. /\ run'.pc = "dataset" /\ run'.chunk = run.chunk /\ run'.first = run.first
        /\ run'.have = run.have /\ run'.payload = run.payload
        /\ run' = [pc |-> run'.pc, chunk |-> run'.chunk, first |-> run'.first,
                   have |-> run'.have, payload |-> run'.payload]
    BY <2>3
  <2>5. RunInv'
    BY <2>1, <2>2, <2>4 DEF RunInv, Walked, FetchedFrom
  <2>6. /\ start \in Nat /\ cursor \in Nat /\ start <= cursor /\ candles \subseteq 0..Horizon - 1
        /\ processed = Cardinality(Between(start, cursor))
        /\ cursor' \in Nat /\ cursor <= cursor' /\ run.payload.work = Between(cursor, cursor')
    BY <1>1, <2>1, <2>2 DEF CoveredInv, Whole, Between
  <2>7. processed' = Cardinality(Between(start, cursor)')
    <3>1. Between(start, cursor)' = Between(start, cursor')
      BY <2>1 DEF Between
    <3> QED
      BY <2>1, <2>6, <3>1, CountGoesOn
  <2>8. ASSUME NEW t \in setups, t - 1 \in candles, start < t, t <= cursor' PROVE t \in decisions
    <3>1. t \in Nat /\ t - 1 \in Nat
      BY <1>1, <2>8, ReplayAssumption DEF CoveredInv
    <3>2. CASE t <= cursor
      BY <1>1, <2>8, <3>2 DEF CoveredInv
    <3>3. CASE ~(t <= cursor)
      <4>1. cursor <= t - 1 /\ t - 1 < cursor'
        BY <2>6, <2>8, <3>1, <3>3
      <4>2. t - 1 \in run.payload.work
        BY <2>6, <2>8, <4>1 DEF Between
      <4> QED
        BY <2>2, <4>2 DEF Whole
    <3> QED
      BY <3>2, <3>3
  <2>9. start <= cursor'
    BY <2>6
  <2>10. CoveredInv'
    BY <1>1, <2>1, <2>6, <2>7, <2>8, <2>9 DEF CoveredInv
  <2> QED
    BY <2>5, <2>10 DEF ReplayInv
<1>10. CASE P!MaterializeDataset
  <2>1. /\ UNCHANGED <<candles, setups, start, clock, cursor, processed, decisions, labelled>> /\ run.pc = "dataset"
        /\ dataset' = dataset \/ dataset' = labelled
        /\ run' = [pc |-> "build", chunk |-> run.chunk + 1, first |-> run.first, have |-> run.have]
    BY <1>10 DEF P!MaterializeDataset, P!World
  <2>2. /\ run.chunk \in Nat /\ run.first \in Nat /\ FetchedFrom(run.first, run.have)
        /\ Walked(run.first, run.have, cursor, run.first + (run.chunk + 1) * ChunkSize)
    BY <1>1, <2>1 DEF RunInv
  <2>3. run'.pc = "build" /\ run'.chunk = run.chunk + 1 /\ run'.first = run.first /\ run'.have = run.have
    BY <2>1
  <2>4. RunInv'
    BY <2>1, <2>2, <2>3 DEF RunInv, Walked, FetchedFrom
  <2>5. CoveredInv'
    BY <1>1, <2>1 DEF CoveredInv, Between
  <2> QED
    BY <2>4, <2>5 DEF ReplayInv
<1> QED
  BY <1>3, <1>4, <1>5, <1>6, <1>7, <1>8, <1>9, <1>10 DEF P!Next

\* Whatever fails and is walked again, behind the cursor every candle was counted once and
\* every decision is stored.
THEOREM ReplayStands == P!Init /\ [][P!Next]_(P!vars) => []P!ReplayCovers
<1>1. P!Init => ReplayInv
  <2> SUFFICES ASSUME P!Init PROVE ReplayInv
    OBVIOUS
  <2>1. /\ candles \subseteq 0..Horizon - 1 /\ setups \subseteq 1..Horizon
        /\ clock = 0 /\ start \in {0, 1} /\ cursor = start /\ processed = 0
        /\ decisions = {} /\ labelled = {} /\ dataset = {} /\ run.pc = "idle"
    BY DEF P!Init, P!Idle
  <2>2. Between(start, cursor) = {}
    <3>1. \A c \in candles : c \in Int /\ ~(start <= c /\ c < start)
      BY <2>1
    <3> QED
      BY <2>1, <3>1 DEF Between
  <2>3. processed = Cardinality(Between(start, cursor))
    BY <2>1, <2>2, FS_EmptySet
  <2>4. \A t \in setups : ~(start < t /\ t <= cursor)
    BY <2>1, ReplayAssumption
  <2>5. CoveredInv
    BY <2>1, <2>3, <2>4 DEF CoveredInv
  <2>6. RunInv
    BY <2>1 DEF RunInv
  <2> QED
    BY <2>5, <2>6 DEF ReplayInv
<1>2. ReplayInv => P!ReplayCovers
  BY CandlesAgree DEF ReplayInv, CoveredInv, P!ReplayCovers, Between
<1> QED
  BY <1>1, <1>2, ReplayStep, PTL

-----------------------------------------------------------------------------
\* Side by side each part makes its own steps and no others: what is proved of a part
\* holds in the whole.
LEMMA AppRunsApart ==
    WorkerSpec => /\ Spec
                  /\ J!Spec
                  /\ C!Init /\ [][C!Next]_(C!vars)
                  /\ H!AssistantInit /\ [][H!AssistantNext]_(H!assistantVars)
<1>1. WorkerInit => Init /\ J!Init /\ C!Init /\ H!AssistantInit
  BY Zenon DEF WorkerInit
<1>2. [WorkerNext]_workerVars =>
          [Next]_vars /\ [J!Next]_(J!vars) /\ [C!Next]_(C!vars) /\ [H!AssistantNext]_(H!assistantVars)
  <2> SUFFICES ASSUME [WorkerNext]_workerVars
               PROVE  [Next]_vars /\ [J!Next]_(J!vars) /\ [C!Next]_(C!vars) /\ [H!AssistantNext]_(H!assistantVars)
    OBVIOUS
  <2> USE DEF workerVars, appVars, journalVars, clientVars, assistantVars,
              vars, J!vars, C!vars, C!scanVars, C!journalVars, H!assistantVars
  <2>1. Next \/ UNCHANGED vars
    BY DEF WorkerNext, InApp, InBridge, InResearch
  <2>2. J!Next \/ UNCHANGED J!vars
    BY DEF WorkerNext, InApp, InBridge, InResearch
  <2>3. C!Next \/ UNCHANGED C!vars
    BY DEF WorkerNext, InApp, InBridge, InResearch
  <2>4. H!AssistantNext \/ UNCHANGED H!assistantVars
    BY DEF WorkerNext, InApp, InBridge, InResearch
  <2> QED
    BY <2>1, <2>2, <2>3, <2>4
<1> QED
  BY <1>1, <1>2, PTL DEF WorkerSpec, Spec, J!Spec

\* Stream and cycle each run their own specification.
LEMMA BridgeRunsApart ==
    WorkerSpec => /\ S!Spec
                  /\ D!Init /\ [][D!Next]_(D!vars)
<1>1. WorkerInit => S!Init /\ D!Init
  BY Zenon DEF WorkerInit
<1>2. [WorkerNext]_workerVars => [S!Next]_(S!vars) /\ [D!Next]_(D!vars)
  <2> SUFFICES ASSUME [WorkerNext]_workerVars PROVE [S!Next]_(S!vars) /\ [D!Next]_(D!vars)
    OBVIOUS
  <2> USE DEF workerVars, bridgeVars, streamVars, cycleVars, S!vars, S!stream, D!vars
  <2>1. S!Next \/ UNCHANGED S!vars
    BY DEF WorkerNext, InApp, InBridge, InResearch
  <2>2. D!Next \/ UNCHANGED D!vars
    BY DEF WorkerNext, InApp, InBridge, InResearch
  <2> QED
    BY <2>1, <2>2
<1> QED
  BY <1>1, <1>2, PTL DEF WorkerSpec, S!Spec

\* Archive, registry, replay and gate each run their own specification.
LEMMA ResearchRunsApart ==
    WorkerSpec => /\ A!Init /\ [][A!Next]_(A!vars)
                  /\ G!Init /\ [][G!Next]_(G!vars)
                  /\ P!Init /\ [][P!Next]_(P!vars)
                  /\ W!Spec
<1>1. WorkerInit => A!Init /\ G!Init /\ P!Init /\ W!Init
  BY Zenon DEF WorkerInit
<1>2. [WorkerNext]_workerVars =>
          [A!Next]_(A!vars) /\ [G!Next]_(G!vars) /\ [P!Next]_(P!vars) /\ [W!Next]_(W!vars)
  <2> SUFFICES ASSUME [WorkerNext]_workerVars
               PROVE  [A!Next]_(A!vars) /\ [G!Next]_(G!vars) /\ [P!Next]_(P!vars) /\ [W!Next]_(W!vars)
    OBVIOUS
  <2> USE DEF workerVars, researchVars, archiveVars, registryVars, replayVars, gateVars,
              A!vars, G!vars, P!vars, W!vars
  <2>1. A!Next \/ UNCHANGED A!vars
    BY DEF WorkerNext, InApp, InBridge, InResearch
  <2>2. G!Next \/ UNCHANGED G!vars
    BY DEF WorkerNext, InApp, InBridge, InResearch
  <2>3. P!Next \/ UNCHANGED P!vars
    BY DEF WorkerNext, InApp, InBridge, InResearch
  <2>4. W!Next \/ UNCHANGED W!vars
    BY DEF WorkerNext, InApp, InBridge, InResearch
  <2> QED
    BY <2>1, <2>2, <2>3, <2>4
<1> QED
  BY <1>1, <1>2, PTL DEF WorkerSpec, W!Spec

\* Whatever scans, sockets, sessions, requests and isolates do, what the cloud keeps for the
\* customer stands: the allowance, the journal, the pages, the stream and the gate.
THEOREM CustomerStands ==
    WorkerSpec => /\ AllowanceKept
                  /\ JournalHolds
                  /\ []PagesHold
                  /\ []StreamFollowsPositions
                  /\ []GateHolds
<1>1. WorkerSpec => AllowanceKept /\ JournalHolds /\ []C!LatestScanOnly /\ []H!AssistantHolds
  BY AppRunsApart, AllowanceStands, JournalStands, PageShowsLatest, AssistantKeepsBooks, Zenon
<1>2. WorkerSpec => []StreamFollowsPositions /\ []GateHolds
  BY BridgeRunsApart, ResearchRunsApart, StreamStaysFollowing, GateStands, Zenon
<1>3. C!LatestScanOnly /\ H!AssistantHolds => PagesHold
  BY Zenon DEF PagesHold
<1> QED
  BY <1>1, <1>2, <1>3, PTL

\* And so does what it keeps for research.
THEOREM ResearchStands == WorkerSpec => ArchivesHold
<1>1. WorkerSpec => /\ [][A!Frozen]_(A!vars)
                    /\ [](G!GenerationsGrow /\ G!VerdictsHaveEvidence) /\ G!OnceOnly
                    /\ []P!ReplayCovers
  BY ResearchRunsApart, ArchiveStaysFrozen, RegistryStands, ReplayStands, Zenon
<1>2. [A!Frozen]_(A!vars) => [A!Frozen]_archiveVars
  BY DEF A!vars, archiveVars
<1> QED
  BY <1>1, <1>2, PTL DEF ArchivesHold

\* With a cycle of research at every scan the bridge's cycle is sound beside the rest.
THEOREM CyclesStand == ASSUME EveryN = 1 PROVE WorkerSpec => []CycleIsSound
  BY BridgeRunsApart, EveryScanIsSound, Zenon
=============================================================================
