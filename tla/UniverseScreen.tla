--------------------------- MODULE UniverseScreen ---------------------------
(***************************************************************************)
(* How a coin enters the research universe (research/dataset-expansion/    *)
(* screen-universe.mjs, expansion.js and scheduler.mjs): every USD product *)
(* of the exchange is screened by fixed rules, the survivors become a      *)
(* proposal, and what a person approves becomes a new version of the       *)
(* dataset registry (research/dataset-registry.js).  Nothing in the code   *)
(* holds the approval to the proposal.                                     *)
(*                                                                         *)
(* A daily history maps each day to its [open, close]; the close stands    *)
(* for the notional too and is 0 on a day without a candle.                *)
(***************************************************************************)
EXTENDS Integers, Sequences, SequencesExt, FiniteSets, FiniteSetsExt

CONSTANTS
    Listed,         \* the bases of the USD products, in the order of their ids
    Original,       \* OLD_ASSETS: in the universe since before the screen
    Approved,       \* APPROVED_RESEARCH_ASSETS, the original ones among them
    Histories,      \* the daily histories a product may have
    CutoffDay,      \* devCutoffMs: the first day out of development
    Screen,         \* SCREEN: the thresholds of the rules
    MaxAdditions,   \* MAX_ADDITIONS_PER_PROPOSAL
    Expanded,       \* RESEARCH_UNIVERSE_VERSION
    Dates,          \* the days on which a version may be proposed
    MaxVersions     \* bound: versions of the registry

VARIABLES
    screened,       \* what has been screened, in order
    turn,           \* products looked at
    history,        \* the history fetched of a screened product
    proposal,       \* buildProposal's answer to the report, none before it
    registry        \* DATASETS and the copies made of it

screenVars == <<screened, turn, history, proposal, registry>>

NoProposal == [additions |-> <<>>, deferred |-> <<>>, removals |-> {},
               excluded |-> {}, notScreened |-> {}]

-----------------------------------------------------------------------------
\* The rules.

\* Mutant: the screen reads the candles of the embargo and of the holdout.
EveryDay(daily) == {d \in DOMAIN daily : daily[d].close # 0}

\* Days with a candle that closed by the end of development.
DevelopmentDays(daily) == {d \in DOMAIN daily : d + 1 <= CutoffDay /\ daily[d].close # 0}

Traded(daily) ==
    LET days == SelectSeq([i \in 1..Max(DOMAIN daily) + 1 |-> i - 1],
                          LAMBDA d : d \in DevelopmentDays(daily))
    IN [i \in DOMAIN days |-> daily[days[i]].close]
TwiceMedian(values) ==
    LET sorted == SortSeq(values, <)
        n == Len(values)
    IN IF n = 0 THEN 0
       ELSE sorted[(n + 1) \div 2] + sorted[(n + 2) \div 2]
Away(a, b) == Max({a - b, b - a})
\* Opened too far from the close of the day before; a day after a hole is not compared.
Gapped(daily) ==
    \E d \in DevelopmentDays(daily) :
        /\ d + 1 \in DevelopmentDays(daily)
        /\ Away(daily[d + 1].open, daily[d].close) * 100 > Screen.gap * daily[d].close
Low(values) == SelectSeq(values, LAMBDA v : v < Screen.low)

\* The rules a history breaks; S1 is judged from the product alone.
DailyFailures(daily) ==
    LET days == DevelopmentDays(daily)
        values == Traded(daily)
        expected == IF days = {} THEN 0 ELSE CutoffDay - Min(days)
    IN {rule \in {"S2", "S3", "S4", "S5", "S6"} :
          \/ rule = "S2" /\ Cardinality(ToSet(values)) <= 1
          \/ rule = "S3" /\ expected - Screen.lookback < Screen.minDays
          \/ rule = "S4" /\ Len(values) * 100 < Screen.coverage * Max({expected, 1})
          \/ rule = "S5" /\ \/ TwiceMedian(values) < 2 * Screen.minNotional
                            \/ Len(Low(values)) * 100 > Screen.lowShare * Len(values)
                            \/ values = <<>>
          \/ rule = "S6" /\ \/ Gapped(daily)
                            \/ \E i \in 1..Len(values) - 1 :
                                  \/ values[i + 1] > Screen.jump * values[i]
                                  \/ values[i] > Screen.jump * values[i + 1]}

Entry(symbol, failed, notional) ==
    [symbol |-> symbol, pass |-> failed = {}, failed |-> failed, notional |-> notional]

\* shortlist: what passed, the most traded first, up to the fetch cap.
Shortlist(entries) ==
    LET passed == SelectSeq(entries, LAMBDA e : e.pass)
        ranked == SortSeq(passed, LAMBDA a, b : a.notional > b.notional)
    IN SubSeq(ranked, 1, Min({Len(ranked), Screen.fetchCap}))

-----------------------------------------------------------------------------
\* One pass over the products.

ScreenInit ==
    /\ screened = <<>> /\ turn = 0 /\ history = <<>>
    /\ proposal = NoProposal
    /\ registry = [v \in {[name |-> Expanded, snapshot |-> 0, revision |-> 0]} |->
                     [status |-> "ACTIVE", trainable |-> TRUE, assets |-> Approved]]

Judge(entry, daily) ==
    /\ turn' = turn + 1
    /\ screened' = Append(screened, entry)
    /\ history' = Append(history, daily)
    /\ UNCHANGED <<proposal, registry>>

More == turn < Len(Listed)
Product == Listed[turn + 1]

SkipOriginal ==
    /\ More /\ Product \in Original
    /\ turn' = turn + 1
    /\ UNCHANGED <<screened, history, proposal, registry>>

\* Halted or pegged: no candle is asked for.
RejectByMetadata ==
    /\ More /\ Product \notin Original
    /\ \E failed \in (SUBSET {"S1", "S2"}) \ {{}} : Judge(Entry(Product, failed, 0), <<>>)

\* Eight attempts failed, or the exchange refused.
FetchFails ==
    /\ More /\ Product \notin Original
    /\ Judge(Entry(Product, {"FETCH_ERROR"}, 0), <<>>)

ScreenProduct ==
    /\ More /\ Product \notin Original
    /\ \E daily \in Histories :
          Judge(Entry(Product, DailyFailures(daily), TwiceMedian(Traded(daily))), daily)

-----------------------------------------------------------------------------
\* From the report to a version.

Symbols(entries) == [i \in 1..Len(entries) |-> entries[i].symbol]
Unapproved == SelectSeq(screened, LAMBDA e : e.symbol \notin Approved)

Proposable == Shortlist(Unapproved)

BuildProposal ==
    /\ ~More /\ proposal = NoProposal
    /\ proposal' =
         [additions |-> Symbols(SubSeq(Proposable, 1, Min({Len(Proposable), MaxAdditions}))),
          deferred |-> Symbols(SubSeq(Proposable, MaxAdditions + 1, Len(Proposable))),
          removals |-> {e.symbol : e \in {x \in ToSet(screened) :
                                            x.symbol \in Approved /\ "S1" \in x.failed}},
          excluded |-> {e.symbol : e \in {x \in ToSet(Unapproved) : ~x.pass}},
          notScreened |-> Approved \ ToSet(Symbols(screened))]
    /\ UNCHANGED <<screened, turn, history, registry>>

-----------------------------------------------------------------------------
\* The registry. A version is a dataset's name, the day of its snapshot and of its
\* revision, 0 for none.

\* A person names the coins: a revision of its base takes the place of the base's own, and
\* its coins are those approved in the code, whatever the base held, and the new ones. An
\* existing name is refused.
ProposeDatasetVersion(base, approved, removed, date) ==
    LET version == [base EXCEPT !.revision = date]
        entry == [status |-> "PROPOSED", trainable |-> FALSE,
                  assets |-> (Approved \ removed) \union approved]
    IN /\ base \in DOMAIN registry /\ approved # {}
       /\ version \notin DOMAIN registry
       /\ registry' = [v \in DOMAIN registry \union {version} |->
                         IF v = version THEN entry ELSE registry[v]]
       /\ UNCHANGED <<screened, turn, history, proposal>>

\* withSnapshot: a published snapshot of the forward rows is registered by its date.
WithSnapshot(date) ==
    LET version == [name |-> "SNAPSHOT", snapshot |-> date, revision |-> 0]
    IN /\ version \notin DOMAIN registry
       /\ registry' = [v \in DOMAIN registry \union {version} |->
                         IF v # version THEN registry[v]
                         ELSE [status |-> "SNAPSHOT_PUBLISHED", trainable |-> TRUE,
                               assets |-> {}]]
       /\ UNCHANGED <<screened, turn, history, proposal>>

ScreenNext == SkipOriginal \/ RejectByMetadata \/ FetchFails \/ ScreenProduct \/ BuildProposal

RegistryNext ==
    /\ Cardinality(DOMAIN registry) < MaxVersions
    /\ \/ \E base \in DOMAIN registry, date \in Dates :
          \E approved, removed \in SUBSET ToSet(Listed) :
             ProposeDatasetVersion(base, approved, removed, date)
       \/ \E date \in Dates : WithSnapshot(date)

-----------------------------------------------------------------------------
\* Which coin is proposed is settled by candles of development alone: a history that
\* differs only after the cutoff is judged the same, in its rules and in its rank.
ScreenedBlind ==
    \A i \in DOMAIN screened : \A other \in Histories :
        history[i] # <<>> /\ (\A d \in 0..CutoffDay - 1 : history[i][d] = other[d]) =>
            screened[i] = Entry(screened[i].symbol, DailyFailures(other),
                                TwiceMedian(Traded(other)))

\* Only coins that passed and are not in the universe are proposed, the most traded
\* first; those over the size of a review are named, as are those that failed, and an
\* approved coin is proposed for removal only when its market has stopped.
ProposalIsSound ==
    LET verdict(s) == CHOOSE e \in ToSet(screened) : e.symbol = s
        named == proposal.additions \o proposal.deferred
    IN /\ Len(proposal.additions) <= MaxAdditions
       /\ \A i \in DOMAIN named :
             /\ verdict(named[i]).pass /\ named[i] \notin Approved
             /\ \A j \in i..Len(named) : verdict(named[i]).notional >= verdict(named[j]).notional
       /\ proposal # NoProposal =>
             \/ Len(named) = Screen.fetchCap
             \/ ToSet(named) \union proposal.excluded = ToSet(Symbols(screened)) \ Approved
       /\ \A s \in proposal.removals : "S1" \in verdict(s).failed /\ s \notin Original

\* No version of the registry is edited, replaced or removed, in any order of revisions,
\* revisions of revisions and snapshots on the same days.
VersionsStand ==
    \A v \in DOMAIN registry : v \in DOMAIN registry' /\ registry'[v] = registry[v]
=============================================================================
