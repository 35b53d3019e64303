--------------------------- MODULE AlgorithmProofs ---------------------------
(***************************************************************************)
(* What holds, for every value of the constants, of the pure parts of the  *)
(* trading logic (MCAlgorithms).                                           *)
(***************************************************************************)
EXTENDS MCAlgorithms, TradeProofs

-----------------------------------------------------------------------------
(* The exits and the verdict of a paper trade                              *)

\* The candles fed to the exit rules are in time order.
LEMMA FeedInvHolds == AlgorithmsSpec => []FeedInv
<1>1. AlgorithmsInit => FeedInv
  BY DEF AlgorithmsInit, Init, FeedInv
<1>2. FeedInv /\ [AlgorithmsNext]_<<part, tradingVars, researchVars>> => FeedInv'
  <2>1. ASSUME FeedInv, LifecyclePart PROVE FeedInv'
    <3>1. geometry' = geometry /\ size' = size
      BY <2>1 DEF LifecyclePart, NewCandle
    <3>2. PICK c \in CandlesAt(Len(feed) + 1) : feed' = Append(feed, c)
      BY <2>1 DEF LifecyclePart, NewCandle
    <3>3. feed \in Seq(AnyCandle) /\ \A i \in DOMAIN feed : feed[i].time = i
      BY <2>1 DEF FeedInv
    <3>4. c \in AnyCandle /\ c.time = Len(feed) + 1
      BY <3>3 DEF CandlesAt, AnyCandle, Price
    <3>5. feed' \in Seq(AnyCandle) /\ \A i \in DOMAIN feed' : feed'[i].time = i
      BY <3>2, <3>3, <3>4
    <3> QED  BY <2>1, <3>1, <3>5 DEF FeedInv
  <2>2. ASSUME FeedInv, UNCHANGED vars PROVE FeedInv'
    BY <2>2 DEF FeedInv, vars
  <2>3. AlgorithmsNext => LifecyclePart \/ UNCHANGED vars
    BY DEF AlgorithmsNext, OutcomesPart, StructurePart, RulesPart, BacktestsPart, FramesPart,
           ScreenPart, RegistryPart, ExpansionPart, StudyPart, EpochsPart, FeaturesPart,
           tradingVars
  <2>4. UNCHANGED tradingVars => UNCHANGED vars
    BY DEF tradingVars
  <2> QED  BY <2>1, <2>2, <2>3, <2>4
<1> QED  BY <1>1, <1>2, PTL DEF AlgorithmsSpec

\* A trade's exits do not depend on how its candles are cut into sweeps, nor on whether a
\* tick or a candle brings a price; every evaluation is one the engine accepts, and the
\* deadline leaves nothing open (lifecycle.py, advance and evaluate_tick).
THEOREM ExitsStaySame == AlgorithmsSpec => []SameExits
<1>1. FeedInv => SameExits
  BY ExitsAgree DEF SameExits
<1> QED  BY <1>1, FeedInvHolds, PTL

\* A verdict was given on candles that are still on the path.
LEMMA OutcomeInvHolds == AlgorithmsSpec => []OutcomeInv
<1>1. AlgorithmsInit => OutcomeInv
  <2>1. <<>> \in Seq(O!Candle) /\ Len(<<>>) = 0
    OBVIOUS
  <2> QED  BY <2>1, OpenTrade, OutcomeAssumption DEF AlgorithmsInit, O!Init, OutcomeInv
<1>2. ASSUME OutcomeInv, OutcomesPart PROVE OutcomeInv'
  <2>1. ASSUME NEW c \in O!Candle, O!Draws(c) PROVE OutcomeInv'
    <3>1. /\ path' = path /\ settled' = settled /\ forming' = c /\ forming = O!NoCandle
          /\ Len(path) < HeldBars /\ path \in Seq(O!Candle)
      BY <1>2, <2>1 DEF O!Draws, OutcomeInv
    <3>2. ASSUME OnForming(settled.outcome) PROVE OnForming(settled.outcome)'
      <4>1. PICK k \in 0..Len(path), d \in O!Candle :
              /\ settled.outcome = O!ResolveSignal(Append(SubSeq(path, 1, k), d))
              /\ k < HeldBars
              /\ k = Len(path) => forming = d
              /\ k < Len(path) => path[k + 1].low <= d.low /\ path[k + 1].high >= d.high
        BY <3>2 DEF OnForming
      <4>2. k # Len(path)
        <5>1. d # O!NoCandle
          BY DEF O!Candle, O!NoCandle
        <5> QED  BY <3>1, <4>1, <5>1
      <4> QED  BY <3>1, <4>1, <4>2 DEF OnForming
    <3>3. OnCompleted(settled.outcome) => OnCompleted(settled.outcome)'
      BY <3>1 DEF OnCompleted
    <3> QED  BY <1>2, <3>1, <3>2, <3>3 DEF OutcomeInv
  <2>2. ASSUME NEW c \in O!Candle, O!Completes(c) PROVE OutcomeInv'
    <3>1. /\ path' = Append(path, c) /\ settled' = settled /\ forming' = O!NoCandle
          /\ forming # O!NoCandle /\ c.low <= forming.low /\ c.high >= forming.high
          /\ Len(path) < HeldBars /\ path \in Seq(O!Candle) /\ forming \in O!Candle
      BY <1>2, <2>2 DEF O!Completes, OutcomeInv
    <3>2. /\ path' \in Seq(O!Candle) /\ Len(path') = Len(path) + 1 /\ Len(path) \in Nat
          /\ path'[Len(path) + 1] = c /\ \A i \in 1..Len(path) : path'[i] = path[i]
      BY <3>1
    <3>3. \A k \in 0..Len(path) : SubSeq(path', 1, k) = SubSeq(path, 1, k)
      BY <3>1, PrefixOfAppend
    <3>4. ASSUME OnForming(settled.outcome) PROVE OnForming(settled.outcome)'
      <4>1. PICK k \in 0..Len(path), d \in O!Candle :
              /\ settled.outcome = O!ResolveSignal(Append(SubSeq(path, 1, k), d))
              /\ k < HeldBars
              /\ k = Len(path) => forming = d
              /\ k < Len(path) => path[k + 1].low <= d.low /\ path[k + 1].high >= d.high
        BY <3>4 DEF OnForming
      <4>2. k \in 0..Len(path') /\ k # Len(path') /\ SubSeq(path', 1, k) = SubSeq(path, 1, k)
        BY <3>2, <3>3
      <4>3. path'[k + 1].low <= d.low /\ path'[k + 1].high >= d.high
        <5>1. CASE k = Len(path)
          BY <3>1, <3>2, <4>1, <5>1
        <5>2. CASE k # Len(path)
          <6>1. k + 1 \in 1..Len(path) /\ k < Len(path)
            BY <3>2, <5>2
          <6> QED  BY <3>2, <4>1, <6>1
        <5> QED  BY <5>1, <5>2
      <4> QED  BY <3>1, <4>1, <4>2, <4>3 DEF OnForming
    <3>5. ASSUME OnCompleted(settled.outcome) PROVE OnCompleted(settled.outcome)'
      <4>1. PICK k \in 0..Len(path) : settled.outcome = O!ResolveSignal(SubSeq(path, 1, k))
        BY <3>5 DEF OnCompleted
      <4>2. k \in 0..Len(path') /\ SubSeq(path', 1, k) = SubSeq(path, 1, k)
        BY <3>2, <3>3
      <4> QED  BY <3>1, <4>1, <4>2 DEF OnCompleted
    <3>6. Len(path') <= HeldBars
      BY <3>1, <3>2, OutcomeAssumption
    <3> QED  BY <1>2, <3>1, <3>2, <3>4, <3>5, <3>6 DEF OutcomeInv
  <2>3. CASE O!Settle
    <3>1. path' = path /\ forming' = forming
      BY <2>3 DEF O!Settle
    <3>2. \/ settled' = settled
          \/ settled' = [live |-> FALSE, outcome |-> O!ResolveSignal(path)]
      BY <2>3 DEF O!Settle, O!Record
    <3>3. CASE settled' = settled
      BY <1>2, <3>1, <3>3 DEF OutcomeInv, OnForming, OnCompleted
    <3>4. CASE settled' = [live |-> FALSE, outcome |-> O!ResolveSignal(path)]
      <4>1. path \in Seq(O!Candle)
        BY <1>2 DEF OutcomeInv
      <4>2. SubSeq(path, 1, Len(path)) = path /\ Len(path) \in 0..Len(path)
        BY <4>1, WholePrefix
      <4>3. ~settled'.live /\ settled'.outcome = O!ResolveSignal(path)
        BY <3>4
      <4>4. OnCompleted(settled.outcome)'
        BY <3>1, <4>2, <4>3 DEF OnCompleted
      <4> QED  BY <1>2, <3>1, <4>3, <4>4 DEF OutcomeInv
    <3> QED  BY <3>2, <3>3, <3>4
  <2>4. CASE O!ResolveSelection
    <3>1. path' = path /\ forming' = forming /\ forming # O!NoCandle
      BY <2>4 DEF O!ResolveSelection
    <3>2. \/ settled' = settled
          \/ /\ settled' = [live |-> TRUE, outcome |-> O!ResolveSignal(Append(path, forming))]
             /\ O!ResolveSignal(Append(path, forming)).status # "open"
      BY <2>4 DEF O!ResolveSelection, O!Record
    <3>3. CASE settled' = settled
      BY <1>2, <3>1, <3>3 DEF OutcomeInv, OnForming, OnCompleted
    <3>4. CASE /\ settled' = [live |-> TRUE, outcome |-> O!ResolveSignal(Append(path, forming))]
               /\ O!ResolveSignal(Append(path, forming)).status # "open"
      <4>1. path \in Seq(O!Candle) /\ forming \in O!Candle /\ Len(path) < HeldBars
        BY <1>2, <3>1 DEF OutcomeInv
      <4>2. SubSeq(path, 1, Len(path)) = path /\ Len(path) \in 0..Len(path) /\ ~(Len(path) < Len(path))
        BY <4>1, WholePrefix
      <4>3. /\ settled'.live /\ settled'.outcome = O!ResolveSignal(Append(path, forming))
            /\ settled'.outcome.status # "open"
        BY <3>4
      <4>4. OnForming(settled.outcome)'
        BY <3>1, <4>1, <4>2, <4>3 DEF OnForming
      <4> QED  BY <1>2, <3>1, <4>3, <4>4 DEF OutcomeInv
    <3> QED  BY <3>2, <3>3, <3>4
  <2> QED  BY <1>2, <2>1, <2>2, <2>3, <2>4 DEF OutcomesPart, O!Next
<1>3. ASSUME OutcomeInv, UNCHANGED outcomeVars PROVE OutcomeInv'
  BY <1>3 DEF OutcomeInv, outcomeVars, OnForming, OnCompleted
<1>4. OutcomeInv /\ [AlgorithmsNext]_<<part, tradingVars, researchVars>> => OutcomeInv'
  <2>1. ASSUME AlgorithmsNext PROVE OutcomesPart \/ UNCHANGED outcomeVars
    BY <2>1 DEF AlgorithmsNext, LifecyclePart, StructurePart, RulesPart, BacktestsPart,
         FramesPart, ScreenPart, RegistryPart, ExpansionPart, StudyPart, EpochsPart, FeaturesPart,
         tradingVars
  <2> QED  BY <1>2, <1>3, <2>1 DEF tradingVars
<1> QED  BY <1>1, <1>4, PTL DEF AlgorithmsSpec

\* However long a trade is held, at whatever reward and on whatever candles, the programs
\* that judge it agree where the code says they do.
THEOREM OutcomesStayAlike == AlgorithmsSpec => []OutcomesAgree
<1>1. OutcomeInv => OutcomesAgree
  BY WhenHolds, SeenHolds, BacktestHolds, LabelsHold, StrictHolds, HorizonsHold DEF OutcomesAgree
<1> QED  BY <1>1, OutcomeInvHolds, PTL

-----------------------------------------------------------------------------
(* The swings of a market                                                  *)

\* Every behaviour completes candles of the market, one at a time.
MarketInv == candles \in Seq(StructureCandles)

\* A step of any part leaves the market as it is or adds a candle to it.
LEMMA MarketGrows ==
    ASSUME MarketInv, AlgorithmsNext
    PROVE  UNCHANGED candles \/ \E c \in StructureCandles : candles' = Append(candles, c)
<1>1. CASE StructurePart
  BY <1>1 DEF StructurePart, M!Next, M!NewCandle
<1>2. CASE UNCHANGED candles
  BY <1>2
<1> QED
  BY <1>1, <1>2 DEF AlgorithmsNext, LifecyclePart, OutcomesPart, RulesPart, BacktestsPart,
       FramesPart, ScreenPart, RegistryPart, ExpansionPart, StudyPart, EpochsPart, FeaturesPart,
       tradingVars

\* The market is a sequence of its candles.
LEMMA MarketInvHolds == AlgorithmsSpec => []MarketInv
<1>1. AlgorithmsInit => MarketInv
  BY StructureAssumption DEF AlgorithmsInit, M!Init, MarketInv
<1>2. MarketInv /\ [AlgorithmsNext]_<<part, tradingVars, researchVars>> => MarketInv'
  <2>1. ASSUME MarketInv, AlgorithmsNext PROVE MarketInv'
    BY <2>1, MarketGrows DEF MarketInv
  <2>2. ASSUME MarketInv, UNCHANGED <<part, tradingVars, researchVars>> PROVE MarketInv'
    BY <2>2 DEF MarketInv, tradingVars
  <2> QED  BY <2>1, <2>2
<1> QED  BY <1>1, <1>2, PTL DEF AlgorithmsSpec

\* A further value takes no peak away, and confirms none but the one Strength before it.
LEMMA PeaksStand ==
    ASSUME NEW n \in Nat, NEW v, NEW w,
           DOMAIN v = 1..n, DOMAIN w = 1..n + 1, Len(v) = n, Len(w) = n + 1,
           \A i \in 1..n : w[i] = v[i]
    PROVE  /\ M!Peaks(v) \subseteq M!Peaks(w)
           /\ \A i \in M!Peaks(w) \ M!Peaks(v) : i = n + 1 - Strength
<1> USE StructureAssumption
<1>1. ASSUME NEW i \in M!Peaks(v) PROVE i \in M!Peaks(w)
  <2>1. i \in 1 + Strength..n + 1 - Strength /\ \A j \in i - Strength..i + Strength : j \in 1..n
    BY <1>1 DEF M!Peaks
  <2>2. i \in 1..n
    BY <1>1 DEF M!Peaks
  <2>3. \A j \in i - Strength..i + Strength : j # i => w[i] > w[j]
    BY <1>1, <2>1, <2>2 DEF M!Peaks
  <2> QED  BY <2>1, <2>3 DEF M!Peaks
<1>2. ASSUME NEW i \in M!Peaks(w), i \notin M!Peaks(v) PROVE i = n + 1 - Strength
  <2>1. i \in 1 + Strength..n + 1 - Strength
    BY DEF M!Peaks
  <2>2. SUFFICES ASSUME i <= n - Strength PROVE FALSE
    BY <2>1
  <2>3. i \in 1..n /\ \A j \in i - Strength..i + Strength : j \in 1..n
    BY <2>1, <2>2
  <2>4. \A j \in i - Strength..i + Strength : j # i => v[i] > v[j]
    BY <2>3 DEF M!Peaks
  <2> QED  BY <1>2, <2>1, <2>2, <2>4 DEF M!Peaks
<1> QED  BY <1>1, <1>2

\* A further candle takes no swing away and confirms at most one.
LEMMA SwingsStandStep ==
    ASSUME MarketInv, NEW c \in StructureCandles, candles' = Append(candles, c)
    PROVE  /\ M!SwingHighs(candles) \subseteq M!SwingHighs(candles')
           /\ M!SwingLows(candles) \subseteq M!SwingLows(candles')
           /\ \A i \in M!SwingHighs(candles') \ M!SwingHighs(candles) : i = Len(candles') - Strength
<1> DEFINE n == Len(candles)
           m == Len(candles')
           highs(s) == [i \in 1..Len(s) |-> s[i].high]
           lows(s) == [i \in 1..Len(s) |-> -s[i].low]
<1>1. n \in Nat /\ m = n + 1 /\ \A i \in 1..n : candles'[i] = candles[i]
  BY DEF MarketInv
<1>2. /\ DOMAIN highs(candles) = 1..n /\ DOMAIN highs(candles') = 1..n + 1
      /\ DOMAIN lows(candles) = 1..n /\ DOMAIN lows(candles') = 1..n + 1
  BY <1>1
<1>3. /\ Len(highs(candles)) = n /\ Len(highs(candles')) = n + 1
      /\ Len(lows(candles)) = n /\ Len(lows(candles')) = n + 1
  BY <1>1, <1>2, LenProperties
<1>4. /\ \A i \in 1..n : highs(candles')[i] = highs(candles)[i]
      /\ \A i \in 1..n : lows(candles')[i] = lows(candles)[i]
  BY <1>1
<1>5. /\ M!SwingHighs(candles) = M!Peaks(highs(candles))
      /\ M!SwingHighs(candles') = M!Peaks(highs(candles'))
      /\ M!SwingLows(candles) = M!Peaks(lows(candles))
      /\ M!SwingLows(candles') = M!Peaks(lows(candles'))
  BY DEF M!SwingHighs, M!SwingLows
<1> HIDE DEF n, m, highs, lows
<1>6. /\ M!Peaks(highs(candles)) \subseteq M!Peaks(highs(candles'))
      /\ \A i \in M!Peaks(highs(candles')) \ M!Peaks(highs(candles)) : i = n + 1 - Strength
  BY <1>1, <1>2, <1>3, <1>4, PeaksStand
<1>7. M!Peaks(lows(candles)) \subseteq M!Peaks(lows(candles'))
  BY <1>1, <1>2, <1>3, <1>4, PeaksStand
<1>8. M!SwingLows(candles) \subseteq M!SwingLows(candles')
  BY <1>5, <1>7
<1>9. /\ M!SwingHighs(candles) \subseteq M!SwingHighs(candles')
      /\ \A i \in M!SwingHighs(candles') \ M!SwingHighs(candles) : i = n + 1 - Strength
  BY <1>5, <1>6
<1>10. \A i \in M!SwingHighs(candles') \ M!SwingHighs(candles) : i = m - Strength
  BY <1>1, <1>9, StructureAssumption
<1> QED  BY <1>8, <1>9, <1>10 DEF m

\* Another newest candle leaves the candles before it.
LEMMA BodyBefore ==
    ASSUME NEW s \in Seq(StructureCandles), s # <<>>, NEW c \in StructureCandles
    PROVE  M!Body(Append(SubSeq(s, 1, Len(s) - 1), c)) = M!Body(s)
<1> DEFINE b == SubSeq(s, 1, Len(s) - 1)
<1>1. b \in Seq(StructureCandles) /\ Len(b) = Len(s) - 1
  <2>1. Len(s) \in Nat /\ Len(s) # 0
    BY EmptySeq, LenProperties
  <2>2. \A i \in 1..Len(s) - 1 : s[i] \in StructureCandles
    BY <2>1, ElementOfSeq
  <2>3. b \in Seq(StructureCandles)
    BY <2>1, <2>2, SubSeqProperties
  <2>4. Len(b) = IF 1 <= Len(s) - 1 THEN Len(s) - 1 - 1 + 1 ELSE 0
    BY <2>1, SubSeqProperties
  <2>5. \A m \in Nat : m # 0 => (IF 1 <= m - 1 THEN m - 1 - 1 + 1 ELSE 0) = m - 1
    OBVIOUS
  <2>6. Len(b) = Len(s) - 1
    <3> HIDE DEF b
    <3> QED  BY <2>1, <2>4, <2>5
  <2> QED  BY <2>3, <2>6
<1> HIDE DEF b
<1>2. Append(b, c) \in Seq(StructureCandles) /\ Len(Append(b, c)) = Len(b) + 1
  BY <1>1
<1>3. SubSeq(Append(b, c), 1, Len(b)) = b
  BY <1>1, <1>2
<1> QED  BY <1>1, <1>2, <1>3 DEF M!Body, b

\* The candle being judged is no part of the structure.
LEMMA JudgedByThePastHolds == ASSUME MarketInv PROVE M!JudgedByThePast
<1>1. SUFFICES ASSUME candles # <<>>, M!RecentStructure(candles).seen, NEW c \in StructureCandles
               PROVE  LET x == M!RecentStructure(candles)
                          y == M!RecentStructure(Append(SubSeq(candles, 1, Len(candles) - 1), c))
                      IN  y.support = x.support /\ y.resistance = x.resistance /\ y.side = x.side
  BY DEF M!JudgedByThePast
<1> DEFINE other == Append(SubSeq(candles, 1, Len(candles) - 1), c)
<1>2. M!Body(other) = M!Body(candles)
  BY <1>1, BodyBefore DEF MarketInv
<1> HIDE DEF other
<1>3. LET x == M!RecentStructure(candles)
          y == M!RecentStructure(other)
      IN  y.support = x.support /\ y.resistance = x.resistance /\ y.side = x.side
  BY <1>2 DEF M!RecentStructure, M!NoStructure
<1> QED  BY <1>3 DEF other

\* A confirmed swing stands, and the candle being judged is no part of the structure it
\* is judged by (quant-engine.js), for any market and any strength of a swing.
THEOREM SwingsStay == AlgorithmsSpec => StructureStands
<1>1. MarketInv => (part = "structure" => M!JudgedByThePast)
  BY JudgedByThePastHolds
<1>2. MarketInv /\ [AlgorithmsNext]_<<part, tradingVars, researchVars>> =>
        [/\ M!SwingHighs(candles) \subseteq M!SwingHighs(candles')
         /\ M!SwingLows(candles) \subseteq M!SwingLows(candles')
         /\ \A i \in M!SwingHighs(candles') \ M!SwingHighs(candles) :
              i = Len(candles') - Strength]_candles
  <2>1. ASSUME MarketInv, AlgorithmsNext, ~UNCHANGED candles
        PROVE  /\ M!SwingHighs(candles) \subseteq M!SwingHighs(candles')
               /\ M!SwingLows(candles) \subseteq M!SwingLows(candles')
               /\ \A i \in M!SwingHighs(candles') \ M!SwingHighs(candles) :
                    i = Len(candles') - Strength
    BY <2>1, MarketGrows, SwingsStandStep
  <2>2. UNCHANGED <<part, tradingVars, researchVars>> => UNCHANGED candles
    BY DEF tradingVars
  <2> QED  BY <2>1, <2>2
<1> QED  BY <1>1, <1>2, MarketInvHolds, PTL DEF AlgorithmsSpec, StructureStands, M!SwingsStand

-----------------------------------------------------------------------------
(* The walk forward test                                                   *)

TestsTyped ==
    /\ trainEnd \in Nat /\ index \in Nat /\ seen \in Nat /\ chosen \in BOOLEAN
    /\ phase \in {"train", "validate", "test", "over"}
    /\ trades \in SUBSET [signal : Nat, exit : Nat]
    /\ unseen \in SUBSET [fold : Nat, seen : Nat, signal : Nat, exit : Nat]

\* A simulation is past the trades it holds, and they are within its range.
TradesBehind ==
    /\ \A t \in trades : t.signal < t.exit /\ t.exit < index /\ t.exit <= B!End
    /\ phase = "test" => index >= B!validationEnd /\ \A t \in trades : t.signal >= B!validationEnd
    /\ trades = {} \/ \E t \in trades : \A u \in trades : u.exit <= t.exit

\* The selection has read no candle past the range of its last simulation.
SeenSoFar ==
    CASE phase = "validate" -> seen <= trainEnd
      [] phase = "test" -> seen <= B!validationEnd
      [] OTHER -> seen = 0

\* The folds reported lie before this one, and end at this one's validation.
FoldsBehind == \A t \in unseen : t.fold + Block <= trainEnd /\ t.exit <= B!validationEnd

WalkInv ==
    /\ TestsTyped /\ TradesBehind /\ SeenSoFar /\ FoldsBehind
    /\ B!OneTradeAtATime /\ B!UnseenIsUnseen

\* The last candle a simulation reads is in its range and in the market.
LEMMA EndInRange ==
    ASSUME TestsTyped
    PROVE  /\ B!validationEnd \in Nat /\ B!testEnd \in Nat /\ B!Range.end \in Nat /\ B!End \in Int
           /\ B!validationEnd = trainEnd + Block /\ B!testEnd = trainEnd + Block + Block
           /\ B!End <= B!Range.end /\ B!End < Length
           /\ B!Range.end = CASE phase = "train" -> trainEnd
                              [] phase = "validate" -> B!validationEnd
                              [] OTHER -> B!testEnd
BY BacktestAssumption DEF TestsTyped, B!End, B!Range, B!validationEnd, B!testEnd

\* LastRead is the last exit: its CHOOSE has something to choose.
LEMMA LastReadIsLast ==
    ASSUME TestsTyped, TradesBehind
    PROVE  B!LastRead \in Nat /\ (B!LastRead = 0 \/ B!LastRead <= B!End)
<1>1. CASE trades = {}
  BY <1>1 DEF B!LastRead
<1>2. CASE trades # {}
  <2>1. PICK m \in trades : \A u \in trades : u.exit <= m.exit
    BY <1>2 DEF TradesBehind
  <2>2. \E e \in {t.exit : t \in trades} : \A t \in trades : t.exit <= e
    BY <2>1
  <2>3. B!LastRead \in {t.exit : t \in trades}
    BY <1>2, <2>2 DEF B!LastRead
  <2> QED  BY <2>3 DEF TestsTyped, TradesBehind
<1> QED  BY <1>1, <1>2

\* A trade comes after the ones held before it.
LEMMA TradeKeeps ==
    ASSUME WalkInv, NEW exit \in 1..Length, B!Trade(exit)
    PROVE  WalkInv'
<1> DEFINE new == [signal |-> index, exit |-> exit]
<1>1. /\ trades' = trades \cup {new} /\ index' = exit + 1
      /\ UNCHANGED <<trainEnd, phase, seen, unseen, chosen>>
  BY DEF B!Trade
<1>2. TestsTyped
  BY DEF WalkInv
<1>3. exit \in Nat /\ index < exit /\ exit <= B!End
  BY <1>2, EndInRange, BacktestAssumption DEF B!Trade, TestsTyped
<1>4. new \in [signal : Nat, exit : Nat]
  BY <1>2, <1>3 DEF TestsTyped
<1>5. TestsTyped'
  BY <1>1, <1>2, <1>3, <1>4 DEF TestsTyped
<1>6. B!validationEnd' = B!validationEnd /\ B!End' = B!End
  BY <1>1 DEF B!validationEnd, B!testEnd, B!End, B!Range
<1>7. \A t \in trades : /\ t.signal \in Nat /\ t.exit \in Nat
                        /\ t.signal < t.exit /\ t.exit < index /\ t.exit <= B!End
  BY <1>2 DEF WalkInv, TradesBehind, TestsTyped
<1>8. new.signal = index /\ new.exit = exit /\ index \in Nat
  BY <1>2 DEF TestsTyped
<1> HIDE DEF new
<1>9. TradesBehind'
  <2>1. \A t \in trades' : t.signal < t.exit /\ t.exit < index' /\ t.exit <= B!End'
    BY <1>1, <1>3, <1>6, <1>7, <1>8
  <2>2. phase' = "test" => index' >= B!validationEnd' /\ \A t \in trades' : t.signal >= B!validationEnd'
    BY <1>1, <1>2, <1>3, <1>6, <1>7, <1>8, EndInRange DEF WalkInv, TradesBehind
  <2>3. \A u \in trades' : u.exit <= new.exit
    BY <1>1, <1>3, <1>7, <1>8
  <2> QED  BY <1>1, <2>1, <2>2, <2>3 DEF TradesBehind
<1>10. B!OneTradeAtATime'
  <2>1. ASSUME NEW t \in trades', NEW u \in trades', t # u
        PROVE  t.exit < u.signal \/ u.exit < t.signal
    BY <1>1, <1>7, <1>8, <2>1 DEF WalkInv, B!OneTradeAtATime
  <2> QED  BY <2>1 DEF B!OneTradeAtATime
<1>11. SeenSoFar' /\ FoldsBehind' /\ B!UnseenIsUnseen'
  BY <1>1, <1>6 DEF WalkInv, SeenSoFar, FoldsBehind, B!UnseenIsUnseen
<1> QED  BY <1>5, <1>9, <1>10, <1>11 DEF WalkInv

\* Train and validate: what has been read lies in their ranges.
LEMMA RangeEndKeeps ==
    ASSUME WalkInv, B!EndsRange
    PROVE  WalkInv'
<1>1. /\ phase \in {"train", "validate"} /\ trades' = {} /\ UNCHANGED <<trainEnd, unseen>>
      /\ phase' = IF phase = "train" THEN "validate" ELSE "test"
      /\ seen' = IF B!LastRead > seen THEN B!LastRead ELSE seen
      /\ index' = IF phase = "train" THEN trainEnd ELSE B!validationEnd
      /\ chosen' \in BOOLEAN
  BY DEF B!EndsRange
<1>2. TestsTyped /\ TradesBehind /\ SeenSoFar /\ FoldsBehind
  BY DEF WalkInv
<1>3. B!LastRead \in Nat /\ (B!LastRead = 0 \/ B!LastRead <= B!End)
  BY <1>2, LastReadIsLast
<1>4. /\ B!validationEnd \in Nat /\ B!End \in Int /\ B!End <= B!Range.end
      /\ phase = "train" => B!Range.end = trainEnd
      /\ phase = "validate" => B!Range.end = B!validationEnd
      /\ B!validationEnd = trainEnd + Block /\ B!validationEnd' = B!validationEnd
  BY <1>1, <1>2, EndInRange DEF B!validationEnd
<1>5. TestsTyped'
  BY <1>1, <1>2, <1>3, <1>4 DEF TestsTyped
<1>6. TradesBehind'
  BY <1>1, <1>4 DEF TradesBehind
<1>7. SeenSoFar'
  <2>1. CASE phase = "train"
    <3>1. B!LastRead <= trainEnd /\ seen = 0
      BY <1>2, <1>3, <1>4, <2>1 DEF SeenSoFar, TestsTyped
    <3>2. seen' <= trainEnd
      BY <1>1, <1>2, <3>1 DEF TestsTyped
    <3> QED  BY <1>1, <2>1, <3>2 DEF SeenSoFar
  <2>2. CASE phase = "validate"
    <3>1. B!LastRead <= B!validationEnd /\ seen <= B!validationEnd
      BY <1>2, <1>3, <1>4, <2>2, BacktestAssumption DEF SeenSoFar, TestsTyped
    <3>2. seen' <= B!validationEnd
      BY <1>1, <3>1
    <3> QED  BY <1>1, <1>4, <2>2, <3>2 DEF SeenSoFar
  <2> QED  BY <1>1, <2>1, <2>2
<1>8. FoldsBehind' /\ B!UnseenIsUnseen' /\ B!OneTradeAtATime'
  BY <1>1, <1>4 DEF WalkInv, FoldsBehind, B!UnseenIsUnseen, B!OneTradeAtATime
<1> QED  BY <1>5, <1>6, <1>7, <1>8 DEF WalkInv

\* A fold's trades were unseen, and the next fold's test begins where this one ends.
LEMMA FoldEndKeeps ==
    ASSUME WalkInv, B!EndsFold
    PROVE  WalkInv'
<1> DEFINE row(t) == [fold |-> trainEnd, seen |-> seen, signal |-> t.signal, exit |-> t.exit]
           added == {row(t) : t \in IF chosen THEN trades ELSE {}}
<1>1. /\ phase = "test" /\ trades' = {} /\ seen' = 0 /\ chosen' = FALSE /\ index' = Warmup
      /\ trainEnd' = trainEnd + Block /\ phase' \in {"train", "over"}
      /\ unseen' = unseen \cup added
  BY DEF B!EndsFold
<1>2. TestsTyped /\ TradesBehind /\ SeenSoFar /\ FoldsBehind /\ B!UnseenIsUnseen
  BY DEF WalkInv
<1>3. /\ B!validationEnd \in Nat /\ B!End \in Int /\ B!End <= B!testEnd /\ B!End < Length
      /\ B!validationEnd = trainEnd + Block /\ B!testEnd = trainEnd + Block + Block
      /\ trainEnd \in Nat /\ seen \in Nat /\ Block \in Nat
  BY <1>1, <1>2, EndInRange, BacktestAssumption DEF TestsTyped
<1>4. B!validationEnd' = trainEnd + Block + Block
  BY <1>1 DEF B!validationEnd
<1>5. \A r \in added : /\ r \in [fold : Nat, seen : Nat, signal : Nat, exit : Nat]
                       /\ r.fold = trainEnd /\ r.seen <= B!validationEnd
                       /\ r.signal >= B!validationEnd
                       /\ r.exit <= B!testEnd /\ r.exit < Length
  <2>1. ASSUME NEW t \in trades
        PROVE  /\ row(t) \in [fold : Nat, seen : Nat, signal : Nat, exit : Nat]
               /\ row(t).fold = trainEnd /\ row(t).seen <= B!validationEnd
               /\ row(t).signal >= B!validationEnd
               /\ row(t).exit <= B!testEnd /\ row(t).exit < Length
    <3>1. t.signal \in Nat /\ t.exit \in Nat /\ t.exit <= B!End /\ t.signal >= B!validationEnd
      BY <1>1, <1>2 DEF TestsTyped, TradesBehind
    <3>2. seen <= B!validationEnd
      BY <1>1, <1>2 DEF SeenSoFar
    <3> QED  BY <1>3, <3>1, <3>2, BacktestAssumption
  <2> QED  BY <2>1
<1>6. \A r \in unseen : /\ r \in [fold : Nat, seen : Nat, signal : Nat, exit : Nat]
                        /\ r.fold + Block <= trainEnd /\ r.exit <= B!validationEnd
  BY <1>2 DEF TestsTyped, FoldsBehind
<1> HIDE DEF added
<1>7. TestsTyped'
  <2>1. unseen' \in SUBSET [fold : Nat, seen : Nat, signal : Nat, exit : Nat]
    BY <1>1, <1>5, <1>6
  <2> QED  BY <1>1, <1>3, <2>1, BacktestAssumption DEF TestsTyped
<1>8. TradesBehind' /\ SeenSoFar' /\ B!OneTradeAtATime'
  BY <1>1 DEF TradesBehind, SeenSoFar, B!OneTradeAtATime
<1>9. FoldsBehind'
  <2>1. ASSUME NEW r \in unseen' PROVE r.fold + Block <= trainEnd' /\ r.exit <= B!validationEnd'
    <3>1. r.fold \in Nat /\ r.exit \in Nat
      BY <1>1, <1>5, <1>6
    <3>2. r.fold <= trainEnd /\ r.exit <= trainEnd + Block + Block
      BY <1>1, <1>3, <1>5, <1>6, <3>1
    <3> QED  BY <1>1, <1>3, <1>4, <3>1, <3>2
  <2> QED  BY <2>1 DEF FoldsBehind
<1>10. B!UnseenIsUnseen'
  <2>1. ASSUME NEW t \in unseen' PROVE t.signal + 1 > t.seen /\ t.exit < Length
    <3>1. CASE t \in unseen
      BY <1>2, <3>1 DEF B!UnseenIsUnseen
    <3>2. CASE t \in added
      BY <1>3, <1>5, <3>2
    <3> QED  BY <1>1, <3>1, <3>2
  <2>2. ASSUME NEW t \in unseen', NEW u \in unseen', u.fold < t.fold PROVE u.exit <= t.signal
    <3>1. CASE t \in unseen /\ u \in unseen
      BY <1>2, <2>2, <3>1 DEF B!UnseenIsUnseen
    <3>2. CASE u \in added
      BY <1>1, <1>3, <1>5, <1>6, <2>2, <3>2
    <3>3. CASE t \in added /\ u \in unseen
      BY <1>3, <1>5, <1>6, <3>3
    <3> QED  BY <1>1, <3>1, <3>2, <3>3
  <2> QED  BY <2>1, <2>2 DEF B!UnseenIsUnseen
<1> QED  BY <1>7, <1>8, <1>9, <1>10 DEF WalkInv

\* Every step of the walk forward test keeps what was chosen behind what is tested.
LEMMA WalkInvHolds == AlgorithmsSpec => []WalkInv
<1>1. AlgorithmsInit => WalkInv
  <2>1. AlgorithmsInit => B!Init
    BY DEF AlgorithmsInit
  <2>2. ASSUME B!Init PROVE TestsTyped
    BY <2>2, BacktestAssumption DEF B!Init, TestsTyped
  <2>3. ASSUME B!Init PROVE TradesBehind /\ SeenSoFar /\ B!OneTradeAtATime
    BY <2>3 DEF B!Init, TradesBehind, SeenSoFar, B!OneTradeAtATime
  <2>4. ASSUME B!Init PROVE FoldsBehind /\ B!UnseenIsUnseen
    BY <2>4 DEF B!Init, FoldsBehind, B!UnseenIsUnseen
  <2> QED  BY <2>1, <2>2, <2>3, <2>4 DEF WalkInv
<1>2. ASSUME WalkInv, UNCHANGED testVars PROVE WalkInv'
  BY <1>2 DEF testVars, WalkInv, TestsTyped, TradesBehind, SeenSoFar, FoldsBehind,
     B!OneTradeAtATime, B!UnseenIsUnseen, B!End, B!Range, B!validationEnd, B!testEnd
<1>3. ASSUME WalkInv, B!NoSignal PROVE WalkInv'
  <2>1. index' = index + 1 /\ UNCHANGED <<trainEnd, phase, trades, seen, unseen, chosen>>
    BY <1>3 DEF B!NoSignal
  <2>2. TestsTyped /\ TestsTyped'
    BY <1>3, <2>1 DEF WalkInv, TestsTyped
  <2>3. B!validationEnd' = B!validationEnd /\ B!End' = B!End
    BY <2>1 DEF B!validationEnd, B!testEnd, B!End, B!Range
  <2>4. \A t \in trades : t.exit \in Nat /\ t.exit < index
    BY <1>3, <2>2 DEF WalkInv, TestsTyped, TradesBehind
  <2>5. \A t \in trades : t.exit < index + 1
    BY <2>2, <2>4 DEF TestsTyped
  <2>6. phase = "test" => index + 1 >= B!validationEnd
    BY <1>3, <2>2, EndInRange DEF WalkInv, TestsTyped, TradesBehind
  <2>7. TradesBehind'
    BY <1>3, <2>1, <2>3, <2>5, <2>6 DEF WalkInv, TradesBehind
  <2> QED  BY <1>3, <2>1, <2>2, <2>3, <2>7
           DEF WalkInv, SeenSoFar, FoldsBehind, B!OneTradeAtATime, B!UnseenIsUnseen
<1>4. ASSUME WalkInv, BacktestsPart PROVE WalkInv'
  BY <1>3, <1>4, TradeKeeps, RangeEndKeeps, FoldEndKeeps DEF BacktestsPart, B!Next
<1>5. ASSUME AlgorithmsNext, ~BacktestsPart PROVE UNCHANGED testVars
  BY <1>5 DEF AlgorithmsNext, LifecyclePart, OutcomesPart, StructurePart, RulesPart, FramesPart,
     ScreenPart, RegistryPart, ExpansionPart, StudyPart, EpochsPart, FeaturesPart,
     tradingVars, testVars
<1>6. WalkInv /\ [AlgorithmsNext]_<<part, tradingVars, researchVars>> => WalkInv'
  BY <1>2, <1>4, <1>5 DEF tradingVars
<1> QED  BY <1>1, <1>6, PTL DEF AlgorithmsSpec

\* A simulation holds one trade at a time, and what the walk forward test reports as
\* unseen lies after every candle its selection has read, and in no other fold's test
\* (quant-engine.js), for any market, any warm-up and any size of the folds.
THEOREM UnseenStaysUnseen == AlgorithmsSpec => []WalkForwardIsFair
<1>1. WalkInv => WalkForwardIsFair
  BY DEF WalkInv, WalkForwardIsFair
<1> QED  BY <1>1, WalkInvHolds, PTL

-----------------------------------------------------------------------------
(* The decision of the rules                                               *)

\* What a strategy, or the fallback, lists.
Strategies == {"TREND CONTINUATION", "BREAKOUT + RETEST", "MOMENTUM CONTINUATION", "MEAN REVERSION",
               "LIQUIDITY-SWEEP REVERSAL"}
Listing == [order : Int, strategy : Strategies, direction : {"long", "short"}, score : Int,
            invalidation : Int]

\* A choice by score and then by order finds its best.
LEMMA FirstExists ==
    ASSUME NEW C, IsFiniteSet(C), C \subseteq Listing, C # {}
    PROVE  Q!First(C) \in C
<1> DEFINE Best(s, c) == \A d \in s : d.score < c.score \/ (d.score = c.score /\ d.order >= c.order)
           T == {s \in SUBSET C : s # {} => \E c \in s : Best(s, c)}
<1>1. ASSUME NEW s \in SUBSET C, \A x \in s : s \ {x} \in T PROVE s \in T
  <2>1. SUFFICES ASSUME NEW x \in s PROVE \E c \in s : Best(s, c)
    OBVIOUS
  <2>2. \A c \in C : c.score \in Int /\ c.order \in Int
    BY DEF Listing
  <2>3. CASE s \ {x} = {}
    BY <2>2, <2>3
  <2>4. CASE s \ {x} # {}
    <3>1. PICK c \in s \ {x} : Best(s \ {x}, c)
      BY <1>1, <2>4
    <3>2. Best(s, c) \/ Best(s, x)
      BY <2>2, <3>1
    <3> QED  BY <3>1, <3>2
  <2> QED  BY <2>3, <2>4
<1> HIDE DEF T
<1>2. SUBSET C \subseteq T
  BY <1>1, SubsetInduction
<1>3. C \in T
  BY <1>2
<1>4. \E c \in C : Best(C, c)
  BY <1>3 DEF T
<1> QED  BY <1>4 DEF Q!First

\* A strategy of a side lists at most one candidate.
LEMMA CandidatesOfASide ==
    ASSUME NEW in, Evaluated(in), NEW side \in {"long", "short"}
    PROVE  /\ IsFiniteSet(Q!Candidates(in.frame, side))
           /\ Q!Candidates(in.frame, side) \subseteq Listing
           /\ \A c \in Q!Candidates(in.frame, side) : c.direction = side
           /\ \A c, d \in Q!Candidates(in.frame, side) : c.strategy = d.strategy => c = d
<1> DEFINE f == in.frame
           rank == IF side = "long" THEN 1 ELSE 2
           Offered(holds, order, strategy, score, invalidation) ==
               IF holds THEN {[order |-> 2 * order + rank, strategy |-> strategy, direction |-> side,
                               score |-> Q!Clamp(score, 0, 100), invalidation |-> invalidation]} ELSE {}
           C1 == Offered(Q!Continuation(f, side), 1, "TREND CONTINUATION",
                        68 + 3 * f.separation + Q!Smaller(10, f.volume \div 2),
                        IF side = "long" THEN Q!Smaller(f.support, f.ema50) ELSE Q!Larger(f.resistance, f.ema50))
           C2 == Offered(f.retest = side /\ f.volume >= 10, 2, "BREAKOUT + RETEST",
                        76 + Q!Smaller(10, ((f.volume - 10) * 15) \div 10),
                        Q!Toward(side, Q!Broken(f, side), -((35 * Atr) \div 100)))
           C3 == Offered(Q!Momentum(f, side), 3, "MOMENTUM CONTINUATION",
                        70 + Q!Smaller(12, (3 * f.roc) \div 2), f.ema20)
           C4 == Offered(Q!Reverts(f, side), 4, "MEAN REVERSION", 68 + Q!Absolute(50 - f.rsi) - 20,
                        Q!Toward(side, Q!Level(f, side), -((3 * Atr) \div 10)))
           C5 == Offered(f.sweep = side /\ side \in {f.choch, f.rejection}, 5,
                        "LIQUIDITY-SWEEP REVERSAL", 78, Q!Toward(side, Q!Level(f, side), -(Atr \div 4)))
<1>1. Q!Candidates(f, side) = C1 \cup C2 \cup C3 \cup C4 \cup C5
  BY DEF Q!Candidates
<1>2. /\ f.separation \in Int /\ f.volume \in Int /\ f.roc \in Int /\ f.rsi \in Int /\ f.ema20 \in Int
      /\ f.ema50 \in Int /\ f.support \in Int /\ f.resistance \in Int /\ Atr \in Int
  BY RulesAssumption DEF Evaluated
<1>3. \A a \in Int : Q!Clamp(a, 0, 100) \in Int
  BY DEF Q!Clamp, Q!Larger, Q!Smaller
<1>4. \A a, b \in Int : Q!Toward(side, a, b) \in Int /\ Q!Smaller(a, b) \in Int /\ Q!Larger(a, b) \in Int
  BY DEF Q!Toward, Q!Smaller, Q!Larger
<1>5. Q!Level(f, side) \in Int /\ Q!Broken(f, side) \in Int
  BY <1>2 DEF Q!Level, Q!Broken, Q!Opposite
<1>6. \A a \in Int : /\ Q!Absolute(a) \in Int /\ a \div 2 \in Int /\ a \div 4 \in Int
                     /\ a \div 10 \in Int /\ a \div 100 \in Int
  BY DEF Q!Absolute
<1> HIDE DEF f
<1> DEFINE At(k, s, x, i) == [order |-> 2 * k + rank, strategy |-> s, direction |-> side,
                              score |-> Q!Clamp(x, 0, 100), invalidation |-> i]
<1> DEFINE OneOf(W, s) == /\ IsFiniteSet(W) /\ W \subseteq Listing
                          /\ \A c \in W : c.strategy = s /\ c.direction = side
                          /\ \A c, d \in W : c = d
<1>7. ASSUME NEW c \in Listing, c.direction = side, NEW W, W \in {{}, {c}}
      PROVE  OneOf(W, c.strategy)
  BY <1>7, FS_EmptySet, FS_Singleton
<1> HIDE DEF OneOf
<1>8. OneOf(C1, "TREND CONTINUATION")
  <2>1. Q!Smaller(10, f.volume \div 2) \in Int
    BY <1>2, <1>6 DEF Q!Smaller
  <2>2. 68 + 3 * f.separation + Q!Smaller(10, f.volume \div 2) \in Int
    BY <1>2, <2>1
  <2>3. Q!Smaller(f.support, f.ema50) \in Int /\ Q!Larger(f.resistance, f.ema50) \in Int
    BY <1>2, <1>4
  <2>4. (IF side = "long" THEN Q!Smaller(f.support, f.ema50) ELSE Q!Larger(f.resistance, f.ema50)) \in Int
    BY <2>3, Zenon
  <2> DEFINE i1 == IF side = "long" THEN Q!Smaller(f.support, f.ema50) ELSE Q!Larger(f.resistance, f.ema50)
             x1 == 68 + 3 * f.separation + Q!Smaller(10, f.volume \div 2)
             c1 == At(1, "TREND CONTINUATION", x1, i1)
  <2>6. i1 \in Int /\ x1 \in Int
    BY <2>2, <2>4
  <2>5. C1 \in {{}, {c1}}
    BY Zenon
  <2> HIDE DEF C1, i1, x1
  <2>7. c1 \in Listing /\ c1.direction = side /\ c1.strategy = "TREND CONTINUATION"
    BY <1>3, <2>6 DEF Listing, Strategies
  <2> HIDE DEF c1
  <2> QED  BY <1>7, <2>5, <2>7
<1>9. OneOf(C2, "BREAKOUT + RETEST")
  <2>1. (f.volume - 10) * 15 \in Int /\ 35 * Atr \in Int
    BY <1>2
  <2>2. ((f.volume - 10) * 15) \div 10 \in Int /\ -((35 * Atr) \div 100) \in Int
    BY <1>6, <2>1
  <2>3. 76 + Q!Smaller(10, ((f.volume - 10) * 15) \div 10) \in Int
    BY <2>2 DEF Q!Smaller
  <2>4. Q!Toward(side, Q!Broken(f, side), -((35 * Atr) \div 100)) \in Int
    BY <1>5, <2>2 DEF Q!Toward
  <2> DEFINE i2 == Q!Toward(side, Q!Broken(f, side), -((35 * Atr) \div 100))
             x2 == 76 + Q!Smaller(10, ((f.volume - 10) * 15) \div 10)
             c2 == At(2, "BREAKOUT + RETEST", x2, i2)
  <2>6. i2 \in Int /\ x2 \in Int
    BY <2>3, <2>4
  <2>5. C2 \in {{}, {c2}}
    BY Zenon
  <2> HIDE DEF C2, i2, x2
  <2>7. c2 \in Listing /\ c2.direction = side /\ c2.strategy = "BREAKOUT + RETEST"
    BY <1>3, <2>6 DEF Listing, Strategies
  <2> HIDE DEF c2
  <2> QED  BY <1>7, <2>5, <2>7
<1>10. OneOf(C3, "MOMENTUM CONTINUATION")
  <2>2. (3 * f.roc) \div 2 \in Int
    BY <1>2, <1>6
  <2>1. 70 + Q!Smaller(12, (3 * f.roc) \div 2) \in Int
    BY <2>2 DEF Q!Smaller
  <2>3. f.ema20 \in Int
    BY <1>2
  <2> DEFINE i3 == f.ema20
             x3 == 70 + Q!Smaller(12, (3 * f.roc) \div 2)
             c3 == At(3, "MOMENTUM CONTINUATION", x3, i3)
  <2>6. i3 \in Int /\ x3 \in Int
    BY <2>1, <2>3
  <2>5. C3 \in {{}, {c3}}
    BY Zenon
  <2> HIDE DEF C3, i3, x3
  <2>7. c3 \in Listing /\ c3.direction = side /\ c3.strategy = "MOMENTUM CONTINUATION"
    BY <1>3, <2>6 DEF Listing, Strategies
  <2> HIDE DEF c3
  <2> QED  BY <1>7, <2>5, <2>7
<1>11. OneOf(C4, "MEAN REVERSION")
  <2>1. 68 + Q!Absolute(50 - f.rsi) - 20 \in Int
    BY <1>2, <1>6
  <2>2. -((3 * Atr) \div 10) \in Int
    BY <1>2, <1>6
  <2>3. Q!Toward(side, Q!Level(f, side), -((3 * Atr) \div 10)) \in Int
    BY <1>5, <2>2 DEF Q!Toward
  <2> DEFINE i4 == Q!Toward(side, Q!Level(f, side), -((3 * Atr) \div 10))
             x4 == 68 + Q!Absolute(50 - f.rsi) - 20
             c4 == At(4, "MEAN REVERSION", x4, i4)
  <2>6. i4 \in Int /\ x4 \in Int
    BY <2>1, <2>3
  <2>5. C4 \in {{}, {c4}}
    BY Zenon
  <2> HIDE DEF C4, i4, x4
  <2>7. c4 \in Listing /\ c4.direction = side /\ c4.strategy = "MEAN REVERSION"
    BY <1>3, <2>6 DEF Listing, Strategies
  <2> HIDE DEF c4
  <2> QED  BY <1>7, <2>5, <2>7
<1>12. OneOf(C5, "LIQUIDITY-SWEEP REVERSAL")
  <2>1. -(Atr \div 4) \in Int
    BY <1>2, <1>6
  <2>2. Q!Toward(side, Q!Level(f, side), -(Atr \div 4)) \in Int
    BY <1>5, <2>1 DEF Q!Toward
  <2> DEFINE i5 == Q!Toward(side, Q!Level(f, side), -(Atr \div 4))
             c5 == At(5, "LIQUIDITY-SWEEP REVERSAL", 78, i5)
  <2>6. i5 \in Int
    BY <2>2
  <2>5. C5 \in {{}, {c5}}
    BY Zenon
  <2> HIDE DEF C5, i5
  <2>7. c5 \in Listing /\ c5.direction = side /\ c5.strategy = "LIQUIDITY-SWEEP REVERSAL"
    BY <1>3, <2>6 DEF Listing, Strategies
  <2> HIDE DEF c5
  <2> QED  BY <1>7, <2>5, <2>7
<1> HIDE DEF C1, C2, C3, C4, C5
<1>13. IsFiniteSet(C1 \cup C2 \cup C3 \cup C4 \cup C5)
  BY <1>8, <1>9, <1>10, <1>11, <1>12, FS_Union DEF OneOf
<1>14. \A c \in C1 \cup C2 \cup C3 \cup C4 \cup C5 : c \in Listing /\ c.direction = side
  BY <1>8, <1>9, <1>10, <1>11, <1>12 DEF OneOf
<1>15. \A c, d \in C1 \cup C2 \cup C3 \cup C4 \cup C5 : c.strategy = d.strategy => c = d
  BY <1>8, <1>9, <1>10, <1>11, <1>12 DEF OneOf
<1> QED  BY <1>1, <1>13, <1>14, <1>15 DEF f

\* The strategies list finitely many candidates, one of a strategy and a side.
LEMMA CandidatesAreListed ==
    ASSUME NEW in, Evaluated(in)
    PROVE  /\ IsFiniteSet(Q!StrategyCandidates(in.frame)) /\ Q!StrategyCandidates(in.frame) \subseteq Listing
           /\ \A c, d \in Q!StrategyCandidates(in.frame) :
                 c.strategy = d.strategy /\ c.direction = d.direction => c = d
<1> DEFINE L == Q!Candidates(in.frame, "long")
           H == Q!Candidates(in.frame, "short")
<1>1. /\ IsFiniteSet(L) /\ L \subseteq Listing /\ \A c \in L : c.direction = "long"
      /\ \A c, d \in L : c.strategy = d.strategy => c = d
  BY CandidatesOfASide
<1>2. /\ IsFiniteSet(H) /\ H \subseteq Listing /\ \A c \in H : c.direction = "short"
      /\ \A c, d \in H : c.strategy = d.strategy => c = d
  BY CandidatesOfASide
<1>3. Q!StrategyCandidates(in.frame) = L \cup H
  BY DEF Q!StrategyCandidates
<1> HIDE DEF L, H
<1>4. IsFiniteSet(L \cup H)
  BY <1>1, <1>2, FS_Union
<1> QED  BY <1>1, <1>2, <1>3, <1>4

\* The fallback lists candidates like theirs.
LEMMA FallbackIsListed ==
    ASSUME NEW in, Evaluated(in)
    PROVE  IsFiniteSet(Q!Fallback(in)) /\ Q!Fallback(in) \subseteq Listing
<1> DEFINE side == IF in.bias.h1 # "neutral" THEN in.bias.h1 ELSE in.frame.side
           level == IF side = "long" THEN Q!Smaller(in.frame.support, in.frame.low)
                                     ELSE Q!Larger(in.frame.resistance, in.frame.high)
           named == IF in.frame.sweep = side THEN "LIQUIDITY-SWEEP REVERSAL"
                    ELSE IF in.frame.retest = side THEN "BREAKOUT + RETEST"
                    ELSE IF in.frame.range THEN "MEAN REVERSION" ELSE "TREND CONTINUATION"
           c == [order |-> 99, direction |-> side, score |-> in.opportunity, invalidation |-> level,
                 strategy |-> named]
<1>1. level \in Int /\ in.opportunity \in Int /\ named \in Strategies
  <2>1. /\ in.frame.support \in Int /\ in.frame.low \in Int /\ in.frame.resistance \in Int
        /\ in.frame.high \in Int /\ in.opportunity \in Int
    BY DEF Evaluated
  <2>2. named \in Strategies
    <3> HIDE DEF side
    <3> QED  BY Zenon DEF Strategies
  <2>3. Q!Smaller(in.frame.support, in.frame.low) \in Int /\ Q!Larger(in.frame.resistance, in.frame.high) \in Int
    BY <2>1 DEF Q!Smaller, Q!Larger
  <2>4. level \in Int
    <3> HIDE DEF side
    <3> QED  BY <2>3
  <2> QED  BY <2>1, <2>2, <2>4
<1>2. Q!Fallback(in) = {} \/ (side \in {"long", "short"} /\ Q!Fallback(in) = {c})
  BY DEF Q!Fallback
<1> HIDE DEF side, level, named
<1>3. side \in {"long", "short"} => c \in Listing
  BY <1>1 DEF Listing
<1> HIDE DEF c
<1> QED  BY <1>2, <1>3, FS_EmptySet, FS_Singleton

\* The best of either list is in it.
LEMMA BestIsListed ==
    ASSUME NEW in, Evaluated(in), NEW C, C # {},
           C \subseteq Q!StrategyCandidates(in.frame) \/ C \subseteq Q!Fallback(in)
    PROVE  Q!First(C) \in C /\ C \subseteq Listing
<1>1. IsFiniteSet(C) /\ C \subseteq Listing
  <2>1. CASE C \subseteq Q!StrategyCandidates(in.frame)
    BY <2>1, CandidatesAreListed, FS_Subset
  <2>2. CASE C \subseteq Q!Fallback(in)
    BY <2>2, FallbackIsListed, FS_Subset
  <2> QED  BY <2>1, <2>2
<1> QED  BY <1>1, FirstExists

\* A geometry has its stop on the losing side of its entry, and its targets in order on the
\* other, however its invalidation lies.
Sided(g) ==
    /\ g.direction \in {"long", "short"} /\ g.entry \in Nat /\ g.stop \in Int
    /\ Q!Beyond(g.direction, g.entry, g.stop)
    /\ Q!Beyond(g.direction, g.target1, 10 * g.entry)
    /\ Q!Beyond(g.direction, g.target2, g.target1)

\* The plan of a listed candidate has its stop and its targets on their sides.
LEMMA GeometryIsSided ==
    ASSUME NEW in, Evaluated(in), NEW c \in Listing
    PROVE  Sided(Q!Geometry(in, c))
<1> DEFINE g == Q!Geometry(in, c)
           side == c.direction
           planned == Q!Toward(side, c.invalidation, -((15 * Atr) \div 100))
           stop == Q!StopAt(in, c)
           distance == Q!Absolute(in.entry - stop)
<1>1. /\ in.entry \in Nat /\ Atr \in Int /\ Atr > 0
      /\ side \in {"long", "short"} /\ c.invalidation \in Int
  BY RulesAssumption DEF Evaluated, Listing
<1>2. /\ g.direction = side /\ g.entry = in.entry /\ g.stop = stop
      /\ g.target1 = Q!Toward(side, 10 * in.entry, 18 * distance)
      /\ g.target2 = Q!Toward(side, 10 * in.entry, 30 * distance)
  BY DEF Q!Geometry
<1>3. (5 * Atr) \div 4 \in Int /\ (5 * Atr) \div 4 > 0 /\ -((15 * Atr) \div 100) \in Int
  BY <1>1
<1>4. planned \in Int
  BY <1>1, <1>3 DEF Q!Toward
<1>5. stop = IF Q!Beyond(side, in.entry, planned) THEN planned ELSE Q!Toward(side, in.entry, -((5 * Atr) \div 4))
  BY DEF Q!StopAt
<1> HIDE DEF g, side, planned, stop
<1>6. stop \in Int /\ Q!Beyond(side, in.entry, stop)
  BY <1>1, <1>3, <1>4, <1>5 DEF Q!Toward, Q!Beyond
<1>7. distance \in Int /\ distance > 0
  BY <1>1, <1>6 DEF Q!Absolute, Q!Beyond
<1> HIDE DEF distance
<1>8. /\ Q!Beyond(side, Q!Toward(side, 10 * in.entry, 18 * distance), 10 * in.entry)
      /\ Q!Beyond(side, Q!Toward(side, 10 * in.entry, 30 * distance),
                        Q!Toward(side, 10 * in.entry, 18 * distance))
  BY <1>1, <1>7 DEF Q!Toward, Q!Beyond
<1>9. Sided(g)
  BY <1>1, <1>2, <1>6, <1>8 DEF Sided
<1> QED  BY <1>9 DEF g

\* Rounding a quotient down never gives more than the whole.
LEMMA Quotient ==
    ASSUME NEW a \in Nat, NEW d \in Nat, d > 0, NEW n \in Int, n <= a \div d
    PROVE  n * d <= a
<1>1. a \div d \in Int /\ (a \div d) * d <= a
  OBVIOUS
<1>2. n * d <= (a \div d) * d
  <2> DEFINE q == a \div d
  <2>1. q \in Int /\ n <= q
    BY <1>1
  <2> HIDE DEF q
  <2>2. n * d <= q * d
    <3>1. (q - n) * d >= 0
      BY <2>1
    <3>2. (q - n) * d = q * d - n * d
      BY <2>1
    <3>3. (q - n) * d \in Int /\ n * d \in Int /\ q * d \in Int
      BY <2>1
    <3> QED  BY <3>1, <3>2, <3>3
  <2> QED  BY <2>2 DEF q
<1>3. n * d \in Int /\ (a \div d) * d \in Int
  BY <1>1
<1> QED  BY <1>1, <1>2, <1>3

\* A plan the risk rules accept can be paid and lost.
LEMMA PlanIsAffordable ==
    ASSUME NEW in, Evaluated(in), NEW c \in Listing, Q!Geometry(in, c).plan.valid
    PROVE  Q!Affordable(Q!Geometry(in, c), in.balance)
<1> DEFINE g == Q!Geometry(in, c)
           p == [entry |-> in.entry, stop |-> Q!StopAt(in, c), direction |-> c.direction,
                 balance |-> in.balance, risk |-> 1, exposure |-> in.exposure,
                 maxLeverage |-> 10, minNotional |-> 10]
           q == [entry |-> g.entry, stop |-> g.stop, direction |-> g.direction]
           n == Q!Notional(p)
           fits == {l \in Q!Leverages : l <= 10 /\ n <= l * in.balance}
           leverage == CHOOSE l \in fits : \A k \in fits : l <= k
           distance == Q!Absolute(in.entry - g.stop)
<1>1. /\ g.plan = Q!RiskPlan(p) /\ g.plan.valid
      /\ g.entry = in.entry /\ g.stop = Q!StopAt(in, c) /\ g.direction = c.direction
  BY DEF Q!Geometry
<1>2. in.entry \in Nat /\ in.balance \in Nat /\ in.exposure \in Nat
  BY DEF Evaluated
<1>3. Sided(g)
  BY GeometryIsSided
<1> HIDE DEF g
<1>4. g.stop \in Int /\ in.entry # g.stop
  BY <1>1, <1>2, <1>3 DEF Sided, Q!Beyond
<1>5. distance \in Nat /\ distance > 0
  BY <1>2, <1>4 DEF Q!Absolute
<1>6. n \in Int /\ n <= (in.balance * 1 * 100 * in.entry) \div (10000 * distance + 16 * in.entry)
  <2> DEFINE sized == (in.balance * 1 * 100 * in.entry) \div (10000 * distance + 16 * in.entry)
             cap == in.balance * in.exposure
  <2>1. n = IF cap = 0 THEN sized ELSE Q!Smaller(sized, cap)
    BY <1>1 DEF Q!Notional
  <2>2. cap \in Int
    BY <1>2
  <2>3. sized \in Int
    <3> DEFINE a == in.balance * 1 * 100 * in.entry
               d == 10000 * distance + 16 * in.entry
    <3>1. a \in Int /\ d \in Nat /\ d > 0
      BY <1>2, <1>5
    <3> HIDE DEF a, d
    <3>2. a \div d \in Int
      BY <3>1
    <3> QED  BY <3>2 DEF a, d
  <2> HIDE DEF n, sized, cap
  <2>4. n \in Int /\ n <= sized
    BY <2>1, <2>2, <2>3 DEF Q!Smaller
  <2> QED  BY <2>4 DEF sized
<1> HIDE DEF n
<1>7. fits # {} /\ g.plan.notional = n /\ g.plan.leverage = leverage
      /\ (leverage > 1 => Q!StopIsFirst(p, leverage))
  <2> DEFINE near == {l \in Q!Leverages : l <= p.maxLeverage /\ n <= l * p.balance}
             least == CHOOSE l \in near : \A k \in near : l <= k
  <2>1. near = fits
    <3>1. p.maxLeverage = 10 /\ p.balance = in.balance
      OBVIOUS
    <3> HIDE DEF p
    <3> QED  BY <3>1
  <2>2. Q!RiskPlan(p) =
            IF p.entry = p.stop \/ n < p.minNotional \/ near = {} THEN Q!NoPlan
            ELSE IF least > 1 /\ ~(Q!StopIsFirst(p, least) /\ Q!Buffered(p, least)) THEN Q!NoPlan
            ELSE [valid |-> TRUE, notional |-> n, leverage |-> least]
    <3> HIDE DEF p
    <3> QED  BY Zenon DEF Q!RiskPlan, n
  <2>3. least = leverage
    BY <2>1
  <2> HIDE DEF p, near, least, fits, leverage
  <2>4. Q!NoPlan.valid = FALSE
    BY DEF Q!NoPlan
  <2>5. near # {} /\ (least > 1 => Q!StopIsFirst(p, least))
        /\ g.plan = [valid |-> TRUE, notional |-> n, leverage |-> least]
    BY <1>1, <2>2, <2>4, Zenon
  <2> QED  BY <2>1, <2>3, <2>5
<1>8. leverage \in fits
  <2>1. fits \subseteq {1, 2, 3, 5, 10}
    BY DEF Q!Leverages
  <2> HIDE DEF fits
  <2>2. \E l \in fits : \A k \in fits : l <= k
    <3>1. CASE 1 \in fits  BY <2>1, <3>1
    <3>2. CASE 1 \notin fits /\ 2 \in fits  BY <2>1, <3>2
    <3>3. CASE fits \subseteq {3, 5, 10} /\ 3 \in fits  BY <3>3
    <3>4. CASE fits \subseteq {5, 10} /\ 5 \in fits  BY <3>4
    <3>5. CASE fits = {10}  BY <3>5
    <3> QED  BY <1>7, <2>1, <3>1, <3>2, <3>3, <3>4, <3>5
  <2> QED  BY <2>2
<1>9. n <= leverage * in.balance
  BY <1>8
<1>10. n * (10000 * distance + 16 * in.entry) <= 100 * in.balance * in.entry
  <2> DEFINE a == in.balance * 1 * 100 * in.entry
             d == 10000 * distance + 16 * in.entry
  <2>1. a \in Nat /\ d \in Nat /\ d > 0 /\ a = 100 * in.balance * in.entry
    BY <1>2, <1>5
  <2>2. n <= a \div d
    BY <1>6
  <2> HIDE DEF a, d
  <2>3. n * d <= a
    BY <1>6, <2>1, <2>2, Quotient
  <2> QED  BY <2>1, <2>3 DEF d
<1>11. leverage > 1 => Q!StopIsFirst(q, leverage)
  <2>1. p.direction = q.direction /\ p.stop = q.stop /\ p.entry = q.entry
    BY <1>1
  <2> HIDE DEF p, q, leverage
  <2> QED  BY <1>7, <2>1 DEF Q!StopIsFirst
<1> HIDE DEF fits, leverage
<1>12. Q!Affordable(g, in.balance)
  BY <1>1, <1>7, <1>9, <1>10, <1>11 DEF Q!Affordable
<1> QED  BY <1>12 DEF g

\* What an evaluation reports: no geometry, or the geometry of a candidate, which a trade it
\* takes can afford.
Reported(in, v) ==
    \/ v.g = Q!NoGeometry /\ v.decision \in {"ANALYSIS UNAVAILABLE", "NO TRADE", "WAIT"}
    \/ /\ v.decision \in {"TAKE TRADE", "RANKED", "WAIT", "NO TRADE"}
       /\ Sided(v.g) /\ v.g.quality \in 0..100
       /\ v.decision = "TAKE TRADE" => v.g.plan.valid /\ Q!Affordable(v.g, in.balance)

\* The instance counts as the library does.
LEMMA RulesCount == \A T : Q!Cardinality(T) = Cardinality(T)
BY DEF Q!Cardinality, Cardinality

\* A verdict is the geometry and the decision it was made of.
LEMMA VerdictFields == \A g, decision : Q!Verdict(g, decision).g = g /\ Q!Verdict(g, decision).decision = decision
BY DEF Q!Verdict

\* The quality of a plan is between nothing and a hundred.
LEMMA QualityIsAPercentage ==
    ASSUME NEW in, Evaluated(in), NEW c \in Listing
    PROVE  Q!Geometry(in, c).quality \in 0..100
<1> DEFINE unclamped == c.score + 3 * Q!Aligned(in, c.direction) - 8 * Q!Opposed(in, c.direction)
                    - (IF in.frame.volume < 8 THEN 10 ELSE 0)
                    - (IF in.frame.expanded \/ in.frame.exhaustion = c.direction THEN 10 ELSE 0)
                    - (IF in.warned THEN 5 ELSE 0)
<1>1. \A T \in SUBSET (1..5) : Cardinality(T) \in Nat
  <2>1. ASSUME NEW n \in Nat PROVE IsFiniteSet(1..n)
    BY FS_Interval
  <2>2. IsFiniteSet(1..5)
    <3>1. 5 \in Nat
      OBVIOUS
    <3> QED  BY <2>1, <3>1, Zenon
  <2>3. ASSUME NEW T \in SUBSET (1..5) PROVE Cardinality(T) \in Nat
    <3>1. IsFiniteSet(T)
      BY <2>2, FS_Subset
    <3> QED  BY <3>1, FS_CardinalityType
  <2> QED  BY <2>3, Zenon
<1>2. Q!Aligned(in, c.direction) \in Int /\ Q!Opposed(in, c.direction) \in Int
  <2>1. ASSUME NEW side PROVE {i \in 1..5 : Q!Sides(in)[i] = side} \in SUBSET (1..5)
    OBVIOUS
  <2>2. ASSUME NEW side PROVE Cardinality({i \in 1..5 : Q!Sides(in)[i] = side}) \in Nat
    BY <1>1, <2>1, Zenon
  <2>3. Q!Aligned(in, c.direction) \in Nat /\ Q!Opposed(in, c.direction) \in Nat
    BY <2>2, RulesCount, Zenon DEF Q!Aligned, Q!Opposed
  <2> QED  BY <2>3
<1>3. c.score \in Int
  BY DEF Listing
<1>4. /\ (IF in.frame.volume < 8 THEN 10 ELSE 0) \in Int
      /\ (IF in.frame.expanded \/ in.frame.exhaustion = c.direction THEN 10 ELSE 0) \in Int
      /\ (IF in.warned THEN 5 ELSE 0) \in Int
  OBVIOUS
<1>5. unclamped \in Int
  BY <1>2, <1>3, <1>4
<1>6. Q!Geometry(in, c).quality = Q!Clamp(unclamped, 0, 100)
  BY DEF Q!Geometry, Q!Quality
<1> HIDE DEF unclamped
<1> QED  BY <1>5, <1>6 DEF Q!Clamp, Q!Larger, Q!Smaller

\* Ranking mode: the geometry of the candidate, taken where its plan is valid and its entry near.
LEMMA RankedIsReported ==
    ASSUME NEW in, Evaluated(in), NEW c \in Listing
    PROVE  LET v == Q!RankedVerdict(in, c) IN
           /\ v.g = Q!Geometry(in, c) /\ v.decision \in {"TAKE TRADE", "RANKED"} /\ Reported(in, v)
           /\ v = Q!Verdict(v.g, v.decision)
           /\ v.decision = "TAKE TRADE" => v.g.readiness \in {"IDEAL", "ACCEPTABLE"}
<1> DEFINE g == Q!Geometry(in, c)
           v == Q!RankedVerdict(in, c)
<1>1. Sided(g) /\ g.quality \in 0..100 /\ (g.plan.valid => Q!Affordable(g, in.balance))
  BY GeometryIsSided, PlanIsAffordable, QualityIsAPercentage
<1>2. g.readiness \in {"IDEAL", "ACCEPTABLE", "EXTENDED"}
  <2>1. g.readiness = Q!Readiness(in, c)
    BY DEF Q!Geometry
  <2> QED  BY <2>1, Zenon DEF Q!Readiness
<1>3. v = IF g.entry = g.stop THEN Q!Verdict(g, "NO TRADE")
          ELSE Q!Verdict(g, IF g.plan.valid /\ g.readiness # "EXTENDED" THEN "TAKE TRADE" ELSE "RANKED")
  BY DEF Q!RankedVerdict
<1> HIDE DEF g, v
<1>4. g.entry # g.stop
  BY <1>1 DEF Sided, Q!Beyond
<1>5. v = Q!Verdict(g, IF g.plan.valid /\ g.readiness # "EXTENDED" THEN "TAKE TRADE" ELSE "RANKED")
  BY <1>3, <1>4
<1>6. v.g = g /\ v.decision = IF g.plan.valid /\ g.readiness # "EXTENDED" THEN "TAKE TRADE" ELSE "RANKED"
  BY <1>5 DEF Q!Verdict
<1>7. v.decision \in {"TAKE TRADE", "RANKED"}
      /\ (v.decision = "TAKE TRADE" => g.plan.valid /\ g.readiness # "EXTENDED")
  BY <1>6
<1>8. Reported(in, v)
  BY <1>1, <1>6, <1>7 DEF Reported
<1>9. v = Q!Verdict(v.g, v.decision)
  BY <1>5, <1>6
<1> QED  BY <1>2, <1>6, <1>7, <1>8, <1>9 DEF g, v

\* Strict mode: no geometry, or the one of the candidate, taken where its plan is valid.
LEMMA StrictIsReported ==
    ASSUME NEW in, Evaluated(in), NEW C, NEW c \in Listing, NEW requested
    PROVE  LET v == Q!StrictVerdict(in, C, c, requested) IN
           /\ v.g \in {Q!NoGeometry, Q!Geometry(in, c)} /\ Reported(in, v)
           /\ v.decision # "RANKED"
<1> DEFINE g == Q!Geometry(in, c)
           v == Q!StrictVerdict(in, C, c, requested)
<1>1. Sided(g) /\ g.quality \in 0..100 /\ (g.plan.valid => Q!Affordable(g, in.balance))
  BY GeometryIsSided, PlanIsAffordable, QualityIsAPercentage
<1>2. \/ v \in {Q!Verdict(Q!NoGeometry, "NO TRADE"), Q!Verdict(Q!NoGeometry, "WAIT")}
      \/ v \in {Q!Verdict(g, "WAIT"), Q!Verdict(g, "NO TRADE")}
      \/ v = Q!Verdict(g, "TAKE TRADE") /\ g.plan.valid
  <2> DEFINE early == Q!MacroOpposes(in, c) \/ Q!PrimaryOpposes(in, c)
  <2>1. CASE Q!Contradicted(C, c, requested)
    BY <2>1 DEF Q!StrictVerdict
  <2>2. CASE ~Q!Contradicted(C, c, requested) /\ early
    BY <2>2 DEF Q!StrictVerdict
  <2>3. CASE ~Q!Contradicted(C, c, requested) /\ ~early
    <3>1. v = IF Q!TimingOpposes(in, c) THEN Q!Verdict(Q!NoGeometry, "WAIT")
              ELSE IF Q!RegimeOpposes(in, c) THEN Q!Verdict(Q!NoGeometry, "NO TRADE")
              ELSE IF Q!Chased(in, c) THEN Q!Verdict(g, "WAIT")
              ELSE IF g.quality < MinQuality
                   THEN Q!Verdict(g, IF g.quality >= MinQuality - 10 THEN "WAIT" ELSE "NO TRADE")
              ELSE IF ~g.plan.valid THEN Q!Verdict(g, "NO TRADE") ELSE Q!Verdict(g, "TAKE TRADE")
      BY <2>3 DEF Q!StrictVerdict
    <3> HIDE DEF v, g
    <3> QED  BY <3>1, Zenon
  <2> QED  BY <2>1, <2>2, <2>3
<1> HIDE DEF g, v
<1>3. CASE v \in {Q!Verdict(Q!NoGeometry, "NO TRADE"), Q!Verdict(Q!NoGeometry, "WAIT")}
  <2>1. v.g = Q!NoGeometry /\ v.decision \in {"NO TRADE", "WAIT"}
    <3>1. CASE v = Q!Verdict(Q!NoGeometry, "NO TRADE")
      BY <3>1, VerdictFields, Zenon
    <3>2. CASE v = Q!Verdict(Q!NoGeometry, "WAIT")
      BY <3>2, VerdictFields, Zenon
    <3> QED  BY <1>3, <3>1, <3>2
  <2>2. Reported(in, v)
    BY <2>1 DEF Reported
  <2> QED  BY <2>1, <2>2 DEF g, v
<1>4. CASE v \in {Q!Verdict(g, "WAIT"), Q!Verdict(g, "NO TRADE")}
  <2>1. v.g = g /\ v.decision \in {"WAIT", "NO TRADE"}
    <3>1. CASE v = Q!Verdict(g, "WAIT")
      BY <3>1, VerdictFields, Zenon
    <3>2. CASE v = Q!Verdict(g, "NO TRADE")
      BY <3>2, VerdictFields, Zenon
    <3> QED  BY <1>4, <3>1, <3>2
  <2>2. Reported(in, v)
    BY <1>1, <2>1 DEF Reported
  <2> QED  BY <2>1, <2>2 DEF g, v
<1>5. CASE v = Q!Verdict(g, "TAKE TRADE") /\ g.plan.valid
  <2>1. v.g = g /\ v.decision = "TAKE TRADE"
    BY <1>5 DEF Q!Verdict
  <2>2. Reported(in, v)
    BY <1>1, <1>5, <2>1 DEF Reported
  <2> QED  BY <2>1, <2>2 DEF g, v
<1> QED  BY <1>2, <1>3, <1>4, <1>5

\* The missing plan has no side, and less than any quality.
LEMMA NoGeometryHasNoSide == Q!NoGeometry.direction = "none" /\ Q!NoGeometry.quality = -1
BY DEF Q!NoGeometry

\* A candidate judged on its own is ranked as it is among the others.
LEMMA AloneIsRanked ==
    ASSUME NEW in, Evaluated(in), in.available, NEW c \in Q!StrategyCandidates(in.frame)
    PROVE  Q!EvaluateSetup(in, TRUE, {c}) = Q!RankedVerdict(in, c)
<1> DEFINE C == Q!StrategyCandidates(in.frame)
           mine == {d \in C : \E r \in {c} : r.strategy = d.strategy /\ r.direction = d.direction}
<1>1. mine = {c}
  BY CandidatesAreListed
<1>2. Q!First({c}) = c
  BY BestIsListed
<1>3. Q!EvaluateSetup(in, TRUE, {c}) = Q!RankedVerdict(in, Q!First(mine))
  <2>1. C # {} /\ {c} # {} /\ mine # {}
    BY <1>1
  <2> QED  BY <2>1 DEF Q!EvaluateSetup
<1> QED  BY <1>1, <1>2, <1>3

\* The pick of ranking mode and of strict mode: the best of the same list.
LEMMA PicksOfBoth ==
    ASSUME NEW in, Evaluated(in)
    PROVE  LET C == Q!StrategyCandidates(in.frame)
               v == Q!EvaluateSetup(in, TRUE, {})
               u == Q!EvaluateSetup(in, FALSE, {})
           IN  \/ /\ ~in.available
                  /\ v = Q!Verdict(Q!NoGeometry, "ANALYSIS UNAVAILABLE") /\ u = v
               \/ /\ in.available /\ C = {}
                  /\ u = Q!Verdict(Q!NoGeometry, "NO TRADE")
                  /\ \/ v = u
                     \/ \E c \in Listing : v = Q!RankedVerdict(in, c)
               \/ /\ in.available /\ C # {}
                  /\ Q!First(C) \in C /\ Q!First(C) \in Listing
                  /\ v = Q!RankedVerdict(in, Q!First(C))
                  /\ u = Q!StrictVerdict(in, C, Q!First(C), {} # {})
<1> DEFINE C == Q!StrategyCandidates(in.frame)
           v == Q!EvaluateSetup(in, TRUE, {})
           u == Q!EvaluateSetup(in, FALSE, {})
           D == Q!Fallback(in)
<1>1. CASE ~in.available
  BY <1>1 DEF Q!EvaluateSetup
<1>2. CASE in.available /\ C = {}
  <2>1. u = Q!Verdict(Q!NoGeometry, "NO TRADE")
    BY <1>2 DEF Q!EvaluateSetup
  <2>2. v = IF D = {} THEN Q!Verdict(Q!NoGeometry, "NO TRADE") ELSE Q!RankedVerdict(in, Q!First(D))
    BY <1>2 DEF Q!EvaluateSetup
  <2>3. D # {} => Q!First(D) \in Listing
    BY BestIsListed
  <2> HIDE DEF C, D, u, v
  <2> QED  BY <1>2, <2>1, <2>2, <2>3, Zenon DEF C, u, v
<1>3. CASE in.available /\ C # {}
  <2>1. Q!First(C) \in C /\ Q!First(C) \in Listing
    BY <1>3, BestIsListed
  <2>2. v = Q!RankedVerdict(in, Q!First(C))
    BY <1>3, Zenon DEF Q!EvaluateSetup
  <2>3. u = Q!StrictVerdict(in, C, Q!First(C), {} # {})
    BY <1>3, Zenon DEF Q!EvaluateSetup
  <2> QED  BY <1>3, <2>1, <2>2, <2>3
<1>4. in.available \in BOOLEAN
  BY DEF Evaluated
<1> QED  BY <1>1, <1>2, <1>3, <1>4

\* Feeds are few, and those that agree with a geometry are among them.
LEMMA FeedsAreCounted ==
    ASSUME NEW in, Evaluated(in), NEW g
    PROVE  /\ Cardinality(Q!Sources(in)) \in Nat /\ Q!Matching(in, g) \in Nat
           /\ Q!Matching(in, g) <= Cardinality(Q!Sources(in))
<1> DEFINE all == Q!Sources(in)
           same == {s \in all : in.feeds[s] = g.direction}
<1>1. IsFiniteSet(DOMAIN in.feeds)
  BY DEF Evaluated
<1>2. all \in SUBSET (DOMAIN in.feeds)
  BY DEF Q!Sources
<1>3. IsFiniteSet(all)
  BY <1>1, <1>2, FS_Subset
<1>4. same \in SUBSET all
  OBVIOUS
<1> HIDE DEF all
<1>5. IsFiniteSet(same) /\ Cardinality(same) <= Cardinality(all)
  <2> HIDE DEF same
  <2> QED  BY <1>3, <1>4, FS_Subset
<1>6. Cardinality(all) \in Nat /\ Cardinality(same) \in Nat
  <2> HIDE DEF same
  <2> QED  BY <1>3, <1>5, FS_CardinalityType
<1> HIDE DEF same
<1>7. Q!Matching(in, g) = Cardinality(same)
  BY RulesCount, Zenon DEF Q!Matching, same, all
<1> QED  BY <1>5, <1>6, <1>7 DEF all

\* What a model of a quarter's weight at the most can lift is a third of the scale.
LEMMA WeightIsBounded ==
    ASSUME NEW w \in 0..25, NEW a \in 0..100, NEW b \in 0..100,
           b * (100 - w) + 100 * w >= a * (100 - w)
    PROVE  3 * (a - b) <= 100
<1>1. CASE a <= b
  BY <1>1
<1>2. CASE a > b
  <2> DEFINE d == a - b
  <2>1. d \in Nat /\ w \in Nat /\ w <= 25 /\ 100 - w \in Nat
    BY <1>2
  <2>2. a * (100 - w) = d * (100 - w) + b * (100 - w)
    OBVIOUS
  <2>3. d * (100 - w) \in Int /\ b * (100 - w) \in Int
    BY <2>1
  <2>4. d * (100 - w) <= 100 * w
    BY <2>1, <2>2, <2>3
  <2>5. d * (100 - w) >= 75 * d
    <3> HIDE DEF d
    <3>1. d * (25 - w) >= 0 /\ d * (25 - w) = 25 * d - d * w /\ d * (100 - w) = 100 * d - d * w
          /\ d * w \in Int
      BY <2>1
    <3> QED  BY <2>1, <3>1
  <2> HIDE DEF d
  <2>6. 75 * d <= 2500
    BY <2>1, <2>3, <2>4, <2>5
  <2> QED  BY <2>1, <2>6 DEF d
<1> QED  BY <1>1, <1>2

-----------------------------------------------------------------------------
\* A verdict of the rules part: of both modes, and of the scan that has compared the feeds.
Decided ==
    /\ strict = Q!EvaluateSetup(input, FALSE, {})
    /\ ranked = Q!EvaluateSetup(input, TRUE, {})
    /\ \E v \in Q!WithMl(input, ranked) : checked = Q!FeedCheck(input, v)

Undecided == strict = Q!Nothing /\ ranked = Q!Nothing /\ checked = Q!Nothing

RulesInv == part = "rules" => input \in Inputs /\ (Undecided \/ Decided)

\* What is decided is what the rules make of the input that is there.
LEMMA RulesInvHolds == AlgorithmsSpec => []RulesInv
<1>1. AlgorithmsInit => RulesInv
  <2>1. AlgorithmsInit => Q!Init
    BY DEF AlgorithmsInit
  <2> QED  BY <2>1 DEF Q!Init, RulesInv, Undecided
<1>2. ASSUME RulesInv, UNCHANGED <<part, ruleVars>> PROVE RulesInv'
  BY <1>2 DEF RulesInv, Undecided, Decided, ruleVars, Q!Nothing
<1>3. ASSUME RulesInv, RulesPart PROVE RulesInv'
  <2>1. Q!Evaluates /\ part' = part /\ part = "rules"
    BY <1>3 DEF RulesPart, Q!Next
  <2>2. input' = input
    BY <2>1 DEF Q!Evaluates
  <2>3. Decided'
    BY <2>1, <2>2 DEF Q!Evaluates, Decided
  <2> QED  BY <1>3, <2>1, <2>2, <2>3 DEF RulesInv
<1>4. ASSUME AlgorithmsNext, ~RulesPart PROVE part' = part /\ (part = "rules" => UNCHANGED ruleVars)
  BY <1>4 DEF AlgorithmsNext, LifecyclePart, OutcomesPart, StructurePart, BacktestsPart, FramesPart,
     ScreenPart, RegistryPart, ExpansionPart, StudyPart, EpochsPart, FeaturesPart,
     tradingVars, ruleVars
<1>5. RulesInv /\ [AlgorithmsNext]_<<part, tradingVars, researchVars>> => RulesInv'
  <2>1. ASSUME RulesInv, UNCHANGED <<part, tradingVars, researchVars>> PROVE RulesInv'
    BY <1>2, <2>1 DEF tradingVars
  <2>2. ASSUME RulesInv, AlgorithmsNext, ~RulesPart PROVE RulesInv'
    BY <1>2, <1>4, <2>2 DEF RulesInv
  <2> QED  BY <1>3, <2>1, <2>2
<1> QED  BY <1>1, <1>5, PTL DEF AlgorithmsSpec

\* The promises of a decision, of the inputs and the three answers of an evaluation.
LEMMA GeometryHolds ==
    ASSUME Evaluated(input), Decided
    PROVE  Reported(input, strict) /\ Reported(input, ranked) /\ Q!GeometrySound /\ Q!TakeIsSafe
<1>1. Reported(input, Q!Verdict(Q!NoGeometry, "ANALYSIS UNAVAILABLE"))
      /\ Reported(input, Q!Verdict(Q!NoGeometry, "NO TRADE"))
  BY VerdictFields DEF Reported
<1>2. Reported(input, strict) /\ Reported(input, ranked)
  <2> DEFINE C == Q!StrategyCandidates(input.frame)
  <2>1. CASE ~input.available
    BY <1>1, <2>1, PicksOfBoth DEF Decided
  <2>2. CASE input.available /\ C = {}
    <3>1. /\ strict = Q!Verdict(Q!NoGeometry, "NO TRADE")
          /\ ranked = strict \/ \E c \in Listing : ranked = Q!RankedVerdict(input, c)
      BY <2>2, PicksOfBoth DEF Decided
    <3> QED  BY <1>1, <3>1, RankedIsReported
  <2>3. CASE input.available /\ C # {}
    <3>1. /\ Q!First(C) \in Listing /\ ranked = Q!RankedVerdict(input, Q!First(C))
          /\ strict = Q!StrictVerdict(input, C, Q!First(C), {} # {})
      BY <2>3, PicksOfBoth DEF Decided
    <3> HIDE DEF C
    <3>2. Reported(input, Q!RankedVerdict(input, Q!First(C)))
      BY <3>1, RankedIsReported
    <3>3. \A requested : Reported(input, Q!StrictVerdict(input, C, Q!First(C), requested))
      BY <3>1, StrictIsReported
    <3> QED  BY <3>1, <3>2, <3>3, Zenon
  <2>4. input.available \in BOOLEAN
    BY DEF Evaluated
  <2> QED  BY <2>1, <2>2, <2>3, <2>4
<1>3. ASSUME NEW v, Reported(input, v)
      PROVE  /\ v.decision \in {"TAKE TRADE", "RANKED"} => Sided(v.g)
             /\ v.decision = "TAKE TRADE" => Q!Affordable(v.g, input.balance)
  BY <1>3 DEF Reported
<1>4. Q!GeometrySound
  BY <1>2, <1>3 DEF Q!GeometrySound, Sided
<1>5. Q!TakeIsSafe
  BY <1>2, <1>3 DEF Q!TakeIsSafe
<1> QED  BY <1>2, <1>4, <1>5

\* A pick is one of the candidates, and ranking mode only adds.
LEMMA RankedPicks ==
    ASSUME Evaluated(input), Decided
    PROVE  Q!PickIsACandidate /\ Q!RankingOnlyAdds
<1> DEFINE C == Q!StrategyCandidates(input.frame)
           best == Q!First(C)
<1>1. CASE ~input.available
  BY <1>1, PicksOfBoth, VerdictFields DEF Decided, Q!PickIsACandidate, Q!RankingOnlyAdds
<1>2. CASE input.available /\ C = {}
  <2>1. strict = Q!Verdict(Q!NoGeometry, "NO TRADE")
    BY <1>2, PicksOfBoth DEF Decided
  <2>2. strict.g = Q!NoGeometry /\ strict.decision = "NO TRADE"
    BY <2>1, VerdictFields, Zenon
  <2> QED  BY <1>2, <2>2 DEF Q!PickIsACandidate, Q!RankingOnlyAdds
<1>3. CASE input.available /\ C # {}
  <2>1. /\ best \in C /\ best \in Listing /\ ranked = Q!RankedVerdict(input, best)
        /\ strict = Q!StrictVerdict(input, C, best, {} # {})
    BY <1>3, PicksOfBoth DEF Decided
  <2>2. ranked = Q!EvaluateSetup(input, TRUE, {best})
    BY <1>3, <2>1, AloneIsRanked
  <2>3. ranked \in Q!EvaluateSetupCandidates(input, TRUE)
    BY <1>3, <2>1, <2>2 DEF Q!EvaluateSetupCandidates
  <2>4. ranked.g = Q!Geometry(input, best) /\ ranked.decision \in {"TAKE TRADE", "RANKED"}
    BY <2>1, RankedIsReported
  <2>5. strict.g \in {Q!NoGeometry, Q!Geometry(input, best)}
    BY <2>1, StrictIsReported
  <2> QED  BY <2>3, <2>4, <2>5 DEF Q!PickIsACandidate, Q!RankingOnlyAdds
<1>4. input.available \in BOOLEAN
  BY DEF Evaluated
<1> QED  BY <1>1, <1>2, <1>3, <1>4

\* What ranking mode makes of the candidates, each on its own.
LEMMA CandidatesAreReported ==
    ASSUME NEW in, Evaluated(in), NEW v \in Q!EvaluateSetupCandidates(in, TRUE)
    PROVE  /\ in.available /\ Q!StrategyCandidates(in.frame) # {}
           /\ \E c \in Listing : v = Q!RankedVerdict(in, c)
<1>1. /\ in.available
      /\ \E c \in Q!StrategyCandidates(in.frame) : v = Q!EvaluateSetup(in, TRUE, {c})
  BY DEF Q!EvaluateSetupCandidates
<1> QED  BY <1>1, AloneIsRanked, CandidatesAreListed

\* The answer a scan goes on with is the pick of the ranking, or a trade the rules take.
LEMMA ScanGoesOnWith ==
    ASSUME NEW in, Evaluated(in), NEW quant, NEW v \in Q!WithMl(in, quant)
    PROVE  \/ v = quant
           \/ /\ in.weight # 0 /\ v \in Q!EvaluateSetupCandidates(in, TRUE)
              /\ v.decision = "TAKE TRADE" /\ v.g.plan.valid
              /\ \A u \in Q!EvaluateSetupCandidates(in, TRUE) :
                    u # v /\ u.decision = "TAKE TRADE" /\ u.g.plan.valid =>
                       v.g.quality * (100 - in.weight) + 100 * in.weight
                           >= u.g.quality * (100 - in.weight)
<1> DEFINE all == Q!EvaluateSetupCandidates(in, TRUE)
           eligible == {u \in all : u.decision = "TAKE TRADE" /\ u.g.plan.valid}
<1>1. v \in IF in.weight = 0 \/ eligible = {} THEN {quant}
            ELSE {w \in eligible : \A u \in eligible : u # w =>
                    w.g.quality * (100 - in.weight) + 100 * in.weight
                        >= u.g.quality * (100 - in.weight)}
  BY DEF Q!WithMl
<1> HIDE DEF all
<1> QED  BY <1>1 DEF all

\* A plan with a side is not the missing plan.
LEMMA SidedHasGeometry == \A g : Sided(g) => g # Q!NoGeometry /\ g.direction # "none"
BY NoGeometryHasNoSide DEF Sided

\* What the comparison of the feeds and the model of a scan do to a verdict.
LEMMA ScanConfirms ==
    ASSUME Evaluated(input), Decided
    PROVE  Q!TakeIsConfirmed /\ Q!MlOnlyChooses /\ Q!LegacyKeepsMeaning
<1> DEFINE listed == Q!EvaluateSetupCandidates(input, TRUE)
<1>1. PICK v \in Q!WithMl(input, ranked) : checked = Q!FeedCheck(input, v)
  BY DEF Decided
<1>2. \A u \in listed : \E c \in Listing : u = Q!RankedVerdict(input, c)
  BY CandidatesAreReported
<1>3. Reported(input, ranked) /\ Q!PickIsACandidate
  BY GeometryHolds, RankedPicks
<1>4. v = ranked \/ v \in listed
  BY ScanGoesOnWith
<1>5. \/ v = Q!Verdict(Q!NoGeometry, "ANALYSIS UNAVAILABLE") /\ ~input.available
      \/ v = Q!Verdict(Q!NoGeometry, "NO TRADE") /\ input.available
      \/ input.available /\ \E c \in Listing : v = Q!RankedVerdict(input, c)
  <2>1. CASE v = ranked
    <3> DEFINE C == Q!StrategyCandidates(input.frame)
    <3>1. CASE ~input.available
      BY <2>1, <3>1, PicksOfBoth DEF Decided
    <3>2. CASE input.available /\ C = {}
      BY <2>1, <3>2, PicksOfBoth DEF Decided
    <3>3. CASE input.available /\ C # {}
      BY <2>1, <3>3, PicksOfBoth DEF Decided
    <3>4. input.available \in BOOLEAN
      BY DEF Evaluated
    <3> QED  BY <3>1, <3>2, <3>3, <3>4
  <2>2. CASE v \in listed
    BY <1>2, <2>2, CandidatesAreReported
  <2> QED  BY <1>4, <2>1, <2>2
<1>6. \/ v.g = Q!NoGeometry /\ v.decision = "ANALYSIS UNAVAILABLE" /\ ~input.available
      \/ v.g = Q!NoGeometry /\ v.decision = "NO TRADE" /\ input.available
      \/ /\ input.available /\ Sided(v.g) /\ v.decision \in {"TAKE TRADE", "RANKED"}
         /\ v.g.quality \in 0..100
         /\ v.decision = "TAKE TRADE" => v.g.readiness \in {"IDEAL", "ACCEPTABLE"}
  <2>1. ASSUME NEW c \in Listing, v = Q!RankedVerdict(input, c)
        PROVE  /\ Sided(v.g) /\ v.decision \in {"TAKE TRADE", "RANKED"} /\ v.g.quality \in 0..100
               /\ v.decision = "TAKE TRADE" => v.g.readiness \in {"IDEAL", "ACCEPTABLE"}
    BY <2>1, RankedIsReported, GeometryIsSided, QualityIsAPercentage
  <2>2. CASE v = Q!Verdict(Q!NoGeometry, "ANALYSIS UNAVAILABLE") /\ ~input.available
    <3>1. v.g = Q!NoGeometry /\ v.decision = "ANALYSIS UNAVAILABLE"
      BY <2>2, VerdictFields, Zenon
    <3> QED  BY <2>2, <3>1
  <2>3. CASE v = Q!Verdict(Q!NoGeometry, "NO TRADE") /\ input.available
    <3>1. v.g = Q!NoGeometry /\ v.decision = "NO TRADE"
      BY <2>3, VerdictFields, Zenon
    <3> QED  BY <2>3, <3>1
  <2> QED  BY <1>5, <2>1, <2>2, <2>3
<1> DEFINE said == IF v.decision = "RANKED" THEN "WAIT" ELSE v.decision
<1>7. /\ checked.g = v.g
      /\ checked.decision = IF input.disagree \/ (v.decision = "TAKE TRADE" /\ Q!Matching(input, v.g) < 2)
                            THEN "RANKED" ELSE v.decision
      /\ checked.strict \in {said, "WAIT"} /\ (checked.strict = "WAIT" \/ checked.strict = said)
      /\ v.decision \notin {"TAKE TRADE", "RANKED"} => checked.strict = v.decision
  BY <1>1 DEF Q!FeedCheck
<1>8. Q!TakeIsConfirmed
  <2>1. SUFFICES ASSUME checked.decision = "TAKE TRADE"
                 PROVE  /\ Q!DecisionSemantics(input, checked).data = "CONFIRMED"
                        /\ Q!DecisionSemantics(input, checked).entry \in {"IDEAL", "ACCEPTABLE"}
    BY Zenon DEF Q!TakeIsConfirmed
  <2>2. /\ ~input.disagree /\ v.decision = "TAKE TRADE" /\ ~(Q!Matching(input, v.g) < 2)
        /\ Sided(v.g) /\ v.g.readiness \in {"IDEAL", "ACCEPTABLE"}
    BY <1>6, <1>7, <2>1
  <2>6. /\ Cardinality(Q!Sources(input)) \in Nat /\ Q!Matching(input, v.g) \in Nat
        /\ Q!Matching(input, v.g) <= Cardinality(Q!Sources(input))
    BY FeedsAreCounted
  <2>3. Q!Matching(input, v.g) >= 2 /\ Cardinality(Q!Sources(input)) >= 2 /\ Cardinality(Q!Sources(input)) # 0
    <3>1. \A m, k \in Nat : ~(m < 2) /\ m <= k => m >= 2 /\ k >= 2 /\ k # 0
      OBVIOUS
    <3> QED  BY <2>2, <2>6, <3>1
  <2>4. checked.g # Q!NoGeometry
    BY <1>7, <2>2, SidedHasGeometry
  <2>5. Q!Cardinality(Q!Sources(input)) = Cardinality(Q!Sources(input))
    BY RulesCount
  <2> QED  BY <1>7, <2>1, <2>2, <2>3, <2>4, <2>5 DEF Q!DecisionSemantics, Q!Semantics
<1>9. Q!MlOnlyChooses
  <2>1. SUFFICES ASSUME checked.g # ranked.g
                 PROVE  \E u \in listed :
                            /\ u.g = checked.g /\ u.decision = "TAKE TRADE"
                            /\ ranked.decision = "TAKE TRADE" => 3 * (ranked.g.quality - u.g.quality) <= 100
    BY Zenon DEF Q!MlOnlyChooses
  <2>2. /\ v \in listed /\ v.decision = "TAKE TRADE"
        /\ \A u \in listed :
              u # v /\ u.decision = "TAKE TRADE" /\ u.g.plan.valid =>
                 v.g.quality * (100 - input.weight) + 100 * input.weight
                     >= u.g.quality * (100 - input.weight)
    BY <1>7, <2>1, ScanGoesOnWith
  <2>3. ASSUME ranked.decision = "TAKE TRADE" PROVE 3 * (ranked.g.quality - v.g.quality) <= 100
    <3>1. Sided(ranked.g) /\ ranked.g.quality \in 0..100 /\ ranked.g.plan.valid
      BY <1>3, <2>3 DEF Reported
    <3>2. ranked \in listed
      <4>1. Q!StrategyCandidates(input.frame) # {}
        BY <2>2, CandidatesAreReported
      <4> QED  BY <1>3, <3>1, <4>1, SidedHasGeometry DEF Q!PickIsACandidate
    <3>3. v.g.quality * (100 - input.weight) + 100 * input.weight
              >= ranked.g.quality * (100 - input.weight)
      BY <1>7, <2>1, <2>2, <2>3, <3>1, <3>2
    <3>4. input.weight \in 0..25 /\ v.g.quality \in 0..100
      BY <1>6, <2>2 DEF Evaluated
    <3> QED  BY <3>1, <3>3, <3>4, WeightIsBounded
  <2> QED  BY <1>7, <2>2, <2>3
<1>10. Q!LegacyKeepsMeaning
  <2>1. SUFFICES ASSUME input.available
                 PROVE  Q!MapLegacyVerdict(input, checked) = Q!DecisionSemantics(input, checked)
    BY Zenon DEF Q!LegacyKeepsMeaning
  <2>2. /\ (checked.strict # "ANALYSIS UNAVAILABLE") = (checked.decision # "ANALYSIS UNAVAILABLE")
        /\ (checked.g.direction # "none" /\ checked.strict # "NO TRADE") = (checked.g.direction # "none")
    BY <1>6, <1>7, <2>1, NoGeometryHasNoSide, SidedHasGeometry
  <2> QED  BY <2>2 DEF Q!MapLegacyVerdict, Q!DecisionSemantics
<1> QED  BY <1>8, <1>9, <1>10

\* Of every frame without a candidate the audit names a gate that stopped it.
LEMMA AuditNames ==
    ASSUME NEW f, f.trend \in {"long", "short", "none"}, f.extended \in BOOLEAN,
           f.volume \in Int, f.rsi \in Int
    PROVE  Q!AuditNamesAGate(f)
<1> DEFINE last == "TREND_PRESENT_BUT_NO_MOMENTUM_CONFIRMATION"
<1>1. SUFFICES ASSUME Q!ClosestMissGate(f) = last PROVE Q!StrategyCandidates(f) # {}
  BY Zenon DEF Q!AuditNamesAGate
<1>2. /\ f.trend # "none" /\ ~f.extended /\ ~(f.volume < 8) /\ f.exhaustion = "none"
      /\ f.rsi \in IF f.trend = "long" THEN 48..68 ELSE 32..52
  <2>1. ~(f.retest # "none" \/ f.sweep # "none" \/ f.rejection # "none")
    BY <1>1 DEF Q!ClosestMissGate
  <2>2. last = IF f.trend = "none" THEN "NO_TREND_STRUCTURE"
               ELSE IF f.extended THEN "EXTENDED_FROM_EMA20"
               ELSE IF f.rsi \notin (IF f.trend = "long" THEN 48..68 ELSE 32..52)
               THEN "RSI_OUTSIDE_CONTINUATION_BAND"
               ELSE IF f.volume < 8 THEN "LOW_RELATIVE_VOLUME"
               ELSE IF f.exhaustion # "none" THEN "STRUCTURE_EXHAUSTION"
               ELSE last
    BY <1>1, <2>1 DEF Q!ClosestMissGate
  <2> QED  BY <2>2
<1>3. f.trend \in {"long", "short"} /\ Q!Continuation(f, f.trend)
  BY <1>2 DEF Q!Continuation
<1>4. ASSUME NEW side \in {"long", "short"}, Q!Continuation(f, side) PROVE Q!Candidates(f, side) # {}
  <2> DEFINE c == [order |-> 2 * 1 + (IF side = "long" THEN 1 ELSE 2), strategy |-> "TREND CONTINUATION",
                   direction |-> side,
                   score |-> Q!Clamp(68 + 3 * f.separation + Q!Smaller(10, f.volume \div 2), 0, 100),
                   invalidation |-> IF side = "long" THEN Q!Smaller(f.support, f.ema50)
                                    ELSE Q!Larger(f.resistance, f.ema50)]
  <2>1. c \in Q!Candidates(f, side)
    BY <1>4 DEF Q!Candidates
  <2> QED  BY <2>1
<1> QED  BY <1>3, <1>4 DEF Q!StrategyCandidates

\* Every audit of the trend strategies on these frames names a gate that failed.
LEMMA AuditFramesAreNamed == AuditsNameAGate
<1>1. \A f \in AuditFrames : /\ f.trend \in {"long", "short", "none"} /\ f.extended \in BOOLEAN
                             /\ f.volume \in {7, 8, 10} /\ f.rsi \in {31, 32, 48, 52, 68, 69}
  BY DEF AuditFrames
<1> QED  BY <1>1, AuditNames DEF AuditsNameAGate

\* Before an evaluation there is nothing to promise.
LEMMA UndecidedIsSound ==
    ASSUME Undecided
    PROVE  /\ Q!GeometrySound /\ Q!TakeIsSafe /\ Q!TakeIsConfirmed /\ Q!PickIsACandidate
           /\ Q!RankingOnlyAdds /\ Q!MlOnlyChooses /\ Q!LegacyKeepsMeaning
<1>1. Q!Nothing.g = Q!NoGeometry /\ Q!Nothing.decision = "none"
  BY VerdictFields, Zenon DEF Q!Nothing
<1>2. strict = Q!Nothing /\ ranked = Q!Nothing /\ checked = Q!Nothing
  BY DEF Undecided
<1> QED  BY <1>1, <1>2 DEF Q!GeometrySound, Q!TakeIsSafe, Q!TakeIsConfirmed, Q!PickIsACandidate,
             Q!RankingOnlyAdds, Q!MlOnlyChooses, Q!LegacyKeepsMeaning

\* A decision promises a trade with its stop on the losing side, that the account can pay and
\* lose and two feeds confirm, and neither ranking nor the model of a scan takes anything from
\* that (quant-engine.js, scan-core.mjs), for any frames, any ATR and any bar of quality.
THEOREM DecisionsStaySound == AlgorithmsSpec => []DecisionIsSound
<1>1. RulesInv => DecisionIsSound
  <2>1. SUFFICES ASSUME part = "rules", input \in Inputs, Undecided \/ Decided
                 PROVE  /\ Q!GeometrySound /\ Q!TakeIsSafe /\ Q!TakeIsConfirmed /\ Q!PickIsACandidate
                        /\ Q!RankingOnlyAdds /\ Q!MlOnlyChooses /\ Q!LegacyKeepsMeaning
    BY AuditFramesAreNamed DEF RulesInv, DecisionIsSound
  <2>2. CASE Decided
    BY <2>1, <2>2, RulesAssumption, GeometryHolds, RankedPicks, ScanConfirms
  <2> QED  BY <2>1, <2>2, UndecidedIsSound
<1> QED  BY <1>1, RulesInvHolds, PTL
=============================================================================
