------------------------------ MODULE TradeProofs ------------------------------
(***************************************************************************)
(* What holds of the exit rules (PaperLifecycle) on any candles in time    *)
(* order, and of the readings of a trade (TradeOutcomes) on any candles,   *)
(* for every value of the constants.                                       *)
(***************************************************************************)
EXTENDS MCPaperLifecycle, SumTheorems, SequenceTheorems, TLAPS

-----------------------------------------------------------------------------
(* The sweep of the exit rules                                             *)

\* Candles, whatever their prices: the rules compare these and do nothing else with them.
AnyCandle == [time : Int, low : Int, high : Int, close : Int]

\* One after another.
Ordered(s) == \A i, j \in DOMAIN s : i < j => s[i].time < s[j].time

\* Candles in time order are left as they are.
LEMMA OrderedIsSorted ==
    ASSUME NEW s \in Seq(AnyCandle), Ordered(s)
    PROVE  InTimeOrder(s) = s
<1> DEFINE before(i) ==
               {j \in DOMAIN s :
                   \/ s[j].time < s[i].time
                   \/ s[j].time = s[i].time /\ j < i}
           place(k) == CHOOSE i \in DOMAIN s : Cardinality(before(i)) = k - 1
<1>1. Len(s) \in Nat /\ DOMAIN s = 1..Len(s) /\ \A i \in DOMAIN s : s[i].time \in Int
  <2>1. Len(s) \in Nat /\ DOMAIN s = 1..Len(s) /\ \A i \in DOMAIN s : s[i] \in AnyCandle
    OBVIOUS
  <2>2. \A c \in AnyCandle : c.time \in Int
    BY DEF AnyCandle
  <2> QED  BY <2>1, <2>2
<1>2. ASSUME NEW i \in DOMAIN s PROVE before(i) = 1..i - 1
  <2>1. ASSUME NEW j \in DOMAIN s PROVE j \in before(i) <=> j < i
    <3>1. j < i => s[j].time < s[i].time
      BY DEF Ordered
    <3>2. i < j => s[i].time < s[j].time
      BY DEF Ordered
    <3> QED  BY <1>1, <3>1, <3>2
  <2>2. before(i) \subseteq DOMAIN s
    OBVIOUS
  <2>3. \A j : j \in before(i) <=> j \in 1..i - 1
    <3> HIDE DEF before
    <3> QED  BY <1>1, <2>1, <2>2
  <2> HIDE DEF before
  <2> QED  BY <2>3
<1>3. ASSUME NEW i \in DOMAIN s PROVE Cardinality(before(i)) = i - 1
  <2>1. Cardinality(1..i - 1) = i - 1
    BY <1>1, FS_Interval
  <2> QED  BY <1>2, <2>1
<1>4. ASSUME NEW k \in DOMAIN s PROVE place(k) = k
  <2> HIDE DEF before
  <2>1. \A i \in DOMAIN s : Cardinality(before(i)) = k - 1 <=> i = k
    BY <1>1, <1>3
  <2>2. place(k) \in DOMAIN s /\ Cardinality(before(place(k))) = k - 1
    BY <2>1
  <2> HIDE DEF place
  <2> QED  BY <2>1, <2>2
<1>5. InTimeOrder(s) = [k \in DOMAIN s |-> s[place(k)]]
  BY DEF InTimeOrder
<1> HIDE DEF place
<1>6. InTimeOrder(s) = [k \in DOMAIN s |-> s[k]]
  BY <1>4, <1>5
<1> QED  BY <1>1, <1>6

-----------------------------------------------------------------------------
(* Loops over candles: the one of advance(), and those that judge what a    *)
(* paper trade has made.                                                   *)

Start(t) == [left |-> t.remaining, hit |-> t.tp1Hit, events |-> <<>>, returned |-> FALSE]
Walk(g, t, s) == FoldLeft(LAMBDA acc, c : CandleStep(g, t, acc, c), Start(t), s)

LoopStart(k, t) == IF k = "exits" THEN Start(t) ELSE O!Open
LoopStep(k, g, t, acc, c) ==
    CASE k = "exits" -> CandleStep(g, t, acc, c)
      [] k = "forward" -> O!ForwardStep(acc, c)
      [] k = "rank" -> O!RankStep(acc, c)
      [] k = "replay" -> O!ReplayStep(acc, c)
      [] k = "strict" -> O!StrictStep(acc, c)

\* The function the library's fold is taken from.
Swept(k, g, t, s, f) ==
    f = [I \in SUBSET DOMAIN s |->
           IF I = {} THEN LoopStart(k, t) ELSE LoopStep(k, g, t, f[I \ {Max(I)}], s[Max(I)])]

\* The latest of some candles is one of them.
LEMMA MaxIsElement ==
    ASSUME NEW n \in Nat, NEW I \in SUBSET (1..n), I # {}
    PROVE  Max(I) \in I
<1> DEFINE N == {k \in Nat : \A T \in SUBSET (1..k) : T # {} => \E x \in T : \A y \in T : x >= y}
<1>1. 0 \in N
  <2>1. \A T \in SUBSET (1..0) : T = {}
    OBVIOUS
  <2> QED  BY <2>1
<1>2. ASSUME NEW k \in N PROVE k + 1 \in N
  <2> SUFFICES ASSUME NEW T \in SUBSET (1..k + 1), T # {}
               PROVE  \E x \in T : \A y \in T : x >= y
    OBVIOUS
  <2>1. CASE k + 1 \in T
    <3>1. \A y \in T : k + 1 >= y
      OBVIOUS
    <3> QED  BY <2>1, <3>1
  <2>2. CASE k + 1 \notin T
    <3>1. T \in SUBSET (1..k)
      BY <2>2
    <3> QED  BY <3>1
  <2> QED  BY <2>1, <2>2
<1>3. N = Nat
  <2> HIDE DEF N
  <2>1. N \in SUBSET Nat  BY DEF N
  <2> QED  BY <1>1, <1>2, <2>1, NatSetInduction
<1>4. \E x \in I : \A y \in I : x >= y
  BY <1>3
<1> QED  BY <1>4 DEF Max

LEMMA MaxOfRange ==
    ASSUME NEW n \in Nat
    PROVE  /\ Max(1..n + 1) = n + 1
           /\ (1..n + 1) \ {n + 1} = 1..n /\ 1..n + 1 # {}
<1>1. \A x \in 1..n + 1 : (\A y \in 1..n + 1 : x >= y) <=> x = n + 1
  OBVIOUS
<1>2. Max(1..n + 1) = n + 1
  BY <1>1 DEF Max
<1> QED  BY <1>2

LEMMA SweptExists ==
    ASSUME NEW kind, NEW g, NEW t, NEW n \in Nat, NEW s, DOMAIN s = 1..n
    PROVE  \E f : Swept(kind, g, t, s, f)
<1> DEFINE D == 1..n
           Step(f, I) == IF I = {} THEN LoopStart(kind, t)
                         ELSE LoopStep(kind, g, t, f[I \ {Max(I)}], s[Max(I)])
           UpTo(f, k) == \A I \in SUBSET D : Cardinality(I) <= k => f[I] = Step(f, I)
           N == {k \in Nat : \E f : UpTo(f, k)}
<1>1. IsFiniteSet(D)
  BY FS_Interval
<1>2. \A I \in SUBSET D : IsFiniteSet(I) /\ Cardinality(I) \in Nat /\ Cardinality(I) <= Cardinality(D)
  BY <1>1, FS_Subset, FS_CardinalityType
<1>3. Cardinality(D) \in Nat
  BY <1>1, FS_CardinalityType
<1>4. ASSUME NEW f, NEW k \in Nat, UpTo(f, k), NEW h, h = [I \in SUBSET D |-> Step(f, I)]
      PROVE  UpTo(h, k + 1)
  <2> SUFFICES ASSUME NEW I \in SUBSET D, Cardinality(I) <= k + 1 PROVE h[I] = Step(h, I)
    OBVIOUS
  <2>1. h[I] = Step(f, I)
    BY <1>4
  <2>2. CASE I = {}
    BY <2>1, <2>2
  <2>3. CASE I # {}
    <3>1. Max(I) \in I
      BY <2>3, MaxIsElement
    <3>2. I \ {Max(I)} \in SUBSET D /\ Cardinality(I \ {Max(I)}) <= k
      <4>1. IsFiniteSet(I) /\ Cardinality(I) \in Nat /\ Cardinality(I) <= k + 1
        BY <1>2, <1>4
      <4>2. Cardinality(I \ {Max(I)}) = Cardinality(I) - 1
        BY <3>1, <4>1, FS_RemoveElement
      <4>3. \A b \in Int : b <= k + 1 => b - 1 <= k
        OBVIOUS
      <4>4. Cardinality(I) - 1 <= k
        BY <4>1, <4>3
      <4>5. I \ {Max(I)} \in SUBSET D
        OBVIOUS
      <4> QED  BY <4>2, <4>4, <4>5, Zenon
    <3>3. f[I \ {Max(I)}] = Step(f, I \ {Max(I)})
      BY <1>4, <3>2
    <3>4. h[I \ {Max(I)}] = f[I \ {Max(I)}]
      <4> HIDE DEF Step
      <4> QED  BY <1>4, <3>2, <3>3
    <3> QED  BY <2>1, <2>3, <3>4
  <2> QED  BY <2>2, <2>3
<1>5. 0 \in N
  <2> DEFINE f == [I \in SUBSET D |-> LoopStart(kind, t)]
  <2>1. UpTo(f, 0)
    BY <1>2, FS_EmptySet
  <2> HIDE DEF UpTo, f
  <2> QED  BY <2>1
<1>6. ASSUME NEW k \in N PROVE k + 1 \in N
  <2>1. PICK f : UpTo(f, k)
    OBVIOUS
  <2>2. UpTo([I \in SUBSET D |-> Step(f, I)], k + 1)
    <3> HIDE DEF UpTo, Step
    <3> QED  BY <1>4, <2>1
  <2> HIDE DEF UpTo
  <2> QED  BY <2>2
<1>7. N = Nat
  <2> HIDE DEF N
  <2>1. N \in SUBSET Nat  BY DEF N
  <2> QED  BY <1>5, <1>6, <2>1, NatSetInduction
<1>8. PICK f : UpTo(f, Cardinality(D))
  BY <1>3, <1>7
<1> DEFINE h == [I \in SUBSET D |-> Step(f, I)]
<1>9. UpTo(h, Cardinality(D) + 1)
  <2> HIDE DEF UpTo, Step
  <2> QED  BY <1>3, <1>4, <1>8
<1>10. \A I \in SUBSET D : h[I] = Step(h, I)
  <2> HIDE DEF h, Step
  <2>1. \A I \in SUBSET D : Cardinality(I) <= Cardinality(D) + 1
    BY <1>2, <1>3
  <2> QED  BY <1>9, <2>1
<1>11. h = [I \in SUBSET D |-> Step(h, I)]
  <2>1. h = [I \in SUBSET D |-> h[I]]
    OBVIOUS
  <2> HIDE DEF h, Step
  <2> QED  BY <1>10, <2>1
<1>12. Swept(kind, g, t, s, h)
  <2> HIDE DEF h
  <2> QED  BY <1>11 DEF Swept
<1> QED  BY <1>12

\* A further candle is one more step of the loop.
LEMMA SweptUnrolls ==
    ASSUME NEW kind, NEW g, NEW t, NEW n \in Nat, NEW s, DOMAIN s = 1..n, NEW f, Swept(kind, g, t, s, f)
    PROVE  /\ f[{}] = LoopStart(kind, t)
           /\ \A i \in 0..n - 1 : f[1..i + 1] = LoopStep(kind, g, t, f[1..i], s[i + 1])
<1>2. f[{}] = LoopStart(kind, t)
  BY DEF Swept
<1>3. ASSUME NEW i \in 0..n - 1 PROVE f[1..i + 1] = LoopStep(kind, g, t, f[1..i], s[i + 1])
  <2>1. i \in Nat /\ 1..i + 1 \in SUBSET DOMAIN s
    OBVIOUS
  <2>2. f[1..i + 1] = IF 1..i + 1 = {} THEN LoopStart(kind, t)
                      ELSE LoopStep(kind, g, t, f[(1..i + 1) \ {Max(1..i + 1)}], s[Max(1..i + 1)])
    BY <2>1 DEF Swept
  <2> QED  BY <2>1, <2>2, MaxOfRange
<1> QED  BY <1>2, <1>3

\* The first n candles of both are the same.
BeginAlike(s, u, n) == \A i \in 1..n : u[i] = s[i]

\* A loop does not look ahead: on candles that begin alike it has done the same.
LEMMA SweptAlike ==
    ASSUME NEW kind, NEW g, NEW t, NEW n \in Nat, NEW m \in Nat, n <= m,
           NEW s, DOMAIN s = 1..n, NEW f, Swept(kind, g, t, s, f),
           NEW u, DOMAIN u = 1..m, NEW h, Swept(kind, g, t, u, h),
           BeginAlike(s, u, n)
    PROVE  f[1..n] = h[1..n]
<1> DEFINE N == {k \in Nat : k <= n => f[1..k] = h[1..k]}
<1>1. 0 \in N
  <2>1. f[{}] = LoopStart(kind, t) /\ h[{}] = LoopStart(kind, t)
    BY DEF Swept
  <2>2. 1..0 = {}
    OBVIOUS
  <2> QED  BY <2>1, <2>2
<1>2. ASSUME NEW k \in N PROVE k + 1 \in N
  <2> SUFFICES ASSUME k + 1 <= n PROVE f[1..k + 1] = h[1..k + 1]
    OBVIOUS
  <2>1. k \in Nat /\ k \in 0..n - 1 /\ k \in 0..m - 1 /\ k + 1 \in 1..n /\ f[1..k] = h[1..k]
    OBVIOUS
  <2>2. f[1..k + 1] = LoopStep(kind, g, t, f[1..k], s[k + 1])
    <3>1. \A i \in 0..n - 1 : f[1..i + 1] = LoopStep(kind, g, t, f[1..i], s[i + 1])
      BY SweptUnrolls
    <3> QED  BY <2>1, <3>1
  <2>3. h[1..k + 1] = LoopStep(kind, g, t, h[1..k], u[k + 1])
    <3>1. \A i \in 0..m - 1 : h[1..i + 1] = LoopStep(kind, g, t, h[1..i], u[i + 1])
      BY SweptUnrolls
    <3> QED  BY <2>1, <3>1
  <2> QED  BY <2>1, <2>2, <2>3 DEF BeginAlike
<1>3. N = Nat
  <2> HIDE DEF N
  <2>1. N \in SUBSET Nat  BY DEF N
  <2> QED  BY <1>1, <1>2, <2>1, NatSetInduction
<1>4. n \in N
  BY <1>3
<1> QED  BY <1>4

\* What a loop over the n candles of s comes to.
ComesTo(k, g, t, s, n, v) == \E f : Swept(k, g, t, s, f) /\ v = f[1..n]

\* What the five loops have made of some candles.
ForwardWalk(s) == O!FoldLeft(O!ForwardStep, O!Open, s)
RankWalk(s) == O!FoldLeft(O!RankStep, O!Open, s)
ReplayWalk(s) == O!FoldLeft(O!ReplayStep, O!Open, s)
StrictWalk(s) == O!FoldLeft(O!StrictStep, O!Open, s)

LEMMA MaxIsTheSame == \A T : O!Max(T) = Max(T)
BY DEF O!Max, Max

LEMMA WalkIsSwept ==
    ASSUME NEW g, NEW t, NEW n \in Nat, NEW s, DOMAIN s = 1..n
    PROVE  ComesTo("exits", g, t, s, n, Walk(g, t, s))
<1> DEFINE Body(f) == [I \in SUBSET DOMAIN s |->
                       IF I = {} THEN Start(t)
                       ELSE CandleStep(g, t, f[I \ {Max(I)}], s[Max(I)])]
           iter == CHOOSE f : f = Body(f)
           kind == "exits"
<1>1. Walk(g, t, s) = iter[DOMAIN s]
  BY DEF Walk, FoldLeft, MapThenFoldSet
<1>2. LoopStart(kind, t) = Start(t) /\ \A a, c : LoopStep(kind, g, t, a, c) = CandleStep(g, t, a, c)
  BY DEF LoopStart, LoopStep
<1> HIDE DEF kind
<1>3. \A f : Swept(kind, g, t, s, f) <=> f = Body(f)
  BY <1>2 DEF Swept
<1>4. \E f : f = Body(f)
  BY <1>3, SweptExists
<1>5. iter = Body(iter)
  <2> HIDE DEF Body
  <2> QED  BY <1>4
<1>6. Swept(kind, g, t, s, iter)
  <2> HIDE DEF iter, Body
  <2> QED  BY <1>3, <1>5
<1> HIDE DEF iter
<1> QED  BY <1>1, <1>6 DEF kind, ComesTo

LEMMA ForwardIsSwept ==
    ASSUME NEW g, NEW t, NEW n \in Nat, NEW s, DOMAIN s = 1..n
    PROVE  ComesTo("forward", g, t, s, n, ForwardWalk(s))
<1> DEFINE Body(f) == [I \in SUBSET DOMAIN s |->
                       IF I = {} THEN O!Open
                       ELSE O!ForwardStep(f[I \ {O!Max(I)}], s[O!Max(I)])]
           iter == CHOOSE f : f = Body(f)
           kind == "forward"
<1>1. ForwardWalk(s) = iter[DOMAIN s]
  BY DEF ForwardWalk, O!FoldLeft, O!MapThenFoldSet
<1>2. LoopStart(kind, t) = O!Open /\ \A a, c : LoopStep(kind, g, t, a, c) = O!ForwardStep(a, c)
  BY DEF LoopStart, LoopStep
<1> HIDE DEF kind
<1>3. \A f : Swept(kind, g, t, s, f) <=> f = Body(f)
  BY <1>2, MaxIsTheSame DEF Swept
<1>4. \E f : f = Body(f)
  BY <1>3, SweptExists
<1>5. iter = Body(iter)
  <2> HIDE DEF Body
  <2> QED  BY <1>4
<1>6. Swept(kind, g, t, s, iter)
  <2> HIDE DEF iter, Body
  <2> QED  BY <1>3, <1>5
<1> HIDE DEF iter
<1> QED  BY <1>1, <1>6 DEF kind, ComesTo

LEMMA RankIsSwept ==
    ASSUME NEW g, NEW t, NEW n \in Nat, NEW s, DOMAIN s = 1..n
    PROVE  ComesTo("rank", g, t, s, n, RankWalk(s))
<1> DEFINE Body(f) == [I \in SUBSET DOMAIN s |->
                       IF I = {} THEN O!Open
                       ELSE O!RankStep(f[I \ {O!Max(I)}], s[O!Max(I)])]
           iter == CHOOSE f : f = Body(f)
           kind == "rank"
<1>1. RankWalk(s) = iter[DOMAIN s]
  BY DEF RankWalk, O!FoldLeft, O!MapThenFoldSet
<1>2. LoopStart(kind, t) = O!Open /\ \A a, c : LoopStep(kind, g, t, a, c) = O!RankStep(a, c)
  BY DEF LoopStart, LoopStep
<1> HIDE DEF kind
<1>3. \A f : Swept(kind, g, t, s, f) <=> f = Body(f)
  BY <1>2, MaxIsTheSame DEF Swept
<1>4. \E f : f = Body(f)
  BY <1>3, SweptExists
<1>5. iter = Body(iter)
  <2> HIDE DEF Body
  <2> QED  BY <1>4
<1>6. Swept(kind, g, t, s, iter)
  <2> HIDE DEF iter, Body
  <2> QED  BY <1>3, <1>5
<1> HIDE DEF iter
<1> QED  BY <1>1, <1>6 DEF kind, ComesTo

LEMMA ReplayIsSwept ==
    ASSUME NEW g, NEW t, NEW n \in Nat, NEW s, DOMAIN s = 1..n
    PROVE  ComesTo("replay", g, t, s, n, ReplayWalk(s))
<1> DEFINE Body(f) == [I \in SUBSET DOMAIN s |->
                       IF I = {} THEN O!Open
                       ELSE O!ReplayStep(f[I \ {O!Max(I)}], s[O!Max(I)])]
           iter == CHOOSE f : f = Body(f)
           kind == "replay"
<1>1. ReplayWalk(s) = iter[DOMAIN s]
  BY DEF ReplayWalk, O!FoldLeft, O!MapThenFoldSet
<1>2. LoopStart(kind, t) = O!Open /\ \A a, c : LoopStep(kind, g, t, a, c) = O!ReplayStep(a, c)
  BY DEF LoopStart, LoopStep
<1> HIDE DEF kind
<1>3. \A f : Swept(kind, g, t, s, f) <=> f = Body(f)
  BY <1>2, MaxIsTheSame DEF Swept
<1>4. \E f : f = Body(f)
  BY <1>3, SweptExists
<1>5. iter = Body(iter)
  <2> HIDE DEF Body
  <2> QED  BY <1>4
<1>6. Swept(kind, g, t, s, iter)
  <2> HIDE DEF iter, Body
  <2> QED  BY <1>3, <1>5
<1> HIDE DEF iter
<1> QED  BY <1>1, <1>6 DEF kind, ComesTo

LEMMA StrictIsSwept ==
    ASSUME NEW g, NEW t, NEW n \in Nat, NEW s, DOMAIN s = 1..n
    PROVE  ComesTo("strict", g, t, s, n, StrictWalk(s))
<1> DEFINE Body(f) == [I \in SUBSET DOMAIN s |->
                       IF I = {} THEN O!Open
                       ELSE O!StrictStep(f[I \ {O!Max(I)}], s[O!Max(I)])]
           iter == CHOOSE f : f = Body(f)
           kind == "strict"
<1>1. StrictWalk(s) = iter[DOMAIN s]
  BY DEF StrictWalk, O!FoldLeft, O!MapThenFoldSet
<1>2. LoopStart(kind, t) = O!Open /\ \A a, c : LoopStep(kind, g, t, a, c) = O!StrictStep(a, c)
  BY DEF LoopStart, LoopStep
<1> HIDE DEF kind
<1>3. \A f : Swept(kind, g, t, s, f) <=> f = Body(f)
  BY <1>2, MaxIsTheSame DEF Swept
<1>4. \E f : f = Body(f)
  BY <1>3, SweptExists
<1>5. iter = Body(iter)
  <2> HIDE DEF Body
  <2> QED  BY <1>4
<1>6. Swept(kind, g, t, s, iter)
  <2> HIDE DEF iter, Body
  <2> QED  BY <1>3, <1>5
<1> HIDE DEF iter
<1> QED  BY <1>1, <1>6 DEF kind, ComesTo

Kinds == {"exits", "forward", "rank", "replay", "strict"}
Loop(k, g, t, s) ==
    CASE k = "exits" -> Walk(g, t, s)
      [] k = "forward" -> ForwardWalk(s)
      [] k = "rank" -> RankWalk(s)
      [] k = "replay" -> ReplayWalk(s)
      [] k = "strict" -> StrictWalk(s)

LEMMA LoopIsSwept ==
    ASSUME NEW kind \in Kinds, NEW g, NEW t, NEW n \in Nat, NEW s, DOMAIN s = 1..n
    PROVE  ComesTo(kind, g, t, s, n, Loop(kind, g, t, s))
<1>1. CASE kind = "exits"
  <2>1. Loop(kind, g, t, s) = Walk(g, t, s)
    BY <1>1 DEF Loop
  <2> QED  BY <1>1, <2>1, WalkIsSwept
<1>2. CASE kind = "forward"
  <2>1. Loop(kind, g, t, s) = ForwardWalk(s)
    BY <1>2 DEF Loop
  <2> QED  BY <1>2, <2>1, ForwardIsSwept
<1>3. CASE kind = "rank"
  <2>1. Loop(kind, g, t, s) = RankWalk(s)
    BY <1>3 DEF Loop
  <2> QED  BY <1>3, <2>1, RankIsSwept
<1>4. CASE kind = "replay"
  <2>1. Loop(kind, g, t, s) = ReplayWalk(s)
    BY <1>4 DEF Loop
  <2> QED  BY <1>4, <2>1, ReplayIsSwept
<1>5. CASE kind = "strict"
  <2>1. Loop(kind, g, t, s) = StrictWalk(s)
    BY <1>5 DEF Loop
  <2> QED  BY <1>5, <2>1, StrictIsSwept
<1> QED  BY <1>1, <1>2, <1>3, <1>4, <1>5 DEF Kinds

\* A loop over one more candle is one more step.
LEMMA LoopUnrolls ==
    ASSUME NEW kind \in Kinds, NEW g, NEW t, NEW C, NEW s \in Seq(C), NEW c \in C
    PROVE  /\ Loop(kind, g, t, <<>>) = LoopStart(kind, t)
           /\ Loop(kind, g, t, Append(s, c)) = LoopStep(kind, g, t, Loop(kind, g, t, s), c)
<1> DEFINE n == Len(s)
           u == Append(s, c)
           none == <<>>
           zero == 0
<1>1. n \in Nat /\ n + 1 \in Nat /\ DOMAIN s = 1..n /\ DOMAIN u = 1..n + 1 /\ u[n + 1] = c
      /\ \A i \in 1..n : u[i] = s[i]
  OBVIOUS
<1>3. DOMAIN none = 1..zero /\ zero \in Nat
  OBVIOUS
<1> HIDE DEF n, u, none, zero
<1>4. Loop(kind, g, t, none) = LoopStart(kind, t)
  <2>1. PICK f : Swept(kind, g, t, none, f) /\ Loop(kind, g, t, none) = f[1..zero]
    <3>1. ComesTo(kind, g, t, none, zero, Loop(kind, g, t, none))
      BY <1>3, LoopIsSwept
    <3> QED  BY <3>1 DEF ComesTo
  <2>2. f[{}] = LoopStart(kind, t)
    BY <2>1 DEF Swept
  <2>3. 1..zero = {}
    BY DEF zero
  <2> QED  BY <2>1, <2>2, <2>3
<1>5. PICK f : Swept(kind, g, t, s, f) /\ Loop(kind, g, t, s) = f[1..n]
  <2>1. ComesTo(kind, g, t, s, n, Loop(kind, g, t, s))
    BY <1>1, LoopIsSwept
  <2> QED  BY <2>1 DEF ComesTo
<1> DEFINE m == n + 1
<1>2. m \in Nat /\ n <= m /\ DOMAIN u = 1..m
  BY <1>1
<1> HIDE DEF m
<1>6. PICK h : Swept(kind, g, t, u, h) /\ Loop(kind, g, t, u) = h[1..m]
  <2>1. ComesTo(kind, g, t, u, m, Loop(kind, g, t, u))
    BY <1>2, LoopIsSwept
  <2> QED  BY <2>1 DEF ComesTo
<1>7. f[1..n] = h[1..n]
  <2>1. Swept(kind, g, t, s, f) /\ Swept(kind, g, t, u, h)
    BY <1>5, <1>6
  <2>2. BeginAlike(s, u, n) /\ n \in Nat /\ DOMAIN s = 1..n
    BY <1>1 DEF BeginAlike
  <2> QED  BY <1>2, <2>1, <2>2, SweptAlike
<1>8. h[1..m] = LoopStep(kind, g, t, h[1..n], c)
  <2>1. \A i \in 0..m - 1 : h[1..i + 1] = LoopStep(kind, g, t, h[1..i], u[i + 1])
    <3>1. m \in Nat /\ DOMAIN u = 1..m /\ Swept(kind, g, t, u, h)
      BY <1>2, <1>6
    <3> QED  BY ONLY <3>1, SweptUnrolls
  <2>2. n \in 0..m - 1
    BY <1>1 DEF m
  <2> QED  BY <1>1, <2>1, <2>2 DEF m
<1> QED  BY <1>4, <1>5, <1>6, <1>7, <1>8 DEF u, none

LEMMA WalkUnrolls ==
    ASSUME NEW g, NEW t, NEW C, NEW s \in Seq(C), NEW c \in C
    PROVE  /\ Walk(g, t, <<>>) = Start(t)
           /\ Walk(g, t, Append(s, c)) = CandleStep(g, t, Walk(g, t, s), c)
<1> DEFINE kind == "exits"
<1>1. kind \in Kinds
  BY DEF Kinds
<1>2. LoopStart(kind, t) = Start(t) /\ \A a, d : LoopStep(kind, g, t, a, d) = CandleStep(g, t, a, d)
  BY DEF LoopStart, LoopStep
<1>3. \A u : Loop(kind, g, t, u) = Walk(g, t, u)
  BY DEF Loop
<1> HIDE DEF kind
<1> QED  BY <1>1, <1>2, <1>3, LoopUnrolls

LEMMA ForwardUnrolls ==
    ASSUME NEW C, NEW s \in Seq(C), NEW c \in C
    PROVE  /\ ForwardWalk(<<>>) = O!Open
           /\ ForwardWalk(Append(s, c)) = O!ForwardStep(ForwardWalk(s), c)
<1> DEFINE kind == "forward"
<1>1. kind \in Kinds
  BY DEF Kinds
<1>2. LoopStart(kind, kind) = O!Open /\ \A a, d : LoopStep(kind, kind, kind, a, d) = O!ForwardStep(a, d)
  BY DEF LoopStart, LoopStep
<1>3. \A u : Loop(kind, kind, kind, u) = ForwardWalk(u)
  BY DEF Loop
<1> HIDE DEF kind
<1> QED  BY <1>1, <1>2, <1>3, LoopUnrolls

LEMMA RankUnrolls ==
    ASSUME NEW C, NEW s \in Seq(C), NEW c \in C
    PROVE  /\ RankWalk(<<>>) = O!Open
           /\ RankWalk(Append(s, c)) = O!RankStep(RankWalk(s), c)
<1> DEFINE kind == "rank"
<1>1. kind \in Kinds
  BY DEF Kinds
<1>2. LoopStart(kind, kind) = O!Open /\ \A a, d : LoopStep(kind, kind, kind, a, d) = O!RankStep(a, d)
  BY DEF LoopStart, LoopStep
<1>3. \A u : Loop(kind, kind, kind, u) = RankWalk(u)
  BY DEF Loop
<1> HIDE DEF kind
<1> QED  BY <1>1, <1>2, <1>3, LoopUnrolls

LEMMA ReplayUnrolls ==
    ASSUME NEW C, NEW s \in Seq(C), NEW c \in C
    PROVE  /\ ReplayWalk(<<>>) = O!Open
           /\ ReplayWalk(Append(s, c)) = O!ReplayStep(ReplayWalk(s), c)
<1> DEFINE kind == "replay"
<1>1. kind \in Kinds
  BY DEF Kinds
<1>2. LoopStart(kind, kind) = O!Open /\ \A a, d : LoopStep(kind, kind, kind, a, d) = O!ReplayStep(a, d)
  BY DEF LoopStart, LoopStep
<1>3. \A u : Loop(kind, kind, kind, u) = ReplayWalk(u)
  BY DEF Loop
<1> HIDE DEF kind
<1> QED  BY <1>1, <1>2, <1>3, LoopUnrolls

LEMMA StrictUnrolls ==
    ASSUME NEW C, NEW s \in Seq(C), NEW c \in C
    PROVE  /\ StrictWalk(<<>>) = O!Open
           /\ StrictWalk(Append(s, c)) = O!StrictStep(StrictWalk(s), c)
<1> DEFINE kind == "strict"
<1>1. kind \in Kinds
  BY DEF Kinds
<1>2. LoopStart(kind, kind) = O!Open /\ \A a, d : LoopStep(kind, kind, kind, a, d) = O!StrictStep(a, d)
  BY DEF LoopStart, LoopStep
<1>3. \A u : Loop(kind, kind, kind, u) = StrictWalk(u)
  BY DEF Loop
<1> HIDE DEF kind
<1> QED  BY <1>1, <1>2, <1>3, LoopUnrolls

-----------------------------------------------------------------------------
(* What a sweep, and what it saves, can look like.                         *)

SavedTrade == [size : Nat, remaining : Nat, tp1Hit : BOOLEAN]

IsExit(e, kinds, qty) == e.kind \in kinds /\ e.qty = qty
IsTp1(t, e) == ~t.tp1Hit /\ IsExit(e, {"TP1"}, Tp1Part(t))
IsRest(t, e) ==
    /\ Tp1Part(t) < t.remaining
    /\ IsExit(e, {"BREAKEVEN_STOP", "TP2", "TIMEOUT"}, t.remaining - Tp1Part(t))
IsWhole(t, e) ==
    IsExit(e, IF t.tp1Hit THEN {"BREAKEVEN_STOP", "TP2", "TIMEOUT"} ELSE {"STOP", "TIMEOUT"},
           t.remaining)

\* The exits of one evaluation.
PlanOf(t, x) ==
    \/ x = <<>>
    \/ \E a : x = <<a>> /\ (IsTp1(t, a) \/ IsWhole(t, a))
    \/ \E a, b : x = <<a, b>> /\ IsTp1(t, a) /\ IsRest(t, b)

\* The loop of advance() after some candles: nothing yet, a TP1, or an end.
Going(left, hit, events) == [left |-> left, hit |-> hit, events |-> events, returned |-> FALSE]
Over(hit, events) == [left |-> 0, hit |-> hit, events |-> events, returned |-> TRUE]
StageOf(t, w) ==
    \/ w = Going(t.remaining, t.tp1Hit, <<>>)
    \/ \E h \in BOOLEAN : \E a : h /\ IsTp1(t, a) /\ w = Going(t.remaining - Tp1Part(t), h, <<a>>)
    \/ \E a : IsWhole(t, a) /\ w = Over(t.tp1Hit, <<a>>)
    \/ \E h \in BOOLEAN : \E a, b : h /\ IsTp1(t, a) /\ IsRest(t, b) /\ w = Over(h, <<a, b>>)

\* One exit or two, put one after the other.
LEMMA ShortSequences ==
    ASSUME NEW a, NEW b
    PROVE  /\ <<>> \o <<>> = <<>> /\ <<>> \o <<a>> = <<a>> /\ <<a>> \o <<>> = <<a>>
           /\ <<a>> \o <<b>> = <<a, b>>
           /\ Append(<<>>, a) = <<a>> /\ Append(<<a>>, b) = <<a, b>>
<1>1. <<>> \in Seq({a, b}) /\ <<a>> \in Seq({a, b}) /\ <<b>> \in Seq({a, b})
  OBVIOUS
<1>2. <<>> \o <<>> = <<>> /\ <<>> \o <<a>> = <<a>> /\ <<a>> \o <<>> = <<a>>
  BY <1>1, ConcatEmptySeq
<1>3. Append(<<>>, a) = <<a>>
  OBVIOUS
<1>4. Append(<<a>>, b) = <<a, b>>
  <2>1. <<a, b>> \in Seq({a, b})
    OBVIOUS
  <2>2. /\ Append(<<a>>, b) \in Seq({a, b}) /\ Len(Append(<<a>>, b)) = 2
        /\ Append(<<a>>, b)[1] = a /\ Append(<<a>>, b)[2] = b
    BY <1>1
  <2>3. Len(<<a, b>>) = 2 /\ <<a, b>>[1] = a /\ <<a, b>>[2] = b
    OBVIOUS
  <2>4. \A i \in 1..2 : i = 1 \/ i = 2
    OBVIOUS
  <2> QED  BY <2>1, <2>2, <2>3, <2>4, SeqEqual
<1>5. <<a>> \o <<b>> = Append(<<a>>, b)
  <2>1. /\ <<a>> \o <<b>> \in Seq({a, b}) /\ Len(<<a>> \o <<b>>) = 2
        /\ (<<a>> \o <<b>>)[1] = a /\ (<<a>> \o <<b>>)[2] = b
    BY <1>1
  <2>2. /\ Append(<<a>>, b) \in Seq({a, b}) /\ Len(Append(<<a>>, b)) = 2
        /\ Append(<<a>>, b)[1] = a /\ Append(<<a>>, b)[2] = b
    BY <1>1
  <2>3. \A i \in 1..2 : i = 1 \/ i = 2
    OBVIOUS
  <2> QED  BY <2>1, <2>2, <2>3, SeqEqual
<1> QED  BY <1>2, <1>3, <1>4, <1>5

LEMMA MinIsTp1Part ==
    ASSUME NEW t \in SavedTrade
    PROVE  /\ Min({Half(t.size), t.remaining}) = Tp1Part(t)
           /\ Tp1Part(t) \in 0..t.remaining
<1>1. t.size \in Nat /\ t.remaining \in Nat /\ Half(t.size) \in Nat
  BY DEF SavedTrade, Half
<1>2. \A a, b \in Nat : Min({a, b}) = IF a <= b THEN a ELSE b
  <2> SUFFICES ASSUME NEW a \in Nat, NEW b \in Nat PROVE Min({a, b}) = IF a <= b THEN a ELSE b
    OBVIOUS
  <2> DEFINE m == IF a <= b THEN a ELSE b
  <2>1. \A x \in {a, b} : (\A y \in {a, b} : x =< y) <=> x = m
    OBVIOUS
  <2>2. m \in {a, b}
    OBVIOUS
  <2> HIDE DEF m
  <2>3. Min({a, b}) = m
    BY <2>1, <2>2 DEF Min
  <2> QED  BY <2>3 DEF m
<1> QED  BY <1>1, <1>2 DEF Tp1Part

\* One candle leads from one of these states to another.
LEMMA CandleStepKeeps ==
    ASSUME NEW g, NEW t \in SavedTrade, NEW w, StageOf(t, w), NEW c
    PROVE  StageOf(t, CandleStep(g, t, w, c))
<1> DEFINE half == Tp1Part(t)
           one == Exit("TP1", half, g.tp1, g.tp1, c.time)
           two(q) == Exit("TP2", q, g.tp2, g.tp2, c.time)
           out(hit, q) == Exit(StopKind(hit), q, ActiveStop(g, hit), ActiveStop(g, hit), c.time)
<1> PICK h \in BOOLEAN : h
  OBVIOUS
<1>1. /\ t.remaining \in Nat /\ t.tp1Hit \in BOOLEAN
      /\ half \in Nat /\ t.remaining - half \in Nat
      /\ Min({Half(t.size), t.remaining}) = half
  <2>1. t.remaining \in Nat /\ t.tp1Hit \in BOOLEAN
    BY DEF SavedTrade
  <2>2. Min({Half(t.size), t.remaining}) = half /\ half \in 0..t.remaining
    BY MinIsTp1Part
  <2> HIDE DEF half
  <2> QED  BY <2>1, <2>2
<1>2. /\ \A hit, q : out(hit, q).kind = StopKind(hit) /\ out(hit, q).qty = q
      /\ \A q : two(q).kind = "TP2" /\ two(q).qty = q
      /\ one.kind = "TP1" /\ one.qty = half
  BY DEF Exit
<1>3. /\ IsWhole(t, out(t.tp1Hit, t.remaining))
      /\ t.tp1Hit => IsWhole(t, two(t.remaining))
      /\ half < t.remaining =>
            IsRest(t, out(h, t.remaining - half)) /\ IsRest(t, two(t.remaining - half))
      /\ ~t.tp1Hit => IsTp1(t, one)
  <2> HIDE DEF out, two, one
  <2>1. IsWhole(t, out(t.tp1Hit, t.remaining)) /\ (t.tp1Hit => IsWhole(t, two(t.remaining)))
    BY <1>1, <1>2 DEF IsWhole, IsExit, StopKind
  <2>2. half < t.remaining =>
           IsRest(t, out(h, t.remaining - half)) /\ IsRest(t, two(t.remaining - half))
    BY <1>1, <1>2 DEF IsRest, IsExit, StopKind, half
  <2>3. ~t.tp1Hit => IsTp1(t, one)
    BY <1>2 DEF IsTp1, IsExit, half
  <2> QED  BY <2>1, <2>2, <2>3
<1> HIDE DEF half, one, two, out
<1>4. CASE w.returned \/ w.left = 0
  BY <1>4 DEF CandleStep
<1>5. CASE w = Going(t.remaining, t.tp1Hit, <<>>) /\ t.remaining # 0
  <2>1. t.remaining \in Nat \ {0}
    BY <1>1, <1>5
  <2>2. CASE Adverse(g.long, Low(g, c), ActiveStop(g, t.tp1Hit))
    <3>1. CandleStep(g, t, w, c) = Over(t.tp1Hit, Append(<<>>, out(t.tp1Hit, t.remaining)))
      BY <1>1, <1>5, <2>1, <2>2 DEF CandleStep, Going, Over, out
    <3>2. CandleStep(g, t, w, c) = Over(t.tp1Hit, <<out(t.tp1Hit, t.remaining)>>)
      BY <3>1, ShortSequences
    <3> QED  BY <1>3, <3>2 DEF StageOf
  <2>3. CASE /\ ~Adverse(g.long, Low(g, c), ActiveStop(g, t.tp1Hit))
             /\ ~t.tp1Hit /\ Reached(g.long, High(g, c), g.tp1)
    <3>1. \/ /\ half < t.remaining
             /\ CandleStep(g, t, w, c) = Over(h, <<>> \o <<one>> \o <<two(t.remaining - half)>>)
          \/ CandleStep(g, t, w, c) = Going(t.remaining - half, h, <<>> \o <<one>> \o <<>>)
      <4>1. t.tp1Hit = FALSE /\ h = TRUE
        BY <1>1, <2>3
      <4>2. t.remaining - half > 0 <=> half < t.remaining
        BY <1>1
      <4> QED  BY <1>1, <1>5, <2>1, <2>3, <4>1, <4>2 DEF CandleStep, Going, Over, one, two
    <3>2. \/ /\ half < t.remaining
             /\ CandleStep(g, t, w, c) = Over(h, <<one, two(t.remaining - half)>>)
          \/ CandleStep(g, t, w, c) = Going(t.remaining - half, h, <<one>>)
      BY <3>1, ShortSequences
    <3>3. IsTp1(t, one) /\ (half < t.remaining => IsRest(t, two(t.remaining - half)))
      BY <1>3, <2>3
    <3> QED  BY <3>2, <3>3 DEF StageOf, half
  <2>4. CASE /\ ~Adverse(g.long, Low(g, c), ActiveStop(g, t.tp1Hit))
             /\ t.tp1Hit \/ ~Reached(g.long, High(g, c), g.tp1)
    <3>1. \/ /\ t.tp1Hit
             /\ CandleStep(g, t, w, c) = Over(t.tp1Hit, <<>> \o <<>> \o <<two(t.remaining)>>)
          \/ CandleStep(g, t, w, c) = Going(t.remaining, t.tp1Hit, <<>> \o <<>> \o <<>>)
      <4>1. t.remaining - 0 = t.remaining /\ t.remaining > 0
        BY <2>1
      <4>2. CASE t.tp1Hit = TRUE
        BY <1>5, <2>1, <2>4, <4>1, <4>2 DEF CandleStep, Going, Over, two
      <4>3. CASE t.tp1Hit = FALSE
        BY <1>5, <2>1, <2>4, <4>1, <4>3 DEF CandleStep, Going, Over, two
      <4> QED  BY <1>1, <4>2, <4>3
    <3>2. \/ t.tp1Hit /\ CandleStep(g, t, w, c) = Over(t.tp1Hit, <<two(t.remaining)>>)
          \/ CandleStep(g, t, w, c) = Going(t.remaining, t.tp1Hit, <<>>)
      BY <3>1, ShortSequences
    <3> QED  BY <1>3, <3>2 DEF StageOf
  <2> QED  BY <2>2, <2>3, <2>4
<1>6. ASSUME NEW k \in BOOLEAN, k, NEW a, IsTp1(t, a), w = Going(t.remaining - half, k, <<a>>),
             t.remaining - half # 0
      PROVE  StageOf(t, CandleStep(g, t, w, c))
  <2> DEFINE left == t.remaining - half
  <2>1. left \in Nat \ {0} /\ half < t.remaining
    BY <1>1, <1>6
  <2>2. IsRest(t, out(k, left)) /\ IsRest(t, two(left)) /\ w = Going(left, k, <<a>>)
    BY <1>3, <1>6, <2>1
  <2> HIDE DEF left
  <2>3. \/ CandleStep(g, t, w, c) = Over(k, Append(<<a>>, out(k, left)))
        \/ CandleStep(g, t, w, c) = Over(k, <<a>> \o <<>> \o <<two(left)>>)
        \/ CandleStep(g, t, w, c) = Going(left, k, <<a>> \o <<>> \o <<>>)
    <3>1. CASE Adverse(g.long, Low(g, c), ActiveStop(g, k))
      <4>1. k = TRUE /\ left # 0
        BY <1>6, <2>1
      <4> QED  BY <2>2, <3>1, <4>1 DEF CandleStep, Going, Over, out
    <3>2. CASE ~Adverse(g.long, Low(g, c), ActiveStop(g, k))
      <4>1. k = TRUE /\ left - 0 = left /\ left > 0
        BY <1>6, <2>1
      <4> QED  BY <2>1, <2>2, <3>2, <4>1 DEF CandleStep, Going, Over, two
    <3> QED  BY <3>1, <3>2
  <2>4. \/ CandleStep(g, t, w, c) = Over(k, <<a, out(k, left)>>)
        \/ CandleStep(g, t, w, c) = Over(k, <<a, two(left)>>)
        \/ CandleStep(g, t, w, c) = Going(left, k, <<a>>)
    BY <2>3, ShortSequences
  <2> QED  BY <1>6, <2>2, <2>4 DEF StageOf, left, half
<1> QED
  <2>1. CASE w = Going(t.remaining, t.tp1Hit, <<>>)
    BY <1>4, <1>5, <2>1 DEF Going
  <2>2. ASSUME NEW k \in BOOLEAN, k, NEW a, IsTp1(t, a), w = Going(t.remaining - half, k, <<a>>)
        PROVE  StageOf(t, CandleStep(g, t, w, c))
    BY <1>4, <1>6, <2>2 DEF Going
  <2>3. CASE w.returned
    BY <1>4, <2>3
  <2>4. \/ w = Going(t.remaining, t.tp1Hit, <<>>)
        \/ \E k \in BOOLEAN : \E a : k /\ IsTp1(t, a) /\ w = Going(t.remaining - half, k, <<a>>)
        \/ \E k, x : w = Over(k, x)
    BY DEF StageOf, half
  <2>5. \A k, x : Over(k, x).returned
    BY DEF Over
  <2> QED  BY <2>1, <2>2, <2>3, <2>4, <2>5

LEMMA WalkKeeps ==
    ASSUME NEW g, NEW t \in SavedTrade, NEW C, NEW s \in Seq(C)
    PROVE  StageOf(t, Walk(g, t, s))
<1> DEFINE N == {n \in Nat : \A u \in Seq(C) : Len(u) = n => StageOf(t, Walk(g, t, u))}
<1>1. 0 \in N
  <2> SUFFICES ASSUME NEW u \in Seq(C), Len(u) = 0 PROVE StageOf(t, Walk(g, t, u))
    OBVIOUS
  <2>1. u = <<>>
    BY EmptySeq
  <2>2. Walk(g, t, <<>>) = Start(t)
    <3>1. <<>> \in Seq({0}) /\ 0 \in {0}
      OBVIOUS
    <3> QED  BY <3>1, WalkUnrolls
  <2> QED  BY <2>1, <2>2 DEF StageOf, Start, Going
<1>2. ASSUME NEW n \in N PROVE n + 1 \in N
  <2> SUFFICES ASSUME NEW u \in Seq(C), Len(u) = n + 1 PROVE StageOf(t, Walk(g, t, u))
    OBVIOUS
  <2>1. PICK v \in Seq(C), c \in C : u = Append(v, c)
    <3>1. u # <<>>
      <4>1. n + 1 # 0 /\ Len(<<>>) = 0
        OBVIOUS
      <4> QED  BY <4>1
    <3> QED  BY <3>1, SequenceEmptyOrAppend
  <2>2. Len(v) = n
    BY <2>1
  <2>3. StageOf(t, Walk(g, t, v))
    BY <2>2
  <2> QED  BY <2>1, <2>3, WalkUnrolls, CandleStepKeeps
<1>3. N = Nat
  <2> HIDE DEF N
  <2>1. N \in SUBSET Nat  BY DEF N
  <2> QED  BY <1>1, <1>2, <2>1, NatSetInduction
<1> QED  BY <1>3, LenProperties

\* advance() on candles in time order: the loop, and the deadline.
LEMMA AdvanceIs ==
    ASSUME NEW g, NEW t, NEW s \in Seq(AnyCandle), Ordered(s), NEW now
    PROVE  LET w == Walk(g, t, s) IN
           Advance(g, t, s, now) =
             IF ~w.returned /\ w.left > 0 /\ now - g.opened >= MaxHold /\ s # <<>>
             THEN Append(w.events, Exit("TIMEOUT", w.left, s[Len(s)].close, s[Len(s)].close, now))
             ELSE w.events
<1>1. InTimeOrder(s) = s
  BY OrderedIsSorted
<1> QED  BY <1>1 DEF Advance, Walk, Start, Last

\* The plans, from their exits.
LEMMA PlansOf ==
    ASSUME NEW t
    PROVE  /\ PlanOf(t, <<>>)
           /\ \A a : IsTp1(t, a) \/ IsWhole(t, a) => PlanOf(t, <<a>>)
           /\ \A a, b : IsTp1(t, a) /\ IsRest(t, b) => PlanOf(t, <<a, b>>)
<1>1. \A a : IsTp1(t, a) \/ IsWhole(t, a) => PlanOf(t, <<a>>)
  BY DEF PlanOf
<1>2. \A a, b : IsTp1(t, a) /\ IsRest(t, b) => PlanOf(t, <<a, b>>)
  BY DEF PlanOf
<1> QED  BY <1>1, <1>2 DEF PlanOf

LEMMA AdvancePlan ==
    ASSUME NEW g, NEW t \in SavedTrade, NEW s \in Seq(AnyCandle), Ordered(s), NEW now
    PROVE  PlanOf(t, Advance(g, t, s, now))
<1> DEFINE w == Walk(g, t, s)
           late(q) == Exit("TIMEOUT", q, s[Len(s)].close, s[Len(s)].close, now)
<1>1. StageOf(t, w)
  BY WalkKeeps
<1>2. \/ ~w.returned /\ w.left > 0 /\ Advance(g, t, s, now) = Append(w.events, late(w.left))
      \/ Advance(g, t, s, now) = w.events
  BY AdvanceIs
<1>3. \A q : late(q).kind = "TIMEOUT" /\ late(q).qty = q
  BY DEF Exit
<1> HIDE DEF w, late
<1>4. CASE w = Going(t.remaining, t.tp1Hit, <<>>)
  <2>1. w.left = t.remaining /\ w.events = <<>>
    BY <1>4 DEF Going
  <2>2. IsWhole(t, late(t.remaining))
    BY <1>3 DEF IsWhole, IsExit
  <2>3. Append(<<>>, late(t.remaining)) = <<late(t.remaining)>>
    BY ShortSequences
  <2> QED  BY <1>2, <2>1, <2>2, <2>3, PlansOf
<1>5. ASSUME NEW k, NEW a, IsTp1(t, a), w = Going(t.remaining - Tp1Part(t), k, <<a>>)
      PROVE  PlanOf(t, Advance(g, t, s, now))
  <2>1. w.left = t.remaining - Tp1Part(t) /\ w.events = <<a>>
    BY <1>5 DEF Going
  <2>4. t.remaining \in Nat /\ Tp1Part(t) \in 0..t.remaining
    BY MinIsTp1Part DEF SavedTrade
  <2>2. w.left > 0 => IsRest(t, late(t.remaining - Tp1Part(t)))
    BY <1>3, <2>1, <2>4 DEF IsRest, IsExit
  <2>3. Append(<<a>>, late(t.remaining - Tp1Part(t))) = <<a, late(t.remaining - Tp1Part(t))>>
    BY ShortSequences
  <2> QED  BY <1>2, <1>5, <2>1, <2>2, <2>3, PlansOf
<1>6. ASSUME NEW k, NEW x, w = Over(k, x), PlanOf(t, x) PROVE PlanOf(t, Advance(g, t, s, now))
  BY <1>2, <1>6 DEF Over
<1>7. \A a : IsWhole(t, a) => PlanOf(t, <<a>>)
  BY PlansOf
<1>8. \A a, b : IsTp1(t, a) /\ IsRest(t, b) => PlanOf(t, <<a, b>>)
  BY PlansOf
<1> QED  BY <1>1, <1>4, <1>5, <1>6, <1>7, <1>8 DEF StageOf

LEMMA TickPlan ==
    ASSUME NEW g, NEW t \in SavedTrade, NEW price, NEW at
    PROVE  PlanOf(t, EvaluateTick(g, t, price, at))
<1> DEFINE x == EvaluateTick(g, t, price, at)
           half == Tp1Part(t)
           one == Exit("TP1", half, g.tp1, g.tp1, at)
           two(q) == Exit("TP2", q, g.tp2, g.tp2, at)
           late(q) == Exit("TIMEOUT", q, price, price, at)
           out == Exit(StopKind(t.tp1Hit), t.remaining, ActiveStop(g, t.tp1Hit), price, at)
<1>1. /\ one.kind = "TP1" /\ one.qty = half
      /\ \A q : two(q).kind = "TP2" /\ two(q).qty = q
      /\ \A q : late(q).kind = "TIMEOUT" /\ late(q).qty = q
      /\ out.kind = StopKind(t.tp1Hit) /\ out.qty = t.remaining
  BY DEF Exit
<1>2. t.remaining \in Nat /\ t.tp1Hit \in BOOLEAN /\ t.remaining - 0 = t.remaining
  BY DEF SavedTrade
<1>3. CASE t.tp1Hit = TRUE
  <2>1. \/ x = <<>> \/ x = <<out>>
        \/ x = Append(<<>>, two(t.remaining)) \/ x = Append(<<>>, late(t.remaining))
    BY <1>2, <1>3 DEF EvaluateTick
  <2> HIDE DEF x, half, one, two, late, out
  <2>2. IsWhole(t, out) /\ IsWhole(t, two(t.remaining)) /\ IsWhole(t, late(t.remaining))
    BY <1>1, <1>3 DEF IsWhole, IsExit, StopKind
  <2>3. \/ x = <<>> \/ x = <<out>> \/ x = <<two(t.remaining)>> \/ x = <<late(t.remaining)>>
    BY <2>1, ShortSequences
  <2> QED  BY <2>2, <2>3, PlansOf DEF x
<1>4. CASE t.tp1Hit = FALSE
  <2>1. \/ x = <<>> \/ x = <<out>> \/ x = Append(<<>>, late(t.remaining))
        \/ x = <<one>>
        \/ /\ half < t.remaining
           /\ \/ x = Append(<<one>>, two(t.remaining - half))
              \/ x = Append(<<one>>, late(t.remaining - half))
    <3>1. half \in 0..t.remaining
      BY MinIsTp1Part
    <3>2. t.remaining - half > 0 <=> half < t.remaining
      BY <1>2, <3>1
    <3> QED  BY <1>2, <1>4, <3>2 DEF EvaluateTick
  <2> HIDE DEF x, one, two, late, out
  <2>2. /\ IsWhole(t, out) /\ IsWhole(t, late(t.remaining)) /\ IsTp1(t, one)
        /\ half < t.remaining =>
              IsRest(t, two(t.remaining - half)) /\ IsRest(t, late(t.remaining - half))
    BY <1>1, <1>4 DEF IsWhole, IsRest, IsTp1, IsExit, StopKind
  <2> HIDE DEF half
  <2>3. \/ x = <<>> \/ x = <<out>> \/ x = <<late(t.remaining)>>
        \/ x = <<one>>
        \/ /\ half < t.remaining
           /\ x = <<one, two(t.remaining - half)>> \/ x = <<one, late(t.remaining - half)>>
    BY <2>1, ShortSequences
  <2> QED  BY <2>2, <2>3, PlansOf DEF x
<1> QED  BY <1>2, <1>3, <1>4

\* A plan is one that the engine is modelled to accept.
LEMMA PlanIsKnown ==
    ASSUME NEW t \in SavedTrade, NEW x, PlanOf(t, x)
    PROVE  ShapeOf(x) \in PlanShapes(t)
<1>1. \A a : ShapeOf(<<a>>) = <<Order(a.kind, a.qty)>>
  BY DEF ShapeOf, Order
<1>2. \A a, b : ShapeOf(<<a, b>>) = <<Order(a.kind, a.qty), Order(b.kind, b.qty)>>
  BY DEF ShapeOf, Order
<1>3. ShapeOf(<<>>) = <<>>
  BY DEF ShapeOf
<1>4. t.tp1Hit \in BOOLEAN
  BY DEF SavedTrade
<1>5. CASE x = <<>>
  BY <1>3, <1>5 DEF PlanShapes
<1>6. ASSUME NEW a, x = <<a>>, IsTp1(t, a) PROVE ShapeOf(x) \in PlanShapes(t)
  BY <1>1, <1>6 DEF PlanShapes, IsTp1, IsExit
<1>7. ASSUME NEW a, x = <<a>>, IsWhole(t, a) PROVE ShapeOf(x) \in PlanShapes(t)
  BY <1>1, <1>4, <1>7 DEF PlanShapes, IsWhole, IsExit
<1>8. ASSUME NEW a, NEW b, x = <<a, b>>, IsTp1(t, a), IsRest(t, b) PROVE ShapeOf(x) \in PlanShapes(t)
  BY <1>2, <1>8 DEF PlanShapes, IsTp1, IsRest, IsExit
<1> QED  BY <1>5, <1>6, <1>7, <1>8 DEF PlanOf

-----------------------------------------------------------------------------
(* What the exits of a plan leave of the trade.                            *)

\* The function the library's fold is taken from, for two exits at most.
LEMMA ApplyUnrolls ==
    ASSUME NEW t
    PROVE  /\ ApplyExits(t, <<>>) = t
           /\ \A a : ApplyExits(t, <<a>>) = ApplyExit(t, a)
           /\ \A a, b : ApplyExits(t, <<a, b>>) = ApplyExit(ApplyExit(t, a), b)
<1> DEFINE Fold(x, f) ==
               [I \in SUBSET DOMAIN x |->
                  IF I = {} THEN t ELSE ApplyExit(f[I \ {Max(I)}], x[Max(I)])]
           last(x) == CHOOSE f : f = Fold(x, f)
<1>1. \A x : ApplyExits(t, x) = last(x)[DOMAIN x]
  BY DEF ApplyExits, FoldLeft, MapThenFoldSet
<1>2. Max({1}) = 1 /\ Max({2}) = 2 /\ Max({1, 2}) = 2
  BY DEF Max
<1>3. {1, 2} \ {2} = {1} /\ {1} \ {1} = {} /\ {2} \ {2} = {}
  OBVIOUS
<1>4. ASSUME NEW x, DOMAIN x \subseteq {1, 2} PROVE last(x) = Fold(x, last(x))
  <2> DEFINE one(I) == IF 1 \in I THEN ApplyExit(t, x[1]) ELSE t
             two(I) == IF 2 \in I THEN ApplyExit(one(I), x[2]) ELSE one(I)
             f == [I \in SUBSET DOMAIN x |-> two(I)]
  <2>1. ASSUME NEW I \in SUBSET DOMAIN x
        PROVE  f[I] = IF I = {} THEN t ELSE ApplyExit(f[I \ {Max(I)}], x[Max(I)])
    <3>1. f[I] = two(I)
      OBVIOUS
    <3>2. I = {} \/ I = {1} \/ I = {2} \/ I = {1, 2}
      BY <1>4
    <3>3. \A T \in SUBSET DOMAIN x : f[T] = two(T)
      OBVIOUS
    <3>4. {} \in SUBSET DOMAIN x /\ (I = {1, 2} => {1} \in SUBSET DOMAIN x)
      OBVIOUS
    <3>5. f[{}] = t /\ (I = {1, 2} => f[{1}] = ApplyExit(t, x[1]))
      BY <3>3, <3>4
    <3> HIDE DEF f
    <3> QED  BY <1>2, <1>3, <3>1, <3>2, <3>5
  <2>2. f = Fold(x, f)
    <3> HIDE DEF one, two
    <3>1. f = [I \in SUBSET DOMAIN x |-> f[I]]
      OBVIOUS
    <3> HIDE DEF f
    <3> QED  BY <2>1, <3>1
  <2> HIDE DEF f, Fold
  <2> QED  BY <2>2
<1>5. ApplyExits(t, <<>>) = t
  <2>1. DOMAIN <<>> = {}
    OBVIOUS
  <2>2. last(<<>>) = Fold(<<>>, last(<<>>))
    BY <1>4, <2>1
  <2> HIDE DEF last
  <2> QED  BY <1>1, <2>1, <2>2
<1> DEFINE At(x, I) == IF I = {} THEN t ELSE ApplyExit(last(x)[I \ {Max(I)}], x[Max(I)])
<1>8. ASSUME NEW x, DOMAIN x \subseteq {1, 2}, NEW I \in SUBSET DOMAIN x PROVE last(x)[I] = At(x, I)
  <2>1. last(x) = Fold(x, last(x))
    BY <1>4, <1>8
  <2> HIDE DEF last
  <2> QED  BY <2>1
<1>6. ASSUME NEW a PROVE ApplyExits(t, <<a>>) = ApplyExit(t, a)
  <2> DEFINE x == <<a>>
  <2>1. DOMAIN x = {1} /\ x[1] = a
    OBVIOUS
  <2> HIDE DEF last, x
  <2>2. last(x)[{}] = At(x, {}) /\ last(x)[{1}] = At(x, {1})
    BY <1>8, <2>1
  <2>3. {1} # {}
    OBVIOUS
  <2>4. last(x)[{1}] = ApplyExit(t, a)
    BY <1>2, <1>3, <2>1, <2>2, <2>3
  <2> QED  BY <1>1, <2>1, <2>4 DEF x
<1>7. ASSUME NEW a, NEW b PROVE ApplyExits(t, <<a, b>>) = ApplyExit(ApplyExit(t, a), b)
  <2> DEFINE x == <<a, b>>
  <2>1. DOMAIN x = {1, 2} /\ x[1] = a /\ x[2] = b
    OBVIOUS
  <2> HIDE DEF last, x
  <2>2. last(x)[{}] = At(x, {}) /\ last(x)[{1}] = At(x, {1}) /\ last(x)[{1, 2}] = At(x, {1, 2})
    BY <1>8, <2>1
  <2>3. {1} # {} /\ {1, 2} # {}
    OBVIOUS
  <2>4. last(x)[{1}] = ApplyExit(t, a)
    BY <1>2, <1>3, <2>1, <2>2, <2>3
  <2>5. last(x)[{1, 2}] = ApplyExit(last(x)[{1}], b)
    BY <1>2, <1>3, <2>1, <2>2, <2>3
  <2> QED  BY <1>1, <2>1, <2>4, <2>5 DEF x
<1> QED  BY <1>5, <1>6, <1>7

\* A plan's exits leave a trade that can be saved: all of it, what TP1 leaves, or nothing.
LEMMA PlanLeaves ==
    ASSUME NEW t \in SavedTrade, NEW x, PlanOf(t, x)
    PROVE  /\ ApplyExits(t, x) \in SavedTrade /\ ApplyExits(t, x).size = t.size
           /\ x = <<>> => ApplyExits(t, x) = t
           /\ \A a : x = <<a>> /\ IsTp1(t, a) =>
                 /\ ApplyExits(t, x).remaining = t.remaining - Tp1Part(t)
                 /\ ApplyExits(t, x).tp1Hit
           /\ \A a : x = <<a>> /\ IsWhole(t, a) => ApplyExits(t, x).remaining = 0
           /\ \A a, b : x = <<a, b>> /\ IsTp1(t, a) /\ IsRest(t, b) =>
                 ApplyExits(t, x).remaining = 0
<1>1. /\ t.size \in Nat /\ t.remaining \in Nat /\ t.tp1Hit \in BOOLEAN
      /\ Tp1Part(t) \in Nat /\ t.remaining - Tp1Part(t) \in Nat
  <2>1. t.size \in Nat /\ t.remaining \in Nat /\ t.tp1Hit \in BOOLEAN
    BY DEF SavedTrade
  <2>2. Tp1Part(t) \in 0..t.remaining
    BY MinIsTp1Part
  <2> QED  BY <2>1, <2>2
<1>2. \A p \in Nat, q \in Nat : Less(p, q) \in Nat /\ Less(p, p) = 0 /\ (p - q \in Nat => Less(p, q) = p - q)
  BY DEF Less
<1> DEFINE left == ApplyExits(t, x)
<1>8. \A a : x = <<a>> => left = ApplyExit(t, a)
  BY ApplyUnrolls, Zenon
<1>9. \A a, b : x = <<a, b>> => left = ApplyExit(ApplyExit(t, a), b)
  <2>1. \A a, b : ApplyExits(t, <<a, b>>) = ApplyExit(ApplyExit(t, a), b)
    BY ApplyUnrolls, Zenon
  <2> QED  BY <2>1, Zenon
<1>10. x = <<>> => left = t
  BY ApplyUnrolls, Zenon
<1> HIDE DEF left
<1>3. ASSUME NEW u \in SavedTrade, NEW e, e.qty \in Nat
      PROVE  /\ ApplyExit(u, e) \in SavedTrade /\ ApplyExit(u, e).size = u.size
             /\ ApplyExit(u, e).remaining = Less(u.remaining, e.qty)
             /\ e.kind = "TP1" => ApplyExit(u, e).tp1Hit
  <2>1. u.size \in Nat /\ u.remaining \in Nat /\ u.tp1Hit \in BOOLEAN
    BY DEF SavedTrade
  <2>2. Less(u.remaining, e.qty) \in Nat
    BY <1>2, <1>3, <2>1
  <2> QED  BY <2>1, <2>2 DEF ApplyExit, SavedTrade
<1>4. ASSUME x = <<>> PROVE left \in SavedTrade /\ left.size = t.size /\ left = t
  BY <1>4, <1>10
<1>5. ASSUME NEW a, x = <<a>>, IsTp1(t, a)
      PROVE  /\ left \in SavedTrade /\ left.size = t.size
             /\ left.remaining = t.remaining - Tp1Part(t) /\ left.tp1Hit
  <2>1. a.kind = "TP1" /\ a.qty = Tp1Part(t)
    BY <1>5 DEF IsTp1, IsExit
  <2>2. left = ApplyExit(t, a)
    BY <1>5, <1>8
  <2>3. Less(t.remaining, a.qty) = t.remaining - Tp1Part(t)
    BY <1>1, <1>2, <2>1
  <2> QED  BY <1>1, <1>3, <2>1, <2>2, <2>3
<1>6. ASSUME NEW a, x = <<a>>, IsWhole(t, a)
      PROVE  /\ left \in SavedTrade /\ left.size = t.size
             /\ left.remaining = 0
  <2>1. a.qty = t.remaining
    BY <1>6 DEF IsWhole, IsExit
  <2>2. left = ApplyExit(t, a)
    BY <1>6, <1>8
  <2>3. Less(t.remaining, a.qty) = 0
    BY <1>1, <1>2, <2>1
  <2> QED  BY <1>1, <1>3, <2>1, <2>2, <2>3
<1>7. ASSUME NEW a, NEW b, x = <<a, b>>, IsTp1(t, a), IsRest(t, b)
      PROVE  /\ left \in SavedTrade /\ left.size = t.size
             /\ left.remaining = 0
  <2> DEFINE u == ApplyExit(t, a)
  <2>1. a.kind = "TP1" /\ a.qty = Tp1Part(t) /\ b.qty = t.remaining - Tp1Part(t)
    BY <1>7 DEF IsTp1, IsRest, IsExit
  <2>2. left = ApplyExit(u, b)
    BY <1>7, <1>9
  <2>3. u \in SavedTrade /\ u.size = t.size /\ u.remaining = t.remaining - Tp1Part(t)
    <3>1. Less(t.remaining, a.qty) = t.remaining - Tp1Part(t)
      BY <1>1, <1>2, <2>1
    <3> QED  BY <1>1, <1>3, <2>1, <3>1
  <2> HIDE DEF u
  <2>4. Less(u.remaining, b.qty) = 0
    BY <1>1, <1>2, <2>1, <2>3
  <2> QED  BY <1>1, <1>3, <2>1, <2>2, <2>3, <2>4
<1> QED  BY <1>4, <1>5, <1>6, <1>7 DEF PlanOf, left

\* The same, of what remains.
LEMMA PlanRemains ==
    ASSUME NEW t \in SavedTrade, NEW x, PlanOf(t, x), NEW r, r = ApplyExits(t, x).remaining
    PROVE  /\ x = <<>> => r = t.remaining
           /\ \A a : x = <<a>> /\ IsTp1(t, a) => r = t.remaining - Tp1Part(t)
           /\ \A a : x = <<a>> /\ IsWhole(t, a) => r = 0
           /\ \A a, b : x = <<a, b>> /\ IsTp1(t, a) /\ IsRest(t, b) => r = 0
<1>1. x = <<>> => r = t.remaining
  BY PlanLeaves
<1>2. \A a : x = <<a>> /\ IsTp1(t, a) => r = t.remaining - Tp1Part(t)
  BY PlanLeaves
<1>3. \A a : x = <<a>> /\ IsWhole(t, a) => r = 0
  BY PlanLeaves
<1>4. \A a, b : x = <<a, b>> /\ IsTp1(t, a) /\ IsRest(t, b) => r = 0
  BY PlanLeaves
<1> QED  BY <1>1, <1>2, <1>3, <1>4

-----------------------------------------------------------------------------
(* The deadline.                                                           *)

LEMMA SweepCloses ==
    ASSUME NEW g, NEW t \in SavedTrade, NEW s \in Seq(AnyCandle), Ordered(s), s # <<>>,
           NEW now, now - g.opened >= MaxHold
    PROVE  ApplyExits(t, Advance(g, t, s, now)).remaining = 0
<1> DEFINE w == Walk(g, t, s)
           late(q) == Exit("TIMEOUT", q, s[Len(s)].close, s[Len(s)].close, now)
           x == Advance(g, t, s, now)
<1>1. StageOf(t, w) /\ PlanOf(t, x)
  BY WalkKeeps, AdvancePlan
<1>2. x = IF ~w.returned /\ w.left > 0 THEN Append(w.events, late(w.left)) ELSE w.events
  BY AdvanceIs
<1>3. \A q : late(q).kind = "TIMEOUT" /\ late(q).qty = q
  BY DEF Exit
<1> HIDE DEF w, late, x
<1>4. /\ t.remaining \in Nat /\ t.tp1Hit \in BOOLEAN
      /\ t.remaining - Tp1Part(t) \in Nat
  <2>1. t.remaining \in Nat /\ t.tp1Hit \in BOOLEAN
    BY DEF SavedTrade
  <2>2. Tp1Part(t) \in 0..t.remaining
    BY MinIsTp1Part
  <2> QED  BY <2>1, <2>2
<1> DEFINE r == ApplyExits(t, x).remaining
<1> HIDE DEF r
<1>10. /\ x = <<>> => r = t.remaining
       /\ \A a : x = <<a>> /\ IsTp1(t, a) => r = t.remaining - Tp1Part(t)
       /\ \A a : x = <<a>> /\ IsWhole(t, a) => r = 0
       /\ \A a, b : x = <<a, b>> /\ IsTp1(t, a) /\ IsRest(t, b) => r = 0
  BY <1>1, PlanRemains DEF r
<1>5. ASSUME w = Going(t.remaining, t.tp1Hit, <<>>) PROVE r = 0
  <2>1. w.left = t.remaining /\ w.events = <<>> /\ ~w.returned
    BY <1>5 DEF Going
  <2>2. IsWhole(t, late(t.remaining))
    BY <1>3 DEF IsWhole, IsExit
  <2>3. Append(<<>>, late(t.remaining)) = <<late(t.remaining)>>
    BY ShortSequences
  <2>4. CASE t.remaining = 0
    <3>1. x = <<>>
      BY <1>2, <2>1, <2>4
    <3> QED  BY <1>10, <2>4, <3>1
  <2>5. CASE t.remaining > 0
    <3>1. x = <<late(t.remaining)>>
      BY <1>2, <2>1, <2>3, <2>5
    <3> QED  BY <1>10, <2>2, <3>1
  <2> QED  BY <1>4, <2>4, <2>5
<1>6. ASSUME NEW k, NEW a, IsTp1(t, a), w = Going(t.remaining - Tp1Part(t), k, <<a>>)
      PROVE  r = 0
  <2> DEFINE left == t.remaining - Tp1Part(t)
  <2>1. w.left = left /\ w.events = <<a>> /\ ~w.returned
    BY <1>6 DEF Going
  <2>6. t.remaining \in Nat /\ Tp1Part(t) \in 0..t.remaining
    BY MinIsTp1Part DEF SavedTrade
  <2>2. left > 0 => IsRest(t, late(left))
    BY <1>3, <2>6 DEF IsRest, IsExit
  <2>3. Append(<<a>>, late(left)) = <<a, late(left)>>
    BY ShortSequences
  <2>4. CASE left = 0
    <3>1. x = <<a>>
      BY <1>2, <2>1, <2>4
    <3> QED  BY <1>6, <1>10, <2>4, <3>1
  <2>5. CASE left > 0
    <3>1. x = <<a, late(left)>>
      BY <1>2, <2>1, <2>3, <2>5
    <3> QED  BY <1>6, <1>10, <2>2, <2>5, <3>1
  <2> QED  BY <1>4, <2>4, <2>5
<1>7. ASSUME NEW k, NEW q, w = Over(k, q) PROVE x = q
  BY <1>2, <1>7 DEF Over
<1>8. ASSUME NEW a, IsWhole(t, a), x = <<a>> PROVE r = 0
  BY <1>8, <1>10
<1>9. ASSUME NEW a, NEW b, IsTp1(t, a), IsRest(t, b), x = <<a, b>>
      PROVE  r = 0
  BY <1>9, <1>10
<1>11. r = 0
  BY <1>1, <1>5, <1>6, <1>7, <1>8, <1>9 DEF StageOf
<1> QED  BY <1>11 DEF x, r

\* The exits a price can bring.
StopOut(g, t, fill, at) ==
    Exit(StopKind(t.tp1Hit), t.remaining, ActiveStop(g, t.tp1Hit), fill, at)
Tp1Out(g, t, at) == Exit("TP1", Tp1Part(t), g.tp1, g.tp1, at)
Tp2Out(g, qty, at) == Exit("TP2", qty, g.tp2, g.tp2, at)
Late(qty, price, at) == Exit("TIMEOUT", qty, price, price, at)

\* evaluate_tick() on an open trade, case by case.
LEMMA TickIs ==
    ASSUME NEW g, NEW t \in SavedTrade, t.remaining # 0, NEW price, NEW at
    PROVE  LET stopped == Adverse(g.long, price, ActiveStop(g, t.tp1Hit))
               first == Reached(g.long, price, g.tp1)
               second == Reached(g.long, price, g.tp2)
               due == at - g.opened >= MaxHold
               rest == t.remaining - Tp1Part(t)
               x == EvaluateTick(g, t, price, at)
           IN
           /\ stopped => x = <<StopOut(g, t, price, at)>>
           /\ ~stopped /\ ~t.tp1Hit /\ first =>
                 x = IF rest > 0 /\ second THEN <<Tp1Out(g, t, at), Tp2Out(g, rest, at)>>
                     ELSE IF rest > 0 /\ due THEN <<Tp1Out(g, t, at), Late(rest, price, at)>>
                     ELSE <<Tp1Out(g, t, at)>>
           /\ ~stopped /\ (t.tp1Hit \/ ~first) =>
                 x = IF t.tp1Hit /\ second THEN <<Tp2Out(g, t.remaining, at)>>
                     ELSE IF due THEN <<Late(t.remaining, price, at)>>
                     ELSE <<>>
<1> DEFINE stopped == Adverse(g.long, price, ActiveStop(g, t.tp1Hit))
           first == Reached(g.long, price, g.tp1)
           second == Reached(g.long, price, g.tp2)
           due == at - g.opened >= MaxHold
           rest == t.remaining - Tp1Part(t)
           x == EvaluateTick(g, t, price, at)
<1>1. /\ t.remaining \in Nat /\ t.tp1Hit \in BOOLEAN
      /\ t.remaining - 0 = t.remaining /\ t.remaining > 0
  BY DEF SavedTrade
<1>2. stopped => x = <<StopOut(g, t, price, at)>>
  BY DEF EvaluateTick, StopOut
<1>3. ~stopped /\ ~t.tp1Hit /\ first =>
         x = IF rest > 0 /\ second THEN Append(<<Tp1Out(g, t, at)>>, Tp2Out(g, rest, at))
             ELSE IF rest > 0 /\ due THEN Append(<<Tp1Out(g, t, at)>>, Late(rest, price, at))
             ELSE <<Tp1Out(g, t, at)>>
  BY DEF EvaluateTick, Tp1Out, Tp2Out, Late
<1>4. ~stopped /\ (t.tp1Hit \/ ~first) =>
         x = IF t.tp1Hit /\ second THEN Append(<<>>, Tp2Out(g, t.remaining, at))
             ELSE IF due THEN Append(<<>>, Late(t.remaining, price, at))
             ELSE <<>>
  <2>1. CASE t.tp1Hit = TRUE
    BY <1>1, <2>1 DEF EvaluateTick, Tp2Out, Late
  <2>2. CASE t.tp1Hit = FALSE
    BY <1>1, <2>2 DEF EvaluateTick, Late
  <2> QED  BY <1>1, <2>1, <2>2
<1>5. \A a, b : Append(<<>>, a) = <<a>> /\ Append(<<a>>, b) = <<a, b>>
  BY ShortSequences
<1>6. /\ stopped => x = <<StopOut(g, t, price, at)>>
      /\ ~stopped /\ ~t.tp1Hit /\ first =>
            x = IF rest > 0 /\ second THEN <<Tp1Out(g, t, at), Tp2Out(g, rest, at)>>
                ELSE IF rest > 0 /\ due THEN <<Tp1Out(g, t, at), Late(rest, price, at)>>
                ELSE <<Tp1Out(g, t, at)>>
      /\ ~stopped /\ (t.tp1Hit \/ ~first) =>
            x = IF t.tp1Hit /\ second THEN <<Tp2Out(g, t.remaining, at)>>
                ELSE IF due THEN <<Late(t.remaining, price, at)>>
                ELSE <<>>
  <2> HIDE DEF stopped, first, second, due, rest, x
  <2> QED  BY <1>2, <1>3, <1>4, <1>5
<1> QED  BY <1>6, Zenon

LEMMA TickCloses ==
    ASSUME NEW g, NEW t \in SavedTrade, NEW price, NEW at, at - g.opened >= MaxHold
    PROVE  ApplyExits(t, EvaluateTick(g, t, price, at)).remaining = 0
<1> DEFINE x == EvaluateTick(g, t, price, at)
           r == ApplyExits(t, x).remaining
           rest == t.remaining - Tp1Part(t)
<1>1. PlanOf(t, x)
  BY TickPlan
<1>2. t.remaining \in Nat /\ t.tp1Hit \in BOOLEAN /\ rest \in Nat
  <2>1. t.remaining \in Nat /\ t.tp1Hit \in BOOLEAN
    BY DEF SavedTrade
  <2>2. Tp1Part(t) \in 0..t.remaining
    BY MinIsTp1Part
  <2> QED  BY <2>1, <2>2
<1>3. CASE t.remaining = 0
  <2>1. x = <<>>
    BY <1>3 DEF EvaluateTick
  <2> HIDE DEF x
  <2>2. r = t.remaining
    BY <1>1, <2>1, PlanRemains
  <2> QED  BY <1>3, <2>2 DEF x
<1>4. CASE t.remaining # 0
  <2> DEFINE stopped == Adverse(g.long, price, ActiveStop(g, t.tp1Hit))
             first == Reached(g.long, price, g.tp1)
             second == Reached(g.long, price, g.tp2)
             due == at - g.opened >= MaxHold
  <2>1. due
    OBVIOUS
  <2>2. /\ stopped => x = <<StopOut(g, t, price, at)>>
        /\ ~stopped /\ ~t.tp1Hit /\ first =>
              x = IF rest > 0 /\ second THEN <<Tp1Out(g, t, at), Tp2Out(g, rest, at)>>
                  ELSE IF rest > 0 /\ due THEN <<Tp1Out(g, t, at), Late(rest, price, at)>>
                  ELSE <<Tp1Out(g, t, at)>>
        /\ ~stopped /\ (t.tp1Hit \/ ~first) =>
              x = IF t.tp1Hit /\ second THEN <<Tp2Out(g, t.remaining, at)>>
                  ELSE IF due THEN <<Late(t.remaining, price, at)>>
                  ELSE <<>>
    BY <1>4, TickIs, Zenon
  <2> HIDE DEF x, r, rest, stopped, first, second, due
  <2>3. /\ IsWhole(t, StopOut(g, t, price, at)) /\ IsWhole(t, Late(t.remaining, price, at))
        /\ t.tp1Hit => IsWhole(t, Tp2Out(g, t.remaining, at))
        /\ ~t.tp1Hit => IsTp1(t, Tp1Out(g, t, at))
        /\ rest > 0 => IsRest(t, Tp2Out(g, rest, at)) /\ IsRest(t, Late(rest, price, at))
    <3>1. IsWhole(t, StopOut(g, t, price, at)) /\ IsWhole(t, Late(t.remaining, price, at))
      BY <1>2 DEF IsWhole, IsExit, StopOut, Late, Exit, StopKind
    <3>2. /\ t.tp1Hit => IsWhole(t, Tp2Out(g, t.remaining, at))
          /\ ~t.tp1Hit => IsTp1(t, Tp1Out(g, t, at))
      BY <1>2 DEF IsWhole, IsTp1, IsExit, Tp1Out, Tp2Out, Exit
    <3>4. t.remaining \in Nat /\ Tp1Part(t) \in 0..t.remaining
      BY MinIsTp1Part DEF SavedTrade
    <3>3. rest > 0 => IsRest(t, Tp2Out(g, rest, at)) /\ IsRest(t, Late(rest, price, at))
      BY <3>4 DEF IsRest, IsExit, Tp2Out, Late, Exit, rest
    <3> QED  BY <3>1, <3>2, <3>3
  <2>4. /\ \A a : x = <<a>> /\ IsTp1(t, a) => r = rest
        /\ \A a : x = <<a>> /\ IsWhole(t, a) => r = 0
        /\ \A a, b : x = <<a, b>> /\ IsTp1(t, a) /\ IsRest(t, b) => r = 0
    BY <1>1, PlanRemains DEF r, rest
  <2>5. rest > 0 \/ rest = 0
    BY <1>2 DEF rest
  <2>6. r = 0
    <3>1. CASE stopped
      BY <2>2, <2>3, <2>4, <3>1
    <3>2. CASE ~stopped /\ ~t.tp1Hit /\ first
      <4>1. IsTp1(t, Tp1Out(g, t, at))
        BY <2>3, <3>2
      <4> QED  BY <2>1, <2>2, <2>3, <2>4, <2>5, <3>2, <4>1
    <3>3. CASE ~stopped /\ (t.tp1Hit \/ ~first)
      BY <2>1, <2>2, <2>3, <2>4, <3>3
    <3> QED  BY <3>1, <3>2, <3>3
  <2> QED  BY <2>6 DEF r, x
<1> QED  BY <1>3, <1>4

-----------------------------------------------------------------------------
(* A tick, and a candle that never left its price.                         *)

\* advance()'s first candle after the trade was read, case by case.
LEMMA FirstStep ==
    ASSUME NEW g, NEW t \in SavedTrade, t.remaining # 0, NEW c
    PROVE  LET stopped == Adverse(g.long, Low(g, c), ActiveStop(g, t.tp1Hit))
               first == Reached(g.long, High(g, c), g.tp1)
               second == Reached(g.long, High(g, c), g.tp2)
               rest == t.remaining - Tp1Part(t)
               w == CandleStep(g, t, Start(t), c)
           IN
           /\ stopped =>
                 w = Over(t.tp1Hit, <<StopOut(g, t, ActiveStop(g, t.tp1Hit), c.time)>>)
           /\ ~stopped /\ ~t.tp1Hit /\ first =>
                 w = IF rest > 0 /\ second
                     THEN Over(TRUE, <<Tp1Out(g, t, c.time), Tp2Out(g, rest, c.time)>>)
                     ELSE Going(rest, TRUE, <<Tp1Out(g, t, c.time)>>)
           /\ ~stopped /\ (t.tp1Hit \/ ~first) =>
                 w = IF t.tp1Hit /\ second
                     THEN Over(t.tp1Hit, <<Tp2Out(g, t.remaining, c.time)>>)
                     ELSE Going(t.remaining, t.tp1Hit, <<>>)
<1> DEFINE stopped == Adverse(g.long, Low(g, c), ActiveStop(g, t.tp1Hit))
           first == Reached(g.long, High(g, c), g.tp1)
           second == Reached(g.long, High(g, c), g.tp2)
           rest == t.remaining - Tp1Part(t)
           w == CandleStep(g, t, Start(t), c)
           u == Going(t.remaining, t.tp1Hit, <<>>)
<1>1. /\ t.remaining \in Nat /\ t.tp1Hit \in BOOLEAN
      /\ t.remaining - 0 = t.remaining /\ t.remaining > 0
      /\ Min({Half(t.size), t.remaining}) = Tp1Part(t)
  BY MinIsTp1Part DEF SavedTrade
<1>2. w = CandleStep(g, t, u, c)
  BY DEF Start, Going
<1> HIDE DEF w
<1>3. stopped => w = Over(t.tp1Hit, Append(<<>>, StopOut(g, t, ActiveStop(g, t.tp1Hit), c.time)))
  BY <1>1, <1>2 DEF CandleStep, Going, Over, StopOut
<1>4. ~stopped /\ ~t.tp1Hit /\ first =>
         w = IF rest > 0 /\ second
             THEN Over(TRUE, <<>> \o <<Tp1Out(g, t, c.time)>> \o <<Tp2Out(g, rest, c.time)>>)
             ELSE Going(rest, TRUE, <<>> \o <<Tp1Out(g, t, c.time)>> \o <<>>)
  <2> SUFFICES ASSUME ~stopped, t.tp1Hit = FALSE, first
               PROVE  w = IF rest > 0 /\ second
                          THEN Over(TRUE, <<>> \o <<Tp1Out(g, t, c.time)>> \o <<Tp2Out(g, rest, c.time)>>)
                          ELSE Going(rest, TRUE, <<>> \o <<Tp1Out(g, t, c.time)>> \o <<>>)
    BY <1>1
  <2> QED  BY <1>1, <1>2 DEF CandleStep, Going, Over, Tp1Out, Tp2Out
<1>5. ~stopped /\ (t.tp1Hit \/ ~first) =>
         w = IF t.tp1Hit /\ second
             THEN Over(t.tp1Hit, <<>> \o <<>> \o <<Tp2Out(g, t.remaining, c.time)>>)
             ELSE Going(t.remaining, t.tp1Hit, <<>> \o <<>> \o <<>>)
  <2>1. CASE t.tp1Hit = TRUE
    BY <1>1, <1>2, <2>1 DEF CandleStep, Going, Over, Tp2Out
  <2>2. CASE t.tp1Hit = FALSE
    BY <1>1, <1>2, <2>2 DEF CandleStep, Going, Over
  <2> QED  BY <1>1, <2>1, <2>2
<1>6. \A a, b : /\ Append(<<>>, a) = <<a>> /\ <<>> \o <<a>> = <<a>> /\ <<a>> \o <<>> = <<a>>
                /\ <<a>> \o <<b>> = <<a, b>> /\ <<>> \o <<>> = <<>>
  BY ShortSequences
<1>7. /\ stopped =>
            w = Over(t.tp1Hit, <<StopOut(g, t, ActiveStop(g, t.tp1Hit), c.time)>>)
      /\ ~stopped /\ ~t.tp1Hit /\ first =>
            w = IF rest > 0 /\ second
                THEN Over(TRUE, <<Tp1Out(g, t, c.time), Tp2Out(g, rest, c.time)>>)
                ELSE Going(rest, TRUE, <<Tp1Out(g, t, c.time)>>)
      /\ ~stopped /\ (t.tp1Hit \/ ~first) =>
            w = IF t.tp1Hit /\ second
                THEN Over(t.tp1Hit, <<Tp2Out(g, t.remaining, c.time)>>)
                ELSE Going(t.remaining, t.tp1Hit, <<>>)
  <2> HIDE DEF stopped, first, second, rest
  <2> QED  BY <1>3, <1>4, <1>5, <1>6
<1> QED  BY <1>7, Zenon DEF w

LEMMA TickIsCandle ==
    ASSUME NEW g, NEW t \in SavedTrade, NEW price \in Int, NEW at \in Int
    PROVE  Outcome(EvaluateTick(g, t, price, at))
             = Outcome(Advance(g, t, <<Flat(price, at)>>, at))
<1> DEFINE c == Flat(price, at)
           w == Walk(g, t, <<c>>)
           tick == EvaluateTick(g, t, price, at)
           sweep == Advance(g, t, <<c>>, at)
           stopped == Adverse(g.long, price, ActiveStop(g, t.tp1Hit))
           first == Reached(g.long, price, g.tp1)
           second == Reached(g.long, price, g.tp2)
           due == at - g.opened >= MaxHold
           rest == t.remaining - Tp1Part(t)
<1>1. /\ c.time = at /\ c.close = price /\ Low(g, c) = price /\ High(g, c) = price
      /\ c \in AnyCandle
  BY DEF Flat, Low, High, AnyCandle
<1> HIDE DEF c
<1>2. /\ <<c>> \in Seq(AnyCandle) /\ Ordered(<<c>>) /\ <<c>> # <<>>
      /\ Len(<<c>>) = 1 /\ <<c>>[1] = c
  BY <1>1 DEF Ordered
<1>3. w = CandleStep(g, t, Start(t), c)
  <2>1. <<>> \in Seq(AnyCandle) /\ Append(<<>>, c) = <<c>>
    OBVIOUS
  <2>2. \A q \in Seq(AnyCandle) :
           Walk(g, t, <<>>) = Start(t) /\ Walk(g, t, Append(q, c)) = CandleStep(g, t, Walk(g, t, q), c)
    BY <1>1, WalkUnrolls
  <2> QED  BY <2>1, <2>2
<1>4. sweep = IF ~w.returned /\ w.left > 0 /\ due THEN Append(w.events, Late(w.left, price, at))
              ELSE w.events
  BY <1>1, <1>2, AdvanceIs DEF Late
<1>5. t.remaining \in Nat /\ t.tp1Hit \in BOOLEAN
  BY DEF SavedTrade
<1>6. CASE t.remaining = 0
  <2>1. w.left = 0 /\ w.events = <<>>
    BY <1>3, <1>6 DEF CandleStep, Start
  <2>2. tick = <<>>
    BY <1>6 DEF EvaluateTick
  <2> HIDE DEF w, tick, sweep
  <2>3. sweep = <<>>
    BY <1>4, <2>1
  <2> QED  BY <2>2, <2>3 DEF tick, sweep, c
<1>7. CASE t.remaining # 0
  <2>1. /\ stopped => tick = <<StopOut(g, t, price, at)>>
        /\ ~stopped /\ ~t.tp1Hit /\ first =>
              tick = IF rest > 0 /\ second THEN <<Tp1Out(g, t, at), Tp2Out(g, rest, at)>>
                     ELSE IF rest > 0 /\ due THEN <<Tp1Out(g, t, at), Late(rest, price, at)>>
                     ELSE <<Tp1Out(g, t, at)>>
        /\ ~stopped /\ (t.tp1Hit \/ ~first) =>
              tick = IF t.tp1Hit /\ second THEN <<Tp2Out(g, t.remaining, at)>>
                     ELSE IF due THEN <<Late(t.remaining, price, at)>>
                     ELSE <<>>
    BY <1>7, TickIs, Zenon
  <2>2. /\ stopped =>
              w = Over(t.tp1Hit, <<StopOut(g, t, ActiveStop(g, t.tp1Hit), at)>>)
        /\ ~stopped /\ ~t.tp1Hit /\ first =>
              w = IF rest > 0 /\ second
                  THEN Over(TRUE, <<Tp1Out(g, t, at), Tp2Out(g, rest, at)>>)
                  ELSE Going(rest, TRUE, <<Tp1Out(g, t, at)>>)
        /\ ~stopped /\ (t.tp1Hit \/ ~first) =>
              w = IF t.tp1Hit /\ second
                  THEN Over(t.tp1Hit, <<Tp2Out(g, t.remaining, at)>>)
                  ELSE Going(t.remaining, t.tp1Hit, <<>>)
    BY <1>1, <1>3, <1>7, FirstStep
  <2> HIDE DEF w, tick, sweep, stopped, first, second, due, rest
  <2>3. CASE stopped
    <3>1. WithoutFill(StopOut(g, t, price, at))
            = WithoutFill(StopOut(g, t, ActiveStop(g, t.tp1Hit), at))
      BY DEF WithoutFill, StopOut, Exit
    <3>2. sweep = <<StopOut(g, t, ActiveStop(g, t.tp1Hit), at)>>
      BY <1>4, <2>2, <2>3 DEF Over
    <3>3. \A a : Outcome(<<a>>) = <<WithoutFill(a)>>
      BY DEF Outcome
    <3>4. Outcome(tick) = Outcome(sweep)
      BY <2>1, <2>3, <3>1, <3>2, <3>3
    <3> QED  BY <3>4 DEF tick, sweep, c
  <2>4. \A a, b : Append(<<>>, a) = <<a>> /\ Append(<<a>>, b) = <<a, b>>
    BY ShortSequences
  <2>5. CASE ~stopped /\ ~t.tp1Hit /\ first
    <3>1. CASE rest > 0 /\ second
      <4>1. w.returned /\ w.events = <<Tp1Out(g, t, at), Tp2Out(g, rest, at)>>
        BY <2>2, <2>5, <3>1 DEF Over
      <4>2. sweep = tick
        BY <1>4, <2>1, <2>5, <3>1, <4>1
      <4> QED  BY <4>2 DEF tick, sweep, c
    <3>2. CASE ~(rest > 0 /\ second)
      <4>1. ~w.returned /\ w.left = rest /\ w.events = <<Tp1Out(g, t, at)>>
        <5>1. w = Going(rest, TRUE, <<Tp1Out(g, t, at)>>)
          BY <2>2, <2>5, <3>2
        <5> QED  BY <5>1 DEF Going
      <4>2. sweep = tick
        BY <1>4, <2>1, <2>4, <2>5, <3>2, <4>1
      <4> QED  BY <4>2 DEF tick, sweep, c
    <3> QED  BY <3>1, <3>2
  <2>6. CASE ~stopped /\ (t.tp1Hit \/ ~first)
    <3>1. CASE t.tp1Hit /\ second
      <4>1. w.returned /\ w.events = <<Tp2Out(g, t.remaining, at)>>
        BY <2>2, <2>6, <3>1 DEF Over
      <4>2. sweep = tick
        BY <1>4, <2>1, <2>6, <3>1, <4>1
      <4> QED  BY <4>2 DEF tick, sweep, c
    <3>2. CASE ~(t.tp1Hit /\ second)
      <4>1. ~w.returned /\ w.left = t.remaining /\ w.events = <<>>
        BY <2>2, <2>6, <3>2 DEF Going
      <4>2. t.remaining > 0
        BY <1>5, <1>7
      <4>3. sweep = tick
        BY <1>4, <2>1, <2>4, <2>6, <3>2, <4>1, <4>2
      <4> QED  BY <4>3 DEF tick, sweep, c
    <3> QED  BY <3>1, <3>2
  <2> QED  BY <2>3, <2>5, <2>6
<1> QED  BY <1>6, <1>7

-----------------------------------------------------------------------------
(* A sweep cut in two.                                                     *)

\* The loop's state behind exits that an earlier sweep has saved.
After(saved, w) ==
    [left |-> w.left, hit |-> w.hit, events |-> saved \o w.events, returned |-> w.returned]

LEMMA ConcatMoves ==
    ASSUME NEW A, NEW a \in Seq(A), NEW Y, NEW b \in Seq(Y), NEW c
    PROVE  Append(a \o b, c) = a \o Append(b, c)
<1> DEFINE Z == A \union Y \union {c}
<1>1. a \in Seq(Z) /\ b \in Seq(Z) /\ c \in Z
  OBVIOUS
<1> HIDE DEF Z
<1>2. a \o b \in Seq(Z) /\ <<c>> \in Seq(Z)
  BY <1>1, ConcatProperties
<1>3. Append(a \o b, c) = (a \o b) \o <<c>> /\ Append(b, c) = b \o <<c>>
  BY <1>1, <1>2, AppendIsConcat
<1> QED  BY <1>1, <1>2, <1>3, ConcatAssociative

IsSequence(s) == \E Z : s \in Seq(Z)

Regrouped(a, b, p, q) == (a \o b) \o p \o q = a \o (b \o p \o q)

LEMMA ConcatRegroups ==
    ASSUME NEW a, NEW b, NEW p, NEW q,
           IsSequence(a), IsSequence(b), IsSequence(p), IsSequence(q)
    PROVE  Regrouped(a, b, p, q)
<1>0. PICK A, Y, P, D : a \in Seq(A) /\ b \in Seq(Y) /\ p \in Seq(P) /\ q \in Seq(D)
  BY DEF IsSequence
<1> DEFINE Z == A \union Y \union P \union D
<1>1. a \in Seq(Z) /\ b \in Seq(Z) /\ p \in Seq(Z) /\ q \in Seq(Z)
  BY <1>0
<1> HIDE DEF Z
<1>2. (a \o b) \o p = a \o (b \o p)
  BY <1>1, ConcatAssociative
<1>3. b \o p \in Seq(Z)
  BY <1>1, ConcatProperties
<1>4. (a \o (b \o p)) \o q = a \o ((b \o p) \o q)
  <2>1. PICK r \in Seq(Z) : r = b \o p
    BY <1>3
  <2>2. (a \o r) \o q = a \o (r \o q)
    BY <1>1, <2>1, ConcatAssociative
  <2> QED  BY <2>1, <2>2
<1> QED  BY <1>2, <1>4 DEF Regrouped

IsWalk(w) ==
    \E left : \E hit \in BOOLEAN, returned \in BOOLEAN : \E A : \E events \in Seq(A) :
       w = [left |-> left, hit |-> hit, events |-> events, returned |-> returned]

LEMMA StagesAreWalks ==
    ASSUME NEW t \in SavedTrade, NEW w, StageOf(t, w)
    PROVE  IsWalk(w)
<1>1. t.tp1Hit \in BOOLEAN /\ TRUE \in BOOLEAN /\ FALSE \in BOOLEAN
  BY DEF SavedTrade
<1>2. <<>> \in Seq({0}) /\ \A a, b : <<a>> \in Seq({a}) /\ <<a, b>> \in Seq({a, b})
  OBVIOUS
<1>3. ASSUME NEW left, NEW hit \in BOOLEAN, NEW A, NEW events \in Seq(A)
      PROVE  IsWalk(Going(left, hit, events)) /\ IsWalk(Over(hit, events))
  <2>1. IsWalk(Going(left, hit, events))
    BY <1>1 DEF IsWalk, Going
  <2>2. IsWalk(Over(hit, events))
    BY <1>1 DEF IsWalk, Over
  <2> QED  BY <2>1, <2>2
<1>4. IsWalk(Going(t.remaining, t.tp1Hit, <<>>))
  BY <1>1, <1>2, <1>3
<1>5. ASSUME NEW k \in BOOLEAN, NEW a PROVE IsWalk(Going(t.remaining - Tp1Part(t), k, <<a>>))
  BY <1>2, <1>3
<1>6. ASSUME NEW a PROVE IsWalk(Over(t.tp1Hit, <<a>>))
  BY <1>1, <1>2, <1>3
<1>7. ASSUME NEW k \in BOOLEAN, NEW a, NEW b PROVE IsWalk(Over(k, <<a, b>>))
  BY <1>2, <1>3
<1> QED  BY <1>4, <1>5, <1>6, <1>7 DEF StageOf

\* The loop's state once the stop has closed what was left.
StopsWith(w, x) == [w EXCEPT !.events = Append(@, x), !.left = 0, !.returned = TRUE]

LEMMA StopsIsOver ==
    ASSUME NEW k, IsWalk(k), NEW x
    PROVE  StopsWith(k, x) = Over(k.hit, Append(k.events, x))
<1> DEFINE fields == {"left", "hit", "events", "returned"}
           a == StopsWith(k, x)
           b == Over(k.hit, Append(k.events, x))
<1>1. PICK l, h, e, r : k = [left |-> l, hit |-> h, events |-> e, returned |-> r]
  BY DEF IsWalk
<1>2. a = [q \in fields |-> a[q]] /\ b = [q \in fields |-> b[q]]
  BY <1>1 DEF StopsWith, Over
<1>3. a.left = 0 /\ a.hit = k.hit /\ a.events = Append(k.events, x) /\ a.returned = TRUE
  BY <1>1 DEF StopsWith
<1>4. b.left = 0 /\ b.hit = k.hit /\ b.events = Append(k.events, x) /\ b.returned = TRUE
  BY DEF Over
<1> HIDE DEF a, b
<1>5. \A q \in fields : a[q] = b[q]
  BY <1>3, <1>4
<1> HIDE DEF fields
<1>6. a = b
  BY <1>2, <1>5
<1> QED  BY <1>6 DEF a, b

LEMMA StepAfter ==
    ASSUME NEW g, NEW t, NEW v, t.size = v.size, NEW A, NEW saved \in Seq(A),
           NEW w, IsWalk(w), NEW c
    PROVE  CandleStep(g, t, After(saved, w), c) = After(saved, CandleStep(g, v, w, c))
<1> DEFINE u == After(saved, w)
           stopped == Adverse(g.long, Low(g, c), ActiveStop(g, w.hit))
           out == Exit(StopKind(w.hit), w.left, ActiveStop(g, w.hit), ActiveStop(g, w.hit), c.time)
           tp1Now == ~w.hit /\ Reached(g.long, High(g, c), g.tp1)
           half == IF tp1Now THEN Min({Half(v.size), w.left}) ELSE 0
           rest == w.left - half
           taken == IF tp1Now THEN <<Exit("TP1", half, g.tp1, g.tp1, c.time)>> ELSE <<>>
           tp2Now == (w.hit \/ tp1Now) /\ rest > 0 /\ Reached(g.long, High(g, c), g.tp2)
           final == IF tp2Now THEN <<Exit("TP2", rest, g.tp2, g.tp2, c.time)>> ELSE <<>>
           Ended(e) == Over(w.hit, Append(e, out))
           Passed(e) == [left |-> IF tp2Now THEN 0 ELSE rest, hit |-> w.hit \/ tp1Now,
                         events |-> e \o taken \o final, returned |-> tp2Now]
<1>1. /\ w = [left |-> w.left, hit |-> w.hit, events |-> w.events, returned |-> w.returned]
      /\ \E Y : w.events \in Seq(Y)
  BY DEF IsWalk
<1>2. /\ u.left = w.left /\ u.hit = w.hit /\ u.events = saved \o w.events
      /\ u.returned = w.returned
  BY DEF After
<1>3. CASE w.returned \/ w.left = 0
  <2>1. CandleStep(g, v, w, c) = w
    BY <1>3 DEF CandleStep
  <2>2. CandleStep(g, t, u, c) = u
    <3> HIDE DEF u
    <3> QED  BY <1>2, <1>3 DEF CandleStep
  <2> QED  BY <2>1, <2>2
<1>4. CASE ~(w.returned \/ w.left = 0) /\ stopped
  <2>1. CandleStep(g, v, w, c) = Ended(w.events)
    <3>1. StopsWith(w, out) = Ended(w.events)
      BY StopsIsOver
    <3>2. CandleStep(g, v, w, c) = StopsWith(w, out)
      BY <1>4 DEF CandleStep, StopsWith
    <3> QED  BY <3>1, <3>2
  <2>2. CandleStep(g, t, u, c) = Ended(saved \o w.events)
    <3>1. IsWalk(u)
      <4>1. PICK Y : w.events \in Seq(Y)
        BY <1>1
      <4>2. saved \o w.events \in Seq(A \union Y)
        <5>1. saved \in Seq(A \union Y) /\ w.events \in Seq(A \union Y)
          BY <4>1
        <5> QED  BY <5>1, ConcatProperties
      <4>3. w.hit \in BOOLEAN /\ w.returned \in BOOLEAN
        BY DEF IsWalk
      <4> QED  BY <4>2, <4>3 DEF After, IsWalk
    <3> HIDE DEF u
    <3>2. StopsWith(u, out) = Ended(saved \o w.events)
      <4>1. StopsWith(u, out) = Over(u.hit, Append(u.events, out))
        BY <3>1, StopsIsOver
      <4> QED  BY <1>2, <4>1
    <3>3. CandleStep(g, t, u, c) = StopsWith(u, out)
      BY <1>2, <1>4 DEF CandleStep, StopsWith
    <3> QED  BY <3>2, <3>3
  <2> HIDE DEF out
  <2>3. Append(saved \o w.events, out) = saved \o Append(w.events, out)
    <3>1. PICK Y : w.events \in Seq(Y)
      BY <1>1
    <3>2. \A e \in Seq(Y) : \A x : Append(saved \o e, x) = saved \o Append(e, x)
      BY ConcatMoves
    <3> QED  BY <3>1, <3>2
  <2>4. Ended(saved \o w.events) = After(saved, Ended(w.events))
    BY <2>3 DEF After, Over
  <2> QED  BY <2>1, <2>2, <2>4
<1>5. CASE ~(w.returned \/ w.left = 0) /\ ~stopped
  <2>1. CandleStep(g, v, w, c) = Passed(w.events)
    BY <1>5 DEF CandleStep
  <2>2. CandleStep(g, t, u, c) = Passed(saved \o w.events)
    <3> HIDE DEF u
    <3> QED  BY <1>2, <1>5 DEF CandleStep
  <2>3. saved \o w.events \o taken \o final = saved \o (w.events \o taken \o final)
    <3> HIDE DEF tp1Now, tp2Now, half, rest
    <3>1. \A a : <<a>> \in Seq({a}) /\ <<>> \in Seq({a})
      OBVIOUS
    <3>2. IsSequence(saved) /\ IsSequence(w.events)
      BY <1>1 DEF IsSequence
    <3>3. IsSequence(taken)
      BY <3>1 DEF IsSequence
    <3>4. IsSequence(final)
      BY <3>1 DEF IsSequence
    <3> HIDE DEF taken, final
    <3>5. Regrouped(saved, w.events, taken, final)
      BY <3>2, <3>3, <3>4, ConcatRegroups
    <3> QED  BY <3>5 DEF Regrouped
  <2> HIDE DEF taken, final, tp1Now, tp2Now, half, rest
  <2>4. Passed(saved \o w.events) = After(saved, Passed(w.events))
    BY <2>3 DEF After
  <2> QED  BY <2>1, <2>2, <2>4
<1> QED  BY <1>3, <1>4, <1>5

\* The loop's state, as the trade's record holds it once its exits are saved: closed, or
\* what the next sweep starts from.
Carries(w, v) ==
    /\ \/ v.remaining = 0 /\ (w.returned \/ w.left = 0)
       \/ w = After(w.events, Start(v))
    /\ IsSequence(w.events)

\* The loop over `p` and then `s` is the loop over `p`, and behind it the one over `s` for
\* the trade `v`, or nothing when the trade was closed.
Resumed(g, t, v, p, s) ==
    LET h == Walk(g, t, p)
        w == Walk(g, t, p \o s)
        r == Walk(g, v, s)
    IN  \/ r = Start(v) /\ v.remaining = 0 /\ w = h /\ (h.returned \/ h.left = 0)
        \/ w = After(h.events, r)

\* What the candles `p` left of the trade is what the sweep of the others starts from.
LEMMA WalkResumes ==
    ASSUME NEW g, NEW t \in SavedTrade, NEW v \in SavedTrade, t.size = v.size,
           NEW C, NEW p \in Seq(C), Carries(Walk(g, t, p), v), NEW s \in Seq(C)
    PROVE  Resumed(g, t, v, p, s)
<1> DEFINE h == Walk(g, t, p)
           Same(u) == Resumed(g, t, v, p, u)
           N == {n \in Nat : \A u \in Seq(C) : Len(u) = n => Same(u)}
<1>0. PICK A : h.events \in Seq(A)
  BY DEF Carries, IsSequence
<1>1. 0 \in N
  <2> SUFFICES ASSUME NEW u \in Seq(C), Len(u) = 0 PROVE Same(u)
    OBVIOUS
  <2>1. u = <<>>
    BY EmptySeq
  <2>2. Walk(g, v, <<>>) = Start(v)
    <3>1. <<>> \in Seq({0}) /\ 0 \in {0}
      OBVIOUS
    <3> QED  BY <3>1, WalkUnrolls
  <2>3. p \o <<>> = p
    BY ConcatEmptySeq
  <2> QED  BY <2>1, <2>2, <2>3 DEF Resumed, Carries
<1>2. ASSUME NEW n \in N PROVE n + 1 \in N
  <2> SUFFICES ASSUME NEW u \in Seq(C), Len(u) = n + 1 PROVE Same(u)
    OBVIOUS
  <2>1. PICK q \in Seq(C), c \in C : u = Append(q, c)
    <3>1. u # <<>>
      <4>1. n + 1 # 0 /\ Len(<<>>) = 0
        OBVIOUS
      <4> QED  BY <4>1
    <3> QED  BY <3>1, SequenceEmptyOrAppend
  <2>2. Len(q) = n
    BY <2>1
  <2>3. Same(q)
    BY <2>2
  <2>4. p \o u = Append(p \o q, c)
    BY <2>1, ConcatMoves
  <2>5. p \o q \in Seq(C)
    BY ConcatProperties
  <2>6. /\ Walk(g, v, u) = CandleStep(g, v, Walk(g, v, q), c)
        /\ Walk(g, t, p \o u) = CandleStep(g, t, Walk(g, t, p \o q), c)
    <3>1. Walk(g, v, Append(q, c)) = CandleStep(g, v, Walk(g, v, q), c)
      BY WalkUnrolls
    <3>2. Walk(g, t, Append(p \o q, c)) = CandleStep(g, t, Walk(g, t, p \o q), c)
      <4>1. \A z \in Seq(C) : Walk(g, t, Append(z, c)) = CandleStep(g, t, Walk(g, t, z), c)
        BY WalkUnrolls
      <4> QED  BY <2>5, <4>1
    <3> QED  BY <2>1, <2>4, <3>1, <3>2
  <2>7. CASE /\ Walk(g, v, q) = Start(v) /\ v.remaining = 0
             /\ Walk(g, t, p \o q) = h /\ (h.returned \/ h.left = 0)
    <3>1. CandleStep(g, v, Start(v), c) = Start(v)
      BY <2>7 DEF CandleStep, Start
    <3>2. CandleStep(g, t, h, c) = h
      <4> HIDE DEF h
      <4> QED  BY <2>7 DEF CandleStep
    <3> QED  BY <2>6, <2>7, <3>1, <3>2 DEF Resumed
  <2>8. CASE Walk(g, t, p \o q) = After(h.events, Walk(g, v, q))
    <3>1. StageOf(v, Walk(g, v, q))
      BY WalkKeeps
    <3>2. IsWalk(Walk(g, v, q))
      BY <3>1, StagesAreWalks
    <3>3. CandleStep(g, t, After(h.events, Walk(g, v, q)), c)
            = After(h.events, CandleStep(g, v, Walk(g, v, q), c))
      BY <1>0, <3>2, StepAfter
    <3> QED  BY <2>6, <2>8, <3>3 DEF Resumed
  <2> QED  BY <2>3, <2>7, <2>8 DEF Resumed
<1>3. N = Nat
  <2> HIDE DEF N
  <2>1. N \in SUBSET Nat  BY DEF N
  <2> QED  BY <1>1, <1>2, <2>1, NatSetInduction
<1> QED  BY <1>3, LenProperties

\* Two sweeps, the second of the trade as the first one's exits left it, make the exits
\* of one.
Joined(g, t, p, s, now) ==
    LET h == Advance(g, t, p, now)
    IN  Advance(g, t, p \o s, now) = h \o Advance(g, ApplyExits(t, h), s, now)

LEMMA SweepsJoin ==
    ASSUME NEW g, NEW t \in SavedTrade, NEW p \in Seq(AnyCandle), NEW s \in Seq(AnyCandle),
           Ordered(p), Ordered(s), Ordered(p \o s),
           NEW now, ~(now - g.opened >= MaxHold)
    PROVE  Joined(g, t, p, s, now)
<1> DEFINE w == Walk(g, t, p)
           h == Advance(g, t, p, now)
           v == ApplyExits(t, h)
<1>1. p \o s \in Seq(AnyCandle)
  BY ConcatProperties
<1>2. /\ h = w.events /\ Advance(g, t, p \o s, now) = Walk(g, t, p \o s).events
      /\ Advance(g, v, s, now) = Walk(g, v, s).events
  BY <1>1, AdvanceIs
<1>3. StageOf(t, w) /\ PlanOf(t, h)
  BY WalkKeeps, AdvancePlan
<1>4. v \in SavedTrade /\ v.size = t.size /\ v.tp1Hit \in BOOLEAN
  <2>1. v \in SavedTrade /\ v.size = t.size
    BY <1>3, PlanLeaves
  <2> HIDE DEF v
  <2> QED  BY <2>1 DEF SavedTrade
<1> HIDE DEF w, h
<1>5. Carries(w, v)
  <2>1. CASE w = Going(t.remaining, t.tp1Hit, <<>>)
    <3>1. w.events = <<>> /\ v = t
      BY <1>2, <1>3, <2>1, PlanLeaves DEF Going
    <3>2. After(<<>>, Start(t)) = Going(t.remaining, t.tp1Hit, <<>>)
      BY ShortSequences DEF After, Start, Going
    <3>3. <<>> \in Seq({0})
      OBVIOUS
    <3> QED  BY <2>1, <3>1, <3>2, <3>3 DEF Carries, IsSequence
  <2>2. ASSUME NEW k \in BOOLEAN, k, NEW a, IsTp1(t, a), w = Going(t.remaining - Tp1Part(t), k, <<a>>)
        PROVE  Carries(w, v)
    <3>1. w.events = <<a>>
      BY <2>2 DEF Going
    <3>2. v.remaining = t.remaining - Tp1Part(t) /\ v.tp1Hit
      BY <1>2, <1>3, <2>2, <3>1, PlanLeaves
    <3>3. v.tp1Hit = k
      BY <1>4, <2>2, <3>2
    <3>4. After(<<a>>, Start(v)) = Going(v.remaining, v.tp1Hit, <<a>>)
      <4> HIDE DEF v
      <4> QED  BY ShortSequences DEF After, Start, Going
    <3>5. <<a>> \in Seq({a})
      OBVIOUS
    <3> HIDE DEF v
    <3> QED  BY <2>2, <3>1, <3>2, <3>3, <3>4, <3>5 DEF Carries, IsSequence
  <2>3. ASSUME NEW a, IsWhole(t, a), w = Over(t.tp1Hit, <<a>>) PROVE Carries(w, v)
    <3>1. w.events = <<a>> /\ w.returned
      BY <2>3 DEF Over
    <3>2. v.remaining = 0
      BY <1>2, <1>3, <2>3, <3>1, PlanLeaves
    <3>3. <<a>> \in Seq({a})
      OBVIOUS
    <3> HIDE DEF v
    <3> QED  BY <3>1, <3>2, <3>3 DEF Carries, IsSequence
  <2>4. ASSUME NEW k \in BOOLEAN, NEW a, NEW b, IsTp1(t, a), IsRest(t, b), w = Over(k, <<a, b>>)
        PROVE  Carries(w, v)
    <3>1. w.events = <<a, b>> /\ w.returned
      BY <2>4 DEF Over
    <3>2. v.remaining = 0
      BY <1>2, <1>3, <2>4, <3>1, PlanLeaves
    <3>3. <<a, b>> \in Seq({a, b})
      OBVIOUS
    <3> HIDE DEF v
    <3> QED  BY <3>1, <3>2, <3>3 DEF Carries, IsSequence
  <2> HIDE DEF v
  <2> QED  BY <1>3, <2>1, <2>2, <2>3, <2>4 DEF StageOf
<1> HIDE DEF v
<1>6. PICK A : w.events \in Seq(A)
  BY <1>5 DEF Carries, IsSequence
<1>7. \/ Walk(g, v, s) = Start(v) /\ Walk(g, t, p \o s) = w
      \/ Walk(g, t, p \o s) = After(w.events, Walk(g, v, s))
  <2>1. Resumed(g, t, v, p, s)
    BY <1>4, <1>5, WalkResumes DEF w
  <2> QED  BY <2>1 DEF Resumed, w
<1>8. CASE Walk(g, v, s) = Start(v) /\ Walk(g, t, p \o s) = w
  <2>1. Start(v).events = <<>>
    BY DEF Start
  <2>2. w.events \o <<>> = w.events
    <3>1. \A e \in Seq(A) : e \o <<>> = e
      BY ConcatEmptySeq
    <3> QED  BY <1>6, <3>1
  <2>3. h = w.events /\ Advance(g, t, p \o s, now) = w.events /\ Advance(g, v, s, now) = <<>>
    BY <1>2, <1>8, <2>1
  <2>4. Advance(g, t, p \o s, now) = h \o Advance(g, v, s, now)
    BY <2>2, <2>3
  <2> QED  BY <2>4 DEF Joined, v, h
<1>9. CASE Walk(g, t, p \o s) = After(w.events, Walk(g, v, s))
  <2>1. After(w.events, Walk(g, v, s)).events = w.events \o Walk(g, v, s).events
    BY DEF After
  <2>2. Advance(g, t, p \o s, now) = h \o Advance(g, v, s, now)
    BY <1>2, <1>9, <2>1
  <2> QED  BY <2>2 DEF Joined, v, h
<1> QED  BY <1>7, <1>8, <1>9

-----------------------------------------------------------------------------
(* The exit rules in a state of their module.                              *)

FeedInv ==
    /\ geometry \in Geometries /\ size \in Nat
    /\ feed \in Seq(AnyCandle)
    /\ \A i \in DOMAIN feed : feed[i].time = i

LEMMA ExitsAgree ==
    ASSUME FeedInv
    PROVE  SweepsCompose /\ TickAgreesWithCandle /\ PlansAreKnown /\ DeadlineCloses
<1>1. /\ geometry.opened = 0 /\ MaxHold \in Nat
      /\ Early \in Int /\ MaxHold \in Int /\ Price \subseteq Int
      /\ ~(Early - geometry.opened >= MaxHold) /\ MaxHold - geometry.opened >= MaxHold
  <2>1. geometry.opened = 0
    BY DEF FeedInv, Geometries, LongAt, ShortAt
  <2> QED  BY <2>1, MaxHoldAssumption DEF Early, Price
<1>2. feed \in Seq(AnyCandle) /\ Len(feed) \in Nat /\ DOMAIN feed = 1..Len(feed)
      /\ \A i \in 1..Len(feed) : feed[i].time = i
  BY DEF FeedInv
<1>3. Ordered(feed)
  <2>1. \A i, j \in 1..Len(feed) : i < j => feed[i].time < feed[j].time
    BY <1>2
  <2> QED  BY <1>2, <2>1 DEF Ordered
<1>4. Opened \in SavedTrade
  BY DEF Opened, NewTrade, SavedTrade, FeedInv
<1>5. Progress \subseteq SavedTrade
  <2>1. PlanOf(Opened, Advance(geometry, Opened, feed, Early))
    BY <1>2, <1>3, <1>4, AdvancePlan
  <2>2. ApplyExits(Opened, Advance(geometry, Opened, feed, Early)) \in SavedTrade
    BY <1>4, <2>1, PlanLeaves
  <2> QED  BY <1>4, <2>2 DEF Progress
<1>6. SweepsCompose
  <2> SUFFICES ASSUME NEW n \in 0..Len(feed)
               PROVE  LET head == Advance(geometry, Opened, SubSeq(feed, 1, n), Early)
                          tail == Advance(geometry, ApplyExits(Opened, head),
                                          SubSeq(feed, n + 1, Len(feed)), Early)
                      IN  Advance(geometry, Opened, feed, Early) = head \o tail
    BY DEF SweepsCompose
  <2> DEFINE p == SubSeq(feed, 1, n)
             s == SubSeq(feed, n + 1, Len(feed))
  <2>1. /\ 1 \in 1..Len(feed) + 1 /\ n \in 1 - 1..Len(feed) /\ Len(feed) \in n..Len(feed)
        /\ n \in Int /\ n + 1 \in 1..Len(feed) + 1
    BY <1>2
  <2>2. p \o s = feed
    <3>1. p \o s = SubSeq(feed, 1, Len(feed))
      BY <1>2, <2>1, ConcatAdjacentSubSeq
    <3> QED  BY <1>2, <3>1, SubSeqFull
  <2>3. p \in Seq(AnyCandle) /\ s \in Seq(AnyCandle)
    BY <1>2
  <2>4. Ordered(p)
    <3>1. \A i \in DOMAIN p : i \in 1..n /\ p[i] = feed[i]
      BY <1>2, <2>1
    <3>2. \A i \in DOMAIN p : i \in Int /\ p[i].time = i
      BY <1>2, <2>1, <3>1
    <3> HIDE DEF p
    <3> QED  BY <3>2 DEF Ordered
  <2>5. Ordered(s)
    <3>1. \A i \in DOMAIN s : i \in Int /\ n + i \in 1..Len(feed) /\ s[i] = feed[n + i]
      BY <1>2, <2>1
    <3>2. \A i \in DOMAIN s : i \in Int /\ s[i].time = n + i
      BY <1>2, <3>1
    <3> HIDE DEF s
    <3> QED  BY <2>1, <3>2 DEF Ordered
  <2> HIDE DEF p, s
  <2>6. Joined(geometry, Opened, p, s, Early)
    <3>1. Ordered(p \o s) /\ ~(Early - geometry.opened >= MaxHold)
      BY <1>1, <1>3, <2>2
    <3> HIDE DEF Early, Opened
    <3> QED  BY <1>4, <2>3, <2>4, <2>5, <3>1, SweepsJoin
  <2> QED  BY <2>2, <2>6 DEF Joined, p, s
<1>7. TickAgreesWithCandle
  <2>1. \A t \in Progress, price \in Price, at \in {Early, MaxHold} :
           t \in SavedTrade /\ price \in Int /\ at \in Int
    BY <1>1, <1>5
  <2> QED  BY <2>1, TickIsCandle DEF TickAgreesWithCandle
<1>8. PlansAreKnown
  <2>1. ASSUME NEW t \in Progress, NEW now
        PROVE  ShapeOf(Advance(geometry, t, feed, now)) \in PlanShapes(t)
    <3>1. PlanOf(t, Advance(geometry, t, feed, now))
      BY <1>2, <1>3, <1>5, AdvancePlan
    <3> QED  BY <1>5, <3>1, PlanIsKnown
  <2>2. ASSUME NEW t \in Progress, NEW price, NEW at
        PROVE  ShapeOf(EvaluateTick(geometry, t, price, at)) \in PlanShapes(t)
    <3>1. PlanOf(t, EvaluateTick(geometry, t, price, at))
      BY <1>5, TickPlan
    <3> QED  BY <1>5, <3>1, PlanIsKnown
  <2> QED  BY <2>1, <2>2 DEF PlansAreKnown
<1>9. DeadlineCloses
  <2>1. ASSUME NEW t \in Progress, feed # <<>>
        PROVE  ApplyExits(t, Advance(geometry, t, feed, MaxHold)).remaining = 0
    BY <1>1, <1>2, <1>3, <1>5, <2>1, SweepCloses
  <2>2. ASSUME NEW t \in Progress, NEW price
        PROVE  ApplyExits(t, EvaluateTick(geometry, t, price, MaxHold)).remaining = 0
    BY <1>1, <1>5, TickCloses
  <2> QED  BY <2>1, <2>2 DEF DeadlineCloses
<1> QED  BY <1>6, <1>7, <1>8, <1>9

-----------------------------------------------------------------------------
(* One candle of each reading.                                             *)

\* Stops, targets and what they earn are numbers.
LEMMA Rewards ==
    /\ O!Stop = -2 /\ O!Lost = -4 /\ O!Tp1 \in Nat /\ O!Tp2 \in Nat
    /\ O!Banked = O!Tp1 /\ O!Full = O!Tp1 + O!Tp2
BY OutcomeAssumption DEF O!Stop, O!Lost, O!Tp1, O!Tp2, O!Banked, O!Full

\* A candle's prices are numbers, and its close lies between its extremes.
LEMMA CandlesAreNumbers ==
    ASSUME NEW c \in O!Candle
    PROVE  c.low \in Int /\ c.high \in Int /\ c.close \in Int /\ c.low <= c.close /\ c.close <= c.high
BY OutcomeAssumption DEF O!Candle

\* Induction over sequences that grow at their end.
LEMMA SequencesGrow ==
    ASSUME NEW C, NEW N \in SUBSET Seq(C), <<>> \in N, \A s \in N, c \in C : Append(s, c) \in N
    PROVE  N = Seq(C)
<1> DEFINE K == {n \in Nat : \A s \in Seq(C) : Len(s) = n => s \in N}
<1>1. 0 \in K
  OBVIOUS
<1>2. ASSUME NEW n \in K PROVE n + 1 \in K
  <2> SUFFICES ASSUME NEW s \in Seq(C), Len(s) = n + 1 PROVE s \in N
    OBVIOUS
  <2> DEFINE front == SubSeq(s, 1, n)
  <2>1. n \in Nat /\ front \in Seq(C) /\ Len(front) = n /\ s[n + 1] \in C
    OBVIOUS
  <2>2. s = Append(front, s[n + 1])
    <3>1. Append(front, s[n + 1]) \in Seq(C) /\ Len(Append(front, s[n + 1])) = n + 1
      BY <2>1
    <3>2. \A i \in 1..n + 1 : Append(front, s[n + 1])[i] = s[i]
      BY <2>1
    <3> HIDE DEF front
    <3> QED  BY <2>1, <3>1, <3>2, SeqEqual
  <2>3. front \in N
    BY <2>1
  <2> HIDE DEF front
  <2> QED  BY <2>1, <2>2, <2>3
<1>3. K = Nat
  <2> HIDE DEF K
  <2>1. K \in SUBSET Nat  BY DEF K
  <2> QED  BY <1>1, <1>2, <2>1, NatSetInduction
<1>4. ASSUME NEW s \in Seq(C) PROVE s \in N
  <2>1. Len(s) \in K
    <3> HIDE DEF K
    <3> QED  BY <1>3
  <2> QED  BY <2>1
<1> QED  BY <1>4

\* A further candle leaves the candles before it as they were.
LEMMA PrefixOfAppend ==
    ASSUME NEW C, NEW s \in Seq(C), NEW c \in C, NEW k \in 0..Len(s)
    PROVE  SubSeq(Append(s, c), 1, k) = SubSeq(s, 1, k) /\ SubSeq(s, 1, k) \in Seq(C)
OBVIOUS

\* All the candles of a path are the path.
LEMMA WholePrefix ==
    ASSUME NEW C, NEW s \in Seq(C)
    PROVE  SubSeq(s, 1, Len(s)) = s
OBVIOUS

-----------------------------------------------------------------------------
Status == {"open", "loss", "partial", "win", "exit", "gap", "timed"}
Trade == [status : Status, r : Int, tp1 : BOOLEAN, bars : Nat]
Verdict == {t \in Trade : t.status \in {"open", "loss", "partial", "win"}}
Label == {t \in Trade : t.status \in {"open", "exit"}}
Of(status, r, tp1, bars) == [status |-> status, r |-> r, tp1 |-> tp1, bars |-> bars]

\* A trade is its four fields.
LEMMA TradeIsItsFields ==
    ASSUME NEW t \in Trade
    PROVE  t = Of(t.status, t.r, t.tp1, t.bars)
BY DEF Trade, Of

\* What is written as four fields is the trade that has them.
LEMMA OfIsTrade ==
    ASSUME NEW x \in Status, NEW y \in Int, NEW w \in BOOLEAN, NEW z \in Nat
    PROVE  /\ Of(x, y, w, z) \in Trade
           /\ Of(x, y, w, z).status = x /\ Of(x, y, w, z).r = y
           /\ Of(x, y, w, z).tp1 = w /\ Of(x, y, w, z).bars = z
BY DEF Trade, Of

Level(t) == IF t.tp1 THEN 0 ELSE O!Stop
PastTp1(t, c) == t.tp1 \/ c.high >= O!Tp1
AtStop(t) == IF t.tp1 THEN O!Banked ELSE O!Lost

\* One candle of the ledger's verdict, its fields written out.
LEMMA ForwardStepIs ==
    ASSUME NEW t \in Trade, NEW c \in O!Candle
    PROVE  O!ForwardStep(t, c) =
             IF t.status # "open" THEN t
             ELSE IF c.low <= Level(t)
             THEN Of(IF t.tp1 THEN "partial" ELSE "loss", AtStop(t), t.tp1, t.bars + 1)
             ELSE IF PastTp1(t, c) /\ c.high >= O!Tp2 THEN Of("win", O!Full, TRUE, t.bars + 1)
             ELSE Of("open", t.r, PastTp1(t, c), t.bars + 1)
<1>1. /\ t.tp1 \in BOOLEAN /\ t.bars + 1 \in Nat /\ t.bars \in Nat /\ t.r \in Int /\ t.status \in Status
      /\ PastTp1(t, c) \in BOOLEAN /\ AtStop(t) \in Int /\ O!Full \in Int /\ O!Banked \in Int
      /\ c.close \in Int /\ 2 * c.close \in Int /\ O!Banked + c.close \in Int
      /\ O!Banked + (IF c.close > 0 THEN c.close ELSE 0) \in Int
  BY Rewards, CandlesAreNumbers DEF Trade, Status, PastTp1, AtStop
<1>2. CASE t.status # "open"
  BY <1>2 DEF O!ForwardStep
<1>3. CASE t.status = "open" /\ c.low <= Level(t)
  <2> DEFINE x == IF t.tp1 THEN "partial" ELSE "loss"
             y == AtStop(t)
             z == t.bars + 1
  <2>1. x \in Status /\ y \in Int /\ z \in Nat
    BY <1>1 DEF Status
  <2>2. O!ForwardStep(t, c) = [t EXCEPT !.status = x, !.r = y, !.bars = z]
    BY <1>3 DEF O!ForwardStep, Level, PastTp1, AtStop
  <2> HIDE DEF x, y, z
  <2>3. [t EXCEPT !.status = x, !.r = y, !.bars = z] = Of(x, y, t.tp1, z)
    <3> DEFINE e == [t EXCEPT !.status = x, !.r = y, !.bars = z]
    <3>1. e \in Trade
      BY <2>1 DEF Trade
    <3>2. Of(e.status, e.r, e.tp1, e.bars) = Of(x, y, t.tp1, z)
      BY <2>1 DEF Trade
    <3> HIDE DEF e
    <3> QED  BY <3>1, <3>2, TradeIsItsFields DEF e
  <2> QED  BY <1>3, <2>2, <2>3 DEF x, y, z
<1>4. CASE t.status = "open" /\ ~(c.low <= Level(t)) /\ (PastTp1(t, c) /\ c.high >= O!Tp2)
  <2> DEFINE x == "win"
             y == O!Full
             w == TRUE
             z == t.bars + 1
  <2>1. x \in Status /\ y \in Int /\ w \in BOOLEAN /\ z \in Nat
    BY <1>1 DEF Status
  <2>2. O!ForwardStep(t, c) = [t EXCEPT !.status = x, !.r = y, !.tp1 = w, !.bars = z]
    BY <1>4 DEF O!ForwardStep, Level, PastTp1, AtStop
  <2> HIDE DEF x, y, w, z
  <2>3. [t EXCEPT !.status = x, !.r = y, !.tp1 = w, !.bars = z] = Of(x, y, w, z)
    <3> DEFINE e == [t EXCEPT !.status = x, !.r = y, !.tp1 = w, !.bars = z]
    <3>1. e \in Trade
      BY <2>1 DEF Trade
    <3>2. Of(e.status, e.r, e.tp1, e.bars) = Of(x, y, w, z)
      BY <2>1 DEF Trade
    <3> HIDE DEF e
    <3> QED  BY <3>1, <3>2, TradeIsItsFields DEF e
  <2> QED  BY <1>4, <2>2, <2>3 DEF x, y, w, z
<1>5. CASE t.status = "open" /\ ~(c.low <= Level(t)) /\ ~(PastTp1(t, c) /\ c.high >= O!Tp2)
  <2> DEFINE w == PastTp1(t, c)
             z == t.bars + 1
  <2>1. w \in BOOLEAN /\ z \in Nat
    BY <1>1 DEF Status
  <2>2. O!ForwardStep(t, c) = [t EXCEPT !.tp1 = w, !.bars = z]
    BY <1>5 DEF O!ForwardStep, Level, PastTp1, AtStop
  <2> HIDE DEF w, z
  <2>3. [t EXCEPT !.tp1 = w, !.bars = z] = Of(t.status, t.r, w, z)
    <3> DEFINE e == [t EXCEPT !.tp1 = w, !.bars = z]
    <3>1. e \in Trade
      BY <2>1 DEF Trade
    <3>2. Of(e.status, e.r, e.tp1, e.bars) = Of(t.status, t.r, w, z)
      BY <2>1 DEF Trade
    <3> HIDE DEF e
    <3> QED  BY <3>1, <3>2, TradeIsItsFields DEF e
  <2> QED  BY <1>5, <2>2, <2>3 DEF w, z
<1> QED  BY <1>2, <1>3, <1>4, <1>5

\* One candle of the backtest.
LEMMA BacktestStepIs ==
    ASSUME NEW t \in Trade, NEW c \in O!Candle, NEW last \in BOOLEAN
    PROVE  O!BacktestStep(t, c, last) =
             IF c.low <= Level(t) THEN Of("exit", AtStop(t), t.tp1, t.bars)
             ELSE IF PastTp1(t, c) /\ c.high >= O!Tp2 THEN Of("exit", O!Full, TRUE, t.bars)
             ELSE IF last
             THEN Of("exit", IF PastTp1(t, c) THEN O!Banked + (IF c.close > 0 THEN c.close ELSE 0)
                             ELSE 2 * c.close, PastTp1(t, c), t.bars)
             ELSE Of(t.status, t.r, PastTp1(t, c), t.bars)
<1>1. /\ t.tp1 \in BOOLEAN /\ t.bars + 1 \in Nat /\ t.bars \in Nat /\ t.r \in Int /\ t.status \in Status
      /\ PastTp1(t, c) \in BOOLEAN /\ AtStop(t) \in Int /\ O!Full \in Int /\ O!Banked \in Int
      /\ c.close \in Int /\ 2 * c.close \in Int /\ O!Banked + c.close \in Int
      /\ O!Banked + (IF c.close > 0 THEN c.close ELSE 0) \in Int
  BY Rewards, CandlesAreNumbers DEF Trade, Status, PastTp1, AtStop
<1>2. CASE c.low <= Level(t)
  <2> DEFINE x == "exit"
             y == AtStop(t)
  <2>1. x \in Status /\ y \in Int
    BY <1>1 DEF Status
  <2>2. O!BacktestStep(t, c, last) = [t EXCEPT !.r = y, !.status = x]
    BY <1>2 DEF O!BacktestStep, Level, PastTp1, AtStop
  <2> HIDE DEF x, y
  <2>3. [t EXCEPT !.r = y, !.status = x] = Of(x, y, t.tp1, t.bars)
    <3> DEFINE e == [t EXCEPT !.r = y, !.status = x]
    <3>1. e \in Trade
      BY <2>1 DEF Trade
    <3>2. Of(e.status, e.r, e.tp1, e.bars) = Of(x, y, t.tp1, t.bars)
      BY <2>1 DEF Trade
    <3> HIDE DEF e
    <3> QED  BY <3>1, <3>2, TradeIsItsFields DEF e
  <2> QED  BY <1>2, <2>2, <2>3 DEF x, y
<1>3. CASE ~(c.low <= Level(t)) /\ (PastTp1(t, c) /\ c.high >= O!Tp2)
  <2> DEFINE x == "exit"
             y == O!Full
             w == TRUE
  <2>1. x \in Status /\ y \in Int /\ w \in BOOLEAN
    BY <1>1 DEF Status
  <2>2. O!BacktestStep(t, c, last) = [t EXCEPT !.tp1 = w, !.r = y, !.status = x]
    BY <1>3 DEF O!BacktestStep, Level, PastTp1, AtStop
  <2> HIDE DEF x, y, w
  <2>3. [t EXCEPT !.tp1 = w, !.r = y, !.status = x] = Of(x, y, w, t.bars)
    <3> DEFINE e == [t EXCEPT !.tp1 = w, !.r = y, !.status = x]
    <3>1. e \in Trade
      BY <2>1 DEF Trade
    <3>2. Of(e.status, e.r, e.tp1, e.bars) = Of(x, y, w, t.bars)
      BY <2>1 DEF Trade
    <3> HIDE DEF e
    <3> QED  BY <3>1, <3>2, TradeIsItsFields DEF e
  <2> QED  BY <1>3, <2>2, <2>3 DEF x, y, w
<1>4. CASE ~(c.low <= Level(t)) /\ ~(PastTp1(t, c) /\ c.high >= O!Tp2) /\ last
  <2> DEFINE x == "exit"
             y == IF PastTp1(t, c) THEN O!Banked + (IF c.close > 0 THEN c.close ELSE 0) ELSE 2 * c.close
             w == PastTp1(t, c)
  <2>1. x \in Status /\ y \in Int /\ w \in BOOLEAN
    BY <1>1 DEF Status
  <2>2. O!BacktestStep(t, c, last) = [t EXCEPT !.tp1 = w, !.status = x, !.r = y]
    BY <1>4 DEF O!BacktestStep, Level, PastTp1, AtStop
  <2> HIDE DEF x, y, w
  <2>3. [t EXCEPT !.tp1 = w, !.status = x, !.r = y] = Of(x, y, w, t.bars)
    <3> DEFINE e == [t EXCEPT !.tp1 = w, !.status = x, !.r = y]
    <3>1. e \in Trade
      BY <2>1 DEF Trade
    <3>2. Of(e.status, e.r, e.tp1, e.bars) = Of(x, y, w, t.bars)
      BY <2>1 DEF Trade
    <3> HIDE DEF e
    <3> QED  BY <3>1, <3>2, TradeIsItsFields DEF e
  <2> QED  BY <1>4, <2>2, <2>3 DEF x, y, w
<1>5. CASE ~(c.low <= Level(t)) /\ ~(PastTp1(t, c) /\ c.high >= O!Tp2) /\ ~last
  <2> DEFINE w == PastTp1(t, c)
  <2>1. w \in BOOLEAN
    BY <1>1 DEF Status
  <2>2. O!BacktestStep(t, c, last) = [t EXCEPT !.tp1 = w]
    BY <1>5 DEF O!BacktestStep, Level, PastTp1, AtStop
  <2> HIDE DEF w
  <2>3. [t EXCEPT !.tp1 = w] = Of(t.status, t.r, w, t.bars)
    <3> DEFINE e == [t EXCEPT !.tp1 = w]
    <3>1. e \in Trade
      BY <2>1 DEF Trade
    <3>2. Of(e.status, e.r, e.tp1, e.bars) = Of(t.status, t.r, w, t.bars)
      BY <2>1 DEF Trade
    <3> HIDE DEF e
    <3> QED  BY <3>1, <3>2, TradeIsItsFields DEF e
  <2> QED  BY <1>5, <2>2, <2>3 DEF w
<1> QED  BY <1>2, <1>3, <1>4, <1>5

\* One candle of the rank label.
LEMMA RankStepIs ==
    ASSUME NEW t \in Trade, NEW c \in O!Candle
    PROVE  O!RankStep(t, c) =
             IF t.status = "exit" THEN t
             ELSE IF c.low <= Level(t) THEN Of("exit", AtStop(t), t.tp1, t.bars + 1)
             ELSE IF PastTp1(t, c) /\ c.high >= O!Tp2 THEN Of("exit", O!Full, TRUE, t.bars + 1)
             ELSE Of(t.status, 2 * c.close, PastTp1(t, c), t.bars + 1)
<1>1. /\ t.tp1 \in BOOLEAN /\ t.bars + 1 \in Nat /\ t.bars \in Nat /\ t.r \in Int /\ t.status \in Status
      /\ PastTp1(t, c) \in BOOLEAN /\ AtStop(t) \in Int /\ O!Full \in Int /\ O!Banked \in Int
      /\ c.close \in Int /\ 2 * c.close \in Int /\ O!Banked + c.close \in Int
      /\ O!Banked + (IF c.close > 0 THEN c.close ELSE 0) \in Int
  BY Rewards, CandlesAreNumbers DEF Trade, Status, PastTp1, AtStop
<1>2. CASE t.status = "exit"
  BY <1>2 DEF O!RankStep
<1>3. CASE t.status # "exit" /\ c.low <= Level(t)
  <2> DEFINE x == "exit"
             y == AtStop(t)
             z == t.bars + 1
  <2>1. x \in Status /\ y \in Int /\ z \in Nat
    BY <1>1 DEF Status
  <2>2. O!RankStep(t, c) = [t EXCEPT !.r = y, !.status = x, !.bars = z]
    BY <1>3 DEF O!RankStep, Level, PastTp1, AtStop
  <2> HIDE DEF x, y, z
  <2>3. [t EXCEPT !.r = y, !.status = x, !.bars = z] = Of(x, y, t.tp1, z)
    <3> DEFINE e == [t EXCEPT !.r = y, !.status = x, !.bars = z]
    <3>1. e \in Trade
      BY <2>1 DEF Trade
    <3>2. Of(e.status, e.r, e.tp1, e.bars) = Of(x, y, t.tp1, z)
      BY <2>1 DEF Trade
    <3> HIDE DEF e
    <3> QED  BY <3>1, <3>2, TradeIsItsFields DEF e
  <2> QED  BY <1>3, <2>2, <2>3 DEF x, y, z
<1>4. CASE t.status # "exit" /\ ~(c.low <= Level(t)) /\ (PastTp1(t, c) /\ c.high >= O!Tp2)
  <2> DEFINE x == "exit"
             y == O!Full
             w == TRUE
             z == t.bars + 1
  <2>1. x \in Status /\ y \in Int /\ w \in BOOLEAN /\ z \in Nat
    BY <1>1 DEF Status
  <2>2. O!RankStep(t, c) = [t EXCEPT !.tp1 = w, !.r = y, !.status = x, !.bars = z]
    BY <1>4 DEF O!RankStep, Level, PastTp1, AtStop
  <2> HIDE DEF x, y, w, z
  <2>3. [t EXCEPT !.tp1 = w, !.r = y, !.status = x, !.bars = z] = Of(x, y, w, z)
    <3> DEFINE e == [t EXCEPT !.tp1 = w, !.r = y, !.status = x, !.bars = z]
    <3>1. e \in Trade
      BY <2>1 DEF Trade
    <3>2. Of(e.status, e.r, e.tp1, e.bars) = Of(x, y, w, z)
      BY <2>1 DEF Trade
    <3> HIDE DEF e
    <3> QED  BY <3>1, <3>2, TradeIsItsFields DEF e
  <2> QED  BY <1>4, <2>2, <2>3 DEF x, y, w, z
<1>5. CASE t.status # "exit" /\ ~(c.low <= Level(t)) /\ ~(PastTp1(t, c) /\ c.high >= O!Tp2)
  <2> DEFINE y == 2 * c.close
             w == PastTp1(t, c)
             z == t.bars + 1
  <2>1. y \in Int /\ w \in BOOLEAN /\ z \in Nat
    BY <1>1 DEF Status
  <2>2. O!RankStep(t, c) = [t EXCEPT !.tp1 = w, !.r = y, !.bars = z]
    BY <1>5 DEF O!RankStep, Level, PastTp1, AtStop
  <2> HIDE DEF y, w, z
  <2>3. [t EXCEPT !.tp1 = w, !.r = y, !.bars = z] = Of(t.status, y, w, z)
    <3> DEFINE e == [t EXCEPT !.tp1 = w, !.r = y, !.bars = z]
    <3>1. e \in Trade
      BY <2>1 DEF Trade
    <3>2. Of(e.status, e.r, e.tp1, e.bars) = Of(t.status, y, w, z)
      BY <2>1 DEF Trade
    <3> HIDE DEF e
    <3> QED  BY <3>1, <3>2, TradeIsItsFields DEF e
  <2> QED  BY <1>5, <2>2, <2>3 DEF y, w, z
<1> QED  BY <1>2, <1>3, <1>4, <1>5

\* One candle of the replay label.
LEMMA ReplayStepIs ==
    ASSUME NEW t \in Trade, NEW c \in O!Candle
    PROVE  O!ReplayStep(t, c) =
             IF t.status = "exit" THEN t
             ELSE IF c.low <= Level(t) THEN Of("exit", AtStop(t), t.tp1, t.bars)
             ELSE IF PastTp1(t, c) /\ c.high >= O!Tp2 THEN Of("exit", O!Full, TRUE, t.bars)
             ELSE Of(t.status, 2 * c.close, PastTp1(t, c), t.bars)
<1>1. /\ t.tp1 \in BOOLEAN /\ t.bars + 1 \in Nat /\ t.bars \in Nat /\ t.r \in Int /\ t.status \in Status
      /\ PastTp1(t, c) \in BOOLEAN /\ AtStop(t) \in Int /\ O!Full \in Int /\ O!Banked \in Int
      /\ c.close \in Int /\ 2 * c.close \in Int /\ O!Banked + c.close \in Int
      /\ O!Banked + (IF c.close > 0 THEN c.close ELSE 0) \in Int
  BY Rewards, CandlesAreNumbers DEF Trade, Status, PastTp1, AtStop
<1>2. CASE t.status = "exit"
  BY <1>2 DEF O!ReplayStep
<1>3. CASE t.status # "exit" /\ c.low <= Level(t)
  <2> DEFINE x == "exit"
             y == AtStop(t)
  <2>1. x \in Status /\ y \in Int
    BY <1>1 DEF Status
  <2>2. O!ReplayStep(t, c) = [t EXCEPT !.status = x, !.r = y]
    BY <1>3 DEF O!ReplayStep, Level, PastTp1, AtStop
  <2> HIDE DEF x, y
  <2>3. [t EXCEPT !.status = x, !.r = y] = Of(x, y, t.tp1, t.bars)
    <3> DEFINE e == [t EXCEPT !.status = x, !.r = y]
    <3>1. e \in Trade
      BY <2>1 DEF Trade
    <3>2. Of(e.status, e.r, e.tp1, e.bars) = Of(x, y, t.tp1, t.bars)
      BY <2>1 DEF Trade
    <3> HIDE DEF e
    <3> QED  BY <3>1, <3>2, TradeIsItsFields DEF e
  <2> QED  BY <1>3, <2>2, <2>3 DEF x, y
<1>4. CASE t.status # "exit" /\ ~(c.low <= Level(t)) /\ (PastTp1(t, c) /\ c.high >= O!Tp2)
  <2> DEFINE x == "exit"
             y == O!Full
             w == TRUE
  <2>1. x \in Status /\ y \in Int /\ w \in BOOLEAN
    BY <1>1 DEF Status
  <2>2. O!ReplayStep(t, c) = [t EXCEPT !.status = x, !.tp1 = w, !.r = y]
    BY <1>4 DEF O!ReplayStep, Level, PastTp1, AtStop
  <2> HIDE DEF x, y, w
  <2>3. [t EXCEPT !.status = x, !.tp1 = w, !.r = y] = Of(x, y, w, t.bars)
    <3> DEFINE e == [t EXCEPT !.status = x, !.tp1 = w, !.r = y]
    <3>1. e \in Trade
      BY <2>1 DEF Trade
    <3>2. Of(e.status, e.r, e.tp1, e.bars) = Of(x, y, w, t.bars)
      BY <2>1 DEF Trade
    <3> HIDE DEF e
    <3> QED  BY <3>1, <3>2, TradeIsItsFields DEF e
  <2> QED  BY <1>4, <2>2, <2>3 DEF x, y, w
<1>5. CASE t.status # "exit" /\ ~(c.low <= Level(t)) /\ ~(PastTp1(t, c) /\ c.high >= O!Tp2)
  <2> DEFINE y == 2 * c.close
             w == PastTp1(t, c)
  <2>1. y \in Int /\ w \in BOOLEAN
    BY <1>1 DEF Status
  <2>2. O!ReplayStep(t, c) = [t EXCEPT !.tp1 = w, !.r = y]
    BY <1>5 DEF O!ReplayStep, Level, PastTp1, AtStop
  <2> HIDE DEF y, w
  <2>3. [t EXCEPT !.tp1 = w, !.r = y] = Of(t.status, y, w, t.bars)
    <3> DEFINE e == [t EXCEPT !.tp1 = w, !.r = y]
    <3>1. e \in Trade
      BY <2>1 DEF Trade
    <3>2. Of(e.status, e.r, e.tp1, e.bars) = Of(t.status, y, w, t.bars)
      BY <2>1 DEF Trade
    <3> HIDE DEF e
    <3> QED  BY <3>1, <3>2, TradeIsItsFields DEF e
  <2> QED  BY <1>5, <2>2, <2>3 DEF y, w
<1> QED  BY <1>2, <1>3, <1>4, <1>5

\* One candle of the strict label.
LEMMA StrictStepIs ==
    ASSUME NEW t \in Trade, NEW c \in O!Candle
    PROVE  O!StrictStep(t, c) =
             IF t.status = "exit" THEN t
             ELSE IF c.low <= Level(t) THEN Of("exit", AtStop(t), t.tp1, t.bars + 1)
             ELSE IF ~t.tp1 /\ c.high >= O!Tp1 /\ c.low <= 0
             THEN Of("exit", O!Banked, TRUE, t.bars + 1)
             ELSE IF PastTp1(t, c) /\ c.high >= O!Tp2 THEN Of("exit", O!Full, TRUE, t.bars + 1)
             ELSE Of(t.status, IF PastTp1(t, c) THEN O!Banked + c.close ELSE 2 * c.close,
                     PastTp1(t, c), t.bars + 1)
<1>1. /\ t.tp1 \in BOOLEAN /\ t.bars + 1 \in Nat /\ t.bars \in Nat /\ t.r \in Int /\ t.status \in Status
      /\ PastTp1(t, c) \in BOOLEAN /\ AtStop(t) \in Int /\ O!Full \in Int /\ O!Banked \in Int
      /\ c.close \in Int /\ 2 * c.close \in Int /\ O!Banked + c.close \in Int
      /\ O!Banked + (IF c.close > 0 THEN c.close ELSE 0) \in Int
  BY Rewards, CandlesAreNumbers DEF Trade, Status, PastTp1, AtStop
<1>2. CASE t.status = "exit"
  BY <1>2 DEF O!StrictStep
<1>3. CASE t.status # "exit" /\ c.low <= Level(t)
  <2> DEFINE x == "exit"
             y == AtStop(t)
             z == t.bars + 1
  <2>1. x \in Status /\ y \in Int /\ z \in Nat
    BY <1>1 DEF Status
  <2>2. O!StrictStep(t, c) = [t EXCEPT !.r = y, !.status = x, !.bars = z]
    BY <1>3 DEF O!StrictStep, Level, PastTp1, AtStop
  <2> HIDE DEF x, y, z
  <2>3. [t EXCEPT !.r = y, !.status = x, !.bars = z] = Of(x, y, t.tp1, z)
    <3> DEFINE e == [t EXCEPT !.r = y, !.status = x, !.bars = z]
    <3>1. e \in Trade
      BY <2>1 DEF Trade
    <3>2. Of(e.status, e.r, e.tp1, e.bars) = Of(x, y, t.tp1, z)
      BY <2>1 DEF Trade
    <3> HIDE DEF e
    <3> QED  BY <3>1, <3>2, TradeIsItsFields DEF e
  <2> QED  BY <1>3, <2>2, <2>3 DEF x, y, z
<1>4. CASE t.status # "exit" /\ ~(c.low <= Level(t)) /\ (~t.tp1 /\ c.high >= O!Tp1 /\ c.low <= 0)
  <2> DEFINE x == "exit"
             y == O!Banked
             w == TRUE
             z == t.bars + 1
  <2>1. x \in Status /\ y \in Int /\ w \in BOOLEAN /\ z \in Nat
    BY <1>1 DEF Status
  <2>2. O!StrictStep(t, c) = [t EXCEPT !.tp1 = w, !.r = y, !.status = x, !.bars = z]
    BY <1>4 DEF O!StrictStep, Level, PastTp1, AtStop
  <2> HIDE DEF x, y, w, z
  <2>3. [t EXCEPT !.tp1 = w, !.r = y, !.status = x, !.bars = z] = Of(x, y, w, z)
    <3> DEFINE e == [t EXCEPT !.tp1 = w, !.r = y, !.status = x, !.bars = z]
    <3>1. e \in Trade
      BY <2>1 DEF Trade
    <3>2. Of(e.status, e.r, e.tp1, e.bars) = Of(x, y, w, z)
      BY <2>1 DEF Trade
    <3> HIDE DEF e
    <3> QED  BY <3>1, <3>2, TradeIsItsFields DEF e
  <2> QED  BY <1>4, <2>2, <2>3 DEF x, y, w, z
<1>5. CASE t.status # "exit" /\ ~(c.low <= Level(t)) /\ ~(~t.tp1 /\ c.high >= O!Tp1 /\ c.low <= 0) /\ (PastTp1(t, c) /\ c.high >= O!Tp2)
  <2> DEFINE x == "exit"
             y == O!Full
             w == TRUE
             z == t.bars + 1
  <2>1. x \in Status /\ y \in Int /\ w \in BOOLEAN /\ z \in Nat
    BY <1>1 DEF Status
  <2>2. O!StrictStep(t, c) = [t EXCEPT !.tp1 = w, !.r = y, !.status = x, !.bars = z]
    BY <1>5 DEF O!StrictStep, Level, PastTp1, AtStop
  <2> HIDE DEF x, y, w, z
  <2>3. [t EXCEPT !.tp1 = w, !.r = y, !.status = x, !.bars = z] = Of(x, y, w, z)
    <3> DEFINE e == [t EXCEPT !.tp1 = w, !.r = y, !.status = x, !.bars = z]
    <3>1. e \in Trade
      BY <2>1 DEF Trade
    <3>2. Of(e.status, e.r, e.tp1, e.bars) = Of(x, y, w, z)
      BY <2>1 DEF Trade
    <3> HIDE DEF e
    <3> QED  BY <3>1, <3>2, TradeIsItsFields DEF e
  <2> QED  BY <1>5, <2>2, <2>3 DEF x, y, w, z
<1>6. CASE t.status # "exit" /\ ~(c.low <= Level(t)) /\ ~(~t.tp1 /\ c.high >= O!Tp1 /\ c.low <= 0) /\ ~(PastTp1(t, c) /\ c.high >= O!Tp2)
  <2> DEFINE y == IF PastTp1(t, c) THEN O!Banked + c.close ELSE 2 * c.close
             w == PastTp1(t, c)
             z == t.bars + 1
  <2>1. y \in Int /\ w \in BOOLEAN /\ z \in Nat
    BY <1>1 DEF Status
  <2>2. O!StrictStep(t, c) = [t EXCEPT !.tp1 = w, !.bars = z, !.r = y]
    BY <1>6 DEF O!StrictStep, Level, PastTp1, AtStop
  <2> HIDE DEF y, w, z
  <2>3. [t EXCEPT !.tp1 = w, !.bars = z, !.r = y] = Of(t.status, y, w, z)
    <3> DEFINE e == [t EXCEPT !.tp1 = w, !.bars = z, !.r = y]
    <3>1. e \in Trade
      BY <2>1 DEF Trade
    <3>2. Of(e.status, e.r, e.tp1, e.bars) = Of(t.status, y, w, z)
      BY <2>1 DEF Trade
    <3> HIDE DEF e
    <3> QED  BY <3>1, <3>2, TradeIsItsFields DEF e
  <2> QED  BY <1>6, <2>2, <2>3 DEF y, w, z
<1> QED  BY <1>2, <1>3, <1>4, <1>5, <1>6

ForwardTo(t, c, v) ==
    /\ v \in Trade
    /\ t.status # "open" => v = t
    /\ t.status = "open" /\ c.low <= Level(t) =>
         v.status = (IF t.tp1 THEN "partial" ELSE "loss") /\ v.r = AtStop(t) /\ v.tp1 = t.tp1 /\ v.bars = t.bars + 1
    /\ t.status = "open" /\ ~(c.low <= Level(t)) /\ PastTp1(t, c) /\ c.high >= O!Tp2 =>
         v.status = "win" /\ v.r = O!Full /\ v.tp1 = TRUE /\ v.bars = t.bars + 1
    /\ t.status = "open" /\ ~(c.low <= Level(t)) /\ ~(PastTp1(t, c) /\ c.high >= O!Tp2) =>
         v.status = "open" /\ v.r = t.r /\ v.tp1 = PastTp1(t, c) /\ v.bars = t.bars + 1
\* The fields after one candle of the ledger's verdict, case by case.
LEMMA ForwardStepsFields ==
    ASSUME NEW t \in Trade, NEW c \in O!Candle
    PROVE  ForwardTo(t, c, O!ForwardStep(t, c))
<1> DEFINE v == O!ForwardStep(t, c)
<1>1. v =
             IF t.status # "open" THEN t
             ELSE IF c.low <= Level(t)
             THEN Of(IF t.tp1 THEN "partial" ELSE "loss", AtStop(t), t.tp1, t.bars + 1)
             ELSE IF PastTp1(t, c) /\ c.high >= O!Tp2 THEN Of("win", O!Full, TRUE, t.bars + 1)
             ELSE Of("open", t.r, PastTp1(t, c), t.bars + 1)
  BY ForwardStepIs
<1>2. /\ t.tp1 \in BOOLEAN /\ t.bars + 1 \in Nat /\ t.bars \in Nat /\ t.r \in Int /\ t.status \in Status
      /\ PastTp1(t, c) \in BOOLEAN /\ AtStop(t) \in Int /\ O!Full \in Int /\ O!Banked \in Int
      /\ c.close \in Int /\ 2 * c.close \in Int /\ O!Banked + c.close \in Int
      /\ O!Banked + (IF c.close > 0 THEN c.close ELSE 0) \in Int
  BY Rewards, CandlesAreNumbers DEF Trade, Status, PastTp1, AtStop
<1> HIDE DEF v
<1>3. CASE t.status # "open"
  BY <1>1, <1>3 DEF v, Trade, ForwardTo
<1>4. CASE t.status = "open" /\ c.low <= Level(t)
  <2>1. v = Of((IF t.tp1 THEN "partial" ELSE "loss"), AtStop(t), t.tp1, t.bars + 1)
    BY <1>1, <1>4
  <2>2. v \in Trade /\ v.status = (IF t.tp1 THEN "partial" ELSE "loss") /\ v.r = AtStop(t) /\ v.tp1 = t.tp1 /\ v.bars = t.bars + 1
    BY <1>2, <2>1 DEF Of, Trade, Status
  <2> QED  BY <1>4, <2>2 DEF v, ForwardTo
<1>5. CASE t.status = "open" /\ ~(c.low <= Level(t)) /\ PastTp1(t, c) /\ c.high >= O!Tp2
  <2>1. v = Of("win", O!Full, TRUE, t.bars + 1)
    BY <1>1, <1>5
  <2>2. v \in Trade /\ v.status = "win" /\ v.r = O!Full /\ v.tp1 = TRUE /\ v.bars = t.bars + 1
    BY <1>2, <2>1 DEF Of, Trade, Status
  <2> QED  BY <1>5, <2>2 DEF v, ForwardTo
<1>6. CASE t.status = "open" /\ ~(c.low <= Level(t)) /\ ~(PastTp1(t, c) /\ c.high >= O!Tp2)
  <2>1. v = Of("open", t.r, PastTp1(t, c), t.bars + 1)
    BY <1>1, <1>6
  <2>2. v \in Trade /\ v.status = "open" /\ v.r = t.r /\ v.tp1 = PastTp1(t, c) /\ v.bars = t.bars + 1
    BY <1>2, <2>1 DEF Of, Trade, Status
  <2> QED  BY <1>6, <2>2 DEF v, ForwardTo
<1> QED  BY <1>3, <1>4, <1>5, <1>6 DEF v

RankTo(t, c, v) ==
    /\ v \in Trade
    /\ t.status = "exit" => v = t
    /\ t.status # "exit" /\ c.low <= Level(t) =>
         v.status = "exit" /\ v.r = AtStop(t) /\ v.tp1 = t.tp1 /\ v.bars = t.bars + 1
    /\ t.status # "exit" /\ ~(c.low <= Level(t)) /\ PastTp1(t, c) /\ c.high >= O!Tp2 =>
         v.status = "exit" /\ v.r = O!Full /\ v.tp1 = TRUE /\ v.bars = t.bars + 1
    /\ t.status # "exit" /\ ~(c.low <= Level(t)) /\ ~(PastTp1(t, c) /\ c.high >= O!Tp2) =>
         v.status = t.status /\ v.r = 2 * c.close /\ v.tp1 = PastTp1(t, c) /\ v.bars = t.bars + 1
\* The same of the rank label.
LEMMA RankStepsFields ==
    ASSUME NEW t \in Trade, NEW c \in O!Candle
    PROVE  RankTo(t, c, O!RankStep(t, c))
<1> DEFINE v == O!RankStep(t, c)
<1>1. v =
             IF t.status = "exit" THEN t
             ELSE IF c.low <= Level(t) THEN Of("exit", AtStop(t), t.tp1, t.bars + 1)
             ELSE IF PastTp1(t, c) /\ c.high >= O!Tp2 THEN Of("exit", O!Full, TRUE, t.bars + 1)
             ELSE Of(t.status, 2 * c.close, PastTp1(t, c), t.bars + 1)
  BY RankStepIs
<1>2. /\ t.tp1 \in BOOLEAN /\ t.bars + 1 \in Nat /\ t.bars \in Nat /\ t.r \in Int /\ t.status \in Status
      /\ PastTp1(t, c) \in BOOLEAN /\ AtStop(t) \in Int /\ O!Full \in Int /\ O!Banked \in Int
      /\ c.close \in Int /\ 2 * c.close \in Int /\ O!Banked + c.close \in Int
      /\ O!Banked + (IF c.close > 0 THEN c.close ELSE 0) \in Int
  BY Rewards, CandlesAreNumbers DEF Trade, Status, PastTp1, AtStop
<1> HIDE DEF v
<1>3. CASE t.status = "exit"
  BY <1>1, <1>3 DEF v, Trade, RankTo
<1>4. CASE t.status # "exit" /\ c.low <= Level(t)
  <2>1. v = Of("exit", AtStop(t), t.tp1, t.bars + 1)
    BY <1>1, <1>4
  <2>2. v \in Trade /\ v.status = "exit" /\ v.r = AtStop(t) /\ v.tp1 = t.tp1 /\ v.bars = t.bars + 1
    BY <1>2, <2>1 DEF Of, Trade, Status
  <2> QED  BY <1>4, <2>2 DEF v, RankTo
<1>5. CASE t.status # "exit" /\ ~(c.low <= Level(t)) /\ PastTp1(t, c) /\ c.high >= O!Tp2
  <2>1. v = Of("exit", O!Full, TRUE, t.bars + 1)
    BY <1>1, <1>5
  <2>2. v \in Trade /\ v.status = "exit" /\ v.r = O!Full /\ v.tp1 = TRUE /\ v.bars = t.bars + 1
    BY <1>2, <2>1 DEF Of, Trade, Status
  <2> QED  BY <1>5, <2>2 DEF v, RankTo
<1>6. CASE t.status # "exit" /\ ~(c.low <= Level(t)) /\ ~(PastTp1(t, c) /\ c.high >= O!Tp2)
  <2>1. v = Of(t.status, 2 * c.close, PastTp1(t, c), t.bars + 1)
    BY <1>1, <1>6
  <2>2. v \in Trade /\ v.status = t.status /\ v.r = 2 * c.close /\ v.tp1 = PastTp1(t, c) /\ v.bars = t.bars + 1
    BY <1>2, <2>1 DEF Of, Trade, Status
  <2> QED  BY <1>6, <2>2 DEF v, RankTo
<1> QED  BY <1>3, <1>4, <1>5, <1>6 DEF v

ReplayTo(t, c, v) ==
    /\ v \in Trade
    /\ t.status = "exit" => v = t
    /\ t.status # "exit" /\ c.low <= Level(t) =>
         v.status = "exit" /\ v.r = AtStop(t) /\ v.tp1 = t.tp1 /\ v.bars = t.bars
    /\ t.status # "exit" /\ ~(c.low <= Level(t)) /\ PastTp1(t, c) /\ c.high >= O!Tp2 =>
         v.status = "exit" /\ v.r = O!Full /\ v.tp1 = TRUE /\ v.bars = t.bars
    /\ t.status # "exit" /\ ~(c.low <= Level(t)) /\ ~(PastTp1(t, c) /\ c.high >= O!Tp2) =>
         v.status = t.status /\ v.r = 2 * c.close /\ v.tp1 = PastTp1(t, c) /\ v.bars = t.bars
\* The same of the replay label.
LEMMA ReplayStepsFields ==
    ASSUME NEW t \in Trade, NEW c \in O!Candle
    PROVE  ReplayTo(t, c, O!ReplayStep(t, c))
<1> DEFINE v == O!ReplayStep(t, c)
<1>1. v =
             IF t.status = "exit" THEN t
             ELSE IF c.low <= Level(t) THEN Of("exit", AtStop(t), t.tp1, t.bars)
             ELSE IF PastTp1(t, c) /\ c.high >= O!Tp2 THEN Of("exit", O!Full, TRUE, t.bars)
             ELSE Of(t.status, 2 * c.close, PastTp1(t, c), t.bars)
  BY ReplayStepIs
<1>2. /\ t.tp1 \in BOOLEAN /\ t.bars + 1 \in Nat /\ t.bars \in Nat /\ t.r \in Int /\ t.status \in Status
      /\ PastTp1(t, c) \in BOOLEAN /\ AtStop(t) \in Int /\ O!Full \in Int /\ O!Banked \in Int
      /\ c.close \in Int /\ 2 * c.close \in Int /\ O!Banked + c.close \in Int
      /\ O!Banked + (IF c.close > 0 THEN c.close ELSE 0) \in Int
  BY Rewards, CandlesAreNumbers DEF Trade, Status, PastTp1, AtStop
<1> HIDE DEF v
<1>3. CASE t.status = "exit"
  BY <1>1, <1>3 DEF v, Trade, ReplayTo
<1>4. CASE t.status # "exit" /\ c.low <= Level(t)
  <2>1. v = Of("exit", AtStop(t), t.tp1, t.bars)
    BY <1>1, <1>4
  <2>2. v \in Trade /\ v.status = "exit" /\ v.r = AtStop(t) /\ v.tp1 = t.tp1 /\ v.bars = t.bars
    BY <1>2, <2>1 DEF Of, Trade, Status
  <2> QED  BY <1>4, <2>2 DEF v, ReplayTo
<1>5. CASE t.status # "exit" /\ ~(c.low <= Level(t)) /\ PastTp1(t, c) /\ c.high >= O!Tp2
  <2>1. v = Of("exit", O!Full, TRUE, t.bars)
    BY <1>1, <1>5
  <2>2. v \in Trade /\ v.status = "exit" /\ v.r = O!Full /\ v.tp1 = TRUE /\ v.bars = t.bars
    BY <1>2, <2>1 DEF Of, Trade, Status
  <2> QED  BY <1>5, <2>2 DEF v, ReplayTo
<1>6. CASE t.status # "exit" /\ ~(c.low <= Level(t)) /\ ~(PastTp1(t, c) /\ c.high >= O!Tp2)
  <2>1. v = Of(t.status, 2 * c.close, PastTp1(t, c), t.bars)
    BY <1>1, <1>6
  <2>2. v \in Trade /\ v.status = t.status /\ v.r = 2 * c.close /\ v.tp1 = PastTp1(t, c) /\ v.bars = t.bars
    BY <1>2, <2>1 DEF Of, Trade, Status
  <2> QED  BY <1>6, <2>2 DEF v, ReplayTo
<1> QED  BY <1>3, <1>4, <1>5, <1>6 DEF v

StrictTo(t, c, v) ==
    /\ v \in Trade
    /\ t.status = "exit" => v = t
    /\ t.status # "exit" /\ c.low <= Level(t) =>
         v.status = "exit" /\ v.r = AtStop(t) /\ v.tp1 = t.tp1 /\ v.bars = t.bars + 1
    /\ t.status # "exit" /\ ~(c.low <= Level(t)) /\ (~t.tp1 /\ c.high >= O!Tp1 /\ c.low <= 0) =>
         v.status = "exit" /\ v.r = O!Banked /\ v.tp1 = TRUE /\ v.bars = t.bars + 1
    /\ t.status # "exit" /\ ~(c.low <= Level(t)) /\ ~(~t.tp1 /\ c.high >= O!Tp1 /\ c.low <= 0) /\ PastTp1(t, c) /\ c.high >= O!Tp2 =>
         v.status = "exit" /\ v.r = O!Full /\ v.tp1 = TRUE /\ v.bars = t.bars + 1
    /\ t.status # "exit" /\ ~(c.low <= Level(t)) /\ ~(~t.tp1 /\ c.high >= O!Tp1 /\ c.low <= 0) /\ ~(PastTp1(t, c) /\ c.high >= O!Tp2) =>
         v.status = t.status /\ v.r = (IF PastTp1(t, c) THEN O!Banked + c.close ELSE 2 * c.close) /\ v.tp1 = PastTp1(t, c) /\ v.bars = t.bars + 1
\* The same of the strict label.
LEMMA StrictStepsFields ==
    ASSUME NEW t \in Trade, NEW c \in O!Candle
    PROVE  StrictTo(t, c, O!StrictStep(t, c))
<1> DEFINE v == O!StrictStep(t, c)
<1>1. v =
             IF t.status = "exit" THEN t
             ELSE IF c.low <= Level(t) THEN Of("exit", AtStop(t), t.tp1, t.bars + 1)
             ELSE IF ~t.tp1 /\ c.high >= O!Tp1 /\ c.low <= 0
             THEN Of("exit", O!Banked, TRUE, t.bars + 1)
             ELSE IF PastTp1(t, c) /\ c.high >= O!Tp2 THEN Of("exit", O!Full, TRUE, t.bars + 1)
             ELSE Of(t.status, IF PastTp1(t, c) THEN O!Banked + c.close ELSE 2 * c.close,
                     PastTp1(t, c), t.bars + 1)
  BY StrictStepIs
<1>2. /\ t.tp1 \in BOOLEAN /\ t.bars + 1 \in Nat /\ t.bars \in Nat /\ t.r \in Int /\ t.status \in Status
      /\ PastTp1(t, c) \in BOOLEAN /\ AtStop(t) \in Int /\ O!Full \in Int /\ O!Banked \in Int
      /\ c.close \in Int /\ 2 * c.close \in Int /\ O!Banked + c.close \in Int
      /\ O!Banked + (IF c.close > 0 THEN c.close ELSE 0) \in Int
  BY Rewards, CandlesAreNumbers DEF Trade, Status, PastTp1, AtStop
<1> HIDE DEF v
<1>3. CASE t.status = "exit"
  BY <1>1, <1>3 DEF v, Trade, StrictTo
<1>4. CASE t.status # "exit" /\ c.low <= Level(t)
  <2>1. v = Of("exit", AtStop(t), t.tp1, t.bars + 1)
    BY <1>1, <1>4
  <2>2. v \in Trade /\ v.status = "exit" /\ v.r = AtStop(t) /\ v.tp1 = t.tp1 /\ v.bars = t.bars + 1
    BY <1>2, <2>1 DEF Of, Trade, Status
  <2> QED  BY <1>4, <2>2 DEF v, StrictTo
<1>5. CASE t.status # "exit" /\ ~(c.low <= Level(t)) /\ (~t.tp1 /\ c.high >= O!Tp1 /\ c.low <= 0)
  <2>1. v = Of("exit", O!Banked, TRUE, t.bars + 1)
    BY <1>1, <1>5
  <2>2. v \in Trade /\ v.status = "exit" /\ v.r = O!Banked /\ v.tp1 = TRUE /\ v.bars = t.bars + 1
    BY <1>2, <2>1 DEF Of, Trade, Status
  <2> QED  BY <1>5, <2>2 DEF v, StrictTo
<1>6. CASE t.status # "exit" /\ ~(c.low <= Level(t)) /\ ~(~t.tp1 /\ c.high >= O!Tp1 /\ c.low <= 0) /\ PastTp1(t, c) /\ c.high >= O!Tp2
  <2>1. v = Of("exit", O!Full, TRUE, t.bars + 1)
    BY <1>1, <1>6
  <2>2. v \in Trade /\ v.status = "exit" /\ v.r = O!Full /\ v.tp1 = TRUE /\ v.bars = t.bars + 1
    BY <1>2, <2>1 DEF Of, Trade, Status
  <2> QED  BY <1>6, <2>2 DEF v, StrictTo
<1>7. CASE t.status # "exit" /\ ~(c.low <= Level(t)) /\ ~(~t.tp1 /\ c.high >= O!Tp1 /\ c.low <= 0) /\ ~(PastTp1(t, c) /\ c.high >= O!Tp2)
  <2>1. v = Of(t.status, (IF PastTp1(t, c) THEN O!Banked + c.close ELSE 2 * c.close), PastTp1(t, c), t.bars + 1)
    BY <1>1, <1>7
  <2>2. v \in Trade /\ v.status = t.status /\ v.r = (IF PastTp1(t, c) THEN O!Banked + c.close ELSE 2 * c.close) /\ v.tp1 = PastTp1(t, c) /\ v.bars = t.bars + 1
    BY <1>2, <2>1 DEF Of, Trade, Status
  <2> QED  BY <1>7, <2>2 DEF v, StrictTo
<1> QED  BY <1>3, <1>4, <1>5, <1>6, <1>7 DEF v

BacktestTo(t, c, v, last) ==
    /\ v \in Trade
    /\ c.low <= Level(t) =>
         v.status = "exit" /\ v.r = AtStop(t) /\ v.tp1 = t.tp1 /\ v.bars = t.bars
    /\ ~(c.low <= Level(t)) /\ PastTp1(t, c) /\ c.high >= O!Tp2 =>
         v.status = "exit" /\ v.r = O!Full /\ v.tp1 = TRUE /\ v.bars = t.bars
    /\ ~(c.low <= Level(t)) /\ ~(PastTp1(t, c) /\ c.high >= O!Tp2) /\ last =>
         v.status = "exit" /\ v.r = (IF PastTp1(t, c) THEN O!Banked + (IF c.close > 0 THEN c.close ELSE 0) ELSE 2 * c.close) /\ v.tp1 = PastTp1(t, c) /\ v.bars = t.bars
    /\ ~(c.low <= Level(t)) /\ ~(PastTp1(t, c) /\ c.high >= O!Tp2) /\ ~last =>
         v.status = t.status /\ v.r = t.r /\ v.tp1 = PastTp1(t, c) /\ v.bars = t.bars
\* The same of the backtest.
LEMMA BacktestStepsFields ==
    ASSUME NEW t \in Trade, NEW c \in O!Candle, NEW last \in BOOLEAN
    PROVE  BacktestTo(t, c, O!BacktestStep(t, c, last), last)
<1> DEFINE v == O!BacktestStep(t, c, last)
<1>1. v =
             IF c.low <= Level(t) THEN Of("exit", AtStop(t), t.tp1, t.bars)
             ELSE IF PastTp1(t, c) /\ c.high >= O!Tp2 THEN Of("exit", O!Full, TRUE, t.bars)
             ELSE IF last
             THEN Of("exit", IF PastTp1(t, c) THEN O!Banked + (IF c.close > 0 THEN c.close ELSE 0)
                             ELSE 2 * c.close, PastTp1(t, c), t.bars)
             ELSE Of(t.status, t.r, PastTp1(t, c), t.bars)
  BY BacktestStepIs
<1>2. /\ t.tp1 \in BOOLEAN /\ t.bars + 1 \in Nat /\ t.bars \in Nat /\ t.r \in Int /\ t.status \in Status
      /\ PastTp1(t, c) \in BOOLEAN /\ AtStop(t) \in Int /\ O!Full \in Int /\ O!Banked \in Int
      /\ c.close \in Int /\ 2 * c.close \in Int /\ O!Banked + c.close \in Int
      /\ O!Banked + (IF c.close > 0 THEN c.close ELSE 0) \in Int
  BY Rewards, CandlesAreNumbers DEF Trade, Status, PastTp1, AtStop
<1> HIDE DEF v
<1>3. CASE c.low <= Level(t)
  <2>1. v = Of("exit", AtStop(t), t.tp1, t.bars)
    BY <1>1, <1>3
  <2>2. v \in Trade /\ v.status = "exit" /\ v.r = AtStop(t) /\ v.tp1 = t.tp1 /\ v.bars = t.bars
    BY <1>2, <2>1 DEF Of, Trade, Status
  <2> QED  BY <1>3, <2>2 DEF v, BacktestTo
<1>4. CASE ~(c.low <= Level(t)) /\ PastTp1(t, c) /\ c.high >= O!Tp2
  <2>1. v = Of("exit", O!Full, TRUE, t.bars)
    BY <1>1, <1>4
  <2>2. v \in Trade /\ v.status = "exit" /\ v.r = O!Full /\ v.tp1 = TRUE /\ v.bars = t.bars
    BY <1>2, <2>1 DEF Of, Trade, Status
  <2> QED  BY <1>4, <2>2 DEF v, BacktestTo
<1>5. CASE ~(c.low <= Level(t)) /\ ~(PastTp1(t, c) /\ c.high >= O!Tp2) /\ last
  <2>1. v = Of("exit", (IF PastTp1(t, c) THEN O!Banked + (IF c.close > 0 THEN c.close ELSE 0) ELSE 2 * c.close), PastTp1(t, c), t.bars)
    BY <1>1, <1>5
  <2>2. v \in Trade /\ v.status = "exit" /\ v.r = (IF PastTp1(t, c) THEN O!Banked + (IF c.close > 0 THEN c.close ELSE 0) ELSE 2 * c.close) /\ v.tp1 = PastTp1(t, c) /\ v.bars = t.bars
    BY <1>2, <2>1 DEF Of, Trade, Status
  <2> QED  BY <1>5, <2>2 DEF v, BacktestTo
<1>6. CASE ~(c.low <= Level(t)) /\ ~(PastTp1(t, c) /\ c.high >= O!Tp2) /\ ~last
  <2>1. v = Of(t.status, t.r, PastTp1(t, c), t.bars)
    BY <1>1, <1>6
  <2>2. v \in Trade /\ v.status = t.status /\ v.r = t.r /\ v.tp1 = PastTp1(t, c) /\ v.bars = t.bars
    BY <1>2, <2>1 DEF Of, Trade, Status
  <2> QED  BY <1>6, <2>2 DEF v, BacktestTo
<1> QED  BY <1>3, <1>4, <1>5, <1>6 DEF v

\* A verdict that is given stays, and one that is not counts the candle.
LEMMA ForwardSteps ==
    ASSUME NEW f \in Verdict, NEW c \in O!Candle
    PROVE  LET v == O!ForwardStep(f, c) IN
           /\ v \in Verdict
           /\ f.status # "open" => v = f
           /\ f.status = "open" => v.bars = f.bars + 1
           /\ f.status = "open" /\ v.status = "open" => v.r = f.r
           /\ f.tp1 => v.tp1
<1>1. f \in Trade
  BY DEF Verdict
<1>2. ForwardTo(f, c, O!ForwardStep(f, c))
  BY <1>1, ForwardStepsFields
<1> QED  BY <1>1, <1>2, Rewards, CandlesAreNumbers DEF ForwardTo, Verdict, Status, Trade, Level, PastTp1, AtStop

\* A strict label that is given stays, and a first target stays reached.
LEMMA StrictSteps ==
    ASSUME NEW f \in Label, NEW c \in O!Candle
    PROVE  LET v == O!StrictStep(f, c) IN
           /\ v \in Label
           /\ f.status # "open" => v = f
           /\ f.tp1 => v.tp1
<1>1. f \in Trade
  BY DEF Label
<1>2. StrictTo(f, c, O!StrictStep(f, c))
  BY <1>1, StrictStepsFields
<1> QED  BY <1>1, <1>2, Rewards, CandlesAreNumbers DEF StrictTo, Label, Status, Trade, Level, PastTp1, AtStop

\* A rank label that is given stays.
LEMMA RankSteps ==
    ASSUME NEW f \in Label, NEW c \in O!Candle
    PROVE  LET v == O!RankStep(f, c) IN
           /\ v \in Label
           /\ f.status # "open" => v = f
<1>1. f \in Trade
  BY DEF Label
<1>2. RankTo(f, c, O!RankStep(f, c))
  BY <1>1, RankStepsFields
<1> QED  BY <1>1, <1>2, Rewards, CandlesAreNumbers DEF RankTo, Label, Status, Trade, Level, PastTp1, AtStop

\* A replay label that is given stays.
LEMMA ReplaySteps ==
    ASSUME NEW f \in Label, NEW c \in O!Candle
    PROVE  LET v == O!ReplayStep(f, c) IN
           /\ v \in Label
           /\ f.status # "open" => v = f
<1>1. f \in Trade
  BY DEF Label
<1>2. ReplayTo(f, c, O!ReplayStep(f, c))
  BY <1>1, ReplayStepsFields
<1> QED  BY <1>1, <1>2, Rewards, CandlesAreNumbers DEF ReplayTo, Label, Status, Trade, Level, PastTp1, AtStop

\* The label of the data sets and the verdict of the ledger, candle by candle.
RankGoesWith(f, k) ==
    /\ k.tp1 = f.tp1
    /\ k.status = "open" <=> f.status = "open"
    /\ k.status = "exit" => k.r = f.r
\* One candle keeps the rank label beside the verdict.
LEMMA RankStepsAlong ==
    ASSUME NEW f \in Verdict, NEW k \in Label, NEW c \in O!Candle, RankGoesWith(f, k)
    PROVE  /\ RankGoesWith(O!ForwardStep(f, c), O!RankStep(k, c))
           /\ O!RankStep(k, c).status = "open" => O!RankStep(k, c).r = 2 * c.close
<1>1. f \in Trade /\ k \in Trade
  BY DEF Verdict, Label
<1>2. ForwardTo(f, c, O!ForwardStep(f, c)) /\ RankTo(k, c, O!RankStep(k, c))
  BY <1>1, ForwardStepsFields, RankStepsFields
<1> QED  BY <1>1, <1>2, Rewards, CandlesAreNumbers DEF ForwardTo, RankTo, RankGoesWith, Verdict, Label, Status, Trade, Level, PastTp1, AtStop

ReplayGoesWith(k, p) == p.status = k.status /\ p.r = k.r /\ p.tp1 = k.tp1
\* One candle keeps the replay label beside the rank label.
LEMMA ReplayStepsAlong ==
    ASSUME NEW k \in Label, NEW p \in Label, NEW c \in O!Candle, ReplayGoesWith(k, p)
    PROVE  ReplayGoesWith(O!RankStep(k, c), O!ReplayStep(p, c))
<1>1. k \in Trade /\ p \in Trade
  BY DEF Label
<1>2. ReplayTo(p, c, O!ReplayStep(p, c)) /\ RankTo(k, c, O!RankStep(k, c))
  BY <1>1, ReplayStepsFields, RankStepsFields
<1> QED  BY <1>1, <1>2, Rewards, CandlesAreNumbers DEF ReplayTo, RankTo, ReplayGoesWith, Label, Status, Trade, Level, PastTp1, AtStop

\* The strict label never runs ahead of the ledger's verdict; it may have left at the
\* entry a trade the ledger still holds.
StrictGoesWith(f, k) ==
    /\ k.tp1 = f.tp1
    /\ f.status \in {"partial", "win"} => f.r >= O!Banked
    /\ f.status # "open" => k.status = "exit"
    /\ f.status # "open" => k.r <= f.r
    /\ k.status = "exit" /\ f.status = "open" => k.r = O!Banked /\ k.tp1
\* One candle keeps the strict label beside the verdict.
LEMMA StrictStepsAlong ==
    ASSUME NEW f \in Verdict, NEW k \in Label, NEW c \in O!Candle, StrictGoesWith(f, k)
    PROVE  /\ StrictGoesWith(O!ForwardStep(f, c), O!StrictStep(k, c))
           /\ O!StrictStep(k, c).status = "open" =>
                O!StrictStep(k, c).r = IF O!StrictStep(k, c).tp1 THEN O!Banked + c.close ELSE 2 * c.close
<1>1. f \in Trade /\ k \in Trade
  BY DEF Verdict, Label
<1>2. ForwardTo(f, c, O!ForwardStep(f, c)) /\ StrictTo(k, c, O!StrictStep(k, c))
  BY <1>1, ForwardStepsFields, StrictStepsFields
<1> QED  BY <1>1, <1>2, Rewards, CandlesAreNumbers DEF ForwardTo, StrictTo, Verdict, Label, StrictGoesWith, Status, Trade, Level, PastTp1, AtStop

\* The backtest counts no candle of its own.
LEMMA BackStepsAlong ==
    ASSUME NEW f \in Verdict, NEW b \in Label, NEW c \in O!Candle,
           f.status = "open", b.status = "open", f.r = 0, b.r = 0, b.tp1 = f.tp1
    PROVE  LET v == O!ForwardStep(f, c)
               w == O!BacktestStep(b, c, FALSE) IN
           /\ w \in Label /\ w.tp1 = v.tp1 /\ w.r = v.r
           /\ w.status = "open" <=> v.status = "open"
           /\ v.status = "open" => v.r = 0
<1>1. f \in Trade /\ b \in Trade
  BY DEF Verdict, Label
<1>2. ForwardTo(f, c, O!ForwardStep(f, c)) /\ BacktestTo(b, c, O!BacktestStep(b, c, FALSE), FALSE)
  BY <1>1, ForwardStepsFields, BacktestStepsFields
<1> QED  BY <1>1, <1>2, Rewards, CandlesAreNumbers DEF ForwardTo, BacktestTo, Verdict, Label, Status, Trade, Level, PastTp1, AtStop

\* The backtest's last candle beside the verdict's: the same end, or the close.
LEMMA BackEndsAlong ==
    ASSUME NEW f \in Verdict, NEW b \in Label, NEW c \in O!Candle,
           f.status = "open", b.status = "open", f.r = 0, b.r = 0, b.tp1 = f.tp1
    PROVE  LET v == O!ForwardStep(f, c)
               w == O!BacktestStep(b, c, TRUE) IN
           /\ w \in Label 
           /\ v.status # "open" => w.r = v.r
           /\ v.status = "open" =>
                w.r = IF v.tp1 THEN O!Banked + (IF c.close > 0 THEN c.close ELSE 0) ELSE 2 * c.close
<1>1. f \in Trade /\ b \in Trade
  BY DEF Verdict, Label
<1>2. ForwardTo(f, c, O!ForwardStep(f, c)) /\ BacktestTo(b, c, O!BacktestStep(b, c, TRUE), TRUE)
  BY <1>1, ForwardStepsFields, BacktestStepsFields
<1> QED  BY <1>1, <1>2, Rewards, CandlesAreNumbers DEF ForwardTo, BacktestTo, Verdict, Label, Status, Trade, Level, PastTp1, AtStop

-----------------------------------------------------------------------------
\* The trade all readings start from.
LEMMA OpenTrade ==
    /\ O!Open \in Verdict /\ O!Open \in Label
    /\ O!Open.status = "open" /\ O!Open.r = 0 /\ O!Open.tp1 = FALSE /\ O!Open.bars = 0
BY DEF O!Open, Verdict, Label, Trade, Status

\* Without a candle every reading leaves the trade as it started.
LEMMA NoCandlesWalk ==
    /\ ForwardWalk(<<>>) = O!Open /\ RankWalk(<<>>) = O!Open
    /\ ReplayWalk(<<>>) = O!Open /\ StrictWalk(<<>>) = O!Open
<1> DEFINE C == {0}
           none == 0
<1>1. <<>> \in Seq(C) /\ none \in C
  OBVIOUS
<1> HIDE DEF C, none
<1> QED  BY <1>1, ForwardUnrolls, RankUnrolls, ReplayUnrolls, StrictUnrolls

ForwardSound(s) ==
    /\ ForwardWalk(s) \in Verdict
    /\ ForwardWalk(s).status = "open" => ForwardWalk(s).bars = Len(s) /\ ForwardWalk(s).r = 0

\* The verdict on any number of candles is one; while open it has counted them all.
LEMMA ForwardIsSound == \A s \in Seq(O!Candle) : ForwardSound(s)
<1> DEFINE N == {s \in Seq(O!Candle) : ForwardSound(s)}
<1>1. <<>> \in N
  <2>1. Len(<<>>) = 0 /\ <<>> \in Seq(O!Candle)
    OBVIOUS
  <2> QED  BY <2>1, NoCandlesWalk, OpenTrade DEF ForwardSound
<1>2. ASSUME NEW s \in N, NEW c \in O!Candle PROVE Append(s, c) \in N
  <2>1. ForwardWalk(Append(s, c)) = O!ForwardStep(ForwardWalk(s), c)
    BY ForwardUnrolls
  <2>2. Len(Append(s, c)) = Len(s) + 1 /\ Append(s, c) \in Seq(O!Candle) /\ Len(s) \in Nat
    OBVIOUS
  <2>3. ForwardWalk(s) \in Verdict
    BY DEF ForwardSound
  <2> QED  BY <2>1, <2>2, <2>3, ForwardSteps DEF ForwardSound
<1>3. N = Seq(O!Candle)
  <2> HIDE DEF N
  <2>1. N \in SUBSET Seq(O!Candle)
    BY DEF N
  <2> QED  BY <1>1, <1>2, <2>1, SequencesGrow
<1> QED  BY <1>3

\* What is over stays as it is, and a target once reached stays reached.
ForwardRests(s) ==
    \A k \in 0..Len(s) : LET before == ForwardWalk(SubSeq(s, 1, k)) IN
        /\ before.status # "open" => ForwardWalk(s) = before
        /\ before.tp1 => ForwardWalk(s).tp1
StrictRests(s) ==
    \A k \in 0..Len(s) : LET before == StrictWalk(SubSeq(s, 1, k)) IN
        /\ before.status # "open" => StrictWalk(s) = before
        /\ before.tp1 => StrictWalk(s).tp1
\* The strict label on any number of candles is one.
LEMMA StrictIsLabel == \A s \in Seq(O!Candle) : StrictWalk(s) \in Label
<1> DEFINE N == {s \in Seq(O!Candle) : StrictWalk(s) \in Label}
<1>1. <<>> \in N
  BY NoCandlesWalk, OpenTrade
<1>2. ASSUME NEW s \in N, NEW c \in O!Candle PROVE Append(s, c) \in N
  <2>1. StrictWalk(Append(s, c)) = O!StrictStep(StrictWalk(s), c)
    BY StrictUnrolls
  <2>2. Append(s, c) \in Seq(O!Candle)
    OBVIOUS
  <2> QED  BY <2>1, <2>2, StrictSteps
<1>3. N = Seq(O!Candle)
  <2> HIDE DEF N
  <2>1. N \in SUBSET Seq(O!Candle)
    BY DEF N
  <2> QED  BY <1>1, <1>2, <2>1, SequencesGrow
<1> QED  BY <1>3

\* What the first candles of a path settled is settled on all of them.
LEMMA ForwardStays == \A s \in Seq(O!Candle) : ForwardRests(s)
<1> DEFINE N == {s \in Seq(O!Candle) : ForwardRests(s)}
<1>1. <<>> \in N
  <2> DEFINE none == <<>>
  <2>1. none \in Seq(O!Candle) /\ \A k \in 0..Len(none) : SubSeq(none, 1, k) = none
    OBVIOUS
  <2> HIDE DEF none
  <2>2. ForwardRests(none)
    BY <2>1 DEF ForwardRests
  <2> QED  BY <2>1, <2>2 DEF none
<1>2. ASSUME NEW s \in N, NEW c \in O!Candle PROVE Append(s, c) \in N
  <2> DEFINE u == Append(s, c)
  <2>1. ForwardWalk(u) = O!ForwardStep(ForwardWalk(s), c)
    BY ForwardUnrolls
  <2>2. u \in Seq(O!Candle) /\ Len(u) = Len(s) + 1 /\ Len(s) \in Nat
    OBVIOUS
  <2>3. ForwardWalk(s) \in Verdict
    BY ForwardIsSound DEF ForwardSound
  <2>4. /\ ForwardWalk(s).status # "open" => ForwardWalk(u) = ForwardWalk(s)
        /\ ForwardWalk(s).tp1 => ForwardWalk(u).tp1
    <3> HIDE DEF u
    <3> QED  BY <2>1, <2>3, ForwardSteps
  <2>5. ASSUME NEW k \in 0..Len(u)
        PROVE  LET before == ForwardWalk(SubSeq(u, 1, k)) IN
               /\ before.status # "open" => ForwardWalk(u) = before
               /\ before.tp1 => ForwardWalk(u).tp1
    <3>1. CASE k = Len(u)
      <4>1. SubSeq(u, 1, k) = u
        BY <2>2, <3>1, WholePrefix
      <4> QED  BY <4>1
    <3>2. CASE k \in 0..Len(s)
      <4>1. SubSeq(u, 1, k) = SubSeq(s, 1, k)
        BY <3>2, PrefixOfAppend
      <4> HIDE DEF u
      <4> QED  BY <2>4, <3>2, <4>1 DEF ForwardRests
    <3> QED  BY <2>2, <3>1, <3>2
  <2> HIDE DEF u
  <2>6. ForwardRests(u)
    BY <2>5 DEF ForwardRests
  <2> QED  BY <2>2, <2>6 DEF u
<1>3. N = Seq(O!Candle)
  <2> HIDE DEF N
  <2>1. N \in SUBSET Seq(O!Candle)
    BY DEF N
  <2> QED  BY <1>1, <1>2, <2>1, SequencesGrow
<1> QED  BY <1>3

\* The same of the strict label.
LEMMA StrictStays == \A s \in Seq(O!Candle) : StrictRests(s)
<1> DEFINE N == {s \in Seq(O!Candle) : StrictRests(s)}
<1>1. <<>> \in N
  <2> DEFINE none == <<>>
  <2>1. none \in Seq(O!Candle) /\ \A k \in 0..Len(none) : SubSeq(none, 1, k) = none
    OBVIOUS
  <2> HIDE DEF none
  <2>2. StrictRests(none)
    BY <2>1 DEF StrictRests
  <2> QED  BY <2>1, <2>2 DEF none
<1>2. ASSUME NEW s \in N, NEW c \in O!Candle PROVE Append(s, c) \in N
  <2> DEFINE u == Append(s, c)
  <2>1. StrictWalk(u) = O!StrictStep(StrictWalk(s), c)
    BY StrictUnrolls
  <2>2. u \in Seq(O!Candle) /\ Len(u) = Len(s) + 1 /\ Len(s) \in Nat
    OBVIOUS
  <2>3. StrictWalk(s) \in Label
    BY StrictIsLabel
  <2>4. /\ StrictWalk(s).status # "open" => StrictWalk(u) = StrictWalk(s)
        /\ StrictWalk(s).tp1 => StrictWalk(u).tp1
    <3> HIDE DEF u
    <3> QED  BY <2>1, <2>3, StrictSteps
  <2>5. ASSUME NEW k \in 0..Len(u)
        PROVE  LET before == StrictWalk(SubSeq(u, 1, k)) IN
               /\ before.status # "open" => StrictWalk(u) = before
               /\ before.tp1 => StrictWalk(u).tp1
    <3>1. CASE k = Len(u)
      <4>1. SubSeq(u, 1, k) = u
        BY <2>2, <3>1, WholePrefix
      <4> QED  BY <4>1
    <3>2. CASE k \in 0..Len(s)
      <4>1. SubSeq(u, 1, k) = SubSeq(s, 1, k)
        BY <3>2, PrefixOfAppend
      <4> HIDE DEF u
      <4> QED  BY <2>4, <3>2, <4>1 DEF StrictRests
    <3> QED  BY <2>2, <3>1, <3>2
  <2> HIDE DEF u
  <2>6. StrictRests(u)
    BY <2>5 DEF StrictRests
  <2> QED  BY <2>2, <2>6 DEF u
<1>3. N = Seq(O!Candle)
  <2> HIDE DEF N
  <2>1. N \in SUBSET Seq(O!Candle)
    BY DEF N
  <2> QED  BY <1>1, <1>2, <2>1, SequencesGrow
<1> QED  BY <1>3

\* The labels beside the ledger's verdict, on the same candles.
RankSound(s) ==
    /\ RankWalk(s) \in Label /\ RankGoesWith(ForwardWalk(s), RankWalk(s))
    /\ RankWalk(s).status = "open" =>
         RankWalk(s).r = IF Len(s) = 0 THEN 0 ELSE 2 * s[Len(s)].close
\* The rank label beside the verdict, on any number of candles.
LEMMA RankIsSound == \A s \in Seq(O!Candle) : RankSound(s)
<1> DEFINE N == {s \in Seq(O!Candle) : RankSound(s)}
<1>1. <<>> \in N
  <2> DEFINE none == <<>>
  <2>1. none \in Seq(O!Candle) /\ Len(none) = 0
    OBVIOUS
  <2>2. ForwardWalk(none) = O!Open /\ RankWalk(none) = O!Open
    BY NoCandlesWalk
  <2> HIDE DEF none
  <2>3. RankSound(none)
    BY <2>1, <2>2, OpenTrade DEF RankSound, RankGoesWith
  <2> QED  BY <2>1, <2>3 DEF none
<1>2. ASSUME NEW s \in N, NEW c \in O!Candle PROVE Append(s, c) \in N
  <2> DEFINE u == Append(s, c)
  <2>1. u \in Seq(O!Candle) /\ Len(u) = Len(s) + 1 /\ Len(s) \in Nat /\ u[Len(u)] = c
    OBVIOUS
  <2>2. ForwardWalk(s) \in Verdict /\ (ForwardWalk(s).status = "open" => ForwardWalk(s).r = 0)
    BY ForwardIsSound DEF ForwardSound
  <2>3. ForwardWalk(u) = O!ForwardStep(ForwardWalk(s), c) /\ RankWalk(u) = O!RankStep(RankWalk(s), c)
    BY ForwardUnrolls, RankUnrolls
  <2>4. RankWalk(s) \in Label /\ RankGoesWith(ForwardWalk(s), RankWalk(s))
    BY DEF RankSound
  <2> HIDE DEF u
  <2>5. RankWalk(u) \in Label
    BY <2>3, <2>4, RankSteps
  <2>6. /\ RankGoesWith(ForwardWalk(u), RankWalk(u))
        /\ RankWalk(u).status = "open" => RankWalk(u).r = 2 * c.close
    BY <2>2, <2>3, <2>4, RankStepsAlong
  <2>7. RankSound(u)
    BY <2>1, <2>5, <2>6 DEF RankSound
  <2> QED  BY <2>1, <2>7 DEF u
<1>3. N = Seq(O!Candle)
  <2> HIDE DEF N
  <2>1. N \in SUBSET Seq(O!Candle)
    BY DEF N
  <2> QED  BY <1>1, <1>2, <2>1, SequencesGrow
<1> QED  BY <1>3

ReplaySound(s) == ReplayWalk(s) \in Label /\ ReplayGoesWith(RankWalk(s), ReplayWalk(s))
\* The replay label beside the rank label.
LEMMA ReplayIsSound == \A s \in Seq(O!Candle) : ReplaySound(s)
<1> DEFINE N == {s \in Seq(O!Candle) : ReplaySound(s)}
<1>1. <<>> \in N
  <2> DEFINE none == <<>>
  <2>1. none \in Seq(O!Candle)
    OBVIOUS
  <2>2. RankWalk(none) = O!Open /\ ReplayWalk(none) = O!Open
    BY NoCandlesWalk
  <2> HIDE DEF none
  <2>3. ReplaySound(none)
    BY <2>1, <2>2, OpenTrade DEF ReplaySound, ReplayGoesWith
  <2> QED  BY <2>1, <2>3 DEF none
<1>2. ASSUME NEW s \in N, NEW c \in O!Candle PROVE Append(s, c) \in N
  <2> DEFINE u == Append(s, c)
  <2>1. u \in Seq(O!Candle)
    OBVIOUS
  <2>2. RankWalk(s) \in Label
    BY RankIsSound DEF RankSound
  <2>3. RankWalk(u) = O!RankStep(RankWalk(s), c) /\ ReplayWalk(u) = O!ReplayStep(ReplayWalk(s), c)
    BY RankUnrolls, ReplayUnrolls
  <2>4. ReplayWalk(s) \in Label /\ ReplayGoesWith(RankWalk(s), ReplayWalk(s))
    BY DEF ReplaySound
  <2> HIDE DEF u
  <2>5. ReplayWalk(u) \in Label
    BY <2>3, <2>4, ReplaySteps
  <2>6. ReplayGoesWith(RankWalk(u), ReplayWalk(u))
    BY <2>2, <2>3, <2>4, ReplayStepsAlong
  <2>7. ReplaySound(u)
    BY <2>5, <2>6 DEF ReplaySound
  <2> QED  BY <2>1, <2>7 DEF u
<1>3. N = Seq(O!Candle)
  <2> HIDE DEF N
  <2>1. N \in SUBSET Seq(O!Candle)
    BY DEF N
  <2> QED  BY <1>1, <1>2, <2>1, SequencesGrow
<1> QED  BY <1>3

StrictSound(s) ==
    /\ StrictGoesWith(ForwardWalk(s), StrictWalk(s))
    /\ StrictWalk(s).status = "open" =>
         StrictWalk(s).r = IF Len(s) = 0 THEN 0
                           ELSE IF StrictWalk(s).tp1 THEN O!Banked + s[Len(s)].close
                           ELSE 2 * s[Len(s)].close
\* The strict label beside the verdict.
LEMMA StrictIsSound == \A s \in Seq(O!Candle) : StrictSound(s)
<1> DEFINE N == {s \in Seq(O!Candle) : StrictSound(s)}
<1>1. <<>> \in N
  <2> DEFINE none == <<>>
  <2>1. none \in Seq(O!Candle) /\ Len(none) = 0
    OBVIOUS
  <2>2. ForwardWalk(none) = O!Open /\ StrictWalk(none) = O!Open
    BY NoCandlesWalk
  <2> HIDE DEF none
  <2>3. StrictSound(none)
    BY <2>1, <2>2, OpenTrade DEF StrictSound, StrictGoesWith
  <2> QED  BY <2>1, <2>3 DEF none
<1>2. ASSUME NEW s \in N, NEW c \in O!Candle PROVE Append(s, c) \in N
  <2> DEFINE u == Append(s, c)
  <2>1. u \in Seq(O!Candle) /\ Len(u) = Len(s) + 1 /\ Len(s) \in Nat /\ u[Len(u)] = c
    OBVIOUS
  <2>2. ForwardWalk(s) \in Verdict /\ (ForwardWalk(s).status = "open" => ForwardWalk(s).r = 0)
    BY ForwardIsSound DEF ForwardSound
  <2>3. ForwardWalk(u) = O!ForwardStep(ForwardWalk(s), c) /\ StrictWalk(u) = O!StrictStep(StrictWalk(s), c)
    BY ForwardUnrolls, StrictUnrolls
  <2>4. StrictWalk(s) \in Label /\ StrictGoesWith(ForwardWalk(s), StrictWalk(s))
    BY StrictIsLabel DEF StrictSound
  <2> HIDE DEF u
  <2>5. /\ StrictGoesWith(ForwardWalk(u), StrictWalk(u))
        /\ StrictWalk(u).status = "open" =>
             StrictWalk(u).r = IF StrictWalk(u).tp1 THEN O!Banked + c.close ELSE 2 * c.close
    BY <2>2, <2>3, <2>4, StrictStepsAlong
  <2>6. StrictSound(u)
    BY <2>1, <2>5 DEF StrictSound
  <2> QED  BY <2>1, <2>6 DEF u
<1>3. N = Seq(O!Candle)
  <2> HIDE DEF N
  <2>1. N \in SUBSET Seq(O!Candle)
    BY DEF N
  <2> QED  BY <1>1, <1>2, <2>1, SequencesGrow
<1> QED  BY <1>3

-----------------------------------------------------------------------------
(* The backtest's loop.                                                    *)

Simulating(s, n, a, i) ==
    IF i = 0 \/ a[i - 1].status = "exit"
    THEN IF i = 0 THEN O!Open ELSE a[i - 1]
    ELSE [O!BacktestStep(a[i - 1], s[i], i = n) EXCEPT !.bars = i]

\* There is a function as the backtest's loop is defined, for any number of candles.
LEMMA SimulationExists ==
    ASSUME NEW s, NEW n \in Nat
    PROVE  \E a : a = [i \in 0..n |-> Simulating(s, n, a, i)]
<1> DEFINE UpTo(a, k) == \A i \in 0..n : i <= k => a[i] = Simulating(s, n, a, i)
           N == {k \in Nat : \E a : UpTo(a, k)}
<1>1. ASSUME NEW a, NEW k \in Nat, UpTo(a, k), NEW b, b = [i \in 0..n |-> Simulating(s, n, a, i)]
      PROVE  UpTo(b, k + 1)
  <2> SUFFICES ASSUME NEW i \in 0..n, i <= k + 1 PROVE b[i] = Simulating(s, n, b, i)
    OBVIOUS
  <2>1. b[i] = Simulating(s, n, a, i)
    BY <1>1
  <2>2. CASE i = 0
    BY <2>1, <2>2 DEF Simulating
  <2>3. CASE i # 0
    <3>1. i - 1 \in 0..n /\ i - 1 <= k
      BY <2>3
    <3>2. b[i - 1] = a[i - 1]
      BY <1>1, <3>1
    <3> QED  BY <2>1, <3>2 DEF Simulating
  <2> QED  BY <2>2, <2>3
<1>2. 0 \in N
  <2> DEFINE a == [i \in 0..n |-> O!Open]
  <2>1. UpTo(a, 0)
    BY DEF Simulating
  <2> HIDE DEF UpTo, a
  <2> QED  BY <2>1
<1>3. ASSUME NEW k \in N PROVE k + 1 \in N
  <2>1. PICK a : UpTo(a, k)
    OBVIOUS
  <2>2. UpTo([i \in 0..n |-> Simulating(s, n, a, i)], k + 1)
    <3> HIDE DEF UpTo
    <3> QED  BY <1>1, <2>1
  <2> HIDE DEF UpTo
  <2> QED  BY <2>2
<1>4. N = Nat
  <2> HIDE DEF N
  <2>1. N \in SUBSET Nat  BY DEF N
  <2> QED  BY <1>2, <1>3, <2>1, NatSetInduction
<1>5. PICK a : UpTo(a, n)
  BY <1>4
<1> DEFINE b == [i \in 0..n |-> a[i]]
<1>6. \A i \in 0..n : a[i] = Simulating(s, n, a, i)
  BY <1>5
<1>7. \A i \in 0..n : Simulating(s, n, a, i) = Simulating(s, n, b, i)
  <2> SUFFICES ASSUME NEW i \in 0..n PROVE Simulating(s, n, a, i) = Simulating(s, n, b, i)
    OBVIOUS
  <2>1. CASE i = 0
    BY <2>1 DEF Simulating
  <2>2. CASE i # 0
    <3>1. i - 1 \in 0..n
      BY <2>2
    <3>2. b[i - 1] = a[i - 1]
      BY <3>1
    <3> QED  BY <3>2 DEF Simulating
  <2> QED  BY <2>1, <2>2
<1>8. b = [i \in 0..n |-> Simulating(s, n, b, i)]
  BY <1>6, <1>7
<1> HIDE DEF b
<1> QED  BY <1>8

\* And the backtest's result is its last value.
LEMMA SimulationIs ==
    ASSUME NEW s \in Seq(O!Candle), Len(s) = HeldBars
    PROVE  \E a : /\ a = [i \in 0..Len(s) |-> Simulating(s, Len(s), a, i)]
                  /\ O!SimulatedTrade(s) = a[Len(s)]
<1> DEFINE a == CHOOSE f : f = [i \in 0..Len(s) |-> Simulating(s, Len(s), f, i)]
<1>1. Len(s) \in Nat
  OBVIOUS
<1>2. a = [i \in 0..Len(s) |-> Simulating(s, Len(s), a, i)]
  BY <1>1, SimulationExists
<1>3. O!SimulatedTrade(s) = a[Len(s)]
  <2>1. (IF Len(s) < HeldBars THEN Len(s) ELSE HeldBars) = Len(s)
    BY <1>1
  <2> QED  BY <2>1 DEF O!SimulatedTrade, Simulating
<1> HIDE DEF a
<1> QED  BY <1>2, <1>3

\* The candles up to the next one are those before it and that one.
LEMMA PrefixGrows ==
    ASSUME NEW C, NEW s \in Seq(C), NEW i \in Nat, i < Len(s)
    PROVE  /\ SubSeq(s, 1, i) \in Seq(C) /\ s[i + 1] \in C /\ Len(SubSeq(s, 1, i)) = i
           /\ SubSeq(s, 1, i + 1) = Append(SubSeq(s, 1, i), s[i + 1])
<1>1. SubSeq(s, 1, i) \in Seq(C) /\ Len(SubSeq(s, 1, i)) = i /\ s[i + 1] \in C
  OBVIOUS
<1>2. SubSeq(s, 1, i + 1) \in Seq(C) /\ Len(SubSeq(s, 1, i + 1)) = i + 1
  OBVIOUS
<1>3. Append(SubSeq(s, 1, i), s[i + 1]) \in Seq(C) /\ Len(Append(SubSeq(s, 1, i), s[i + 1])) = i + 1
  BY <1>1
<1>4. \A j \in 1..i + 1 : SubSeq(s, 1, i + 1)[j] = Append(SubSeq(s, 1, i), s[i + 1])[j]
  BY <1>1
<1> DEFINE p == SubSeq(s, 1, i + 1)
           q == Append(SubSeq(s, 1, i), s[i + 1])
<1>5. p = q
  <2>1. p \in Seq(C) /\ q \in Seq(C) /\ Len(p) = Len(q) /\ Len(p) = i + 1
    BY <1>2, <1>3
  <2>2. \A j \in 1..i + 1 : p[j] = q[j]
    BY <1>4
  <2> HIDE DEF p, q
  <2> QED  BY <2>1, <2>2, SeqEqual
<1> QED  BY <1>1, <1>5

BackGoesWith(f, b) ==
    /\ b \in Label /\ b.bars = f.bars /\ b.tp1 = f.tp1 /\ b.r = f.r
    /\ b.status = "open" <=> f.status = "open"

\* The backtest counts a trade's candles by the index of its loop.
LEMMA BackRenumbered ==
    ASSUME NEW w \in Label, NEW i \in Nat
    PROVE  LET b == [w EXCEPT !.bars = i] IN
           b \in Label /\ b.status = w.status /\ b.r = w.r /\ b.tp1 = w.tp1 /\ b.bars = i
<1>1. w \in Trade
  BY DEF Label
<1>2. [w EXCEPT !.bars = i] \in Trade /\ [w EXCEPT !.bars = i].status = w.status
  BY <1>1 DEF Trade
<1> QED  BY <1>1, <1>2 DEF Label, Trade

\* Before its last candle the backtest has done what the ledger does.
LEMMA BackBeforeTheEnd ==
    ASSUME NEW s \in Seq(O!Candle), NEW n, n = Len(s),
           NEW a, a = [i \in 0..n |-> Simulating(s, n, a, i)],
           NEW i \in Nat, i < n \/ i = 0
    PROVE  BackGoesWith(ForwardWalk(SubSeq(s, 1, i)), a[i])
<1> DEFINE N == {k \in Nat : k < n \/ k = 0 => BackGoesWith(ForwardWalk(SubSeq(s, 1, k)), a[k])}
<1>0. n \in Nat
  OBVIOUS
<1>1. 0 \in N
  <2>1. a[0] = O!Open
    BY <1>0 DEF Simulating
  <2>2. SubSeq(s, 1, 0) = <<>>
    OBVIOUS
  <2>3. BackGoesWith(O!Open, O!Open)
    BY OpenTrade DEF BackGoesWith
  <2> QED  BY <2>1, <2>2, <2>3, NoCandlesWalk
<1>2. ASSUME NEW k \in N PROVE k + 1 \in N
  <2> SUFFICES ASSUME k + 1 < n PROVE BackGoesWith(ForwardWalk(SubSeq(s, 1, k + 1)), a[k + 1])
    OBVIOUS
  <2> DEFINE p == SubSeq(s, 1, k)
             f == ForwardWalk(p)
             b == a[k]
             c == s[k + 1]
  <2>1. k \in Nat /\ k < n /\ k + 1 \in 0..n /\ k + 1 # 0 /\ (k + 1) - 1 = k /\ k + 1 # n
    BY <1>0
  <2>2. BackGoesWith(f, b)
    BY <2>1
  <2>3. p \in Seq(O!Candle) /\ c \in O!Candle /\ SubSeq(s, 1, k + 1) = Append(p, c) /\ Len(p) = k
    BY <2>1, PrefixGrows
  <2>4. ForwardWalk(SubSeq(s, 1, k + 1)) = O!ForwardStep(f, c)
    BY <2>3, ForwardUnrolls
  <2>5. f \in Verdict /\ (f.status = "open" => f.bars = k /\ f.r = 0)
    BY <2>3, ForwardIsSound DEF ForwardSound
  <2>6. a[k + 1] = IF b.status = "exit" THEN b ELSE [O!BacktestStep(b, c, FALSE) EXCEPT !.bars = k + 1]
    <3>1. a[k + 1] = Simulating(s, n, a, k + 1)
      BY <2>1
    <3>2. O!BacktestStep(b, c, k + 1 = n) = O!BacktestStep(b, c, FALSE)
      BY <2>1 DEF O!BacktestStep
    <3>3. a[k + 1] = IF b.status = "exit" THEN b ELSE [O!BacktestStep(b, c, k + 1 = n) EXCEPT !.bars = k + 1]
      BY <2>1, <3>1 DEF Simulating
    <3> HIDE DEF b, c
    <3> QED  BY <3>2, <3>3
  <2> DEFINE v == O!ForwardStep(f, c)
             w == O!BacktestStep(b, c, FALSE)
  <2> HIDE DEF p, f, b, c
  <2>7. CASE b.status = "exit"
    <3>1. O!ForwardStep(f, c) = f
      BY <2>2, <2>3, <2>5, <2>7, ForwardSteps DEF BackGoesWith
    <3> QED  BY <2>2, <2>4, <2>6, <2>7, <3>1
  <2>8. CASE b.status # "exit"
    <3>1. b.status = "open" /\ f.status = "open" /\ b \in Label
      BY <2>2, <2>8 DEF BackGoesWith, Label
    <3>2. b.r = 0 /\ f.r = 0 /\ b.tp1 = f.tp1
      BY <2>2, <2>5, <3>1 DEF BackGoesWith
    <3>3. /\ w \in Label /\ w.tp1 = v.tp1 /\ w.r = v.r
          /\ w.status = "open" <=> v.status = "open"
      BY <2>3, <2>5, <3>1, <3>2, BackStepsAlong
    <3>4. v.bars = k + 1
      BY <2>3, <2>5, <3>1, ForwardSteps
    <3> HIDE DEF v, w
    <3>5. LET b2 == [w EXCEPT !.bars = k + 1] IN
          b2 \in Label /\ b2.status = w.status /\ b2.r = w.r /\ b2.tp1 = w.tp1 /\ b2.bars = k + 1
      BY <2>1, <3>3, BackRenumbered
    <3>6. BackGoesWith(v, [w EXCEPT !.bars = k + 1])
      BY <3>3, <3>4, <3>5 DEF BackGoesWith
    <3> QED  BY <2>4, <2>6, <2>8, <3>6 DEF v, w
  <2> QED  BY <2>7, <2>8
<1>3. N = Nat
  <2> HIDE DEF N
  <2>1. N \in SUBSET Nat  BY DEF N
  <2> QED  BY <1>1, <1>2, <2>1, NatSetInduction
<1>4. i \in N
  BY <1>3
<1> QED  BY <1>4

Kept(c) == IF c.close > 0 THEN c.close ELSE 0

\* A backtest over as many candles as a trade may be held ends as the verdict does.
LEMMA BackAtTheEnd ==
    ASSUME NEW s \in Seq(O!Candle), Len(s) = HeldBars
    PROVE  LET b == O!SimulatedTrade(s)
               f == ForwardWalk(s) IN
           /\ f.status # "open" => b.r = f.r /\ b.bars = f.bars
           /\ f.status = "open" =>
                /\ b.bars = Len(s)
                /\ b.r = IF Len(s) = 0 THEN 0
                         ELSE IF f.tp1 THEN O!Banked + Kept(s[Len(s)]) ELSE 2 * s[Len(s)].close
<1> DEFINE n == Len(s)
<1>0. n \in Nat /\ n = Len(s)
  OBVIOUS
<1>1. PICK a : a = [i \in 0..n |-> Simulating(s, n, a, i)] /\ O!SimulatedTrade(s) = a[n]
  BY SimulationIs
<1> HIDE DEF n
<1>2. CASE n = 0
  <2>1. BackGoesWith(ForwardWalk(SubSeq(s, 1, n)), a[n])
    BY <1>0, <1>1, <1>2, BackBeforeTheEnd
  <2>2. SubSeq(s, 1, n) = s
    BY <1>0, WholePrefix
  <2>3. ForwardWalk(s).status = "open" => ForwardWalk(s).r = 0 /\ ForwardWalk(s).bars = n
    BY <1>0, ForwardIsSound DEF ForwardSound
  <2> QED  BY <1>0, <1>1, <1>2, <2>1, <2>2, <2>3 DEF BackGoesWith
<1>3. CASE n # 0
  <2> DEFINE k == n - 1
             p == SubSeq(s, 1, k)
             f == ForwardWalk(p)
             b == a[k]
             c == s[n]
             v == O!ForwardStep(f, c)
             w == O!BacktestStep(b, c, TRUE)
  <2>1. k \in Nat /\ k < n /\ k + 1 = n /\ n \in 0..n
    BY <1>0, <1>3
  <2>2. BackGoesWith(f, b)
    BY <1>0, <1>1, <2>1, BackBeforeTheEnd
  <2>3. p \in Seq(O!Candle) /\ c \in O!Candle /\ s = Append(p, c) /\ Len(p) = k
    <3>1. SubSeq(s, 1, n) = s
      BY <1>0, WholePrefix
    <3> HIDE DEF k
    <3> QED  BY <1>0, <2>1, <3>1, PrefixGrows
  <2>4. ForwardWalk(s) = v
    BY <2>3, ForwardUnrolls
  <2>5. f \in Verdict /\ (f.status = "open" => f.bars = k /\ f.r = 0)
    BY <2>3, ForwardIsSound DEF ForwardSound
  <2>6. a[n] = IF b.status = "exit" THEN b ELSE [w EXCEPT !.bars = n]
    <3>1. a[n] = Simulating(s, n, a, n)
      BY <1>1, <2>1
    <3>2. O!BacktestStep(b, c, n = n) = w
      BY DEF O!BacktestStep
    <3>3. a[n] = IF b.status = "exit" THEN b ELSE [O!BacktestStep(b, c, n = n) EXCEPT !.bars = n]
      BY <1>3, <3>1 DEF Simulating
    <3> HIDE DEF b, c, w
    <3> QED  BY <3>2, <3>3
  <2> HIDE DEF k, p, f, b, c
  <2>7. CASE b.status = "exit"
    <3>1. v = f /\ f.status # "open"
      BY <2>2, <2>3, <2>5, <2>7, ForwardSteps DEF BackGoesWith
    <3> HIDE DEF v, w
    <3> QED  BY <1>1, <2>2, <2>4, <2>6, <2>7, <3>1 DEF BackGoesWith
  <2>8. CASE b.status # "exit"
    <3>1. b.status = "open" /\ f.status = "open" /\ b \in Label
      BY <2>2, <2>8 DEF BackGoesWith, Label
    <3>2. b.r = 0 /\ f.r = 0 /\ b.tp1 = f.tp1
      BY <2>2, <2>5, <3>1 DEF BackGoesWith
    <3>3. /\ w \in Label
          /\ v.status # "open" => w.r = v.r
          /\ v.status = "open" => w.r = IF v.tp1 THEN O!Banked + Kept(c) ELSE 2 * c.close
      BY <2>3, <2>5, <3>1, <3>2, BackEndsAlong DEF Kept
    <3>4. v.bars = n
      BY <2>1, <2>3, <2>5, <3>1, ForwardSteps
    <3> HIDE DEF v, w
    <3>5. [w EXCEPT !.bars = n].r = w.r /\ [w EXCEPT !.bars = n].bars = n
      BY <1>0, <3>3, BackRenumbered
    <3> QED  BY <1>0, <1>1, <1>3, <2>4, <2>6, <2>8, <3>3, <3>4, <3>5 DEF c
  <2> QED  BY <2>7, <2>8
<1> QED  BY <1>2, <1>3

-----------------------------------------------------------------------------
(* The verdict, and when it was given.                                     *)

Resolved(s, o) ==
    LET f == ForwardWalk(s) IN
    /\ Len(s) = 0 \/ f.status # "open" \/ Len(s) < HeldBars => o = f
    /\ Len(s) > 0 /\ f.status = "open" /\ Len(s) = HeldBars =>
         /\ o.tp1 = f.tp1 /\ o.bars = f.bars /\ o.status # "open"
         /\ o.r = IF f.tp1 THEN O!Banked + Kept(s[Len(s)]) ELSE 2 * s[Len(s)].close

\* What a path of candles is resolved to.
LEMMA ResolveIs ==
    ASSUME NEW s \in Seq(O!Candle), Len(s) <= HeldBars
    PROVE  Resolved(s, O!ResolveSignal(s))
<1> DEFINE f == ForwardWalk(s)
           move == s[Len(s)].close
           kept == IF move > 0 THEN move ELSE 0
           o == O!ResolveSignal(s)
<1>1. Len(s) \in Nat /\ (s = <<>> <=> Len(s) = 0) /\ HeldBars \in Nat
  BY OutcomeAssumption
<1>2. SubSeq(s, 1, IF Len(s) < HeldBars THEN Len(s) ELSE HeldBars) = s
  <2>1. (IF Len(s) < HeldBars THEN Len(s) ELSE HeldBars) = Len(s)
    BY <1>1
  <2> QED  BY <2>1, WholePrefix
<1>3. f \in Trade
  BY ForwardIsSound DEF ForwardSound, Verdict
<1>4. o = IF s = <<>> \/ f.status # "open" \/ Len(s) < HeldBars THEN f
          ELSE IF f.tp1 THEN [f EXCEPT !.status = "partial", !.r = O!Banked + kept]
          ELSE [f EXCEPT !.status = "timed", !.r = 2 * move]
  BY <1>2 DEF O!ResolveSignal, ForwardWalk
<1> DEFINE a == [f EXCEPT !.status = "partial", !.r = O!Banked + kept]
           b == [f EXCEPT !.status = "timed", !.r = 2 * move]
<1>5. /\ a.tp1 = f.tp1 /\ a.bars = f.bars /\ a.status # "open" /\ a.r = O!Banked + kept
      /\ b.tp1 = f.tp1 /\ b.bars = f.bars /\ b.status # "open" /\ b.r = 2 * move
  <2> HIDE DEF f, kept, move
  <2> QED  BY <1>3 DEF Trade
<1> HIDE DEF f, a, b, o
<1>6. CASE s = <<>> \/ f.status # "open" \/ Len(s) < HeldBars
  BY <1>1, <1>4, <1>6 DEF Resolved, f, o
<1>7. CASE ~(s = <<>> \/ f.status # "open" \/ Len(s) < HeldBars)
  <2>1. o = IF f.tp1 THEN a ELSE b
    BY <1>4, <1>7 DEF a, b
  <2>2. /\ o.tp1 = f.tp1 /\ o.bars = f.bars /\ o.status # "open"
        /\ o.r = IF f.tp1 THEN O!Banked + kept ELSE 2 * move
    BY <1>5, <2>1
  <2> HIDE DEF move
  <2>3. o.r = IF f.tp1 THEN O!Banked + Kept(s[Len(s)]) ELSE 2 * s[Len(s)].close
    BY <2>2 DEF Kept, move
  <2> QED  BY <1>1, <1>7, <2>2, <2>3 DEF Resolved, f, o
<1> QED  BY <1>6, <1>7

\* A verdict on the first candles: given on completed ones, or with the one the market was
\* drawing, which has become no narrower since.
OnCompleted(o) == \E k \in 0..Len(path) : o = O!ResolveSignal(SubSeq(path, 1, k))
OnForming(o) ==
    \E k \in 0..Len(path), c \in O!Candle :
        /\ o = O!ResolveSignal(Append(SubSeq(path, 1, k), c))
        /\ k < HeldBars
        /\ k = Len(path) => forming = c
        /\ k < Len(path) => path[k + 1].low <= c.low /\ path[k + 1].high >= c.high
OutcomeInv ==
    /\ path \in Seq(O!Candle) /\ Len(path) <= HeldBars
    /\ forming # O!NoCandle => forming \in O!Candle /\ Len(path) < HeldBars
    /\ settled.live => settled.outcome.status # "open"
    /\ settled.outcome.status # "open" =>
         IF settled.live THEN OnForming(settled.outcome) ELSE OnCompleted(settled.outcome)

\* A verdict on the first candles of a path stands on all of them.
LEMMA EarlierVerdict ==
    ASSUME OutcomeInv, NEW k \in 0..Len(path)
    PROVE  /\ SubSeq(path, 1, k) \in Seq(O!Candle) /\ Len(SubSeq(path, 1, k)) = k
           /\ Resolved(SubSeq(path, 1, k), O!ResolveSignal(SubSeq(path, 1, k)))
           /\ LET before == ForwardWalk(SubSeq(path, 1, k)) IN
              /\ before.status # "open" => ForwardWalk(path) = before
              /\ before.tp1 => ForwardWalk(path).tp1
<1>1. path \in Seq(O!Candle) /\ Len(path) <= HeldBars /\ HeldBars \in Nat
  BY OutcomeAssumption DEF OutcomeInv
<1>2. SubSeq(path, 1, k) \in Seq(O!Candle) /\ Len(SubSeq(path, 1, k)) = k
  BY <1>1
<1>3. Len(SubSeq(path, 1, k)) <= HeldBars
  BY <1>1, <1>2
<1>4. Resolved(SubSeq(path, 1, k), O!ResolveSignal(SubSeq(path, 1, k)))
  BY <1>2, <1>3, ResolveIs
<1>5. ForwardRests(path)
  BY <1>1, ForwardStays
<1> QED  BY <1>2, <1>4, <1>5 DEF ForwardRests

\* The verdict on the whole path.
LEMMA FinalVerdict ==
    ASSUME OutcomeInv
    PROVE  path \in Seq(O!Candle) /\ Len(path) \in Nat /\ Resolved(path, O!Final)
<1>1. path \in Seq(O!Candle) /\ Len(path) <= HeldBars
  BY DEF OutcomeInv
<1> QED  BY <1>1, ResolveIs DEF O!Final

\* A verdict given on completed candles is the same whenever it is asked for.
LEMMA WhenHolds == ASSUME OutcomeInv PROVE O!WhenDoesNotMatter
<1> SUFFICES ASSUME Len(path) = HeldBars, settled.outcome.status # "open", ~settled.live
             PROVE  settled.outcome = O!Final
  BY DEF O!WhenDoesNotMatter, O!Over
<1> DEFINE o == settled.outcome
<1>1. PICK k \in 0..Len(path) : o = O!ResolveSignal(SubSeq(path, 1, k))
  BY DEF OutcomeInv, OnCompleted
<1>2. path \in Seq(O!Candle) /\ Len(path) \in Nat /\ Resolved(path, O!Final)
  BY FinalVerdict
<1>3. CASE k = Len(path)
  <2>1. SubSeq(path, 1, k) = path
    BY <1>2, <1>3, WholePrefix
  <2> QED  BY <1>1, <2>1 DEF O!Final
<1>4. CASE k # Len(path)
  <2> DEFINE p == SubSeq(path, 1, k)
  <2>1. /\ Len(p) = k /\ Resolved(p, o)
        /\ ForwardWalk(p).status # "open" => ForwardWalk(path) = ForwardWalk(p)
    BY <1>1, EarlierVerdict
  <2>2. k < HeldBars
    BY <1>2, <1>4
  <2> HIDE DEF p, o
  <2>3. o = ForwardWalk(p) /\ o.status # "open"
    BY <2>1, <2>2 DEF Resolved, o
  <2>4. O!Final = ForwardWalk(path)
    BY <1>2, <2>1, <2>3 DEF Resolved
  <2> QED  BY <2>1, <2>3, <2>4 DEF o
<1> QED  BY <1>3, <1>4

\* A stop seen on a candle still being drawn stands when it completes.
LEMMA SeenHolds == ASSUME OutcomeInv PROVE O!SeenStopsStand
<1> SUFFICES ASSUME Len(path) = HeldBars, settled.live, settled.outcome # O!Final
             PROVE  settled.outcome.status = "win" \/ settled.outcome.bars = HeldBars
  BY DEF O!SeenStopsStand, O!Over
<1> DEFINE o == settled.outcome
<1>1. PICK k \in 0..Len(path), c \in O!Candle :
        /\ o = O!ResolveSignal(Append(SubSeq(path, 1, k), c))
        /\ k < HeldBars
        /\ k = Len(path) => forming = c
        /\ k < Len(path) => path[k + 1].low <= c.low /\ path[k + 1].high >= c.high
  BY DEF OutcomeInv, OnForming
<1>2. path \in Seq(O!Candle) /\ Len(path) \in Nat /\ Resolved(path, O!Final) /\ o.status # "open"
  BY FinalVerdict DEF OutcomeInv
<1> DEFINE p == SubSeq(path, 1, k)
           d == path[k + 1]
           f == ForwardWalk(p)
           q == SubSeq(path, 1, k + 1)
<1>3. k \in Nat /\ k < Len(path) /\ k + 1 \in 0..Len(path) /\ k + 1 <= HeldBars
  BY <1>1, <1>2
<1>4. /\ p \in Seq(O!Candle) /\ d \in O!Candle /\ Len(p) = k
      /\ q = Append(p, d)
  BY <1>2, <1>3, PrefixGrows
<1>5. /\ f.status # "open" => ForwardWalk(path) = f
      /\ ForwardWalk(q).status # "open" => ForwardWalk(path) = ForwardWalk(q)
  BY <1>3, EarlierVerdict
<1> DEFINE u == Append(p, c)
<1>6. u \in Seq(O!Candle) /\ Len(u) = k + 1
  BY <1>4
<1>7. Resolved(u, o)
  BY <1>1, <1>3, <1>6, ResolveIs
<1>8. ForwardWalk(u) = O!ForwardStep(f, c) /\ ForwardWalk(q) = O!ForwardStep(f, d)
  BY <1>4, ForwardUnrolls
<1>9. f \in Verdict /\ f \in Trade /\ (f.status = "open" => f.bars = k)
  BY <1>4, ForwardIsSound DEF ForwardSound, Verdict
<1>10. d.low <= c.low /\ o # O!Final
  BY <1>1, <1>3
<1> HIDE DEF p, d, f, q, u, o
<1>11. CASE f.status # "open"
  <2>1. O!ForwardStep(f, c) = f
    BY <1>9, <1>11, ForwardSteps
  <2>2. o = f
    BY <1>7, <1>8, <1>11, <2>1 DEF Resolved
  <2>3. O!Final = f
    BY <1>2, <1>5, <1>11 DEF Resolved
  <2> QED  BY <1>10, <2>2, <2>3
<1>12. CASE f.status = "open"
  <2>1. ForwardTo(f, c, O!ForwardStep(f, c))
    BY <1>9, ForwardStepsFields
  <2>2. CASE c.low <= Level(f)
    <3>1. d.low <= Level(f)
      <4>1. c.low \in Int /\ d.low \in Int /\ Level(f) \in Int
        BY <1>4, Rewards, CandlesAreNumbers DEF Level
      <4> QED  BY <1>10, <2>2, <4>1
    <3>2. O!ForwardStep(f, c) = O!ForwardStep(f, d)
      BY <1>4, <1>9, <1>12, <2>2, <3>1, ForwardStepIs
    <3>3. O!ForwardStep(f, c).status # "open"
      BY <1>12, <2>1, <2>2 DEF ForwardTo
    <3>4. o = O!ForwardStep(f, c)
      BY <1>7, <1>8, <3>3 DEF Resolved
    <3>5. O!Final = O!ForwardStep(f, d)
      BY <1>2, <1>5, <1>8, <3>2, <3>3 DEF Resolved
    <3> QED  BY <1>10, <3>2, <3>4, <3>5
  <2>3. CASE ~(c.low <= Level(f)) /\ PastTp1(f, c) /\ c.high >= O!Tp2
    <3>1. O!ForwardStep(f, c).status = "win"
      BY <1>12, <2>1, <2>3 DEF ForwardTo
    <3>2. o = O!ForwardStep(f, c)
      BY <1>7, <1>8, <3>1 DEF Resolved
    <3> QED  BY <3>1, <3>2 DEF o
  <2>4. CASE ~(c.low <= Level(f)) /\ ~(PastTp1(f, c) /\ c.high >= O!Tp2)
    <3>1. O!ForwardStep(f, c).status = "open" /\ O!ForwardStep(f, c).bars = k + 1
      BY <1>9, <1>12, <2>1, <2>4 DEF ForwardTo
    <3>2. k + 1 = HeldBars
      <4>1. ~(k + 1 < HeldBars)
        <5> SUFFICES ASSUME k + 1 < HeldBars PROVE FALSE
          OBVIOUS
        <5>1. o = O!ForwardStep(f, c)
          BY <1>6, <1>7, <1>8 DEF Resolved
        <5> QED  BY <1>2, <3>1, <5>1 DEF o
      <4> QED  BY <1>3, <4>1, OutcomeAssumption
    <3>3. o.bars = k + 1
      BY <1>3, <1>6, <1>7, <1>8, <3>1, <3>2 DEF Resolved
    <3> QED  BY <3>2, <3>3 DEF o
  <2> QED  BY <2>2, <2>3, <2>4
<1> QED  BY <1>9, <1>11, <1>12 DEF Verdict

\* The backtest and the ledger agree.
LEMMA BacktestHolds == ASSUME OutcomeInv PROVE O!BacktestIsForward
<1> SUFFICES ASSUME Len(path) = HeldBars
             PROVE  O!SimulatedTrade(path).r = O!Final.r /\ O!SimulatedTrade(path).bars = O!Final.bars
  BY DEF O!BacktestIsForward, O!Over
<1>1. path \in Seq(O!Candle) /\ Len(path) \in Nat /\ Resolved(path, O!Final)
  BY FinalVerdict
<1>2. ForwardSound(path)
  BY <1>1, ForwardIsSound
<1> QED  BY <1>1, <1>2, BackAtTheEnd DEF Resolved, ForwardSound

\* Both labels agree, and with the verdict but for a trade that expires after TP1.
LEMMA LabelsHold == ASSUME OutcomeInv PROVE O!LabelsAgree
<1> SUFFICES ASSUME Len(path) = HeldBars
             PROVE  /\ O!TargetsFromFuture(path).r = O!ResolveCandidate(path).r
                    /\ O!TargetsFromFuture(path).tp1 = O!ResolveCandidate(path).tp1
                    /\ O!ResolveCandidate(path).tp1 = O!Final.tp1
                    /\ O!ResolveCandidate(path).r # O!Final.r =>
                         O!Final.tp1 /\ O!ResolveCandidate(path).status = "open"
  BY DEF O!LabelsAgree, O!Over
<1>1. path \in Seq(O!Candle) /\ Len(path) \in Nat /\ Resolved(path, O!Final)
  BY FinalVerdict
<1>2. SubSeq(path, 1, HeldBars) = path /\ ~(Len(path) < HeldBars)
  BY <1>1, WholePrefix
<1>3. O!TargetsFromFuture(path) = ReplayWalk(path) /\ O!ResolveCandidate(path) = RankWalk(path)
  BY <1>2 DEF O!TargetsFromFuture, O!ResolveCandidate, ReplayWalk, RankWalk
<1>4. ForwardSound(path) /\ RankSound(path) /\ ReplaySound(path)
  BY <1>1, ForwardIsSound, RankIsSound, ReplayIsSound
<1> DEFINE f == ForwardWalk(path)
           k == RankWalk(path)
<1>5. k.tp1 = f.tp1 /\ O!Final.tp1 = f.tp1
  BY <1>1, <1>4 DEF Resolved, RankSound, RankGoesWith
<1>6. k.r # O!Final.r => f.tp1 /\ k.status = "open"
  <2>1. CASE k.status = "open"
    BY <1>1, <1>4, <2>1 DEF Resolved, RankSound, RankGoesWith, ForwardSound
  <2>2. CASE k.status = "exit"
    BY <1>1, <1>4, <2>2 DEF Resolved, RankSound, RankGoesWith
  <2> QED  BY <1>4, <2>1, <2>2 DEF RankSound, Label
<1> QED  BY <1>3, <1>4, <1>5, <1>6 DEF ReplaySound, ReplayGoesWith

\* A window that has been read to its end, or a trade that is over.
LEMMA StrictIs ==
    ASSUME NEW s \in Seq(O!Candle), Len(s) <= HeldBars
    PROVE  O!ResolveStrict(s) = IF StrictWalk(s).status = "exit" \/ Len(s) >= HeldBars THEN StrictWalk(s)
                                ELSE [O!Open EXCEPT !.status = "gap"]
<1>1. SubSeq(s, 1, IF Len(s) < HeldBars THEN Len(s) ELSE HeldBars) = s
  <2>1. (IF Len(s) < HeldBars THEN Len(s) ELSE HeldBars) = Len(s)
    BY OutcomeAssumption
  <2> QED  BY <2>1, WholePrefix
<1> QED  BY <1>1 DEF O!ResolveStrict, StrictWalk

\* The strict label never credits a trade with more than the ledger does.
LEMMA StrictHolds == ASSUME OutcomeInv PROVE O!StrictIsCareful
<1>1. path \in Seq(O!Candle) /\ Len(path) \in Nat /\ Len(path) <= HeldBars /\ Resolved(path, O!Final)
  BY FinalVerdict DEF OutcomeInv
<1>2. ForwardSound(path) /\ StrictSound(path) /\ StrictRests(path) /\ StrictWalk(path) \in Label
  BY <1>1, ForwardIsSound, StrictIsSound, StrictStays, StrictIsLabel
<1> DEFINE f == ForwardWalk(path)
           k == StrictWalk(path)
<1>3. ASSUME Len(path) = HeldBars
      PROVE  O!ResolveStrict(path).r <= O!Final.r /\ O!ResolveStrict(path).tp1 = O!Final.tp1
  <2>1. O!ResolveStrict(path) = k
    BY <1>1, <1>3, StrictIs
  <2>2. f \in Verdict /\ f.r \in Int /\ f.tp1 \in BOOLEAN /\ k.r \in Int
    BY <1>2 DEF ForwardSound, Verdict, Label, Trade
  <2>3. O!Final.tp1 = f.tp1 /\ k.tp1 = f.tp1
    <3>1. k.tp1 = f.tp1
      BY <1>2 DEF StrictSound, StrictGoesWith
    <3>2. O!Final.tp1 = f.tp1
      BY <1>1, <1>3 DEF Resolved
    <3> QED  BY <3>1, <3>2
  <2>4. k.r <= O!Final.r
    <3> HIDE DEF f, k
    <3>1. CASE f.status # "open"
      <4>1. O!Final = f
        BY <1>1, <3>1 DEF Resolved, f
      <4> QED  BY <1>2, <2>2, <3>1, <4>1 DEF StrictSound, StrictGoesWith, f, k
    <3>2. CASE f.status = "open" /\ Len(path) = 0
      <4>1. O!Final = f
        BY <1>1, <3>2 DEF Resolved, f
      <4>2. f.r = 0
        BY <1>2, <3>2 DEF ForwardSound, f
      <4>3. path = <<>>
        BY <1>1, <3>2
      <4>4. k.r = 0
        BY <4>3, NoCandlesWalk, OpenTrade DEF k
      <4> QED  BY <4>1, <4>2, <4>4
    <3>3. CASE f.status = "open" /\ Len(path) # 0
      <4> DEFINE close == path[Len(path)].close
      <4>1. close \in Int
        <5>1. path[Len(path)] \in O!Candle
          BY <1>1, <3>3
        <5> QED  BY <5>1, CandlesAreNumbers
      <4>2. O!Final.r = IF f.tp1 THEN O!Banked + Kept(path[Len(path)]) ELSE 2 * close
        BY <1>1, <1>3, <3>3 DEF Resolved, f
      <4>3. \/ k.status = "exit" /\ k.r = O!Banked /\ k.tp1
            \/ k.r = IF k.tp1 THEN O!Banked + close ELSE 2 * close
        BY <1>2, <3>3 DEF StrictSound, StrictGoesWith, Label, f, k
      <4>4. Kept(path[Len(path)]) \in Int /\ Kept(path[Len(path)]) >= 0 /\ Kept(path[Len(path)]) >= close
        BY <4>1 DEF Kept
      <4> HIDE DEF close
      <4> QED  BY <2>2, <2>3, <4>1, <4>2, <4>3, <4>4, Rewards
    <3> QED  BY <1>1, <3>1, <3>2, <3>3
  <2> QED  BY <2>1, <2>3, <2>4
<1>4. ASSUME NEW n \in 0..Len(path), O!ResolveStrict(SubSeq(path, 1, n)).status = "exit"
      PROVE  O!ResolveStrict(SubSeq(path, 1, n)) = O!ResolveStrict(path)
  <2> DEFINE p == SubSeq(path, 1, n)
  <2>1. p \in Seq(O!Candle) /\ Len(p) = n /\ Len(p) <= HeldBars
    <3>1. p \in Seq(O!Candle) /\ Len(p) = n
      BY <1>1
    <3> QED  BY <1>1, <3>1, OutcomeAssumption
  <2>2. O!ResolveStrict(p) = IF StrictWalk(p).status = "exit" \/ Len(p) >= HeldBars THEN StrictWalk(p)
                             ELSE [O!Open EXCEPT !.status = "gap"]
    BY <2>1, StrictIs
  <2>3. [O!Open EXCEPT !.status = "gap"].status = "gap"
    BY DEF O!Open
  <2>4. StrictWalk(p).status = "exit" /\ O!ResolveStrict(p) = StrictWalk(p)
    BY <1>4, <2>2, <2>3
  <2>5. StrictWalk(path) = StrictWalk(p)
    BY <1>2, <2>4 DEF StrictRests
  <2>6. O!ResolveStrict(path) = StrictWalk(path)
    BY <1>1, <2>4, <2>5, StrictIs
  <2> QED  BY <2>4, <2>5, <2>6
<1> QED  BY <1>3, <1>4 DEF O!StrictIsCareful, O!Over

\* What a label at a shorter horizon is.
LEMMA HorizonIs ==
    ASSUME OutcomeInv, NEW h \in Nat, h <= HeldBars
    PROVE  LET n == IF h < Len(path) THEN h ELSE Len(path)
               t == StrictWalk(SubSeq(path, 1, n)) IN
           /\ n \in 0..Len(path)
           /\ O!ResolveAtHorizon(path, h) = IF t.status = "exit" \/ Len(path) >= h THEN t
                                            ELSE [O!Open EXCEPT !.status = "gap"]
<1>1. path \in Seq(O!Candle) /\ Len(path) \in Nat
  BY FinalVerdict
<1>2. O!Lesser(h, Len(path)) = IF h < Len(path) THEN h ELSE Len(path)
  BY DEF O!Lesser
<1> QED  BY <1>1, <1>2 DEF O!ResolveAtHorizon, StrictWalk

\* An exit within a horizon is the exit of the full one.
LEMMA HorizonsHold == ASSUME OutcomeInv PROVE O!HorizonsNest
<1>1. path \in Seq(O!Candle) /\ Len(path) \in Nat /\ Len(path) <= HeldBars /\ HeldBars \in Nat
  BY FinalVerdict, OutcomeAssumption DEF OutcomeInv
<1>2. StrictRests(path) /\ StrictWalk(path) \in Label
  BY <1>1, StrictStays, StrictIsLabel
<1> DEFINE k == StrictWalk(path)
           gap == [O!Open EXCEPT !.status = "gap"]
           full == O!ResolveAtHorizon(path, HeldBars)
<1>3. gap.status = "gap"
  BY DEF O!Open
<1>4. full = IF k.status = "exit" \/ Len(path) >= HeldBars THEN k ELSE gap
  <2> DEFINE h == HeldBars
             n == IF h < Len(path) THEN h ELSE Len(path)
             t == StrictWalk(SubSeq(path, 1, n))
  <2>1. n = Len(path)
    BY <1>1
  <2>2. SubSeq(path, 1, n) = path
    BY <1>1, <2>1, WholePrefix
  <2>3. h \in Nat /\ h <= HeldBars
    BY <1>1
  <2> HIDE DEF h, gap
  <2>4. O!ResolveAtHorizon(path, h) = IF t.status = "exit" \/ Len(path) >= h THEN t ELSE gap
    BY <2>3, HorizonIs DEF gap
  <2>5. t = k
    BY <2>2
  <2> QED  BY <2>4, <2>5 DEF h
<1>5. full = O!ResolveStrict(path)
  BY <1>1, <1>4, StrictIs
<1>6. ASSUME NEW h \in 1..HeldBars
      PROVE  LET short == O!ResolveAtHorizon(path, h) IN
             /\ short.status = "exit" => short = full
             /\ short.status # "gap" /\ full.status # "gap" => (short.tp1 => full.tp1)
  <2> DEFINE n == IF h < Len(path) THEN h ELSE Len(path)
             t == StrictWalk(SubSeq(path, 1, n))
             short == O!ResolveAtHorizon(path, h)
  <2>1. h \in Nat /\ h <= HeldBars
    BY <1>1
  <2>2. n \in 0..Len(path) /\ short = IF t.status = "exit" \/ Len(path) >= h THEN t ELSE gap
    BY <2>1, HorizonIs
  <2> HIDE DEF n
  <2>3. (t.status # "open" => k = t) /\ (t.tp1 => k.tp1)
    BY <1>2, <2>2 DEF StrictRests
  <2> HIDE DEF t, short, full, k, gap
  <2>4. short.status = "exit" => short = full
    BY <1>3, <1>4, <2>2, <2>3
  <2>5. short.status # "gap" /\ full.status # "gap" => (short.tp1 => full.tp1)
    BY <1>3, <1>4, <2>2, <2>3
  <2> QED  BY <2>4, <2>5 DEF short
<1> QED  BY <1>5, <1>6 DEF O!HorizonsNest
================================================================================
