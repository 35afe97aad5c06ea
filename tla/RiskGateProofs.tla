---------------------------- MODULE RiskGateProofs -----------------------------
(***************************************************************************)
(* What an approval of the risk engine means, for every configuration and  *)
(* every input, and so for every decision of the gate; and what the fills  *)
(* of approved requests, of any number of them, add up to.  Then the       *)
(* theorems about Terminal, where those requests are made, and about       *)
(* Backtester, whose portfolio the same engine guards.                     *)
(***************************************************************************)
EXTENDS RiskGate, Terminal, Backtester, FiniteSetTheorems, SequenceTheorems, TLAPS

USE RiskConfigAssumption

(* The types of the configuration, one by one.                              *)
LEMMA ConfigTypes ==
    /\ One \in Nat /\ One > 0 /\ Kilo \in Nat \ {0}
    /\ MaxTrade \in Nat \ {0} /\ MaxPosition \in Nat \ {0} /\ MaxDailyLoss \in Nat \ {0}
    /\ MaxOpenPositions \in Nat \ {0}
    /\ MinEdge \in 0..One /\ MinConfidence \in 0..One /\ MaxSlippage \in 0..One
    /\ MinLiquidity \in Nat
OBVIOUS

(* An amount the engine computes is a number.                               *)
LEMMA ScaleType ==
    ASSUME NEW num \in Int, NEW den \in Nat \ {0}
    PROVE  Scale(num, den) \in Int
BY DEF Scale, Least, AtLeastZero

Sizable(in) ==
    {in.signal.confidence, in.signal.edge, in.market.liquidity,
     in.portfolio.usd, in.portfolio.pnlToday} \subseteq Int

LEMMA InputsAreSizable ==
    ASSUME NEW in \in Inputs
    PROVE  Sizable(in)
BY DEF Inputs, Signals, Markets, Portfolios, Sizable

LEMMA RawSizeType ==
    ASSUME NEW in, Sizable(in)
    PROVE  RawSize(in) \in Int
<1> USE DEF Sizable
<1>1. ConfidenceAdjustment(in.signal.confidence) \in Int
  <2>1. in.signal.confidence - MinConfidence \in Int
    BY ConfigTypes
  <2>2. ~(MinConfidence >= One) => One - MinConfidence \in Nat \ {0}
    BY ConfigTypes
  <2> QED BY <2>1, <2>2, ScaleType, ConfigTypes DEF ConfidenceAdjustment
<1>2. EdgeAdjustment(in.signal.edge) \in Int
  BY ScaleType, ConfigTypes DEF EdgeAdjustment, EdgeSaturation, Magnitude
<1>3. LiquidityAdjustment(in.market.liquidity) \in Int
  BY ScaleType, ConfigTypes DEF LiquidityAdjustment
<1>4. \A x, y \in Int : Times(x, y) \in Int
  <2> SUFFICES ASSUME NEW x \in Int, NEW y \in Int PROVE (x * y) \div One \in Int
    BY DEF Times
  <2>1. x * y \in Int
    OBVIOUS
  <2> QED BY <2>1, ConfigTypes
<1>5. (4 * MaxTrade) \div 10 \in Int
  BY ConfigTypes
<1> QED BY <1>1, <1>2, <1>3, <1>4, <1>5 DEF RawSize

(* order-sizing.ts: never below zero, and never above any of the three caps.*)
LEMMA SizeWithinCaps ==
    ASSUME NEW in, Sizable(in)
    PROVE  /\ OrderSize(in) \in Nat
           /\ OrderSize(in) <= MaxTrade
           /\ OrderSize(in) <= AtLeastZero(MaxPosition - in.portfolio.usd)
           /\ OrderSize(in) <= AtLeastZero(MaxDailyLoss - LossToday(in))
BY RawSizeType DEF OrderSize, PositionHeadroom, DailyLossHeadroom, LossToday, Least, AtLeastZero,
   Sizable

(* An approval has passed every one of the checks it rests on.              *)
LEMMA ApprovedPasses ==
    ASSUME NEW in, Evaluate(in).approved
    PROVE  /\ ~(in.portfolio.count >= MaxOpenPositions)
           /\ ~(in.portfolio.usd + OrderSize(in) > MaxPosition)
           /\ ~(OrderSize(in) <= 0)
           /\ Covering(in.asks, OrderSize(in)) # {}
           /\ ~Slips(in)
           /\ Evaluate(in) = [approved |-> TRUE, code |-> "NONE", maxSize |-> OrderSize(in),
                maxPrice |-> Least(in.signal.maxEntryPrice, WorstPrice(in.asks, OrderSize(in)))]
<1>1. Failed(Checks(in)) = {}
  BY DEF Evaluate
<1>2. \A n \in 1..26 : ~Checks(in)[n].fails
  BY <1>1 DEF Failed
<1>3. ~Checks(in)[19].fails /\ ~Checks(in)[20].fails /\ ~Checks(in)[22].fails
  BY <1>2
<1>4. ~Checks(in)[24].fails /\ ~Checks(in)[26].fails
  BY <1>2
<1>5. ~(in.portfolio.count >= MaxOpenPositions)
  BY <1>3 DEF Checks, Check
<1>6. ~(in.portfolio.usd + OrderSize(in) > MaxPosition)
  BY <1>3 DEF Checks, Check, PositionUsdExceedsLimit
<1>7. ~(OrderSize(in) <= 0)
  BY <1>3 DEF Checks, Check
<1>8. Covering(in.asks, OrderSize(in)) # {}
  BY <1>4 DEF Checks, Check
<1>9. ~Slips(in)
  BY <1>4 DEF Checks, Check
<1> QED BY <1>1, <1>5, <1>6, <1>7, <1>8, <1>9 DEF Evaluate

(* A set of positive numbers below a bound has a least element: of the      *)
(* intervals that end in it, one is minimal.                                *)
LEMMA LeastElement ==
    ASSUME NEW N \in Nat, NEW P \in SUBSET (1..N), P # {}
    PROVE  \E p \in P : \A q \in P : p <= q
<1> DEFINE T == {1..p : p \in P}
           R == StrictSubsetOrdering(1..N)
           S == FiniteSubsetsOf(1..N)
<1>1. T \subseteq S /\ T # {}
  <2>1. ASSUME NEW p \in P
        PROVE  1..p \in S
    <3>1. p \in Int /\ 1..p \subseteq 1..N
      OBVIOUS
    <3>2. IsFiniteSet(1..p)
      BY <3>1, FS_Interval
    <3> QED BY <3>1, <3>2 DEF FiniteSubsetsOf
  <2> QED BY <2>1
<1>2. IsWellFoundedOn(R, S)
  BY FS_StrictSubsetOrderingWellFounded
<1>3. PICK t \in T : \A u \in T : ~(<<u, t>> \in R)
  <2> HIDE DEF T, R, S
  <2> QED BY <1>1, <1>2, WFMin
<1>4. PICK p \in P : t = 1..p
  OBVIOUS
<1>5. ASSUME NEW q \in P, q < p
      PROVE  FALSE
  <2>1. 1..q \in T /\ 1..q \subseteq 1..p /\ 1..q # 1..p
    BY <1>5
  <2>2. 1..q \in SUBSET (1..N) /\ 1..p \in SUBSET (1..N)
    OBVIOUS
  <2>3. <<1..q, 1..p>> \in R
    BY <2>1, <2>2 DEF StrictSubsetOrdering
  <2> QED BY <1>3, <1>4, <2>1, <2>3
<1> QED BY <1>5

(* WorstPrice is the price of a level that covers the size.                 *)
LEMMA WorstPriceCovers ==
    ASSUME NEW in \in Inputs, NEW usd, Covering(in.asks, usd) # {}
    PROVE  /\ WorstPrice(in.asks, usd) \in 1..One
           /\ \E l \in in.asks : /\ l.price = WorstPrice(in.asks, usd)
                                /\ Depth(in.asks, l.price) >= usd
<1>1. Covering(in.asks, usd) \in SUBSET (1..One)
  BY DEF Covering, Inputs, Books, Levels
<1>2. \E p \in Covering(in.asks, usd) : \A q \in Covering(in.asks, usd) : p <= q
  BY <1>1, ConfigTypes, LeastElement
<1>3. WorstPrice(in.asks, usd) \in Covering(in.asks, usd)
  BY <1>2 DEF WorstPrice
<1> QED BY <1>1, <1>3 DEF Covering

(* RiskEngine.evaluate approves only what is within every limit.            *)
THEOREM EvaluateSound ==
    ASSUME NEW in \in Inputs, Evaluate(in).approved
    PROVE  WithinLimits(in, Evaluate(in))
<1> DEFINE size  == OrderSize(in)
           worst == WorstPrice(in.asks, size)
<1>1. /\ ~(in.portfolio.count >= MaxOpenPositions)
      /\ ~(in.portfolio.usd + size > MaxPosition)
      /\ ~(size <= 0) /\ Covering(in.asks, size) # {} /\ ~Slips(in)
      /\ Evaluate(in).maxSize = size
      /\ Evaluate(in).maxPrice = Least(in.signal.maxEntryPrice, worst)
  <2>1. Evaluate(in).approved
    OBVIOUS
  <2>2. /\ ~(in.portfolio.count >= MaxOpenPositions)
        /\ ~(in.portfolio.usd + OrderSize(in) > MaxPosition)
        /\ ~(OrderSize(in) <= 0)
        /\ Covering(in.asks, OrderSize(in)) # {}
        /\ ~Slips(in)
        /\ Evaluate(in) = [approved |-> TRUE, code |-> "NONE", maxSize |-> OrderSize(in),
             maxPrice |-> Least(in.signal.maxEntryPrice, WorstPrice(in.asks, OrderSize(in)))]
    BY <2>1, ApprovedPasses
  <2> QED BY <2>2
<1>2. PICK l \in in.asks : l.price = worst /\ Depth(in.asks, l.price) >= size
  BY <1>1, WorstPriceCovers
<1>3. worst \in Int /\ in.signal.maxEntryPrice \in Int /\ in.market.bestAsk \in Int
  <2>1. worst \in 1..One
    BY <1>1, WorstPriceCovers
  <2>2. in.signal.maxEntryPrice \in 0..One /\ in.market.bestAsk \in 0..One
    BY DEF Inputs, Signals, Markets
  <2> QED BY <2>1, <2>2
<1>4. in.portfolio.count \in Int /\ in.portfolio.usd \in Int /\ LossToday(in) \in Int
  BY DEF Inputs, Portfolios, LossToday, AtLeastZero
<1>5. size \in 1..MaxTrade
  BY <1>1, SizeWithinCaps, InputsAreSizable, ConfigTypes
<1>6. LossToday(in) + size <= MaxDailyLoss
  BY <1>4, <1>5, SizeWithinCaps, InputsAreSizable, ConfigTypes DEF AtLeastZero
<1>7. (worst - in.market.bestAsk) * One <= MaxSlippage * in.market.bestAsk
  <2>1. ~((worst - in.market.bestAsk) * One > MaxSlippage * in.market.bestAsk)
    BY <1>1 DEF Slips
  <2>2. (worst - in.market.bestAsk) * One \in Int /\ MaxSlippage * in.market.bestAsk \in Int
    BY <1>3, ConfigTypes
  <2> QED BY <2>1, <2>2
<1>8. /\ Evaluate(in).maxPrice <= in.signal.maxEntryPrice
      /\ Evaluate(in).maxPrice <= worst
  BY <1>1, <1>3 DEF Least
<1>9. in.portfolio.usd + size <= MaxPosition /\ in.portfolio.count < MaxOpenPositions
  BY <1>1, <1>4, <1>5, ConfigTypes
<1> QED BY <1>1, <1>2, <1>5, <1>6, <1>7, <1>8, <1>9 DEF WithinLimits
-----------------------------------------------------------------------------
(***************************************************************************)
(* Sums over a finite set.  Induction over a set of numbers, or of subsets *)
(* of a finite set, rests on a least or minimal element of what is not in  *)
(* it.                                                                     *)
(***************************************************************************)
LEMMA EveryNumber ==
    ASSUME NEW P \in SUBSET Nat, 0 \in P, \A k \in P : k + 1 \in P
    PROVE  P = Nat
<1> SUFFICES ASSUME NEW n \in Nat, n \notin P PROVE FALSE
  OBVIOUS
<1> DEFINE Q == {k \in 1..n : k \notin P}
<1>1. Q \in SUBSET (1..n) /\ Q # {}
  <2>1. n # 0 /\ n \in 1..n
    OBVIOUS
  <2> QED BY <2>1
<1>2. PICK q \in Q : \A k \in Q : q <= k
  <2> HIDE DEF Q
  <2> QED BY <1>1, LeastElement
<1>3. q - 1 \in Nat /\ q - 1 \notin P
  BY <1>2
<1>4. q - 1 # 0 /\ q - 1 \in Q
  BY <1>2, <1>3
<1> QED BY <1>2, <1>4

First(s) == CHOOSE x \in s : TRUE

LEMMA FirstOf ==
    ASSUME NEW s, s # {} PROVE First(s) \in s
BY DEF First

LEMMA EverySubset ==
    ASSUME NEW S, IsFiniteSet(S), NEW P \in SUBSET (SUBSET S), {} \in P,
           \A s \in SUBSET S : s # {} /\ s \ {First(s)} \in P => s \in P
    PROVE  P = SUBSET S
<1> DEFINE Q == (SUBSET S) \ P
           R == StrictSubsetOrdering(S)
<1> SUFFICES ASSUME Q # {} PROVE FALSE
  OBVIOUS
<1>1. Q \subseteq FiniteSubsetsOf(S)
  <2>1. ASSUME NEW s \in SUBSET S PROVE s \in FiniteSubsetsOf(S)
    BY <2>1, FS_Subset DEF FiniteSubsetsOf
  <2> QED BY <2>1
<1>2. PICK s \in Q : \A t \in Q : ~(<<t, s>> \in R)
  <2>1. IsWellFoundedOn(R, FiniteSubsetsOf(S))
    BY FS_StrictSubsetOrderingWellFounded
  <2> HIDE DEF Q, R
  <2> QED BY <1>1, <2>1, WFMin
<1>3. s # {} /\ First(s) \in s
  BY FirstOf
<1>4. s \ {First(s)} \in Q
  BY <1>3
<1>5. s \ {First(s)} # s /\ s \ {First(s)} \subseteq s
  BY <1>3
<1>6. <<s \ {First(s)}, s>> \in R
  BY <1>4, <1>5 DEF StrictSubsetOrdering
<1> QED BY <1>2, <1>4, <1>6

(* One step of the sum of f, and what the sum of f is a value of.           *)
AddFirst(f, g, s) == IF s = {} THEN 0 ELSE f[First(s)] + g[s \ {First(s)}]

IsSum(f, S, g) == g = [s \in SUBSET S |-> AddFirst(f, g, s)]

LEMMA AddFirstIs ==
    ASSUME NEW f, NEW g
    PROVE  /\ AddFirst(f, g, {}) = 0
           /\ \A s : s # {} => AddFirst(f, g, s) = f[First(s)] + g[s \ {First(s)}]
BY DEF AddFirst

LEMMA SumIs ==
    ASSUME NEW f, NEW S, S = DOMAIN f
    PROVE  SumFunction(f) = (CHOOSE g : IsSum(f, S, g))[S]
BY DEF SumFunction, SumFunctionOnSet, FoldFunctionOnSet, MapThenFoldSet, IsSum, AddFirst, First

(* Sums exist: of the subsets of at most k elements, for every k.           *)
SumUpto(f, S, k, g) ==
    /\ g \in [SUBSET S -> Int]
    /\ \A s \in SUBSET S : Cardinality(s) <= k => g[s] = AddFirst(f, g, s)

LEMMA WithoutFirst ==
    ASSUME NEW S, IsFiniteSet(S), NEW s \in SUBSET S
    PROVE  /\ Cardinality(s) \in Nat /\ (Cardinality(s) = 0 <=> s = {})
           /\ s # {} => /\ First(s) \in S /\ s \ {First(s)} \in SUBSET S
                        /\ Cardinality(s \ {First(s)}) = Cardinality(s) - 1
<1>1. IsFiniteSet(s)
  BY FS_Subset
<1>2. Cardinality(s) \in Nat /\ (Cardinality(s) = 0 <=> s = {})
  BY <1>1, FS_CardinalityType, FS_EmptySet
<1>3. ASSUME s # {}
      PROVE  /\ First(s) \in S /\ s \ {First(s)} \in SUBSET S
             /\ Cardinality(s \ {First(s)}) = Cardinality(s) - 1
  BY <1>1, <1>3, FirstOf, FS_RemoveElement
<1> QED BY <1>2, <1>3

LEMMA SumOfNothing ==
    ASSUME NEW S, IsFiniteSet(S), NEW f
    PROVE  \E g : SumUpto(f, S, 0, g)
<1> DEFINE g == [s \in SUBSET S |-> 0]
<1>1. g \in [SUBSET S -> Int] /\ {} \in SUBSET S /\ g[{}] = 0
  OBVIOUS
<1> HIDE DEF g
<1>2. ASSUME NEW s \in SUBSET S, Cardinality(s) <= 0
      PROVE  g[s] = AddFirst(f, g, s)
  <2>1. Cardinality(s) \in Nat /\ (Cardinality(s) = 0 <=> s = {})
    BY WithoutFirst
  <2>2. s = {}
    BY <1>2, <2>1
  <2> QED BY <1>1, <2>2, AddFirstIs
<1> QED BY <1>1, <1>2 DEF SumUpto

LEMMA SumOfMore ==
    ASSUME NEW S, IsFiniteSet(S), NEW f \in [S -> Int], NEW k \in Nat, NEW g,
           SumUpto(f, S, k, g)
    PROVE  \E h : SumUpto(f, S, k + 1, h)
<1>1. ASSUME NEW s \in SUBSET S
      PROVE  AddFirst(f, g, s) \in Int
  <2>1. CASE s = {}
    BY <2>1, AddFirstIs
  <2>2. CASE s # {}
    <3>1. f[First(s)] \in Int /\ g[s \ {First(s)}] \in Int
      <4>1. First(s) \in S /\ s \ {First(s)} \in SUBSET S
        BY <2>2, WithoutFirst
      <4> QED BY <4>1 DEF SumUpto
    <3>2. AddFirst(f, g, s) = f[First(s)] + g[s \ {First(s)}]
      BY <2>2, AddFirstIs
    <3> QED BY <3>1, <3>2
  <2> QED BY <2>1, <2>2
<1> DEFINE h == [s \in SUBSET S |-> AddFirst(f, g, s)]
<1>3. h \in [SUBSET S -> Int] /\ \A s \in SUBSET S : h[s] = AddFirst(f, g, s)
  BY <1>1
<1> HIDE DEF h
<1>2. ASSUME NEW s \in SUBSET S, Cardinality(s) <= k + 1
      PROVE  h[s] = AddFirst(f, h, s)
  <2>1. h[s] = AddFirst(f, g, s)
    BY <1>3
  <2>2. CASE s = {}
    BY <2>1, <2>2, AddFirstIs
  <2>3. CASE s # {}
    <3>1. s \ {First(s)} \in SUBSET S /\ Cardinality(s \ {First(s)}) <= k
      BY <1>2, <2>3, WithoutFirst
    <3>2. g[s \ {First(s)}] = h[s \ {First(s)}]
      BY <1>3, <3>1 DEF SumUpto
    <3>3. AddFirst(f, g, s) = f[First(s)] + g[s \ {First(s)}]
      BY <2>3, AddFirstIs
    <3>4. AddFirst(f, h, s) = f[First(s)] + h[s \ {First(s)}]
      BY <2>3, AddFirstIs
    <3> QED BY <2>1, <3>2, <3>3, <3>4
  <2> QED BY <2>2, <2>3
<1> QED BY <1>2, <1>3 DEF SumUpto

LEMMA SumExists ==
    ASSUME NEW S, IsFiniteSet(S), NEW f \in [S -> Int]
    PROVE  \E g : IsSum(f, S, g)
<1> DEFINE P == {k \in Nat : \E g : SumUpto(f, S, k, g)}
<1>1. 0 \in P
  BY SumOfNothing
<1>2. ASSUME NEW k \in P
      PROVE  k + 1 \in P
  <2>1. PICK g : SumUpto(f, S, k, g)
    OBVIOUS
  <2>2. \E h : SumUpto(f, S, k + 1, h)
    BY <2>1, SumOfMore
  <2> QED BY <2>2
<1>3. P = Nat
  <2>1. P \in SUBSET Nat
    OBVIOUS
  <2> HIDE DEF P
  <2> QED BY <1>1, <1>2, <2>1, EveryNumber
<1>4. Cardinality(S) \in P
  BY <1>3, FS_CardinalityType
<1>5. PICK g : SumUpto(f, S, Cardinality(S), g)
  BY <1>4
<1>6. \A s \in SUBSET S : g[s] = AddFirst(f, g, s)
  BY <1>5, FS_Subset DEF SumUpto
<1>7. g = [s \in SUBSET S |-> AddFirst(f, g, s)]
  BY <1>5, <1>6 DEF SumUpto
<1> QED BY <1>7 DEF IsSum

(* g has the sums of f over the subsets of S, which are numbers;            *)
Sums(f, S, g) ==
    /\ g \in [SUBSET S -> Int] /\ SumFunction(f) = g[S]
    /\ g[{}] = 0
    /\ \A s \in SUBSET S : s # {} => g[s] = f[First(s)] + g[s \ {First(s)}]

LEMMA SumOf ==
    ASSUME NEW S, IsFiniteSet(S), NEW f \in [S -> Int]
    PROVE  \E g : Sums(f, S, g)
<1> DEFINE g == CHOOSE h : IsSum(f, S, h)
<1>1. IsSum(f, S, g)
  BY SumExists
<1>2. SumFunction(f) = g[S]
  BY SumIs
<1> HIDE DEF g
<1>3. /\ g = [s \in SUBSET S |-> g[s]]
      /\ \A s \in SUBSET S : g[s] = AddFirst(f, g, s)
  <2>1. g = [s \in SUBSET S |-> AddFirst(f, g, s)]
    BY <1>1 DEF IsSum
  <2> QED BY <2>1
<1>4. \A s \in SUBSET S : g[s] \in Int
  <2> DEFINE P == {s \in SUBSET S : g[s] \in Int}
  <2>1. {} \in P
    <3>1. {} \in SUBSET S /\ g[{}] = 0
      BY <1>3, AddFirstIs
    <3> QED BY <3>1
  <2>2. ASSUME NEW s \in SUBSET S, s # {}, s \ {First(s)} \in P PROVE s \in P
    <3>1. First(s) \in S
      BY <2>2, FirstOf
    <3>2. f[First(s)] \in Int /\ g[s \ {First(s)}] \in Int
      BY <2>2, <3>1
    <3>3. g[s] = f[First(s)] + g[s \ {First(s)}]
      <4>1. g[s] = AddFirst(f, g, s)
        BY <1>3
      <4> QED BY <2>2, <4>1, AddFirstIs
    <3> QED BY <3>2, <3>3
  <2>3. P = SUBSET S
    <3>1. P \in SUBSET (SUBSET S)
      OBVIOUS
    <3> HIDE DEF P
    <3> QED BY <2>1, <2>2, <3>1, EverySubset
  <2> QED BY <2>3
<1>5. g \in [SUBSET S -> Int]
  BY <1>3, <1>4
<1>6. g[{}] = 0 /\ \A s \in SUBSET S : s # {} => g[s] = f[First(s)] + g[s \ {First(s)}]
  <2>1. {} \in SUBSET S /\ g[{}] = AddFirst(f, g, {})
    BY <1>3
  <2>2. ASSUME NEW s \in SUBSET S, s # {} PROVE g[s] = f[First(s)] + g[s \ {First(s)}]
    <3>1. g[s] = AddFirst(f, g, s)
      BY <1>3
    <3> QED BY <2>2, <3>1, AddFirstIs
  <2> QED BY <2>1, <2>2, AddFirstIs
<1>7. Sums(f, S, g)
  BY <1>2, <1>5, <1>6 DEF Sums
<1> QED BY <1>7

(* of natural numbers natural numbers,                                      *)
LEMMA SumIsNatural ==
    ASSUME NEW S, IsFiniteSet(S), NEW f \in [S -> Nat]
    PROVE  SumFunction(f) \in Nat
<1>0. f \in [S -> Int]
  OBVIOUS
<1>1. PICK g : Sums(f, S, g)
  BY <1>0, SumOf
<1> DEFINE P == {s \in SUBSET S : g[s] >= 0}
<1>2. {} \in P
  BY <1>1 DEF Sums
<1>3. ASSUME NEW s \in SUBSET S, s # {}, s \ {First(s)} \in P PROVE s \in P
  <2>1. First(s) \in S
    BY <1>3, FirstOf
  <2>2. f[First(s)] \in Nat /\ g[s \ {First(s)}] \in Nat
    BY <1>1, <1>3, <2>1 DEF Sums
  <2>3. g[s] = f[First(s)] + g[s \ {First(s)}]
    BY <1>1, <1>3 DEF Sums
  <2> QED BY <2>2, <2>3
<1>4. P = SUBSET S
  <2>1. P \in SUBSET (SUBSET S)
    OBVIOUS
  <2> HIDE DEF P
  <2> QED BY <1>2, <1>3, <2>1, EverySubset
<1>5. S \in P
  BY <1>4
<1> QED BY <1>1, <1>5 DEF Sums

(* and a sum changes by what one of its terms changes.                      *)
LEMMA SumChange ==
    ASSUME NEW S, IsFiniteSet(S), NEW f \in [S -> Int], NEW f2 \in [S -> Int], NEW x \in S,
           \A y \in S \ {x} : f2[y] = f[y]
    PROVE  SumFunction(f2) = SumFunction(f) + (f2[x] - f[x])
<1>1. PICK g : Sums(f, S, g)
  BY SumOf
<1>2. PICK g2 : Sums(f2, S, g2)
  BY SumOf
<1> DEFINE P == {s \in SUBSET S : g2[s] = g[s] + (IF x \in s THEN f2[x] - f[x] ELSE 0)}
<1>3. {} \in P
  BY <1>1, <1>2 DEF Sums
<1>4. ASSUME NEW s \in SUBSET S, s # {}, s \ {First(s)} \in P PROVE s \in P
  <2>1. First(s) \in S /\ First(s) \in s
    BY <1>4, FirstOf
  <2> DEFINE y == First(s)
             t == s \ {y}
  <2>2. g[s] = f[y] + g[t] /\ g2[s] = f2[y] + g2[t]
    BY <1>1, <1>2, <1>4 DEF Sums
  <2>3. /\ f[y] \in Int /\ f2[y] \in Int /\ f[x] \in Int /\ f2[x] \in Int
        /\ g[t] \in Int /\ g2[t] \in Int
    BY <1>1, <1>2, <2>1 DEF Sums
  <2>4. g2[t] = g[t] + (IF x \in t THEN f2[x] - f[x] ELSE 0)
    BY <1>4
  <2>5. CASE y = x
    BY <2>1, <2>2, <2>3, <2>4, <2>5
  <2>6. CASE y # x
    BY <2>1, <2>2, <2>3, <2>4, <2>6
  <2> QED BY <2>5, <2>6
<1>5. P = SUBSET S
  <2>1. P \in SUBSET (SUBSET S)
    OBVIOUS
  <2> HIDE DEF P
  <2> QED BY <1>3, <1>4, <2>1, EverySubset
<1>6. S \in P
  BY <1>5
<1> QED BY <1>1, <1>2, <1>6 DEF Sums
-----------------------------------------------------------------------------
(***************************************************************************)
(* The gate.                                                               *)
(***************************************************************************)
(* A decision is a record of the declared type, whatever its input.         *)
LEMMA EvaluateType ==
    ASSUME NEW in \in Inputs
    PROVE  Evaluate(in) \in Decisions
<1>1. CASE Failed(Checks(in)) # {}
  <2>1. PICK n \in Failed(Checks(in)) : \A m \in Failed(Checks(in)) : n <= m
    <3>1. Failed(Checks(in)) \in SUBSET (1..26)
      BY DEF Failed
    <3> QED BY <1>1, <3>1, LeastElement
  <2>2. (CHOOSE k \in Failed(Checks(in)) : \A m \in Failed(Checks(in)) : k <= m) \in 1..26
    BY <2>1 DEF Failed
  <2>3. ASSUME NEW k \in 1..26
        PROVE  Checks(in)[k].code \in RejectionCodes
    <3>1. CASE k \in 1..9
      <4>1. k = 1 \/ k = 2 \/ k = 3 \/ k = 4 \/ k = 5 \/ k = 6 \/ k = 7 \/ k = 8 \/ k = 9
        BY <3>1
      <4> QED BY <4>1, SMTT(60) DEF Checks, Check, RejectionCodes
    <3>2. CASE k \in 10..18
      <4>1. \/ k = 10 \/ k = 11 \/ k = 12 \/ k = 13 \/ k = 14
            \/ k = 15 \/ k = 16 \/ k = 17 \/ k = 18
        BY <3>2
      <4> QED BY <4>1, SMTT(60) DEF Checks, Check, RejectionCodes
    <3>3. CASE k \in 19..26
      <4>1. \/ k = 19 \/ k = 20 \/ k = 21 \/ k = 22
            \/ k = 23 \/ k = 24 \/ k = 25 \/ k = 26
        BY <3>3
      <4> QED BY <4>1, SMTT(60) DEF Checks, Check, RejectionCodes
    <3> QED BY <3>1, <3>2, <3>3
  <2>4. FirstCode(Checks(in)) \in RejectionCodes
    BY <2>2, <2>3 DEF FirstCode
  <2>5. Evaluate(in) = [approved |-> FALSE, code |-> FirstCode(Checks(in)),
                        maxSize |-> 0, maxPrice |-> 0]
    BY <1>1 DEF Evaluate
  <2> QED BY <2>4, <2>5, ConfigTypes DEF Decisions
<1>2. CASE Failed(Checks(in)) = {}
  <2>1. Evaluate(in).approved
    BY <1>2 DEF Evaluate
  <2>2. /\ Covering(in.asks, OrderSize(in)) # {}
        /\ Evaluate(in) = [approved |-> TRUE, code |-> "NONE", maxSize |-> OrderSize(in),
             maxPrice |-> Least(in.signal.maxEntryPrice, WorstPrice(in.asks, OrderSize(in)))]
    BY <2>1, ApprovedPasses
  <2>3. WorstPrice(in.asks, OrderSize(in)) \in 1..One
    BY <2>2, WorstPriceCovers
  <2>4. in.signal.maxEntryPrice \in 0..One
    BY DEF Inputs, Signals
  <2>5. Least(in.signal.maxEntryPrice, WorstPrice(in.asks, OrderSize(in))) \in 0..One
    BY <2>3, <2>4, ConfigTypes DEF Least
  <2>6. OrderSize(in) \in Nat
    BY SizeWithinCaps, InputsAreSizable
  <2> QED BY <2>2, <2>5, <2>6 DEF Decisions
<1> QED BY <1>1, <1>2

(* What is read from the database is a portfolio.                           *)
LEMMA PortfolioType ==
    ASSUME GateTypeOK
    PROVE  Portfolio \in Portfolios
<1>1. OpenUsd \in Nat
  BY GateAssumption, SumIsNatural DEF OpenUsd, GateTypeOK
<1>2. OpenCount \in Nat
  <2>1. IsFiniteSet({k \in Keys : held[k] > 0})
    BY GateAssumption, FS_Subset
  <2> QED BY <2>1, FS_CardinalityType DEF OpenCount
<1>3. RealizedPnlToday \in Int
  BY DEF RealizedPnlToday, GateTypeOK
<1> QED BY <1>1, <1>2, <1>3 DEF Portfolio, Portfolios

(* Of an entry of the cache, a summary is what was stored, or nothing.      *)
LEMMA SummaryType ==
    ASSUME NEW e \in Entries
    PROVE  Summary(e) \in Summaries
BY ConfigTypes DEF Summary, NoSummary, Entries, Summaries

(* The synthetic book is a book.                                            *)
LEMMA SyntheticAsksType ==
    ASSUME NEW s \in Summaries
    PROVE  SyntheticAsks(s) \in Books
<1>1. s.bestAsk \in 0..One /\ s.depth \in Nat
  BY DEF Summaries
<1>2. CASE s.bestAsk = 0 \/ s.depth = 0
  BY <1>2 DEF SyntheticAsks, Books
<1>3. CASE ~(s.bestAsk = 0 \/ s.depth = 0)
  <2>1. s.bestAsk \in 1..One
    BY <1>1, <1>3, ConfigTypes
  <2>2. [price |-> s.bestAsk, usd |-> s.depth] \in Levels
    BY <1>1, <2>1 DEF Levels
  <2> QED BY <1>3, <2>2 DEF SyntheticAsks, Books
<1> QED BY <1>2, <1>3

(* What a request assembles is an input of the engine.                      *)
LEMMA AssembledType ==
    ASSUME GateTypeOK, NEW r \in Requests, NEW x \in Readings
    PROVE  Assembled(r, x) \in Inputs
<1>1. x \in ReadingsType
  BY GateAssumption
<1>2. Summary(x.own) \in Summaries /\ Summary(x.other) \in Summaries
  BY <1>1, SummaryType DEF ReadingsType
<1>3. ManualSignal(r, x) \in Signals
  <2>1. PriceOf[r] \in 0..One
    BY GateAssumption
  <2>2. ProbabilityAt(PriceOf[r], Summary(x.own)) \in 0..One
    BY <1>2, <2>1 DEF ProbabilityAt, Summaries
  <2>3. PriceOf[r] - ProbabilityAt(PriceOf[r], Summary(x.own)) \in (-One)..One
    BY <2>1, <2>2, ConfigTypes
  <2>4. One \in 0..One
    BY ConfigTypes
  <2> QED BY <2>1, <2>3, <2>4 DEF ManualSignal, Signals
<1>4. SnapshotOf(x) \in Markets
  <2>1. x.active \in BOOLEAN /\ x.closed \in BOOLEAN
    BY <1>1 DEF ReadingsType
  <2>2. /\ x.timeLeft \in Int /\ x.countdownAge \in Nat
        /\ x.feedAge \in Nat /\ x.own.age \in Nat /\ x.sinceStart \in Nat
    BY <1>1 DEF ReadingsType, Entries
  <2>7. AtLeastZero(x.own.age - x.sinceStart) \in Nat /\ AtLeastZero(x.feedAge - x.sinceStart) \in Nat
    BY <2>2 DEF AtLeastZero
  <2>3. TooOld \in Nat
    BY DEF TooOld, MARKET_DATA_STALE_THRESHOLD_MS, UNDERLYING_FEED_STALE_THRESHOLD_MS
  <2>4. (x.timeLeft + x.countdownAge) \div 1000 \in Int
    BY <2>2
  <2>5. Summary(x.own).depth + Summary(x.other).depth \in Nat /\ Summary(x.own).bestAsk \in 0..One
    BY <1>2 DEF Summaries
  <2>6. Fresh(x.own.age, DEFAULT_ORDERBOOK_MAX_AGE_MS) \in BOOLEAN
    BY DEF Fresh
  <2> QED BY <2>1, <2>2, <2>3, <2>4, <2>5, <2>6, <2>7 DEF SnapshotOf, Markets
<1>5. HealthOf(r, x) \in Healths
  BY <1>1 DEF HealthOf, Healths, ReadingsType
<1>6. Account(r, FALSE) \in Accounts
  BY GateAssumption DEF Account, Accounts
<1>7. ModeOf[r] \in {"PAPER", "LIVE"} /\ {} \in Books
  BY GateAssumption DEF Books
<1>8. Portfolio \in Portfolios
  BY PortfolioType
<1> QED BY <1>3, <1>4, <1>5, <1>6, <1>7, <1>8 DEF Assembled, Inputs

(* TypeOK, and what a request that is not decided yet cannot have.          *)
Pending == {"assembled", "funded"}

GateInv ==
    /\ GateTypeOK
    /\ \A r \in Requests : stage[r] \in {"new"} \cup Pending => ~decision[r].approved
    /\ ApprovedWithinLimits

LEMMA InitEstablishesGateInv == Init => GateInv
<1> SUFFICES ASSUME Init PROVE GateInv
  OBVIOUS
<1>1. Undecided \in Decisions /\ ~Undecided.approved
  BY ConfigTypes DEF Undecided, Decisions
<1>2. GateTypeOK
  <2>1. stage \in [Requests -> Stages] /\ \A r \in Requests : stage[r] \notin Pending
    BY DEF Init, Stages, Pending
  <2>2. snapshots \in Seq(Int) /\ realized \in Int
    BY DEF Init
  <2>3. input \in [Requests -> Inputs \cup {Unread}] /\ decision \in [Requests -> Decisions]
    BY <1>1 DEF Init
  <2>5. timeLeft \in [Requests -> Int] /\ waited \in [Requests -> Nat]
    BY DEF Init
  <2>4. held \in [Keys -> Nat] /\ fresh \subseteq Requests /\ raced \in BOOLEAN
    BY GateAssumption DEF Init
  <2> QED BY <2>1, <2>2, <2>3, <2>4, <2>5 DEF GateTypeOK, Pending
<1>3. \A r \in Requests : ~decision[r].approved
  BY <1>1 DEF Init
<1> QED BY <1>2, <1>3 DEF GateInv, ApprovedWithinLimits

LEMMA AssembleKeepsGateInv ==
    ASSUME GateInv, NEW r \in Requests, Assemble(r)
    PROVE  GateInv'
<1>1. PICK x \in Readings :
        /\ input' = [input EXCEPT ![r] = Assembled(r, x)]
        /\ timeLeft' = [timeLeft EXCEPT ![r] = x.timeLeft]
        /\ waited' = [waited EXCEPT ![r] = 0]
  BY DEF Assemble
<1>8. timeLeft' \in [Requests -> Int] /\ waited' \in [Requests -> Nat]
  <2>1. x.timeLeft \in Int
    BY GateAssumption DEF ReadingsType
  <2> QED BY <1>1, <2>1 DEF GateInv, GateTypeOK
<1>2. input'[r] \in Inputs /\ input' \in [Requests -> Inputs \cup {Unread}]
  BY <1>1, AssembledType DEF GateInv, GateTypeOK
<1>3. \A q \in Requests \ {r} : input'[q] = input[q] /\ stage'[q] = stage[q]
  BY <1>1 DEF Assemble, GateInv, GateTypeOK
<1>9. (\A q \in Requests : stage[q] \in Pending => input[q] \in Inputs)'
  BY <1>2, <1>3 DEF GateInv, GateTypeOK, Pending
<1>4. GateTypeOK'
  BY <1>2, <1>8, <1>9 DEF Assemble, GateInv, GateTypeOK, Stages, Pending
<1>5. stage[r] = "new" /\ ~decision[r].approved /\ decision' = decision
  BY DEF Assemble, GateInv
<1>6. (\A q \in Requests : stage[q] \in {"new"} \cup Pending => ~decision[q].approved)'
  BY <1>3, <1>5 DEF GateInv
<1>7. ApprovedWithinLimits'
  BY <1>3, <1>5 DEF GateInv, ApprovedWithinLimits
<1> QED BY <1>4, <1>6, <1>7 DEF GateInv

LEMMA CheckFundsKeepsGateInv ==
    ASSUME GateInv, NEW r \in Requests, CheckFunds(r)
    PROVE  GateInv'
<1>1. PICK readable \in BOOLEAN :
        input' = [input EXCEPT ![r] = [@ EXCEPT !.account = Account(r, readable)]]
  BY DEF CheckFunds
<1>2. PICK ms \in Waits :
        /\ timeLeft' = [timeLeft EXCEPT ![r] = @ - ms]
        /\ waited' = [waited EXCEPT ![r] = @ + ms]
  BY DEF CheckFunds
<1>3. input[r] \in Inputs /\ stage[r] = "assembled"
  BY DEF CheckFunds, GateInv, GateTypeOK
<1>4. Account(r, readable) \in Accounts
  BY GateAssumption DEF Account, Accounts, IsFunded
<1>5. [input[r] EXCEPT !.account = Account(r, readable)] \in Inputs
  BY <1>3, <1>4 DEF Inputs
<1>6. input'[r] \in Inputs /\ input' \in [Requests -> Inputs \cup {Unread}]
  BY <1>1, <1>5 DEF GateInv, GateTypeOK
<1>7. timeLeft' \in [Requests -> Int] /\ waited' \in [Requests -> Nat]
  <2>1. ms \in Nat
    BY GateAssumption
  <2> QED BY <1>2, <2>1 DEF GateInv, GateTypeOK
<1>8. /\ \A q \in Requests \ {r} : input'[q] = input[q] /\ stage'[q] = stage[q]
      /\ stage'[r] = "funded" /\ stage' \in [Requests -> Stages] /\ decision' = decision
  BY <1>1 DEF CheckFunds, GateInv, GateTypeOK, Stages
<1>9. (\A q \in Requests : stage[q] \in Pending => input[q] \in Inputs)'
  BY <1>6, <1>8 DEF GateInv, GateTypeOK, Pending
<1>10. GateTypeOK'
  BY <1>6, <1>7, <1>8, <1>9 DEF CheckFunds, GateInv, GateTypeOK, Pending
<1>11. ~decision[r].approved
  BY <1>3 DEF GateInv, Pending
<1> QED BY <1>8, <1>10, <1>11 DEF GateInv, ApprovedWithinLimits

LEMMA LooksAgainIsPending ==
    ASSUME NEW r \in Requests, LooksAgain(r)
    PROVE  stage[r] \in Pending
BY DEF LooksAgain, Pending

LEMMA DecideKeepsGateInv ==
    ASSUME GateInv, NEW r \in Requests, Decide(r)
    PROVE  GateInv'
<1>1. PICK x \in Readings, ms \in Waits :
        LET in == [input[r] EXCEPT !.asks = SyntheticAsks(Summary(x.own))]
            d  == Evaluate(in)
        IN  /\ decision' = [decision EXCEPT ![r] = IF d.approved THEN d ELSE Undecided]
            /\ stage' = [stage EXCEPT ![r] = Outcome(r, d)]
            /\ input' = [input EXCEPT ![r] = IF d.approved THEN in ELSE Unread]
            /\ timeLeft' = [timeLeft EXCEPT ![r] = IF d.approved THEN @ - ms ELSE 0]
            /\ waited' = [waited EXCEPT ![r] = IF d.approved THEN @ + ms ELSE 0]
  BY DEF Decide
<1> DEFINE asks == SyntheticAsks(Summary(x.own))
           in == [input[r] EXCEPT !.asks = asks]
<1>2. in \in Inputs
  <2>1. input[r] \in Inputs
    BY LooksAgainIsPending DEF Decide, GateInv, GateTypeOK, Pending
  <2>2. asks \in Books
    <3>1. x.own \in Entries
      BY GateAssumption DEF ReadingsType
    <3> QED BY <3>1, SummaryType, SyntheticAsksType
  <2> HIDE DEF asks
  <2> QED BY <2>1, <2>2 DEF Inputs
<1>3. Evaluate(in) \in Decisions /\ Undecided \in Decisions /\ ~Undecided.approved
  <2>1. Undecided \in Decisions /\ ~Undecided.approved
    BY ConfigTypes DEF Undecided, Decisions
  <2> QED BY <1>2, <2>1, EvaluateType
<1>4. Evaluate(in).approved => WithinLimits(in, Evaluate(in))
  BY <1>2, EvaluateSound
<1> DEFINE d == Evaluate(in)
<1>5. /\ decision' = [decision EXCEPT ![r] = IF d.approved THEN d ELSE Undecided]
      /\ stage' = [stage EXCEPT ![r] = Outcome(r, d)]
      /\ input' = [input EXCEPT ![r] = IF d.approved THEN in ELSE Unread]
      /\ timeLeft' = [timeLeft EXCEPT ![r] = IF d.approved THEN @ - ms ELSE 0]
      /\ waited' = [waited EXCEPT ![r] = IF d.approved THEN @ + ms ELSE 0]
  BY <1>1
<1> HIDE DEF in, d
<1>6. Outcome(r, d) \in {"rejected", "prepared", "approved"}
  BY DEF Outcome
<1>7. /\ stage'[r] = Outcome(r, d) /\ decision'[r] = IF d.approved THEN d ELSE Undecided
      /\ input'[r] = IF d.approved THEN in ELSE Unread
  BY <1>5 DEF Decide, GateInv, GateTypeOK
<1>8. \A q \in Requests \ {r} :
         stage'[q] = stage[q] /\ input'[q] = input[q] /\ decision'[q] = decision[q]
  BY <1>5 DEF GateInv, GateTypeOK
<1>9. GateTypeOK'
  <2>1. decision' \in [Requests -> Decisions]
    BY <1>3, <1>5 DEF d, GateInv, GateTypeOK
  <2>2. stage' \in [Requests -> Stages]
    BY <1>5, <1>6 DEF GateInv, GateTypeOK, Stages
  <2>3. input' \in [Requests -> Inputs \cup {Unread}]
    BY <1>2, <1>5 DEF GateInv, GateTypeOK
  <2>4. (\A q \in Requests : stage[q] \in Pending => input[q] \in Inputs)'
    BY <1>6, <1>7, <1>8 DEF GateInv, GateTypeOK, Pending
  <2>6. ms \in Nat
    BY GateAssumption
  <2>8. /\ timeLeft \in [Requests -> Int] /\ waited \in [Requests -> Nat]
        /\ timeLeft[r] - ms \in Int /\ waited[r] + ms \in Nat
    BY <2>6 DEF GateInv, GateTypeOK
  <2>9. timeLeft' \in [Requests -> Int]
    BY <1>5, <2>8
  <2>10. waited' \in [Requests -> Nat]
    BY <1>5, <2>8
  <2>5. timeLeft' \in [Requests -> Int] /\ waited' \in [Requests -> Nat]
    BY <2>9, <2>10
  <2>7. UNCHANGED <<held, realized, snapshots, fresh, raced>>
    BY DEF Decide
  <2> QED BY <2>1, <2>2, <2>3, <2>4, <2>5, <2>7 DEF GateInv, GateTypeOK, Pending
<1>10. (\A q \in Requests : stage[q] \in {"new"} \cup Pending => ~decision[q].approved)'
  BY <1>6, <1>7, <1>8 DEF GateInv, Pending
<1>11. ApprovedWithinLimits'
  <2>1. d.approved => WithinLimits(in, d)
    BY <1>4 DEF d
  <2> QED BY <1>3, <1>7, <1>8, <2>1 DEF GateInv, ApprovedWithinLimits
<1> QED BY <1>9, <1>10, <1>11 DEF GateInv

LEMMA ReadFailsKeepsGateInv ==
    ASSUME GateInv, NEW r \in Requests, ReadFails(r)
    PROVE  GateInv'
<1>1. /\ stage'[r] = "failed" /\ stage[r] \in {"new"} \cup Pending /\ decision' = decision
      /\ \A q \in Requests \ {r} : stage'[q] = stage[q] /\ input'[q] = input[q]
  BY LooksAgainIsPending DEF ReadFails, GateInv, GateTypeOK
<1>2. GateTypeOK'
  <2>1. /\ stage' \in [Requests -> Stages] /\ timeLeft' \in [Requests -> Int]
        /\ waited' \in [Requests -> Nat]
    BY DEF ReadFails, GateInv, GateTypeOK, Stages
  <2>2. input' \in [Requests -> Inputs \cup {Unread}]
    BY DEF ReadFails, GateInv, GateTypeOK
  <2> QED BY <1>1, <2>1, <2>2 DEF ReadFails, GateInv, GateTypeOK
<1>3. ~decision[r].approved
  BY <1>1 DEF GateInv
<1> QED BY <1>1, <1>2, <1>3 DEF GateInv, ApprovedWithinLimits

LEMMA PlacePaperKeepsGateInv ==
    ASSUME GateInv, NEW r \in Requests, PlacePaper(r)
    PROVE  GateInv'
<1>1. PICK usd \in 0..PlacedSize(r) :
        /\ held' = [held EXCEPT ![KeyOf[r]] = @ + usd]
        /\ fresh' = IF usd > 0 THEN {} ELSE fresh \ {r}
        /\ raced' = (raced \/ (usd > 0 /\ r \notin fresh))
  BY DEF PlacePaper
<1>2. usd \in Nat
  <2>1. PlacedSize(r) \in Nat
    BY GateAssumption DEF PlacedSize, Least, GateInv, GateTypeOK, Decisions
  <2> QED BY <2>1
<1>3. held' \in [Keys -> Nat]
  <2>1. held \in [Keys -> Nat] /\ KeyOf[r] \in Keys
    BY GateAssumption DEF GateInv, GateTypeOK
  <2>2. held' = [held EXCEPT ![KeyOf[r]] = @ + usd]
    BY <1>1
  <2>3. held[KeyOf[r]] + usd \in Nat
    BY <1>2, <2>1
  <2> QED BY <2>1, <2>2, <2>3
<1>4. fresh' \subseteq Requests /\ raced' \in BOOLEAN
  <2>1. fresh \subseteq Requests /\ raced \in BOOLEAN
    BY DEF GateInv, GateTypeOK
  <2>2. fresh' \in {{}, fresh \ {r}}
    BY <1>1
  <2>3. raced' \in BOOLEAN
    BY <1>1, Zenon
  <2> QED BY <2>1, <2>2, <2>3
<1>5. /\ stage'[r] = "placed" /\ stage' \in [Requests -> Stages]
      /\ \A q \in Requests \ {r} : /\ stage'[q] = stage[q] /\ input'[q] = input[q]
                                   /\ decision'[q] = decision[q]
  BY DEF PlacePaper, GateInv, GateTypeOK, Stages
<1>6. decision' \in [Requests -> Decisions] /\ ~decision'[r].approved
  <2>1. Undecided \in Decisions /\ ~Undecided.approved
    BY ConfigTypes DEF Undecided, Decisions
  <2> QED BY <2>1 DEF PlacePaper, GateInv, GateTypeOK
<1>7. input' \in [Requests -> Inputs \cup {Unread}]
  BY DEF PlacePaper, GateInv, GateTypeOK
<1>8. (\A q \in Requests : stage[q] \in Pending => input[q] \in Inputs)'
  BY <1>5 DEF GateInv, GateTypeOK, Pending
<1>12. timeLeft' \in [Requests -> Int] /\ waited' \in [Requests -> Nat]
  BY DEF PlacePaper, GateInv, GateTypeOK
<1>9. GateTypeOK'
  BY <1>3, <1>4, <1>5, <1>6, <1>7, <1>8, <1>12 DEF PlacePaper, GateInv, GateTypeOK, Pending
<1>10. (\A q \in Requests : stage[q] \in {"new"} \cup Pending => ~decision[q].approved)'
  BY <1>5, <1>6 DEF GateInv, Pending
<1>11. ApprovedWithinLimits'
  BY <1>5, <1>6 DEF GateInv, ApprovedWithinLimits
<1> QED BY <1>9, <1>10, <1>11 DEF GateInv

LEMMA SettleKeepsGateInv ==
    ASSUME GateInv, NEW k \in Keys, Settle(k)
    PROVE  GateInv'
<1>1. held' \in [Keys -> Nat] /\ realized' \in Int
  BY DEF Settle, GateInv, GateTypeOK
<1>2. GateTypeOK'
  BY <1>1 DEF Settle, GateInv, GateTypeOK
<1> QED BY <1>2 DEF Settle, GateInv, ApprovedWithinLimits

LEMMA NextKeepsGateInv ==
    GateInv /\ [Next]_vars => GateInv'
<1>1. ASSUME GateInv, UNCHANGED vars
      PROVE  GateInv'
  BY <1>1 DEF vars, GateInv, GateTypeOK, ApprovedWithinLimits
<1>2. ASSUME GateInv, Next
      PROVE  GateInv'
  BY <1>2, AssembleKeepsGateInv, CheckFundsKeepsGateInv, ReadFailsKeepsGateInv,
     DecideKeepsGateInv, PlacePaperKeepsGateInv, SettleKeepsGateInv DEF Next, RequestStep
<1> QED BY <1>1, <1>2

(* Type correctness of the gate.                                            *)
THEOREM GateTypeCorrect ==
    Spec => []GateTypeOK
<1>1. Init => GateInv
  BY InitEstablishesGateInv
<1>2. GateInv /\ [Next]_vars => GateInv'
  BY NextKeepsGateInv
<1>3. GateInv => GateTypeOK
  BY DEF GateInv
<1> QED BY <1>1, <1>2, <1>3, PTL DEF Spec

(* Every approval, in every interleaving, is within the limits on what its  *)
(* request has read.                                                        *)
THEOREM ApprovedWithinLimitsHolds ==
    Spec => []ApprovedWithinLimits
<1>1. Init => GateInv
  BY InitEstablishesGateInv
<1>2. GateInv /\ [Next]_vars => GateInv'
  BY NextKeepsGateInv
<1>3. GateInv => ApprovedWithinLimits
  BY DEF GateInv
<1> QED BY <1>1, <1>2, <1>3, PTL DEF Spec
-----------------------------------------------------------------------------
(***************************************************************************)
(* No order is approved too late, or while a part of the system was seen to*)
(* fail, unless its request waited beyond the slack of the configuration:  *)
(* an approved countdown said at least MinTime, and was that much older, at*)
(* the evaluation, than the greatest age that it may be read with.         *)
(***************************************************************************)
(* The two halves of ApprovedIsAllowed, of what a request has assembled.    *)
InTime(r)     == input[r].market.timeRemaining >= MinTime =>
                     timeLeft[r] + waited[r] >= 1000 * MinTime - DEFAULT_COUNTDOWN_MAX_AGE_MS
Unhalted(r)   == /\ input[r].health.riskEngine /\ input[r].health.clock
                 /\ input[r].health.strategy /\ ~input[r].health.killSwitch
AssembledWell == \A r \in Requests : stage[r] \in Pending => InTime(r) /\ Unhalted(r)

AllowedInv == GateInv /\ AssembledWell /\ ApprovedIsAllowed

(* The countdown's age is taken off what it said.                           *)
LEMMA CountdownIsRecent ==
    ASSUME NEW x \in ReadingsType, SnapshotOf(x).timeRemaining >= MinTime
    PROVE  x.timeLeft >= 1000 * MinTime - DEFAULT_COUNTDOWN_MAX_AGE_MS
<1>1. x.timeLeft \in Int /\ x.countdownAge \in Nat /\ MinTime \in Nat
  BY DEF ReadingsType
<1>2. SnapshotOf(x).timeRemaining = IF x.countdownAge <= 5000
                                    THEN (x.timeLeft + x.countdownAge) \div 1000 ELSE -1
  BY DEF SnapshotOf, Fresh, DEFAULT_COUNTDOWN_MAX_AGE_MS
<1>3. x.countdownAge <= 5000 /\ (x.timeLeft + x.countdownAge) \div 1000 >= MinTime
  BY <1>1, <1>2
<1>4. x.timeLeft + x.countdownAge >= 1000 * MinTime
  BY <1>1, <1>3
<1> QED BY <1>1, <1>3, <1>4 DEF DEFAULT_COUNTDOWN_MAX_AGE_MS

(* With 21 seconds left, entries are still allowed.                         *)
LEMMA EntryAllowedFrom ==
    ASSUME NEW ms \in Int, ms >= 21000
    PROVE  EntryAllowed(ms \div 1000)
<1> DEFINE t == ms \div 1000
<1>1. t \in Int /\ t >= 21
  OBVIOUS
<1> HIDE DEF t
<1>2. ~(t <= 0) /\ ~(t \in 1..5) /\ ~(t \in 6..20)
  BY <1>1
<1>3. TradingRestriction(t) \in {"NORMAL", "RESTRICTED_ENTRY"}
  <2>1. CASE t \in 21..60
    BY <1>2, <2>1 DEF TradingRestriction
  <2>2. CASE ~(t \in 21..60)
    BY <1>2, <2>2 DEF TradingRestriction
  <2> QED BY <2>1, <2>2
<1>4. EntryAllowed(t)
  BY <1>3 DEF EntryAllowed
<1> QED BY <1>4 DEF t

(* An approval has passed the checks of time and health.                    *)
LEMMA ApprovedPassesHealth ==
    ASSUME NEW in, Evaluate(in).approved
    PROVE  /\ ~(in.market.timeRemaining < MinTime)
           /\ in.health.riskEngine /\ in.health.database /\ in.health.redis /\ in.health.clock
<1>1. Failed(Checks(in)) = {}
  BY DEF Evaluate
<1>2. ~Checks(in)[8].fails /\ ~Checks(in)[15].fails
  BY <1>1 DEF Failed
<1> QED BY <1>2 DEF Checks, Check

LEMMA AssembleKeepsAllowed ==
    ASSUME AllowedInv, NEW r \in Requests, Assemble(r)
    PROVE  AssembledWell' /\ ApprovedIsAllowed'
<1>1. PICK x \in Readings :
        /\ input' = [input EXCEPT ![r] = Assembled(r, x)]
        /\ timeLeft' = [timeLeft EXCEPT ![r] = x.timeLeft]
        /\ waited' = [waited EXCEPT ![r] = 0]
  BY DEF Assemble
<1>2. /\ input'[r] = Assembled(r, x) /\ timeLeft'[r] = x.timeLeft /\ waited'[r] = 0
      /\ \A q \in Requests \ {r} : /\ input'[q] = input[q] /\ timeLeft'[q] = timeLeft[q]
                                   /\ stage'[q] = stage[q] /\ waited'[q] = waited[q]
  BY <1>1 DEF Assemble, AllowedInv, GateInv, GateTypeOK
<1>3. input'[r].market = SnapshotOf(x) /\ input'[r].health = HealthOf(r, x)
  BY <1>2 DEF Assembled
<1>4. InTime(r)'
  <2>1. x \in ReadingsType /\ x.timeLeft \in Int
    BY GateAssumption DEF ReadingsType
  <2>2. SnapshotOf(x).timeRemaining >= MinTime =>
           x.timeLeft >= 1000 * MinTime - DEFAULT_COUNTDOWN_MAX_AGE_MS
    BY <2>1, CountdownIsRecent
  <2>3. timeLeft'[r] + waited'[r] = x.timeLeft
    BY <1>2, <2>1
  <2> QED BY <1>3, <2>2, <2>3 DEF InTime
<1>5. Unhalted(r)'
  BY <1>3 DEF Unhalted, HealthOf
<1>6. AssembledWell'
  BY <1>2, <1>4, <1>5 DEF AllowedInv, AssembledWell, InTime, Unhalted
<1>7. ~decision[r].approved /\ decision' = decision
  BY DEF Assemble, AllowedInv, GateInv
<1> QED BY <1>2, <1>6, <1>7 DEF AllowedInv, ApprovedIsAllowed

LEMMA CheckFundsKeepsAllowed ==
    ASSUME AllowedInv, NEW r \in Requests, CheckFunds(r)
    PROVE  AssembledWell' /\ ApprovedIsAllowed'
<1>1. PICK readable \in BOOLEAN :
        input' = [input EXCEPT ![r] = [@ EXCEPT !.account = Account(r, readable)]]
  BY DEF CheckFunds
<1>2. PICK ms \in Waits :
        /\ timeLeft' = [timeLeft EXCEPT ![r] = @ - ms]
        /\ waited' = [waited EXCEPT ![r] = @ + ms]
  BY DEF CheckFunds
<1>3. input[r] \in Inputs /\ stage[r] \in Pending /\ ~decision[r].approved /\ decision' = decision
  BY DEF CheckFunds, AllowedInv, GateInv, GateTypeOK, Pending
<1>4. input'[r].market = input[r].market /\ input'[r].health = input[r].health
  BY <1>1, <1>3 DEF AllowedInv, GateInv, GateTypeOK, Inputs
<1>5. timeLeft'[r] + waited'[r] = timeLeft[r] + waited[r]
  <2>1. ms \in Nat /\ timeLeft[r] \in Int /\ waited[r] \in Nat
    BY GateAssumption DEF AllowedInv, GateInv, GateTypeOK
  <2>2. timeLeft'[r] = timeLeft[r] - ms /\ waited'[r] = waited[r] + ms
    BY <1>2 DEF AllowedInv, GateInv, GateTypeOK
  <2> QED BY <2>1, <2>2
<1>6. \A q \in Requests \ {r} : /\ input'[q] = input[q] /\ timeLeft'[q] = timeLeft[q]
                               /\ stage'[q] = stage[q] /\ waited'[q] = waited[q]
  BY <1>1, <1>2 DEF CheckFunds, AllowedInv, GateInv, GateTypeOK
<1>7. InTime(r)' /\ Unhalted(r)'
  BY <1>3, <1>4, <1>5 DEF AllowedInv, AssembledWell, InTime, Unhalted
<1>8. AssembledWell'
  BY <1>6, <1>7 DEF AllowedInv, AssembledWell, InTime, Unhalted
<1> QED BY <1>3, <1>6, <1>8 DEF AllowedInv, ApprovedIsAllowed

LEMMA DecideKeepsAllowed ==
    ASSUME AllowedInv, NEW r \in Requests, Decide(r)
    PROVE  AssembledWell' /\ ApprovedIsAllowed'
<1>1. PICK x \in Readings, ms \in Waits :
        LET in == [input[r] EXCEPT !.asks = SyntheticAsks(Summary(x.own))]
            d  == Evaluate(in)
        IN  /\ decision' = [decision EXCEPT ![r] = IF d.approved THEN d ELSE Undecided]
            /\ stage' = [stage EXCEPT ![r] = Outcome(r, d)]
            /\ input' = [input EXCEPT ![r] = IF d.approved THEN in ELSE Unread]
            /\ timeLeft' = [timeLeft EXCEPT ![r] = IF d.approved THEN @ - ms ELSE 0]
            /\ waited' = [waited EXCEPT ![r] = IF d.approved THEN @ + ms ELSE 0]
  BY DEF Decide
<1> DEFINE in == [input[r] EXCEPT !.asks = SyntheticAsks(Summary(x.own))]
           d  == Evaluate(in)
<1>2. input[r] \in Inputs /\ stage[r] \in Pending
  BY LooksAgainIsPending DEF Decide, AllowedInv, GateInv, GateTypeOK, Pending
<1>3. in.market = input[r].market /\ in.health = input[r].health
  BY <1>2 DEF Inputs
<1>4. d.approved => /\ ~(in.market.timeRemaining < MinTime)
                    /\ in.health.riskEngine /\ in.health.database /\ in.health.redis
                    /\ in.health.clock
  BY ApprovedPassesHealth
<1>5. /\ decision' = [decision EXCEPT ![r] = IF d.approved THEN d ELSE Undecided]
      /\ stage' = [stage EXCEPT ![r] = Outcome(r, d)]
      /\ input' = [input EXCEPT ![r] = IF d.approved THEN in ELSE Unread]
      /\ timeLeft' = [timeLeft EXCEPT ![r] = IF d.approved THEN @ - ms ELSE 0]
      /\ waited' = [waited EXCEPT ![r] = IF d.approved THEN @ + ms ELSE 0]
  BY <1>1
<1> HIDE DEF in, d
<1>6. /\ decision'[r] = IF d.approved THEN d ELSE Undecided
      /\ stage'[r] \in {"rejected", "prepared", "approved"}
      /\ d.approved => /\ input'[r] = in /\ timeLeft'[r] = timeLeft[r] - ms
                       /\ waited'[r] = waited[r] + ms
      /\ \A q \in Requests \ {r} : /\ stage'[q] = stage[q] /\ input'[q] = input[q]
                                   /\ decision'[q] = decision[q] /\ timeLeft'[q] = timeLeft[q]
                                   /\ waited'[q] = waited[q]
  BY <1>5 DEF Outcome, AllowedInv, GateInv, GateTypeOK
<1>7. AssembledWell'
  BY <1>6 DEF AllowedInv, AssembledWell, InTime, Unhalted, Pending
<1>8. InTime(r) /\ Unhalted(r)
  BY <1>2 DEF AllowedInv, AssembledWell
<1>9. ASSUME d.approved
      PROVE  /\ waited'[r] <= Slack => EntryAllowed(timeLeft'[r] \div 1000)
             /\ HaltReasons(in.health) \subseteq {"signer"}
  <2>1. in.market.timeRemaining \in Int /\ MinTime \in Nat
    BY <1>2, <1>3 DEF Inputs, Markets
  <2>2. in.market.timeRemaining >= MinTime
    BY <1>4, <1>9, <2>1
  <2>3. timeLeft[r] + waited[r] >= 1000 * MinTime - 5000
    BY <1>3, <1>8, <2>2 DEF InTime, DEFAULT_COUNTDOWN_MAX_AGE_MS
  <2>4. ms \in Nat /\ timeLeft[r] \in Int /\ waited[r] \in Nat
    BY GateAssumption DEF AllowedInv, GateInv, GateTypeOK
  <2>5. timeLeft'[r] + waited'[r] = timeLeft[r] + waited[r] /\ timeLeft'[r] \in Int /\ waited'[r] \in Nat
    BY <1>6, <1>9, <2>4
  <2>6. ASSUME waited'[r] <= Slack
        PROVE  EntryAllowed(timeLeft'[r] \div 1000)
    <3>1. waited'[r] <= 1000 * MinTime - 26000
      BY <2>1, <2>5, <2>6 DEF Slack, DEFAULT_COUNTDOWN_MAX_AGE_MS
    <3>2. timeLeft'[r] >= 21000
      BY <2>1, <2>3, <2>4, <2>5, <3>1
    <3> QED BY <2>5, <3>2, EntryAllowedFrom
  <2>7. HaltReasons(in.health) \subseteq {"signer"}
    BY <1>3, <1>4, <1>8, <1>9 DEF Unhalted, HaltReasons
  <2> QED BY <2>6, <2>7
<1>10. ~Undecided.approved
  BY DEF Undecided
<1>11. decision'[r].approved => d.approved /\ input'[r] = in
  BY <1>6, <1>10
<1> QED BY <1>6, <1>7, <1>9, <1>11 DEF AllowedInv, ApprovedIsAllowed

LEMMA NextKeepsAllowed ==
    AllowedInv /\ [Next]_vars => AllowedInv'
<1> SUFFICES ASSUME AllowedInv, [Next]_vars PROVE AssembledWell' /\ ApprovedIsAllowed'
  BY NextKeepsGateInv DEF AllowedInv
<1> USE DEF InTime, Unhalted, Pending
<1>1. ASSUME NEW r \in Requests, ReadFails(r)
      PROVE  AssembledWell' /\ ApprovedIsAllowed'
  <2>1. ~decision[r].approved /\ decision' = decision /\ stage'[r] = "failed"
    BY <1>1, LooksAgainIsPending DEF ReadFails, AllowedInv, GateInv, GateTypeOK
  <2>2. \A q \in Requests \ {r} : /\ stage'[q] = stage[q] /\ input'[q] = input[q]
                                  /\ timeLeft'[q] = timeLeft[q] /\ waited'[q] = waited[q]
    BY <1>1 DEF ReadFails, AllowedInv, GateInv, GateTypeOK
  <2>3. AssembledWell'
    BY <2>1, <2>2 DEF AllowedInv, AssembledWell
  <2>4. ApprovedIsAllowed'
    BY <2>1, <2>2 DEF AllowedInv, ApprovedIsAllowed
  <2> QED BY <2>3, <2>4
<1>2. ASSUME NEW r \in Requests, PlacePaper(r)
      PROVE  AssembledWell' /\ ApprovedIsAllowed'
  <2>1. ~decision'[r].approved /\ stage'[r] = "placed"
    BY <1>2 DEF PlacePaper, Undecided, AllowedInv, GateInv, GateTypeOK
  <2>2. \A q \in Requests \ {r} : /\ stage'[q] = stage[q] /\ input'[q] = input[q]
                                  /\ timeLeft'[q] = timeLeft[q] /\ decision'[q] = decision[q]
                                  /\ waited'[q] = waited[q]
    BY <1>2 DEF PlacePaper, AllowedInv, GateInv, GateTypeOK
  <2> QED BY <2>1, <2>2 DEF AllowedInv, AssembledWell, ApprovedIsAllowed
<1>3. ASSUME UNCHANGED <<stage, input, timeLeft, waited, decision>>
      PROVE  AssembledWell' /\ ApprovedIsAllowed'
  BY <1>3 DEF AllowedInv, AssembledWell, ApprovedIsAllowed
<1>4. ASSUME NEW k \in Keys, Settle(k)
      PROVE  AssembledWell' /\ ApprovedIsAllowed'
  BY <1>3, <1>4 DEF Settle
<1> QED BY <1>1, <1>2, <1>3, <1>4, AssembleKeepsAllowed, CheckFundsKeepsAllowed,
        DecideKeepsAllowed
        DEF Next, RequestStep, vars

(* Whatever a request has read, when, and however long it waited up to the  *)
(* slack: an approved order is not too late for its market, and the system  *)
(* it was approved by was seen to work.                                     *)
THEOREM ApprovedIsAllowedHolds ==
    Spec => []ApprovedIsAllowed
<1>1. Init => AllowedInv
  <2>1. Init => AssembledWell /\ ApprovedIsAllowed
    BY DEF Init, Undecided, AssembledWell, ApprovedIsAllowed, Pending
  <2> QED BY <2>1, InitEstablishesGateInv DEF AllowedInv
<1>2. AllowedInv /\ [Next]_vars => AllowedInv'
  BY NextKeepsAllowed
<1>3. AllowedInv => ApprovedIsAllowed
  BY DEF AllowedInv
<1> QED BY <1>1, <1>2, <1>3, PTL DEF Spec
-----------------------------------------------------------------------------
(***************************************************************************)
(* The user's exposure.  A request is fresh as long as no position has     *)
(* changed since it read the portfolio, so what it fills is added to the   *)
(* portfolio its approval was about; a request that is not, and fills,     *)
(* has raced.                                                              *)
(***************************************************************************)
OpenKeys(h) == {k \in Keys : h[k] > 0}

StartsWithinLimits ==
    \A h \in HeldBefore :
        SumFunction(h) <= MaxPosition /\ Cardinality(OpenKeys(h)) <= MaxOpenPositions

ReadNow     == \A r \in fresh : stage[r] \in Pending \cup {"approved"} =>
                                    input[r].portfolio = Portfolio
HasApproval == \A r \in Requests : stage[r] = "approved" => decision[r].approved

ExposureInv == GateInv /\ ReadNow /\ HasApproval /\ ExposureWithinLimits

(* A fill opens at most one position; a settlement opens none.              *)
LEMMA CountChange ==
    ASSUME NEW h, NEW h2, NEW k, \A j \in Keys \ {k} : h2[j] = h[j]
    PROVE  /\ Cardinality(OpenKeys(h)) \in Nat /\ Cardinality(OpenKeys(h2)) \in Nat
           /\ Cardinality(OpenKeys(h2)) <= Cardinality(OpenKeys(h)) + 1
           /\ h2[k] = 0 => Cardinality(OpenKeys(h2)) <= Cardinality(OpenKeys(h))
<1>1. IsFiniteSet(OpenKeys(h)) /\ IsFiniteSet(OpenKeys(h2))
  BY GateAssumption, FS_Subset DEF OpenKeys
<1>2. Cardinality(OpenKeys(h)) \in Nat /\ Cardinality(OpenKeys(h2)) \in Nat
  BY <1>1, FS_CardinalityType
<1>3. OpenKeys(h2) \subseteq OpenKeys(h) \cup {k}
  BY DEF OpenKeys
<1>4. /\ IsFiniteSet(OpenKeys(h) \cup {k})
      /\ \/ Cardinality(OpenKeys(h) \cup {k}) = Cardinality(OpenKeys(h))
         \/ Cardinality(OpenKeys(h) \cup {k}) = Cardinality(OpenKeys(h)) + 1
  BY <1>1, FS_AddElement
<1>5. Cardinality(OpenKeys(h2)) <= Cardinality(OpenKeys(h) \cup {k})
  BY <1>3, <1>4, FS_Subset
<1>6. ASSUME h2[k] = 0
      PROVE  Cardinality(OpenKeys(h2)) <= Cardinality(OpenKeys(h))
  <2>1. OpenKeys(h2) \subseteq OpenKeys(h)
    BY <1>6 DEF OpenKeys
  <2> QED BY <1>1, <2>1, FS_Subset
<1> QED BY <1>2, <1>4, <1>5, <1>6

LEMMA OpenIs == OpenCount = Cardinality(OpenKeys(held))
BY DEF OpenCount, OpenKeys

LEMMA OpenIsNatural ==
    ASSUME GateTypeOK
    PROVE  OpenUsd \in Nat /\ OpenCount \in Nat
BY PortfolioType DEF Portfolio, Portfolios

(* What a fresh, approved request fills fits in.                            *)
LEMMA FillFits ==
    ASSUME ExposureInv, NEW r \in Requests, r \in fresh, stage[r] = "approved"
    PROVE  /\ OpenUsd + decision[r].maxSize <= MaxPosition
           /\ OpenCount < MaxOpenPositions
<1>1. WithinLimits(input[r], decision[r])
  BY DEF ExposureInv, HasApproval, GateInv, ApprovedWithinLimits
<1>2. input[r].portfolio = Portfolio
  BY DEF ExposureInv, ReadNow
<1>3. /\ input[r].portfolio.usd + decision[r].maxSize <= MaxPosition
      /\ input[r].portfolio.count < MaxOpenPositions
  BY <1>1 DEF WithinLimits
<1> QED BY <1>2, <1>3 DEF Portfolio

LEMMA SamePortfolio ==
    ASSUME UNCHANGED <<held, snapshots>>
    PROVE  Portfolio' = Portfolio /\ OpenUsd' = OpenUsd /\ OpenCount' = OpenCount
BY DEF Portfolio, OpenUsd, OpenCount, RealizedPnlToday

LEMMA PlacePaperKeepsExposure ==
    ASSUME ExposureInv, NEW r \in Requests, PlacePaper(r)
    PROVE  ReadNow' /\ HasApproval' /\ ExposureWithinLimits'
<1>1. PICK usd \in 0..PlacedSize(r) :
        /\ held' = [held EXCEPT ![KeyOf[r]] = @ + usd]
        /\ fresh' = IF usd > 0 THEN {} ELSE fresh \ {r}
        /\ raced' = (raced \/ (usd > 0 /\ r \notin fresh))
  BY DEF PlacePaper
<1>2. held \in [Keys -> Nat] /\ KeyOf[r] \in Keys /\ SizeOf[r] \in Nat
      /\ decision[r] \in Decisions /\ fresh \subseteq Requests /\ GateTypeOK
  BY GateAssumption DEF ExposureInv, GateInv, GateTypeOK
<1>3. usd \in Nat /\ usd <= decision[r].maxSize /\ decision[r].maxSize \in Nat
  BY <1>2 DEF PlacedSize, Least, Decisions
<1>4. /\ stage[r] = "approved" /\ stage'[r] = "placed" /\ snapshots' = snapshots
      /\ \A q \in Requests \ {r} : /\ stage'[q] = stage[q] /\ input'[q] = input[q]
                                   /\ decision'[q] = decision[q]
  BY DEF PlacePaper, ExposureInv, GateInv, GateTypeOK
<1>5. HasApproval'
  BY <1>4 DEF ExposureInv, HasApproval
<1>6. CASE usd = 0
  <2>1. held' = held /\ fresh' = fresh \ {r} /\ (~raced' => ~raced)
    <3>1. held' = [held EXCEPT ![KeyOf[r]] = held[KeyOf[r]] + 0]
      BY <1>1, <1>6
    <3>2. held[KeyOf[r]] + 0 = held[KeyOf[r]]
      BY <1>2
    <3>3. held' = held
      BY <1>2, <3>1, <3>2
    <3>4. ~raced' => ~raced
      BY <1>1
    <3>5. fresh' = fresh \ {r}
      BY <1>1, <1>6
    <3> QED BY <3>3, <3>4, <3>5
  <2>2. Portfolio' = Portfolio /\ OpenUsd' = OpenUsd /\ OpenCount' = OpenCount
    BY <1>4, <2>1, SamePortfolio
  <2>3. ReadNow'
    BY <1>2, <1>4, <2>1, <2>2 DEF ExposureInv, ReadNow, Pending
  <2> QED BY <1>5, <2>1, <2>2, <2>3 DEF ExposureInv, ExposureWithinLimits
<1>7. CASE usd > 0
  <2>1. fresh' = {} /\ raced' = (raced \/ r \notin fresh)
    BY <1>1, <1>7
  <2>2. ReadNow'
    BY <2>1 DEF ReadNow
  <2>3. ASSUME ~raced'
        PROVE  OpenUsd' <= MaxPosition /\ OpenCount' <= MaxOpenPositions
    <3>1. r \in fresh
      BY <2>1, <2>3
    <3>2. OpenUsd + decision[r].maxSize <= MaxPosition /\ OpenCount < MaxOpenPositions
      BY <1>4, <3>1, FillFits
    <3>3. held' \in [Keys -> Int] /\ held \in [Keys -> Int]
      BY <1>1, <1>2, <1>3
    <3>4. held'[KeyOf[r]] = held[KeyOf[r]] + usd /\ \A k \in Keys \ {KeyOf[r]} : held'[k] = held[k]
      BY <1>1, <1>2
    <3>5. SumFunction(held') = SumFunction(held) + (held'[KeyOf[r]] - held[KeyOf[r]])
      BY <1>2, <3>3, <3>4, GateAssumption, SumChange
    <3>6. OpenUsd \in Nat /\ OpenCount \in Nat
      BY <1>2, OpenIsNatural
    <3>7. OpenUsd' = OpenUsd + usd
      <4>1. held[KeyOf[r]] \in Nat
        BY <1>2
      <4> QED BY <1>3, <3>4, <3>5, <3>6, <4>1 DEF OpenUsd
    <3>8. OpenCount' \in Nat /\ OpenCount' <= OpenCount + 1
      BY <3>4, CountChange DEF OpenCount, OpenKeys
    <3> QED BY <1>3, <3>2, <3>6, <3>7, <3>8, ConfigTypes
  <2> QED BY <1>5, <2>2, <2>3 DEF ExposureWithinLimits
<1> QED BY <1>3, <1>6, <1>7

LEMMA SettleKeepsExposure ==
    ASSUME ExposureInv, NEW k \in Keys, Settle(k)
    PROVE  ReadNow' /\ HasApproval' /\ ExposureWithinLimits'
<1>1. /\ held \in [Keys -> Nat] /\ held' \in [Keys -> Nat] /\ held'[k] = 0
      /\ \A j \in Keys \ {k} : held'[j] = held[j]
  BY DEF Settle, ExposureInv, GateInv, GateTypeOK
<1>2. OpenUsd \in Nat /\ OpenCount \in Nat
  BY OpenIsNatural DEF ExposureInv, GateInv
<1>3. OpenUsd' = OpenUsd - held[k]
  <2>1. held \in [Keys -> Int] /\ held' \in [Keys -> Int]
    BY <1>1
  <2>2. SumFunction(held') = SumFunction(held) + (held'[k] - held[k])
    BY <1>1, <2>1, GateAssumption, SumChange
  <2>3. held[k] \in Nat
    BY <1>1
  <2> QED BY <1>1, <1>2, <2>2, <2>3 DEF OpenUsd
<1>4. OpenCount' \in Nat /\ OpenCount' <= OpenCount
  BY <1>1, CountChange DEF OpenCount, OpenKeys
<1>5. fresh' = {} /\ raced' = raced /\ stage' = stage /\ decision' = decision
  BY DEF Settle
<1>6. ReadNow' /\ HasApproval'
  BY <1>5 DEF ReadNow, HasApproval, ExposureInv
<1>7. held[k] \in Nat
  BY <1>1
<1> QED BY <1>2, <1>3, <1>4, <1>5, <1>6, <1>7, ConfigTypes DEF ExposureInv, ExposureWithinLimits

(* The other steps leave the portfolio alone.                               *)
LEMMA ReadingKeepsExposure ==
    ASSUME ExposureInv, NEW r \in Requests,
           Assemble(r) \/ CheckFunds(r) \/ ReadFails(r) \/ Decide(r)
    PROVE  ReadNow' /\ HasApproval' /\ ExposureWithinLimits'
<1>1. UNCHANGED <<held, snapshots, raced>>
  BY DEF Assemble, CheckFunds, ReadFails, Decide
<1>2. Portfolio' = Portfolio /\ OpenUsd' = OpenUsd /\ OpenCount' = OpenCount
  BY <1>1, SamePortfolio
<1>3. ExposureWithinLimits'
  BY <1>1, <1>2 DEF ExposureInv, ExposureWithinLimits
<1>4. fresh \subseteq Requests
  BY DEF ExposureInv, GateInv, GateTypeOK
<1>5. CASE Assemble(r)
  <2>1. PICK x \in Readings :
          input' = [input EXCEPT ![r] = Assembled(r, x)]
    BY <1>5 DEF Assemble
  <2>2. /\ stage'[r] = "assembled" /\ input'[r] = Assembled(r, x)
        /\ \A q \in Requests \ {r} : stage'[q] = stage[q] /\ input'[q] = input[q]
        /\ fresh' = fresh \cup {r} /\ decision' = decision
    BY <1>5, <2>1 DEF Assemble, ExposureInv, GateInv, GateTypeOK
  <2>3. Assembled(r, x).portfolio = Portfolio
    BY DEF Assembled
  <2>4. ReadNow'
    BY <1>2, <1>4, <2>2, <2>3 DEF ExposureInv, ReadNow, Pending
  <2>5. HasApproval'
    BY <2>2 DEF ExposureInv, HasApproval
  <2> QED BY <1>3, <2>4, <2>5
<1>8. CASE CheckFunds(r)
  <2>1. PICK readable \in BOOLEAN :
          input' = [input EXCEPT ![r] = [@ EXCEPT !.account = Account(r, readable)]]
    BY <1>8 DEF CheckFunds
  <2>2. /\ stage'[r] = "funded" /\ stage[r] = "assembled"
        /\ \A q \in Requests \ {r} : stage'[q] = stage[q] /\ input'[q] = input[q]
        /\ fresh' = fresh /\ decision' = decision /\ input[r] \in Inputs
    BY <1>8, <2>1 DEF CheckFunds, ExposureInv, GateInv, GateTypeOK
  <2>3. input'[r].portfolio = input[r].portfolio
    BY <2>1, <2>2 DEF ExposureInv, GateInv, GateTypeOK, Inputs
  <2>4. ReadNow'
    BY <1>2, <1>4, <2>2, <2>3 DEF ExposureInv, ReadNow, Pending
  <2>5. HasApproval'
    BY <2>2 DEF ExposureInv, HasApproval
  <2> QED BY <1>3, <2>4, <2>5
<1>6. CASE ReadFails(r)
  <2>1. /\ stage'[r] = "failed" /\ fresh' = fresh /\ decision' = decision
        /\ \A q \in Requests \ {r} : stage'[q] = stage[q] /\ input'[q] = input[q]
    BY <1>6 DEF ReadFails, ExposureInv, GateInv, GateTypeOK
  <2>2. ReadNow'
    BY <1>2, <1>4, <2>1 DEF ExposureInv, ReadNow, Pending
  <2>3. HasApproval'
    BY <2>1 DEF ExposureInv, HasApproval
  <2> QED BY <1>3, <2>2, <2>3
<1>7. CASE Decide(r)
  <2>1. PICK x \in Readings :
          LET in == [input[r] EXCEPT !.asks = SyntheticAsks(Summary(x.own))]
              d  == Evaluate(in)
          IN  /\ decision' = [decision EXCEPT ![r] = IF d.approved THEN d ELSE Undecided]
              /\ stage' = [stage EXCEPT ![r] = Outcome(r, d)]
              /\ input' = [input EXCEPT ![r] = IF d.approved THEN in ELSE Unread]
    BY <1>7 DEF Decide
  <2> DEFINE in == [input[r] EXCEPT !.asks = SyntheticAsks(Summary(x.own))]
             d  == Evaluate(in)
  <2>2. in.portfolio = input[r].portfolio
    BY <1>7, LooksAgainIsPending DEF Decide, ExposureInv, GateInv, GateTypeOK, Inputs, Pending
  <2>3. /\ decision' = [decision EXCEPT ![r] = IF d.approved THEN d ELSE Undecided]
        /\ stage' = [stage EXCEPT ![r] = Outcome(r, d)]
        /\ input' = [input EXCEPT ![r] = IF d.approved THEN in ELSE Unread]
    BY <2>1
  <2> HIDE DEF in, d
  <2>4. /\ stage'[r] = Outcome(r, d) /\ stage[r] \in Pending
        /\ decision'[r] = IF d.approved THEN d ELSE Undecided
        /\ input'[r] = IF d.approved THEN in ELSE Unread
        /\ \A q \in Requests \ {r} : /\ stage'[q] = stage[q] /\ input'[q] = input[q]
                                     /\ decision'[q] = decision[q]
        /\ fresh' = fresh
    BY <1>7, <2>3, LooksAgainIsPending DEF Decide, ExposureInv, GateInv, GateTypeOK
  <2>5. Outcome(r, d) \notin Pending /\ (Outcome(r, d) = "approved" => d.approved)
    BY DEF Outcome, Pending
  <2>6. ReadNow'
    <3> SUFFICES ASSUME NEW q \in fresh, stage'[q] \in Pending \cup {"approved"}
                 PROVE  input'[q].portfolio = Portfolio
      BY <1>2, <2>4 DEF ReadNow
    <3>1. CASE q = r
      BY <2>2, <2>4, <2>5, <3>1 DEF ExposureInv, ReadNow
    <3>2. CASE q # r
      BY <1>4, <2>4, <3>2 DEF ExposureInv, ReadNow
    <3> QED BY <3>1, <3>2
  <2>7. HasApproval'
    BY <2>4, <2>5 DEF ExposureInv, HasApproval
  <2> QED BY <1>3, <2>6, <2>7
<1> QED BY <1>5, <1>6, <1>7, <1>8

LEMMA NextKeepsExposure == ExposureInv /\ [Next]_vars => ExposureInv'
<1> SUFFICES ASSUME ExposureInv, [Next]_vars
             PROVE  ReadNow' /\ HasApproval' /\ ExposureWithinLimits'
  BY NextKeepsGateInv DEF ExposureInv
<1>1. ASSUME UNCHANGED vars
      PROVE  ReadNow' /\ HasApproval' /\ ExposureWithinLimits'
  <2>1. Portfolio' = Portfolio /\ OpenUsd' = OpenUsd /\ OpenCount' = OpenCount
    BY <1>1, SamePortfolio DEF vars
  <2> QED BY <1>1, <2>1 DEF vars, ExposureInv, ReadNow, HasApproval, ExposureWithinLimits
<1> QED BY <1>1, PlacePaperKeepsExposure, SettleKeepsExposure, ReadingKeepsExposure
        DEF Next, RequestStep

(* However many positions and requests: unless one fills on a portfolio     *)
(* that has changed since it read it, the user's exposure stays within the  *)
(* limits it started within.                                                *)
THEOREM ExposureWithinLimitsHolds ==
    ASSUME StartsWithinLimits
    PROVE  Spec => []ExposureWithinLimits
<1>1. Init => ExposureInv
  <2> SUFFICES ASSUME Init PROVE ReadNow /\ HasApproval /\ ExposureWithinLimits
    BY InitEstablishesGateInv DEF ExposureInv
  <2>1. OpenUsd <= MaxPosition /\ OpenCount <= MaxOpenPositions
    BY OpenIs DEF Init, StartsWithinLimits, OpenUsd
  <2> QED BY <2>1 DEF Init, ReadNow, HasApproval, ExposureWithinLimits, Pending
<1>2. ExposureInv /\ [Next]_vars => ExposureInv'
  BY NextKeepsExposure
<1>3. ExposureInv => ExposureWithinLimits
  BY DEF ExposureInv
<1> QED BY <1>1, <1>2, <1>3, PTL DEF Spec

-----------------------------------------------------------------------------
(***************************************************************************)
(* Terminal.  What was sent for a trade was prepared for the account of its*)
(* click and compared with its browser wallet, and goes to the exchange in *)
(* that account's name alone; of a submit that was delivered once, no      *)
(* answer that reads as expired has come while it is on its way.           *)
(***************************************************************************)
OnItsWay(t) == inHand[t] > 0 \/ t \in placing \/ t \in placed

TradeFits(t) ==
    /\ trade[t].at = "prepare" => trade[t].user \in Users
    /\ trade[t].at = "sign" \/ trade[t].sender # None =>
          /\ trade[t].user \in Users /\ trade[t].wallet \in Addresses
          /\ linked[trade[t].wallet] = trade[t].user
          /\ trade[t].client = trade[t].wallet
    /\ trade[t].sender = None => delivered[t] = 0 /\ trade[t].at # "submit"
    /\ trade[t].sender # None => trade[t].at \in {"submit", "ended", "gone"}

DeliveriesFit(t) ==
    /\ inHand[t] <= delivered[t]
    /\ delivered[t] = 0 => ~OnItsWay(t) /\ trade[t].answer # "expired"
    /\ delivered[t] = 1 /\ OnItsWay(t) => trade[t].answer # "expired"
    /\ delivered[t] = 1 /\ inHand[t] > 0 => t \notin placing /\ t \notin placed
    /\ t \in placing \/ t \in placed => trade[t].user = trade[t].sender
    /\ trade[t].at = "submit" => trade[t].answer # "expired"
    /\ trade[t].at = "ended" /\ trade[t].sender # None =>
          \/ trade[t].result = "SUBMIT_FAILED"
          \/ trade[t].result = "PREPARE_EXPIRED" /\ trade[t].answer = "expired"

CallsFit ==
    /\ link.at # "idle" => link.user \in Users /\ link.address \in Addresses
    /\ link.at = "linked" => linked[link.address] = link.user
    /\ switch.at # "idle" => switch.user \in Users
    /\ shownWallet # None /\ ~foreign => session \in Users

TabInv == /\ TerminalTypeOK /\ (\A t \in Trades : TradeFits(t) /\ DeliveriesFit(t))
          /\ CallsFit /\ ShownWalletIsOwn

(* An address that is linked stays with its account.                        *)
LinkedStays == \A a \in Addresses : linked[a] \in Users => linked'[a] = linked[a]

LEMMA TradesStay ==
    ASSUME \A t \in Trades : TradeFits(t) /\ DeliveriesFit(t), LinkedStays,
           UNCHANGED <<trade, delivered, inHand, placing, placed>>
    PROVE  \A t \in Trades : TradeFits(t)' /\ DeliveriesFit(t)'
BY DEF TradeFits, DeliveriesFit, OnItsWay, LinkedStays

LEMMA BookSteps ==
    ASSUME BookTypeOK, NEW u \in Users,
           (\E a \in Addresses : LinkWallet(u, a)) \/ TurnOn(u) \/ TurnOff(u) \/ UNCHANGED bookVars
    PROVE  BookTypeOK' /\ LinkedStays
<1>1. CASE \E a \in Addresses : LinkWallet(u, a)
  <2>1. PICK a \in Addresses : LinkWallet(u, a)
    BY <1>1
  <2>2. linked[a] \in {None, u} /\ linked' = [linked EXCEPT ![a] = u] /\ live' = live
    BY <2>1 DEF LinkWallet
  <2> QED BY <2>2, BookAssumption DEF BookTypeOK, LinkedStays
<1>2. CASE TurnOn(u)
  BY <1>2 DEF TurnOn, BookTypeOK, LinkedStays
<1>3. CASE TurnOff(u)
  BY <1>3 DEF TurnOff, BookTypeOK, LinkedStays
<1>4. CASE UNCHANGED bookVars
  BY <1>4 DEF bookVars, BookTypeOK, LinkedStays
<1> QED BY <1>1, <1>2, <1>3, <1>4

LEMMA SameBook ==
    ASSUME BookTypeOK, UNCHANGED <<linked, live>>
    PROVE  BookTypeOK' /\ LinkedStays
BY DEF BookTypeOK, LinkedStays

(* The types of the store, of the panels' calls, of the trades and of what  *)
(* is on its way.                                                           *)
LinkCalls   == [at : {"idle", "challenge", "verify", "linked"}, user : Users0, address : Wallets0]
SwitchCalls == [at : {"idle", "on", "off", "is on", "is off"}, user : Users0]
TradeCalls  == [at : {"none", "prepare", "sign", "submit", "ended", "gone"},
                user : Users0, sender : Users0, client : Wallets0, wallet : Wallets0,
                answer : Replies \cup {None}, result : Results \cup {None}]

StoreTypeOK == /\ session \in Users0 /\ expired \in BOOLEAN /\ foreign \in BOOLEAN
               /\ shownWallet \in Wallets0 /\ shownLive \in BOOLEAN /\ connected \in Wallets0
               /\ ticket \in Trades \cup {None}

SubmitTypeOK == /\ prepared \subseteq Trades /\ placing \subseteq Trades /\ placed \subseteq Trades
                /\ delivered \in [Trades -> 0..MaxDeliveries]
                /\ inHand \in [Trades -> 0..MaxDeliveries]

LEMMA CallTypes ==
    TerminalTypeOK <=> /\ BookTypeOK /\ StoreTypeOK /\ SubmitTypeOK
                       /\ link \in LinkCalls /\ switch \in SwitchCalls /\ trade \in [Trades -> TradeCalls]
BY DEF TerminalTypeOK, LinkCalls, SwitchCalls, TradeCalls, StoreTypeOK, SubmitTypeOK

LEMMA CallTypesNext ==
    TerminalTypeOK' <=> /\ BookTypeOK' /\ StoreTypeOK' /\ SubmitTypeOK'
                        /\ link' \in LinkCalls /\ switch' \in SwitchCalls /\ trade' \in [Trades -> TradeCalls]
BY DEF TerminalTypeOK, LinkCalls, SwitchCalls, TradeCalls, StoreTypeOK, SubmitTypeOK, Users0, Wallets0,
   Replies, Results

LEMMA StoreTypes ==
    ASSUME TabInv
    PROVE  BookTypeOK /\ StoreTypeOK /\ SubmitTypeOK
BY CallTypes DEF TabInv

LEMMA SameSubmits ==
    ASSUME SubmitTypeOK, UNCHANGED submitVars
    PROVE  SubmitTypeOK' /\ UNCHANGED <<delivered, inHand, placing, placed>>
BY DEF SubmitTypeOK, submitVars

LEMMA IdleCalls == Idle \in LinkCalls /\ Off \in SwitchCalls /\ NoTrade \in TradeCalls
                   /\ Idle.at = "idle" /\ Off.at = "idle"
BY DEF Idle, Off, NoTrade, LinkCalls, SwitchCalls, TradeCalls, Users0, Wallets0

-----------------------------------------------------------------------------
(* authStore and the browser wallet.                                        *)
LEMMA SessionKeepsTab ==
    ASSUME TabInv, (\E u \in Users : LogIn(u)) \/ LogOut \/ TokenExpires \/ (\E a \in Addresses : Connect(a))
    PROVE  TabInv'
<1>1. /\ UNCHANGED <<linked, live, link, switch, trade, ticket, submitVars>>
      /\ session' \in Users0 /\ expired' \in BOOLEAN /\ connected' \in Wallets0
      /\ shownLive' \in BOOLEAN
      /\ \/ shownWallet' = None /\ foreign' = FALSE
         \/ shownWallet' = shownWallet /\ session' = session /\ foreign' = foreign
  BY StoreTypes
     DEF StoreTypeOK, LogIn, StoreLogin, LogOut, TokenExpires, Connect, serverVars, storeVars, Users0, Wallets0
<1>2. BookTypeOK' /\ LinkedStays
  BY <1>1, SameBook, StoreTypes
<1>3. StoreTypeOK'
  BY <1>1, StoreTypes DEF StoreTypeOK, Wallets0
<1>4. TerminalTypeOK'
  BY <1>1, <1>2, <1>3, SameSubmits, StoreTypes, CallTypes, CallTypesNext DEF TabInv
<1>5. \A t \in Trades : TradeFits(t)' /\ DeliveriesFit(t)'
  BY <1>1, <1>2, SameSubmits, StoreTypes, TradesStay DEF TabInv
<1>6. CallsFit' /\ ShownWalletIsOwn'
  BY <1>1 DEF TabInv, CallsFit, ShownWalletIsOwn
<1> QED BY <1>4, <1>5, <1>6 DEF TabInv

LEMMA ReloadKeepsTab == ASSUME TabInv, Reload PROVE TabInv'
<1>1. /\ UNCHANGED <<linked, live, submitVars, session, expired, connected>>
      /\ shownWallet' = None /\ shownLive' = FALSE /\ foreign' = FALSE
      /\ link' = Idle /\ switch' = Off /\ ticket' = None
      /\ trade' = [t \in Trades |-> IF trade[t].at \in {"none", "ended"} THEN trade[t]
                                    ELSE [trade[t] EXCEPT !.at = "gone"]]
  BY DEF Reload, serverVars
<1>2. BookTypeOK' /\ LinkedStays
  BY <1>1, SameBook, StoreTypes
<1>3. SubmitTypeOK' /\ UNCHANGED <<delivered, inHand, placing, placed>>
  BY <1>1, SameSubmits, StoreTypes
<1>4. trade \in [Trades -> TradeCalls]
  BY CallTypes DEF TabInv
<1>5. ASSUME NEW t \in Trades
      PROVE  trade'[t] \in TradeCalls /\ TradeFits(t)' /\ DeliveriesFit(t)'
  <2>1. trade[t] \in TradeCalls /\ TradeFits(t) /\ DeliveriesFit(t)
    BY <1>4 DEF TabInv
  <2>2. CASE trade[t].at \in {"none", "ended"}
    <3>1. trade'[t] = trade[t]
      BY <1>1, <2>2
    <3> QED BY <1>1, <1>3, <2>1, <3>1 DEF TradeFits, DeliveriesFit, OnItsWay
  <2>3. CASE trade[t].at \notin {"none", "ended"}
    <3>1. trade'[t] = [trade[t] EXCEPT !.at = "gone"]
      BY <1>1, <2>3
    <3>2. /\ trade'[t] \in TradeCalls /\ trade'[t].at = "gone"
          /\ trade'[t].user = trade[t].user /\ trade'[t].sender = trade[t].sender
          /\ trade'[t].client = trade[t].client /\ trade'[t].wallet = trade[t].wallet
          /\ trade'[t].answer = trade[t].answer
      BY <2>1, <3>1 DEF TradeCalls
    <3> QED BY <1>1, <1>3, <2>1, <3>2 DEF TradeFits, DeliveriesFit, OnItsWay
  <2> QED BY <2>2, <2>3
<1>6. trade' \in [Trades -> TradeCalls]
  BY <1>1, <1>5
<1>7. StoreTypeOK'
  BY <1>1, StoreTypes DEF StoreTypeOK, Users0, Wallets0
<1>8. TerminalTypeOK'
  BY <1>1, <1>2, <1>3, <1>6, <1>7, IdleCalls, CallTypesNext
<1>9. CallsFit' /\ ShownWalletIsOwn'
  BY <1>1, IdleCalls DEF CallsFit, ShownWalletIsOwn
<1> QED BY <1>5, <1>8, <1>9 DEF TabInv

(* A step of the wallet panel or of the switch.                             *)
LEMMA PanelKeepsTab ==
    ASSUME TabInv, BookTypeOK', LinkedStays, CallsFit',
           link' \in LinkCalls, switch' \in SwitchCalls, foreign' \in BOOLEAN, shownLive' \in BOOLEAN,
           shownWallet' \in Wallets0, ShownWalletIsOwn',
           UNCHANGED <<session, expired, connected, trade, ticket, submitVars>>
    PROVE  TabInv'
<1>1. SubmitTypeOK' /\ UNCHANGED <<delivered, inHand, placing, placed>>
  BY SameSubmits, StoreTypes
<1>2. StoreTypeOK'
  BY StoreTypes DEF StoreTypeOK, Users0, Wallets0
<1>3. TerminalTypeOK'
  BY <1>1, <1>2, CallTypes, CallTypesNext DEF TabInv
<1>4. \A t \in Trades : TradeFits(t)' /\ DeliveriesFit(t)'
  BY <1>1, TradesStay DEF TabInv
<1> QED BY <1>3, <1>4 DEF TabInv

LEMMA ShownStays ==
    ASSUME TabInv, LinkedStays, UNCHANGED <<session, shownWallet, foreign>>
    PROVE  ShownWalletIsOwn'
<1>1. shownWallet # None => shownWallet \in Addresses
  BY DEF TabInv, TerminalTypeOK, Wallets0
<1>2. shownWallet # None /\ ~foreign => session \in Users
  BY DEF TabInv, CallsFit
<1> QED BY <1>1, <1>2 DEF TabInv, ShownWalletIsOwn, LinkedStays

(* The wallet panel.                                                        *)
LEMMA LinkKeepsTab ==
    ASSUME TabInv, LinkWalletClick \/ SignChallenge \/ ServerVerifies \/ ShowWallet \/ LinkFails
    PROVE  TabInv'
<1>1. /\ UNCHANGED <<live, submitVars, session, expired, shownLive, connected, switch, trade, ticket>>
      /\ link \in LinkCalls /\ switch \in SwitchCalls /\ BookTypeOK
  BY StoreTypes, CallTypes
     DEF TabInv, LinkWalletClick, SignChallenge, ServerVerifies, ShowWallet, LinkFails,
         serverVars, storeVars, LinkWallet, bookVars
<1>2. CASE LinkWalletClick \/ SignChallenge \/ LinkFails
  <2>1. UNCHANGED <<linked, live, session, shownWallet, foreign>>
    BY <1>2 DEF LinkWalletClick, SignChallenge, LinkFails, serverVars, storeVars
  <2>2. BookTypeOK' /\ LinkedStays
    BY <1>1, <2>1, SameBook
  <2>3. link' \in LinkCalls /\ (link'.at # "idle" => link'.user \in Users /\ link'.address \in Addresses)
        /\ link'.at # "linked"
    <3>1. CASE LinkWalletClick
      <4>1. link' = [at |-> "challenge", user |-> RequireAuth, address |-> connected]
            /\ connected # None /\ RequireAuth # None
        BY <3>1 DEF LinkWalletClick
      <4>2. RequireAuth \in Users /\ connected \in Addresses
        BY <4>1 DEF RequireAuth, TabInv, TerminalTypeOK, Users0, Wallets0
      <4> QED BY <4>1, <4>2 DEF LinkCalls, Users0, Wallets0
    <3>2. CASE SignChallenge
      <4>1. link' = [link EXCEPT !.at = "verify"] \/ link' = Idle
        BY <3>2 DEF SignChallenge
      <4>2. link.at = "challenge"
        BY <3>2 DEF SignChallenge
      <4> QED BY <1>1, <4>1, <4>2, IdleCalls DEF LinkCalls, TabInv, CallsFit
    <3>3. CASE LinkFails
      BY <3>3, IdleCalls DEF LinkFails
    <3> QED BY <1>2, <3>1, <3>2, <3>3
  <2>4. CallsFit'
    BY <1>1, <2>1, <2>3 DEF TabInv, CallsFit
  <2>5. ShownWalletIsOwn' /\ shownWallet' \in Wallets0 /\ foreign' \in BOOLEAN /\ shownLive' \in BOOLEAN
    BY <1>1, <2>1, <2>2, ShownStays, StoreTypes DEF StoreTypeOK, Wallets0
  <2> QED BY <1>1, <2>2, <2>3, <2>4, <2>5, PanelKeepsTab
<1>3. CASE ServerVerifies
  <2>1. /\ link.at = "verify" /\ UNCHANGED <<session, shownWallet, foreign>>
        /\ \/ /\ LinkWallet(link.user, link.address)
              /\ link' = [link EXCEPT !.at = "linked"]
           \/ UNCHANGED bookVars /\ link' = Idle
    BY <1>3 DEF ServerVerifies, storeVars
  <2>2. link.user \in Users /\ link.address \in Addresses
    BY <2>1 DEF TabInv, CallsFit
  <2>3. BookTypeOK' /\ LinkedStays
    BY <1>1, <2>1, <2>2, BookSteps
  <2>4. /\ link' \in LinkCalls
        /\ link'.at # "idle" => link'.user \in Users /\ link'.address \in Addresses
        /\ link'.at = "linked" => linked'[link'.address] = link'.user
    <3>1. CASE LinkWallet(link.user, link.address) /\ link' = [link EXCEPT !.at = "linked"]
      <4>1. link' \in LinkCalls /\ link'.user = link.user /\ link'.address = link.address
        BY <1>1, <3>1 DEF LinkCalls
      <4>2. linked'[link.address] = link.user
        BY <1>1, <2>2, <3>1 DEF LinkWallet, BookTypeOK
      <4> QED BY <2>2, <4>1, <4>2
    <3>2. CASE link' = Idle
      BY <3>2, IdleCalls
    <3> QED BY <2>1, <3>1, <3>2
  <2>5. CallsFit'
    BY <1>1, <2>1, <2>4 DEF TabInv, CallsFit
  <2>6. ShownWalletIsOwn' /\ shownWallet' \in Wallets0 /\ foreign' \in BOOLEAN /\ shownLive' \in BOOLEAN
    BY <1>1, <2>1, <2>3, ShownStays, StoreTypes DEF StoreTypeOK, Wallets0
  <2> QED BY <1>1, <2>3, <2>4, <2>5, <2>6, PanelKeepsTab
<1>4. CASE ShowWallet
  <2>1. /\ link.at = "linked" /\ shownWallet' = link.address /\ foreign' = (session # link.user)
        /\ link' = Idle /\ UNCHANGED <<linked, live, session>>
    BY <1>4 DEF ShowWallet, serverVars
  <2>2. link.user \in Users /\ link.address \in Addresses /\ linked[link.address] = link.user
    BY <2>1 DEF TabInv, CallsFit
  <2>3. BookTypeOK' /\ LinkedStays
    BY <1>1, <2>1, SameBook
  <2>4. foreign' \in BOOLEAN /\ shownLive' \in BOOLEAN /\ shownWallet' \in Wallets0
    BY <1>1, <2>1, <2>2, StoreTypes DEF StoreTypeOK, Wallets0
  <2>5. ShownWalletIsOwn'
    BY <2>1, <2>2 DEF ShownWalletIsOwn
  <2>6. ~foreign' => session \in Users
    BY <2>1, <2>2
  <2>7. CallsFit'
    BY <1>1, <2>1, <2>6, IdleCalls DEF TabInv, CallsFit
  <2> QED BY <1>1, <2>1, <2>3, <2>4, <2>5, <2>7, IdleCalls, PanelKeepsTab
<1> QED BY <1>2, <1>3, <1>4

(* The live-trading switch, and the same account on another device.         *)
LEMMA SwitchKeepsTab ==
    ASSUME TabInv, SwitchClick \/ ServerSwitches \/ ShowSwitch \/ SwitchFails \/ Elsewhere
    PROVE  TabInv'
<1>1. /\ UNCHANGED <<submitVars, session, expired, shownWallet, foreign, connected, link, trade, ticket>>
      /\ link \in LinkCalls /\ switch \in SwitchCalls /\ BookTypeOK
      /\ shownLive \in BOOLEAN /\ foreign \in BOOLEAN
  BY StoreTypes, CallTypes
     DEF TabInv, StoreTypeOK, SwitchClick, ServerSwitches, ShowSwitch, SwitchFails, Elsewhere, serverVars, storeVars
<1>2. BookTypeOK' /\ LinkedStays
  <2>1. CASE SwitchClick \/ ShowSwitch \/ SwitchFails
    BY <1>1, <2>1, SameBook DEF SwitchClick, ShowSwitch, SwitchFails, serverVars
  <2>2. CASE ServerSwitches
    <3>1. switch.user \in Users
      BY <2>2 DEF ServerSwitches, TabInv, CallsFit
    <3>2. TurnOn(switch.user) \/ TurnOff(switch.user) \/ UNCHANGED bookVars
      BY <2>2 DEF ServerSwitches
    <3> QED BY <1>1, <3>1, <3>2, BookSteps
  <2>3. CASE Elsewhere
    BY <1>1, <2>3, BookSteps DEF Elsewhere, BookNext
  <2> QED BY <2>1, <2>2, <2>3
<1>3. switch' \in SwitchCalls /\ (switch'.at # "idle" => switch'.user \in Users)
  <2>1. CASE SwitchClick
    <3>1. switch' = [at |-> IF shownLive THEN "off" ELSE "on", user |-> RequireAuth] /\ RequireAuth # None
      BY <2>1 DEF SwitchClick
    <3>2. RequireAuth \in Users
      BY <3>1 DEF RequireAuth, TabInv, TerminalTypeOK, Users0
    <3> QED BY <3>1, <3>2 DEF SwitchCalls, Users0
  <2>2. CASE ServerSwitches
    <3>1. switch' = [switch EXCEPT !.at = "is on"] \/ switch' = [switch EXCEPT !.at = "is off"] \/ switch' = Off
      BY <2>2 DEF ServerSwitches
    <3>2. switch.user \in Users
      BY <2>2 DEF ServerSwitches, TabInv, CallsFit
    <3> QED BY <1>1, <3>1, <3>2, IdleCalls DEF SwitchCalls
  <2>3. CASE ShowSwitch \/ SwitchFails
    BY <2>3, IdleCalls DEF ShowSwitch, SwitchFails
  <2>4. CASE Elsewhere
    BY <1>1, <2>4 DEF Elsewhere, TabInv, CallsFit
  <2> QED BY <2>1, <2>2, <2>3, <2>4
<1>4. shownLive' \in BOOLEAN /\ foreign' \in BOOLEAN
  BY <1>1 DEF SwitchClick, ServerSwitches, ShowSwitch, SwitchFails, Elsewhere, serverVars, storeVars
<1>5. CallsFit'
  <2>1. link.at = "linked" => linked'[link.address] = link.user
    BY <1>2 DEF TabInv, CallsFit, LinkedStays
  <2> QED BY <1>1, <1>3, <1>4, <2>1 DEF TabInv, CallsFit
<1>6. ShownWalletIsOwn'
  <2>1. shownWallet # None => shownWallet \in Addresses
    BY DEF TabInv, TerminalTypeOK, Wallets0
  <2>2. shownWallet # None /\ ~foreign => session \in Users /\ linked[shownWallet] = session
    BY DEF TabInv, CallsFit, ShownWalletIsOwn
  <2> QED BY <1>1, <1>2, <1>4, <2>1, <2>2 DEF ShownWalletIsOwn, LinkedStays
<1>7. shownWallet' \in Wallets0
  BY <1>1, StoreTypes DEF StoreTypeOK, Wallets0
<1> QED BY <1>1, <1>2, <1>3, <1>4, <1>5, <1>6, <1>7, PanelKeepsTab

-----------------------------------------------------------------------------
(* A live trade: what changes is of one trade.                              *)
LEMMA TradeKeepsTab ==
    ASSUME TabInv, NEW t \in Trades, NEW c \in TradeCalls, trade' = [trade EXCEPT ![t] = c],
           SubmitTypeOK',
           \A q \in Trades \ {t} :
              /\ delivered'[q] = delivered[q] /\ inHand'[q] = inHand[q]
              /\ (q \in placing' <=> q \in placing) /\ (q \in placed' <=> q \in placed),
           TradeFits(t)', DeliveriesFit(t)', ticket' \in Trades \cup {None},
           UNCHANGED <<linked, live, storeVars, connected, link, switch>>
    PROVE  TabInv'
<1>1. trade \in [Trades -> TradeCalls]
  BY CallTypes DEF TabInv
<1>2. /\ BookTypeOK' /\ LinkedStays
      /\ UNCHANGED <<session, expired, shownWallet, shownLive, foreign>>
  BY SameBook, StoreTypes DEF storeVars
<1>3. trade' \in [Trades -> TradeCalls] /\ \A q \in Trades \ {t} : trade'[q] = trade[q]
  BY <1>1
<1>4. StoreTypeOK'
  BY <1>2, StoreTypes DEF StoreTypeOK, Wallets0, Users0
<1>5. TerminalTypeOK'
  BY <1>2, <1>3, <1>4, CallTypes, CallTypesNext DEF TabInv
<1>6. ASSUME NEW q \in Trades \ {t}
      PROVE  TradeFits(q)' /\ DeliveriesFit(q)'
  <2>1. trade'[q] = trade[q] /\ TradeFits(q) /\ DeliveriesFit(q)
    BY <1>3 DEF TabInv
  <2> QED BY <2>1 DEF TradeFits, DeliveriesFit, OnItsWay
<1>7. CallsFit' /\ ShownWalletIsOwn'
  BY <1>2 DEF TabInv, CallsFit, ShownWalletIsOwn
<1> QED BY <1>5, <1>6, <1>7 DEF TabInv

LEMMA TradeIs ==
    ASSUME TabInv, NEW t \in Trades
    PROVE  /\ trade[t] \in TradeCalls /\ trade \in [Trades -> TradeCalls]
           /\ TradeFits(t) /\ DeliveriesFit(t)
           /\ StoreTypeOK /\ SubmitTypeOK
BY CallTypes DEF TabInv

(* A step before anything is sent.                                          *)
LEMMA UnsentKeepsTab ==
    ASSUME TabInv, NEW t \in Trades, trade[t].sender = None,
           NEW c \in TradeCalls, trade' = [trade EXCEPT ![t] = c],
           c.sender = None, c.at # "submit", c.answer # "expired",
           c.at = "prepare" => c.user \in Users,
           c.at = "sign" => /\ c.user \in Users /\ c.wallet \in Addresses
                            /\ linked[c.wallet] = c.user /\ c.client = c.wallet,
           prepared' \subseteq Trades, ticket' \in Trades \cup {None},
           UNCHANGED <<linked, live, delivered, inHand, placing, placed, storeVars, connected, link, switch>>
    PROVE  TabInv'
<1>1. /\ trade[t] \in TradeCalls /\ trade \in [Trades -> TradeCalls]
      /\ TradeFits(t) /\ DeliveriesFit(t) /\ SubmitTypeOK
  BY TradeIs
<1>2. trade'[t] = c
  BY <1>1
<1>3. delivered[t] = 0 /\ ~OnItsWay(t)
  BY <1>1 DEF TradeFits, DeliveriesFit
<1>4. TradeFits(t)'
  BY <1>2, <1>3 DEF TradeFits
<1>5. DeliveriesFit(t)'
  BY <1>1, <1>2, <1>3 DEF DeliveriesFit, OnItsWay
<1>6. SubmitTypeOK'
  BY <1>1 DEF SubmitTypeOK
<1> QED BY <1>4, <1>5, <1>6, TradeKeepsTab

(* A trade that ends before it is submitted.                                *)
LEMMA EndsKeepsTab ==
    ASSUME TabInv, NEW t \in Trades, NEW result \in Results, Ends(t, result),
           trade[t].sender = None,
           UNCHANGED <<serverVars, storeVars, connected, link, switch, ticket>>
    PROVE  TabInv'
<1> DEFINE c == [[trade[t] EXCEPT !.at = "ended"] EXCEPT !.result = result]
<1>1. /\ trade[t] \in TradeCalls /\ trade \in [Trades -> TradeCalls]
      /\ TradeFits(t) /\ DeliveriesFit(t) /\ StoreTypeOK /\ SubmitTypeOK
  BY TradeIs
<1>2. trade' = [trade EXCEPT ![t] = c]
  BY <1>1 DEF Ends, TradeCalls
<1>3. c \in TradeCalls /\ c.at = "ended" /\ c.sender = None /\ c.answer = trade[t].answer
  BY <1>1 DEF TradeCalls
<1> HIDE DEF c
<1>4. trade[t].answer # "expired"
  BY <1>1 DEF TradeFits, DeliveriesFit
<1>5. /\ UNCHANGED <<linked, live, delivered, inHand, placing, placed>>
      /\ prepared' \subseteq Trades /\ ticket' \in Trades \cup {None}
  BY <1>1 DEF serverVars, submitVars, StoreTypeOK, SubmitTypeOK
<1> QED BY <1>2, <1>3, <1>4, <1>5, UnsentKeepsTab

LEMMA ClickKeepsTab == ASSUME TabInv, NEW t \in Trades, LiveTradeClick(t) PROVE TabInv'
<1>1. /\ trade[t] \in TradeCalls /\ trade \in [Trades -> TradeCalls]
      /\ TradeFits(t) /\ StoreTypeOK /\ SubmitTypeOK
  BY TradeIs
<1>2. /\ trade[t].at = "none" /\ RequireAuth # None /\ ticket' = t
      /\ UNCHANGED <<linked, live, delivered, inHand, placing, placed, storeVars, connected, link, switch>>
      /\ prepared' \subseteq Trades
  BY <1>1 DEF LiveTradeClick, LiveReady, serverVars, submitVars, SubmitTypeOK
<1>3. trade[t].sender = None
  BY <1>1, <1>2 DEF TradeFits
<1>4. CASE connected = None
  <2> DEFINE c == [NoTrade EXCEPT !.at = "ended", !.result = "SIGNING_FAILED"]
  <2>1. trade' = [trade EXCEPT ![t] = c]
    BY <1>4 DEF LiveTradeClick
  <2>2. c \in TradeCalls /\ c.at = "ended" /\ c.sender = None /\ c.answer # "expired"
    BY TerminalAssumption DEF NoTrade, TradeCalls, Users0, Wallets0, Results, Replies
  <2> HIDE DEF c
  <2> QED BY <1>2, <1>3, <2>1, <2>2, UnsentKeepsTab
<1>5. CASE connected # None
  <2> DEFINE c == [NoTrade EXCEPT !.at = "prepare", !.user = RequireAuth, !.client = connected]
  <2>1. trade' = [trade EXCEPT ![t] = c]
    BY <1>5 DEF LiveTradeClick
  <2>2. RequireAuth \in Users /\ connected \in Addresses
    BY <1>1, <1>2, <1>5 DEF RequireAuth, StoreTypeOK, Users0, Wallets0
  <2>3. /\ c \in TradeCalls /\ c.at = "prepare" /\ c.user \in Users
        /\ c.sender = None /\ c.answer # "expired"
    BY <2>2, TerminalAssumption DEF NoTrade, TradeCalls, Users0, Wallets0, Replies
  <2> HIDE DEF c
  <2> QED BY <1>2, <1>3, <2>1, <2>3, UnsentKeepsTab
<1> QED BY <1>4, <1>5

LEMMA PrepareKeepsTab == ASSUME TabInv, NEW t \in Trades, ServerPrepares(t) PROVE TabInv'
<1>1. /\ trade[t] \in TradeCalls /\ trade \in [Trades -> TradeCalls]
      /\ TradeFits(t) /\ DeliveriesFit(t) /\ StoreTypeOK /\ SubmitTypeOK
  BY TradeIs
<1>2. /\ trade[t].at = "prepare"
      /\ UNCHANGED <<linked, live, delivered, inHand, placing, placed, storeVars, connected, link, switch, ticket>>
  BY DEF ServerPrepares, bookVars
<1>3. trade[t].user \in Users /\ trade[t].sender = None /\ trade[t].answer # "expired"
  BY <1>1, <1>2 DEF TradeFits, DeliveriesFit
<1>4. CASE Ends(t, "PREPARE_REJECTED") /\ UNCHANGED prepared
  BY <1>2, <1>3, <1>4, EndsKeepsTab DEF Results, serverVars, submitVars
<1>5. ASSUME NEW a \in WalletsOf(trade[t].user), CompareWallet(t, a), prepared' = prepared \cup {t}
      PROVE  TabInv'
  <2>1. a \in Addresses /\ linked[a] = trade[t].user
    BY DEF WalletsOf
  <2>2. prepared' \subseteq Trades /\ ticket' \in Trades \cup {None}
    BY <1>1, <1>2, <1>5 DEF SubmitTypeOK, StoreTypeOK
  <2>3. CASE trade[t].client = a
    <3> DEFINE c == [trade[t] EXCEPT !.at = "sign", !.wallet = a]
    <3>1. trade' = [trade EXCEPT ![t] = c]
      BY <1>5, <2>3 DEF CompareWallet
    <3>2. /\ c \in TradeCalls /\ c.at = "sign" /\ c.wallet = a /\ c.client = a
          /\ c.user = trade[t].user /\ c.sender = None /\ c.answer = trade[t].answer
      BY <1>1, <1>3, <2>1, <2>3 DEF TradeCalls, Wallets0
    <3> HIDE DEF c
    <3> QED BY <1>2, <1>3, <2>1, <2>2, <3>1, <3>2, UnsentKeepsTab
  <2>4. CASE trade[t].client # a
    <3> DEFINE c == [trade[t] EXCEPT !.at = "ended", !.wallet = a, !.result = "WALLET_MISMATCH"]
    <3>1. trade' = [trade EXCEPT ![t] = c]
      BY <1>5, <2>4 DEF CompareWallet
    <3>2. c \in TradeCalls /\ c.at = "ended" /\ c.sender = None /\ c.answer = trade[t].answer
      BY <1>1, <1>3, <2>1 DEF TradeCalls, Wallets0, Results
    <3> HIDE DEF c
    <3> QED BY <1>2, <1>3, <2>2, <3>1, <3>2, UnsentKeepsTab
  <2> QED BY <2>3, <2>4
<1> QED BY <1>4, <1>5 DEF ServerPrepares

(* The call of submit.                                                      *)
LEMMA SignKeepsTab == ASSUME TabInv, NEW t \in Trades, SignOrder(t) PROVE TabInv'
<1>1. /\ trade[t] \in TradeCalls /\ trade \in [Trades -> TradeCalls]
      /\ TradeFits(t) /\ DeliveriesFit(t) /\ StoreTypeOK /\ SubmitTypeOK
  BY TradeIs
<1>2. trade[t].at = "sign" /\ UNCHANGED <<serverVars, storeVars, connected, link, switch, ticket>>
  BY DEF SignOrder
<1>3. trade[t].sender = None /\ delivered[t] = 0 /\ ~OnItsWay(t) /\ trade[t].answer # "expired"
  BY <1>1, <1>2 DEF TradeFits, DeliveriesFit
<1>4. CASE \E result \in Results : Ends(t, result)
  BY <1>2, <1>3, <1>4, EndsKeepsTab
<1>5. CASE session # None /\ trade' = [trade EXCEPT ![t].at = "submit", ![t].sender = session]
  <2> DEFINE c == [[trade[t] EXCEPT !.at = "submit"] EXCEPT !.sender = session]
  <2>1. trade' = [trade EXCEPT ![t] = c]
    BY <1>1, <1>5 DEF TradeCalls
  <2>2. /\ c \in TradeCalls /\ c.at = "submit" /\ c.wallet = trade[t].wallet
        /\ c.user = trade[t].user /\ c.client = trade[t].client /\ c.sender = session
        /\ c.answer = trade[t].answer
    BY <1>1 DEF TradeCalls, StoreTypeOK
  <2> HIDE DEF c
  <2>3. trade'[t] = c
    BY <1>1, <2>1
  <2>4. /\ UNCHANGED <<linked, live, delivered, inHand, placing, placed>>
        /\ SubmitTypeOK' /\ ticket' \in Trades \cup {None}
    BY <1>1, <1>2 DEF serverVars, submitVars, StoreTypeOK, SubmitTypeOK
  <2>5. TradeFits(t)'
    BY <1>1, <1>2, <1>5, <2>2, <2>3, <2>4 DEF TradeFits
  <2>6. DeliveriesFit(t)'
    BY <1>1, <1>3, <2>2, <2>3, <2>4 DEF DeliveriesFit, OnItsWay
  <2> QED BY <1>2, <2>1, <2>2, <2>4, <2>5, <2>6, TradeKeepsTab
<1>6. {"SUBMIT_FAILED", "SIGNATURE_DECLINED", "SIGNING_FAILED"} \subseteq Results
  BY DEF Results
<1> QED BY <1>4, <1>5, <1>6 DEF SignOrder

(* An answer, taken or not: what it changes of a trade that was sent.       *)
AnsweredAs(t, c, answer) ==
    /\ c \in TradeCalls /\ trade' = [trade EXCEPT ![t] = c] /\ trade'[t] = c
    /\ c.user = trade[t].user /\ c.client = trade[t].client /\ c.wallet = trade[t].wallet
    /\ c.sender = trade[t].sender
    /\ \/ c = trade[t]
       \/ c.at = "ended" /\ c.answer = answer /\ c.result = ReadsAs(answer)

LEMMA AnswerIs ==
    ASSUME TabInv, NEW t \in Trades, NEW answer \in Replies, Answered(t, answer)
    PROVE  \E c \in TradeCalls : AnsweredAs(t, c, answer)
<1>1. trade[t] \in TradeCalls /\ trade \in [Trades -> TradeCalls]
  BY TradeIs
<1>2. CASE UNCHANGED trade
  <2>1. trade' = [trade EXCEPT ![t] = trade[t]] /\ trade'[t] = trade[t]
    BY <1>1, <1>2
  <2> QED BY <1>1, <2>1 DEF AnsweredAs
<1>3. CASE Takes(t, answer)
  <2> DEFINE c == [[[trade[t] EXCEPT !.at = "ended"] EXCEPT !.answer = answer] EXCEPT !.result = ReadsAs(answer)]
  <2>1. trade' = [trade EXCEPT ![t] = c]
    BY <1>1, <1>3 DEF Takes, TradeCalls
  <2>2. ReadsAs(answer) \in Results
    BY DEF ReadsAs, Results
  <2>3. /\ c \in TradeCalls /\ c.at = "ended" /\ c.answer = answer /\ c.result = ReadsAs(answer)
        /\ c.user = trade[t].user /\ c.client = trade[t].client /\ c.wallet = trade[t].wallet
        /\ c.sender = trade[t].sender
    BY <1>1, <2>2 DEF TradeCalls
  <2> HIDE DEF c
  <2>4. trade'[t] = c
    BY <1>1, <2>1
  <2> QED BY <2>1, <2>3, <2>4 DEF AnsweredAs
<1> QED BY <1>2, <1>3 DEF Answered

(* Of a trade that was sent, an answer leaves everything as it fits but for *)
(* one that reads as expired, which needs a look at what is on its way.     *)
LEMMA AnswerFits ==
    ASSUME TabInv, NEW t \in Trades, trade[t].sender # None,
           NEW answer \in Replies, NEW c \in TradeCalls, AnsweredAs(t, c, answer),
           UNCHANGED <<linked, live>>
    PROVE  /\ TradeFits(t)'
           /\ c.at = "submit" => c.answer # "expired"
           /\ c.at = "ended" => \/ c.result = "SUBMIT_FAILED"
                                \/ c.result = "PREPARE_EXPIRED" /\ c.answer = "expired"
           /\ c.answer = "expired" => answer = "expired" \/ trade[t].answer = "expired"
<1>1. TradeFits(t) /\ DeliveriesFit(t)
  BY TradeIs
<1> QED BY <1>1 DEF AnsweredAs, TradeFits, DeliveriesFit, ReadsAs

LEMMA ArrivesKeepsTab == ASSUME TabInv, NEW t \in Trades, SubmitArrives(t) PROVE TabInv'
<1>1. TradeFits(t) /\ DeliveriesFit(t) /\ StoreTypeOK /\ SubmitTypeOK
  BY TradeIs
<1>2. /\ trade[t].sender # None /\ delivered[t] < MaxDeliveries
      /\ delivered' = [delivered EXCEPT ![t] = @ + 1]
      /\ UNCHANGED <<linked, live, prepared, placing, placed, storeVars, connected, link, switch, ticket>>
  BY DEF SubmitArrives, bookVars
<1>3. /\ delivered[t] \in Nat /\ inHand[t] \in Nat /\ delivered'[t] = delivered[t] + 1
      /\ delivered' \in [Trades -> 0..MaxDeliveries]
      /\ \A q \in Trades \ {t} : delivered'[q] = delivered[q]
      /\ ticket' \in Trades \cup {None}
  BY <1>1, <1>2, TerminalAssumption DEF SubmitTypeOK, StoreTypeOK
<1>4. CASE Answered(t, "expired") /\ UNCHANGED inHand
  <2>1. PICK c \in TradeCalls : AnsweredAs(t, c, "expired")
    BY <1>4, AnswerIs DEF Replies
  <2>2. /\ TradeFits(t)' /\ (c.at = "submit" => c.answer # "expired")
        /\ c.at = "ended" => \/ c.result = "SUBMIT_FAILED"
                             \/ c.result = "PREPARE_EXPIRED" /\ c.answer = "expired"
        /\ trade' = [trade EXCEPT ![t] = c] /\ trade'[t] = c
        /\ c.user = trade[t].user /\ c.sender = trade[t].sender
    BY <1>2, <2>1, AnswerFits DEF AnsweredAs, Replies
  <2>3. delivered[t] = 0 => ~OnItsWay(t)
    BY <1>1 DEF DeliveriesFit
  <2>4. DeliveriesFit(t)'
    BY <1>1, <1>2, <1>3, <1>4, <2>2, <2>3 DEF DeliveriesFit, OnItsWay
  <2>5. SubmitTypeOK'
    BY <1>1, <1>2, <1>3, <1>4 DEF SubmitTypeOK
  <2> QED BY <1>2, <1>3, <1>4, <2>2, <2>4, <2>5, TradeKeepsTab
<1>5. CASE inHand' = [inHand EXCEPT ![t] = @ + 1] /\ UNCHANGED trade
  <2>1. trade' = [trade EXCEPT ![t] = trade[t]] /\ trade[t] \in TradeCalls
    BY <1>5, TradeIs
  <2>2. /\ inHand'[t] = inHand[t] + 1 /\ inHand' \in [Trades -> 0..MaxDeliveries]
        /\ \A q \in Trades \ {t} : inHand'[q] = inHand[q]
    BY <1>1, <1>2, <1>3, <1>5, TerminalAssumption DEF SubmitTypeOK, DeliveriesFit
  <2>3. TradeFits(t)'
    BY <1>1, <1>2, <1>5 DEF TradeFits
  <2>4. DeliveriesFit(t)'
    BY <1>1, <1>2, <1>3, <1>5, <2>2 DEF DeliveriesFit, OnItsWay
  <2>5. SubmitTypeOK'
    BY <1>1, <1>2, <1>3, <2>2 DEF SubmitTypeOK
  <2> QED BY <1>2, <1>3, <2>1, <2>2, <2>3, <2>4, <2>5, TradeKeepsTab
<1> QED BY <1>4, <1>5 DEF SubmitArrives

LEMMA CheckedKeepsTab == ASSUME TabInv, NEW t \in Trades, SubmitChecked(t) PROVE TabInv'
<1>1. TradeFits(t) /\ DeliveriesFit(t) /\ StoreTypeOK /\ SubmitTypeOK
  BY TradeIs
<1>2. /\ inHand[t] > 0 /\ inHand' = [inHand EXCEPT ![t] = @ - 1] /\ prepared' = prepared \ {t}
      /\ UNCHANGED <<linked, live, delivered, placed, storeVars, connected, link, switch, ticket>>
  BY DEF SubmitChecked, bookVars
<1>3. /\ delivered[t] \in Nat /\ inHand[t] \in Nat /\ inHand'[t] = inHand[t] - 1
      /\ inHand' \in [Trades -> 0..MaxDeliveries]
      /\ \A q \in Trades \ {t} : inHand'[q] = inHand[q]
      /\ ticket' \in Trades \cup {None} /\ prepared' \subseteq Trades
  BY <1>1, <1>2, TerminalAssumption DEF SubmitTypeOK, StoreTypeOK
<1>4. OnItsWay(t) /\ delivered[t] > 0 /\ trade[t].sender # None
  BY <1>1, <1>2, <1>3 DEF OnItsWay, DeliveriesFit, TradeFits
<1>5. ASSUME NEW answer \in Replies, Answered(t, answer), UNCHANGED placing,
             answer = "expired" => t \in placing
      PROVE  TabInv'
  <2>1. PICK c \in TradeCalls : AnsweredAs(t, c, answer)
    BY <1>5, AnswerIs
  <2>2. /\ TradeFits(t)' /\ (c.at = "submit" => c.answer # "expired")
        /\ c.at = "ended" => \/ c.result = "SUBMIT_FAILED"
                             \/ c.result = "PREPARE_EXPIRED" /\ c.answer = "expired"
        /\ c.answer = "expired" => answer = "expired" \/ trade[t].answer = "expired"
        /\ trade' = [trade EXCEPT ![t] = c] /\ trade'[t] = c
        /\ c.user = trade[t].user /\ c.sender = trade[t].sender
    BY <1>2, <1>4, <2>1, AnswerFits DEF AnsweredAs
  <2>3. delivered[t] = 1 => t \notin placing /\ t \notin placed /\ trade[t].answer # "expired"
    BY <1>1, <1>2, <1>4 DEF DeliveriesFit
  <2>4. DeliveriesFit(t)'
    BY <1>1, <1>2, <1>3, <1>4, <1>5, <2>2, <2>3 DEF DeliveriesFit, OnItsWay
  <2>5. SubmitTypeOK'
    BY <1>1, <1>2, <1>3, <1>5 DEF SubmitTypeOK
  <2> QED BY <1>2, <1>3, <1>5, <2>2, <2>4, <2>5, TradeKeepsTab
<1>6. CASE OwnOrder(t) /\ placing' = placing \cup {t} /\ UNCHANGED trade
  <2>1. trade' = [trade EXCEPT ![t] = trade[t]] /\ trade[t] \in TradeCalls
    BY <1>6, TradeIs
  <2>2. delivered[t] = 1 => inHand'[t] = 0
    BY <1>1, <1>3 DEF DeliveriesFit
  <2>3. DeliveriesFit(t)'
    BY <1>1, <1>2, <1>3, <1>4, <1>6, <2>2 DEF DeliveriesFit, OnItsWay, OwnOrder
  <2>4. TradeFits(t)'
    BY <1>1, <1>2, <1>6 DEF TradeFits
  <2>5. SubmitTypeOK' /\ \A q \in Trades \ {t} : q \in placing' <=> q \in placing
    BY <1>1, <1>2, <1>3, <1>6 DEF SubmitTypeOK
  <2> QED BY <1>2, <1>3, <2>1, <2>3, <2>4, <2>5, TradeKeepsTab
<1>7. {"error", "expired", "200"} \subseteq Replies /\ "error" # "expired" /\ "200" # "expired"
  BY DEF Replies
<1> QED BY <1>5, <1>6, <1>7 DEF SubmitChecked

LEMMA PlacedKeepsTab == ASSUME TabInv, NEW t \in Trades, SubmitPlaced(t) PROVE TabInv'
<1>1. TradeFits(t) /\ DeliveriesFit(t) /\ StoreTypeOK /\ SubmitTypeOK
  BY TradeIs
<1>2. PICK answer \in {"200", "error"} :
        /\ t \in placing /\ placing' = placing \ {t}
        /\ placed' = placed \/ placed' = placed \cup {t}
        /\ Answered(t, answer)
        /\ UNCHANGED <<linked, live, prepared, delivered, inHand, storeVars, connected, link, switch, ticket>>
  BY DEF SubmitPlaced, bookVars
<1>3. /\ OnItsWay(t) /\ delivered[t] # 0 /\ trade[t].sender # None
      /\ trade[t].user = trade[t].sender
  BY <1>1, <1>2 DEF OnItsWay, DeliveriesFit, TradeFits
<1>4. PICK c \in TradeCalls : AnsweredAs(t, c, answer)
  BY <1>2, AnswerIs DEF Replies
<1>5. /\ TradeFits(t)' /\ (c.at = "submit" => c.answer # "expired")
      /\ c.at = "ended" => \/ c.result = "SUBMIT_FAILED"
                           \/ c.result = "PREPARE_EXPIRED" /\ c.answer = "expired"
      /\ c.answer = "expired" => trade[t].answer = "expired"
      /\ trade' = [trade EXCEPT ![t] = c] /\ trade'[t] = c
      /\ c.user = trade[t].user /\ c.sender = trade[t].sender
  BY <1>2, <1>3, <1>4, AnswerFits DEF AnsweredAs, Replies
<1>6. DeliveriesFit(t)'
  BY <1>1, <1>2, <1>3, <1>5 DEF DeliveriesFit, OnItsWay
<1>7. /\ SubmitTypeOK' /\ ticket' \in Trades \cup {None}
      /\ \A q \in Trades \ {t} : (q \in placing' <=> q \in placing) /\ (q \in placed' <=> q \in placed)
  BY <1>1, <1>2 DEF SubmitTypeOK, StoreTypeOK
<1> QED BY <1>2, <1>5, <1>6, <1>7, TradeKeepsTab

LEMMA FailsKeepsTab == ASSUME TabInv, NEW t \in Trades, SubmitFails(t) PROVE TabInv'
<1>1. TradeFits(t) /\ DeliveriesFit(t) /\ StoreTypeOK /\ SubmitTypeOK
  BY TradeIs
<1>2. /\ trade[t].at = "submit" /\ Answered(t, "error")
      /\ UNCHANGED <<linked, live, prepared, delivered, inHand, placing, placed>>
      /\ UNCHANGED <<storeVars, connected, link, switch, ticket>>
  BY DEF SubmitFails, Takes, Answered, serverVars, submitVars
<1>3. trade[t].sender # None /\ trade[t].answer # "expired"
  BY <1>1, <1>2 DEF TradeFits, DeliveriesFit
<1>4. PICK c \in TradeCalls : AnsweredAs(t, c, "error")
  BY <1>2, AnswerIs DEF Replies
<1>5. /\ TradeFits(t)' /\ (c.at = "submit" => c.answer # "expired")
      /\ c.at = "ended" => \/ c.result = "SUBMIT_FAILED"
                           \/ c.result = "PREPARE_EXPIRED" /\ c.answer = "expired"
      /\ c.answer = "expired" => trade[t].answer = "expired"
      /\ trade' = [trade EXCEPT ![t] = c] /\ trade'[t] = c
      /\ c.user = trade[t].user /\ c.sender = trade[t].sender
  BY <1>2, <1>3, <1>4, AnswerFits DEF AnsweredAs, Replies
<1>6. DeliveriesFit(t)'
  BY <1>1, <1>2, <1>3, <1>5 DEF DeliveriesFit, OnItsWay
<1>7. SubmitTypeOK' /\ ticket' \in Trades \cup {None}
  BY <1>1, <1>2 DEF SubmitTypeOK, StoreTypeOK
<1> QED BY <1>2, <1>5, <1>6, <1>7, TradeKeepsTab

LEMMA LeaveKeepsTab ==
    ASSUME TabInv, LeaveTicket \/ (\E t \in Trades : PreparedExpires(t)) \/ UNCHANGED termVars
    PROVE  TabInv'
<1>1. /\ UNCHANGED <<linked, live, delivered, inHand, placing, placed>>
      /\ UNCHANGED <<session, expired, shownWallet, shownLive, foreign, connected, link, switch, trade>>
      /\ ticket' \in Trades \cup {None} /\ prepared' \subseteq prepared
  BY StoreTypes DEF StoreTypeOK, LeaveTicket, PreparedExpires, bookVars, serverVars, submitVars, storeVars, termVars
<1>2. BookTypeOK' /\ LinkedStays
  BY <1>1, SameBook, StoreTypes
<1>3. StoreTypeOK' /\ SubmitTypeOK'
  BY <1>1, StoreTypes DEF StoreTypeOK, SubmitTypeOK, Wallets0, Users0
<1>4. TerminalTypeOK'
  BY <1>1, <1>2, <1>3, CallTypes, CallTypesNext DEF TabInv
<1>5. \A t \in Trades : TradeFits(t)' /\ DeliveriesFit(t)'
  BY <1>1, <1>2, TradesStay DEF TabInv
<1> QED BY <1>1, <1>4, <1>5 DEF TabInv, CallsFit, ShownWalletIsOwn

LEMMA InitTabInv == ASSUME TerminalInit PROVE TabInv
<1>1. BookTypeOK
  BY DEF TerminalInit, BookInit, BookTypeOK
<1>2. StoreTypeOK /\ SubmitTypeOK
  <2>1. 0 \in 0..MaxDeliveries
    BY TerminalAssumption
  <2>2. StoreTypeOK
    BY DEF TerminalInit, StoreTypeOK, Users0, Wallets0
  <2>3. SubmitTypeOK
    BY <2>1 DEF TerminalInit, SubmitTypeOK
  <2> QED BY <2>2, <2>3
<1>3. TerminalTypeOK
  BY <1>1, <1>2, IdleCalls, CallTypes DEF TerminalInit
<1>4. \A t \in Trades : TradeFits(t) /\ DeliveriesFit(t)
  BY TerminalAssumption DEF TerminalInit, NoTrade, Replies, TradeFits, DeliveriesFit, OnItsWay
<1> QED BY <1>3, <1>4, IdleCalls DEF TerminalInit, TabInv, CallsFit, ShownWalletIsOwn

LEMMA NextTabInv == ASSUME TabInv, [TerminalNext]_termVars PROVE TabInv'
BY SessionKeepsTab, ReloadKeepsTab, LinkKeepsTab, SwitchKeepsTab, ClickKeepsTab, PrepareKeepsTab,
   SignKeepsTab, ArrivesKeepsTab, CheckedKeepsTab, PlacedKeepsTab, FailsKeepsTab, LeaveKeepsTab
   DEF TerminalNext

(* SessionsApart: an order is the order of the account that clicked, and of *)
(* a wallet it has verified; and the wallet on display is the account's, but*)
(* for a late answer to a link, for any number of accounts and trades.      *)
THEOREM SessionsApartHolds == TerminalSpec => []SessionsApart
<1>1. TabInv => OrderIsClickers
  <2> SUFFICES ASSUME TabInv, NEW t \in placed
               PROVE  /\ trade[t].sender = trade[t].user /\ trade[t].client = trade[t].wallet
                      /\ linked[trade[t].wallet] = trade[t].user
    BY DEF OrderIsClickers
  <2>1. t \in Trades
    BY StoreTypes DEF SubmitTypeOK
  <2>2. TradeFits(t) /\ DeliveriesFit(t) /\ delivered[t] # 0
    BY <2>1 DEF TabInv, DeliveriesFit, OnItsWay
  <2> QED BY <2>2 DEF TradeFits, DeliveriesFit
<1>2. TabInv => SessionsApart
  BY <1>1 DEF SessionsApart, TabInv
<1> QED BY <1>2, InitTabInv, NextTabInv, PTL DEF TerminalSpec

(* NothingPlacedWhenToldSo: a ticket that says nothing was placed is right, *)
(* and one that says the order expired is, of a submit delivered once.      *)
THEOREM NothingPlacedHolds == TerminalSpec => []NothingPlacedWhenToldSo
<1>1. TabInv => NothingPlacedWhenToldSo
  <2> SUFFICES ASSUME TabInv, NEW t \in Trades, trade[t].at = "ended", t \in placed, ~ToldOfTheOther(t)
               PROVE  /\ LiveResultBanner(trade[t].result) = "failed"
                      /\ trade[t].result # "SIGNING_FAILED"
    BY DEF NothingPlacedWhenToldSo
  <2>1. TradeFits(t) /\ DeliveriesFit(t) /\ OnItsWay(t) /\ delivered[t] \in Nat
    BY StoreTypes DEF TabInv, OnItsWay, SubmitTypeOK
  <2>2. delivered[t] > 0 /\ trade[t].sender # None
    BY <2>1 DEF DeliveriesFit, TradeFits
  <2>3. trade[t].result = "PREPARE_EXPIRED" => delivered[t] = 1 /\ trade[t].answer # "expired"
    BY <2>1, <2>2 DEF DeliveriesFit, ToldOfTheOther
  <2>4. trade[t].result = "SUBMIT_FAILED"
    BY <2>1, <2>2, <2>3 DEF DeliveriesFit
  <2> QED BY <2>4 DEF LiveResultBanner
<1> QED BY <1>1, InitTabInv, NextTabInv, PTL DEF TerminalSpec

-----------------------------------------------------------------------------
(***************************************************************************)
(* Backtester, with Replay, Features and BacktestMetrics: in this order,   *)
(* sums; the replay; the fills; the invariant, and what every step keeps   *)
(* of it; what it says of the portfolio, of the past and of the result.    *)
(***************************************************************************)
HIDE RiskConfigAssumption

(***************************************************************************)
(* More about sums: a term may be taken out in any order, a sum depends on *)
(* the terms alone, and one term more adds itself.                         *)
(***************************************************************************)
AnyTerm(S, f, g, k) ==
    \A u \in SUBSET S : Cardinality(u) <= k => \A x \in u : g[u] = f[x] + g[u \ {x}]

LEMMA AnyTermOfMore ==
    ASSUME NEW S, IsFiniteSet(S), NEW f \in [S -> Int], NEW g, Sums(f, S, g),
           NEW k \in Nat, AnyTerm(S, f, g, k)
    PROVE  AnyTerm(S, f, g, k + 1)
<1> SUFFICES ASSUME NEW u \in SUBSET S, Cardinality(u) <= k + 1, NEW x \in u
             PROVE  g[u] = f[x] + g[u \ {x}]
  BY DEF AnyTerm
<1>1. PICK z \in u : g[u] = f[z] + g[u \ {z}]
  BY FirstOf DEF Sums
<1>2. CASE x = z
  BY <1>1, <1>2
<1>3. CASE x # z
  <2> DEFINE w == (u \ {z}) \ {x}
  <2>1. w = (u \ {x}) \ {z}
    OBVIOUS
  <2>2. /\ Cardinality(u \ {z}) <= k /\ Cardinality(u \ {x}) <= k
        /\ u \ {z} \in SUBSET S /\ u \ {x} \in SUBSET S
    <3>1. IsFiniteSet(u) /\ Cardinality(u) \in Nat
      BY FS_Subset, FS_CardinalityType
    <3>2. /\ Cardinality(u \ {z}) = Cardinality(u) - 1
          /\ Cardinality(u \ {x}) = Cardinality(u) - 1
      BY <3>1, FS_RemoveElement
    <3> QED BY <3>1, <3>2
  <2>3. g[u \ {z}] = f[x] + g[w] /\ g[u \ {x}] = f[z] + g[w]
    BY <1>3, <2>1, <2>2 DEF AnyTerm
  <2>4. f[x] \in Int /\ f[z] \in Int /\ g[w] \in Int
    BY DEF Sums
  <2> HIDE DEF w
  <2> QED BY <1>1, <2>3, <2>4
<1> QED BY <1>2, <1>3

LEMMA SumAnyTerm ==
    ASSUME NEW S, IsFiniteSet(S), NEW f \in [S -> Int], NEW g, Sums(f, S, g)
    PROVE  \A s \in SUBSET S : \A y \in s : g[s] = f[y] + g[s \ {y}]
<1> SUFFICES ASSUME NEW s \in SUBSET S, NEW y \in s PROVE g[s] = f[y] + g[s \ {y}]
  OBVIOUS
<1> DEFINE P == {k \in Nat : AnyTerm(S, f, g, k)}
<1>1. 0 \in P
  <2>1. ASSUME NEW u \in SUBSET S, Cardinality(u) <= 0 PROVE u = {}
    <3>1. Cardinality(u) \in Nat /\ (Cardinality(u) = 0 <=> u = {})
      BY WithoutFirst
    <3> QED BY <2>1, <3>1
  <2> HIDE DEF P
  <2>2. AnyTerm(S, f, g, 0)
    <3> SUFFICES ASSUME NEW u \in SUBSET S, Cardinality(u) <= 0
                 PROVE  \A x \in u : g[u] = f[x] + g[u \ {x}]
      BY DEF AnyTerm
    <3> QED BY <2>1
  <2> QED BY <2>2 DEF P
<1>2. ASSUME NEW k \in P PROVE k + 1 \in P
  BY AnyTermOfMore
<1>3. P = Nat
  <2>1. P \in SUBSET Nat
    OBVIOUS
  <2> HIDE DEF P
  <2> QED BY <1>1, <1>2, <2>1, EveryNumber
<1>4. Cardinality(s) \in Nat
  BY FS_Subset, FS_CardinalityType
<1>5. AnyTerm(S, f, g, Cardinality(s))
  BY <1>3, <1>4
<1>6. Cardinality(s) <= Cardinality(s)
  BY <1>4
<1> QED BY <1>5, <1>6 DEF AnyTerm

LEMMA SumAgrees ==
    ASSUME NEW S, IsFiniteSet(S), NEW f \in [S -> Int], NEW g, Sums(f, S, g),
           NEW T, IsFiniteSet(T), NEW f2 \in [T -> Int], NEW g2, Sums(f2, T, g2),
           NEW U, U \subseteq S, U \subseteq T, \A x \in U : f[x] = f2[x]
    PROVE  g[U] = g2[U]
<1> DEFINE P == {s \in SUBSET U : g[s] = g2[s]}
<1>1. {} \in P
  BY DEF Sums
<1>2. ASSUME NEW s \in SUBSET U, s # {}, s \ {First(s)} \in P PROVE s \in P
  <2>1. First(s) \in U
    BY <1>2, FirstOf
  <2>2. g[s] = f[First(s)] + g[s \ {First(s)}] /\ g2[s] = f2[First(s)] + g2[s \ {First(s)}]
    BY <1>2 DEF Sums
  <2> QED BY <1>2, <2>1, <2>2
<1>3. P = SUBSET U
  <2>1. P \in SUBSET (SUBSET U) /\ IsFiniteSet(U)
    BY FS_Subset
  <2> HIDE DEF P
  <2> QED BY <1>1, <1>2, <2>1, EverySubset
<1> QED BY <1>3

LEMMA SumOfNone ==
    ASSUME NEW f \in [{} -> Int]
    PROVE  SumFunction(f) = 0
<1>1. PICK g : Sums(f, {}, g)
  BY FS_EmptySet, SumOf
<1> QED BY <1>1 DEF Sums

OneMore(S, f, x, T, f2) ==
    /\ f \in [S -> Int] /\ x \notin S
    /\ T = S \cup {x} /\ f2 \in [T -> Int]
    /\ \A y \in S : f2[y] = f[y]

LEMMA SumWithOneMore ==
    ASSUME NEW S, NEW f, NEW x, NEW T, NEW f2, IsFiniteSet(S), OneMore(S, f, x, T, f2)
    PROVE  SumFunction(f2) = SumFunction(f) + f2[x]
<1> USE DEF OneMore
<1>1. IsFiniteSet(T)
  BY FS_AddElement
<1>2. PICK g : Sums(f, S, g)
  BY SumOf
<1>3. PICK g2 : Sums(f2, T, g2)
  BY <1>1, SumOf
<1>4. g2[T] = f2[x] + g2[T \ {x}]
  <2>1. T \in SUBSET T /\ x \in T
    OBVIOUS
  <2> QED BY <1>1, <1>3, <2>1, SumAnyTerm
<1>5. T \ {x} = S
  OBVIOUS
<1>6. g2[S] = g[S]
  <2>1. S \subseteq S /\ S \subseteq T
    OBVIOUS
  <2> QED BY <1>1, <1>2, <1>3, <2>1, SumAgrees
<1>7. SumFunction(f) = g[S] /\ SumFunction(f2) = g2[T] /\ g[S] \in Int /\ f2[x] \in Int
  <2>1. f2[x] \in Int
    OBVIOUS
  <2>2. S \in SUBSET S
    OBVIOUS
  <2> QED BY <1>2, <1>3, <2>1, <2>2 DEF Sums
<1>8. g2[T] = f2[x] + g[S]
  BY <1>4, <1>5, <1>6
<1> QED BY <1>7, <1>8

LEMMA SumIsInteger ==
    ASSUME NEW S, IsFiniteSet(S), NEW f \in [S -> Int]
    PROVE  SumFunction(f) \in Int
<1>1. PICK g : Sums(f, S, g)
  BY SumOf
<1> QED BY <1>1 DEF Sums

(* A sum of natural numbers is no less than any of them, and zero only if   *)
(* all of them are.                                                         *)
LEMMA SumAtLeast ==
    ASSUME NEW S, IsFiniteSet(S), NEW f \in [S -> Nat], NEW x \in S
    PROVE  SumFunction(f) >= f[x]
<1> DEFINE f0 == [f EXCEPT ![x] = 0]
<1>1. f0 \in [S -> Nat] /\ f0[x] = 0 /\ \A y \in S \ {x} : f[y] = f0[y]
  OBVIOUS
<1> HIDE DEF f0
<1>2. f0 \in [S -> Int] /\ f \in [S -> Int]
  BY <1>1
<1>3. SumFunction(f) = SumFunction(f0) + (f[x] - f0[x])
  BY <1>1, <1>2, SumChange
<1>4. SumFunction(f0) \in Nat
  BY <1>1, SumIsNatural
<1>5. f[x] \in Nat
  OBVIOUS
<1> QED BY <1>1, <1>3, <1>4, <1>5

LEMMA SumOfZeros ==
    ASSUME NEW S, IsFiniteSet(S), NEW f, f \in [S -> Int], \A x \in S : f[x] = 0
    PROVE  SumFunction(f) = 0
<1>1. PICK g : Sums(f, S, g)
  BY SumOf
<1> DEFINE P == {s \in SUBSET S : g[s] = 0}
<1>2. {} \in P
  BY <1>1 DEF Sums
<1>3. ASSUME NEW s \in SUBSET S, s # {}, s \ {First(s)} \in P PROVE s \in P
  <2>1. First(s) \in S
    BY <1>3, FirstOf
  <2>2. g[s] = f[First(s)] + g[s \ {First(s)}]
    BY <1>1, <1>3 DEF Sums
  <2> QED BY <1>3, <2>1, <2>2
<1>4. P = SUBSET S
  <2>1. P \in SUBSET (SUBSET S)
    OBVIOUS
  <2> HIDE DEF P
  <2> QED BY <1>2, <1>3, <2>1, EverySubset
<1>5. S \in P
  BY <1>4
<1> QED BY <1>1, <1>5 DEF Sums

(* Of a sequence that is one longer.                                        *)
LEMMA SumOneLonger ==
    ASSUME NEW s \in Seq(Int), NEW t \in Seq(Int), Len(t) = Len(s) + 1,
           \A i \in 1..Len(s) : t[i] = s[i]
    PROVE  SumFunction(t) = SumFunction(s) + t[Len(t)]
<1> DEFINE n == Len(s)  m == Len(t)  S == 1..n  T == 1..m
<1>1. n \in Nat /\ s \in [S -> Int] /\ m = n + 1 /\ t \in [T -> Int]
  BY LenProperties
<1>2. IsFiniteSet(S)
  BY <1>1, FS_Interval
<1>3. m \notin S /\ T = S \cup {m}
  BY <1>1
<1>4. \A i \in S : t[i] = s[i]
  OBVIOUS
<1> HIDE DEF S, T, n, m
<1>5. OneMore(S, s, m, T, t)
  BY <1>1, <1>3, <1>4 DEF OneMore
<1>6. SumFunction(t) = SumFunction(s) + t[m]
  BY <1>2, <1>5, SumWithOneMore
<1> QED BY <1>6 DEF m

LEMMA SumAppend ==
    ASSUME NEW s \in Seq(Int), NEW x \in Int
    PROVE  SumFunction(Append(s, x)) = SumFunction(s) + x
<1>1. /\ Append(s, x) \in Seq(Int) /\ Len(Append(s, x)) = Len(s) + 1
      /\ \A i \in 1..Len(s) : Append(s, x)[i] = s[i]
      /\ Append(s, x)[Len(s) + 1] = x
  BY AppendProperties
<1>2. \A t \in Seq(Int) : Len(t) = Len(s) + 1 /\ (\A i \in 1..Len(s) : t[i] = s[i])
          => SumFunction(t) = SumFunction(s) + t[Len(t)]
  BY SumOneLonger
<1>3. SumFunction(Append(s, x)) = SumFunction(s) + Append(s, x)[Len(Append(s, x))]
  BY <1>1, <1>2
<1> QED BY <1>1, <1>3

-----------------------------------------------------------------------------
(***************************************************************************)
(* The replay: series in the order of time, and what is before an instant. *)
(***************************************************************************)
(* Of a series in the order of time, the items up to an instant are its     *)
(* first ones.                                                              *)
Sorted(s) == \A j, k \in DOMAIN s : j <= k => s[j].t <= s[k].t

CountAt(s, now) == Cardinality({k \in DOMAIN s : s[k].t <= now})

LEMMA Prefix ==
    ASSUME NEW n \in Nat, NEW D \in SUBSET (1..n), \A k \in D : \A j \in 1..k : j \in D
    PROVE  Cardinality(D) \in 0..n /\ D = 1..Cardinality(D)
<1>1. CASE D = 1..n
  <2>1. Cardinality(1..n) = n
    BY FS_Interval
  <2> QED BY <1>1, <2>1
<1>2. CASE D # 1..n
  <2> DEFINE C == {k \in 1..n : k \notin D}
  <2>1. C \in SUBSET (1..n) /\ C # {}
    BY <1>2
  <2>2. PICK p \in C : \A q \in C : p <= q
    <3> HIDE DEF C
    <3> QED BY <2>1, LeastElement
  <2>3. p - 1 \in Nat /\ p - 1 \in 0..n /\ D = 1..(p - 1)
    <3>1. p \in 1..n /\ p \notin D
      OBVIOUS
    <3>2. ASSUME NEW k \in D PROVE k \in 1..(p - 1)
      <4>1. k \in 1..n /\ ~(p \in 1..k)
        BY <3>1
      <4> QED BY <3>1, <4>1
    <3>3. ASSUME NEW k \in 1..(p - 1) PROVE k \in D
      <4>1. k \in 1..n /\ ~(p <= k)
        BY <3>1
      <4> QED BY <2>2, <4>1
    <3>4. D = 1..(p - 1)
      BY <3>2, <3>3
    <3> QED BY <3>1, <3>4
  <2>4. ASSUME NEW q \in Nat PROVE Cardinality(1..q) = q
    BY FS_Interval
  <2> QED BY <2>3, <2>4
<1> QED BY <1>1, <1>2

Counts(s, now, c) ==
    /\ Len(s) \in Nat /\ c \in 0..Len(s)
    /\ \A k \in 1..Len(s) : s[k].t <= now <=> k <= c

LEMMA CountIs ==
    ASSUME NEW X, \A x \in X : x.t \in Int, NEW s \in Seq(X), Sorted(s), NEW now \in Int
    PROVE  Counts(s, now, CountAt(s, now))
<1> DEFINE D == {k \in DOMAIN s : s[k].t <= now}
<1>1. Len(s) \in Nat /\ DOMAIN s = 1..Len(s) /\ \A k \in 1..Len(s) : s[k].t \in Int
  BY LenProperties, ElementOfSeq
<1>2. D \in SUBSET (1..Len(s))
  BY <1>1
<1>3. \A k \in D : \A j \in 1..k : j \in D
  BY <1>1 DEF Sorted
<1>4. Cardinality(D) \in 0..Len(s) /\ D = 1..Cardinality(D)
  <2> HIDE DEF D
  <2> QED BY <1>1, <1>2, <1>3, Prefix
<1>5. CountAt(s, now) = Cardinality(D)
  BY DEF CountAt
<1>6. \A k \in 1..Len(s) : s[k].t <= now <=> k \in D
  BY <1>1
<1> HIDE DEF D
<1> QED BY <1>1, <1>4, <1>5, <1>6 DEF Counts

(* The binary search finds where they end.                                  *)
Windows(s) == (0..Len(s)) \X (0..Len(s))

Probe(s, now, f, w) ==
    LET lo == w[1]  hi == w[2]  mid == (lo + hi) \div 2
    IN  IF lo >= hi THEN lo
        ELSE IF s[mid + 1].t <= now THEN f[<<mid + 1, hi>>]
        ELSE f[<<lo, mid>>]

Searches(s, now, f) == f = [w \in Windows(s) |-> Probe(s, now, f, w)]

LEMMA FilterIs ==
    ASSUME NEW s, NEW now
    PROVE  FilterAtOrBefore(s, now)
             = SubSeq(s, 1, (CHOOSE f : Searches(s, now, f))[<<0, Len(s)>>])
BY DEF FilterAtOrBefore, Searches, Windows, Probe

(* What a probe of a window answers, if c items are up to the instant.      *)
Within(c, w) == IF w[1] >= w[2] THEN w[1] ELSE Clamp(c, w[1], w[2])

LEMMA ProbeFinds ==
    ASSUME NEW s, NEW now, NEW c, Counts(s, now, c), NEW f,
           NEW w \in Windows(s),
           \A v \in Windows(s) : v[2] - v[1] < w[2] - w[1] => f[v] = Within(c, v)
    PROVE  Probe(s, now, f, w) = Within(c, w)
<1> DEFINE n == Len(s)  lo == w[1]  hi == w[2]  mid == (lo + hi) \div 2
<1>0. n \in Nat /\ c \in 0..n /\ \A k \in 1..n : s[k].t <= now <=> k <= c
  BY DEF Counts
<1>1. lo \in 0..n /\ hi \in 0..n
  BY DEF Windows
<1>2. CASE lo >= hi
  BY <1>2 DEF Probe, Within
<1>3. CASE lo < hi
  <2>1. mid \in 0..n /\ mid >= lo /\ mid < hi /\ mid + 1 \in 1..n
    BY <1>0, <1>1, <1>3
  <2>2. CASE s[mid + 1].t <= now
    <3>1. Probe(s, now, f, w) = f[<<mid + 1, hi>>]
      BY <1>1, <1>3, <2>2 DEF Probe
    <3>2. mid + 1 <= c
      BY <1>0, <2>1, <2>2
    <3>3. <<mid + 1, hi>> \in Windows(s) /\ hi - (mid + 1) < hi - lo
      BY <1>0, <1>1, <2>1 DEF Windows
    <3>4. f[<<mid + 1, hi>>] = Within(c, <<mid + 1, hi>>)
      BY <3>3
    <3> HIDE DEF mid
    <3> QED BY <1>0, <1>1, <1>3, <2>1, <3>1, <3>2, <3>4 DEF Within, Clamp
  <2>3. CASE ~(s[mid + 1].t <= now)
    <3>1. Probe(s, now, f, w) = f[<<lo, mid>>]
      BY <1>1, <1>3, <2>3 DEF Probe
    <3>2. ~(mid + 1 <= c)
      BY <1>0, <2>1, <2>3
    <3>3. <<lo, mid>> \in Windows(s) /\ mid - lo < hi - lo
      BY <1>0, <1>1, <2>1 DEF Windows
    <3>4. f[<<lo, mid>>] = Within(c, <<lo, mid>>)
      BY <3>3
    <3> HIDE DEF mid
    <3> QED BY <1>0, <1>1, <1>3, <2>1, <3>1, <3>2, <3>4 DEF Within, Clamp
  <2> QED BY <2>2, <2>3
<1> QED BY <1>1, <1>2, <1>3

LEMMA SearchFinds ==
    ASSUME NEW s, NEW now, NEW c, Counts(s, now, c), NEW f, Searches(s, now, f)
    PROVE  \A w \in Windows(s) : f[w] = Within(c, w)
<1> DEFINE n == Len(s)
           P == {d \in Nat : \A w \in Windows(s) : w[2] - w[1] < d => f[w] = Within(c, w)}
<1>0. \A w \in Windows(s) : f[w] = Probe(s, now, f, w)
  BY DEF Searches
<1>1. n \in Nat /\ \A w \in Windows(s) : w[1] \in 0..n /\ w[2] \in 0..n
  BY DEF Windows, Counts
<1>2. 0 \in P
  <2>1. ASSUME NEW w \in Windows(s), w[2] - w[1] < 0 PROVE f[w] = Within(c, w)
    <3>1. w[1] >= w[2]
      BY <1>1, <2>1
    <3> QED BY <1>0, <3>1 DEF Probe, Within
  <2> QED BY <2>1
<1>3. ASSUME NEW d \in P PROVE d + 1 \in P
  <2>1. ASSUME NEW w \in Windows(s), w[2] - w[1] < d + 1 PROVE f[w] = Within(c, w)
    <3>1. \A v \in Windows(s) : v[2] - v[1] < w[2] - w[1] => f[v] = Within(c, v)
      <4>1. ASSUME NEW v \in Windows(s), v[2] - v[1] < w[2] - w[1] PROVE v[2] - v[1] < d
        BY <1>1, <2>1, <4>1
      <4> QED BY <4>1
    <3>2. Probe(s, now, f, w) = Within(c, w)
      <4> HIDE DEF P
      <4> QED BY <3>1, ProbeFinds
    <3> QED BY <1>0, <3>2
  <2> QED BY <2>1
<1>4. P = Nat
  <2>1. P \in SUBSET Nat
    OBVIOUS
  <2> HIDE DEF P
  <2> QED BY <1>2, <1>3, <2>1, EveryNumber
<1>5. n + 1 \in P
  <2> HIDE DEF P
  <2> QED BY <1>1, <1>4
<1>6. \A w \in Windows(s) : w[2] - w[1] < n + 1
  BY <1>1
<1> QED BY <1>5, <1>6

LEMMA FilterIsPrefix ==
    ASSUME NEW X, \A x \in X : x.t \in Int, NEW s \in Seq(X), Sorted(s), NEW now \in Int
    PROVE  FilterAtOrBefore(s, now) = SubSeq(s, 1, CountAt(s, now))
<1> DEFINE n == Len(s)  c == CountAt(s, now)
           G == [w \in Windows(s) |-> Within(c, w)]
           F == CHOOSE f : Searches(s, now, f)
<1>1. Counts(s, now, c)
  BY CountIs
<1>2. Searches(s, now, G)
  <2>1. ASSUME NEW w \in Windows(s) PROVE Probe(s, now, G, w) = Within(c, w)
    <3>1. \A v \in Windows(s) : v[2] - v[1] < w[2] - w[1] => G[v] = Within(c, v)
      OBVIOUS
    <3> HIDE DEF G, c
    <3> QED BY <1>1, <3>1, ProbeFinds
  <2> QED BY <2>1 DEF Searches
<1>3. Searches(s, now, F)
  BY <1>2
<1>4. \A w \in Windows(s) : F[w] = Within(c, w)
  <2> HIDE DEF F, c, G
  <2> QED BY <1>1, <1>3, SearchFinds
<1>5. <<0, n>> \in Windows(s) /\ Within(c, <<0, n>>) = c
  <2> HIDE DEF c
  <2> QED BY <1>1 DEF Counts, Windows, Within, Clamp
<1>6. F[<<0, n>>] = c
  <2> HIDE DEF F, c, G
  <2> QED BY <1>4, <1>5
<1> QED BY <1>6, FilterIs

(* The sort by time: a place is the number of items that are not later, and *)
(* no two items have the same.                                              *)
Earlier(s, i, j) == s[i].t < s[j].t \/ (s[i].t = s[j].t /\ i < j)

Ahead(s, i) == {j \in DOMAIN s : Earlier(s, j, i)}

LEMMA PlacesDiffer ==
    ASSUME NEW X, \A x \in X : x.t \in Int, NEW s \in Seq(X)
    PROVE  /\ \A i \in 1..Len(s) : 1 + Cardinality(Ahead(s, i)) \in 1..Len(s)
           /\ \A i, j \in 1..Len(s) :
                 Earlier(s, i, j) => Cardinality(Ahead(s, i)) < Cardinality(Ahead(s, j))
           /\ \A i, j \in 1..Len(s) : i # j => Earlier(s, i, j) \/ Earlier(s, j, i)
<1> DEFINE n == Len(s)
<1>1. n \in Nat /\ DOMAIN s = 1..n /\ \A k \in 1..n : s[k].t \in Int
  BY LenProperties, ElementOfSeq
<1>2. IsFiniteSet(1..n) /\ Cardinality(1..n) = n
  <2>1. ASSUME NEW q \in Nat PROVE IsFiniteSet(1..q) /\ Cardinality(1..q) = q
    BY FS_Interval
  <2> HIDE DEF n
  <2> QED BY <1>1, <2>1
<1>3. ASSUME NEW i \in 1..n
      PROVE  /\ IsFiniteSet(Ahead(s, i)) /\ Cardinality(Ahead(s, i)) \in Nat
             /\ 1 + Cardinality(Ahead(s, i)) \in 1..n
  <2>1. Ahead(s, i) \in SUBSET ((1..n) \ {i})
    BY <1>1 DEF Ahead, Earlier
  <2>2. IsFiniteSet((1..n) \ {i}) /\ Cardinality((1..n) \ {i}) = n - 1
    BY <1>2, FS_RemoveElement
  <2>3. /\ IsFiniteSet(Ahead(s, i)) /\ Cardinality(Ahead(s, i)) <= n - 1
        /\ Cardinality(Ahead(s, i)) \in Nat
    BY <2>1, <2>2, FS_Subset, FS_CardinalityType
  <2> QED BY <1>1, <2>3
<1>4. ASSUME NEW i \in 1..n, NEW j \in 1..n, Earlier(s, i, j)
      PROVE  Cardinality(Ahead(s, i)) < Cardinality(Ahead(s, j))
  <2>1. Ahead(s, i) \in SUBSET Ahead(s, j)
    BY <1>1, <1>4 DEF Ahead, Earlier
  <2>2. i \in Ahead(s, j) /\ i \notin Ahead(s, i)
    BY <1>1, <1>4 DEF Ahead, Earlier
  <2>3. /\ Cardinality(Ahead(s, i)) <= Cardinality(Ahead(s, j))
        /\ Cardinality(Ahead(s, i)) # Cardinality(Ahead(s, j))
    BY <1>3, <2>1, <2>2, FS_Subset
  <2> QED BY <1>3, <2>3
<1>5. ASSUME NEW i \in 1..n, NEW j \in 1..n, i # j
      PROVE  Earlier(s, i, j) \/ Earlier(s, j, i)
  BY <1>1, <1>5 DEF Earlier
<1> QED BY <1>3, <1>4, <1>5

At(s, k) == CHOOSE i \in DOMAIN s : 1 + Cardinality(Ahead(s, i)) = k

LEMMA ChronologicalIs ==
    ASSUME NEW s
    PROVE  Chronological(s) = [k \in DOMAIN s |-> s[At(s, k)]]
BY DEF Chronological, At, Ahead, Earlier

LEMMA PlacesAreTaken ==
    ASSUME NEW X, \A x \in X : x.t \in Int, NEW s \in Seq(X), NEW k \in 1..Len(s)
    PROVE  At(s, k) \in 1..Len(s) /\ 1 + Cardinality(Ahead(s, At(s, k))) = k
<1> DEFINE D == 1..Len(s)
           place == [i \in D |-> 1 + Cardinality(Ahead(s, i))]
<1>1. DOMAIN s = D /\ IsFiniteSet(D)
  BY LenProperties, FS_Interval
<1>2. place \in [D -> D]
  BY PlacesDiffer
<1>3. ASSUME NEW i \in D, NEW j \in D, place[i] = place[j] PROVE i = j
  <2>1. \A h \in D : Cardinality(Ahead(s, h)) \in Nat
    <3>1. ASSUME NEW h \in D PROVE IsFiniteSet(Ahead(s, h))
      <4>1. Ahead(s, h) \in SUBSET D
        BY <1>1 DEF Ahead
      <4> QED BY <1>1, <4>1, FS_Subset
    <3> QED BY <3>1, FS_CardinalityType
  <2>2. Cardinality(Ahead(s, i)) = Cardinality(Ahead(s, j))
    BY <1>3, <2>1
  <2>3. /\ \A g, h \in D : Earlier(s, g, h) => Cardinality(Ahead(s, g)) < Cardinality(Ahead(s, h))
        /\ \A g, h \in D : g # h => Earlier(s, g, h) \/ Earlier(s, h, g)
    BY PlacesDiffer
  <2> HIDE DEF D, place
  <2> QED BY <2>1, <2>2, <2>3
<1>4. \E i \in D : place[i] = k
  <2> SUFFICES ASSUME ~(\E i \in D : place[i] = k) PROVE FALSE
    OBVIOUS
  <2>1. place \in [D -> D \ {k}]
    BY <1>2
  <2>2. IsFiniteSet(D \ {k}) /\ Cardinality(D \ {k}) < Cardinality(D)
    <3>1. k \in D /\ Cardinality(D) \in Nat
      BY <1>1, FS_CardinalityType
    <3> HIDE DEF D
    <3>2. IsFiniteSet(D \ {k}) /\ Cardinality(D \ {k}) = Cardinality(D) - 1
      BY <1>1, <3>1, FS_RemoveElement
    <3> QED BY <3>1, <3>2
  <2>3. \E i, j \in D : i # j /\ place[i] = place[j]
    <3> HIDE DEF place, D
    <3> QED BY <1>1, <2>1, <2>2, FS_PigeonHole
  <2> QED BY <1>3, <2>3
<1>5. PICK i \in D : place[i] = k
  BY <1>4
<1> QED BY <1>1, <1>5 DEF At

LEMMA ChronologicalSorts ==
    ASSUME NEW X, \A x \in X : x.t \in Int, NEW s \in Seq(X)
    PROVE  /\ Chronological(s) \in Seq(X) /\ Len(Chronological(s)) = Len(s)
           /\ Sorted(Chronological(s))
<1> DEFINE n == Len(s)  c == Chronological(s)
<1>1. n \in Nat /\ DOMAIN s = 1..n /\ \A k \in 1..n : s[k] \in X /\ s[k].t \in Int
  BY LenProperties, ElementOfSeq
<1>2. c = [k \in 1..n |-> s[At(s, k)]]
  BY <1>1, ChronologicalIs
<1>3. \A k \in 1..n : At(s, k) \in 1..n
  BY PlacesAreTaken
<1>4. c \in [1..n -> X] /\ \A k \in 1..n : c[k] = s[At(s, k)]
  BY <1>1, <1>2, <1>3
<1> HIDE DEF c
<1>5. c \in Seq(X) /\ Len(c) = n /\ DOMAIN c = 1..n
  BY <1>1, <1>4
<1>6. ASSUME NEW j \in 1..n, NEW k \in 1..n, j <= k PROVE c[j].t <= c[k].t
  <2> DEFINE a == At(s, j)  b == At(s, k)
  <2>1. a \in 1..n /\ b \in 1..n /\ s[a].t \in Int /\ s[b].t \in Int
    BY <1>1, <1>3
  <2>2. 1 + Cardinality(Ahead(s, a)) = j /\ 1 + Cardinality(Ahead(s, b)) = k
    BY PlacesAreTaken
  <2>3. SUFFICES ASSUME s[b].t < s[a].t PROVE FALSE
    BY <1>4, <2>1
  <2>4. Earlier(s, b, a)
    BY <2>3 DEF Earlier
  <2>5. Cardinality(Ahead(s, b)) < Cardinality(Ahead(s, a))
    BY <2>1, <2>4, PlacesDiffer
  <2>6. Cardinality(Ahead(s, b)) \in Int /\ Cardinality(Ahead(s, a)) \in Int
    <3>1. ASSUME NEW h \in 1..n PROVE Cardinality(Ahead(s, h)) \in Int
      <4>1. Ahead(s, h) \in SUBSET (1..n) /\ IsFiniteSet(1..n)
        BY <1>1, FS_Interval DEF Ahead
      <4> QED BY <4>1, FS_Subset, FS_CardinalityType
    <3> QED BY <2>1, <3>1
  <2> HIDE DEF a, b
  <2> QED BY <1>6, <2>2, <2>5, <2>6
<1>7. Sorted(c)
  BY <1>5, <1>6 DEF Sorted
<1> QED BY <1>5, <1>7 DEF c

LEMMA SetToSeqType ==
    ASSUME NEW S, IsFiniteSet(S)
    PROVE  SetToSeq(S) \in Seq(S)
<1> DEFINE n == Cardinality(S)
<1>1. n \in Nat /\ ExistsBijection(1..n, S)
  BY FS_CardinalityType
<1>2. \E f \in [1..n -> S] : IsInjective(f)
  BY <1>1 DEF ExistsBijection, Bijection, Injection
<1>3. SetToSeq(S) \in [1..n -> S]
  BY <1>2 DEF SetToSeq
<1> HIDE DEF n
<1> QED BY <1>1, <1>3

(* What is before an instant, and what the replay shows of it: itself.      *)
Past(s, now) == SubSeq(s, 1, CountAt(s, now))

LEMMA PastIsShown ==
    ASSUME NEW X, \A x \in X : x.t \in Int, NEW s \in Seq(X), Sorted(s), NEW now \in Int
    PROVE  /\ Past(s, now) \in Seq(X)
           /\ FilterAtOrBefore(s, now) = Past(s, now)
           /\ FilterAtOrBefore(Past(s, now), now) = Past(s, now)
           /\ \A k \in DOMAIN Past(s, now) : /\ Past(s, now)[k].t <= now
                                             /\ Past(s, now)[k].t <= Last(Past(s, now)).t
<1> DEFINE n == Len(s)  c == CountAt(s, now)  p == SubSeq(s, 1, c)
<1>1. Counts(s, now, c)
  BY CountIs
<1>2. n \in Nat /\ DOMAIN s = 1..n /\ \A k \in 1..n : s[k] \in X /\ s[k].t \in Int
  BY LenProperties, ElementOfSeq
<1>3. c \in 0..n /\ \A k \in 1..n : s[k].t <= now <=> k <= c
  BY <1>1 DEF Counts
<1>4. p \in Seq(X) /\ Len(p) = c /\ DOMAIN p = 1..c /\ \A k \in 1..c : p[k] = s[k]
  <2>1. \A k \in 1..c : s[k] \in X
    BY <1>2, <1>3
  <2>2. /\ p \in Seq(X) /\ Len(p) = IF 1 <= c THEN c - 1 + 1 ELSE 0
        /\ \A k \in 1..(c - 1 + 1) : p[k] = s[1 + k - 1]
    <3> HIDE DEF c
    <3> QED BY <1>3, <2>1, SubSeqProperties
  <2>3. DOMAIN p = 1..Len(p)
    BY <2>2, LenProperties
  <2> HIDE DEF c, p
  <2> QED BY <1>3, <2>2, <2>3
<1> HIDE DEF c, p
<1>5. \A k \in 1..c : p[k].t <= now /\ p[k].t \in Int
  BY <1>2, <1>3, <1>4
<1>6. Sorted(p)
  <2>1. ASSUME NEW j \in 1..c, NEW k \in 1..c, j <= k PROVE p[j].t <= p[k].t
    BY <1>2, <1>3, <1>4, <2>1 DEF Sorted
  <2> QED BY <1>4, <2>1 DEF Sorted
<1>7. FilterAtOrBefore(s, now) = p
  BY FilterIsPrefix DEF c, p
<1>8. FilterAtOrBefore(p, now) = p
  <2>1. FilterAtOrBefore(p, now) = SubSeq(p, 1, CountAt(p, now))
    BY <1>4, <1>6, FilterIsPrefix
  <2>2. Counts(p, now, CountAt(p, now))
    BY <1>4, <1>6, CountIs
  <2>3. CountAt(p, now) = c
    <3>1. CountAt(p, now) \in 0..c /\ \A k \in 1..c : p[k].t <= now <=> k <= CountAt(p, now)
      BY <1>4, <2>2 DEF Counts
    <3>2. c # 0 => c <= CountAt(p, now)
      BY <1>3, <1>5, <3>1
    <3> QED BY <1>3, <3>1, <3>2
  <2>4. SubSeq(p, 1, Len(p)) = p
    BY <1>4, SubSeqFull
  <2> QED BY <1>4, <2>1, <2>3, <2>4
<1>9. \A k \in 1..c : p[k].t <= Last(p).t
  <2> SUFFICES ASSUME NEW k \in 1..c PROVE p[k].t <= p[c].t
    BY <1>4 DEF Last
  <2>1. c \in 1..c /\ k <= c
    BY <1>3
  <2> QED BY <1>4, <1>6, <2>1 DEF Sorted
<1> QED BY <1>4, <1>5, <1>7, <1>8, <1>9 DEF Past, p, c

TickRows  == [t : Nat, yesMid : Int, noMid : Int, volume : Int]
PriceRows == [t : Nat, price : Int]
TradeRows == [t : Nat, side : Sides]
FiniteBooks ==
    {b \in [t : Nat, bids : [Sides -> Books], asks : [Sides -> Books]] :
        \A s \in Sides : IsFiniteSet(b.bids[s]) /\ IsFiniteSet(b.asks[s])}

Engines ==
    {e \in [ticks : Seq(TickRows), books : Seq(FiniteBooks), trades : Seq(TradeRows),
            prices : Seq(PriceRows), market : [endTime : Nat, strike : Nat], outcome : Sides] :
        Sorted(e.ticks) /\ Sorted(e.books) /\ Sorted(e.trades) /\ Sorted(e.prices)}

LEMMA UntilIsPast ==
    ASSUME NEW e, NEW now
    PROVE  Until(e, now) = [e EXCEPT !.ticks = Past(e.ticks, now), !.books = Past(e.books, now),
                                     !.trades = Past(e.trades, now), !.prices = Past(e.prices, now)]
BY DEF Until, Past, CountAt

(* A snapshot depends on what the search finds in the four series.          *)
LEMMA SnapshotOfFound ==
    ASSUME NEW e, NEW f, NEW now,
           FilterAtOrBefore(e.ticks, now) = FilterAtOrBefore(f.ticks, now),
           FilterAtOrBefore(e.books, now) = FilterAtOrBefore(f.books, now),
           FilterAtOrBefore(e.trades, now) = FilterAtOrBefore(f.trades, now),
           FilterAtOrBefore(e.prices, now) = FilterAtOrBefore(f.prices, now)
    PROVE  SnapshotAt(e, now) = SnapshotAt(f, now)
BY DEF SnapshotAt

(* What a snapshot shows is what is before its instant.                     *)
THEOREM SnapshotIsOfThePast ==
    ASSUME NEW e \in Engines, NEW now \in Nat
    PROVE  LET past == Until(e, now)  shown == SnapshotAt(e, now)
           IN  /\ shown = SnapshotAt(past, now)
               /\ \A b \in Range(past.books) : shown.orderBook.t >= b.t
               /\ Len(shown.priceHistory) = Len(past.prices)
               /\ Len(shown.volumeHistory) = Len(past.ticks)
               /\ shown.now = now
               /\ shown.orderBook \in FiniteBooks \cup {EMPTY_ORDER_BOOK}
<1> DEFINE past == Until(e, now)  shown == SnapshotAt(e, now)
<1>0. /\ e.ticks \in Seq(TickRows) /\ e.books \in Seq(FiniteBooks)
      /\ e.trades \in Seq(TradeRows) /\ e.prices \in Seq(PriceRows)
      /\ Sorted(e.ticks) /\ Sorted(e.books) /\ Sorted(e.trades) /\ Sorted(e.prices)
      /\ now \in Int
  BY DEF Engines
<1>1. /\ past.ticks = Past(e.ticks, now) /\ past.books = Past(e.books, now)
      /\ past.trades = Past(e.trades, now) /\ past.prices = Past(e.prices, now)
  BY UntilIsPast DEF Engines
<1>2. ASSUME NEW X, \A x \in X : x.t \in Int, NEW s \in Seq(X), Sorted(s)
      PROVE  /\ Past(s, now) \in Seq(X)
             /\ FilterAtOrBefore(s, now) = Past(s, now)
             /\ FilterAtOrBefore(Past(s, now), now) = Past(s, now)
             /\ \A k \in DOMAIN Past(s, now) : /\ Past(s, now)[k].t <= now
                                               /\ Past(s, now)[k].t <= Last(Past(s, now)).t
  BY <1>0, <1>2, PastIsShown
<1>3. /\ \A x \in TickRows : x.t \in Int
      /\ \A x \in FiniteBooks : x.t \in Nat
      /\ \A x \in TradeRows : x.t \in Int
      /\ \A x \in PriceRows : x.t \in Int
  BY DEF TickRows, FiniteBooks, TradeRows, PriceRows
<1>4. \A x \in FiniteBooks : x.t \in Int
  BY <1>3
<1>5. /\ Past(e.ticks, now) \in Seq(TickRows)
      /\ FilterAtOrBefore(e.ticks, now) = Past(e.ticks, now)
      /\ FilterAtOrBefore(Past(e.ticks, now), now) = Past(e.ticks, now)
  BY <1>0, <1>2, <1>3
<1>6. /\ Past(e.books, now) \in Seq(FiniteBooks)
      /\ FilterAtOrBefore(e.books, now) = Past(e.books, now)
      /\ FilterAtOrBefore(Past(e.books, now), now) = Past(e.books, now)
      /\ \A k \in DOMAIN Past(e.books, now) :
            Past(e.books, now)[k].t <= Last(Past(e.books, now)).t
  BY <1>0, <1>2, <1>4
<1>7. /\ FilterAtOrBefore(e.trades, now) = Past(e.trades, now)
      /\ FilterAtOrBefore(Past(e.trades, now), now) = Past(e.trades, now)
  BY <1>0, <1>2, <1>3
<1>8. /\ Past(e.prices, now) \in Seq(PriceRows)
      /\ FilterAtOrBefore(e.prices, now) = Past(e.prices, now)
      /\ FilterAtOrBefore(Past(e.prices, now), now) = Past(e.prices, now)
  BY <1>0, <1>2, <1>3
<1>9. shown = SnapshotAt(past, now)
  BY <1>1, <1>5, <1>6, <1>7, <1>8, SnapshotOfFound
<1>10. /\ shown.now = now
       /\ shown.orderBook = IF Past(e.books, now) = <<>> THEN EMPTY_ORDER_BOOK
                            ELSE Last(Past(e.books, now))
       /\ DOMAIN shown.priceHistory = DOMAIN Past(e.prices, now)
       /\ DOMAIN shown.volumeHistory = DOMAIN Past(e.ticks, now)
  BY <1>5, <1>6, <1>8 DEF SnapshotAt
<1>11. \A b \in Range(past.books) : shown.orderBook.t >= b.t
  <2> SUFFICES ASSUME NEW k \in DOMAIN Past(e.books, now)
               PROVE  shown.orderBook.t >= Past(e.books, now)[k].t
    BY <1>1 DEF Range
  <2> DEFINE p == Past(e.books, now)
  <2>1. p \in Seq(FiniteBooks) /\ Len(p) \in Nat /\ DOMAIN p = 1..Len(p) /\ k \in 1..Len(p)
    BY <1>6, LenProperties
  <2>2. p # <<>> /\ Last(p) = p[Len(p)] /\ p[Len(p)] \in FiniteBooks /\ p[k] \in FiniteBooks
    <3>1. Len(p) \in 1..Len(p)
      BY <2>1
    <3> HIDE DEF p
    <3>2. p # <<>>
      BY <2>1, EmptySeq
    <3> QED BY <2>1, <3>1, <3>2, ElementOfSeq DEF Last
  <2>3. shown.orderBook = Last(p) /\ p[k].t <= Last(p).t
    BY <1>6, <1>10, <2>2
  <2> HIDE DEF p, shown
  <2>4. shown.orderBook.t \in Int /\ p[k].t \in Int /\ p[k].t <= shown.orderBook.t
    BY <1>4, <2>2, <2>3
  <2> QED BY <2>4 DEF p
<1>12. /\ Len(shown.priceHistory) = Len(past.prices)
       /\ Len(shown.volumeHistory) = Len(past.ticks)
  <2>1. /\ shown.priceHistory \in Seq([t : Nat, value : Int])
        /\ shown.volumeHistory \in Seq([t : Nat, value : Int])
    <3>1. ASSUME NEW X, NEW p \in Seq(X) PROVE Len(p) \in Nat /\ DOMAIN p = 1..Len(p) /\ \A k \in 1..Len(p) : p[k] \in X
      BY <3>1, LenProperties, ElementOfSeq
    <3>2. /\ shown.priceHistory = [k \in DOMAIN Past(e.prices, now) |->
                [t |-> Past(e.prices, now)[k].t, value |-> Past(e.prices, now)[k].price]]
          /\ shown.volumeHistory = [k \in DOMAIN Past(e.ticks, now) |->
                [t |-> Past(e.ticks, now)[k].t, value |-> Past(e.ticks, now)[k].volume]]
      BY <1>5, <1>8 DEF SnapshotAt
    <3> DEFINE q == Past(e.prices, now)  r == Past(e.ticks, now)
    <3>3. /\ Len(q) \in Nat /\ DOMAIN q = 1..Len(q) /\ \A k \in 1..Len(q) : q[k] \in PriceRows
          /\ Len(r) \in Nat /\ DOMAIN r = 1..Len(r) /\ \A k \in 1..Len(r) : r[k] \in TickRows
      BY <1>5, <1>8, <3>1
    <3> HIDE DEF q, r, shown
    <3>4. shown.priceHistory \in [1..Len(q) -> [t : Nat, value : Int]]
      BY <3>2, <3>3 DEF PriceRows, q
    <3>5. shown.volumeHistory \in [1..Len(r) -> [t : Nat, value : Int]]
      BY <3>2, <3>3 DEF TickRows, r
    <3>6. ASSUME NEW Y, NEW m \in Nat, NEW h \in [1..m -> Y] PROVE h \in Seq(Y)
      OBVIOUS
    <3> QED BY <3>3, <3>4, <3>5, <3>6
  <2>2. ASSUME NEW X, NEW Y, NEW p \in Seq(X), NEW q \in Seq(Y), DOMAIN p = DOMAIN q
        PROVE  Len(p) = Len(q)
    BY <2>2, LenProperties
  <2> HIDE DEF shown
  <2> QED BY <1>1, <1>5, <1>8, <1>10, <2>1, <2>2
<1>13. shown.orderBook \in FiniteBooks \cup {EMPTY_ORDER_BOOK}
  <2> DEFINE p == Past(e.books, now)
  <2>1. CASE p = <<>>
    BY <1>10, <2>1
  <2>2. CASE p # <<>>
    <3>1. Len(p) \in 1..Len(p)
      <4>1. Len(p) \in Nat \ {0}
        BY <1>6, <2>2, EmptySeq
      <4> HIDE DEF p
      <4> QED BY <4>1
    <3>2. Last(p) \in FiniteBooks
      <4> HIDE DEF p
      <4>1. p \in Seq(FiniteBooks)
        BY <1>6 DEF p
      <4> QED BY <3>1, <4>1, ElementOfSeq DEF Last
    <3> QED BY <1>10, <2>2, <3>2
  <2> QED BY <2>1, <2>2
<1> QED BY <1>9, <1>10, <1>11, <1>12, <1>13

-----------------------------------------------------------------------------
(***************************************************************************)
(* A simulated fill: no more than what was approved, and of some shares if *)
(* it is of any USD.                                                       *)
(***************************************************************************)
FilledFor(fill, size) ==
    /\ fill.usd \in Nat /\ fill.usd <= size
    /\ fill.fee \in Nat /\ fill.shares \in Nat
    /\ fill.usd > 0 => fill.shares > 0

LEMMA LevelsSum ==
    ASSUME NEW levels \in Books, IsFiniteSet(levels), NEW some \in SUBSET levels
    PROVE  /\ SumUsd(some) \in Nat
           /\ (\A l \in some : l.usd = 0) => SumUsd(some) = 0
<1> DEFINE f == [l \in some |-> l.usd]
<1>1. f \in [some -> Nat] /\ f \in [some -> Int] /\ IsFiniteSet(some)
  BY FS_Subset DEF Books, Levels
<1>2. SumUsd(some) = SumFunction(f)
  BY DEF SumUsd
<1>3. SumFunction(f) \in Nat
  <2> HIDE DEF f
  <2> QED BY <1>1, SumIsNatural
<1>4. ASSUME \A l \in some : l.usd = 0 PROVE SumFunction(f) = 0
  <2>1. \A l \in some : f[l] = 0
    BY <1>4
  <2> HIDE DEF f
  <2> QED BY <1>1, <2>1, SumOfZeros
<1> QED BY <1>2, <1>3, <1>4

(* Of the levels that hold something, one is taken first.                   *)
LEMMA TakenFirst ==
    ASSUME NEW asks \in Books, NEW l0 \in asks, l0.usd > 0
    PROVE  \E l \in asks : l.usd > 0 /\ \A k \in Cheaper(asks, l) : k.usd = 0
<1> DEFINE full == {l \in asks : l.usd > 0}
           P    == {l.price : l \in full}
<1>1. \A l \in asks : l.price \in 1..One /\ l.usd \in Nat
  BY DEF Books, Levels
<1>2. P \in SUBSET (1..One) /\ l0.price \in P /\ One \in Nat
  BY <1>1, ConfigTypes
<1>3. PICK p \in P : \A q \in P : p <= q
  <2> HIDE DEF P
  <2> QED BY <1>2, LeastElement
<1>4. PICK l1 \in full : l1.price = p
  OBVIOUS
<1> DEFINE U == {u \in 1..l1.usd : \E l \in full : l.price = p /\ l.usd = u}
<1>5. l1.usd \in Nat /\ U \in SUBSET (1..l1.usd) /\ l1.usd \in U
  BY <1>1, <1>4
<1>6. PICK u \in U : \A v \in U : u <= v
  <2> HIDE DEF U
  <2> QED BY <1>5, LeastElement
<1>7. PICK l \in full : l.price = p /\ l.usd = u
  OBVIOUS
<1>8. ASSUME NEW k \in Cheaper(asks, l), k.usd # 0 PROVE FALSE
  <2>1. k \in asks /\ (k.price < p \/ (k.price = p /\ k.usd < u))
    BY <1>7, <1>8 DEF Cheaper
  <2>2. k \in full /\ k.price \in P
    BY <1>1, <1>8, <2>1
  <2>3. k.price \in Int /\ p \in Int /\ k.usd \in Int /\ u \in Int /\ u <= l1.usd
    BY <1>1, <1>2, <1>5, <2>1
  <2>4. k.price = p /\ k.usd < u
    BY <1>3, <2>1, <2>2, <2>3
  <2>5. k.usd \in U
    BY <1>1, <2>1, <2>2, <2>3, <2>4
  <2> QED BY <1>6, <2>3, <2>4, <2>5
<1> QED BY <1>7, <1>8

LEMMA QuotientOf ==
    ASSUME NEW y \in Nat, NEW p \in Nat \ {0}
    PROVE  y \div p \in Nat /\ (y >= p => y \div p > 0)
OBVIOUS

LEMMA SharesOfLevel ==
    ASSUME NEW x \in Nat, NEW p \in 1..One
    PROVE  (x * One) \div p \in Nat /\ (x > 0 => (x * One) \div p > 0)
<1>1. x * One \in Nat /\ (x > 0 => x * One >= One)
  BY ConfigTypes
<1>2. One \in Nat /\ p \in Nat \ {0} /\ One >= p
  BY ConfigTypes
<1>3. x > 0 => x * One >= p
  BY <1>1, <1>2
<1> QED BY <1>1, <1>2, <1>3, QuotientOf

(* A walk takes shares from the first level that holds something.           *)
LEMMA SharesOfWalk ==
    ASSUME NEW asks \in Books, IsFiniteSet(asks), NEW usd \in Nat
    PROVE  LET got == SumFunction([l \in asks |-> (Taken(asks, usd, l) * One) \div l.price])
           IN  /\ got \in Nat
               /\ usd > 0 /\ (\E l \in asks : l.usd > 0) => got > 0
<1> DEFINE f   == [l \in asks |-> (Taken(asks, usd, l) * One) \div l.price]
           got == SumFunction(f)
<1>1. \A l \in asks : l.price \in 1..One /\ l.usd \in Nat
  BY DEF Books, Levels
<1>2. \A l \in asks : Cheaper(asks, l) \in SUBSET asks
  BY DEF Cheaper
<1>3. \A l \in asks : SumUsd(Cheaper(asks, l)) \in Nat
  BY <1>2, LevelsSum
<1>4. \A l \in asks : Taken(asks, usd, l) \in Nat
  BY <1>1, <1>3 DEF Taken, Clamp
<1>5. ASSUME NEW l \in asks
      PROVE  f[l] \in Nat /\ (Taken(asks, usd, l) > 0 => f[l] > 0)
  <2> DEFINE x == Taken(asks, usd, l)  p == l.price
  <2>1. x \in Nat /\ p \in 1..One /\ f[l] = (x * One) \div p
    BY <1>1, <1>4
  <2> HIDE DEF x, p, f
  <2>2. (x * One) \div p \in Nat /\ (x > 0 => (x * One) \div p > 0)
    BY <2>1, SharesOfLevel
  <2> QED BY <2>1, <2>2 DEF x
<1>6. f \in [asks -> Nat]
  <2>1. \A l \in asks : f[l] \in Nat
    BY <1>5
  <2> QED BY <2>1
<1>7. got \in Nat
  <2> HIDE DEF f
  <2> QED BY <1>6, SumIsNatural
<1>8. ASSUME usd > 0, NEW l0 \in asks, l0.usd > 0 PROVE got > 0
  <2>1. PICK l \in asks : l.usd > 0 /\ \A k \in Cheaper(asks, l) : k.usd = 0
    BY <1>8, TakenFirst
  <2>2. SumUsd(Cheaper(asks, l)) = 0
    BY <1>2, <2>1, LevelsSum
  <2>3. Taken(asks, usd, l) > 0
    BY <1>1, <1>8, <2>1, <2>2 DEF Taken, Clamp
  <2>4. f[l] > 0 /\ f[l] \in Nat
    BY <1>5, <2>3
  <2>5. got >= f[l]
    <3> HIDE DEF f
    <3> QED BY <1>6, SumAtLeast
  <2> HIDE DEF f, got
  <2> QED BY <1>7, <2>4, <2>5
<1> HIDE DEF got
<1>9. got \in Nat /\ (usd > 0 /\ (\E l \in asks : l.usd > 0) => got > 0)
  BY <1>7, <1>8
<1> QED BY <1>9 DEF got

LEMMA SimulateFillIs ==
    ASSUME NEW asks \in Books, IsFiniteSet(asks), NEW size \in Nat, NEW limit
    PROVE  FilledFor(SimulateFill(asks, size, limit), size)
<1> DEFINE some == Fillable(asks, limit)
           usd  == Least(size, SumUsd(some))
           fill == SimulateFill(asks, size, limit)
<1>1. some \in SUBSET asks
  BY DEF Fillable
<1>2. SumUsd(some) \in Nat /\ ((\A l \in some : l.usd = 0) => SumUsd(some) = 0)
  BY <1>1, LevelsSum
<1>3. usd \in Nat /\ usd <= size /\ usd <= SumUsd(some)
  BY <1>2 DEF Least
<1>4. /\ fill.usd = usd /\ fill.fee = Times(usd, FeeRatio)
      /\ fill.shares = SumFunction([l \in asks |-> (Taken(asks, usd, l) * One) \div l.price])
  BY DEF SimulateFill
<1>5. Times(usd, FeeRatio) \in Nat
  <2>1. FeeRatio \in Nat
    BY ConfigTypes, BacktestAssumption
  <2>2. usd * FeeRatio \in Nat
    BY <1>3, <2>1
  <2>3. One \in Nat \ {0}
    BY ConfigTypes
  <2>4. (usd * FeeRatio) \div One \in Nat
    <3> HIDE DEF usd
    <3> QED BY <2>2, <2>3, QuotientOf
  <2> QED BY <2>4 DEF Times
<1>6. usd > 0 => \E l \in asks : l.usd > 0
  <2>1. \A l \in asks : l.usd \in Nat
    BY DEF Books, Levels
  <2> QED BY <1>1, <1>2, <1>3, <2>1
<1> HIDE DEF usd, some, fill
<1>7. fill.shares \in Nat /\ (usd > 0 => fill.shares > 0)
  BY <1>3, <1>4, <1>6, SharesOfWalk
<1>8. FilledFor(fill, size)
  BY <1>3, <1>4, <1>5, <1>7 DEF FilledFor
<1> QED BY <1>8 DEF fill

-----------------------------------------------------------------------------
(***************************************************************************)
(* The inductive invariant of a backtest: types; where a fill, a trade and *)
(* the context of the agent come from; the two ledgers; the report.        *)
(***************************************************************************)
FillRows == [usd : Nat, fee : Int, t : Nat]

Positions == [size : Nat, cost : Nat, fills : Seq(FillRows), since : Int, predicted : 0..One]

Typed ==
    /\ engines \in [MarketIds -> Engines]
    /\ tail \in Seq(MarketIds) /\ resolved \subseteq MarketIds
    /\ lastTriggered \in [MarketIds -> Nat \cup {-1}]
    /\ positions \in [MarketIds -> [Sides -> Positions]]
    /\ cash \in Int /\ \A d \in DOMAIN daily : daily[d] \in Int
    /\ counts \in [generated : Nat, triggered : Nat, approvals : Nat, rejections : Nat]
    /\ counts.approvals + counts.rejections <= counts.triggered
    /\ counts.triggered <= counts.generated

(* A cycle is a tick of its market.                                         *)
CycleInv(c) ==
    /\ c \in [market : MarketIds, index : Nat, t : Nat]
    /\ c.index \in DOMAIN engines[c.market].ticks
    /\ c.t = engines[c.market].ticks[c.index].t

CyclesInv == \A c \in queue : CycleInv(c)

(* A market that is not resolved is still to be looked at, or has no ticks. *)
LeftOver == \A m \in MarketIds : m \in Range(tail) \/ m \in resolved \/ engines[m].ticks = <<>>

(* What is known of a fill: it came a latency after a tick, and that tick is *)
(* before every one of its market that is still to come.                    *)
FillOf(f, ticks, j) == j \in DOMAIN ticks /\ f.t = ticks[j].t + Latency

FillIs(f, m, of, cycles) ==
    \E j \in DOMAIN of[m].ticks :
        FillOf(f, of[m].ticks, j) /\ \A c \in cycles : c.market = m => j < c.index

PositionIs(pos, m, of, cycles, done) ==
    /\ pos.size = 0 => pos = NoPosition
    /\ pos.cost = UsdOf(pos.fills)
    /\ pos # NoPosition => m \notin done /\ of[m].ticks # <<>>
    /\ \A k \in DOMAIN pos.fills : FillIs(pos.fills[k], m, of, cycles)

PositionInv(m, s) == PositionIs(positions[m][s], m, engines, queue, resolved)

PositionsInv == \A m \in MarketIds, s \in Sides : PositionInv(m, s)

(* A trade is of a resolved market, with its outcome, and no market and side*)
(* has two.                                                                 *)
TradeRecords ==
    [market : MarketIds, side : Sides, usd : Int, shares : Nat, fees : Int, exit : {0, 1},
     pnl : Int, win : BOOLEAN, predicted : 0..One, t : Nat]

TradeStands(r, of, done) ==
    LET e == of[r.market]
    IN  /\ r.market \in done
        /\ r.exit = IF e.outcome = r.side THEN 1 ELSE 0
        /\ r.t < e.market.endTime => r.t = LastTimestamp(e)
        /\ r.win <=> r.exit = 1 /\ r.usd < r.shares

Apart(list) ==
    \A j, k \in DOMAIN list :
        j # k => list[j].market # list[k].market \/ list[j].side # list[k].side

TradesInv ==
    /\ trades \in Seq(TradeRecords) /\ Apart(trades)
    /\ \A k \in DOMAIN trades : TradeStands(trades[k], engines, resolved)

(* The fills the agent is shown are of earlier ticks than the one it is     *)
(* asked at.                                                                *)
ContextIs(context, of) ==
    LET m == context.market
        now == context.snapshot.now
    IN  /\ m \in MarketIds /\ now \in Nat
        /\ context.snapshot = SnapshotAt(of[m], now)
        /\ \E i \in DOMAIN of[m].ticks :
              /\ of[m].ticks[i].t = now
              /\ \A s \in Sides : \A k \in DOMAIN context.positions[s].fills :
                    \E j \in 1..(i - 1) : FillOf(context.positions[s].fills[k], of[m].ticks, j)

AskedInv == asked # <<>> => asked = <<asked[1]>> /\ ContextIs(asked[1], engines)

ReportInv ==
    report # <<>> =>
        /\ queue = {} /\ tail = <<>>
        /\ report = <<[metrics |-> ComputeBacktestMetrics(trades),
                       calibration |-> ComputeCalibration(trades, One),
                       finalBalance |-> cash, finalEquity |-> cash + OpenPositionsUsd]>>

BacktestInv ==
    /\ Typed /\ CyclesInv /\ LeftOver /\ PositionsInv /\ TradesInv /\ AskedInv
    /\ LedgerBalances /\ OpenWithinLimits /\ ReportInv

-----------------------------------------------------------------------------
LEMMA MarketIdsFinite ==
    /\ IsFiniteSet(MarketIds) /\ Len(Input) \in Nat
    /\ IsFiniteSet(MarketIds \X Sides) /\ "YES" \in Sides /\ "NO" \in Sides
<1>1. Len(Input) \in Nat
  BY BacktestAssumption, LenProperties
<1>2. IsFiniteSet(MarketIds)
  BY <1>1, FS_Interval DEF MarketIds
<1>3. IsFiniteSet(Sides)
  <2>1. Sides = {"YES"} \cup {"NO"}
    BY DEF Sides
  <2> QED BY <2>1, FS_Singleton, FS_Union
<1> QED BY <1>1, <1>2, <1>3, FS_Product DEF Sides

LEMMA ImageIsFinite ==
    ASSUME NEW S, IsFiniteSet(S), NEW f, DOMAIN f = S
    PROVE  IsFiniteSet({f[x] : x \in S})
<1> DEFINE T == {f[x] : x \in S}  g == [x \in S |-> f[x]]
<1>1. g \in [S -> T] /\ \A t \in T : \E x \in S : g[x] = t
  OBVIOUS
<1>2. g \in Surjection(S, T)
  <2> HIDE DEF g, T
  <2> QED BY <1>1 DEF Surjection
<1> HIDE DEF g, T
<1>3. IsFiniteSet(T)
  BY <1>2, FS_Surjection
<1> QED BY <1>3 DEF T

(* A book of the rows of an instant is of levels, and of as many as rows.   *)
LevelsOf(some) == {[price |-> r.price, usd |-> r.usd] : r \in some}

RowType == [t : Nat, side : Sides, price : 1..One, usd : Nat]

LEMMA LevelsOfRows ==
    ASSUME NEW rows \in SUBSET RowType, IsFiniteSet(rows), NEW some \in SUBSET rows
    PROVE  LevelsOf(some) \in Books /\ IsFiniteSet(LevelsOf(some))
<1> DEFINE f == [r \in some |-> [price |-> r.price, usd |-> r.usd]]
<1>1. IsFiniteSet(some)
  BY FS_Subset
<1>2. LevelsOf(some) \in Books
  BY DEF LevelsOf, RowType, Books, Levels
<1>3. IsFiniteSet({f[x] : x \in some})
  <2>1. DOMAIN f = some
    OBVIOUS
  <2> HIDE DEF f
  <2> QED BY <1>1, <2>1, ImageIsFinite
<1>4. LevelsOf(some) = {f[x] : x \in some}
  BY DEF LevelsOf
<1> QED BY <1>2, <1>3, <1>4

IsBidOf(r, ticks, half) == r.price <= MidAt(ticks, r.t, r.side, half)

BookOf(rows, ticks, half, t) ==
    [t |-> t,
     bids |-> [s \in Sides |-> LevelsOf({r \in {x \in rows : x.t = t /\ x.side = s} :
                                            IsBidOf(r, ticks, half)})],
     asks |-> [s \in Sides |-> LevelsOf({r \in {x \in rows : x.t = t /\ x.side = s} :
                                            ~IsBidOf(r, ticks, half)})]]

LEMMA GroupIs ==
    ASSUME NEW rows, NEW ticks, NEW half
    PROVE  GroupOrderBookSnapshots(rows, ticks, half)
             = Chronological(SetToSeq({BookOf(rows, ticks, half, r.t) : r \in rows}))
BY DEF GroupOrderBookSnapshots, BookOf, LevelsOf, IsBidOf

LEMMA GroupType ==
    ASSUME NEW rows \in SUBSET RowType, IsFiniteSet(rows), NEW ticks, NEW half
    PROVE  GroupOrderBookSnapshots(rows, ticks, half) \in Seq(FiniteBooks)
<1> DEFINE B == {BookOf(rows, ticks, half, r.t) : r \in rows}
           f == [r \in rows |-> BookOf(rows, ticks, half, r.t)]
<1>1. ASSUME NEW t \in Nat PROVE BookOf(rows, ticks, half, t) \in FiniteBooks
  <2> DEFINE bid(s) == {r \in {x \in rows : x.t = t /\ x.side = s} : IsBidOf(r, ticks, half)}
             ask(s) == {r \in {x \in rows : x.t = t /\ x.side = s} : ~IsBidOf(r, ticks, half)}
  <2>1. \A s \in Sides : bid(s) \in SUBSET rows /\ ask(s) \in SUBSET rows
    OBVIOUS
  <2>2. BookOf(rows, ticks, half, t) = [t |-> t, bids |-> [s \in Sides |-> LevelsOf(bid(s))],
                                        asks |-> [s \in Sides |-> LevelsOf(ask(s))]]
    BY DEF BookOf
  <2> HIDE DEF bid, ask
  <2>3. \A s \in Sides : /\ LevelsOf(bid(s)) \in Books /\ IsFiniteSet(LevelsOf(bid(s)))
                         /\ LevelsOf(ask(s)) \in Books /\ IsFiniteSet(LevelsOf(ask(s)))
    BY <2>1, LevelsOfRows
  <2> QED BY <2>2, <2>3 DEF FiniteBooks
<1>2. B \in SUBSET FiniteBooks
  BY <1>1 DEF RowType
<1>3. IsFiniteSet(B)
  <2>1. DOMAIN f = rows /\ B = {f[x] : x \in rows}
    OBVIOUS
  <2> HIDE DEF f, B
  <2> QED BY <2>1, ImageIsFinite
<1> HIDE DEF B
<1>4. SetToSeq(B) \in Seq(FiniteBooks)
  BY <1>2, <1>3, SetToSeqType, SeqMonotonic
<1>5. \A x \in FiniteBooks : x.t \in Int
  BY DEF FiniteBooks
<1>6. Chronological(SetToSeq(B)) \in Seq(FiniteBooks)
  BY <1>4, <1>5, ChronologicalSorts
<1> QED BY <1>6, GroupIs DEF B

LEMMA EngineType ==
    ASSUME NEW market \in [endTime : Nat, strike : Nat],
           NEW stored \in Histories, IsFiniteSet(stored.rows), NEW half
    PROVE  Engine(LoadDataset(market, stored, half)) \in Engines
<1> DEFINE books == GroupOrderBookSnapshots(stored.rows, stored.ticks, half)
           e == Engine(LoadDataset(market, stored, half))
<1>1. /\ stored.ticks \in Seq(TickRows) /\ stored.rows \in SUBSET RowType
      /\ stored.prices \in Seq(PriceRows) /\ stored.trades \in Seq(TradeRows)
      /\ stored.outcome \in Sides
  BY DEF Histories, TickRows, RowType, PriceRows, TradeRows
<1>2. books \in Seq(FiniteBooks)
  BY <1>1, GroupType
<1>3. e = [ticks |-> Chronological(stored.ticks), books |-> Chronological(books),
           trades |-> Chronological(stored.trades), prices |-> Chronological(stored.prices),
           market |-> market, outcome |-> stored.outcome]
  <2> DEFINE d == LoadDataset(market, stored, half)
  <2>1. d = [ticks |-> stored.ticks, books |-> books, trades |-> stored.trades,
             prices |-> stored.prices, market |-> market, outcome |-> stored.outcome]
    BY DEF LoadDataset
  <2>2. e = [d EXCEPT !.ticks = Chronological(@), !.books = Chronological(@),
                      !.trades = Chronological(@), !.prices = Chronological(@)]
    BY DEF Engine
  <2> HIDE DEF d, books, e
  <2> QED BY <2>1, <2>2
<1>4. /\ \A x \in TickRows : x.t \in Int
      /\ \A x \in PriceRows : x.t \in Int
  BY DEF TickRows, PriceRows
<1>5. /\ \A x \in FiniteBooks : x.t \in Int
      /\ \A x \in TradeRows : x.t \in Int
  BY DEF FiniteBooks, TradeRows
<1> HIDE DEF books
<1>6. Chronological(stored.ticks) \in Seq(TickRows) /\ Sorted(Chronological(stored.ticks))
  BY <1>1, <1>4, ChronologicalSorts
<1>7. Chronological(books) \in Seq(FiniteBooks) /\ Sorted(Chronological(books))
  BY <1>2, <1>5, ChronologicalSorts
<1>8. Chronological(stored.trades) \in Seq(TradeRows) /\ Sorted(Chronological(stored.trades))
  BY <1>1, <1>5, ChronologicalSorts
<1>9. Chronological(stored.prices) \in Seq(PriceRows) /\ Sorted(Chronological(stored.prices))
  BY <1>1, <1>4, ChronologicalSorts
<1> QED BY <1>1, <1>3, <1>6, <1>7, <1>8, <1>9 DEF Engines

(* The sums over positions, fills and trades, and that they are numbers.    *)
LEMMA FillsSum ==
    ASSUME NEW fills \in Seq(FillRows)
    PROVE  UsdOf(fills) \in Int /\ FeesOf(fills) \in Int
<1>1. /\ IsFiniteSet(DOMAIN fills)
      /\ [k \in DOMAIN fills |-> fills[k].usd] \in [DOMAIN fills -> Int]
      /\ [k \in DOMAIN fills |-> fills[k].fee] \in [DOMAIN fills -> Int]
  <2>1. Len(fills) \in Nat /\ DOMAIN fills = 1..Len(fills)
        /\ \A k \in 1..Len(fills) : fills[k] \in FillRows
    BY LenProperties, ElementOfSeq
  <2>2. IsFiniteSet(1..Len(fills))
    BY <2>1, FS_Interval
  <2> QED BY <2>1, <2>2 DEF FillRows
<1> QED BY <1>1, SumIsInteger DEF UsdOf, FeesOf

LEMMA SumsOfNone ==
    /\ UsdOf(<<>>) = 0 /\ FeesOf(<<>>) = 0
    /\ SumFunction(Deltas(<<>>)) = 0 /\ FeesOfTrades(<<>>) = 0
<1>1. DOMAIN <<>> = {}
  OBVIOUS
<1>2. /\ [k \in DOMAIN <<>> |-> <<>>[k].usd] \in [{} -> Int]
      /\ [k \in DOMAIN <<>> |-> <<>>[k].fee] \in [{} -> Int]
      /\ [k \in DOMAIN <<>> |-> <<>>[k].pnl] \in [{} -> Int]
      /\ [k \in DOMAIN <<>> |-> <<>>[k].fees] \in [{} -> Int]
  BY <1>1
<1>3. \A f \in [{} -> Int] : SumFunction(f) = 0
  BY SumOfNone
<1> QED BY <1>2, <1>3 DEF UsdOf, FeesOf, Deltas, FeesOfTrades

LEMMA PositionType ==
    ASSUME Typed, NEW m \in MarketIds, NEW s \in Sides
    PROVE  /\ positions[m][s] \in Positions
           /\ UsdOf(positions[m][s].fills) \in Int /\ FeesOf(positions[m][s].fills) \in Int
           /\ ExitPrice(m, s) \in {0, 1} /\ Payout(m, s) \in Int
           /\ PnlOf(m, s) = Payout(m, s) - positions[m][s].cost
           /\ PnlOf(m, s) \in Int
<1>1. positions[m][s] \in Positions
  BY DEF Typed
<1>2. UsdOf(positions[m][s].fills) \in Int /\ FeesOf(positions[m][s].fills) \in Int
  BY <1>1, FillsSum DEF Positions
<1>3. ExitPrice(m, s) \in {0, 1}
  BY DEF ExitPrice
<1>4. positions[m][s].size \in Nat /\ positions[m][s].cost \in Nat
  BY <1>1 DEF Positions
<1>5. Payout(m, s) \in Int
  BY <1>3, <1>4 DEF Payout
<1>6. PnlOf(m, s) = Payout(m, s) - positions[m][s].cost
  BY DEF PnlOf, Payout
<1> QED BY <1>1, <1>2, <1>3, <1>4, <1>5, <1>6

(* The two sums over the markets.                                           *)
Costs    == [m \in MarketIds |-> CostOf(m)]
FeesOpen == [m \in MarketIds |-> OpenFees(m)]

LEMMA SidesAre == "YES" \in Sides /\ "NO" \in Sides /\ \A s \in Sides : s = "YES" \/ s = "NO"
BY DEF Sides

LEMMA OpenSums ==
    ASSUME Typed
    PROVE  /\ Costs \in [MarketIds -> Nat] /\ FeesOpen \in [MarketIds -> Int]
           /\ OpenPositionsUsd = SumFunction(Costs) /\ OpenPositionsUsd \in Nat
           /\ SumFunction(FeesOpen) \in Int
<1>1. ASSUME NEW m \in MarketIds PROVE CostOf(m) \in Nat /\ OpenFees(m) \in Int
  <2>1. /\ positions[m]["YES"] \in Positions /\ positions[m]["NO"] \in Positions
        /\ FeesOf(positions[m]["YES"].fills) \in Int /\ FeesOf(positions[m]["NO"].fills) \in Int
    BY SidesAre, PositionType
  <2>2. positions[m]["YES"].cost \in Nat /\ positions[m]["NO"].cost \in Nat
    BY <2>1 DEF Positions
  <2>3. CostOf(m) \in Nat
    BY <2>2 DEF CostOf
  <2>4. OpenFees(m) \in Int
    BY <2>1 DEF OpenFees
  <2> QED BY <2>3, <2>4
<1>2. Costs \in [MarketIds -> Nat] /\ FeesOpen \in [MarketIds -> Int]
  BY <1>1 DEF Costs, FeesOpen
<1>3. SumFunction(Costs) \in Nat /\ SumFunction(FeesOpen) \in Int
  BY <1>2, MarketIdsFinite, SumIsNatural, SumIsInteger
<1> QED BY <1>2, <1>3 DEF OpenPositionsUsd, Costs

LEMMA NothingOpen ==
    ASSUME Typed, \A m \in MarketIds, s \in Sides : positions[m][s] = NoPosition
    PROVE  OpenPositionsUsd = 0 /\ SumFunction(FeesOpen) = 0 /\ Open = {}
<1>1. \A m \in MarketIds : Costs[m] = 0 /\ FeesOpen[m] = 0
  BY SidesAre, SumsOfNone DEF Costs, FeesOpen, CostOf, OpenFees, NoPosition
<1>2. Costs \in [MarketIds -> Int] /\ FeesOpen \in [MarketIds -> Int]
  BY OpenSums
<1>3. SumFunction(Costs) = 0 /\ SumFunction(FeesOpen) = 0
  BY <1>1, <1>2, MarketIdsFinite, SumOfZeros
<1>4. Open = {}
  BY DEF Open, NoPosition
<1> QED BY <1>3, <1>4, OpenSums

LEMMA OpenIsFinite == IsFiniteSet(Open) /\ Cardinality(Open) \in Nat
<1>1. Open \in SUBSET (MarketIds \X Sides)
  BY DEF Open
<1>2. IsFiniteSet(Open)
  BY <1>1, MarketIdsFinite, FS_Subset
<1> QED BY <1>2, FS_CardinalityType

-----------------------------------------------------------------------------
LEMMA InitTyped ==
    ASSUME BacktestInit
    PROVE  Typed
<1>1. PICK stored \in [MarketIds -> UNION {RowsOf[m] : m \in MarketIds}] :
        /\ \A m \in MarketIds : stored[m] \in RowsOf[m]
        /\ engines = [m \in MarketIds |-> Engine(LoadDataset(Market[m], stored[m], One \div 2))]
  BY DEF BacktestInit
<1>2. ASSUME NEW m \in MarketIds
      PROVE  Engine(LoadDataset(Market[m], stored[m], One \div 2)) \in Engines
  <2>1. stored[m] \in Histories /\ IsFiniteSet(stored[m].rows)
    BY <1>1, BacktestAssumption
  <2>2. Market[m] \in [endTime : Nat, strike : Nat]
    BY BacktestAssumption
  <2> QED BY <2>1, <2>2, EngineType
<1>3. engines \in [MarketIds -> Engines]
  BY <1>1, <1>2
<1>4. positions \in [MarketIds -> [Sides -> Positions]]
  <2>1. NoPosition \in Positions
    BY ConfigTypes, EmptySeq DEF NoPosition, Positions
  <2> QED BY <2>1 DEF BacktestInit
<1>5. /\ tail \in Seq(MarketIds) /\ resolved \subseteq MarketIds
      /\ lastTriggered \in [MarketIds -> Nat \cup {-1}]
      /\ cash \in Int /\ \A d \in DOMAIN daily : daily[d] \in Int
  BY BacktestAssumption DEF BacktestInit
<1>6. /\ counts \in [generated : Nat, triggered : Nat, approvals : Nat, rejections : Nat]
      /\ counts.approvals + counts.rejections <= counts.triggered
      /\ counts.triggered <= counts.generated
  BY DEF BacktestInit
<1> QED BY <1>3, <1>4, <1>5, <1>6 DEF Typed

LEMMA InitPositions ==
    ASSUME BacktestInit
    PROVE  /\ \A m \in MarketIds, s \in Sides : positions[m][s] = NoPosition
           /\ PositionsInv
<1>1. \A m \in MarketIds, s \in Sides : positions[m][s] = NoPosition
  BY DEF BacktestInit
<1>2. ASSUME NEW m \in MarketIds, NEW s \in Sides PROVE PositionInv(m, s)
  <2>1. positions[m][s] = NoPosition
    BY <1>1
  <2>2. NoPosition.cost = UsdOf(NoPosition.fills) /\ DOMAIN NoPosition.fills = {}
    BY SumsOfNone DEF NoPosition
  <2> QED BY <2>1, <2>2 DEF PositionInv, PositionIs
<1> QED BY <1>1, <1>2 DEF PositionsInv

LEMMA BacktestInitEstablishes ==
    ASSUME BacktestInit
    PROVE  BacktestInv
<1>1. Typed
  BY InitTyped
<1>2. CyclesInv
  <2>1. queue = AllCycles(engines)
    BY DEF BacktestInit
  <2>2. ASSUME NEW c \in queue PROVE CycleInv(c)
    <3>1. PICK m \in MarketIds : c \in CyclesOf(m, engines)
      BY <2>1 DEF AllCycles
    <3>2. PICK k \in DOMAIN Timestamps(engines[m]) :
            c = [market |-> m, index |-> k, t |-> Timestamps(engines[m])[k]]
      BY <3>1 DEF CyclesOf
    <3>3. k \in DOMAIN engines[m].ticks /\ Timestamps(engines[m])[k] = engines[m].ticks[k].t
      BY <3>2 DEF Timestamps
    <3>4. engines[m].ticks \in Seq(TickRows)
      BY <1>1 DEF Typed, Engines
    <3>5. k \in Nat /\ engines[m].ticks[k] \in TickRows
      <4>1. DOMAIN engines[m].ticks = 1..Len(engines[m].ticks) /\ Len(engines[m].ticks) \in Nat
        BY <3>4, LenProperties
      <4> QED BY <3>3, <3>4, <4>1, ElementOfSeq
    <3> QED BY <3>2, <3>3, <3>5 DEF CycleInv, TickRows
  <2> QED BY <2>2 DEF CyclesInv
<1>3. LeftOver
  <2>1. tail = Input
    BY DEF BacktestInit
  <2>2. \A m \in MarketIds : m \in Range(Input)
    BY BacktestAssumption DEF Range
  <2> QED BY <2>1, <2>2 DEF LeftOver
<1>4. PositionsInv
  BY InitPositions
<1>5. trades = <<>> /\ asked = <<>> /\ report = <<>> /\ cash = InitialBalance
  BY DEF BacktestInit
<1>6. TradesInv /\ AskedInv /\ ReportInv
  <2>1. DOMAIN <<>> = {} /\ <<>> \in Seq(TradeRecords)
    BY EmptySeq
  <2> QED BY <1>5, <2>1 DEF TradesInv, Apart, AskedInv, ReportInv
<1>7. OpenPositionsUsd = 0 /\ SumFunction(FeesOpen) = 0 /\ Open = {}
  BY <1>1, InitPositions, NothingOpen
<1>8. LedgerBalances
  BY <1>5, <1>7, SumsOfNone, BacktestAssumption DEF LedgerBalances, FeesOpen
<1>9. OpenWithinLimits
  BY <1>7, ConfigTypes, FS_EmptySet DEF OpenWithinLimits
<1> QED BY <1>1, <1>2, <1>3, <1>4, <1>6, <1>8, <1>9 DEF BacktestInv

-----------------------------------------------------------------------------
(* What a resolution adds to the trades: of every side that is open, one.   *)
LEMMA TradesSum ==
    ASSUME NEW list \in Seq(TradeRecords)
    PROVE  /\ Deltas(list) \in Seq(Int) /\ Len(Deltas(list)) = Len(list)
           /\ SumFunction(Deltas(list)) \in Int /\ FeesOfTrades(list) \in Int
           /\ [k \in DOMAIN list |-> list[k].fees] \in Seq(Int)
           /\ Len([k \in DOMAIN list |-> list[k].fees]) = Len(list)
<1> DEFINE n == Len(list)  p == Deltas(list)  f == [k \in DOMAIN list |-> list[k].fees]
<1>1. n \in Nat /\ DOMAIN list = 1..n /\ \A k \in 1..n : list[k] \in TradeRecords
  BY LenProperties, ElementOfSeq
<1>2. IsFiniteSet(1..n)
  BY <1>1, FS_Interval
<1>3. p \in [1..n -> Int] /\ f \in [1..n -> Int]
  BY <1>1 DEF Deltas, TradeRecords
<1> HIDE DEF p, f
<1>4. p \in Seq(Int) /\ Len(p) = n /\ f \in Seq(Int) /\ Len(f) = n
  <2>1. ASSUME NEW q \in Nat, NEW h \in [1..q -> Int] PROVE h \in Seq(Int) /\ Len(h) = q
    OBVIOUS
  <2> HIDE DEF n
  <2> QED BY <1>1, <1>3, <2>1
<1>5. SumFunction(p) \in Int /\ SumFunction(f) \in Int
  BY <1>2, <1>3, SumIsInteger
<1> QED BY <1>4, <1>5 DEF p, f, FeesOfTrades

LEMMA OneTradeMore ==
    ASSUME NEW list \in Seq(TradeRecords), NEW rec \in TradeRecords
    PROVE  LET more == list \o <<rec>>
           IN  /\ more \in Seq(TradeRecords) /\ Len(more) = Len(list) + 1
               /\ \A k \in 1..Len(list) : more[k] = list[k]
               /\ more[Len(list) + 1] = rec
               /\ SumFunction(Deltas(more)) = SumFunction(Deltas(list)) + rec.pnl
               /\ FeesOfTrades(more) = FeesOfTrades(list) + rec.fees
<1> DEFINE more == list \o <<rec>>  n == Len(list)
           f(l) == [k \in DOMAIN l |-> l[k].fees]
<1>1. n \in Nat /\ DOMAIN list = 1..n
  BY LenProperties
<1>2. /\ more \in Seq(TradeRecords) /\ Len(more) = n + 1
      /\ \A k \in 1..n : more[k] = list[k]
      /\ more[n + 1] = rec
  <2>1. <<rec>> \in Seq(TradeRecords) /\ Len(<<rec>>) = 1 /\ <<rec>>[1] = rec
    OBVIOUS
  <2>2. /\ more \in Seq(TradeRecords) /\ Len(more) = Len(list) + Len(<<rec>>)
        /\ \A i \in 1..Len(list) + Len(<<rec>>) :
              more[i] = IF i <= Len(list) THEN list[i] ELSE <<rec>>[i - Len(list)]
    BY <2>1, ConcatProperties
  <2> HIDE DEF more
  <2> QED BY <1>1, <2>1, <2>2
<1>3. DOMAIN more = 1..(n + 1)
  BY <1>2, LenProperties
<1>4. /\ \A i \in 1..n : Deltas(more)[i] = Deltas(list)[i] /\ f(more)[i] = f(list)[i]
      /\ Deltas(more)[n + 1] = rec.pnl /\ f(more)[n + 1] = rec.fees
  <2> HIDE DEF more
  <2> QED BY <1>1, <1>2, <1>3 DEF Deltas
<1>5. /\ Deltas(more) \in Seq(Int) /\ Len(Deltas(more)) = n + 1
      /\ f(more) \in Seq(Int) /\ Len(f(more)) = n + 1
      /\ Deltas(list) \in Seq(Int) /\ Len(Deltas(list)) = n
      /\ f(list) \in Seq(Int) /\ Len(f(list)) = n
  <2> HIDE DEF more
  <2> QED BY <1>2, TradesSum
<1>6. ASSUME NEW s \in Seq(Int), NEW t \in Seq(Int), Len(s) = n, Len(t) = n + 1,
             \A i \in 1..n : t[i] = s[i]
      PROVE  SumFunction(t) = SumFunction(s) + t[n + 1]
  BY <1>6, SumOneLonger
<1>7. SumFunction(Deltas(more)) = SumFunction(Deltas(list)) + rec.pnl
  <2> HIDE DEF more, n, f
  <2> QED BY <1>4, <1>5, <1>6
<1>8. SumFunction(f(more)) = SumFunction(f(list)) + rec.fees
  <2> HIDE DEF more, n, f
  <2> QED BY <1>4, <1>5, <1>6
<1>9. FeesOfTrades(more) = SumFunction(f(more)) /\ FeesOfTrades(list) = SumFunction(f(list))
  BY DEF FeesOfTrades
<1> HIDE DEF f
<1>10. FeesOfTrades(more) = FeesOfTrades(list) + rec.fees
  BY <1>8, <1>9
<1> QED BY <1>2, <1>7, <1>10

LEMMA TradeOfType ==
    ASSUME Typed, NEW m \in MarketIds, NEW s \in Sides, NEW at \in Nat, PositionInv(m, s)
    PROVE  /\ TradeOf(m, s, at) \in TradeRecords
           /\ TradeOf(m, s, at).market = m /\ TradeOf(m, s, at).side = s
           /\ TradeOf(m, s, at).pnl = PnlOf(m, s) /\ TradeOf(m, s, at).t = at
           /\ TradeOf(m, s, at).fees = FeesOf(positions[m][s].fills)
           /\ TradeOf(m, s, at).exit = ExitPrice(m, s)
           /\ TradeOf(m, s, at).win
                 <=> TradeOf(m, s, at).exit = 1 /\ TradeOf(m, s, at).usd < TradeOf(m, s, at).shares
<1> DEFINE pos == positions[m][s]
<1>1. /\ pos.size \in Nat /\ pos.cost \in Nat /\ pos.predicted \in 0..One
      /\ UsdOf(pos.fills) \in Int /\ FeesOf(pos.fills) \in Int
      /\ ExitPrice(m, s) \in {0, 1} /\ PnlOf(m, s) \in Int
  BY PositionType DEF Positions
<1>2. TradeOf(m, s, at) =
        [market |-> m, side |-> s, usd |-> UsdOf(pos.fills), shares |-> pos.size,
         fees |-> FeesOf(pos.fills), exit |-> ExitPrice(m, s), pnl |-> PnlOf(m, s),
         win |-> PnlOf(m, s) > 0, predicted |-> pos.predicted, t |-> at]
  BY DEF TradeOf
<1>3. PnlOf(m, s) > 0 <=> ExitPrice(m, s) = 1 /\ UsdOf(pos.fills) < pos.size
  <2>1. pos.cost = UsdOf(pos.fills)
    BY DEF PositionInv, PositionIs
  <2>2. PnlOf(m, s) = pos.size * ExitPrice(m, s) - pos.cost
    BY DEF PnlOf
  <2>3. CASE ExitPrice(m, s) = 1
    BY <1>1, <2>1, <2>2, <2>3
  <2>4. CASE ExitPrice(m, s) = 0
    BY <1>1, <2>1, <2>2, <2>4
  <2> QED BY <1>1, <2>3, <2>4
<1> HIDE DEF pos
<1>4. TradeOf(m, s, at) \in TradeRecords
  BY <1>1, <1>2 DEF TradeRecords
<1>5. TradeOf(m, s, at).win
         <=> TradeOf(m, s, at).exit = 1 /\ TradeOf(m, s, at).usd < TradeOf(m, s, at).shares
  <2>1. /\ TradeOf(m, s, at).win = (PnlOf(m, s) > 0)
        /\ TradeOf(m, s, at).exit = ExitPrice(m, s)
        /\ TradeOf(m, s, at).usd = UsdOf(pos.fills) /\ TradeOf(m, s, at).shares = pos.size
    BY <1>2
  <2> QED BY <1>3, <2>1
<1>6. /\ TradeOf(m, s, at).market = m /\ TradeOf(m, s, at).side = s
      /\ TradeOf(m, s, at).pnl = PnlOf(m, s) /\ TradeOf(m, s, at).t = at
      /\ TradeOf(m, s, at).fees = FeesOf(pos.fills)
      /\ TradeOf(m, s, at).exit = ExitPrice(m, s)
  BY <1>2
<1> QED BY <1>4, <1>5, <1>6 DEF pos

Adds(list, more, m, s, at) ==
    /\ more \in Seq(TradeRecords)
    /\ SumFunction(Deltas(more)) = SumFunction(Deltas(list)) + PnlOf(m, s)
    /\ FeesOfTrades(more) = FeesOfTrades(list) + FeesOf(positions[m][s].fills)
    /\ \A k \in DOMAIN more : \/ k \in DOMAIN list /\ more[k] = list[k]
                              \/ k = Len(list) + 1 /\ more[k] = TradeOf(m, s, at)

LEMMA ClosingAdds ==
    ASSUME Typed, NEW m \in MarketIds, NEW s \in Sides, NEW at \in Nat, PositionInv(m, s),
           NEW list \in Seq(TradeRecords)
    PROVE  Adds(list, list \o Closing(m, s, at), m, s, at)
<1> DEFINE rec == TradeOf(m, s, at)  more == list \o Closing(m, s, at)
<1>1. SumFunction(Deltas(list)) \in Int /\ FeesOfTrades(list) \in Int
  BY TradesSum
<1>2. CASE positions[m][s].size > 0
  <2>1. rec \in TradeRecords /\ rec.pnl = PnlOf(m, s) /\ rec.fees = FeesOf(positions[m][s].fills)
    BY TradeOfType
  <2>2. more = list \o <<rec>>
    BY <1>2 DEF Closing
  <2> HIDE DEF rec, more
  <2>3. /\ more \in Seq(TradeRecords) /\ Len(more) = Len(list) + 1
        /\ \A k \in 1..Len(list) : more[k] = list[k]
        /\ more[Len(list) + 1] = rec
        /\ SumFunction(Deltas(more)) = SumFunction(Deltas(list)) + rec.pnl
        /\ FeesOfTrades(more) = FeesOfTrades(list) + rec.fees
    BY <2>1, <2>2, OneTradeMore
  <2>4. Len(list) \in Nat /\ DOMAIN list = 1..Len(list) /\ DOMAIN more = 1..(Len(list) + 1)
    BY <2>3, LenProperties
  <2>5. \A k \in DOMAIN more : \/ k \in DOMAIN list /\ more[k] = list[k]
                               \/ k = Len(list) + 1 /\ more[k] = rec
    BY <2>3, <2>4
  <2> QED BY <2>1, <2>3, <2>5 DEF Adds, more, rec
<1>3. CASE ~(positions[m][s].size > 0)
  <2>1. positions[m][s] = NoPosition
    BY <1>3, PositionType DEF PositionInv, PositionIs, Positions
  <2>2. more = list
    <3>1. Closing(m, s, at) = <<>>
      BY <1>3 DEF Closing
    <3> QED BY <3>1, ConcatEmptySeq
  <2>3. PnlOf(m, s) = 0 /\ FeesOf(positions[m][s].fills) = 0
    <3>1. positions[m][s].size = 0 /\ positions[m][s].cost = 0 /\ positions[m][s].fills = <<>>
      BY <2>1 DEF NoPosition
    <3>2. ExitPrice(m, s) \in {0, 1}
      BY DEF ExitPrice
    <3>3. PnlOf(m, s) = 0
      BY <3>1, <3>2 DEF PnlOf
    <3> QED BY <3>1, <3>3, SumsOfNone
  <2> QED BY <1>1, <2>2, <2>3 DEF Adds
<1> QED BY <1>2, <1>3

LEMMA AddsApart ==
    ASSUME NEW list \in Seq(TradeRecords), NEW more, NEW m \in MarketIds, NEW s \in Sides, NEW at,
           Adds(list, more, m, s, at), Apart(list),
           TradeOf(m, s, at).market = m, TradeOf(m, s, at).side = s,
           \A k \in DOMAIN list : list[k].market # m \/ list[k].side # s
    PROVE  Apart(more)
<1> SUFFICES ASSUME NEW j \in DOMAIN more, NEW k \in DOMAIN more, j # k
             PROVE  more[j].market # more[k].market \/ more[j].side # more[k].side
  BY DEF Apart
<1>1. /\ (j \in DOMAIN list /\ more[j] = list[j])
            \/ (j = Len(list) + 1 /\ more[j] = TradeOf(m, s, at))
      /\ (k \in DOMAIN list /\ more[k] = list[k])
            \/ (k = Len(list) + 1 /\ more[k] = TradeOf(m, s, at))
  BY DEF Adds
<1> QED BY <1>1 DEF Apart

-----------------------------------------------------------------------------
(* A resolution keeps the invariant.                                        *)
Resolves(m, at) ==
    /\ m \in MarketIds /\ m \notin resolved /\ at \in Nat
    /\ at < engines[m].market.endTime => at = LastTimestamp(engines[m])
    /\ ResolveMarket(m, at)
    /\ engines' = engines /\ queue' \in SUBSET queue

LEMMA ResolvedPositions ==
    ASSUME Typed, NEW m, NEW at, Resolves(m, at)
    PROVE  /\ positions' \in [MarketIds -> [Sides -> Positions]]
           /\ \A s \in Sides : positions'[m][s] = NoPosition
           /\ \A x \in MarketIds \ {m} : positions'[x] = positions[x]
           /\ resolved' = resolved \cup {m} /\ resolved' \subseteq MarketIds
<1>1. positions' = [positions EXCEPT ![m] = [s \in Sides |-> Deleted(@[s])]]
  BY DEF Resolves, ResolveMarket
<1>2. NoPosition \in Positions
  BY ConfigTypes, EmptySeq DEF NoPosition, Positions
<1>3. resolved' = resolved \cup {m} /\ m \in MarketIds
  BY DEF Resolves, ResolveMarket
<1> QED BY <1>1, <1>2, <1>3 DEF Typed, Deleted

LEMMA ResolveKeepsPositions ==
    ASSUME Typed, PositionsInv, NEW m, NEW at, Resolves(m, at)
    PROVE  PositionsInv'
<1> SUFFICES ASSUME NEW x \in MarketIds, NEW s \in Sides PROVE PositionInv(x, s)'
  BY DEF PositionsInv
<1>1. /\ \A r \in Sides : positions'[m][r] = NoPosition
      /\ \A y \in MarketIds \ {m} : positions'[y] = positions[y]
      /\ resolved' = resolved \cup {m}
      /\ engines' = engines /\ queue' \in SUBSET queue
  BY ResolvedPositions DEF Resolves
<1>2. CASE x = m
  <2>1. positions'[x][s] = NoPosition
    BY <1>1, <1>2
  <2>2. NoPosition.cost = UsdOf(NoPosition.fills) /\ DOMAIN NoPosition.fills = {}
    BY SumsOfNone DEF NoPosition
  <2> QED BY <2>1, <2>2 DEF PositionInv, PositionIs
<1>3. CASE x # m
  <2>1. positions'[x][s] = positions[x][s] /\ PositionInv(x, s)
    BY <1>1, <1>3 DEF PositionsInv
  <2>2. \A f : FillIs(f, x, engines, queue) => FillIs(f, x, engines', queue')
    BY <1>1 DEF FillIs
  <2> QED BY <1>1, <1>3, <2>1, <2>2 DEF PositionInv, PositionIs
<1> QED BY <1>2, <1>3

LEMMA ResolveAdds ==
    ASSUME Typed, PositionsInv, TradesInv, NEW m, NEW at, Resolves(m, at)
    PROVE  \E one \in Seq(TradeRecords) :
              /\ Adds(trades, one, m, "YES", at) /\ Adds(one, trades', m, "NO", at)
<1>1. /\ m \in MarketIds /\ at \in Nat
      /\ trades' = (trades \o Closing(m, "YES", at)) \o Closing(m, "NO", at)
  BY DEF Resolves, ResolveMarket
<1>2. PositionInv(m, "YES") /\ PositionInv(m, "NO") /\ trades \in Seq(TradeRecords)
  BY <1>1, SidesAre DEF PositionsInv, TradesInv
<1> DEFINE one == trades \o Closing(m, "YES", at)
<1>3. Adds(trades, one, m, "YES", at)
  BY <1>1, <1>2, SidesAre, ClosingAdds
<1>4. one \in Seq(TradeRecords)
  BY <1>3 DEF Adds
<1> HIDE DEF one
<1>5. Adds(one, one \o Closing(m, "NO", at), m, "NO", at)
  BY <1>1, <1>2, <1>4, SidesAre, ClosingAdds
<1>6. trades' = one \o Closing(m, "NO", at)
  BY <1>1 DEF one
<1> QED BY <1>3, <1>4, <1>5, <1>6

LEMMA ResolveKeepsTrades ==
    ASSUME Typed, PositionsInv, TradesInv, NEW m, NEW at, Resolves(m, at)
    PROVE  TradesInv'
<1>1. PICK one \in Seq(TradeRecords) :
            Adds(trades, one, m, "YES", at) /\ Adds(one, trades', m, "NO", at)
  BY ResolveAdds
<1>2. /\ m \in MarketIds /\ at \in Nat /\ m \notin resolved
      /\ resolved' = resolved \cup {m} /\ engines' = engines
      /\ at < engines[m].market.endTime => at = LastTimestamp(engines[m])
  BY ResolvedPositions DEF Resolves
<1>3. ASSUME NEW s \in Sides
      PROVE  /\ TradeOf(m, s, at) \in TradeRecords
             /\ TradeOf(m, s, at).market = m /\ TradeOf(m, s, at).side = s
             /\ TradeOf(m, s, at).t = at
             /\ TradeOf(m, s, at).exit = ExitPrice(m, s)
             /\ TradeOf(m, s, at).win
                   <=> TradeOf(m, s, at).exit = 1
                         /\ TradeOf(m, s, at).usd < TradeOf(m, s, at).shares
  BY <1>2, TradeOfType DEF PositionsInv
<1>4. \A k \in DOMAIN trades : trades[k].market # m
  BY <1>2 DEF TradesInv, TradeStands
<1>5. Apart(one)
  BY <1>1, <1>2, <1>3, <1>4, SidesAre, AddsApart DEF TradesInv
<1>6. \A k \in DOMAIN one : one[k].market # m \/ one[k].side # "NO"
  BY <1>1, <1>3, <1>4, SidesAre DEF Adds
<1>7. Apart(trades')
  BY <1>1, <1>2, <1>3, <1>5, <1>6, SidesAre, AddsApart
<1>8. ASSUME NEW k \in DOMAIN trades'
      PROVE  \/ \E h \in DOMAIN trades : trades'[k] = trades[h]
             \/ \E s \in Sides : trades'[k] = TradeOf(m, s, at)
  BY <1>1, SidesAre DEF Adds
<1>9. ASSUME NEW s \in Sides PROVE TradeStands(TradeOf(m, s, at), engines, resolved \cup {m})
  <2> DEFINE rec == TradeOf(m, s, at)
  <2>1. rec.market = m /\ rec.side = s /\ rec.exit = ExitPrice(m, s)
    BY <1>3
  <2>2. rec.t < engines[m].market.endTime => rec.t = LastTimestamp(engines[m])
    BY <1>2, <1>3
  <2>3. rec.win <=> rec.exit = 1 /\ rec.usd < rec.shares
    BY <1>3
  <2> HIDE DEF rec
  <2>4. TradeStands(rec, engines, resolved \cup {m})
    BY <2>1, <2>2, <2>3 DEF TradeStands, ExitPrice
  <2> QED BY <2>4 DEF rec
<1>10. \A r : TradeStands(r, engines, resolved) => TradeStands(r, engines, resolved \cup {m})
  BY DEF TradeStands
<1>11. ASSUME NEW k \in DOMAIN trades' PROVE TradeStands(trades'[k], engines', resolved')
  BY <1>2, <1>8, <1>9, <1>10 DEF TradesInv
<1>12. trades' \in Seq(TradeRecords)
  BY <1>1 DEF Adds
<1> QED BY <1>7, <1>11, <1>12 DEF TradesInv

(* The two ledgers: what the resolution takes out of the positions, the     *)
(* trades and the cash take up.                                             *)
LEMMA ResolvedSums ==
    ASSUME Typed, NEW m, NEW at, Resolves(m, at)
    PROVE  /\ OpenPositionsUsd' = OpenPositionsUsd - CostOf(m)
           /\ SumFunction([x \in MarketIds |-> OpenFees(x)'])
                 = SumFunction(FeesOpen) - OpenFees(m)
<1>1. /\ m \in MarketIds
      /\ \A s \in Sides : positions'[m][s] = NoPosition
      /\ \A x \in MarketIds \ {m} : positions'[x] = positions[x]
  BY ResolvedPositions DEF Resolves
<1> DEFINE c2 == [x \in MarketIds |-> CostOf(x)']  f2 == [x \in MarketIds |-> OpenFees(x)']
<1>2. /\ c2[m] = 0 /\ f2[m] = 0
      /\ \A x \in MarketIds \ {m} : c2[x] = Costs[x] /\ f2[x] = FeesOpen[x]
  <2>1. CostOf(m)' = 0 /\ OpenFees(m)' = 0
    BY <1>1, SidesAre, SumsOfNone DEF CostOf, OpenFees, NoPosition
  <2>2. \A x \in MarketIds \ {m} : CostOf(x)' = CostOf(x) /\ OpenFees(x)' = OpenFees(x)
    BY <1>1 DEF CostOf, OpenFees
  <2> QED BY <1>1, <2>1, <2>2 DEF Costs, FeesOpen
<1>3. Costs \in [MarketIds -> Int] /\ FeesOpen \in [MarketIds -> Int]
  BY OpenSums
<1>4. DOMAIN c2 = MarketIds /\ DOMAIN f2 = MarketIds
  OBVIOUS
<1>5. OpenPositionsUsd' = SumFunction(c2)
  BY DEF OpenPositionsUsd
<1>6. Costs[m] = CostOf(m) /\ FeesOpen[m] = OpenFees(m)
  BY <1>1 DEF Costs, FeesOpen
<1>7. c2 \in [MarketIds -> Int] /\ f2 \in [MarketIds -> Int]
  <2>1. \A x \in MarketIds : c2[x] \in Int /\ f2[x] \in Int
    <3> HIDE DEF c2, f2
    <3> QED BY <1>2, <1>3
  <2> QED BY <2>1
<1> HIDE DEF c2, f2
<1>8. /\ SumFunction(c2) = SumFunction(Costs) + (c2[m] - Costs[m])
      /\ SumFunction(f2) = SumFunction(FeesOpen) + (f2[m] - FeesOpen[m])
  BY <1>1, <1>2, <1>3, <1>7, MarketIdsFinite, SumChange
<1>9. /\ SumFunction(Costs) \in Int /\ SumFunction(FeesOpen) \in Int
      /\ Costs[m] \in Int /\ FeesOpen[m] \in Int /\ OpenPositionsUsd = SumFunction(Costs)
  BY <1>1, <1>3, OpenSums
<1>10. /\ OpenPositionsUsd' = OpenPositionsUsd - CostOf(m)
       /\ SumFunction(f2) = SumFunction(FeesOpen) - OpenFees(m)
  BY <1>2, <1>5, <1>6, <1>8, <1>9
<1> QED BY <1>10 DEF f2

LEMMA ResolveKeepsLedger ==
    ASSUME Typed, PositionsInv, TradesInv, LedgerBalances, NEW m, NEW at, Resolves(m, at)
    PROVE  LedgerBalances' /\ cash' \in Int
<1>1. PICK one \in Seq(TradeRecords) :
            Adds(trades, one, m, "YES", at) /\ Adds(one, trades', m, "NO", at)
  BY ResolveAdds
<1> DEFINE pY == PnlOf(m, "YES")  pN == PnlOf(m, "NO")
           fY == FeesOf(positions[m]["YES"].fills)  fN == FeesOf(positions[m]["NO"].fills)
           cY == positions[m]["YES"].cost  cN == positions[m]["NO"].cost
           gY == Payout(m, "YES")  gN == Payout(m, "NO")
           sd == SumFunction(Deltas(trades))  sf == FeesOfTrades(trades)
<1>2. m \in MarketIds
  BY DEF Resolves
<1>3. /\ pY \in Int /\ pN \in Int /\ fY \in Int /\ fN \in Int
      /\ cY \in Int /\ cN \in Int /\ gY \in Int /\ gN \in Int
      /\ pY = gY - cY /\ pN = gN - cN
  <2>1. ASSUME NEW s \in Sides
        PROVE  /\ PnlOf(m, s) \in Int /\ FeesOf(positions[m][s].fills) \in Int
               /\ positions[m][s].cost \in Int /\ Payout(m, s) \in Int
               /\ PnlOf(m, s) = Payout(m, s) - positions[m][s].cost
    <3>1. positions[m][s] \in Positions
      BY <1>2, PositionType
    <3>2. positions[m][s].cost \in Int
      BY <3>1 DEF Positions
    <3> QED BY <1>2, <3>2, PositionType
  <2> QED BY <2>1, SidesAre
<1>4. /\ SumFunction(Deltas(trades')) = sd + pY + pN
      /\ FeesOfTrades(trades') = sf + fY + fN
      /\ sd \in Int /\ sf \in Int
  <2>1. sd \in Int /\ sf \in Int
    BY TradesSum DEF TradesInv
  <2> QED BY <1>1, <2>1 DEF Adds
<1>5. cash' = cash + gY + gN
  BY DEF Resolves, ResolveMarket
<1>6. CostOf(m) = cY + cN /\ OpenFees(m) = fY + fN
  BY DEF CostOf, OpenFees
<1>7. /\ OpenPositionsUsd' = OpenPositionsUsd - CostOf(m)
      /\ SumFunction([x \in MarketIds |-> OpenFees(x)']) = SumFunction(FeesOpen) - OpenFees(m)
  BY ResolvedSums
<1>8. cash + OpenPositionsUsd + SumFunction(FeesOpen) = InitialBalance + sd - sf
  BY DEF LedgerBalances, FeesOpen
<1>9. cash \in Int /\ OpenPositionsUsd \in Int /\ SumFunction(FeesOpen) \in Int
      /\ InitialBalance \in Int
  BY OpenSums, BacktestAssumption DEF Typed
<1> DEFINE open2 == OpenPositionsUsd'  fees2 == SumFunction([x \in MarketIds |-> OpenFees(x)'])
           sd2 == SumFunction(Deltas(trades'))  sf2 == FeesOfTrades(trades')
<1>10. cash' + open2 + fees2 = InitialBalance + sd2 - sf2 /\ cash' \in Int
  <2>1. open2 = OpenPositionsUsd - (cY + cN) /\ fees2 = SumFunction(FeesOpen) - (fY + fN)
    BY <1>6, <1>7
  <2> HIDE DEF pY, pN, fY, fN, cY, cN, gY, gN, sd, sf, open2, fees2, sd2, sf2
  <2>2. sd2 = sd + pY + pN /\ sf2 = sf + fY + fN
    BY <1>4 DEF sd2, sf2
  <2> QED BY <1>3, <1>4, <1>5, <1>8, <1>9, <2>1, <2>2
<1> QED BY <1>10 DEF LedgerBalances

LEMMA ResolveKeepsLimits ==
    ASSUME Typed, OpenWithinLimits, NEW m, NEW at, Resolves(m, at)
    PROVE  OpenWithinLimits'
<1>1. /\ m \in MarketIds
      /\ \A s \in Sides : positions'[m][s] = NoPosition
      /\ \A x \in MarketIds \ {m} : positions'[x] = positions[x]
  BY ResolvedPositions DEF Resolves
<1>2. Open' \in SUBSET Open
  BY <1>1 DEF Open, NoPosition
<1>3. Cardinality(Open') <= Cardinality(Open) /\ Cardinality(Open') \in Nat
  BY <1>2, OpenIsFinite, FS_Subset, FS_CardinalityType
<1>4. Costs[m] \in Nat /\ Costs[m] = CostOf(m)
  BY <1>1, OpenSums DEF Costs
<1>5. OpenPositionsUsd' = OpenPositionsUsd - CostOf(m) /\ OpenPositionsUsd \in Int
  <2>1. OpenPositionsUsd' = OpenPositionsUsd - CostOf(m)
    BY ResolvedSums
  <2>2. OpenPositionsUsd \in Int
    BY OpenSums
  <2> QED BY <2>1, <2>2
<1>6. OpenPositionsUsd' <= MaxPosition /\ Cardinality(Open') <= MaxOpenPositions
  BY <1>3, <1>4, <1>5, OpenIsFinite, ConfigTypes DEF OpenWithinLimits
<1> QED BY <1>6 DEF OpenWithinLimits

LEMMA ResolveKeepsDaily ==
    ASSUME Typed, NEW m, NEW at, Resolves(m, at)
    PROVE  \A d \in DOMAIN daily' : daily'[d] \in Int
<1> DEFINE sum == PnlOf(m, "YES") + PnlOf(m, "NO")
<1>1. sum \in Int
  <2>1. PnlOf(m, "YES") \in Int /\ PnlOf(m, "NO") \in Int
    BY SidesAre, PositionType DEF Resolves
  <2> QED BY <2>1
<1>2. RealizedToday(at) \in Int
  BY DEF RealizedToday, Typed
<1>3. AddRealizedPnlToday(at, sum) \/ daily' = daily
  BY DEF Resolves, ResolveMarket
<1> HIDE DEF sum
<1>4. CASE AddRealizedPnlToday(at, sum)
  BY <1>1, <1>2, <1>4 DEF AddRealizedPnlToday, Typed
<1>5. CASE daily' = daily
  BY <1>5 DEF Typed
<1> QED BY <1>3, <1>4, <1>5

-----------------------------------------------------------------------------
(* A fill keeps the invariant.                                              *)
Fills(c, s, fill, predicted) ==
    /\ c \in queue /\ \A d \in queue \ {c} : Before(c, d)
    /\ queue' = queue \ {c}
    /\ c.market \notin resolved /\ s \in Sides
    /\ fill.usd \in Nat \ {0} /\ fill.shares \in Nat \ {0} /\ fill.fee \in Nat
    /\ predicted \in 0..One
    /\ cash' = cash - fill.usd - fill.fee
    /\ positions' = [positions EXCEPT ![c.market][s] = Opened(@, fill, c.t, predicted)]
    /\ engines' = engines /\ resolved' = resolved /\ trades' = trades

LEMMA FillAppended ==
    ASSUME NEW fills \in Seq(FillRows), NEW f \in FillRows
    PROVE  LET more == Append(fills, f)
           IN  /\ more \in Seq(FillRows)
               /\ UsdOf(more) = UsdOf(fills) + f.usd
               /\ FeesOf(more) = FeesOf(fills) + f.fee
               /\ \A k \in DOMAIN more : more[k] = f \/ (k \in DOMAIN fills /\ more[k] = fills[k])
<1> DEFINE more == Append(fills, f)  n == Len(fills)
           u(l) == [k \in DOMAIN l |-> l[k].usd]  e(l) == [k \in DOMAIN l |-> l[k].fee]
<1>1. /\ more \in Seq(FillRows) /\ Len(more) = n + 1
      /\ \A k \in 1..n : more[k] = fills[k]
      /\ more[n + 1] = f
  BY AppendProperties
<1>2. n \in Nat /\ DOMAIN fills = 1..n
  BY LenProperties
<1> HIDE DEF more
<1>3. DOMAIN more = 1..(n + 1)
  BY <1>1, LenProperties
<1>4. ASSUME NEW l \in Seq(FillRows)
      PROVE  u(l) \in Seq(Int) /\ Len(u(l)) = Len(l) /\ e(l) \in Seq(Int) /\ Len(e(l)) = Len(l)
  <2>1. /\ Len(l) \in Nat /\ DOMAIN l = 1..Len(l)
        /\ \A k \in 1..Len(l) : l[k] \in FillRows
    BY LenProperties, ElementOfSeq
  <2>2. u(l) \in [1..Len(l) -> Int] /\ e(l) \in [1..Len(l) -> Int]
    BY <2>1 DEF FillRows
  <2>3. ASSUME NEW q \in Nat, NEW h \in [1..q -> Int] PROVE h \in Seq(Int) /\ Len(h) = q
    OBVIOUS
  <2> HIDE DEF u, e
  <2> QED BY <2>1, <2>2, <2>3
<1>5. /\ \A k \in 1..n : u(more)[k] = u(fills)[k] /\ e(more)[k] = e(fills)[k]
      /\ u(more)[n + 1] = f.usd /\ e(more)[n + 1] = f.fee
  BY <1>1, <1>2, <1>3
<1>6. ASSUME NEW s \in Seq(Int), NEW t \in Seq(Int), Len(s) = n, Len(t) = n + 1,
             \A i \in 1..n : t[i] = s[i]
      PROVE  SumFunction(t) = SumFunction(s) + t[n + 1]
  BY <1>6, SumOneLonger
<1>7. /\ u(more) \in Seq(Int) /\ Len(u(more)) = n + 1
      /\ e(more) \in Seq(Int) /\ Len(e(more)) = n + 1
      /\ u(fills) \in Seq(Int) /\ Len(u(fills)) = n
      /\ e(fills) \in Seq(Int) /\ Len(e(fills)) = n
  <2> HIDE DEF u, e
  <2> QED BY <1>1, <1>4
<1>8. /\ UsdOf(more) = SumFunction(u(more)) /\ UsdOf(fills) = SumFunction(u(fills))
      /\ FeesOf(more) = SumFunction(e(more)) /\ FeesOf(fills) = SumFunction(e(fills))
  BY DEF UsdOf, FeesOf
<1>9. UsdOf(more) = UsdOf(fills) + f.usd
  <2> HIDE DEF u, e, n
  <2> QED BY <1>5, <1>6, <1>7, <1>8
<1>10. FeesOf(more) = FeesOf(fills) + f.fee
  <2> HIDE DEF u, e, n
  <2> QED BY <1>5, <1>6, <1>7, <1>8
<1>11. \A k \in DOMAIN more : more[k] = f \/ (k \in DOMAIN fills /\ more[k] = fills[k])
  BY <1>1, <1>2, <1>3
<1> QED BY <1>1, <1>9, <1>10, <1>11 DEF more

LEMMA CycleType ==
    ASSUME Typed, CyclesInv, NEW c \in queue
    PROVE  /\ c.market \in MarketIds /\ c.t \in Nat /\ c.index \in Nat
           /\ engines[c.market] \in Engines
           /\ c.index \in DOMAIN engines[c.market].ticks
           /\ engines[c.market].ticks[c.index].t = c.t
           /\ engines[c.market].ticks # <<>>
<1>1. /\ c \in [market : MarketIds, index : Nat, t : Nat]
      /\ c.index \in DOMAIN engines[c.market].ticks
      /\ c.t = engines[c.market].ticks[c.index].t
  BY DEF CyclesInv, CycleInv
<1>2. engines[c.market] \in Engines
  BY <1>1 DEF Typed
<1>3. engines[c.market].ticks # <<>>
  BY <1>1
<1> QED BY <1>1, <1>2, <1>3

(* The first cycle is of a tick before those of its market to come.         *)
LEMMA FirstCycle ==
    ASSUME Typed, CyclesInv, NEW c \in queue, NEW d \in queue, Before(c, d), c.market = d.market
    PROVE  c.index < d.index
<1>1. /\ c.index \in DOMAIN engines[c.market].ticks /\ engines[c.market].ticks[c.index].t = c.t
      /\ d.index \in DOMAIN engines[c.market].ticks /\ engines[c.market].ticks[d.index].t = d.t
      /\ c.index \in Nat /\ d.index \in Nat /\ c.t \in Nat /\ d.t \in Nat
      /\ c.market \in MarketIds
  BY CycleType
<1>2. Sorted(engines[c.market].ticks)
  BY CycleType DEF Engines
<1>3. c.market \in Nat
  BY <1>1, MarketIdsFinite DEF MarketIds
<1>4. d.index <= c.index => d.t <= c.t
  BY <1>1, <1>2 DEF Sorted
<1> QED BY <1>1, <1>3, <1>4 DEF Before

FillMade(fill, t) == [usd |-> fill.usd, fee |-> fill.fee, t |-> t + Latency]

LEMMA FilledPositions ==
    ASSUME Typed, CyclesInv, NEW c, NEW s, NEW fill, NEW predicted, Fills(c, s, fill, predicted)
    PROVE  LET m == c.market  old == positions[m][s]  new == positions'[m][s]
           IN  /\ m \in MarketIds /\ s \in Sides
               /\ FillMade(fill, c.t) \in FillRows
               /\ new.size = old.size + fill.shares /\ new.cost = old.cost + fill.usd
               /\ new.fills = Append(old.fills, FillMade(fill, c.t))
               /\ positions' \in [MarketIds -> [Sides -> Positions]]
               /\ \A x \in MarketIds, r \in Sides :
                     x # m \/ r # s => positions'[x][r] = positions[x][r]
<1> DEFINE m == c.market  old == positions[m][s]  new == Opened(old, fill, c.t, predicted)
<1>1. m \in MarketIds /\ s \in Sides /\ c.t \in Nat
  BY CycleType DEF Fills
<1>2. /\ fill.usd \in Nat /\ fill.shares \in Nat /\ fill.fee \in Nat /\ predicted \in 0..One
      /\ Latency \in Nat
  BY BacktestAssumption DEF Fills
<1>3. FillMade(fill, c.t) \in FillRows
  BY <1>1, <1>2 DEF FillRows, FillMade
<1>4. old \in Positions
  BY <1>1 DEF Typed
<1>5. /\ new.size = old.size + fill.shares /\ new.cost = old.cost + fill.usd
      /\ new.fills = Append(old.fills, FillMade(fill, c.t))
  BY DEF Opened, FillMade
<1>6. new \in Positions
  <2>1. Append(old.fills, FillMade(fill, c.t)) \in Seq(FillRows)
    BY <1>3, <1>4, FillAppended DEF Positions
  <2>2. /\ old.size + fill.shares \in Nat /\ old.cost + fill.usd \in Nat
        /\ (IF old = NoPosition THEN c.t ELSE old.since) \in Int
        /\ (IF old = NoPosition THEN predicted ELSE old.predicted) \in 0..One
    <3>1. old.size \in Nat /\ old.cost \in Nat /\ old.since \in Int /\ old.predicted \in 0..One
      BY <1>4 DEF Positions
    <3> HIDE DEF old, new
    <3> QED BY <1>1, <1>2, <3>1
  <2>3. new = [size |-> old.size + fill.shares, cost |-> old.cost + fill.usd,
               fills |-> Append(old.fills, FillMade(fill, c.t)),
               since |-> IF old = NoPosition THEN c.t ELSE old.since,
               predicted |-> IF old = NoPosition THEN predicted ELSE old.predicted]
    BY DEF Opened, FillMade
  <2> HIDE DEF new, old
  <2> QED BY <2>1, <2>2, <2>3 DEF Positions
<1>7. positions' = [positions EXCEPT ![m][s] = new]
  BY DEF Fills
<1> HIDE DEF new, old
<1>8. positions \in [MarketIds -> [Sides -> Positions]]
  BY DEF Typed
<1>9. /\ positions' \in [MarketIds -> [Sides -> Positions]] /\ positions'[m][s] = new
      /\ \A x \in MarketIds, r \in Sides :
            x # m \/ r # s => positions'[x][r] = positions[x][r]
  BY <1>1, <1>6, <1>7, <1>8
<1> QED BY <1>1, <1>3, <1>5, <1>9 DEF old

LEMMA FillKeepsPositions ==
    ASSUME Typed, CyclesInv, PositionsInv,
           NEW c, NEW s, NEW fill, NEW predicted, Fills(c, s, fill, predicted)
    PROVE  PositionsInv'
<1> SUFFICES ASSUME NEW x \in MarketIds, NEW r \in Sides PROVE PositionInv(x, r)'
  BY DEF PositionsInv
<1> DEFINE m == c.market  old == positions[m][s]  new == positions'[m][s]
           f == FillMade(fill, c.t)
<1>1. /\ m \in MarketIds /\ s \in Sides /\ f \in FillRows
      /\ new.size = old.size + fill.shares /\ new.cost = old.cost + fill.usd
      /\ new.fills = Append(old.fills, f)
      /\ x # m \/ r # s => positions'[x][r] = positions[x][r]
  BY FilledPositions
<1>2. /\ c \in queue /\ (\A d \in queue \ {c} : Before(c, d)) /\ queue' = queue \ {c}
      /\ engines' = engines /\ resolved' = resolved
      /\ m \notin resolved /\ fill.shares \in Nat \ {0} /\ fill.usd \in Nat
  BY DEF Fills
<1>3. \A g, y : FillIs(g, y, engines, queue) => FillIs(g, y, engines', queue')
  BY <1>2 DEF FillIs
<1>4. PositionInv(x, r)
  BY DEF PositionsInv
<1>5. CASE x # m \/ r # s
  BY <1>1, <1>2, <1>3, <1>4, <1>5 DEF PositionInv, PositionIs
<1>6. CASE x = m /\ r = s
  <2>1. old \in Positions
    BY <1>1 DEF Typed
  <2>2. /\ old.size \in Nat /\ old.cost \in Nat /\ old.fills \in Seq(FillRows)
        /\ old.cost = UsdOf(old.fills)
        /\ \A k \in DOMAIN old.fills : FillIs(old.fills[k], m, engines, queue)
    BY <1>4, <1>6, <2>1 DEF PositionInv, PositionIs, Positions
  <2>3. new.size # 0
    <3> HIDE DEF old, new
    <3> QED BY <1>1, <1>2, <2>2
  <2>4. /\ UsdOf(Append(old.fills, f)) = UsdOf(old.fills) + f.usd
        /\ \A k \in DOMAIN Append(old.fills, f) :
              \/ Append(old.fills, f)[k] = f
              \/ k \in DOMAIN old.fills /\ Append(old.fills, f)[k] = old.fills[k]
    <3> HIDE DEF old, f
    <3> QED BY <1>1, <2>2, FillAppended
  <2>5. new.cost = UsdOf(new.fills)
    <3>1. f.usd = fill.usd
      BY DEF FillMade
    <3> HIDE DEF old, new, f
    <3> QED BY <1>1, <2>2, <2>4, <3>1
  <2>6. FillIs(f, m, engines', queue')
    <3>1. /\ c.index \in DOMAIN engines[m].ticks /\ engines[m].ticks[c.index].t = c.t
      BY <1>2, CycleType
    <3>2. f.t = c.t + Latency
      BY DEF FillMade
    <3>3. \A d \in queue' : d.market = m => c.index < d.index
      BY <1>2, FirstCycle
    <3> HIDE DEF f
    <3> QED BY <1>2, <3>1, <3>2, <3>3 DEF FillIs, FillOf
  <2>7. \A k \in DOMAIN new.fills : FillIs(new.fills[k], m, engines', queue')
    <3> HIDE DEF f, old, new, m
    <3> SUFFICES ASSUME NEW k \in DOMAIN new.fills PROVE FillIs(new.fills[k], m, engines', queue')
      OBVIOUS
    <3> QED BY <1>1, <1>3, <2>2, <2>4, <2>6
  <2>8. engines[m].ticks # <<>>
    BY <1>2, CycleType
  <2>9. PositionIs(new, m, engines', queue', resolved')
    <3> HIDE DEF new, old, f, m
    <3> QED BY <1>2, <2>3, <2>5, <2>7, <2>8 DEF PositionIs
  <2> QED BY <1>6, <2>9 DEF PositionInv
<1> QED BY <1>5, <1>6

LEMMA FilledSums ==
    ASSUME Typed, CyclesInv, PositionsInv,
           NEW c, NEW s, NEW fill, NEW predicted, Fills(c, s, fill, predicted)
    PROVE  /\ OpenPositionsUsd' = OpenPositionsUsd + fill.usd
           /\ SumFunction([x \in MarketIds |-> OpenFees(x)']) = SumFunction(FeesOpen) + fill.fee
<1> DEFINE m == c.market  old == positions[m][s]  new == positions'[m][s]
           c2 == [x \in MarketIds |-> CostOf(x)']  f2 == [x \in MarketIds |-> OpenFees(x)']
<1>1. /\ m \in MarketIds /\ s \in Sides
      /\ new.cost = old.cost + fill.usd /\ new.fills = Append(old.fills, FillMade(fill, c.t))
      /\ \A x \in MarketIds, r \in Sides :
            x # m \/ r # s => positions'[x][r] = positions[x][r]
      /\ FillMade(fill, c.t) \in FillRows
  BY FilledPositions
<1>2. FeesOf(new.fills) = FeesOf(old.fills) + fill.fee
  <2>1. old.fills \in Seq(FillRows)
    BY <1>1, PositionType DEF Positions
  <2>2. FillMade(fill, c.t).fee = fill.fee
    BY DEF FillMade
  <2> HIDE DEF old, new
  <2> QED BY <1>1, <2>1, <2>2, FillAppended
<1>3. fill.usd \in Int /\ fill.fee \in Int
  BY DEF Fills
<1>4. \A x \in MarketIds \ {m} : c2[x] = Costs[x] /\ f2[x] = FeesOpen[x]
  BY <1>1, SidesAre DEF Costs, FeesOpen, CostOf, OpenFees
<1>5. CostOf(m)' = CostOf(m) + fill.usd
  <2>1. positions[m]["YES"].cost \in Int /\ positions[m]["NO"].cost \in Int
    <3>1. positions[m]["YES"] \in Positions /\ positions[m]["NO"] \in Positions
      BY <1>1, SidesAre DEF Typed
    <3> HIDE DEF m
    <3> QED BY <3>1 DEF Positions
  <2>2. CASE s = "YES"
    <3>1. positions'[m]["NO"] = positions[m]["NO"]
      BY <1>1, <2>2, SidesAre
    <3> QED BY <1>1, <1>3, <2>1, <2>2, <3>1 DEF CostOf
  <2>3. CASE s = "NO"
    <3>1. positions'[m]["YES"] = positions[m]["YES"]
      BY <1>1, <2>3, SidesAre
    <3> QED BY <1>1, <1>3, <2>1, <2>3, <3>1 DEF CostOf
  <2> QED BY <1>1, <2>2, <2>3, SidesAre
<1>6. OpenFees(m)' = OpenFees(m) + fill.fee
  <2>1. FeesOf(positions[m]["YES"].fills) \in Int /\ FeesOf(positions[m]["NO"].fills) \in Int
    BY <1>1, SidesAre, PositionType
  <2>2. CASE s = "YES"
    <3>1. positions'[m]["NO"] = positions[m]["NO"]
      BY <1>1, <2>2, SidesAre
    <3> QED BY <1>2, <1>3, <2>1, <2>2, <3>1 DEF OpenFees
  <2>3. CASE s = "NO"
    <3>1. positions'[m]["YES"] = positions[m]["YES"]
      BY <1>1, <2>3, SidesAre
    <3> QED BY <1>2, <1>3, <2>1, <2>3, <3>1 DEF OpenFees
  <2> QED BY <1>1, <2>2, <2>3, SidesAre
<1>7. Costs \in [MarketIds -> Int] /\ FeesOpen \in [MarketIds -> Int]
  BY OpenSums
<1>8. /\ Costs[m] = CostOf(m) /\ FeesOpen[m] = OpenFees(m)
      /\ c2[m] = Costs[m] + fill.usd /\ f2[m] = FeesOpen[m] + fill.fee
  BY <1>1, <1>5, <1>6 DEF Costs, FeesOpen
<1>9. DOMAIN c2 = MarketIds /\ DOMAIN f2 = MarketIds
  OBVIOUS
<1>10. OpenPositionsUsd' = SumFunction(c2)
  BY DEF OpenPositionsUsd
<1>11. c2 \in [MarketIds -> Int] /\ f2 \in [MarketIds -> Int]
  <2>1. \A x \in MarketIds : c2[x] \in Int /\ f2[x] \in Int
    <3> HIDE DEF c2, f2
    <3> QED BY <1>1, <1>3, <1>4, <1>7, <1>8
  <2> QED BY <2>1
<1> HIDE DEF c2, f2
<1>12. /\ SumFunction(c2) = SumFunction(Costs) + (c2[m] - Costs[m])
       /\ SumFunction(f2) = SumFunction(FeesOpen) + (f2[m] - FeesOpen[m])
  <2>1. ASSUME NEW f \in [MarketIds -> Int], NEW g \in [MarketIds -> Int],
               \A x \in MarketIds \ {m} : g[x] = f[x]
        PROVE  SumFunction(g) = SumFunction(f) + (g[m] - f[m])
    <3>1. m \in MarketIds /\ IsFiniteSet(MarketIds)
      BY <1>1, MarketIdsFinite
    <3> HIDE DEF m, old, new
    <3> QED BY <2>1, <3>1, SumChange
  <2>2. \A x \in MarketIds \ {m} : c2[x] = Costs[x]
    BY <1>4
  <2>3. \A x \in MarketIds \ {m} : f2[x] = FeesOpen[x]
    BY <1>4
  <2>4. SumFunction(c2) = SumFunction(Costs) + (c2[m] - Costs[m])
    BY <1>7, <1>11, <2>1, <2>2
  <2>5. SumFunction(f2) = SumFunction(FeesOpen) + (f2[m] - FeesOpen[m])
    BY <1>7, <1>11, <2>1, <2>3
  <2> QED BY <2>4, <2>5
<1>13. /\ SumFunction(Costs) \in Int /\ SumFunction(FeesOpen) \in Int
       /\ Costs[m] \in Int /\ FeesOpen[m] \in Int /\ OpenPositionsUsd = SumFunction(Costs)
  BY <1>1, <1>7, OpenSums
<1>14. /\ OpenPositionsUsd' = OpenPositionsUsd + fill.usd
       /\ SumFunction(f2) = SumFunction(FeesOpen) + fill.fee
  BY <1>3, <1>8, <1>10, <1>12, <1>13
<1> QED BY <1>14 DEF f2

LEMMA FillKeepsLedger ==
    ASSUME Typed, CyclesInv, PositionsInv, TradesInv, LedgerBalances,
           NEW c, NEW s, NEW fill, NEW predicted, Fills(c, s, fill, predicted)
    PROVE  LedgerBalances' /\ cash' \in Int
<1> DEFINE open2 == OpenPositionsUsd'  fees2 == SumFunction([x \in MarketIds |-> OpenFees(x)'])
           sd == SumFunction(Deltas(trades))  sf == FeesOfTrades(trades)
           fees == SumFunction(FeesOpen)
<1>1. open2 = OpenPositionsUsd + fill.usd /\ fees2 = fees + fill.fee
  BY FilledSums
<1>2. cash' = cash - fill.usd - fill.fee /\ fill.usd \in Int /\ fill.fee \in Int /\ trades' = trades
  BY DEF Fills
<1>3. cash + OpenPositionsUsd + fees = InitialBalance + sd - sf
  BY DEF LedgerBalances, FeesOpen
<1>4. cash \in Int /\ OpenPositionsUsd \in Int /\ fees \in Int
  BY OpenSums DEF Typed
<1>5. sd \in Int /\ sf \in Int /\ InitialBalance \in Int
  BY TradesSum, BacktestAssumption DEF TradesInv
<1>6. cash' + open2 + fees2 = InitialBalance + sd - sf /\ cash' \in Int
  <2> HIDE DEF open2, fees2, sd, sf, fees
  <2> QED BY <1>1, <1>2, <1>3, <1>4, <1>5
<1> QED BY <1>2, <1>6 DEF LedgerBalances

LEMMA FillKeepsLimits ==
    ASSUME Typed, CyclesInv, PositionsInv, OpenWithinLimits,
           NEW c, NEW s, NEW fill, NEW predicted, Fills(c, s, fill, predicted),
           OpenPositionsUsd + fill.usd <= MaxPosition, Cardinality(Open) < MaxOpenPositions
    PROVE  OpenWithinLimits'
<1> DEFINE m == c.market
<1>1. /\ \A x \in MarketIds, r \in Sides :
            x # m \/ r # s => positions'[x][r] = positions[x][r]
  BY FilledPositions
<1>2. Open' \in SUBSET (Open \cup {<<m, s>>})
  BY <1>1 DEF Open
<1>3. /\ IsFiniteSet(Open \cup {<<m, s>>})
      /\ Cardinality(Open \cup {<<m, s>>}) <= Cardinality(Open) + 1
      /\ Cardinality(Open \cup {<<m, s>>}) \in Nat
  <2>1. /\ IsFiniteSet(Open \cup {<<m, s>>})
        /\ \/ Cardinality(Open \cup {<<m, s>>}) = Cardinality(Open)
           \/ Cardinality(Open \cup {<<m, s>>}) = Cardinality(Open) + 1
    BY OpenIsFinite, FS_AddElement
  <2> QED BY <2>1, OpenIsFinite
<1>4. /\ Cardinality(Open') <= Cardinality(Open \cup {<<m, s>>})
      /\ Cardinality(Open') \in Nat
  BY <1>2, <1>3, FS_Subset, FS_CardinalityType
<1>5. Cardinality(Open') <= MaxOpenPositions
  BY <1>3, <1>4, OpenIsFinite, ConfigTypes
<1>6. OpenPositionsUsd' = OpenPositionsUsd + fill.usd
  BY FilledSums
<1>7. OpenPositionsUsd' <= MaxPosition
  BY <1>6
<1> QED BY <1>5, <1>7 DEF OpenWithinLimits

-----------------------------------------------------------------------------
(* What a cycle asks of the risk engine, and what it then fills.            *)
LEMMA BookShown ==
    ASSUME Typed, NEW m \in MarketIds, NEW t \in Nat, NEW s \in Sides
    PROVE  LET book == SnapshotAt(engines[m], t).orderBook
           IN  /\ book.asks[s] \in Books /\ IsFiniteSet(book.asks[s])
               /\ book.bids[s] \in Books /\ IsFiniteSet(book.bids[s])
<1> DEFINE book == SnapshotAt(engines[m], t).orderBook
<1>1. engines[m] \in Engines
  BY DEF Typed
<1>2. book \in FiniteBooks \cup {EMPTY_ORDER_BOOK}
  BY <1>1, SnapshotIsOfThePast
<1> HIDE DEF book
<1>3. /\ book.asks[s] \in Books /\ IsFiniteSet(book.asks[s])
      /\ book.bids[s] \in Books /\ IsFiniteSet(book.bids[s])
  <2>1. CASE book \in FiniteBooks
    BY <2>1 DEF FiniteBooks
  <2>2. CASE book = EMPTY_ORDER_BOOK
    <3>1. book.asks[s] = {} /\ book.bids[s] = {}
      BY <2>2 DEF EMPTY_ORDER_BOOK
    <3>2. {} \in Books /\ IsFiniteSet({})
      BY FS_EmptySet DEF Books
    <3> QED BY <3>1, <3>2
  <2> QED BY <1>2, <2>1, <2>2
<1> QED BY <1>3 DEF book

LEMMA ContextShows ==
    ASSUME Typed, NEW m \in MarketIds, NEW now \in Nat, NEW quant
    PROVE  LET context == Context(m, now, quant)
           IN  /\ context.market = m /\ context.snapshot = SnapshotAt(engines[m], now)
               /\ context.snapshot.now = now /\ context.positions = positions[m]
<1>1. engines[m] \in Engines
  BY DEF Typed
<1>2. SnapshotAt(engines[m], now).now = now
  BY <1>1, SnapshotIsOfThePast
<1> QED BY <1>2 DEF Context

Signal == [valid : BOOLEAN, action : {"BUY_YES", "BUY_NO", "PASS"}, confidence : 0..One,
           edge : (-One)..One, maxEntryPrice : 0..One, fairProbability : 0..One]

LEMMA RiskInputIs ==
    ASSUME Typed, NEW m \in MarketIds, NEW now \in Nat, NEW quant, NEW signal \in Signal
    PROVE  LET in == RiskInput(Context(m, now, quant), signal)
           IN  /\ Sizable(in) /\ in.asks \in Books /\ IsFiniteSet(in.asks)
               /\ in.portfolio.usd = OpenPositionsUsd /\ in.portfolio.count = Cardinality(Open)
<1> DEFINE context == Context(m, now, quant)  book == context.snapshot.orderBook
           in == RiskInput(context, signal)
           liquidity == DepthUsd(book.bids["YES"], book.asks["YES"])
                          + DepthUsd(book.bids["NO"], book.asks["NO"])
<1>1. book = SnapshotAt(engines[m], now).orderBook
  BY ContextShows
<1>2. SideOf(signal) \in Sides
  BY SidesAre DEF SideOf
<1>3. /\ in.signal = signal /\ in.market.liquidity = liquidity
      /\ in.portfolio.usd = OpenPositionsUsd /\ in.portfolio.count = Cardinality(Open)
      /\ in.portfolio.pnlToday = RealizedToday(context.snapshot.now)
      /\ in.asks = book.asks[SideOf(signal)]
  BY DEF RiskInput
<1>4. \A s \in Sides : /\ book.asks[s] \in Books /\ IsFiniteSet(book.asks[s])
                       /\ book.bids[s] \in Books /\ IsFiniteSet(book.bids[s])
  BY <1>1, BookShown
<1>5. liquidity \in Int
  <2>1. ASSUME NEW levels \in Books, IsFiniteSet(levels) PROVE SumUsd(levels) \in Int
    <3>1. levels \in SUBSET levels
      OBVIOUS
    <3>2. SumUsd(levels) \in Nat
      BY <2>1, <3>1, LevelsSum
    <3> QED BY <3>2
  <2> DEFINE bidsY == book.bids["YES"]  asksY == book.asks["YES"]
             bidsN == book.bids["NO"]   asksN == book.asks["NO"]
  <2>2. /\ bidsY \in Books /\ IsFiniteSet(bidsY) /\ asksY \in Books /\ IsFiniteSet(asksY)
        /\ bidsN \in Books /\ IsFiniteSet(bidsN) /\ asksN \in Books /\ IsFiniteSet(asksN)
    BY <1>4, SidesAre
  <2>3. liquidity = DepthUsd(bidsY, asksY) + DepthUsd(bidsN, asksN)
    OBVIOUS
  <2> HIDE DEF bidsY, asksY, bidsN, asksN, liquidity
  <2>4. /\ SumUsd(bidsY) \in Int /\ SumUsd(asksY) \in Int
        /\ SumUsd(bidsN) \in Int /\ SumUsd(asksN) \in Int
    BY <2>1, <2>2
  <2> QED BY <2>3, <2>4 DEF DepthUsd
<1>6. RealizedToday(context.snapshot.now) \in Int
  BY DEF RealizedToday, Typed
<1>7. OpenPositionsUsd \in Int
  BY OpenSums
<1>8. signal.confidence \in Int /\ signal.edge \in Int
  BY ConfigTypes DEF Signal
<1> HIDE DEF in, liquidity, context, book
<1>9. Sizable(in)
  BY <1>3, <1>5, <1>6, <1>7, <1>8 DEF Sizable
<1>10. in.asks \in Books /\ IsFiniteSet(in.asks)
  BY <1>2, <1>3, <1>4
<1> QED BY <1>3, <1>9, <1>10 DEF in, context

(* The simulated fill of an approved signal is within what was approved,    *)
(* whichever of the two books it is from.                                   *)
LEMMA DelayedFillIs ==
    ASSUME Typed, NEW m \in MarketIds, NEW s \in Sides, NEW now \in Nat,
           NEW asks \in Books, IsFiniteSet(asks), NEW size \in Nat, NEW limit,
           SimulateFill(asks, size, limit).usd > 0
    PROVE  /\ FilledFor(DelayedFill(m, s, now, asks, size, limit), size)
           /\ DelayedFill(m, s, now, asks, size, limit).usd > 0
<1> DEFINE later == SnapshotAt(engines[m], now + Latency).orderBook.asks[s]
           delayed == SimulateFill(later, size, limit)
<1>1. FilledFor(SimulateFill(asks, size, limit), size)
  BY SimulateFillIs
<1>2. now + Latency \in Nat
  BY BacktestAssumption
<1>3. later \in Books /\ IsFiniteSet(later)
  BY <1>2, BookShown
<1>4. FilledFor(delayed, size)
  <2> HIDE DEF later
  <2> QED BY <1>3, SimulateFillIs
<1>5. DelayedFill(m, s, now, asks, size, limit)
        = IF delayed.usd > 0 THEN delayed ELSE SimulateFill(asks, size, limit)
  BY DEF DelayedFill
<1> HIDE DEF delayed, later
<1>6. CASE delayed.usd > 0
  BY <1>4, <1>5, <1>6
<1>7. CASE ~(delayed.usd > 0)
  BY <1>1, <1>5, <1>7
<1> QED BY <1>6, <1>7

-----------------------------------------------------------------------------
(* The steps.  First what a cycle does to the queue, and what is kept if    *)
(* the portfolio is left alone.                                             *)
Dequeues(c) ==
    /\ c \in queue /\ \A d \in queue \ {c} : Before(c, d)
    /\ queue' = queue \ {c} /\ UNCHANGED <<engines, tail, report>>

LEMMA DequeueKeeps ==
    ASSUME BacktestInv, NEW c, Dequeues(c)
    PROVE  /\ CyclesInv' /\ ReportInv' /\ engines' \in [MarketIds -> Engines]
           /\ tail' \in Seq(MarketIds)
           /\ resolved \subseteq resolved' => LeftOver'
           /\ asked' = asked => AskedInv'
<1>1. /\ queue' \in SUBSET queue /\ engines' = engines /\ tail' = tail /\ report' = report
      /\ queue # {}
  BY DEF Dequeues
<1>2. /\ CyclesInv /\ ReportInv /\ LeftOver /\ AskedInv
      /\ engines \in [MarketIds -> Engines] /\ tail \in Seq(MarketIds)
  BY DEF BacktestInv, Typed
<1>3. report = <<>>
  BY <1>1, <1>2 DEF ReportInv
<1>4. CyclesInv'
  BY <1>1, <1>2 DEF CyclesInv, CycleInv
<1>5. ReportInv'
  BY <1>1, <1>3 DEF ReportInv
<1>6. resolved \subseteq resolved' => LeftOver'
  BY <1>1, <1>2 DEF LeftOver
<1>7. asked' = asked => AskedInv'
  BY <1>1, <1>2 DEF AskedInv
<1> QED BY <1>1, <1>2, <1>4, <1>5, <1>6, <1>7

LEMMA QuietKeeps ==
    ASSUME BacktestInv, UNCHANGED <<engines, positions, cash, trades, resolved>>,
           queue' \in SUBSET queue
    PROVE  /\ PositionsInv' /\ TradesInv' /\ LedgerBalances' /\ OpenWithinLimits'
           /\ OpenPositionsUsd' = OpenPositionsUsd
<1>1. PositionsInv /\ TradesInv /\ LedgerBalances /\ OpenWithinLimits
  BY DEF BacktestInv
<1>2. PositionsInv'
  <2>1. \A f, m : FillIs(f, m, engines, queue) => FillIs(f, m, engines', queue')
    BY DEF FillIs
  <2> QED BY <1>1, <2>1 DEF PositionsInv, PositionInv, PositionIs
<1>3. TradesInv'
  BY <1>1 DEF TradesInv
<1>4. OpenPositionsUsd' = OpenPositionsUsd
  BY DEF OpenPositionsUsd, CostOf
<1>5. LedgerBalances'
  BY <1>1, <1>4 DEF LedgerBalances, OpenFees
<1>6. OpenWithinLimits'
  BY <1>1, <1>4 DEF OpenWithinLimits, Open
<1> QED BY <1>2, <1>3, <1>4, <1>5, <1>6

LEMMA SkipKeeps ==
    ASSUME BacktestInv, NEW c, Dequeues(c), Skip(c.market, c.t)
    PROVE  BacktestInv'
<1>1. /\ queue' \in SUBSET queue
      /\ UNCHANGED <<engines, tail, previous, lastTriggered, positions, cash, daily, trades,
                     resolved, counts, asked>>
  BY DEF Dequeues, Skip
<1>2. CyclesInv' /\ ReportInv' /\ LeftOver' /\ AskedInv'
  BY <1>1, DequeueKeeps
<1>3. PositionsInv' /\ TradesInv' /\ LedgerBalances' /\ OpenWithinLimits'
  BY <1>1, QuietKeeps
<1>4. Typed'
  <2>1. Typed
    BY DEF BacktestInv
  <2> QED BY <1>1, <2>1 DEF Typed
<1> QED BY <1>2, <1>3, <1>4 DEF BacktestInv

LEMMA ResolveKeeps ==
    ASSUME BacktestInv, NEW m, NEW at, Resolves(m, at),
           UNCHANGED <<lastTriggered, counts>>, tail' \in Seq(MarketIds)
    PROVE  Typed' /\ PositionsInv' /\ TradesInv' /\ LedgerBalances' /\ OpenWithinLimits'
<1>1. Typed /\ PositionsInv /\ TradesInv /\ LedgerBalances /\ OpenWithinLimits
  BY DEF BacktestInv
<1>2. PositionsInv' /\ TradesInv'
  BY <1>1, ResolveKeepsPositions, ResolveKeepsTrades
<1>3. LedgerBalances' /\ cash' \in Int
  BY <1>1, ResolveKeepsLedger
<1>4. OpenWithinLimits'
  BY <1>1, ResolveKeepsLimits
<1>5. /\ positions' \in [MarketIds -> [Sides -> Positions]] /\ resolved' \subseteq MarketIds
  BY <1>1, ResolvedPositions
<1>6. \A d \in DOMAIN daily' : daily'[d] \in Int
  BY <1>1, ResolveKeepsDaily
<1>7. engines' = engines
  BY DEF Resolves
<1>8. Typed'
  BY <1>1, <1>3, <1>5, <1>6, <1>7 DEF Typed
<1> QED BY <1>2, <1>3, <1>4, <1>8

LEMMA ExpireKeeps ==
    ASSUME BacktestInv, NEW c, Dequeues(c), Expire(c.market, c.t)
    PROVE  BacktestInv'
<1>1. Typed /\ CyclesInv /\ c \in queue
  BY DEF BacktestInv, Dequeues
<1>2. c.market \in MarketIds /\ c.t \in Nat /\ engines[c.market] \in Engines
  BY <1>1, CycleType
<1>3. engines[c.market].market.endTime \in Nat
  BY <1>2 DEF Engines
<1>4. Resolves(c.market, c.t)
  BY <1>2, <1>3 DEF Resolves, Expire, Dequeues
<1>5. /\ UNCHANGED <<lastTriggered, counts, asked>> /\ resolved \subseteq resolved'
      /\ tail' \in Seq(MarketIds)
  BY <1>1, <1>4, DequeueKeeps, ResolvedPositions DEF Expire
<1>6. CyclesInv' /\ ReportInv' /\ LeftOver' /\ AskedInv'
  BY <1>5, DequeueKeeps
<1>7. Typed' /\ PositionsInv' /\ TradesInv' /\ LedgerBalances' /\ OpenWithinLimits'
  BY <1>4, <1>5, ResolveKeeps
<1> QED BY <1>6, <1>7 DEF BacktestInv

LEMMA UntriggeredKeeps ==
    ASSUME BacktestInv, NEW c, Dequeues(c), NEW quant, Untriggered(c.market, c.t, quant)
    PROVE  BacktestInv'
<1>1. /\ queue' \in SUBSET queue
      /\ counts' = [counts EXCEPT !.generated = @ + 1]
      /\ UNCHANGED <<engines, tail, lastTriggered, positions, cash, daily, trades,
                     resolved, asked>>
  BY DEF Dequeues, Untriggered
<1>2. CyclesInv' /\ ReportInv' /\ LeftOver' /\ AskedInv'
  BY <1>1, DequeueKeeps
<1>3. PositionsInv' /\ TradesInv' /\ LedgerBalances' /\ OpenWithinLimits'
  BY <1>1, QuietKeeps
<1>4. Typed'
  <2>1. Typed
    BY DEF BacktestInv
  <2>2. /\ counts' \in [generated : Nat, triggered : Nat, approvals : Nat, rejections : Nat]
        /\ counts'.approvals + counts'.rejections <= counts'.triggered
        /\ counts'.triggered <= counts'.generated
    BY <1>1, <2>1 DEF Typed
  <2> QED BY <1>1, <2>1, <2>2 DEF Typed
<1> QED BY <1>2, <1>3, <1>4 DEF BacktestInv

(* What the agent is asked with is of the past, the fills of its positions  *)
(* included.                                                                *)
LEMMA AskedIsOfThePast ==
    ASSUME BacktestInv, NEW c \in queue, NEW quant
    PROVE  ContextIs(Context(c.market, c.t, quant), engines)
<1> DEFINE m == c.market  now == c.t  context == Context(m, now, quant)
           ticks == engines[m].ticks  i == c.index
<1>1. Typed /\ CyclesInv /\ PositionsInv
  BY DEF BacktestInv
<1>2. /\ m \in MarketIds /\ now \in Nat /\ i \in Nat /\ engines[m] \in Engines
      /\ i \in DOMAIN ticks /\ ticks[i].t = now
  BY <1>1, CycleType
<1>3. /\ context.market = m /\ context.snapshot = SnapshotAt(engines[m], now)
      /\ context.snapshot.now = now /\ context.positions = positions[m]
  BY <1>1, <1>2, ContextShows
<1>4. ASSUME NEW s \in Sides, NEW k \in DOMAIN positions[m][s].fills
      PROVE  \E j \in 1..(i - 1) : FillOf(positions[m][s].fills[k], ticks, j)
  <2>1. FillIs(positions[m][s].fills[k], m, engines, queue)
    BY <1>1, <1>2 DEF PositionsInv, PositionInv, PositionIs
  <2>2. PICK j \in DOMAIN ticks :
          FillOf(positions[m][s].fills[k], ticks, j) /\ \A d \in queue : d.market = m => j < d.index
    BY <2>1 DEF FillIs
  <2>3. j < i
    BY <2>2
  <2>4. j \in Nat \ {0}
    <3>1. ticks \in Seq(TickRows)
      BY <1>2 DEF Engines
    <3>2. DOMAIN ticks = 1..Len(ticks) /\ Len(ticks) \in Nat
      BY <3>1, LenProperties
    <3> HIDE DEF ticks
    <3> QED BY <3>2
  <2>5. j \in 1..(i - 1)
    <3> HIDE DEF i, ticks
    <3> QED BY <1>2, <2>3, <2>4
  <2> QED BY <2>2, <2>5
<1> HIDE DEF context, m, now, i, ticks
<1>5. ContextIs(context, engines)
  BY <1>2, <1>3, <1>4 DEF ContextIs, ticks
<1> QED BY <1>5 DEF context, m, now

(* A question counts a signal and a trigger, and an answer of the engine.   *)
LEMMA AskKeepsCounts ==
    ASSUME Typed, NEW c \in queue, NEW quant, NEW answer, AskAgent(c.market, c.t, quant, answer)
    PROVE  /\ counts' \in [generated : Nat, triggered : Nat, approvals : Nat, rejections : Nat]
           /\ counts'.approvals + counts'.rejections <= counts'.triggered
           /\ counts'.triggered <= counts'.generated
<1> DEFINE g == counts.generated  t == counts.triggered  a == counts.approvals
           r == counts.rejections
<1>1. \/ counts' = [counts EXCEPT !.generated = @ + 1, !.triggered = @ + 1]
      \/ counts' = [counts EXCEPT !.generated = @ + 1, !.triggered = @ + 1, !.rejections = @ + 1]
      \/ counts' = [counts EXCEPT !.generated = @ + 1, !.triggered = @ + 1, !.approvals = @ + 1]
  BY DEF AskAgent, Act
<1>2. counts \in [generated : Nat, triggered : Nat, approvals : Nat, rejections : Nat]
  BY DEF Typed
<1>3. g \in Nat /\ t \in Nat /\ a \in Nat /\ r \in Nat /\ a + r <= t /\ t <= g
  BY <1>2 DEF Typed
<1>4. counts = [generated |-> g, triggered |-> t, approvals |-> a, rejections |-> r]
  BY <1>2
<1>5. \E x, y \in 0..1 :
         /\ x + y <= 1
         /\ counts' = [generated |-> g + 1, triggered |-> t + 1, approvals |-> a + x,
                       rejections |-> r + y]
  <2> HIDE DEF g, t, a, r
  <2>1. CASE counts' = [counts EXCEPT !.generated = @ + 1, !.triggered = @ + 1]
    <3>1. counts' = [generated |-> g + 1, triggered |-> t + 1, approvals |-> a, rejections |-> r]
      BY <1>4, <2>1
    <3>2. a = a + 0 /\ r = r + 0
      BY <1>3
    <3> QED BY <3>1, <3>2
  <2>2. CASE counts' = [counts EXCEPT !.generated = @ + 1, !.triggered = @ + 1,
                                      !.rejections = @ + 1]
    <3>1. counts' = [generated |-> g + 1, triggered |-> t + 1, approvals |-> a,
                     rejections |-> r + 1]
      BY <1>4, <2>2
    <3>2. a = a + 0
      BY <1>3
    <3> QED BY <3>1, <3>2
  <2>3. CASE counts' = [counts EXCEPT !.generated = @ + 1, !.triggered = @ + 1,
                                      !.approvals = @ + 1]
    <3>1. counts' = [generated |-> g + 1, triggered |-> t + 1, approvals |-> a + 1,
                     rejections |-> r]
      BY <1>4, <2>3
    <3>2. r = r + 0
      BY <1>3
    <3> QED BY <3>1, <3>2
  <2> QED BY <1>1, <2>1, <2>2, <2>3
<1> HIDE DEF g, t, a, r
<1>6. PICK x \in 0..1, y \in 0..1 :
         /\ x + y <= 1
         /\ counts' = [generated |-> g + 1, triggered |-> t + 1, approvals |-> a + x,
                       rejections |-> r + y]
  BY <1>5
<1>7. /\ g + 1 \in Nat /\ t + 1 \in Nat /\ a + x \in Nat /\ r + y \in Nat
      /\ (a + x) + (r + y) <= t + 1 /\ t + 1 <= g + 1
  BY <1>3, <1>6
<1> QED BY <1>6, <1>7

(* A question fills nothing, or a fill that fits in.                        *)
LEMMA AskFills ==
    ASSUME BacktestInv, NEW c, Dequeues(c), NEW quant, NEW answer \in Signal,
           AskAgent(c.market, c.t, quant, answer)
    PROVE  \/ UNCHANGED <<cash, positions>>
           \/ \E s \in Sides : \E f, p :
                 /\ Fills(c, s, f, p)
                 /\ OpenPositionsUsd + f.usd <= MaxPosition
                 /\ Cardinality(Open) < MaxOpenPositions
<1> DEFINE m == c.market  now == c.t  context == Context(m, now, quant)
           in == RiskInput(context, answer)  verdict == Evaluate(in)
           side == SideOf(answer)
           fill == DelayedFill(m, side, now, in.asks, verdict.maxSize, verdict.maxPrice)
           predicted == IF side = "YES" THEN answer.fairProbability
                        ELSE One - answer.fairProbability
           immediate == SimulateFill(in.asks, verdict.maxSize, verdict.maxPrice)
<1> SUFFICES ASSUME ~(UNCHANGED <<cash, positions>>)
             PROVE  \E s \in Sides : \E f, p :
                       /\ Fills(c, s, f, p) /\ OpenPositionsUsd + f.usd <= MaxPosition
                       /\ Cardinality(Open) < MaxOpenPositions
  OBVIOUS
<1>1. Typed /\ CyclesInv /\ c \in queue
  BY DEF BacktestInv, Dequeues
<1>2. m \in MarketIds /\ now \in Nat /\ side \in Sides
  BY <1>1, CycleType, SidesAre DEF SideOf
<1>3. context.snapshot.now = now
  BY <1>1, <1>2, ContextShows
<1>4. /\ verdict.approved /\ immediate.usd > 0
      /\ Fill(m, context.snapshot.now, answer, verdict, in.asks)
  BY DEF AskAgent, Act
<1>5. /\ cash' = cash - fill.usd - fill.fee
      /\ positions' = [positions EXCEPT ![m][side] = Opened(@, fill, now, predicted)]
  BY <1>3, <1>4 DEF Fill
<1>6. /\ Sizable(in) /\ in.asks \in Books /\ IsFiniteSet(in.asks)
      /\ in.portfolio.usd = OpenPositionsUsd /\ in.portfolio.count = Cardinality(Open)
  BY <1>1, <1>2, RiskInputIs
<1> DEFINE size == OrderSize(in)  limit == verdict.maxPrice
<1>7. /\ ~(in.portfolio.count >= MaxOpenPositions)
      /\ ~(in.portfolio.usd + size > MaxPosition)
      /\ verdict.maxSize = size
  <2>1. Evaluate(in).approved
    BY <1>4
  <2> HIDE DEF in
  <2> QED BY <2>1, ApprovedPasses
<1>8. size \in Nat
  <2> HIDE DEF in
  <2> QED BY <1>6, SizeWithinCaps
<1>9. FilledFor(fill, size) /\ fill.usd > 0
  <2>1. SimulateFill(in.asks, size, limit).usd > 0
    BY <1>4, <1>7
  <2>2. fill = DelayedFill(m, side, now, in.asks, size, limit)
    BY <1>7
  <2> HIDE DEF in, size, limit, m, now, side, fill, verdict
  <2> QED BY <1>1, <1>2, <1>6, <1>8, <2>1, <2>2, DelayedFillIs
<1>10. predicted \in 0..One
  BY ConfigTypes DEF Signal
<1>11. /\ m \notin resolved /\ engines' = engines /\ resolved' = resolved /\ trades' = trades
       /\ queue' = queue \ {c} /\ \A d \in queue \ {c} : Before(c, d)
  BY DEF AskAgent, Replayed, Dequeues
<1>12. /\ fill.usd \in Nat \ {0} /\ fill.shares \in Nat \ {0} /\ fill.fee \in Nat
       /\ fill.usd <= size
  <2> HIDE DEF fill, size
  <2> QED BY <1>9 DEF FilledFor
<1>13. Cardinality(Open) < MaxOpenPositions
  <2> HIDE DEF in
  <2> QED BY <1>6, <1>7, OpenIsFinite, ConfigTypes
<1>14. OpenPositionsUsd + fill.usd <= MaxPosition
  <2>1. OpenPositionsUsd \in Nat
    BY <1>1, OpenSums
  <2> HIDE DEF in, fill, size
  <2> QED BY <1>6, <1>7, <1>8, <1>12, <2>1, ConfigTypes
<1>15. Fills(c, side, fill, predicted)
  <2> HIDE DEF fill, predicted, side
  <2> QED BY <1>1, <1>2, <1>5, <1>10, <1>11, <1>12 DEF Fills
<1> HIDE DEF fill, predicted, side
<1> QED BY <1>2, <1>13, <1>14, <1>15

LEMMA AskKeeps ==
    ASSUME BacktestInv, NEW c, Dequeues(c), NEW quant, NEW answer \in Signal,
           AskAgent(c.market, c.t, quant, answer)
    PROVE  BacktestInv'
<1>1. /\ Typed /\ CyclesInv /\ PositionsInv /\ TradesInv /\ LedgerBalances /\ OpenWithinLimits
      /\ c \in queue
  BY DEF BacktestInv, Dequeues
<1>2. /\ queue' \in SUBSET queue
      /\ UNCHANGED <<engines, tail, daily, trades, resolved>>
      /\ lastTriggered' = [lastTriggered EXCEPT ![c.market] = c.t]
      /\ asked' = <<Context(c.market, c.t, quant)>>
  BY DEF Dequeues, AskAgent
<1>3. CyclesInv' /\ ReportInv' /\ LeftOver'
  BY <1>2, DequeueKeeps
<1>4. AskedInv'
  <2>1. ContextIs(Context(c.market, c.t, quant), engines)
    BY <1>1, AskedIsOfThePast
  <2>2. asked'[1] = Context(c.market, c.t, quant)
    BY <1>2
  <2> QED BY <1>2, <2>1, <2>2 DEF AskedInv
<1>5. lastTriggered' \in [MarketIds -> Nat \cup {-1}]
  <2>1. c.market \in MarketIds /\ c.t \in Nat
    BY <1>1, CycleType
  <2> QED BY <1>1, <1>2, <2>1 DEF Typed
<1>6. /\ counts' \in [generated : Nat, triggered : Nat, approvals : Nat, rejections : Nat]
      /\ counts'.approvals + counts'.rejections <= counts'.triggered
      /\ counts'.triggered <= counts'.generated
  BY <1>1, AskKeepsCounts
<1>7. /\ PositionsInv' /\ TradesInv' /\ LedgerBalances' /\ OpenWithinLimits'
      /\ cash' \in Int /\ positions' \in [MarketIds -> [Sides -> Positions]]
  <2>1. CASE UNCHANGED <<cash, positions>>
    <3>1. PositionsInv' /\ TradesInv' /\ LedgerBalances' /\ OpenWithinLimits'
      BY <1>2, <2>1, QuietKeeps
    <3> QED BY <1>1, <2>1, <3>1 DEF Typed
  <2>2. ASSUME NEW s \in Sides, NEW fill, NEW predicted, Fills(c, s, fill, predicted),
               OpenPositionsUsd + fill.usd <= MaxPosition, Cardinality(Open) < MaxOpenPositions
        PROVE  /\ PositionsInv' /\ TradesInv' /\ LedgerBalances' /\ OpenWithinLimits'
               /\ cash' \in Int /\ positions' \in [MarketIds -> [Sides -> Positions]]
    <3>1. PositionsInv'
      BY <1>1, <2>2, FillKeepsPositions
    <3>2. LedgerBalances' /\ cash' \in Int
      BY <1>1, <2>2, FillKeepsLedger
    <3>3. OpenWithinLimits'
      BY <1>1, <2>2, FillKeepsLimits
    <3>4. positions' \in [MarketIds -> [Sides -> Positions]]
      BY <1>1, <2>2, FilledPositions
    <3>5. TradesInv'
      BY <1>1, <1>2 DEF TradesInv
    <3> QED BY <3>1, <3>2, <3>3, <3>4, <3>5
  <2> QED BY <2>1, <2>2, AskFills
<1>8. Typed'
  BY <1>1, <1>2, <1>5, <1>6, <1>7 DEF Typed
<1> QED BY <1>3, <1>4, <1>7, <1>8 DEF BacktestInv

LEMMA CycleKeeps ==
    ASSUME BacktestInv, Cycle
    PROVE  BacktestInv'
<1>1. PICK c \in queue : /\ \A d \in queue \ {c} : Before(c, d)
                         /\ queue' = queue \ {c} /\ UNCHANGED <<engines, tail, report>>
                         /\ Visit(c.market, c.t)
  BY DEF Cycle
<1>2. Dequeues(c)
  BY <1>1 DEF Dequeues
<1>3. CASE Skip(c.market, c.t)
  BY <1>2, <1>3, SkipKeeps
<1>4. CASE Expire(c.market, c.t)
  BY <1>2, <1>4, ExpireKeeps
<1>5. ASSUME NEW quant \in Quants, Untriggered(c.market, c.t, quant) PROVE BacktestInv'
  BY <1>2, <1>5, UntriggeredKeeps
<1>6. ASSUME NEW quant \in Quants, NEW answer \in Answers, AskAgent(c.market, c.t, quant, answer)
      PROVE  BacktestInv'
  <2>1. answer \in Signal
    BY BacktestAssumption DEF Signal
  <2> QED BY <1>2, <1>6, <2>1, AskKeeps
<1> QED BY <1>1, <1>3, <1>4, <1>5, <1>6 DEF Visit

LEMMA TruncatedKeeps ==
    ASSUME BacktestInv, Truncated
    PROVE  BacktestInv'
<1> DEFINE m == Head(tail)
<1>1. Typed /\ CyclesInv /\ LeftOver /\ AskedInv /\ ReportInv
  BY DEF BacktestInv
<1>2. /\ queue = {} /\ tail # <<>> /\ tail' = Tail(tail)
      /\ UNCHANGED <<engines, queue, lastTriggered, counts, report, asked>>
  BY DEF Truncated
<1>3. /\ m \in MarketIds /\ tail' \in Seq(MarketIds)
      /\ \A x \in Range(tail) : x = m \/ x \in Range(tail')
  <2>1. tail \in Seq(MarketIds)
    BY <1>1 DEF Typed
  <2>2. /\ Head(tail) \in MarketIds /\ Tail(tail) \in Seq(MarketIds)
        /\ Len(Tail(tail)) = Len(tail) - 1
        /\ \A i \in 1..Len(Tail(tail)) : Tail(tail)[i] = tail[i + 1]
    BY <1>2, <2>1, HeadTailProperties
  <2>3. /\ Len(tail) \in Nat /\ DOMAIN tail = 1..Len(tail)
        /\ DOMAIN Tail(tail) = 1..Len(Tail(tail))
    BY <2>1, <2>2, LenProperties
  <2>4. ASSUME NEW i \in DOMAIN tail PROVE tail[i] = m \/ tail[i] \in Range(Tail(tail))
    <3>1. CASE i = 1
      BY <1>2, <2>1, <3>1
    <3>2. CASE i # 1
      <4>1. i - 1 \in DOMAIN Tail(tail) /\ Tail(tail)[i - 1] = tail[i]
        BY <2>2, <2>3, <3>2
      <4> QED BY <4>1 DEF Range
    <3> QED BY <3>1, <3>2
  <2>5. \A x \in Range(tail) : x = m \/ x \in Range(Tail(tail))
    BY <2>4 DEF Range
  <2> QED BY <1>2, <2>2, <2>5
<1>4. CyclesInv' /\ AskedInv' /\ ReportInv'
  <2>1. report = <<>>
    BY <1>1, <1>2 DEF ReportInv
  <2> QED BY <1>1, <1>2, <2>1 DEF CyclesInv, AskedInv, ReportInv
<1>5. CASE m \in resolved \/ engines[m].ticks = <<>>
  <2>1. UNCHANGED <<positions, cash, daily, trades, resolved>>
    BY <1>5 DEF Truncated
  <2>2. PositionsInv' /\ TradesInv' /\ LedgerBalances' /\ OpenWithinLimits'
    BY <1>2, <2>1, QuietKeeps
  <2>3. Typed'
    BY <1>1, <1>2, <1>3, <2>1 DEF Typed
  <2>4. LeftOver'
    BY <1>1, <1>2, <1>3, <1>5, <2>1 DEF LeftOver
  <2> QED BY <1>4, <2>2, <2>3, <2>4 DEF BacktestInv
<1>6. CASE ~(m \in resolved \/ engines[m].ticks = <<>>)
  <2> DEFINE at == LastTimestamp(engines[m])
  <2>1. ResolveMarket(m, at)
    BY <1>6 DEF Truncated
  <2>2. at \in Nat
    <3>1. engines[m].ticks \in Seq(TickRows)
      BY <1>1, <1>3 DEF Typed, Engines
    <3>2. Len(engines[m].ticks) \in Nat \ {0}
      BY <1>6, <3>1, EmptySeq
    <3>3. Len(engines[m].ticks) \in 1..Len(engines[m].ticks)
      BY <3>2
    <3>4. engines[m].ticks[Len(engines[m].ticks)] \in TickRows
      BY <3>1, <3>3, ElementOfSeq
    <3> QED BY <3>4 DEF LastTimestamp, Last, TickRows
  <2>3. Resolves(m, at)
    BY <1>2, <1>3, <1>6, <2>1, <2>2 DEF Resolves
  <2>4. Typed' /\ PositionsInv' /\ TradesInv' /\ LedgerBalances' /\ OpenWithinLimits'
    BY <1>2, <1>3, <2>3, ResolveKeeps
  <2>5. LeftOver'
    <3>1. resolved' = resolved \cup {m}
      BY <1>1, <2>3, ResolvedPositions
    <3> QED BY <1>1, <1>2, <1>3, <3>1 DEF LeftOver
  <2> QED BY <1>4, <2>4, <2>5 DEF BacktestInv
<1> QED BY <1>5, <1>6

LEMMA ReportKeeps ==
    ASSUME BacktestInv, Report
    PROVE  BacktestInv'
<1>1. /\ queue = {} /\ tail = <<>>
      /\ report' = <<[metrics |-> ComputeBacktestMetrics(trades),
                      calibration |-> ComputeCalibration(trades, One),
                      finalBalance |-> cash, finalEquity |-> cash + OpenPositionsUsd]>>
      /\ UNCHANGED <<engines, queue, tail, lastTriggered, positions, cash, daily,
                     trades, resolved, counts, asked>>
  BY DEF Report
<1>2. Typed /\ CyclesInv /\ LeftOver /\ AskedInv
  BY DEF BacktestInv
<1>3. /\ PositionsInv' /\ TradesInv' /\ LedgerBalances' /\ OpenWithinLimits'
      /\ OpenPositionsUsd' = OpenPositionsUsd
  BY <1>1, QuietKeeps
<1>4. Typed' /\ CyclesInv' /\ LeftOver' /\ AskedInv'
  BY <1>1, <1>2 DEF Typed, CyclesInv, LeftOver, AskedInv
<1>5. ReportInv'
  BY <1>1, <1>3 DEF ReportInv
<1> QED BY <1>3, <1>4, <1>5 DEF BacktestInv

LEMMA StutterKeeps ==
    ASSUME BacktestInv, UNCHANGED backtestVars
    PROVE  BacktestInv'
<1>1. UNCHANGED <<engines, queue, tail, lastTriggered, positions, cash, daily,
                  trades, resolved, counts, report, asked>>
  BY DEF backtestVars
<1>2. Typed /\ CyclesInv /\ LeftOver /\ AskedInv /\ ReportInv
  BY DEF BacktestInv
<1>3. /\ PositionsInv' /\ TradesInv' /\ LedgerBalances' /\ OpenWithinLimits'
      /\ OpenPositionsUsd' = OpenPositionsUsd
  BY <1>1, QuietKeeps
<1>4. Typed'
  BY <1>1, <1>2 DEF Typed
<1>5. CyclesInv' /\ LeftOver'
  BY <1>1, <1>2 DEF CyclesInv, CycleInv, LeftOver
<1>6. AskedInv'
  BY <1>1, <1>2 DEF AskedInv
<1>7. ReportInv'
  BY <1>1, <1>2, <1>3 DEF ReportInv
<1> QED BY <1>3, <1>4, <1>5, <1>6, <1>7 DEF BacktestInv

(* The invariant of a backtest holds of it.                                 *)
THEOREM BacktestInvariant == BacktestSpec => []BacktestInv
<1>1. BacktestInit => BacktestInv
  BY BacktestInitEstablishes
<1>2. BacktestInv /\ [BacktestNext]_backtestVars => BacktestInv'
  BY CycleKeeps, TruncatedKeeps, ReportKeeps, StutterKeeps DEF BacktestNext
<1> QED BY <1>1, <1>2, PTL DEF BacktestSpec

-----------------------------------------------------------------------------
(***************************************************************************)
(* What the invariant of a backtest says of the portfolio and of the past. *)
(***************************************************************************)
LEMMA BacktestTypes ==
    ASSUME BacktestInv
    PROVE  BacktestTypeOK
<1>1. Typed /\ CyclesInv /\ PositionsInv
  BY DEF BacktestInv
<1>2. MarketIds = DOMAIN engines
  BY <1>1 DEF Typed
<1>3. \A c \in queue : c.market \in MarketIds /\ c.t \in Nat
  BY <1>1 DEF CyclesInv, CycleInv
<1>4. Range(tail) \subseteq MarketIds
  <2>1. DOMAIN tail = 1..Len(tail) /\ \A k \in 1..Len(tail) : tail[k] \in MarketIds
    BY <1>1, LenProperties, ElementOfSeq DEF Typed
  <2> QED BY <2>1 DEF Range
<1>5. ASSUME NEW m \in MarketIds, NEW s \in Sides
      PROVE  /\ {positions[m][s].size, positions[m][s].cost} \subseteq Nat
             /\ positions[m][s].size = 0 => positions[m][s] = NoPosition
  <2>1. positions[m][s] \in Positions /\ PositionInv(m, s)
    BY <1>1, PositionType DEF PositionsInv
  <2>2. positions[m][s].size \in Nat /\ positions[m][s].cost \in Nat
    BY <2>1 DEF Positions
  <2> QED BY <2>1, <2>2 DEF PositionInv, PositionIs
<1> QED BY <1>1, <1>2, <1>3, <1>4, <1>5 DEF Typed, BacktestTypeOK

(* When there is nothing more to replay, every position is resolved.        *)
LEMMA EverythingIsRealized ==
    ASSUME BacktestInv
    PROVE  AllRealized
<1>1. Typed /\ LeftOver /\ PositionsInv /\ TradesInv /\ ReportInv
  BY DEF BacktestInv
<1> SUFFICES ASSUME report # <<>>
             PROVE  /\ Open = {} /\ report[1].finalEquity = report[1].finalBalance
                    /\ \A j, k \in DOMAIN trades :
                          j # k => <<trades[j].market, trades[j].side>>
                                      # <<trades[k].market, trades[k].side>>
                    /\ \A k \in DOMAIN trades :
                          LET e == engines[trades[k].market]
                          IN  /\ trades[k].exit = IF e.outcome = trades[k].side THEN 1 ELSE 0
                              /\ trades[k].t < e.market.endTime => trades[k].t = LastTimestamp(e)
  BY DEF AllRealized
<1>2. tail = <<>> /\ report[1].finalBalance = cash
      /\ report[1].finalEquity = cash + OpenPositionsUsd
  BY <1>1 DEF ReportInv
<1>3. ASSUME NEW m \in MarketIds, NEW s \in Sides PROVE positions[m][s] = NoPosition
  <2>1. m \in resolved \/ engines[m].ticks = <<>>
    BY <1>1, <1>2 DEF LeftOver, Range
  <2>2. PositionInv(m, s)
    BY <1>1 DEF PositionsInv
  <2> QED BY <2>1, <2>2 DEF PositionInv, PositionIs
<1>4. OpenPositionsUsd = 0 /\ Open = {}
  BY <1>1, <1>3, NothingOpen
<1>5. cash + 0 = cash
  BY <1>1 DEF Typed
<1>6. ASSUME NEW j \in DOMAIN trades, NEW k \in DOMAIN trades, j # k
      PROVE  <<trades[j].market, trades[j].side>> # <<trades[k].market, trades[k].side>>
  BY <1>1, <1>6 DEF TradesInv, Apart
<1>7. ASSUME NEW k \in DOMAIN trades PROVE TradeStands(trades[k], engines, resolved)
  BY <1>1 DEF TradesInv
<1> QED BY <1>2, <1>4, <1>5, <1>6, <1>7 DEF TradeStands

(* After any number of fills and resolutions the portfolio adds up to the   *)
(* trades and is within its limits, and at the end nothing is open          *)
(* (portfolio-simulator.ts, backtest-runner.ts:236-250).                    *)
THEOREM PortfolioAddsUpHolds == BacktestSpec => []PortfolioAddsUp
<1>1. BacktestInv => PortfolioAddsUp
  BY BacktestTypes, EverythingIsRealized DEF BacktestInv, PortfolioAddsUp
<1> QED BY <1>1, BacktestInvariant, PTL

-----------------------------------------------------------------------------
LEMMA AskedWithThePast ==
    ASSUME BacktestInv
    PROVE  SeesOnlyThePast
<1>1. Typed /\ AskedInv
  BY DEF BacktestInv
<1> SUFFICES ASSUME NEW k \in DOMAIN asked
             PROVE  LET now  == asked[k].snapshot.now
                        past == Until(engines[asked[k].market], now)
                    IN  /\ asked[k].snapshot = SnapshotAt(past, now)
                        /\ \A b \in Range(past.books) : asked[k].snapshot.orderBook.t >= b.t
                        /\ Len(asked[k].snapshot.priceHistory) = Len(past.prices)
                        /\ Len(asked[k].snapshot.volumeHistory) = Len(past.ticks)
  BY DEF SeesOnlyThePast
<1>2. asked # <<>> /\ k = 1
  BY <1>1 DEF AskedInv
<1>3. ContextIs(asked[1], engines)
  BY <1>1, <1>2 DEF AskedInv
<1> DEFINE m == asked[1].market  now == asked[1].snapshot.now
<1>4. m \in MarketIds /\ now \in Nat /\ asked[1].snapshot = SnapshotAt(engines[m], now)
  BY <1>3 DEF ContextIs
<1>5. engines[m] \in Engines
  BY <1>1, <1>4 DEF Typed
<1> HIDE DEF m, now
<1>6. LET past == Until(engines[m], now)  shown == SnapshotAt(engines[m], now)
      IN  /\ shown = SnapshotAt(past, now)
          /\ \A b \in Range(past.books) : shown.orderBook.t >= b.t
          /\ Len(shown.priceHistory) = Len(past.prices)
          /\ Len(shown.volumeHistory) = Len(past.ticks)
  BY <1>4, <1>5, SnapshotIsOfThePast
<1> QED BY <1>2, <1>4, <1>6 DEF m, now

(* A fill that was before an earlier tick than the one the agent is asked   *)
(* at is past, if ticks are a latency apart.                                *)
LEMMA FillsShownArePast ==
    ASSUME BacktestInv
    PROVE  FillsArePastIfApart
<1>1. Typed /\ AskedInv
  BY DEF BacktestInv
<1> SUFFICES ASSUME TicksApart, NEW k \in DOMAIN asked, NEW s \in Sides,
                    NEW f \in Range(asked[k].positions[s].fills)
             PROVE  f.t <= asked[k].snapshot.now
  BY DEF FillsArePastIfApart, FillsArePast
<1>2. asked # <<>> /\ k = 1
  BY <1>1 DEF AskedInv
<1>3. ContextIs(asked[1], engines)
  BY <1>1, <1>2 DEF AskedInv
<1> DEFINE m == asked[1].market  now == asked[1].snapshot.now  ticks == engines[m].ticks
           fills == asked[1].positions[s].fills
<1>4. m \in MarketIds
  BY <1>3 DEF ContextIs
<1>5. PICK i \in DOMAIN ticks :
         /\ ticks[i].t = now
         /\ \A n \in DOMAIN fills : \E j \in 1..(i - 1) : FillOf(fills[n], ticks, j)
  BY <1>3 DEF ContextIs
<1>6. PICK n \in DOMAIN fills : f = fills[n]
  BY <1>2 DEF Range
<1>7. PICK j \in 1..(i - 1) : FillOf(f, ticks, j)
  BY <1>5, <1>6
<1>8. j \in DOMAIN ticks /\ f.t = ticks[j].t + Latency
  BY <1>7 DEF FillOf
<1>9. DOMAIN ticks = 1..Len(ticks) /\ Len(ticks) \in Nat
  <2>1. engines[m] \in Engines
    BY <1>1, <1>4 DEF Typed
  <2>2. ticks \in Seq(TickRows)
    BY <2>1 DEF Engines
  <2> HIDE DEF ticks
  <2> QED BY <2>2, LenProperties
<1>10. j < i
  BY <1>5, <1>7, <1>9
<1>11. ticks[j].t + Latency <= ticks[i].t
  BY <1>4, <1>5, <1>8, <1>10 DEF TicksApart
<1> QED BY <1>2, <1>5, <1>8, <1>11

(* The agent is asked with what was there at the instant, whatever else the *)
(* history holds (replay-engine.ts:10-32, backtest-runner.ts:423-432).      *)
THEOREM NoLookAheadHolds == BacktestSpec => []NoLookAhead
<1>1. BacktestInv => NoLookAhead
  BY AskedWithThePast, FillsShownArePast DEF NoLookAhead
<1> QED BY <1>1, BacktestInvariant, PTL

-----------------------------------------------------------------------------
(***************************************************************************)
(* The figures of the result.  What the walk over the trades has by the    *)
(* k-th of them: their sum, the highest sum so far, and the deepest fall.  *)
(***************************************************************************)
UpTo(d, k) == SumFunction(SubSeq(d, 1, k))

LEMMA UpToGrows ==
    ASSUME NEW d \in Seq(Int)
    PROVE  /\ UpTo(d, 0) = 0
           /\ \A k \in 0..Len(d) : UpTo(d, k) \in Int
           /\ \A k \in 1..Len(d) : UpTo(d, k) = UpTo(d, k - 1) + d[k]
<1>1. Len(d) \in Nat /\ \A k \in 1..Len(d) : d[k] \in Int
  BY LenProperties, ElementOfSeq
<1>2. ASSUME NEW k \in 0..Len(d)
      PROVE  /\ SubSeq(d, 1, k) \in Seq(Int) /\ Len(SubSeq(d, 1, k)) = k
             /\ \A i \in 1..k : SubSeq(d, 1, k)[i] = d[i]
  <2>1. 1 \in Int /\ k \in Int /\ \A i \in 1..k : d[i] \in Int
    BY <1>1
  <2>2. /\ SubSeq(d, 1, k) \in Seq(Int)
        /\ Len(SubSeq(d, 1, k)) = IF 1 <= k THEN k - 1 + 1 ELSE 0
        /\ \A i \in 1..(k - 1 + 1) : SubSeq(d, 1, k)[i] = d[1 + i - 1]
    BY <2>1, SubSeqProperties
  <2>3. k - 1 + 1 = k /\ (~(1 <= k) => k = 0) /\ \A i \in 1..k : 1 + i - 1 = i
    BY <1>1
  <2> QED BY <2>2, <2>3
<1>3. UpTo(d, 0) = 0
  <2>1. SubSeq(d, 1, 0) = <<>>
    BY SubSeqEmpty
  <2>2. <<>> \in [{} -> Int]
    OBVIOUS
  <2> QED BY <2>1, <2>2, SumOfNone DEF UpTo
<1>4. ASSUME NEW k \in 0..Len(d) PROVE UpTo(d, k) \in Int
  <2> DEFINE s == SubSeq(d, 1, k)
  <2>1. s \in Seq(Int) /\ Len(s) = k
    BY <1>2
  <2>2. s \in [1..k -> Int]
    <3> HIDE DEF s
    <3> QED BY <2>1, LenProperties
  <2>3. IsFiniteSet(1..k)
    BY <1>1, FS_Interval
  <2> HIDE DEF s
  <2>4. SumFunction(s) \in Int
    BY <2>2, <2>3, SumIsInteger
  <2> QED BY <2>4 DEF s, UpTo
<1>5. ASSUME NEW k \in 1..Len(d) PROVE UpTo(d, k) = UpTo(d, k - 1) + d[k]
  <2> DEFINE j == k - 1  s == SubSeq(d, 1, j)  t == SubSeq(d, 1, k)
  <2>1. j \in 0..Len(d) /\ k \in 0..Len(d) /\ k = j + 1 /\ k \in 1..k
    BY <1>1
  <2> HIDE DEF j
  <2>2. s \in Seq(Int) /\ Len(s) = j /\ \A i \in 1..j : s[i] = d[i]
    BY <1>2, <2>1
  <2>3. t \in Seq(Int) /\ Len(t) = k /\ \A i \in 1..k : t[i] = d[i]
    BY <1>2, <2>1
  <2> HIDE DEF s, t
  <2>4. Len(t) = Len(s) + 1 /\ \A i \in 1..Len(s) : t[i] = s[i]
    <3>1. \A i \in 1..j : i \in 1..k
      BY <1>1, <2>1
    <3> QED BY <2>1, <2>2, <2>3, <3>1
  <2>5. SumFunction(t) = SumFunction(s) + t[Len(t)]
    BY <2>2, <2>3, <2>4, SumOneLonger
  <2>6. t[Len(t)] = d[k]
    BY <2>1, <2>3
  <2> QED BY <2>5, <2>6 DEF UpTo, s, t, j
<1> QED BY <1>3, <1>4, <1>5

Fall(d, i, j) == UpTo(d, i) - UpTo(d, j)

Highest(d, k, x) ==
    /\ \E i \in 0..k : x = UpTo(d, i)
    /\ \A i \in 0..k : UpTo(d, i) <= x

Deepest(d, k, x) ==
    /\ \E i, j \in 0..k : i <= j /\ x = Fall(d, i, j)
    /\ \A i, j \in 0..k : i <= j => Fall(d, i, j) <= x

Stands(d, k, r) ==
    /\ r = [cumulative |-> r.cumulative, peak |-> r.peak, drawdown |-> r.drawdown]
    /\ r.cumulative = UpTo(d, k) /\ Highest(d, k, r.peak) /\ Deepest(d, k, r.drawdown)

LEMMA StandsAtFirst ==
    ASSUME NEW d \in Seq(Int)
    PROVE  Stands(d, 0, [cumulative |-> 0, peak |-> 0, drawdown |-> 0])
<1>1. 0..0 = {0} /\ UpTo(d, 0) = 0
  BY UpToGrows
<1> QED BY <1>1 DEF Stands, Highest, Deepest, Fall

(* There is one such record,                                                *)
LEMMA StandsOnce ==
    ASSUME NEW d \in Seq(Int), NEW k \in 0..Len(d), NEW r, NEW q, Stands(d, k, r), Stands(d, k, q)
    PROVE  r = q
<1>1. \A i \in 0..k : UpTo(d, i) \in Int
  BY UpToGrows, LenProperties
<1>2. r.peak \in Int /\ q.peak \in Int /\ r.peak <= q.peak /\ q.peak <= r.peak
  BY <1>1 DEF Stands, Highest
<1>3. r.drawdown \in Int /\ q.drawdown \in Int
  BY <1>1 DEF Stands, Deepest, Fall
<1>4. r.drawdown <= q.drawdown /\ q.drawdown <= r.drawdown
  BY DEF Stands, Deepest
<1>5. r.peak = q.peak /\ r.drawdown = q.drawdown /\ r.cumulative = q.cumulative
  BY <1>2, <1>3, <1>4 DEF Stands
<1> QED BY <1>5 DEF Stands

(* and one trade more extends it.                                           *)
LEMMA StandsExtended ==
    ASSUME NEW d \in Seq(Int), NEW k \in 1..Len(d), NEW r, Stands(d, k - 1, r)
    PROVE  Stands(d, k, Extended(r, d[k]))
<1> DEFINE e == Extended(r, d[k])  c == UpTo(d, k)  h == k - 1
<1>1. /\ Len(d) \in Nat /\ d[k] \in Int /\ h \in 0..Len(d) /\ k = h + 1 /\ k \in 0..k
      /\ 0..k = (0..h) \cup {k} /\ k \notin 0..h
  BY LenProperties, ElementOfSeq
<1>2. c \in Int /\ c = UpTo(d, h) + d[k] /\ \A i \in 0..k : UpTo(d, i) \in Int
  BY <1>1, UpToGrows
<1>3. r.cumulative = UpTo(d, h) /\ Highest(d, h, r.peak) /\ Deepest(d, h, r.drawdown)
  BY DEF Stands
<1> HIDE DEF c, h
<1>4. r.peak \in Int /\ r.drawdown \in Int
  <2>1. \A i \in 0..h : UpTo(d, i) \in Int
    BY <1>1, <1>2
  <2>2. r.peak \in Int
    BY <1>3, <2>1 DEF Highest
  <2>3. PICK i \in 0..h, j \in 0..h : r.drawdown = Fall(d, i, j)
    BY <1>3 DEF Deepest
  <2>4. UpTo(d, i) \in Int /\ UpTo(d, j) \in Int
    BY <2>1
  <2> QED BY <2>2, <2>3, <2>4 DEF Fall
<1>5. /\ e.cumulative = c
      /\ e.peak = IF c > r.peak THEN c ELSE r.peak
      /\ e.drawdown = IF e.peak - c > r.drawdown THEN e.peak - c ELSE r.drawdown
      /\ e = [cumulative |-> e.cumulative, peak |-> e.peak, drawdown |-> e.drawdown]
  BY <1>2, <1>3 DEF Extended
<1> HIDE DEF e
<1>6. UpTo(d, k) = c
  BY DEF c
<1>7. Highest(d, k, e.peak)
  <2>1. \E i \in 0..k : e.peak = UpTo(d, i)
    BY <1>1, <1>3, <1>5, <1>6 DEF Highest
  <2>2. ASSUME NEW i \in 0..k PROVE UpTo(d, i) <= e.peak
    <3>1. CASE i = k
      BY <1>2, <1>4, <1>5, <1>6, <3>1
    <3>2. CASE i \in 0..h
      <4>1. UpTo(d, i) <= r.peak /\ UpTo(d, i) \in Int
        BY <1>2, <1>3, <3>2 DEF Highest
      <4> QED BY <1>2, <1>4, <1>5, <4>1
    <3> QED BY <1>1, <3>1, <3>2
  <2> QED BY <2>1, <2>2 DEF Highest
<1>8. e.peak \in Int
  BY <1>2, <1>4, <1>5
<1>9. Deepest(d, k, e.drawdown)
  <2>1. \E i, j \in 0..k : i <= j /\ e.drawdown = Fall(d, i, j)
    <3>1. CASE e.drawdown = r.drawdown
      BY <1>1, <1>3, <3>1 DEF Deepest
    <3>2. CASE e.drawdown = e.peak - c
      <4>1. PICK i \in 0..k : e.peak = UpTo(d, i)
        BY <1>7 DEF Highest
      <4>2. i <= k /\ e.drawdown = Fall(d, i, k)
        BY <1>1, <1>6, <3>2, <4>1 DEF Fall
      <4> QED BY <1>1, <4>2
    <3> QED BY <1>5, <3>1, <3>2
  <2>2. ASSUME NEW i \in 0..k, NEW j \in 0..k, i <= j PROVE Fall(d, i, j) <= e.drawdown
    <3>1. CASE j = k
      <4>1. UpTo(d, i) <= e.peak /\ UpTo(d, i) \in Int
        BY <1>2, <1>7 DEF Highest
      <4>2. Fall(d, i, j) = UpTo(d, i) - c
        BY <1>6, <3>1 DEF Fall
      <4> QED BY <1>2, <1>4, <1>5, <1>8, <4>1, <4>2
    <3>2. CASE j \in 0..h
      <4>1. i \in 0..h
        BY <1>1, <2>2, <3>2
      <4>2. Fall(d, i, j) <= r.drawdown
        BY <1>3, <2>2, <3>2, <4>1 DEF Deepest
      <4>3. Fall(d, i, j) \in Int
        BY <1>2 DEF Fall
      <4> QED BY <1>2, <1>4, <1>5, <1>8, <4>2, <4>3
    <3> QED BY <1>1, <3>1, <3>2
  <2> QED BY <2>1, <2>2 DEF Deepest
<1> QED BY <1>5, <1>6, <1>7, <1>9 DEF Stands, e

(* The walk, as the function metrics.ts builds by its loop.                 *)
Curve(d, c) ==
    c = [k \in 0..Len(d) |-> IF k = 0 THEN [cumulative |-> 0, peak |-> 0, drawdown |-> 0]
                             ELSE Extended(c[k - 1], d[k])]

LEMMA MaxDrawdownIs ==
    ASSUME NEW d
    PROVE  ComputeMaxDrawdown(d) = (CHOOSE c : Curve(d, c))[Len(d)].drawdown
BY DEF ComputeMaxDrawdown, Curve

LEMMA CurveStands ==
    ASSUME NEW d \in Seq(Int), NEW c, Curve(d, c)
    PROVE  Stands(d, Len(d), c[Len(d)])
<1> DEFINE P == {k \in Nat : k <= Len(d) => Stands(d, k, c[k])}
<1>0. Len(d) \in Nat
  BY LenProperties
<1>1. c[0] = [cumulative |-> 0, peak |-> 0, drawdown |-> 0]
  BY <1>0 DEF Curve
<1>2. \A k \in 1..Len(d) : c[k] = Extended(c[k - 1], d[k])
  BY <1>0 DEF Curve
<1>3. 0 \in P
  BY <1>1, StandsAtFirst
<1>4. ASSUME NEW k \in P PROVE k + 1 \in P
  <2>1. k \in Nat /\ k + 1 \in Nat /\ (k + 1) - 1 = k
    BY <1>4
  <2> SUFFICES ASSUME k + 1 <= Len(d) PROVE Stands(d, k + 1, c[k + 1])
    BY <2>1
  <2>2. k + 1 \in 1..Len(d) /\ k <= Len(d)
    BY <1>0, <2>1
  <2>3. Stands(d, (k + 1) - 1, c[k])
    BY <1>4, <2>1, <2>2
  <2>4. Stands(d, k + 1, Extended(c[k], d[k + 1]))
    BY <2>2, <2>3, StandsExtended
  <2> QED BY <1>2, <2>1, <2>2, <2>4
<1>5. P \in SUBSET Nat
  OBVIOUS
<1>6. P = Nat
  <2> HIDE DEF P
  <2> QED BY <1>3, <1>4, <1>5, EveryNumber
<1>7. Len(d) \in P
  <2> HIDE DEF P
  <2> QED BY <1>0, <1>6
<1> QED BY <1>0, <1>7

LEMMA ThereIsACurve ==
    ASSUME NEW d \in Seq(Int)
    PROVE  \E c : Curve(d, c)
<1> DEFINE g == [k \in 0..Len(d) |-> CHOOSE r : Stands(d, k, r)]
           P == {k \in Nat : k <= Len(d) => \E r : Stands(d, k, r)}
<1>0. Len(d) \in Nat
  BY LenProperties
<1>1. 0 \in P
  BY StandsAtFirst
<1>2. ASSUME NEW k \in P PROVE k + 1 \in P
  <2>1. k \in Nat /\ k + 1 \in Nat /\ (k + 1) - 1 = k
    BY <1>2
  <2> SUFFICES ASSUME k + 1 <= Len(d) PROVE \E r : Stands(d, k + 1, r)
    BY <2>1
  <2>2. k + 1 \in 1..Len(d) /\ k <= Len(d)
    BY <1>0, <2>1
  <2>3. PICK r : Stands(d, (k + 1) - 1, r)
    BY <1>2, <2>1, <2>2
  <2>4. Stands(d, k + 1, Extended(r, d[k + 1]))
    BY <2>2, <2>3, StandsExtended
  <2> QED BY <2>4
<1>3. P = Nat
  <2>1. P \in SUBSET Nat
    OBVIOUS
  <2> HIDE DEF P
  <2> QED BY <1>1, <1>2, <2>1, EveryNumber
<1>4. ASSUME NEW k \in 0..Len(d) PROVE Stands(d, k, g[k])
  <2>1. k \in Nat /\ k <= Len(d)
    BY <1>0
  <2>2. k \in P
    <3> HIDE DEF P
    <3> QED BY <1>3, <2>1
  <2>3. \E r : Stands(d, k, r)
    BY <2>1, <2>2
  <2> QED BY <2>3
<1>5. ASSUME NEW k \in 0..Len(d)
      PROVE  g[k] = IF k = 0 THEN [cumulative |-> 0, peak |-> 0, drawdown |-> 0]
                    ELSE Extended(g[k - 1], d[k])
  <2>1. Stands(d, k, g[k])
    BY <1>4
  <2>2. CASE k = 0
    <3> HIDE DEF g
    <3> QED BY <2>1, <2>2, StandsAtFirst, StandsOnce
  <2>3. CASE k # 0
    <3>1. k \in 1..Len(d) /\ k - 1 \in 0..Len(d)
      BY <1>0, <2>3
    <3>2. Stands(d, k - 1, g[k - 1])
      BY <1>4, <3>1
    <3> HIDE DEF g
    <3>3. Stands(d, k, Extended(g[k - 1], d[k]))
      BY <3>1, <3>2, StandsExtended
    <3>4. g[k] = Extended(g[k - 1], d[k])
      BY <2>1, <3>3, StandsOnce
    <3> QED BY <2>3, <3>4
  <2> QED BY <2>2, <2>3
<1>6. DOMAIN g = 0..Len(d) /\ g = [k \in DOMAIN g |-> g[k]]
  OBVIOUS
<1>7. Curve(d, g)
  <2> HIDE DEF g
  <2> QED BY <1>5, <1>6 DEF Curve
<1> QED BY <1>7

(* computeMaxDrawdown is the deepest fall of the accumulated sums.          *)
LEMMA DrawdownIsTheDeepest ==
    ASSUME NEW d \in Seq(Int)
    PROVE  Deepest(d, Len(d), ComputeMaxDrawdown(d))
<1> DEFINE c == CHOOSE c : Curve(d, c)
<1>1. Curve(d, c)
  BY ThereIsACurve
<1> HIDE DEF c
<1>2. Stands(d, Len(d), c[Len(d)])
  BY <1>1, CurveStands
<1>3. ComputeMaxDrawdown(d) = c[Len(d)].drawdown
  BY MaxDrawdownIs DEF c
<1> QED BY <1>2, <1>3 DEF Stands

LEMMA DrawdownShown ==
    ASSUME BacktestInv
    PROVE  DrawdownIsDeepest
<1> SUFFICES ASSUME report # <<>> PROVE DrawdownIsDeepest
  BY DEF DrawdownIsDeepest
<1> DEFINE d == Deltas(Chronological(trades))  n == Len(d)
           falls == {UpTo(d, p[1]) - UpTo(d, p[2]) :
                       p \in {q \in (0..n) \X (0..n) : q[1] <= q[2]}}
           x == ComputeMaxDrawdown(d)
<1>1. trades \in Seq(TradeRecords)
  BY DEF BacktestInv, TradesInv
<1>2. \A r \in TradeRecords : r.t \in Int
  BY DEF TradeRecords
<1>3. Chronological(trades) \in Seq(TradeRecords)
  BY <1>1, <1>2, ChronologicalSorts
<1>4. d \in Seq(Int)
  BY <1>3, TradesSum
<1>5. report[1].metrics.maxDrawdown = x
  BY DEF BacktestInv, ReportInv, ComputeBacktestMetrics, Figures
<1> HIDE DEF d
<1>6. Deepest(d, n, x)
  BY <1>4, DrawdownIsTheDeepest
<1>7. \A i \in 0..n : UpTo(d, i) \in Int
  BY <1>4, UpToGrows
<1> HIDE DEF x, n
<1>8. \A y : y \in falls <=> \E i, j \in 0..n : i <= j /\ y = Fall(d, i, j)
  <2>1. ASSUME NEW y \in falls PROVE \E i, j \in 0..n : i <= j /\ y = Fall(d, i, j)
    <3>1. PICK p \in (0..n) \X (0..n) : p[1] <= p[2] /\ y = UpTo(d, p[1]) - UpTo(d, p[2])
      BY <2>1
    <3>2. p[1] \in 0..n /\ p[2] \in 0..n
      OBVIOUS
    <3> QED BY <3>1, <3>2 DEF Fall
  <2>2. ASSUME NEW i \in 0..n, NEW j \in 0..n, i <= j PROVE Fall(d, i, j) \in falls
    <3> DEFINE p == <<i, j>>
    <3>1. p \in {q \in (0..n) \X (0..n) : q[1] <= q[2]} /\ p[1] = i /\ p[2] = j
      BY <2>2
    <3> HIDE DEF p
    <3> QED BY <3>1 DEF Fall
  <2> HIDE DEF falls
  <2> QED BY <2>1, <2>2
<1>9. \A y \in falls : y \in Int
  BY <1>7
<1> HIDE DEF falls
<1>10. x \in falls /\ \A y \in falls : x >= y
  <2>1. x \in falls /\ \A y \in falls : y <= x
    BY <1>6, <1>8 DEF Deepest
  <2> QED BY <1>9, <2>1
<1>11. Max(falls) = x
  <2>1. Max(falls) \in falls /\ \A y \in falls : Max(falls) >= y
    BY <1>10 DEF Max
  <2> QED BY <1>9, <1>10, <2>1
<1> QED BY <1>5, <1>11 DEF DrawdownIsDeepest, UpTo, falls, n, d

-----------------------------------------------------------------------------
(***************************************************************************)
(* The calibration: a prediction is in the bucket whose bounds it is       *)
(* between, and the buckets and the excluded have every sample once.       *)
(***************************************************************************)
LEMMA QuotientAtLeast ==
    ASSUME NEW y \in Nat, NEW p \in Nat \ {0}, NEW c \in Nat
    PROVE  c <= y \div p <=> c * p <= y
<1> DEFINE q == y \div p
<1>1. q \in Nat /\ p \in Nat /\ p > 0 /\ q * p \in Nat /\ c * p \in Nat
  BY QuotientOf
<1>2. q * p <= y /\ y < q * p + p
  OBVIOUS
<1> HIDE DEF q
<1>3. CASE c <= q
  <2>1. PICK e \in Nat : q = c + e
    <3>1. q - c \in Nat /\ q = c + (q - c)
      BY <1>1, <1>3
    <3> QED BY <3>1
  <2>2. q * p = c * p + e * p /\ e * p \in Nat
    BY <1>1, <2>1
  <2>3. c * p <= y
    BY <1>1, <1>2, <2>2
  <2> QED BY <1>3, <2>3 DEF q
<1>4. CASE ~(c <= q)
  <2>1. PICK e \in Nat : c = (q + 1) + e
    <3>1. c - (q + 1) \in Nat /\ c = (q + 1) + (c - (q + 1))
      BY <1>1, <1>4
    <3> QED BY <3>1
  <2>2. c * p = (q + 1) * p + e * p /\ (q + 1) * p = q * p + p /\ e * p \in Nat
    BY <1>1, <2>1
  <2>3. ~(c * p <= y)
    BY <1>1, <1>2, <2>2
  <2> QED BY <1>4, <2>3 DEF q
<1> QED BY <1>3, <1>4

IsIn(x, b) == 20 * x >= (10 + b) * One /\ (b < 6 => 20 * x < (11 + b) * One)

LEMMA BucketIs ==
    ASSUME NEW x \in 0..One
    PROVE  /\ BucketIndexFor(x, One) \in {-1} \cup 0..6
           /\ \A b \in 0..6 : BucketIndexFor(x, One) = b <=> IsIn(x, b)
<1> DEFINE y == 20 * x  q == y \div One
<1>1. One \in Nat \ {0} /\ x \in Nat /\ x <= One /\ y \in Nat /\ y <= 20 * One
  BY ConfigTypes
<1>2. BucketIndexFor(x, One)
        = IF 2 * x < One THEN -1 ELSE IF q - 10 > 6 THEN 6 ELSE q - 10
  BY <1>1 DEF BucketIndexFor
<1>3. 2 * x < One <=> ~(10 * One <= y)
  BY <1>1
<1> HIDE DEF y
<1>4. q \in Nat
  BY <1>1, QuotientOf
<1>5. \A c \in Nat : c <= q <=> c * One <= y
  BY <1>1, QuotientAtLeast
<1>6. 10 <= q <=> 10 * One <= y
  BY <1>5
<1>7. ASSUME NEW b \in 0..6
      PROVE  /\ 10 + b <= q <=> (10 + b) * One <= y
             /\ 11 + b <= q <=> (11 + b) * One <= y
  <2>1. 10 + b \in Nat /\ 11 + b \in Nat
    OBVIOUS
  <2> QED BY <1>5, <2>1
<1> HIDE DEF q
<1>8. BucketIndexFor(x, One)
        = IF q < 10 THEN -1 ELSE IF q - 10 > 6 THEN 6 ELSE q - 10
  BY <1>2, <1>3, <1>4, <1>6
<1>9. ASSUME NEW b \in 0..6 PROVE IsIn(x, b) <=> 10 + b <= q /\ (b < 6 => ~(11 + b <= q))
  <2>1. /\ 20 * x = y /\ y \in Nat /\ (10 + b) * One \in Nat /\ (11 + b) * One \in Nat
    BY <1>1 DEF y
  <2>2. IsIn(x, b) <=> (10 + b) * One <= y /\ (b < 6 => ~((11 + b) * One <= y))
    BY <2>1 DEF IsIn
  <2> QED BY <1>7, <2>2
<1>10. BucketIndexFor(x, One) \in {-1} \cup 0..6
  BY <1>4, <1>8
<1>11. ASSUME NEW b \in 0..6
       PROVE  BucketIndexFor(x, One) = b <=> 10 + b <= q /\ (b < 6 => ~(11 + b <= q))
  BY <1>4, <1>8
<1> QED BY <1>9, <1>10, <1>11

(* How many samples are in the buckets before j.                            *)
Held(n, h, b) == {k \in 1..n : h[k] = b}

HeldUnder(n, h, j) == {k \in 1..n : h[k] \in 0..(j - 1)}

CountsBefore(n, h, j) == [b \in 0..(j - 1) |-> Cardinality(Held(n, h, b))]

LEMMA PartIsFinite ==
    ASSUME NEW n \in Nat, NEW D \in SUBSET (1..n)
    PROVE  IsFiniteSet(D) /\ Cardinality(D) \in Nat
<1>1. IsFiniteSet(1..n)
  BY FS_Interval
<1>2. IsFiniteSet(D)
  BY <1>1, FS_Subset
<1> QED BY <1>2, FS_CardinalityType

LEMMA ApartAdd ==
    ASSUME NEW n \in Nat, NEW C \in SUBSET (1..n), NEW D \in SUBSET (1..n), C \cap D = {}
    PROVE  Cardinality(C \cup D) = Cardinality(C) + Cardinality(D)
<1>1. IsFiniteSet(C) /\ IsFiniteSet(D) /\ Cardinality(C) \in Nat /\ Cardinality(D) \in Nat
  BY PartIsFinite
<1>2. Cardinality(C \cap D) = 0
  BY FS_EmptySet
<1>3. Cardinality(C \cup D) = Cardinality(C) + Cardinality(D) - Cardinality(C \cap D)
  BY <1>1, FS_Union
<1> QED BY <1>1, <1>2, <1>3

LEMMA HeldOneMore ==
    ASSUME NEW n \in Nat, NEW h, NEW j \in Nat,
           SumFunction(CountsBefore(n, h, j)) = Cardinality(HeldUnder(n, h, j))
    PROVE  SumFunction(CountsBefore(n, h, j + 1)) = Cardinality(HeldUnder(n, h, j + 1))
<1> DEFINE S == 0..(j - 1)  T == 0..j  f == CountsBefore(n, h, j)  f2 == CountsBefore(n, h, j + 1)
<1>1. T = S \cup {j} /\ j \notin S /\ (j + 1) - 1 = j
  OBVIOUS
<1>2. IsFiniteSet(S)
  <2>1. 0 \in Int /\ j - 1 \in Int
    OBVIOUS
  <2> QED BY <2>1, FS_Interval
<1>3. \A b : Held(n, h, b) \in SUBSET (1..n) /\ Cardinality(Held(n, h, b)) \in Int
  <2>1. ASSUME NEW b PROVE Held(n, h, b) \in SUBSET (1..n)
    BY DEF Held
  <2>2. ASSUME NEW b PROVE Cardinality(Held(n, h, b)) \in Nat
    BY <2>1, PartIsFinite
  <2> QED BY <2>1, <2>2
<1>4. f \in [S -> Int] /\ f2 \in [T -> Int] /\ \A b \in S : f2[b] = f[b]
  BY <1>1, <1>3 DEF CountsBefore
<1>5. f2[j] = Cardinality(Held(n, h, j))
  BY <1>1 DEF CountsBefore
<1> HIDE DEF S, T, f, f2
<1>6. OneMore(S, f, j, T, f2)
  BY <1>1, <1>4 DEF OneMore
<1>7. SumFunction(f2) = SumFunction(f) + f2[j]
  BY <1>2, <1>6, SumWithOneMore
<1>8. /\ HeldUnder(n, h, j + 1) = HeldUnder(n, h, j) \cup Held(n, h, j)
      /\ HeldUnder(n, h, j) \cap Held(n, h, j) = {}
      /\ HeldUnder(n, h, j) \in SUBSET (1..n)
  BY <1>1 DEF HeldUnder, Held, S, T
<1>9. Cardinality(HeldUnder(n, h, j + 1))
        = Cardinality(HeldUnder(n, h, j)) + Cardinality(Held(n, h, j))
  BY <1>3, <1>8, ApartAdd
<1> QED BY <1>5, <1>7, <1>9 DEF f, f2

LEMMA EverySampleOnce ==
    ASSUME NEW n \in Nat, NEW h, \A k \in 1..n : h[k] \in {-1} \cup 0..6
    PROVE  SumFunction([b \in 0..6 |-> Cardinality(Held(n, h, b))])
             + Cardinality(Held(n, h, -1)) = n
<1> DEFINE P == {j \in Nat : SumFunction(CountsBefore(n, h, j)) = Cardinality(HeldUnder(n, h, j))}
<1>1. 0 \in P
  <2>1. 0..(0 - 1) = {}
    OBVIOUS
  <2>2. CountsBefore(n, h, 0) \in [{} -> Int] /\ HeldUnder(n, h, 0) = {}
    BY <2>1 DEF CountsBefore, HeldUnder
  <2> QED BY <2>2, SumOfNone, FS_EmptySet
<1>2. P \in SUBSET Nat /\ \A j \in P : j + 1 \in P
  BY HeldOneMore
<1>3. P = Nat
  <2> HIDE DEF P
  <2> QED BY <1>1, <1>2, EveryNumber
<1>4. 7 \in P
  <2> HIDE DEF P
  <2> QED BY <1>3
<1>5. SumFunction(CountsBefore(n, h, 7)) = Cardinality(HeldUnder(n, h, 7))
  BY <1>4
<1>6. 0..(7 - 1) = 0..6
  OBVIOUS
<1>7. CountsBefore(n, h, 7) = [b \in 0..6 |-> Cardinality(Held(n, h, b))]
  BY <1>6 DEF CountsBefore
<1>8. /\ HeldUnder(n, h, 7) \cup Held(n, h, -1) = 1..n
      /\ HeldUnder(n, h, 7) \cap Held(n, h, -1) = {}
      /\ HeldUnder(n, h, 7) \in SUBSET (1..n) /\ Held(n, h, -1) \in SUBSET (1..n)
  BY <1>6 DEF HeldUnder, Held
<1>9. Cardinality(1..n) = n
  BY FS_Interval
<1>10. n = Cardinality(HeldUnder(n, h, 7)) + Cardinality(Held(n, h, -1))
  BY <1>8, <1>9, ApartAdd
<1> QED BY <1>5, <1>7, <1>10

LEMMA CalibrationShown ==
    ASSUME BacktestInv
    PROVE  CalibrationIsHonest
<1> DEFINE n == Len(trades)
           h == [k \in 1..n |-> BucketIndexFor(trades[k].predicted, One)]
           InBucket(b) == {k \in DOMAIN trades :
                              /\ 20 * trades[k].predicted >= (10 + b) * One
                              /\ b < 6 => 20 * trades[k].predicted < (11 + b) * One}
           In(b) == {k \in DOMAIN trades : BucketIndexFor(trades[k].predicted, One) = b}
           samples == [b \in 0..6 |-> Cardinality(In(b))]
           calibration == ComputeCalibration(trades, One)
<1>1. n \in Nat /\ DOMAIN trades = 1..n /\ \A k \in 1..n : trades[k] \in TradeRecords
  <2>1. trades \in Seq(TradeRecords)
    BY DEF BacktestInv, TradesInv
  <2> QED BY <2>1, LenProperties, ElementOfSeq
<1>2. \A k \in 1..n : /\ trades[k].predicted \in 0..One
                      /\ trades[k].win <=> trades[k].exit = 1 /\ trades[k].usd < trades[k].shares
  <2>1. \A k \in 1..n : TradeStands(trades[k], engines, resolved)
    BY <1>1 DEF BacktestInv, TradesInv
  <2> QED BY <1>1, <2>1 DEF TradeRecords, TradeStands
<1>3. /\ calibration.buckets = [b \in 0..6 |-> [samples |-> samples[b],
                                  won |-> Cardinality({k \in In(b) : trades[k].win})]]
      /\ calibration.totalSamples = SumFunction(samples)
      /\ calibration.excludedSamples = Cardinality(In(-1))
  BY DEF ComputeCalibration
<1> HIDE DEF calibration, n
<1>4. \A k \in 1..n : h[k] \in {-1} \cup 0..6
  BY <1>2, BucketIs
<1>5. \A b : In(b) = Held(n, h, b)
  BY <1>1 DEF Held
<1>6. ASSUME NEW b \in 0..6 PROVE In(b) = InBucket(b)
  <2>1. ASSUME NEW k \in 1..n
        PROVE  BucketIndexFor(trades[k].predicted, One) = b
                 <=> /\ 20 * trades[k].predicted >= (10 + b) * One
                     /\ b < 6 => 20 * trades[k].predicted < (11 + b) * One
    <3>1. BucketIndexFor(trades[k].predicted, One) = b <=> IsIn(trades[k].predicted, b)
      BY <1>2, BucketIs
    <3> QED BY <3>1 DEF IsIn
  <2> QED BY <1>1, <2>1
<1>7. calibration.totalSamples + calibration.excludedSamples = n
  <2>1. samples = [b \in 0..6 |-> Cardinality(Held(n, h, b))]
    BY <1>5
  <2>2. In(-1) = Held(n, h, -1)
    BY <1>5
  <2> HIDE DEF h, In, samples
  <2>3. SumFunction([b \in 0..6 |-> Cardinality(Held(n, h, b))]) + Cardinality(Held(n, h, -1)) = n
    BY <1>1, <1>4, EverySampleOnce
  <2> QED BY <1>3, <2>1, <2>2, <2>3
<1>8. ASSUME NEW b \in 0..6
      PROVE  /\ calibration.buckets[b].samples = Cardinality(InBucket(b))
             /\ calibration.buckets[b].won
                  = Cardinality({k \in InBucket(b) :
                                    trades[k].exit = 1 /\ trades[k].usd < trades[k].shares})
  <2>1. calibration.buckets[b] = [samples |-> Cardinality(In(b)),
                                  won |-> Cardinality({k \in In(b) : trades[k].win})]
    BY <1>3
  <2>2. {k \in In(b) : trades[k].win}
          = {k \in In(b) : trades[k].exit = 1 /\ trades[k].usd < trades[k].shares}
    BY <1>1, <1>2
  <2>3. In(b) = InBucket(b)
    BY <1>6
  <2> DEFINE C == In(b)  D == {k \in C : trades[k].win}
             E == {k \in InBucket(b) : trades[k].exit = 1 /\ trades[k].usd < trades[k].shares}
  <2>4. C = InBucket(b) /\ D = E
    <3> HIDE DEF In, InBucket
    <3> QED BY <2>2, <2>3
  <2>5. calibration.buckets[b] = [samples |-> Cardinality(C), won |-> Cardinality(D)]
    BY <2>1
  <2>6. calibration.buckets[b].samples = Cardinality(C)
        /\ calibration.buckets[b].won = Cardinality(D)
    <3> HIDE DEF C, D
    <3> QED BY <2>5
  <2> HIDE DEF C, D
  <2>7. Cardinality(InBucket(b)) = Cardinality(C) /\ Cardinality(E) = Cardinality(D)
    <3> HIDE DEF InBucket, E
    <3> QED BY <2>4
  <2> HIDE DEF InBucket, E
  <2>8. calibration.buckets[b].samples = Cardinality(InBucket(b))
        /\ calibration.buckets[b].won = Cardinality(E)
    BY <2>6, <2>7
  <2> QED BY <2>8 DEF E
<1>9. report # <<>> => report[1].calibration = calibration
  BY DEF BacktestInv, ReportInv, calibration
<1> HIDE DEF h, In, samples
<1> QED BY <1>7, <1>8, <1>9 DEF CalibrationIsHonest, n

(* The drawdown and the calibration that a backtest reports are those of    *)
(* its trades (metrics.ts:38-54, calibration.ts).                           *)
THEOREM ResultIsTrueHolds == BacktestSpec => []ResultIsTrue
<1>1. BacktestInv => ResultIsTrue
  BY DrawdownShown, CalibrationShown DEF ResultIsTrue
<1> QED BY <1>1, BacktestInvariant, PTL
=============================================================================
