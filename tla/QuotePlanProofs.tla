--------------------------- MODULE QuotePlanProofs ---------------------------
(***************************************************************************)
(* Theorems about the plan and about its diff with the resting orders, for *)
(* every grid, every book, every estimate fed into the plan and every      *)
(* configuration.                                                          *)
(***************************************************************************)
EXTENDS QuotePlan, FiniteLemmas, SequenceTheorems, FunctionTheorems, TLAPS

(***************************************************************************)
(* Arithmetic                                                              *)
(***************************************************************************)
LEMMA Quotient ==
  ASSUME NEW a \in Int, NEW g \in Nat, g > 0
  PROVE  /\ a \div g \in Int
         /\ (a \div g) * g <= a
         /\ a < (a \div g) * g + g
OBVIOUS

LEMMA Ceiling ==
  ASSUME NEW a \in Int, NEW g \in Nat, g > 0
  PROVE  /\ -((-a) \div g) \in Int
         /\ -((-a) \div g) * g >= a
<1>1. -a \in Int
  OBVIOUS
<1>2. (-a) \div g \in Int /\ ((-a) \div g) * g <= -a
  BY <1>1, Quotient
<1> QED BY <1>2

LEMMA PositiveMultiple ==
  ASSUME NEW k \in Int, NEW g \in Nat, g > 0, k * g > 0
  PROVE  k * g >= g
<1>1. k >= 1
  OBVIOUS
<1> QED BY <1>1

LEMMA Grid ==
  /\ Grain \in Nat /\ Grain > 0 /\ Ticks \in Nat /\ Ticks > 1
  /\ One \in Nat /\ One = Ticks * Grain /\ 2 * Grain <= One
<1>1. Grain \in Nat /\ Grain > 0 /\ Ticks \in Nat /\ Ticks > 1
  BY PlanAssumption DEF PlanAssumption
<1>2. 2 * Grain <= Ticks * Grain
  BY <1>1
<1> QED BY <1>1, <1>2 DEF One

LEMMA OnGridBounds ==
  ASSUME NEW p \in Int
  PROVE  /\ OnGrid(p) \in Int
         /\ Grain <= OnGrid(p) /\ OnGrid(p) <= One - Grain
         /\ p <= One - Grain => p <= OnGrid(p)
         /\ OnGrid(p) = Grain \/ OnGrid(p) <= p
         /\ OnGrid(p) \in {p, Grain, One - Grain}
BY Grid DEF OnGrid, Between, Least, Greatest

LEMMA RoundDownBounds ==
  ASSUME NEW p \in Int
  PROVE  /\ RoundDown(p) \in Int
         /\ Grain <= RoundDown(p) /\ RoundDown(p) <= One - Grain
         /\ RoundDown(p) = Grain \/ RoundDown(p) <= p
         /\ \E k \in Int : RoundDown(p) = k * Grain
<1>1. p \div Grain \in Int /\ (p \div Grain) * Grain <= p
  BY Grid, Quotient
<1>2. (p \div Grain) * Grain \in Int
  BY <1>1, Grid
<1>3. 1 * Grain = Grain /\ (Ticks - 1) * Grain = One - Grain
  BY Grid
<1>4. \E k \in Int : RoundDown(p) = k * Grain
  <2>1. RoundDown(p) \in {(p \div Grain) * Grain, 1 * Grain, (Ticks - 1) * Grain}
    BY <1>2, <1>3, OnGridBounds DEF RoundDown
  <2>2. p \div Grain \in Int /\ 1 \in Int /\ Ticks - 1 \in Int
    BY <1>1, Grid
  <2> QED BY <2>1, <2>2
<1> DEFINE f == (p \div Grain) * Grain
<1>5. f \in Int /\ f <= p /\ RoundDown(p) = OnGrid(f)
  BY <1>1, <1>2 DEF RoundDown
<1> HIDE DEF f
<1> QED BY <1>4, <1>5, OnGridBounds

LEMMA RoundUpBounds ==
  ASSUME NEW p \in Int
  PROVE  /\ RoundUp(p) \in Int
         /\ Grain <= RoundUp(p) /\ RoundUp(p) <= One - Grain
         /\ p <= One - Grain => p <= RoundUp(p)
         /\ p > One - Grain => RoundUp(p) = One - Grain
<1> DEFINE c == -((-p) \div Grain) * Grain
<1>1. c \in Int /\ c >= p
  BY Grid, Ceiling
<1>2. RoundUp(p) = OnGrid(c)
  BY DEF RoundUp
<1> HIDE DEF c
<1> QED BY <1>1, <1>2, Grid DEF OnGrid, Between, Least, Greatest

(* A set of positive numbers up to a bound has a greatest one: the intervals *)
(* from its members to the bound have a smallest one.                        *)
LEMMA GreatestExists ==
  ASSUME NEW L \in Nat, NEW S, S \subseteq 1..L, S # {}
  PROVE  \E n \in S : \A k \in S : k <= n
<1> DEFINE T == {n..L : n \in S}
<1>1. T \subseteq FiniteSubsetsOf(Nat)
  <2> SUFFICES ASSUME NEW n \in S
               PROVE  n..L \in FiniteSubsetsOf(Nat)
    OBVIOUS
  <2>1. n \in Int /\ L \in Int /\ n..L \subseteq Nat
    OBVIOUS
  <2>2. IsFiniteSet(n..L)
    BY <2>1, FS_Interval
  <2> QED BY <2>1, <2>2 DEF FiniteSubsetsOf
<1>2. T # {}
  OBVIOUS
<1>3. IsWellFoundedOn(StrictSubsetOrdering(Nat), FiniteSubsetsOf(Nat))
  BY FS_StrictSubsetOrderingWellFounded
<1> HIDE DEF T
<1>4. PICK x \in T : \A y \in T : ~(<<y, x>> \in StrictSubsetOrdering(Nat))
  BY <1>1, <1>2, <1>3, WFMin
<1>5. PICK n \in S : x = n..L
  BY <1>4 DEF T
<1>6. ASSUME NEW k \in S, k > n
      PROVE  FALSE
  <2>1. k..L \in T
    BY DEF T
  <2>2. k..L \subseteq x /\ k..L # x
    <3>1. n \in x /\ n \notin k..L
      BY <1>5, <1>6
    <3>2. k..L \subseteq x
      BY <1>5, <1>6
    <3> QED BY <3>1, <3>2
  <2>3. k..L \in SUBSET Nat /\ x \in SUBSET Nat
    BY <1>1, <1>4, <2>1 DEF FiniteSubsetsOf
  <2>4. <<k..L, x>> \in StrictSubsetOrdering(Nat)
    BY <2>2, <2>3 DEF StrictSubsetOrdering
  <2> QED BY <1>4, <2>1, <2>4
<1> QED BY <1>6

(***************************************************************************)
(* Entries                                                                 *)
(***************************************************************************)
LEMMA Configured ==
  /\ Fine \in Nat /\ Fine > 0 /\ Layers \in Nat /\ Layers > 0
  /\ Step \in Nat /\ Step > 0 /\ MinEdge \in Nat /\ MinWidth \in Nat /\ Band \in Nat
  /\ ExchangeMin \in Nat /\ RewardFloor \in Nat /\ SoftCap \in Nat
  /\ Markets \subseteq Market /\ Moving \subseteq Market
BY PlanAssumption DEF PlanAssumption

LEMMA ConsolidatedIsLayers ==
  ASSUME NEW total
  PROVE  /\ Consolidated(total) \in 1..Layers
         /\ Consolidated(total) = 1 \/ ~TooSmall(Per(total, Consolidated(total)))
         /\ \A n \in 1..Layers : ~TooSmall(Per(total, n)) => n <= Consolidated(total)
<1> DEFINE left == {n \in 1..Layers : n = 1 \/ ~TooSmall(Per(total, n))}
<1>1. left \subseteq 1..Layers /\ 1 \in left
  BY Configured
<1>2. Consolidated(total) = CHOOSE n \in left : \A k \in left : k <= n
  BY DEF Consolidated
<1> HIDE DEF left
<1>3. \E n \in left : \A k \in left : k <= n
  BY <1>1, Configured, GreatestExists
<1>4. Consolidated(total) \in left /\ \A k \in left : k <= Consolidated(total)
  BY <1>2, <1>3
<1> QED BY <1>1, <1>4 DEF left

\* A layer's size is a whole number of steps, within half a step of its share.
LEMMA PerBounds ==
  ASSUME NEW total \in Int, NEW n \in 1..Layers
  PROVE  /\ Per(total, n) \in Int
         /\ 2 * n * Per(total, n) <= 2 * total + n * Fine
         /\ total = 0 => Per(total, n) = 0
<1> DEFINE g == n * Fine
           q == (2 * total + g) \div (2 * g)
<1>1. g \in Nat /\ g > 0 /\ Fine \in Nat /\ n \in Nat
  BY Configured
<1>2. 2 * n * Fine = 2 * g
  BY <1>1
<1>3. Per(total, n) = q * Fine
  BY <1>2 DEF Per
<1>4. 2 * g \in Nat /\ 2 * g > 0 /\ 2 * total + g \in Int
  BY <1>1
<1> HIDE DEF g
<1>5. q \in Int /\ q * (2 * g) <= 2 * total + g /\ 2 * total + g < q * (2 * g) + 2 * g
  BY <1>4, Quotient
<1> HIDE DEF q
<1>6. Per(total, n) \in Int
  BY <1>1, <1>3, <1>5
<1>7. 2 * n * (q * Fine) = q * (2 * g)
  BY <1>1, <1>5 DEF g
<1>8. ASSUME total = 0
      PROVE  q = 0
  <2>1. q * (2 * g) <= g /\ g < q * (2 * g) + 2 * g
    BY <1>1, <1>5, <1>8
  <2>2. ~(q >= 1)
    <3>1. q >= 1 => q * (2 * g) >= 2 * g
      BY <1>1, <1>5
    <3> QED BY <1>1, <1>5, <2>1, <3>1
  <2>3. ~(q <= -1)
    <3>1. q <= -1 => q * (2 * g) <= -(2 * g)
      BY <1>1, <1>5
    <3> QED BY <1>1, <1>5, <2>1, <3>1
  <2> QED BY <1>5, <2>2, <2>3
<1> QED BY <1>1, <1>3, <1>5, <1>6, <1>7, <1>8 DEF g

\* The bids a plan can hold for one token, below a given price.
BidsBelow(tok, top) ==
  [token : {tok}, side : {"BUY"},
   price : {x \in Int : 0 < x /\ x <= top /\ \E k \in Int : x = top - k * Grain},
   size : Nat \ {0}]

LEMMA AddLayersShape ==
  ASSUME NEW tok, NEW top \in Int, NEW total \in Int, NEW mid
  PROVE  /\ AddLayers(tok, top, total, mid) \in Seq(BidsBelow(tok, top))
         /\ Len(AddLayers(tok, top, total, mid)) <= Layers
<1> DEFINE sizes == LayerSizes(total)
           fits == {i \in DOMAIN sizes :
                      \A j \in 1..i : Scores(LayerPrice(top, j), mid) /\ LayerPrice(top, j) > 0}
           N == Cardinality(fits)
<1>1. PICK n \in Nat : /\ n <= Layers /\ DOMAIN sizes = 1..n
                       /\ \A i \in 1..n : sizes[i] \in Nat \ {0}
  <2> DEFINE c == Consolidated(total)
  <2>1. c \in 1..Layers /\ Per(total, c) \in Int
    BY ConsolidatedIsLayers, PerBounds
  <2>2. sizes = <<>> \/ (sizes = [i \in 1..c |-> Per(total, c)] /\ ~(Per(total, c) <= 0))
    BY DEF LayerSizes
  <2> HIDE DEF c, sizes
  <2>3. CASE sizes = <<>>
    <3>1. DOMAIN sizes = 1..0 /\ 0 <= Layers
      BY <2>3, Configured
    <3> QED BY <3>1
  <2>4. CASE sizes = [i \in 1..c |-> Per(total, c)] /\ ~(Per(total, c) <= 0)
    <3>1. c \in Nat /\ c <= Layers
      BY <2>1, Configured
    <3> QED BY <2>1, <2>4, <3>1
  <2> QED BY <2>2, <2>3, <2>4
<1> HIDE DEF sizes
<1>2. N \in Nat /\ N <= n
  <2>1. IsFiniteSet(1..n) /\ Cardinality(1..n) = n
    BY FS_Interval
  <2>2. fits \in SUBSET (1..n)
    BY <1>1
  <2> HIDE DEF fits
  <2>3. IsFiniteSet(fits) /\ Cardinality(fits) <= n
    BY <2>1, <2>2, FS_Subset
  <2> QED BY <2>3, FS_CardinalityType
<1>3. ASSUME NEW i \in 1..N
      PROVE  i \in fits
  <2> SUFFICES ASSUME i \notin fits
               PROVE  FALSE
    OBVIOUS
  <2>1. i \in 1..n
    BY <1>2
  <2>2. PICK j \in 1..i : ~(Scores(LayerPrice(top, j), mid) /\ LayerPrice(top, j) > 0)
    BY <1>1, <2>1
  <2>3. fits \subseteq 1..(i - 1)
    <3> SUFFICES ASSUME NEW h \in fits, h > i - 1
                 PROVE  FALSE
      BY <1>1
    <3>1. h \in 1..n
      BY <1>1
    <3>2. j \in 1..h
      BY <3>1, <2>2
    <3> QED BY <2>2, <3>2
  <2>4. IsFiniteSet(1..(i - 1)) /\ Cardinality(1..(i - 1)) = i - 1
    BY FS_Interval
  <2> HIDE DEF fits
  <2>5. N <= i - 1
    BY <2>3, <2>4, FS_Subset
  <2> QED BY <1>2, <2>5
<1>4. ASSUME NEW i \in 1..N
      PROVE  Quote(tok, "BUY", LayerPrice(top, i), sizes[i]) \in BidsBelow(tok, top)
  <2>1. i \in Nat /\ i >= 1 /\ i \in 1..n
    BY <1>2
  <2>2. LayerPrice(top, i) > 0
    BY <1>3, <2>1
  <2>3. (i - 1) * Step \in Nat /\ LayerPrice(top, i) = top - ((i - 1) * Step) * Grain
    BY <2>1, Configured DEF LayerPrice
  <2>4. ((i - 1) * Step) * Grain \in Nat
    BY <2>3, Grid
  <2>5. LayerPrice(top, i) \in Int /\ LayerPrice(top, i) <= top
    BY <2>3, <2>4
  <2>6. sizes[i] \in Nat \ {0}
    BY <1>1, <2>1
  <2> QED BY <2>2, <2>3, <2>5, <2>6 DEF Quote, BidsBelow
<1>5. AddLayers(tok, top, total, mid)
        = [i \in 1..N |-> Quote(tok, "BUY", LayerPrice(top, i), sizes[i])]
  BY DEF AddLayers, sizes
<1> HIDE DEF fits
<1>6. [i \in 1..N |-> Quote(tok, "BUY", LayerPrice(top, i), sizes[i])]
        \in [1..N -> BidsBelow(tok, top)]
  BY <1>4
<1>7. [1..N -> BidsBelow(tok, top)] \subseteq Seq(BidsBelow(tok, top))
  BY <1>2, SeqDef
<1>8. Len(AddLayers(tok, top, total, mid)) = N /\ N <= Layers
  BY <1>1, <1>2, <1>5, Configured
<1> QED BY <1>5, <1>6, <1>7, <1>8

(* What _place_bid is given, and what it makes of it. *)
Top(m, tok) ==
  PlaceBid(Own(m, tok, FairValue(m) - m.skew) - Width(m), m.book[tok],
           Own(m, tok, FairValue(m)), Own(m, tok, Mid(m)))

LEMMA MarketFields ==
  ASSUME NEW m \in Market, NEW tok \in Tokens
  PROVE  /\ m.book[tok].bid \in Int /\ m.book[tok].ask \in Int
         /\ Mid(m) \in Int /\ m.nudge \in Int /\ m.width \in Int /\ m.skew \in Int
         /\ m.size \in Int /\ m.held[tok] \in Nat /\ m.urgency \in 0..2
<1>1. /\ m.book \in [Tokens -> [bid : Int, ask : Int]] /\ m.held \in [Tokens -> Nat]
      /\ m.nudge \in Int /\ m.width \in Int /\ m.skew \in Int /\ m.size \in Nat
      /\ m.urgency \in 0..2
  BY DEF Market
<1>2. \A t \in Tokens : m.book[t].bid \in Int /\ m.book[t].ask \in Int /\ m.held[t] \in Nat
  BY <1>1
<1>3. m.book["yes"].bid + m.book["yes"].ask \in Int
  BY <1>2 DEF Tokens
<1>4. Mid(m) \in Int
  BY <1>3, Quotient DEF Mid
<1> QED BY <1>1, <1>2, <1>4

LEMMA PricesAreInts ==
  ASSUME NEW m \in Market, NEW tok \in Tokens
  PROVE  /\ FairValue(m) \in Int /\ Grain <= FairValue(m) /\ FairValue(m) <= One - Grain
         /\ Width(m) \in Int
         /\ \A x \in Int : Own(m, tok, x) \in Int
<1>1. Mid(m) + m.nudge \in Int
  BY MarketFields
<1>2. FairValue(m) \in Int /\ Grain <= FairValue(m) /\ FairValue(m) <= One - Grain
  BY <1>1, OnGridBounds DEF FairValue
<1>3. Width(m) \in Int
  <2> DEFINE least == MinWidth * Grain
             room  == Band - Distance(FairValue(m), Mid(m)) - MinEdge * Grain
             fits  == m.regime = "QUIET" /\ Band > 0 /\ room >= least
  <2>1. least \in Int /\ MinEdge * Grain \in Int
    BY Configured, Grid
  <2>2. Distance(FairValue(m), Mid(m)) \in Int
    BY <1>2, MarketFields DEF Distance
  <2>3. room \in Int
    BY <2>1, <2>2, Configured
  <2>4. Width(m) = Greatest(IF fits THEN Between(m.width, least, Greatest(least, room))
                            ELSE m.width, Grain)
    BY DEF Width
  <2> HIDE DEF least, room, fits
  <2>5. m.width \in Int /\ Grain \in Int
    BY MarketFields, Grid
  <2> QED BY <2>1, <2>3, <2>4, <2>5 DEF Greatest, Between, Least
<1>4. \A x \in Int : Own(m, tok, x) \in Int
  BY Grid DEF Own
<1> QED BY <1>2, <1>3, <1>4

LEMMA AimBounds ==
  ASSUME NEW target \in Int, NEW view, view.bid \in Int, view.ask \in Int,
         NEW fv \in Int, NEW mid \in Int
  PROVE  Aim(target, view, fv, mid) \in Int /\ Aim(target, view, fv, mid) <= fv - MinEdge * Grain
<1> DEFINE edged  == Least(target, fv - MinEdge * Grain)
           scored == IF Band > 0 THEN Least(edged, mid + Band - Grain) ELSE edged
           joined == IF view.bid # None /\ scored >= view.bid THEN view.bid ELSE scored
<1>1. MinEdge * Grain \in Int /\ Grain \in Nat /\ Band \in Nat
  BY Configured, Grid
<1>2. edged \in Int /\ edged <= fv - MinEdge * Grain
  BY <1>1 DEF Least
<1> HIDE DEF edged
<1>3. scored \in Int /\ scored <= edged
  BY <1>1, <1>2 DEF Least
<1> HIDE DEF scored
<1>4. joined \in Int /\ joined <= scored
  BY <1>3
<1>5. Aim(target, view, fv, mid)
        = IF view.ask # None /\ joined >= view.ask THEN view.ask - Grain ELSE joined
  BY DEF Aim, edged, scored
<1> HIDE DEF joined
<1> QED BY <1>1, <1>2, <1>3, <1>4, <1>5

(* A bid that is placed is on the grid, behind the ask, and below fair value *)
(* by the minimum edge unless it is the lowest tick.                         *)
LEMMA TopBounds ==
  ASSUME NEW m \in Market, NEW tok \in Tokens
  PROVE  /\ Top(m, tok) \in Int
         /\ Top(m, tok) # None =>
              /\ Top(m, tok) <= One - Grain
              /\ \E k \in Int : Top(m, tok) = k * Grain
              /\ m.book[tok].ask = None \/ Top(m, tok) < m.book[tok].ask
              /\ \/ Top(m, tok) = Grain
                 \/ Top(m, tok) <= Own(m, tok, FairValue(m)) - MinEdge * Grain
<1> DEFINE fv     == Own(m, tok, FairValue(m))
           target == Own(m, tok, FairValue(m) - m.skew) - Width(m)
           view   == m.book[tok]
           mid    == Own(m, tok, Mid(m))
           aim    == Aim(target, view, fv, mid)
<1>1. fv \in Int /\ target \in Int /\ mid \in Int /\ view.bid \in Int /\ view.ask \in Int
  BY MarketFields, PricesAreInts
<1>2. Top(m, tok) = IF CrossesAsk(view, RoundDown(aim)) THEN None ELSE RoundDown(aim)
  BY DEF Top, PlaceBid
<1> HIDE DEF fv, target, view, mid
<1>3. aim \in Int /\ aim <= fv - MinEdge * Grain
  BY <1>1, AimBounds
<1>4. MinEdge * Grain \in Int /\ None \in Int
  BY Configured, Grid DEF None
<1> HIDE DEF aim
<1>5. /\ RoundDown(aim) \in Int /\ RoundDown(aim) <= One - Grain
      /\ RoundDown(aim) = Grain \/ RoundDown(aim) <= aim
      /\ \E k \in Int : RoundDown(aim) = k * Grain
  BY <1>3, RoundDownBounds
<1> QED BY <1>1, <1>2, <1>3, <1>4, <1>5 DEF CrossesAsk, fv, view

LEMMA EntriesShape ==
  ASSUME NEW m \in Market, NEW tok \in Tokens
  PROVE  /\ Entries(m, tok) \in Seq(BidsBelow(tok, Top(m, tok)))
         /\ Len(Entries(m, tok)) <= Layers
<1>1. Entries(m, tok) = IF Adds(m, tok) /\ Top(m, tok) # None
                          THEN AddLayers(tok, Top(m, tok), m.size, Own(m, tok, Mid(m)))
                          ELSE <<>>
  BY DEF Entries, Top
<1>2. Top(m, tok) \in Int /\ m.size \in Int
  BY TopBounds, MarketFields
<1>3. <<>> \in Seq(BidsBelow(tok, Top(m, tok))) /\ Len(<<>>) = 0 /\ Layers \in Nat
  BY Configured
<1> QED BY <1>1, <1>2, <1>3, AddLayersShape

(***************************************************************************)
(* Exits, and the plan as a whole                                          *)
(***************************************************************************)
Exits(m, tok) ==
  [token : {tok}, side : {"SELL"}, price : {ExitPrice(m, tok)},
   size : {ExitSize(m.held[tok])} \cap {x \in Int : ~(x < ExchangeMin)}]

LEMMA ExitsShape ==
  ASSUME NEW m \in Market, NEW tok \in Tokens
  PROVE  MaybeExit(m, tok) \in Seq(Exits(m, tok)) /\ Len(MaybeExit(m, tok)) <= 1
<1>1. ExitSize(m.held[tok]) \in Int
  <2>1. m.held[tok] \in Int
    BY MarketFields
  <2>2. m.held[tok] \div Fine \in Int
    BY <2>1, Configured, Quotient
  <2> QED BY <2>2, Configured DEF ExitSize
<1>2. ASSUME ~(ExitSize(m.held[tok]) < ExchangeMin)
      PROVE  Quote(tok, "SELL", ExitPrice(m, tok), ExitSize(m.held[tok])) \in Exits(m, tok)
  BY <1>1, <1>2 DEF Quote, Exits
<1> QED BY <1>2 DEF MaybeExit

Shape(m) ==
  UNION {BidsBelow(tok, Top(m, tok)) \cup Exits(m, tok) : tok \in Tokens}

LEMMA PlanIsList ==
  ASSUME NEW m \in Market
  PROVE  ConstructQuotes(m) \in Seq(Shape(m))
<1>1. \A tok \in Tokens : /\ BidsBelow(tok, Top(m, tok)) \subseteq Shape(m)
                          /\ Exits(m, tok) \subseteq Shape(m)
  BY DEF Shape
<1>2. \A tok \in Tokens : /\ Entries(m, tok) \in Seq(Shape(m))
                          /\ MaybeExit(m, tok) \in Seq(Shape(m))
  BY <1>1, EntriesShape, ExitsShape, SeqMonotonic
<1>3. "yes" \in Tokens /\ "no" \in Tokens
  BY DEF Tokens
<1>4. Entries(m, "yes") \o Entries(m, "no") \in Seq(Shape(m))
  BY <1>2, <1>3, ConcatProperties
<1>5. Entries(m, "yes") \o Entries(m, "no") \o MaybeExit(m, "yes") \in Seq(Shape(m))
  BY <1>2, <1>3, <1>4, ConcatProperties
<1>6. Entries(m, "yes") \o Entries(m, "no") \o MaybeExit(m, "yes") \o MaybeExit(m, "no")
        \in Seq(Shape(m))
  BY <1>2, <1>3, <1>5, ConcatProperties
<1> QED BY <1>6 DEF ConstructQuotes

LEMMA PlanShape ==
  ASSUME NEW m \in Market, NEW i \in DOMAIN ConstructQuotes(m)
  PROVE  ConstructQuotes(m)[i] \in Shape(m)
<1>1. ConstructQuotes(m) \in Seq(Shape(m))
  BY PlanIsList
<1>2. i \in 1..Len(ConstructQuotes(m))
  BY <1>1
<1> QED BY <1>1, <1>2, ElementOfSeq

LEMMA OnATick ==
  ASSUME NEW top, NEW price \in Int, price > 0,
         \E k \in Int : top = k * Grain, \E k \in Int : price = top - k * Grain
  PROVE  price >= Grain
<1>1. PICK k \in Int : top = k * Grain
  OBVIOUS
<1>2. PICK j \in Int : price = top - j * Grain
  OBVIOUS
<1>3. k - j \in Int /\ price = (k - j) * Grain
  BY <1>1, <1>2, Grid
<1> QED BY <1>3, Grid, PositiveMultiple

(* Every quote is a bid of BidsBelow or an exit, of one of the tokens. *)
LEMMA WantedShape ==
  ASSUME market \in Market, NEW q \in Wanted
  PROVE  /\ q.token \in Tokens /\ q.side \in {"BUY", "SELL"}
         /\ q.side = "BUY" => q \in BidsBelow(q.token, Top(market, q.token))
         /\ q.side = "SELL" => q \in Exits(market, q.token)
<1>1. PICK i \in DOMAIN ConstructQuotes(market) : q = ConstructQuotes(market)[i]
  BY DEF Wanted
<1>2. q \in Shape(market)
  BY <1>1, PlanShape
<1>3. PICK tok \in Tokens : q \in BidsBelow(tok, Top(market, tok)) \cup Exits(market, tok)
  BY <1>2 DEF Shape
<1>4. q.token = tok
  BY <1>3 DEF BidsBelow, Exits
<1>5. q \in BidsBelow(tok, Top(market, tok)) => q.side = "BUY"
  BY DEF BidsBelow
<1>6. q \in Exits(market, tok) => q.side = "SELL"
  BY DEF Exits
<1> QED BY <1>3, <1>4, <1>5, <1>6

LEMMA ExitAboveBid ==
  ASSUME NEW m \in Market, NEW tok \in Tokens, m.book[tok].bid # None
  PROVE  ExitPrice(m, tok) > m.book[tok].bid \/ m.book[tok].bid >= One - Grain
<1> DEFINE bid     == m.book[tok].bid
           passive == Own(m, tok, FairValue(m)) + Width(m)
           urgency == IF m.regime = "REDUCE_ONLY" THEN Greatest(m.urgency, 1) ELSE m.urgency
           walked  == -((-(passive * (2 - urgency) + (bid + Grain) * urgency)) \div 2)
           price   == Greatest(walked, bid + Grain)
<1>1. bid \in Int /\ passive \in Int /\ Grain \in Int /\ Grain > 0
  BY MarketFields, PricesAreInts, Grid
<1>2. urgency \in Int
  BY MarketFields DEF Greatest
<1>3. ExitPrice(m, tok) = RoundUp(price)
  BY DEF ExitPrice
<1> HIDE DEF bid, passive, urgency
<1>4. walked \in Int
  <2>1. passive * (2 - urgency) \in Int /\ (bid + Grain) * urgency \in Int
    BY <1>1, <1>2
  <2>2. passive * (2 - urgency) + (bid + Grain) * urgency \in Int
    BY <2>1
  <2> QED BY <2>2, Ceiling
<1> HIDE DEF walked
<1>5. price \in Int /\ price > bid
  BY <1>1, <1>4 DEF Greatest
<1> HIDE DEF price
<1>6. /\ RoundUp(price) \in Int
      /\ price <= One - Grain => price <= RoundUp(price)
      /\ price > One - Grain => RoundUp(price) = One - Grain
  BY <1>5, RoundUpBounds
<1> QED BY <1>1, <1>3, <1>5, <1>6, Grid DEF bid

(***************************************************************************)
(* Positions in order                                                      *)
(***************************************************************************)
\* Where one more position is looked at.
Longer(chosen, n, s) == IF n \in chosen THEN Append(s, n) ELSE s

\* InOrder is the last value of a recursion on 0..length.
LEMMA InOrderSteps ==
  ASSUME NEW N \in Nat, NEW S
  PROVE  \E f \in [0..N -> Seq(Nat)] :
           /\ f[0] = <<>> /\ \A n \in 1..N : f[n] = Longer(S, n, f[n - 1])
           /\ InOrder(N, S) = f[N]
<1> DEFINE Solves(g) == g = [n \in 0..N |-> IF n = 0 THEN <<>>
                                            ELSE IF n \in S THEN Append(g[n - 1], n)
                                                            ELSE g[n - 1]]
           step == [x \in (1..N) \X Seq(Nat) |-> Longer(S, x[1], x[2])]
<1>1. <<>> \in Seq(Nat)
  OBVIOUS
<1>2. step \in [(1..N) \X Seq(Nat) -> Seq(Nat)]
  BY DEF Longer
<1>3. PICK f \in [0..N -> Seq(Nat)] :
        f[0] = <<>> /\ \A n \in 1..N : f[n] = step[<<n, f[n - 1]>>]
  <2> DEFINE V == Seq(Nat)
             base == <<>>
  <2>1. base \in V /\ step \in [(1..N) \X V -> V]
    BY <1>1, <1>2
  <2> HIDE DEF step, V, base
  <2>2. PICK f : Runs(f, N, V, base, step)
    BY <2>1, RecursionExists
  <2> QED BY <2>2 DEF V, base, Runs
<1>4. \A n \in 1..N : f[n] = Longer(S, n, f[n - 1])
  <2> SUFFICES ASSUME NEW n \in 1..N
               PROVE  f[n] = Longer(S, n, f[n - 1])
    OBVIOUS
  <2>1. n - 1 \in 0..N
    OBVIOUS
  <2>2. f[n - 1] \in Seq(Nat)
    BY <1>3, <2>1
  <2>3. <<n, f[n - 1]>> \in (1..N) \X Seq(Nat)
    BY <2>2
  <2> QED BY <1>3, <2>3
<1>5. Solves(f)
  <2>1. f = [n \in 0..N |-> f[n]]
    BY <1>3
  <2>2. \A n \in 0..N : f[n] = IF n = 0 THEN <<>>
                               ELSE IF n \in S THEN Append(f[n - 1], n) ELSE f[n - 1]
    <3> SUFFICES ASSUME NEW n \in 0..N
                 PROVE  f[n] = IF n = 0 THEN <<>>
                               ELSE IF n \in S THEN Append(f[n - 1], n) ELSE f[n - 1]
      OBVIOUS
    <3> HIDE DEF step
    <3>1. CASE n = 0
      BY <1>3, <3>1
    <3>2. CASE n # 0
      <4>1. n \in 1..N
        BY <3>2
      <4> QED BY <1>4, <3>2, <4>1 DEF Longer
    <3> QED BY <3>1, <3>2
  <2> HIDE DEF step
  <2> QED BY <2>1, <2>2
<1> DEFINE g == CHOOSE g : Solves(g)
<1>6. Solves(g)
  <2> HIDE DEF Solves
  <2> QED BY <1>5
<1>7. InOrder(N, S) = g[N]
  BY DEF InOrder
<1> HIDE DEF g, step
<1>8. g[0] = <<>> /\ \A n \in 1..N : g[n] = Longer(S, n, g[n - 1])
  <2>1. \A n \in 0..N : g[n] = IF n = 0 THEN <<>>
                               ELSE IF n \in S THEN Append(g[n - 1], n) ELSE g[n - 1]
    BY <1>6
  <2>2. g[0] = <<>>
    BY <2>1
  <2>3. ASSUME NEW n \in 1..N
        PROVE  g[n] = Longer(S, n, g[n - 1])
    <3>1. n \in 0..N /\ n # 0
      OBVIOUS
    <3> HIDE DEF Solves
    <3> QED BY <2>1, <3>1 DEF Longer
  <2> HIDE DEF Solves
  <2> QED BY <2>2, <2>3
<1>9. \A n \in 0..N : g[n] = f[n]
  <2> DEFINE Same == {n \in 0..N : g[n] = f[n]}
  <2>1. 0 \in Same
    BY <1>3, <1>8
  <2>2. \A n \in 1..N : n - 1 \in Same => n \in Same
    BY <1>4, <1>8
  <2> HIDE DEF Same
  <2>3. \A n \in 0..N : n \in Same
    BY <2>1, <2>2, IntervalInduction
  <2> QED BY <2>3 DEF Same
<1>10. InOrder(N, S) = f[N]
  BY <1>7, <1>9
<1> QED BY <1>3, <1>4, <1>10
\* A list of positions up to n: those of S, each once, in order.
Lists(a, S, n) ==
  /\ a \in Seq(Nat)
  /\ \A i \in 1..Len(a) : a[i] \in S /\ a[i] \in 1..n
  /\ \A i, j \in 1..Len(a) : i < j => a[i] < a[j]
  /\ \A x \in 1..n : x \in S => \E i \in 1..Len(a) : a[i] = x

LEMMA InOrderLists ==
  ASSUME NEW N \in Nat, NEW S
  PROVE  Lists(InOrder(N, S), S, N)
<1>1. PICK f \in [0..N -> Seq(Nat)] :
        /\ f[0] = <<>> /\ \A n \in 1..N : f[n] = Longer(S, n, f[n - 1])
        /\ InOrder(N, S) = f[N]
  BY InOrderSteps
<1> DEFINE Good == {n \in 0..N : Lists(f[n], S, n)}
<1>2. 0 \in Good
  <2>1. Len(f[0]) = 0 /\ f[0] \in Seq(Nat)
    BY <1>1
  <2>2. Lists(f[0], S, 0)
    BY <2>1 DEF Lists
  <2> QED BY <2>2
<1>3. ASSUME NEW n \in 1..N, n - 1 \in Good
      PROVE  n \in Good
  <2> DEFINE a == f[n - 1]
             b == f[n]
  <2>1. Lists(a, S, n - 1) /\ b = Longer(S, n, a)
    BY <1>1, <1>3
  <2> HIDE DEF a, b
  <2>2. CASE n \notin S
    <3>1. b = a
      BY <2>1, <2>2 DEF Longer
    <3>2. \A x \in 1..n : x \in S => x \in 1..(n - 1)
      BY <2>2
    <3>3. \A x \in 1..(n - 1) : x \in 1..n
      OBVIOUS
    <3>4. Lists(b, S, n)
      BY <2>1, <3>1, <3>2, <3>3 DEF Lists
    <3> QED BY <3>4 DEF b
  <2>3. CASE n \in S
    <3>1. a \in Seq(Nat) /\ b = Append(a, n)
      BY <2>1, <2>3 DEF Longer, Lists
    <3>2. /\ b \in Seq(Nat) /\ Len(a) \in Nat /\ Len(b) = Len(a) + 1 /\ b[Len(a) + 1] = n
          /\ \A i \in 1..Len(a) : b[i] = a[i]
      BY <3>1
    <3>3. \A i \in 1..Len(b) : i \in 1..Len(a) \/ i = Len(a) + 1
      BY <3>2
    <3>4. \A i \in 1..Len(a) : a[i] \in S /\ a[i] \in 1..(n - 1) /\ a[i] \in 1..n /\ a[i] < n
      BY <2>1 DEF Lists
    <3>5. \A i \in 1..Len(b) : b[i] \in S /\ b[i] \in 1..n
      <4> SUFFICES ASSUME NEW i \in 1..Len(b)
                   PROVE  b[i] \in S /\ b[i] \in 1..n
        OBVIOUS
      <4>1. CASE i \in 1..Len(a)
        BY <3>2, <3>4, <4>1
      <4>2. CASE i = Len(a) + 1
        BY <2>3, <3>2, <4>2
      <4> QED BY <3>3, <4>1, <4>2
    <3>6. ASSUME NEW i \in 1..Len(b), NEW j \in 1..Len(b), i < j
          PROVE  b[i] < b[j]
      <4>1. i \in 1..Len(a)
        BY <3>2, <3>6
      <4>2. CASE j \in 1..Len(a)
        BY <2>1, <3>2, <3>6, <4>1, <4>2 DEF Lists
      <4>3. CASE j = Len(a) + 1
        BY <3>2, <3>4, <4>1, <4>3
      <4> QED BY <3>3, <4>2, <4>3
    <3>7. ASSUME NEW x \in 1..n, x \in S
          PROVE  \E i \in 1..Len(b) : b[i] = x
      <4>1. CASE x = n
        <5>1. Len(a) + 1 \in 1..Len(b)
          BY <3>2
        <5> QED BY <3>2, <4>1, <5>1
      <4>2. CASE x # n
        <5>1. x \in 1..(n - 1)
          BY <4>2
        <5>2. PICK i \in 1..Len(a) : a[i] = x
          BY <2>1, <3>7, <5>1 DEF Lists
        <5>3. i \in 1..Len(b)
          BY <3>2
        <5> QED BY <3>2, <5>2, <5>3
      <4> QED BY <4>1, <4>2
    <3>8. Lists(b, S, n)
      BY <3>2, <3>5, <3>6, <3>7 DEF Lists
    <3> QED BY <3>8 DEF b
  <2> QED BY <2>2, <2>3
<1> HIDE DEF Good
<1>4. \A n \in 0..N : n \in Good
  BY <1>2, <1>3, IntervalInduction
<1>5. N \in 0..N
  OBVIOUS
<1> QED BY <1>1, <1>4, <1>5 DEF Good

\* All positions, in order, are the positions.
LEMMA InOrderOfAll ==
  ASSUME NEW N \in Nat, NEW S, \A n \in 1..N : n \in S
  PROVE  InOrder(N, S) = [n \in 1..N |-> n]
<1>1. PICK f \in [0..N -> Seq(Nat)] :
        /\ f[0] = <<>> /\ \A n \in 1..N : f[n] = Longer(S, n, f[n - 1])
        /\ InOrder(N, S) = f[N]
  BY InOrderSteps
<1> DEFINE all(n) == [k \in 1..n |-> k]
           Good == {n \in 0..N : f[n] = all(n)}
<1>2. 0 \in Good
  <2>1. all(0) = <<>>
    OBVIOUS
  <2> QED BY <1>1, <2>1
<1>3. ASSUME NEW n \in 1..N, n - 1 \in Good
      PROVE  n \in Good
  <2>1. f[n] = Append(all(n - 1), n)
    BY <1>1, <1>3 DEF Longer
  <2>2. /\ all(n - 1) \in Seq(Nat) /\ Len(all(n - 1)) = n - 1
        /\ all(n) \in Seq(Nat) /\ Len(all(n)) = n
    OBVIOUS
  <2>3. Append(all(n - 1), n) = all(n)
    OBVIOUS
  <2>4. f[n] = all(n)
    BY <2>1, <2>3
  <2> HIDE DEF all
  <2> QED BY <2>4
<1> HIDE DEF Good
<1>4. \A n \in 0..N : n \in Good
  BY <1>2, <1>3, IntervalInduction
<1>5. N \in 0..N
  OBVIOUS
<1> QED BY <1>1, <1>4, <1>5 DEF Good

\* No position, in order, is no list.
LEMMA InOrderOfNone ==
  ASSUME NEW N \in Nat, NEW S, \A n \in 1..N : n \notin S
  PROVE  InOrder(N, S) = <<>>
<1>1. Lists(InOrder(N, S), S, N)
  BY InOrderLists
<1>2. Len(InOrder(N, S)) \in Nat /\ ~(1 \in 1..Len(InOrder(N, S)))
  BY <1>1 DEF Lists
<1> QED BY <1>1, <1>2 DEF Lists
(***************************************************************************)
(* The greedy matching                                                     *)
(***************************************************************************)
\* The resting orders close to target n that none of a list has taken.
Fits(targets, orders, before, n) ==
  {i \in DOMAIN orders : /\ Close(orders[i], targets[n])
                         /\ \A k \in DOMAIN before : before[k] # i}

\* First come: the first of them, or 0.
First(fits) == IF fits = {} THEN 0 ELSE CHOOSE i \in fits : \A j \in fits : i <= j

LEMMA FirstBounds ==
  ASSUME NEW fits \in SUBSET (Nat \ {0})
  PROVE  /\ First(fits) \in Nat
         /\ First(fits) = 0 <=> fits = {}
         /\ First(fits) # 0 => First(fits) \in fits
         /\ \A j \in fits : First(fits) <= j
<1>1. CASE fits = {}
  BY <1>1 DEF First
<1>2. CASE fits # {}
  <2>1. fits \in SUBSET Nat
    OBVIOUS
  <2>2. \E i \in fits : \A j \in fits : i <= j
    BY <1>2, <2>1, LeastNatural
  <2>3. First(fits) \in fits /\ \A j \in fits : First(fits) <= j
    BY <1>2, <2>2 DEF First
  <2> QED BY <1>2, <2>3
<1> QED BY <1>1, <1>2

LEMMA FitsArePositions ==
  ASSUME NEW T, NEW orders \in Seq(T), NEW targets, NEW before, NEW n
  PROVE  Fits(targets, orders, before, n) \in SUBSET (Nat \ {0})
<1>1. DOMAIN orders \subseteq Nat \ {0}
  OBVIOUS
<1> QED BY <1>1 DEF Fits

\* Matches is the last value of a recursion on the targets.
LEMMA MatchesSteps ==
  ASSUME NEW T, NEW targets \in Seq(T), NEW orders \in Seq(T)
  PROVE  \E f \in [0..Len(targets) -> Seq(Nat)] :
           /\ f[0] = <<>>
           /\ \A n \in 1..Len(targets) :
                f[n] = Append(f[n - 1], First(Fits(targets, orders, f[n - 1], n)))
           /\ Matches(targets, orders) = f[Len(targets)]
<1> DEFINE N == Len(targets)
           one(n, s) == Append(s, First(Fits(targets, orders, s, n)))
           Solves(g) == g = [n \in 0..N |-> IF n = 0 THEN <<>> ELSE one(n, g[n - 1])]
           step == [x \in (1..N) \X Seq(Nat) |-> one(x[1], x[2])]
<1>1. <<>> \in Seq(Nat) /\ N \in Nat
  OBVIOUS
<1>2. step \in [(1..N) \X Seq(Nat) -> Seq(Nat)]
  <2>1. \A n \in 1..N, s \in Seq(Nat) : one(n, s) \in Seq(Nat)
    <3> SUFFICES ASSUME NEW n \in 1..N, NEW s \in Seq(Nat)
                 PROVE  one(n, s) \in Seq(Nat)
      OBVIOUS
    <3>1. First(Fits(targets, orders, s, n)) \in Nat
      BY FitsArePositions, FirstBounds
    <3> QED BY <3>1
  <2> HIDE DEF one
  <2> QED BY <2>1
<1>3. PICK f \in [0..N -> Seq(Nat)] :
        f[0] = <<>> /\ \A n \in 1..N : f[n] = step[<<n, f[n - 1]>>]
  <2> DEFINE V == Seq(Nat)
             base == <<>>
  <2>1. base \in V /\ step \in [(1..N) \X V -> V]
    BY <1>1, <1>2
  <2> HIDE DEF step, V, base, N
  <2>2. PICK f : Runs(f, N, V, base, step)
    BY <1>1, <2>1, RecursionExists
  <2> QED BY <2>2 DEF V, base, Runs
<1> HIDE DEF N, one
<1>4. \A n \in 1..N : f[n] = one(n, f[n - 1])
  <2> SUFFICES ASSUME NEW n \in 1..N
               PROVE  f[n] = one(n, f[n - 1])
    OBVIOUS
  <2>1. n - 1 \in 0..N
    BY <1>1
  <2>2. f[n - 1] \in Seq(Nat)
    BY <1>3, <2>1
  <2>3. <<n, f[n - 1]>> \in (1..N) \X Seq(Nat)
    BY <2>2
  <2> QED BY <1>3, <2>3
<1> HIDE DEF step
<1>5. Solves(f)
  <2>1. f = [n \in 0..N |-> f[n]]
    BY <1>3
  <2>2. \A n \in 0..N : f[n] = IF n = 0 THEN <<>> ELSE one(n, f[n - 1])
    <3> SUFFICES ASSUME NEW n \in 0..N
                 PROVE  f[n] = IF n = 0 THEN <<>> ELSE one(n, f[n - 1])
      OBVIOUS
    <3>1. n # 0 => n \in 1..N
      BY <1>1
    <3> QED BY <1>3, <1>4, <3>1
  <2> QED BY <2>1, <2>2
<1> DEFINE g == CHOOSE g : Solves(g)
<1>6. Solves(g)
  <2> HIDE DEF Solves
  <2> QED BY <1>5
<1>7. Matches(targets, orders) = g[N]
  BY DEF Matches, N, one, Fits, First
<1> HIDE DEF g
<1>8. g[0] = <<>> /\ \A n \in 1..N : g[n] = one(n, g[n - 1])
  <2>1. \A n \in 0..N : g[n] = IF n = 0 THEN <<>> ELSE one(n, g[n - 1])
    BY <1>6
  <2>2. 0 \in 0..N /\ \A n \in 1..N : n \in 0..N /\ n # 0
    BY <1>1
  <2> HIDE DEF Solves
  <2> QED BY <2>1, <2>2
<1>9. \A n \in 0..N : g[n] = f[n]
  <2> DEFINE Same == {n \in 0..N : g[n] = f[n]}
  <2>1. 0 \in Same
    BY <1>1, <1>3, <1>8
  <2>2. ASSUME NEW n \in 1..N, n - 1 \in Same
        PROVE  n \in Same
    BY <1>1, <1>4, <1>8, <2>2
  <2> HIDE DEF Same
  <2>3. \A n \in 0..N : n \in Same
    BY <1>1, <2>1, <2>2, IntervalInduction
  <2> QED BY <2>3 DEF Same
<1>10. Matches(targets, orders) = f[N]
  BY <1>1, <1>7, <1>9
<1> QED BY <1>3, <1>4, <1>10 DEF N, one
\* The orders target n can keep: close to it, and not kept by a target before it.
Free(targets, orders, keeps, n) ==
  {i \in DOMAIN orders : /\ Close(orders[i], targets[n])
                         /\ \A k \in 1..(n - 1) : keeps[k] # i}

\* Each target keeps the first order it can.
Greedy(targets, orders, keeps) ==
  /\ keeps \in Seq(Nat)
  /\ Len(keeps) = Len(targets)
  /\ \A n \in 1..Len(targets) :
       /\ keeps[n] = 0 <=> Free(targets, orders, keeps, n) = {}
       /\ keeps[n] # 0 => keeps[n] \in Free(targets, orders, keeps, n)
       /\ \A j \in Free(targets, orders, keeps, n) : keeps[n] <= j

LEMMA MatchesGreedily ==
  ASSUME NEW T, NEW targets \in Seq(T), NEW orders \in Seq(T)
  PROVE  Greedy(targets, orders, Matches(targets, orders))
<1> DEFINE N == Len(targets)
           keeps == Matches(targets, orders)
           next(s, n) == First(Fits(targets, orders, s, n))
<1>1. PICK f \in [0..N -> Seq(Nat)] :
        /\ f[0] = <<>>
        /\ \A n \in 1..N : f[n] = Append(f[n - 1], next(f[n - 1], n))
        /\ keeps = f[N]
  BY MatchesSteps
<1>2. N \in Nat
  OBVIOUS
<1>3. \A s, n : next(s, n) \in Nat
  BY FitsArePositions, FirstBounds
<1> HIDE DEF N, keeps, next
<1> DEFINE Good == {n \in 0..N : Len(f[n]) = n /\ \A m \in 1..n : f[n][m] = f[m][m]}
<1>4. 0 \in Good
  BY <1>1, <1>2
<1>5. ASSUME NEW n \in 1..N, n - 1 \in Good
      PROVE  n \in Good
  <2> DEFINE a == f[n - 1]
  <2>1. /\ n - 1 \in 0..N /\ a \in Seq(Nat) /\ Len(a) = n - 1
        /\ \A m \in 1..(n - 1) : a[m] = f[m][m]
    BY <1>1, <1>2, <1>5
  <2>2. f[n] = Append(a, next(a, n)) /\ next(a, n) \in Nat
    BY <1>1, <1>3
  <2> HIDE DEF a
  <2>3. Len(f[n]) = n /\ \A m \in 1..(n - 1) : f[n][m] = a[m]
    BY <2>1, <2>2
  <2>4. ASSUME NEW m \in 1..n
        PROVE  f[n][m] = f[m][m]
    <3>1. m = n \/ m \in 1..(n - 1)
      OBVIOUS
    <3> QED BY <2>1, <2>3, <3>1
  <2> QED BY <2>3, <2>4
<1>6. \A n \in 0..N : n \in Good
  <2> HIDE DEF Good
  <2> QED BY <1>2, <1>4, <1>5, IntervalInduction
<1>7. \A n \in 0..N : f[n] \in Seq(Nat) /\ Len(f[n]) = n /\ \A m \in 1..n : f[n][m] = f[m][m]
  BY <1>1, <1>6
<1>8. keeps \in Seq(Nat) /\ Len(keeps) = N /\ \A n \in 1..N : keeps[n] = f[n][n]
  <2>1. N \in 0..N
    BY <1>2
  <2> QED BY <1>1, <1>7, <2>1
<1>9. ASSUME NEW n \in 1..N
      PROVE  keeps[n] = First(Free(targets, orders, keeps, n))
  <2> DEFINE a == f[n - 1]
  <2>0. n - 1 \in 0..N
    BY <1>2
  <2>1. n - 1 \in 0..N /\ a \in Seq(Nat) /\ Len(a) = n - 1
    BY <1>7, <2>0
  <2>2. DOMAIN a = 1..(n - 1)
    BY <2>1
  <2>3. \A k \in 1..(n - 1) : a[k] = keeps[k]
    <3> SUFFICES ASSUME NEW k \in 1..(n - 1)
                 PROVE  a[k] = keeps[k]
      OBVIOUS
    <3>1. k \in 1..N /\ k \in 0..N
      BY <1>2
    <3> QED BY <1>7, <1>8, <2>1, <3>1
  <2>4. f[n] = Append(a, next(a, n))
    BY <1>1
  <2> HIDE DEF a
  <2>5. f[n][n] = next(a, n)
    BY <1>3, <2>1, <2>4
  <2>6. Fits(targets, orders, a, n) = Free(targets, orders, keeps, n)
    BY <2>2, <2>3 DEF Fits, Free
  <2> QED BY <1>8, <2>5, <2>6 DEF next
<1>10. ASSUME NEW n \in 1..N
       PROVE  Free(targets, orders, keeps, n) \in SUBSET (Nat \ {0})
  <2>1. DOMAIN orders \subseteq Nat \ {0}
    OBVIOUS
  <2> QED BY <2>1 DEF Free
<1>11. ASSUME NEW n \in 1..N
       PROVE  /\ keeps[n] = 0 <=> Free(targets, orders, keeps, n) = {}
              /\ keeps[n] # 0 => keeps[n] \in Free(targets, orders, keeps, n)
              /\ \A j \in Free(targets, orders, keeps, n) : keeps[n] <= j
  BY <1>9, <1>10, FirstBounds
<1> QED BY <1>8, <1>11 DEF Greedy, N, keeps

(***************************************************************************)
(* The orders after a pass                                                 *)
(***************************************************************************)
\* The resting orders a matching keeps, and the targets it leaves to place.
Kept(targets, orders) ==
  LET keeps == Matches(targets, orders) IN InOrder(Len(orders), {keeps[n] : n \in DOMAIN keeps})
Placed(targets, orders) ==
  LET keeps == Matches(targets, orders)
  IN  InOrder(Len(targets), {n \in DOMAIN keeps : keeps[n] = 0})

\* What a pass leaves: first the orders kept, then those placed.
LEMMA ReconciledShape ==
  ASSUME NEW T, NEW targets \in Seq(T), NEW orders \in Seq(T)
  PROVE  LET keeps  == Matches(targets, orders)
             kept   == Kept(targets, orders)
             placed == Placed(targets, orders)
             after  == Reconciled(targets, orders)
         IN  /\ Greedy(targets, orders, keeps)
             /\ kept \in Seq(Nat) /\ placed \in Seq(Nat)
             /\ \A k \in 1..Len(kept) :
                  kept[k] \in 1..Len(orders) /\ \E n \in 1..Len(targets) : keeps[n] = kept[k]
             /\ \A k \in 1..Len(placed) : placed[k] \in 1..Len(targets) /\ keeps[placed[k]] = 0
             /\ \A j, k \in 1..Len(kept) : j < k => kept[j] < kept[k]
             /\ \A j, k \in 1..Len(placed) : j < k => placed[j] < placed[k]
             /\ \A n \in 1..Len(targets) :
                  IF keeps[n] = 0 THEN \E k \in 1..Len(placed) : placed[k] = n
                                  ELSE \E k \in 1..Len(kept) : kept[k] = keeps[n]
             /\ after \in Seq(T) /\ Len(after) = Len(kept) + Len(placed)
             /\ \A k \in 1..Len(kept) : after[k] = orders[kept[k]]
             /\ \A k \in 1..Len(placed) : after[Len(kept) + k] = targets[placed[k]]
<1> DEFINE keeps  == Matches(targets, orders)
           kept   == Kept(targets, orders)
           placed == Placed(targets, orders)
           after  == Reconciled(targets, orders)
           some   == {keeps[n] : n \in DOMAIN keeps}
           none   == {n \in DOMAIN keeps : keeps[n] = 0}
<1>1. Greedy(targets, orders, keeps)
  BY MatchesGreedily
<1>2. Len(orders) \in Nat /\ Len(targets) \in Nat
  OBVIOUS
<1>3. Lists(kept, some, Len(orders)) /\ Lists(placed, none, Len(targets))
  BY <1>2, InOrderLists DEF Kept, Placed
<1>4. after = [k \in DOMAIN kept |-> orders[kept[k]]] \o [k \in DOMAIN placed |-> targets[placed[k]]]
  BY DEF Reconciled, Kept, Placed
<1> HIDE DEF keeps, kept, placed, after
<1>5. keeps \in Seq(Nat) /\ DOMAIN keeps = 1..Len(targets)
  BY <1>1 DEF Greedy
<1>6. /\ kept \in Seq(Nat) /\ placed \in Seq(Nat)
      /\ \A k \in 1..Len(kept) :
           kept[k] \in 1..Len(orders) /\ \E n \in 1..Len(targets) : keeps[n] = kept[k]
      /\ \A k \in 1..Len(placed) : placed[k] \in 1..Len(targets) /\ keeps[placed[k]] = 0
      /\ \A j, k \in 1..Len(kept) : j < k => kept[j] < kept[k]
      /\ \A j, k \in 1..Len(placed) : j < k => placed[j] < placed[k]
  BY <1>3, <1>5 DEF Lists
<1>7. ASSUME NEW n \in 1..Len(targets)
      PROVE  IF keeps[n] = 0 THEN \E k \in 1..Len(placed) : placed[k] = n
                             ELSE \E k \in 1..Len(kept) : kept[k] = keeps[n]
  <2>1. CASE keeps[n] = 0
    <3>1. n \in none
      BY <1>5, <2>1
    <3> QED BY <1>3, <2>1, <3>1 DEF Lists
  <2>2. CASE keeps[n] # 0
    <3>1. keeps[n] \in some
      BY <1>5
    <3>2. keeps[n] \in 1..Len(orders)
      BY <1>1, <1>5, <2>2 DEF Greedy, Free
    <3> HIDE DEF some
    <3> QED BY <1>3, <2>2, <3>1, <3>2 DEF Lists
  <2> QED BY <2>1, <2>2
<1> DEFINE first  == [k \in DOMAIN kept |-> orders[kept[k]]]
           second == [k \in DOMAIN placed |-> targets[placed[k]]]
<1>8. /\ first \in Seq(T) /\ Len(first) = Len(kept)
      /\ \A k \in 1..Len(kept) : first[k] = orders[kept[k]]
  <2>1. DOMAIN kept = 1..Len(kept) /\ Len(kept) \in Nat
    BY <1>6
  <2>2. \A k \in 1..Len(kept) : orders[kept[k]] \in T
    BY <1>6
  <2> QED BY <2>1, <2>2
<1>9. /\ second \in Seq(T) /\ Len(second) = Len(placed)
      /\ \A k \in 1..Len(placed) : second[k] = targets[placed[k]]
  <2>1. DOMAIN placed = 1..Len(placed) /\ Len(placed) \in Nat
    BY <1>6
  <2>2. \A k \in 1..Len(placed) : targets[placed[k]] \in T
    BY <1>6
  <2> QED BY <2>1, <2>2
<1>10. after = first \o second
  BY <1>4
<1> HIDE DEF first, second, some, none
<1>11. /\ after \in Seq(T) /\ Len(after) = Len(kept) + Len(placed)
       /\ \A k \in 1..Len(kept) : after[k] = orders[kept[k]]
       /\ \A k \in 1..Len(placed) : after[Len(kept) + k] = targets[placed[k]]
  <2>1. /\ after \in Seq(T) /\ Len(after) = Len(kept) + Len(placed)
        /\ \A i \in 1..(Len(kept) + Len(placed)) :
             after[i] = IF i <= Len(kept) THEN first[i] ELSE second[i - Len(kept)]
    <3>1. first \in Seq(T) /\ second \in Seq(T)
      BY <1>8, <1>9
    <3>2. /\ first \o second \in Seq(T)
          /\ Len(first \o second) = Len(first) + Len(second)
          /\ \A i \in 1..(Len(first) + Len(second)) :
               (first \o second)[i] = IF i <= Len(first) THEN first[i] ELSE second[i - Len(first)]
      BY <3>1, ConcatProperties
    <3>3. Len(first) = Len(kept) /\ Len(second) = Len(placed)
      BY <1>8, <1>9
    <3> QED BY <1>10, <3>2, <3>3
  <2>2. Len(kept) \in Nat /\ Len(placed) \in Nat
    BY <1>6
  <2>3. ASSUME NEW k \in 1..Len(kept)
        PROVE  after[k] = orders[kept[k]]
    BY <1>8, <2>1, <2>2
  <2>4. ASSUME NEW k \in 1..Len(placed)
        PROVE  after[Len(kept) + k] = targets[placed[k]]
    <3>1. /\ Len(kept) + k \in 1..(Len(kept) + Len(placed))
          /\ ~(Len(kept) + k <= Len(kept)) /\ (Len(kept) + k) - Len(kept) = k
      BY <2>2
    <3>2. after[Len(kept) + k] = second[(Len(kept) + k) - Len(kept)]
      BY <2>1, <3>1
    <3> QED BY <1>9, <3>1, <3>2
  <2> QED BY <2>1, <2>3, <2>4
<1> QED BY <1>1, <1>6, <1>7, <1>11 DEF keeps, kept, placed, after
(***************************************************************************)
(* A second pass                                                           *)
(***************************************************************************)
\* The order at place p after a pass is there for target n: it is the one n kept,
\* or n placed.
StandsFor(targets, orders, n, p) ==
  LET keeps  == Matches(targets, orders)
      kept   == Kept(targets, orders)
      placed == Placed(targets, orders)
  IN  IF keeps[n] = 0 THEN p > Len(kept) /\ placed[p - Len(kept)] = n
                      ELSE p <= Len(kept) /\ kept[p] = keeps[n]

\* Targets and orders after a pass correspond one to one.
LEMMA OneOrderEach ==
  ASSUME NEW T, NEW targets \in Seq(T), NEW orders \in Seq(T)
  PROVE  LET N == Len(targets)
             A == Len(Reconciled(targets, orders))
         IN  /\ \A n \in 1..N : \E p \in 1..A : StandsFor(targets, orders, n, p)
             /\ \A p \in 1..A : \E n \in 1..N : StandsFor(targets, orders, n, p)
             /\ \A n \in 1..N, p, q \in 1..A :
                  StandsFor(targets, orders, n, p) /\ StandsFor(targets, orders, n, q) => p = q
             /\ \A m, n \in 1..N, p \in 1..A :
                  StandsFor(targets, orders, m, p) /\ StandsFor(targets, orders, n, p) => m = n
<1> DEFINE keeps  == Matches(targets, orders)
           kept   == Kept(targets, orders)
           placed == Placed(targets, orders)
           N == Len(targets)
           A == Len(Reconciled(targets, orders))
           K == Len(kept)
           P == Len(placed)
           For(n, p) == IF keeps[n] = 0 THEN p > K /\ placed[p - K] = n
                                        ELSE p <= K /\ kept[p] = keeps[n]
<1>1. \A n, p : StandsFor(targets, orders, n, p) = For(n, p)
  BY DEF StandsFor
<1>2. /\ Greedy(targets, orders, keeps)
      /\ kept \in Seq(Nat) /\ placed \in Seq(Nat) /\ A = K + P
      /\ \A k \in 1..K : kept[k] \in 1..Len(orders) /\ \E n \in 1..N : keeps[n] = kept[k]
      /\ \A k \in 1..P : placed[k] \in 1..N /\ keeps[placed[k]] = 0
      /\ \A j, k \in 1..K : j < k => kept[j] < kept[k]
      /\ \A j, k \in 1..P : j < k => placed[j] < placed[k]
      /\ \A n \in 1..N : IF keeps[n] = 0 THEN \E k \in 1..P : placed[k] = n
                                          ELSE \E k \in 1..K : kept[k] = keeps[n]
  BY ReconciledShape
<1>3. N \in Nat
  OBVIOUS
<1>4. /\ keeps \in Seq(Nat) /\ Len(keeps) = N
      /\ \A n \in 1..N : keeps[n] # 0 => \A m \in 1..(n - 1) : keeps[m] # keeps[n]
  BY <1>2 DEF Greedy, Free
<1> HIDE DEF keeps, kept, placed, N, A
<1>5. K \in Nat /\ P \in Nat
  BY <1>2
<1> HIDE DEF K, P
<1>6. \A j, k \in 1..K : kept[j] = kept[k] => j = k
  <2> SUFFICES ASSUME NEW j \in 1..K, NEW k \in 1..K, kept[j] = kept[k], j # k
               PROVE  FALSE
    OBVIOUS
  <2>1. j < k \/ k < j
    BY <1>5
  <2>2. kept[j] \in Int /\ kept[k] \in Int
    BY <1>2
  <2> QED BY <1>2, <2>1, <2>2
<1>7. \A j, k \in 1..P : placed[j] = placed[k] => j = k
  <2> SUFFICES ASSUME NEW j \in 1..P, NEW k \in 1..P, placed[j] = placed[k], j # k
               PROVE  FALSE
    OBVIOUS
  <2>1. j < k \/ k < j
    BY <1>5
  <2>2. placed[j] \in Int /\ placed[k] \in Int
    BY <1>2
  <2> QED BY <1>2, <2>1, <2>2
<1>8. \A m, n \in 1..N : keeps[m] = keeps[n] /\ keeps[n] # 0 => m = n
  <2> SUFFICES ASSUME NEW m \in 1..N, NEW n \in 1..N, keeps[m] = keeps[n], keeps[n] # 0, m # n
               PROVE  FALSE
    OBVIOUS
  <2>1. m \in 1..(n - 1) \/ n \in 1..(m - 1)
    BY <1>3
  <2> QED BY <1>4, <2>1
<1>9. ASSUME NEW n \in 1..N
      PROVE  \E p \in 1..A : For(n, p)
  <2>1. CASE keeps[n] = 0
    <3>1. PICK k \in 1..P : placed[k] = n
      BY <1>2, <2>1
    <3>2. K + k \in 1..A /\ K + k > K /\ (K + k) - K = k
      BY <1>2, <1>5
    <3>3. For(n, K + k)
      BY <2>1, <3>1, <3>2
    <3> QED BY <3>2, <3>3
  <2>2. CASE keeps[n] # 0
    <3>1. PICK k \in 1..K : kept[k] = keeps[n]
      BY <1>2, <2>2
    <3>2. k \in 1..A /\ k <= K
      BY <1>2, <1>5
    <3>3. For(n, k)
      BY <2>2, <3>1, <3>2
    <3> QED BY <3>2, <3>3
  <2> QED BY <2>1, <2>2
<1>10. ASSUME NEW p \in 1..A
       PROVE  \E n \in 1..N : For(n, p)
  <2>1. CASE p <= K
    <3>1. p \in 1..K /\ kept[p] # 0
      BY <1>2, <1>5, <2>1
    <3>2. PICK n \in 1..N : keeps[n] = kept[p]
      BY <1>2, <3>1
    <3> QED BY <2>1, <3>1, <3>2
  <2>2. CASE p > K
    <3>1. p - K \in 1..P
      BY <1>2, <1>5, <2>2
    <3>2. placed[p - K] \in 1..N /\ keeps[placed[p - K]] = 0
      BY <1>2, <3>1
    <3> QED BY <2>2, <3>2
  <2>3. p <= K \/ p > K
    BY <1>2, <1>5
  <2> QED BY <2>1, <2>2, <2>3
<1>11. ASSUME NEW p \in 1..A
       PROVE  /\ p \in Int /\ K \in Int
              /\ p <= K => p \in 1..K
              /\ p > K => p - K \in 1..P
  BY <1>2, <1>5
<1>12. ASSUME NEW n \in 1..N, NEW p \in 1..A, NEW q \in 1..A, For(n, p), For(n, q)
       PROVE  p = q
  <2>1. CASE keeps[n] = 0
    <3>1. p - K \in 1..P /\ q - K \in 1..P /\ placed[p - K] = placed[q - K]
      BY <1>11, <1>12, <2>1
    <3>2. p - K = q - K
      BY <1>7, <3>1
    <3> QED BY <1>11, <3>2
  <2>2. CASE keeps[n] # 0
    BY <1>6, <1>11, <1>12, <2>2
  <2> QED BY <2>1, <2>2
<1>13. ASSUME NEW m \in 1..N, NEW n \in 1..N, NEW p \in 1..A, For(m, p), For(n, p)
       PROVE  m = n
  <2>1. CASE p <= K
    <3>1. keeps[m] # 0 /\ keeps[n] # 0
      BY <1>11, <1>13, <2>1
    <3> QED BY <1>8, <1>13, <3>1
  <2>2. CASE p > K
    <3>1. keeps[m] = 0 /\ keeps[n] = 0
      BY <1>11, <1>13, <2>2
    <3> QED BY <1>13, <3>1
  <2> QED BY <1>11, <2>1, <2>2
<1> HIDE DEF For
<1>14. /\ \A n \in 1..N : \E p \in 1..A : For(n, p)
       /\ \A p \in 1..A : \E n \in 1..N : For(n, p)
       /\ \A n \in 1..N, p, q \in 1..A : For(n, p) /\ For(n, q) => p = q
       /\ \A m, n \in 1..N, p \in 1..A : For(m, p) /\ For(n, p) => m = n
  BY <1>9, <1>10, <1>12, <1>13
<1> QED BY <1>1, <1>14 DEF N, A

\* There are as many orders after a pass as there are targets.
LEMMA AsManyOrders ==
  ASSUME NEW T, NEW targets \in Seq(T), NEW orders \in Seq(T)
  PROVE  Len(Reconciled(targets, orders)) = Len(targets)
<1> DEFINE N == Len(targets)
           A == Len(Reconciled(targets, orders))
           pos == [n \in 1..N |-> CHOOSE p \in 1..A : StandsFor(targets, orders, n, p)]
<1>1. N \in Nat /\ A \in Nat
  <2>1. Reconciled(targets, orders) \in Seq(T)
    BY ReconciledShape
  <2> QED BY <2>1
<1>2. /\ \A n \in 1..N : \E p \in 1..A : StandsFor(targets, orders, n, p)
      /\ \A p \in 1..A : \E n \in 1..N : StandsFor(targets, orders, n, p)
      /\ \A n \in 1..N, p, q \in 1..A :
           StandsFor(targets, orders, n, p) /\ StandsFor(targets, orders, n, q) => p = q
      /\ \A m, n \in 1..N, p \in 1..A :
           StandsFor(targets, orders, m, p) /\ StandsFor(targets, orders, n, p) => m = n
  BY OneOrderEach
<1> HIDE DEF N, A
<1>3. \A n \in 1..N : pos[n] \in 1..A /\ StandsFor(targets, orders, n, pos[n])
  BY <1>2
<1>4. pos \in [1..N -> 1..A]
  BY <1>3
<1> HIDE DEF pos
<1>5. \A m, n \in 1..N : pos[m] = pos[n] => m = n
  BY <1>2, <1>3
<1>6. \A p \in 1..A : \E n \in 1..N : pos[n] = p
  BY <1>2, <1>3
<1>7. pos \in Bijection(1..N, 1..A)
  BY <1>4, <1>5, <1>6, Fun_IsBij
<1>8. ExistsBijection(1..N, 1..A)
  BY <1>7 DEF ExistsBijection
<1>9. IsFiniteSet(1..N) /\ Cardinality(1..N) = N /\ Cardinality(1..A) = A
  BY <1>1, FS_Interval
<1>10. Cardinality(1..N) = Cardinality(1..A)
  BY <1>8, <1>9, FS_Bijection
<1> QED BY <1>9, <1>10 DEF N, A
\* After a pass every target keeps the order that stands for it: it kept or placed
\* that one in the first pass because no earlier one was free for it, and of the
\* orders a pass leaves none is nearer the front than it was.
LEMMA KeepsWhatStands ==
  ASSUME NEW T, NEW targets \in Seq(T), NEW orders \in Seq(T),
         \A n \in 1..Len(targets) : Close(targets[n], targets[n])
  PROVE  LET after == Reconciled(targets, orders)
             keeps == Matches(targets, after)
         IN  \A n \in 1..Len(targets) :
               keeps[n] \in 1..Len(after) /\ StandsFor(targets, orders, n, keeps[n])
<1> DEFINE first  == Matches(targets, orders)
           kept   == Kept(targets, orders)
           placed == Placed(targets, orders)
           after  == Reconciled(targets, orders)
           keeps  == Matches(targets, after)
           N == Len(targets)
           A == Len(after)
           K == Len(kept)
           P == Len(placed)
           For(n, p) == StandsFor(targets, orders, n, p)
<1>1. \A n, p : For(n, p) <=> IF first[n] = 0 THEN p > K /\ placed[p - K] = n
                                             ELSE p <= K /\ kept[p] = first[n]
  BY DEF StandsFor
<1>2. /\ Greedy(targets, orders, first)
      /\ kept \in Seq(Nat) /\ placed \in Seq(Nat) /\ A = K + P /\ after \in Seq(T)
      /\ \A k \in 1..K : kept[k] \in 1..Len(orders)
      /\ \A k \in 1..P : placed[k] \in 1..N /\ first[placed[k]] = 0
      /\ \A j, k \in 1..K : j < k => kept[j] < kept[k]
      /\ \A j, k \in 1..P : j < k => placed[j] < placed[k]
      /\ \A k \in 1..K : after[k] = orders[kept[k]]
      /\ \A k \in 1..P : after[K + k] = targets[placed[k]]
  BY ReconciledShape
<1>3. N \in Nat
  OBVIOUS
<1>4. /\ \A n \in 1..N : \E p \in 1..A : For(n, p)
      /\ \A n \in 1..N, p, q \in 1..A : For(n, p) /\ For(n, q) => p = q
      /\ \A m, n \in 1..N, p \in 1..A : For(m, p) /\ For(n, p) => m = n
  BY OneOrderEach
<1>5. Greedy(targets, after, keeps)
  BY <1>2, MatchesGreedily
<1>6. DOMAIN after = 1..A /\ DOMAIN orders = 1..Len(orders)
  BY <1>2
<1> HIDE DEF first, kept, placed, after, keeps, N, A, For
<1>7. K \in Nat /\ P \in Nat
  BY <1>2
<1> HIDE DEF K, P
<1>8. \A n \in 1..N :
        /\ first[n] = 0 <=> Free(targets, orders, first, n) = {}
        /\ first[n] # 0 => first[n] \in Free(targets, orders, first, n)
        /\ \A j \in Free(targets, orders, first, n) : first[n] <= j /\ j \in Nat
  BY <1>2, <1>6 DEF Greedy, Free, N
<1>9. \A n \in 1..N :
        /\ keeps[n] = 0 <=> Free(targets, after, keeps, n) = {}
        /\ keeps[n] # 0 => keeps[n] \in Free(targets, after, keeps, n)
        /\ \A j \in Free(targets, after, keeps, n) : keeps[n] <= j /\ j \in 1..A
  BY <1>5, <1>6 DEF Greedy, Free, N
<1>10. ASSUME NEW n \in 1..N, \A m \in 1..(n - 1) : keeps[m] \in 1..A /\ For(m, keeps[m])
       PROVE  keeps[n] \in 1..A /\ For(n, keeps[n])
  <2>1. PICK p \in 1..A : For(n, p)
    BY <1>4
  <2>2. \A m \in 1..(n - 1) : m \in 1..N /\ m # n
    BY <1>3
  <2>3. Close(after[p], targets[n])
    <3>1. CASE first[n] = 0
      <4>1. p - K \in 1..P /\ placed[p - K] = n /\ K + (p - K) = p
        BY <1>1, <1>2, <1>7, <2>1, <3>1
      <4>2. after[p] = targets[n]
        BY <1>2, <4>1
      <4> QED BY <4>2 DEF N
    <3>2. CASE first[n] # 0
      <4>1. p \in 1..K /\ kept[p] = first[n]
        BY <1>1, <1>2, <1>7, <2>1, <3>2
      <4>2. after[p] = orders[first[n]]
        BY <1>2, <4>1
      <4>3. Close(orders[first[n]], targets[n])
        BY <1>8, <3>2 DEF Free
      <4> QED BY <4>2, <4>3
    <3> QED BY <3>1, <3>2
  <2>4. \A m \in 1..(n - 1) : keeps[m] # p
    BY <1>4, <1>10, <2>1, <2>2
  <2>5. p \in Free(targets, after, keeps, n)
    BY <1>6, <2>3, <2>4 DEF Free
  \* none before it is free
  <2>6. ASSUME NEW j \in Free(targets, after, keeps, n), j < p
        PROVE  FALSE
    <3>1. j \in 1..A /\ Close(after[j], targets[n]) /\ \A m \in 1..(n - 1) : keeps[m] # j
      BY <1>6 DEF Free
    <3>2. \A m \in 1..(n - 1) : ~For(m, j)
      BY <1>4, <1>10, <2>2, <3>1
    <3>3. CASE j <= K
      <4>1. j \in 1..K /\ after[j] = orders[kept[j]] /\ kept[j] \in 1..Len(orders)
        BY <1>2, <1>7, <3>1, <3>3
      <4>2. ASSUME NEW m \in 1..(n - 1)
            PROVE  first[m] # kept[j]
        <5>1. kept[j] # 0
          BY <4>1
        <5> QED BY <1>1, <3>2, <3>3, <5>1
      <4>3. kept[j] \in Free(targets, orders, first, n)
        BY <1>6, <3>1, <4>1, <4>2 DEF Free
      <4>4. first[n] # 0 /\ first[n] <= kept[j]
        BY <1>8, <4>3
      <4>5. p \in 1..K /\ kept[p] = first[n]
        BY <1>1, <1>2, <1>7, <2>1, <4>4
      <4>6. kept[j] < kept[p] /\ kept[j] \in Int /\ kept[p] \in Int
        BY <1>2, <2>6, <4>1, <4>5
      <4> QED BY <4>4, <4>5, <4>6
    <3>4. CASE j > K
      <4>1. p > K /\ j - K \in 1..P /\ p - K \in 1..P /\ j - K < p - K
        BY <1>2, <1>7, <2>6, <3>1, <3>4
      <4>2. first[n] = 0 /\ placed[p - K] = n
        BY <1>1, <1>7, <2>1, <4>1
      <4> DEFINE m == placed[j - K]
      <4>3. m \in 1..N /\ first[m] = 0 /\ m < n
        BY <1>2, <4>1, <4>2
      <4>4. m \in 1..(n - 1)
        BY <1>3, <4>3
      <4>5. For(m, j)
        BY <1>1, <3>4, <4>3
      <4> QED BY <3>2, <4>4, <4>5
    <3> QED BY <1>7, <3>1, <3>3, <3>4
  <2>7. keeps[n] # 0 /\ keeps[n] <= p /\ keeps[n] \in Free(targets, after, keeps, n)
    BY <1>9, <2>5
  <2>8. keeps[n] \in 1..A /\ ~(keeps[n] < p)
    BY <1>9, <2>6, <2>7
  <2>9. keeps[n] = p
    BY <2>7, <2>8
  <2> QED BY <2>1, <2>9
<1> DEFINE Good == {n \in 0..N : \A m \in 1..n : keeps[m] \in 1..A /\ For(m, keeps[m])}
<1>11. 0 \in Good
  BY <1>3
<1>12. ASSUME NEW n \in 1..N, n - 1 \in Good
       PROVE  n \in Good
  <2>1. \A m \in 1..(n - 1) : keeps[m] \in 1..A /\ For(m, keeps[m])
    BY <1>12
  <2>2. keeps[n] \in 1..A /\ For(n, keeps[n])
    BY <1>10, <2>1
  <2>3. \A m \in 1..n : m = n \/ m \in 1..(n - 1)
    BY <1>3
  <2> QED BY <2>1, <2>2, <2>3
<1>13. \A n \in 0..N : n \in Good
  <2> HIDE DEF Good
  <2> QED BY <1>3, <1>11, <1>12, IntervalInduction
<1>14. \A n \in 1..N : keeps[n] \in 1..A /\ For(n, keeps[n])
  BY <1>3, <1>13
<1> QED BY <1>14 DEF N, A, keeps, after, For

\* reconcile: a pass leaves one order for each target, and a second pass changes
\* nothing.
LEMMA Settles ==
  ASSUME NEW T, NEW targets \in Seq(T), NEW orders \in Seq(T),
         \A n \in 1..Len(targets) : Close(targets[n], targets[n])
  PROVE  LET after == Reconciled(targets, orders)
             keeps == Matches(targets, after)
         IN  /\ Len(after) = Len(targets)
             /\ \A n \in DOMAIN targets : keeps[n] # 0
             /\ Reconciled(targets, after) = after
<1> DEFINE after == Reconciled(targets, orders)
           keeps == Matches(targets, after)
           again == Reconciled(targets, after)
           kept == Kept(targets, after)
           placed == Placed(targets, after)
           A == Len(after)
<1>1. after \in Seq(T) /\ Len(after) = Len(targets)
  BY ReconciledShape, AsManyOrders
<1>2. \A n \in 1..Len(targets) : keeps[n] \in 1..A /\ StandsFor(targets, orders, n, keeps[n])
  BY KeepsWhatStands
<1>3. DOMAIN targets = 1..Len(targets) /\ Len(targets) \in Nat /\ A \in Nat
  BY <1>1
<1>4. \A n \in DOMAIN targets : keeps[n] # 0
  BY <1>2, <1>3
<1>5. keeps \in Seq(Nat) /\ Len(keeps) = Len(targets) /\ DOMAIN keeps = 1..Len(targets)
  BY <1>1, MatchesGreedily DEF Greedy
<1>6. \A p \in 1..A : \E n \in 1..Len(targets) : StandsFor(targets, orders, n, p)
  BY OneOrderEach
<1>7. \A n \in 1..Len(targets), p, q \in 1..A :
        StandsFor(targets, orders, n, p) /\ StandsFor(targets, orders, n, q) => p = q
  BY OneOrderEach
<1>8. \A p \in 1..A : p \in {keeps[n] : n \in DOMAIN keeps}
  <2> HIDE DEF after, keeps
  <2> QED BY <1>2, <1>5, <1>6, <1>7
<1>9. kept = [k \in 1..A |-> k]
  <2>1. kept = InOrder(A, {keeps[n] : n \in DOMAIN keeps})
    BY DEF Kept
  <2> HIDE DEF kept, keeps, A
  <2> QED BY <1>3, <1>8, <2>1, InOrderOfAll
<1>10. placed = <<>>
  <2>1. placed = InOrder(Len(targets), {n \in DOMAIN keeps : keeps[n] = 0})
    BY DEF Placed
  <2>2. \A n \in 1..Len(targets) : n \notin {k \in DOMAIN keeps : keeps[k] = 0}
    BY <1>3, <1>4
  <2> HIDE DEF placed, keeps
  <2> QED BY <1>3, <2>1, <2>2, InOrderOfNone
<1>11. /\ again \in Seq(T) /\ Len(again) = Len(kept) + Len(placed)
       /\ \A k \in 1..Len(kept) : again[k] = after[kept[k]]
  BY <1>1, ReconciledShape
<1> HIDE DEF after, keeps, again, kept, placed
<1>12. Len(kept) = A /\ Len(placed) = 0
  BY <1>3, <1>9, <1>10
<1>13. Len(again) = A /\ \A k \in 1..A : again[k] = after[k]
  BY <1>3, <1>9, <1>11, <1>12
<1>14. again = after
  BY <1>1, <1>11, <1>13, SeqEqual
<1> QED BY <1>1, <1>4, <1>14 DEF after, keeps, again

(***************************************************************************)
(* The theorems about one plan                                             *)
(***************************************************************************)

(* What the quoter plans from is always a market: any books, any estimates. *)
Given == market \in Market

LEMMA AlwaysAMarket ==
  Spec => []Given
<1>1. Init => Given
  BY Configured DEF Init, Given
<1>2. Given /\ [Next]_vars => Given'
  BY Configured DEF Given, Next, Requote, MarketMoves, OrderFills, Relisted, vars
<1> QED BY <1>1, <1>2, PTL DEF Spec

(* Post-only by construction (_place_bid, _maybe_exit): for every grid, every  *)
(* pair of books, every flow, width and skew, no bid reaches its book's ask    *)
(* after the edge, the band, the join, the snap and the clamp, and no exit its *)
(* book's bid but one at the highest tick.                                     *)
THEOREM PlansNeverCross == Spec => []NeverCross
<1>1. ASSUME Given
      PROVE  NeverCross
  <2> SUFFICES ASSUME NEW q \in Wanted
               PROVE  IF q.side = "BUY"
                        THEN \/ market.book[q.token].ask = None
                             \/ q.price < market.book[q.token].ask
                        ELSE \/ market.book[q.token].bid = None
                             \/ q.price > market.book[q.token].bid
                             \/ market.book[q.token].bid >= One - Grain
    BY DEF NeverCross
  <2>0. market \in Market
    BY <1>1 DEF Given
  <2>1. q.token \in Tokens
    BY <2>0, WantedShape
  <2>2. CASE q.side = "BUY"
    <3>1. q.price \in Int /\ 0 < q.price /\ q.price <= Top(market, q.token)
      BY <2>0, <2>2, WantedShape DEF BidsBelow
    <3>2. Top(market, q.token) # None /\ Top(market, q.token) \in Int
      BY <2>0, <2>1, <3>1, TopBounds DEF None
    <3>3. \/ market.book[q.token].ask = None
          \/ Top(market, q.token) < market.book[q.token].ask
      BY <2>0, <2>1, <3>2, TopBounds
    <3>4. market.book[q.token].ask \in Int
      BY <2>0, <2>1, MarketFields
    <3> QED BY <2>2, <3>1, <3>2, <3>3, <3>4
  <2>3. CASE q.side # "BUY"
    <3>1. q.side = "SELL"
      BY <2>0, <2>3, WantedShape
    <3>2. q.price = ExitPrice(market, q.token)
      BY <2>0, <3>1, WantedShape DEF Exits
    <3> QED BY <2>0, <2>1, <2>3, <3>2, ExitAboveBid
  <2> QED BY <2>2, <2>3
<1> QED BY <1>1, AlwaysAMarket, PTL

(* Locked edge (the module's docstring: "locked edge 1-p-q"): with a minimum  *)
(* edge and more than two ticks, a YES and a NO bid of one plan never cost    *)
(* what a complete pair pays, whatever the estimates were.                    *)
THEOREM PlansKeepAnEdge ==
  ASSUME MinEdge > 0, Ticks > 2
  PROVE  Spec => []PairHasEdge
<1>1. ASSUME Given
      PROVE  PairHasEdge
  <2> SUFFICES ASSUME NEW p \in Wanted, NEW q \in Wanted,
                      p.side = "BUY", q.side = "BUY", p.token = "yes", q.token = "no"
               PROVE  \/ p.price + q.price <= One - 2 * MinEdge * Grain
                      \/ Least(p.price, q.price) = Grain /\ p.price + q.price < One
    BY DEF PairHasEdge
  <2> DEFINE fv   == FairValue(market)
             edge == MinEdge * Grain
             yes  == Top(market, "yes")
             no   == Top(market, "no")
  <2>0. market \in Market
    BY <1>1 DEF Given
  <2>1. /\ fv \in Int /\ Grain <= fv /\ fv <= One - Grain
        /\ Own(market, "yes", fv) = fv /\ Own(market, "no", fv) = One - fv
    BY <2>0, PricesAreInts DEF Own, Tokens
  <2>2. edge \in Int /\ edge >= Grain /\ 2 * MinEdge * Grain = 2 * edge
    BY Configured, Grid
  <2>3. /\ p.price \in Int /\ 0 < p.price /\ p.price <= yes
        /\ \E k \in Int : p.price = yes - k * Grain
        /\ q.price \in Int /\ 0 < q.price /\ q.price <= no
        /\ \E k \in Int : q.price = no - k * Grain
    BY <2>0, WantedShape DEF BidsBelow
  <2>4. /\ yes \in Int /\ \E k \in Int : yes = k * Grain
        /\ yes = Grain \/ yes <= fv - edge
    BY <2>0, <2>1, <2>3, TopBounds DEF Tokens, None
  <2>5. /\ no \in Int /\ \E k \in Int : no = k * Grain
        /\ no = Grain \/ no <= One - fv - edge
    BY <2>0, <2>1, <2>3, TopBounds DEF Tokens, None
  <2> HIDE DEF yes, no, fv, edge
  <2>6. p.price >= Grain /\ q.price >= Grain
    BY <2>3, <2>4, <2>5, OnATick
  <2>7. 3 * Grain <= One
    BY Grid
  <2>8. p.price \in Int /\ q.price \in Int /\ p.price <= yes /\ q.price <= no
    BY <2>3
  <2>9. CASE yes <= fv - edge /\ no <= One - fv - edge
    <3>1. p.price + q.price <= One - 2 * edge
      BY <2>1, <2>2, <2>4, <2>5, <2>8, <2>9, Grid
    <3> QED BY <3>1, <2>2
  <2>10. CASE yes = Grain
    <3>1. p.price = Grain
      BY <2>6, <2>8, <2>10, Grid
    <3>2. p.price + q.price < One
      BY <3>1, <2>1, <2>2, <2>5, <2>7, <2>8, Grid
    <3>3. Least(p.price, q.price) = Grain
      BY <3>1, <2>6, <2>8, Grid DEF Least
    <3> QED BY <3>2, <3>3
  <2>11. CASE no = Grain
    <3>1. q.price = Grain
      BY <2>6, <2>8, <2>11, Grid
    <3>2. p.price + q.price < One
      BY <3>1, <2>1, <2>2, <2>4, <2>7, <2>8, Grid
    <3>3. Least(p.price, q.price) = Grain
      BY <3>1, <2>6, <2>8, Grid DEF Least
    <3> QED BY <3>2, <3>3
  <2> QED BY <2>4, <2>5, <2>9, <2>10, <2>11
<1> QED BY <1>1, AlwaysAMarket, PTL

(* Nothing is sold that is not held (_maybe_exit): rounding an exit to a size *)
(* step never raises it above the holding, and leaves less than a step.       *)
THEOREM PlansExitWithinHolding == Spec => []ExitsWithinHolding
<1>1. ASSUME Given
      PROVE  ExitsWithinHolding
  <2> SUFFICES ASSUME NEW q \in Wanted, q.side = "SELL"
               PROVE  q.size <= market.held[q.token] /\ market.held[q.token] - q.size < Fine
    BY DEF ExitsWithinHolding
  <2>0. market \in Market
    BY <1>1 DEF Given
  <2>1. q.token \in Tokens /\ q.size = ExitSize(market.held[q.token])
    BY <2>0, WantedShape DEF Exits
  <2>2. market.held[q.token] \in Int
    BY <2>0, <2>1, MarketFields
  <2> HIDE DEF Wanted
  <2> DEFINE h == market.held[q.token]
             f == (h \div Fine) * Fine
  <2>3. h \div Fine \in Int /\ f <= h /\ h < f + Fine
    BY <2>2, Configured, Quotient
  <2>4. f \in Int /\ q.size = f
    BY <2>1, <2>3, Configured DEF ExitSize
  <2> HIDE DEF f
  <2> QED BY <2>2, <2>3, <2>4, Configured
<1> QED BY <1>1, AlwaysAMarket, PTL

(* Rewards are scored per order (_add_layers): where the exchange has a minimum *)
(* size, a side is split into as many layers as can score, and what rounding    *)
(* adds to its size is at most half a step for each.                            *)
THEOREM PlansLayer ==
  ASSUME ExchangeMin > 0
  PROVE  Spec => []LayersScore
<1>1. ASSUME Given
      PROVE  LayersScore
  <2> DEFINE total == market.size
             sizes == LayerSizes(total)
             able  == {n \in 1..Layers : Per(total, n) > 0 /\ ~TooSmall(Per(total, n))}
             most  == IF able = {} THEN 0 ELSE CHOOSE n \in able : \A k \in able : k <= n
             c     == Consolidated(total)
  <2>1. total \in Nat
    BY <1>1 DEF Given, Market
  <2>2. /\ c \in 1..Layers
        /\ c = 1 \/ ~TooSmall(Per(total, c))
        /\ \A n \in 1..Layers : ~TooSmall(Per(total, n)) => n <= c
    BY ConsolidatedIsLayers
  <2>3. ASSUME NEW n \in 1..Layers
        PROVE  /\ Per(total, n) \in Int
               /\ 2 * n * Per(total, n) <= 2 * total + n * Fine
               /\ total = 0 => TooSmall(Per(total, n))
               /\ ~TooSmall(Per(total, n)) => Per(total, n) > 0
    <3>1. total \in Int
      BY <2>1
    <3> HIDE DEF total
    <3>2. /\ Per(total, n) \in Int
          /\ 2 * n * Per(total, n) <= 2 * total + n * Fine
          /\ total = 0 => Per(total, n) = 0
      BY <3>1, PerBounds
    <3>3. \A x \in Int : x <= 0 => TooSmall(x)
      BY Configured DEF TooSmall
    <3>4. total = 0 => TooSmall(Per(total, n))
      BY <3>2, <3>3
    <3>5. ~TooSmall(Per(total, n)) => Per(total, n) > 0
      BY <3>2, <3>3
    <3> QED BY <3>2, <3>4, <3>5
  <2>4. sizes = IF total <= 0 \/ Per(total, c) <= 0 \/ TooSmall(Per(total, c))
                  THEN <<>> ELSE [i \in 1..c |-> Per(total, c)]
    BY DEF LayerSizes
  <2>5. SUFFICES /\ Len(sizes) = most
                 /\ \A i \in DOMAIN sizes :
                      2 * Len(sizes) * sizes[i] <= 2 * total + Len(sizes) * Fine
    BY DEF LayersScore
  <2> HIDE DEF total, sizes, c
  <2>6. CASE TooSmall(Per(total, c))
    <3>1. sizes = <<>>
      BY <2>4, <2>6
    <3>2. able = {}
      <4> SUFFICES ASSUME NEW n \in able
                   PROVE  FALSE
        OBVIOUS
      <4>1. n \in 1..Layers /\ n <= c
        BY <2>2
      <4>2. n = c
        BY <2>2, <2>6, <4>1
      <4> QED BY <2>6, <4>2
    <3> QED BY <3>1, <3>2
  <2>7. CASE ~TooSmall(Per(total, c))
    <3>1. total > 0 /\ Per(total, c) > 0 /\ Per(total, c) \in Int
      BY <2>1, <2>2, <2>3, <2>7
    <3>2. sizes = [i \in 1..c |-> Per(total, c)]
      BY <2>1, <2>4, <2>7, <3>1
    <3>3. Len(sizes) = c /\ DOMAIN sizes = 1..c
      BY <2>2, <3>2, Configured
    <3>4. c \in able /\ \A k \in able : k <= c
      BY <2>2, <2>7, <3>1
    <3>5. able \subseteq Int /\ c \in Int
      BY <2>2
    <3> HIDE DEF able
    <3>6. \A n \in able : (\A k \in able : k <= n) => n = c
      BY <3>4, <3>5
    <3>7. most = c
      BY <3>4, <3>6
    <3>8. 2 * c * Per(total, c) <= 2 * total + c * Fine
      BY <2>2, <2>3
    <3>9. \A i \in DOMAIN sizes : sizes[i] = Per(total, c)
      BY <3>2, <3>3
    <3> HIDE DEF most
    <3> QED BY <3>3, <3>7, <3>8, <3>9
  <2> QED BY <2>6, <2>7
<1> QED BY <1>1, AlwaysAMarket, PTL

(***************************************************************************)
(* The resting orders                                                      *)
(***************************************************************************)
LEMMA ExitPriceOnGrid ==
  ASSUME NEW m \in Market, NEW tok \in Tokens
  PROVE  ExitPrice(m, tok) \in 1..(One - 1)
<1> DEFINE view    == m.book[tok]
           passive == Own(m, tok, FairValue(m)) + Width(m)
           touch   == IF view.bid # None THEN view.bid + Grain ELSE passive
           urgency == IF m.regime = "REDUCE_ONLY" THEN Greatest(m.urgency, 1) ELSE m.urgency
           walked  == -((-(passive * (2 - urgency) + touch * urgency)) \div 2)
           price   == IF view.bid # None THEN Greatest(walked, touch) ELSE walked
<1>1. view.bid \in Int /\ passive \in Int /\ Grain \in Int
  BY MarketFields, PricesAreInts, Grid
<1>2. urgency \in Int
  BY MarketFields DEF Greatest
<1>3. ExitPrice(m, tok) = RoundUp(price)
  BY DEF ExitPrice
<1> HIDE DEF view, passive, urgency
<1>4. touch \in Int
  BY <1>1
<1> HIDE DEF touch
<1>5. walked \in Int
  <2>1. passive * (2 - urgency) \in Int /\ touch * urgency \in Int
    BY <1>1, <1>2, <1>4
  <2>2. passive * (2 - urgency) + touch * urgency \in Int
    BY <2>1
  <2> QED BY <2>2, Ceiling
<1> HIDE DEF walked
<1>6. price \in Int
  BY <1>4, <1>5 DEF Greatest
<1> HIDE DEF price
<1>7. RoundUp(price) \in Int /\ Grain <= RoundUp(price) /\ RoundUp(price) <= One - Grain
  BY <1>6, RoundUpBounds
<1> QED BY <1>3, <1>7, Grid

\* What a plan may hold where the exchange's minimum may be zero.
Priced == [token : Tokens, side : {"BUY", "SELL"}, price : 1..(One - 1), size : Nat]

\* Every quote of a plan has a price on the scale and a size.
LEMMA PlanIsPriced ==
  ASSUME NEW m \in Market
  PROVE  /\ ConstructQuotes(m) \in Seq(Priced)
         /\ ExchangeMin > 0 => ConstructQuotes(m) \in Seq(Quotes)
<1>1. ASSUME NEW tok \in Tokens
      PROVE  BidsBelow(tok, Top(m, tok)) \subseteq Quotes
  <2> SUFFICES ASSUME NEW q \in BidsBelow(tok, Top(m, tok))
               PROVE  q \in Quotes
    OBVIOUS
  <2>1. q.price \in Int /\ 0 < q.price /\ q.price <= Top(m, tok) /\ Top(m, tok) \in Int
    BY TopBounds DEF BidsBelow
  <2>2. Top(m, tok) <= One - Grain
    BY <2>1, TopBounds DEF None
  <2>3. q.price \in 1..(One - 1)
    BY <2>1, <2>2, Grid
  <2> QED BY <2>3 DEF BidsBelow, Quotes
<1>2. Quotes \subseteq Priced
  BY DEF Quotes, Priced
<1>3. ASSUME NEW tok \in Tokens, NEW q \in Exits(m, tok)
      PROVE  q \in Priced /\ (ExchangeMin > 0 => q \in Quotes)
  <2>1. q.size \in Int /\ ~(q.size < ExchangeMin) /\ q.price \in 1..(One - 1)
    BY ExitPriceOnGrid DEF Exits
  <2>2. q.size \in Nat /\ (ExchangeMin > 0 => q.size # 0)
    BY <2>1, Configured
  <2> QED BY <2>1, <2>2 DEF Exits, Priced, Quotes
<1>4. Shape(m) \subseteq Priced
  BY <1>1, <1>2, <1>3 DEF Shape
<1>5. ExchangeMin > 0 => Shape(m) \subseteq Quotes
  BY <1>1, <1>3 DEF Shape
<1>6. ConstructQuotes(m) \in Seq(Shape(m))
  BY PlanIsList
<1> QED BY <1>4, <1>5, <1>6, SeqMonotonic

\* What rests after a pass is a target, or rested before and is close to one.
LEMMA ReconciledOrigins ==
  ASSUME NEW T, NEW targets \in Seq(T), NEW orders \in Seq(T),
         NEW i \in DOMAIN Reconciled(targets, orders)
  PROVE  \E n \in DOMAIN targets :
            \/ Reconciled(targets, orders)[i] = targets[n]
            \/ \E k \in DOMAIN orders : /\ Reconciled(targets, orders)[i] = orders[k]
                                        /\ Close(orders[k], targets[n])
<1> DEFINE keeps  == Matches(targets, orders)
           kept   == Kept(targets, orders)
           placed == Placed(targets, orders)
           after  == Reconciled(targets, orders)
           K == Len(kept)
           P == Len(placed)
<1>1. /\ Greedy(targets, orders, keeps)
      /\ kept \in Seq(Nat) /\ placed \in Seq(Nat)
      /\ after \in Seq(T) /\ Len(after) = K + P
      /\ \A k \in 1..K :
           kept[k] \in 1..Len(orders) /\ \E n \in 1..Len(targets) : keeps[n] = kept[k]
      /\ \A k \in 1..P : placed[k] \in 1..Len(targets) /\ keeps[placed[k]] = 0
      /\ \A k \in 1..K : after[k] = orders[kept[k]]
      /\ \A k \in 1..P : after[K + k] = targets[placed[k]]
  <2>1. /\ Greedy(targets, orders, keeps)
        /\ kept \in Seq(Nat) /\ placed \in Seq(Nat)
        /\ after \in Seq(T) /\ Len(after) = K + P
    BY ReconciledShape
  <2>2. /\ \A k \in 1..K : after[k] = orders[kept[k]]
        /\ \A k \in 1..P : after[K + k] = targets[placed[k]]
    BY ReconciledShape
  <2>3. \A k \in 1..K :
          kept[k] \in 1..Len(orders) /\ \E n \in 1..Len(targets) : keeps[n] = kept[k]
    BY ReconciledShape
  <2>4. \A k \in 1..P : placed[k] \in 1..Len(targets) /\ keeps[placed[k]] = 0
    BY ReconciledShape
  <2> HIDE DEF keeps, kept, placed, after, K, P
  <2> QED BY <2>1, <2>2, <2>3, <2>4
<1>2. DOMAIN targets = 1..Len(targets) /\ DOMAIN orders = 1..Len(orders)
  OBVIOUS
<1> HIDE DEF keeps, kept, placed, after
<1>3. K \in Nat /\ P \in Nat /\ DOMAIN after = 1..(K + P)
  BY <1>1
<1> HIDE DEF K, P
<1>4. i \in 1..(K + P)
  BY <1>3 DEF after
<1>5. CASE i <= K
  <2>1. i \in 1..K
    BY <1>3, <1>4, <1>5
  <2>2. PICK n \in 1..Len(targets) : keeps[n] = kept[i]
    BY <1>1, <2>1
  <2>3. kept[i] \in 1..Len(orders) /\ kept[i] # 0 /\ after[i] = orders[kept[i]]
    BY <1>1, <2>1
  <2>4. Close(orders[kept[i]], targets[n])
    BY <1>1, <2>2, <2>3 DEF Greedy, Free
  <2> QED BY <1>2, <2>3, <2>4 DEF after
<1>6. CASE i > K
  <2>1. i - K \in 1..P /\ K + (i - K) = i
    BY <1>3, <1>4, <1>6
  <2>2. placed[i - K] \in 1..Len(targets) /\ after[i] = targets[placed[i - K]]
    BY <1>1, <2>1
  <2> QED BY <1>2, <2>2 DEF after
<1> QED BY <1>3, <1>4, <1>5, <1>6

\* A fill takes an order away and a snapshot moves it: nothing new rests.
LEMMA OnlyMovedOrTaken ==
  ASSUME NEW T, live \in Seq(T), OrderFills \/ Relisted
  PROVE  live' \in Seq(T)
<1>1. Len(live) \in Nat /\ DOMAIN live = 1..Len(live) /\ \A i \in 1..Len(live) : live[i] \in T
  OBVIOUS
<1>2. CASE OrderFills
  <2>1. PICK i \in DOMAIN live : live' = SubSeq(live, 1, i - 1) \o SubSeq(live, i + 1, Len(live))
    BY <1>2 DEF OrderFills
  <2>2. i \in 1..Len(live)
    BY <1>1
  <2>3. SubSeq(live, 1, i - 1) \in Seq(T)
    BY <1>1, <2>2, SubSeqProperties
  <2>4. SubSeq(live, i + 1, Len(live)) \in Seq(T)
    BY <1>1, <2>2, SubSeqProperties
  <2> QED BY <2>1, <2>3, <2>4, ConcatProperties
<1>3. CASE Relisted
  <2>1. PICK i \in 1..(Len(live) - 1) :
          live' = [live EXCEPT ![i] = live[i + 1], ![i + 1] = live[i]]
    BY <1>3 DEF Relisted
  <2>2. i \in 1..Len(live) /\ i + 1 \in 1..Len(live)
    BY <1>1, <2>1
  <2>3. live[i] \in T /\ live[i + 1] \in T
    BY <1>1, <2>2
  <2>4. live \in [1..Len(live) -> T]
    BY <1>1
  <2>5. live' \in [1..Len(live) -> T]
    BY <2>1, <2>3, <2>4
  <2> QED BY <1>1, <2>5, SeqDef
<1> QED BY <1>2, <1>3

\* Whatever the quotes of every plan are, the orders that rest are.
LEMMA OrdersArePlanned ==
  ASSUME NEW T, \A m \in Market : ConstructQuotes(m) \in Seq(T)
  PROVE  /\ Init => Given /\ live \in Seq(T)
         /\ Given /\ live \in Seq(T) /\ [Next]_vars => Given' /\ live' \in Seq(T)
<1>1. Init => Given /\ live \in Seq(T)
  BY Configured DEF Init, Given
<1>2. ASSUME Given, live \in Seq(T), [Next]_vars
      PROVE  live' \in Seq(T)
  <2>1. CASE Requote
    <3>1. live' = Reconciled(ConstructQuotes(market), live) /\ ConstructQuotes(market) \in Seq(T)
      BY <1>2, <2>1 DEF Requote, Given
    <3> QED BY <1>2, <3>1, ReconciledShape
  <2>2. CASE OrderFills \/ Relisted
    BY <1>2, <2>2, OnlyMovedOrTaken
  <2>3. CASE MarketMoves \/ UNCHANGED vars
    BY <1>2, <2>3 DEF MarketMoves, vars
  <2> QED BY <1>2, <2>1, <2>2, <2>3 DEF Next
<1>3. Given /\ [Next]_vars => Given'
  BY Configured DEF Given, Next, Requote, MarketMoves, OrderFills, Relisted, vars
<1> QED BY <1>1, <1>2, <1>3

\* A quote is close to itself.
LEMMA CloseToItself ==
  ASSUME NEW q \in Priced
  PROVE  Close(q, q)
<1>1. q.price \in Int /\ q.size \in Nat
  BY DEF Priced
<1>2. Distance(q.price, q.price) = 0 /\ Distance(q.size, q.size) = 0
  BY <1>1 DEF Distance
<1>3. Reprice * Grain \in Nat /\ ResizeNum * q.size \in Nat /\ 0 * ResizeDen = 0
  BY <1>1, Grid, PlanAssumption DEF PlanAssumption
<1> QED BY <1>2, <1>3 DEF Close

(* Two bids of one plan, in the terms RestingPairBounded adds a tolerance to. *)
LEMMA PlanPair ==
  ASSUME MinEdge + 2 <= Ticks, market \in Market, NEW p \in Wanted, NEW q \in Wanted,
         p.side = "BUY", q.side = "BUY", p.token = "yes", q.token = "no"
  PROVE  /\ p.price \in Int /\ q.price \in Int
         /\ \/ p.price + q.price <= One - 2 * (MinEdge * Grain)
            \/ /\ p.price = Grain \/ q.price = Grain
               /\ p.price + q.price <= One - MinEdge * Grain
<1> DEFINE fv   == FairValue(market)
           edge == MinEdge * Grain
           yes  == Top(market, "yes")
           no   == Top(market, "no")
<1>1. /\ fv \in Int /\ Grain <= fv /\ fv <= One - Grain
      /\ Own(market, "yes", fv) = fv /\ Own(market, "no", fv) = One - fv
  BY PricesAreInts DEF Own, Tokens
<1>2. edge \in Nat /\ One \in Nat /\ Grain \in Nat
  BY Configured, Grid
<1>3. 2 * Grain + edge <= One
  <2>1. (MinEdge + 2) * Grain <= Ticks * Grain
    BY Configured, Grid
  <2> QED BY <2>1, Configured, Grid
<1>4. /\ p.price \in Int /\ 0 < p.price /\ p.price <= yes
      /\ \E k \in Int : p.price = yes - k * Grain
      /\ q.price \in Int /\ 0 < q.price /\ q.price <= no
      /\ \E k \in Int : q.price = no - k * Grain
  BY WantedShape DEF BidsBelow
<1>5. /\ yes \in Int /\ \E k \in Int : yes = k * Grain
      /\ yes = Grain \/ yes <= fv - edge
  BY <1>1, <1>4, TopBounds DEF Tokens, None
<1>6. /\ no \in Int /\ \E k \in Int : no = k * Grain
      /\ no = Grain \/ no <= One - fv - edge
  BY <1>1, <1>4, TopBounds DEF Tokens, None
<1> HIDE DEF yes, no, fv, edge
<1>7. p.price >= Grain /\ q.price >= Grain
  BY <1>4, <1>5, <1>6, OnATick
<1>8. p.price \in Int /\ q.price \in Int /\ p.price <= yes /\ q.price <= no
  BY <1>4
<1>9. CASE yes <= fv - edge /\ no <= One - fv - edge
  BY <1>1, <1>2, <1>5, <1>6, <1>8, <1>9 DEF edge
<1>10. CASE yes = Grain
  <2>1. p.price = Grain
    BY <1>2, <1>7, <1>8, <1>10
  <2>2. no <= One - Grain - edge
    BY <1>1, <1>2, <1>3, <1>6
  <2>3. p.price + q.price <= One - edge
    BY <1>2, <1>6, <1>8, <2>1, <2>2
  <2> QED BY <1>8, <2>1, <2>3 DEF edge
<1>11. CASE no = Grain
  <2>1. q.price = Grain
    BY <1>2, <1>7, <1>8, <1>11
  <2>2. yes <= One - Grain - edge
    BY <1>1, <1>2, <1>3, <1>5
  <2>3. p.price + q.price <= One - edge
    BY <1>2, <1>5, <1>8, <2>1, <2>2
  <2> QED BY <1>8, <2>1, <2>3 DEF edge
<1> QED BY <1>5, <1>6, <1>9, <1>10, <1>11

\* Two resting orders that may make a complete pair cost as much as
\* RestingPairBounded says.
PairBounded(a, b) ==
  (a.side = "BUY" /\ a.token = "yes" /\ b.side = "BUY" /\ b.token = "no") =>
     LET cost == a.price + b.price IN
     \/ cost <= One + (Reprice - 2 * MinEdge) * Grain
     \/ /\ Least(a.price, b.price) <= (1 + Reprice) * Grain
        /\ cost <= One + (Reprice - MinEdge) * Grain

\* Within the tolerance of the bids of one plan, at most one of them off.
LEMMA PairNearPlan ==
  ASSUME MinEdge + 2 <= Ticks, market \in Market, NEW p \in Wanted, NEW q \in Wanted,
         NEW a \in Priced, NEW b \in Priced,
         a.token = p.token, a.side = p.side, b.token = q.token, b.side = q.side,
         \/ Distance(a.price, p.price) <= Reprice * Grain /\ b.price = q.price
         \/ a.price = p.price /\ Distance(b.price, q.price) <= Reprice * Grain
  PROVE  PairBounded(a, b)
<1> SUFFICES ASSUME a.side = "BUY", a.token = "yes", b.side = "BUY", b.token = "no"
             PROVE  \/ a.price + b.price <= One + (Reprice - 2 * MinEdge) * Grain
                    \/ /\ Least(a.price, b.price) <= (1 + Reprice) * Grain
                       /\ a.price + b.price <= One + (Reprice - MinEdge) * Grain
  BY DEF PairBounded
<1> DEFINE edge == MinEdge * Grain
           off  == Reprice * Grain
<1>1. /\ p.price \in Int /\ q.price \in Int
      /\ \/ p.price + q.price <= One - 2 * edge
         \/ /\ p.price = Grain \/ q.price = Grain
            /\ p.price + q.price <= One - edge
  BY PlanPair
<1>2. edge \in Nat /\ off \in Nat /\ One \in Nat /\ Grain \in Nat
  BY Configured, Grid, PlanAssumption DEF PlanAssumption
<1>3. /\ (Reprice - 2 * MinEdge) * Grain = off - 2 * edge
      /\ (Reprice - MinEdge) * Grain = off - edge
      /\ (1 + Reprice) * Grain = Grain + off
  BY Configured, Grid, PlanAssumption DEF PlanAssumption
<1>4. a.price \in Int /\ b.price \in Int
  BY DEF Priced
<1>5. /\ a.price + b.price <= p.price + q.price + off
      /\ a.price <= p.price + off /\ b.price <= q.price + off
  <2> HIDE DEF edge
  <2>1. off \in Nat /\ (\/ Distance(a.price, p.price) <= off /\ b.price = q.price
                        \/ a.price = p.price /\ Distance(b.price, q.price) <= off)
    BY <1>2
  <2> HIDE DEF off
  <2> QED BY <1>1, <1>4, <2>1 DEF Distance
<1> HIDE DEF edge, off
<1>6. CASE p.price + q.price <= One - 2 * edge
  BY <1>1, <1>2, <1>3, <1>4, <1>5, <1>6
<1>7. CASE (p.price = Grain \/ q.price = Grain) /\ p.price + q.price <= One - edge
  <2>1. a.price <= Grain + off \/ b.price <= Grain + off
    BY <1>1, <1>2, <1>4, <1>5, <1>7
  <2>2. Least(a.price, b.price) <= Grain + off
    BY <1>2, <1>4, <2>1 DEF Least
  <2>3. a.price + b.price <= One + (off - edge)
    BY <1>1, <1>2, <1>4, <1>5, <1>7
  <2> QED BY <1>3, <2>2, <2>3
<1> QED BY <1>1, <1>6, <1>7

\* Every plan's quotes and every resting order have a price on the scale.
LEMMA AlwaysPriced ==
  Spec => [](Given /\ live \in Seq(Priced))
<1>1. \A m \in Market : ConstructQuotes(m) \in Seq(Priced)
  BY PlanIsPriced
<1>2. Init => Given /\ live \in Seq(Priced)
  BY <1>1, OrdersArePlanned
<1>3. Given /\ live \in Seq(Priced) /\ [Next]_vars => (Given /\ live \in Seq(Priced))'
  BY <1>1, OrdersArePlanned DEF Priced, Tokens, One
<1> QED BY <1>2, <1>3, PTL DEF Spec

PairsBounded == \A i, j \in DOMAIN live : PairBounded(live[i], live[j])

(* Two passes of the quoter may leave a pair of bids that no plan held together: *)
(* each is an order of its own age.  What they can cost together is bounded by   *)
(* induction over the passes: of two orders that rest after a pass both were     *)
(* kept and rested before, or one at least is a bid of this plan and the other   *)
(* within the tolerance of one.                                                  *)
LEMMA PairsStayBounded ==
  ASSUME MinEdge + 2 <= Ticks
  PROVE  Given /\ live \in Seq(Priced) /\ PairsBounded /\ [Next]_vars => PairsBounded'
<1> SUFFICES ASSUME market \in Market, live \in Seq(Priced), PairsBounded, [Next]_vars
             PROVE  PairsBounded'
  BY DEF Given
<1>1. CASE Requote
  <2> DEFINE targets == ConstructQuotes(market)
  <2>1. targets \in Seq(Priced) /\ live' = Reconciled(targets, live)
    BY <1>1, PlanIsPriced DEF Requote
  <2>2. live' \in Seq(Priced)
    BY <2>1, ReconciledShape
  <2>3. \A n \in DOMAIN targets : targets[n] \in Wanted /\ targets[n] \in Priced
    <3>1. \A n \in DOMAIN targets : targets[n] \in Wanted
      BY DEF Wanted
    <3> HIDE DEF targets
    <3> QED BY <2>1, <3>1
  <2>4. ASSUME NEW i \in DOMAIN live'
        PROVE  /\ live'[i] \in Priced
               /\ \E n \in DOMAIN targets :
                    \/ live'[i] = targets[n]
                    \/ \E k \in DOMAIN live : /\ live'[i] = live[k]
                                              /\ Close(live[k], targets[n])
    <3> HIDE DEF targets
    <3>1. live'[i] \in Priced
      BY <2>2
    <3> QED BY <2>1, <3>1, ReconciledOrigins
  <2> SUFFICES ASSUME NEW i \in DOMAIN live', NEW j \in DOMAIN live'
               PROVE  PairBounded(live'[i], live'[j])
    BY DEF PairsBounded, PairBounded
  <2>5. CASE /\ \E k \in DOMAIN live : live'[i] = live[k]
             /\ \E k \in DOMAIN live : live'[j] = live[k]
    BY <2>5 DEF PairsBounded
  <2>6. CASE \/ ~\E k \in DOMAIN live : live'[i] = live[k]
             \/ ~\E k \in DOMAIN live : live'[j] = live[k]
    <3>1. PICK n \in DOMAIN targets :
            \/ live'[i] = targets[n]
            \/ \E k \in DOMAIN live : live'[i] = live[k] /\ Close(live[k], targets[n])
      BY <2>4
    <3>2. PICK m \in DOMAIN targets :
            \/ live'[j] = targets[m]
            \/ \E k \in DOMAIN live : live'[j] = live[k] /\ Close(live[k], targets[m])
      BY <2>4
    <3> DEFINE p == targets[n]
               q == targets[m]
    <3>3. p \in Wanted /\ q \in Wanted /\ p \in Priced /\ q \in Priced
      BY <2>3
    <3>4. Close(p, p) /\ Close(q, q) /\ live'[i] \in Priced /\ live'[j] \in Priced
      BY <2>4, <3>3, CloseToItself
    <3> HIDE DEF targets
    <3>5. \/ live'[i] = p /\ Close(live'[j], q)
          \/ live'[j] = q /\ Close(live'[i], p)
      BY <2>6, <3>1, <3>2, <3>4
    <3> HIDE DEF p, q
    <3> QED BY <3>3, <3>4, <3>5, PairNearPlan DEF Close
  <2> QED BY <2>5, <2>6
<1>2. CASE OrderFills \/ Relisted
  <2> DEFINE T == {live[k] : k \in DOMAIN live}
  <2>1. live \in Seq(T)
    <3>1. Len(live) \in Nat /\ DOMAIN live = 1..Len(live)
      OBVIOUS
    <3>2. live \in [1..Len(live) -> T]
      <4>1. live = [k \in 1..Len(live) |-> live[k]]
        BY <3>1
      <4>2. \A k \in 1..Len(live) : live[k] \in T
        BY <3>1
      <4> QED BY <4>1, <4>2
    <3> QED BY <3>1, <3>2, SeqDef
  <2> HIDE DEF T
  <2>2. live' \in Seq(T)
    BY <1>2, <2>1, OnlyMovedOrTaken
  <2>3. \A i \in DOMAIN live' : live'[i] \in T
    BY <2>2
  <2>4. \A a, b \in T : PairBounded(a, b)
    BY DEF T, PairsBounded
  <2> QED BY <2>3, <2>4 DEF PairsBounded, PairBounded
<1>3. CASE MarketMoves \/ UNCHANGED vars
  <2>1. live' = live
    BY <1>3 DEF MarketMoves, vars
  <2> QED BY <2>1 DEF PairsBounded, PairBounded
<1> QED BY <1>1, <1>2, <1>3 DEF Next

(* What a complete pair may cost (the edge less the tolerance), however the      *)
(* market moved between the passes and whichever of the two bids was filled and  *)
(* placed again: for every market whose scale has room for two bids on the       *)
(* lowest tick and the edge between them.                                        *)
THEOREM PairCostBounded ==
  ASSUME MinEdge + 2 <= Ticks
  PROVE  Spec => []RestingPairBounded
<1>1. Init => PairsBounded
  BY DEF Init, PairsBounded
<1>2. Given /\ live \in Seq(Priced) /\ PairsBounded /\ [Next]_vars => PairsBounded'
  BY PairsStayBounded
<1>3. PairsBounded => RestingPairBounded
  BY DEF PairsBounded, PairBounded, RestingPairBounded
<1>4. Spec => [](Given /\ live \in Seq(Priced))
  BY AlwaysPriced
<1> QED BY <1>1, <1>2, <1>3, <1>4, PTL DEF Spec

(* A pass is complete (reconcile): whatever rests before it, it leaves one order *)
(* for each target, and repeating it on an unmoved market cancels and places     *)
(* nothing.                                                                      *)
THEOREM PassesSettle == Spec => []PlanSettles
<1>1. ASSUME Given, live \in Seq(Priced)
      PROVE  PlanSettles
  <2> DEFINE targets == ConstructQuotes(market)
  <2>1. targets \in Seq(Priced)
    BY <1>1, PlanIsPriced DEF Given
  <2>2. PlanSettles <=> LET after == Reconciled(targets, live)
                            keeps == Matches(targets, after)
                        IN  /\ Len(after) = Len(targets)
                            /\ \A n \in DOMAIN targets : keeps[n] # 0
                            /\ Reconciled(targets, after) = after
    BY DEF PlanSettles
  <2> HIDE DEF targets
  <2>3. \A n \in 1..Len(targets) : Close(targets[n], targets[n])
    BY <2>1, CloseToItself
  <2> QED BY <1>1, <2>1, <2>2, <2>3, Settles
<1> QED BY <1>1, AlwaysPriced, PTL

(* Type correctness, where the exchange has a minimum size as every market of    *)
(* the catalogue has: each resting order has a price strictly between nothing    *)
(* and a dollar and is for at least a part of a share, however the plans were    *)
(* made, kept, filled and relisted.                                              *)
THEOREM OrdersAreQuotes ==
  ASSUME ExchangeMin > 0
  PROVE  Spec => []TypeOK
<1>1. \A m \in Market : ConstructQuotes(m) \in Seq(Quotes)
  BY PlanIsPriced
<1>2. Init => Given /\ live \in Seq(Quotes)
  BY <1>1, OrdersArePlanned
<1> DEFINE Ranges == market \in Markets \cup Moving /\ moves \in 0..MaxMoves
<1>3. Init => Ranges
  BY PlanAssumption DEF Init, PlanAssumption
<1>4. Ranges /\ [Next]_vars => Ranges'
  <2> SUFFICES ASSUME Ranges, [Next]_vars
               PROVE  Ranges'
    OBVIOUS
  <2>1. MaxMoves \in Nat
    BY PlanAssumption DEF PlanAssumption
  <2>2. market' \in Markets \cup Moving
    BY DEF Next, Requote, MarketMoves, OrderFills, Relisted, vars
  <2>3. moves' \in 0..MaxMoves
    BY <2>1 DEF Next, Requote, MarketMoves, OrderFills, Relisted, vars
  <2> QED BY <2>2, <2>3
<1>5. Given /\ live \in Seq(Quotes) /\ [Next]_vars => (Given /\ live \in Seq(Quotes))'
  BY <1>1, OrdersArePlanned DEF Quotes, Tokens, One
<1>6. live \in Seq(Quotes) /\ Ranges => TypeOK
  BY DEF TypeOK
<1> QED BY <1>2, <1>3, <1>4, <1>5, <1>6, PTL DEF Spec

(* What OrderSync leaves open in StartRequote: some orders are kept, no two for  *)
(* one target, and the targets left over are placed.  For any targets and any    *)
(* orders the diff is such a choice, so what is proved of OrderSync for every    *)
(* choice holds of the one the code makes.                                       *)
THEOREM PassIsAChoice ==
  ASSUME NEW T, NEW targets \in Seq(T), NEW orders \in Seq(T)
  PROVE  LET after == Reconciled(targets, orders)
         IN  \E keep \in SUBSET DOMAIN orders : \E slot \in [keep -> DOMAIN targets] :
               /\ \A i \in keep : Close(orders[i], targets[slot[i]])
               /\ \A i, j \in keep : slot[i] = slot[j] => i = j
               /\ {after[p] : p \in DOMAIN after} =
                    {orders[i] : i \in keep}
                      \cup {targets[n] : n \in DOMAIN targets \ {slot[i] : i \in keep}}
               /\ Len(after) = Len(targets)
<1> DEFINE keeps  == Matches(targets, orders)
           kept   == Kept(targets, orders)
           placed == Placed(targets, orders)
           after  == Reconciled(targets, orders)
           N      == Len(targets)
           K      == Len(kept)
           P      == Len(placed)
           keep   == {keeps[n] : n \in {m \in 1..N : keeps[m] # 0}}
           slot   == [i \in keep |-> CHOOSE n \in 1..N : keeps[n] = i]
<1>1. Greedy(targets, orders, keeps)
  BY MatchesGreedily
<1>2. DOMAIN targets = 1..N /\ N \in Nat /\ DOMAIN orders = 1..Len(orders)
  OBVIOUS
<1>3. /\ kept \in Seq(Nat) /\ placed \in Seq(Nat)
      /\ after \in Seq(T) /\ Len(after) = K + P
  BY ReconciledShape
<1>4. /\ \A k \in 1..K : after[k] = orders[kept[k]]
      /\ \A k \in 1..P : after[K + k] = targets[placed[k]]
  BY ReconciledShape
<1>5. \A k \in 1..K : kept[k] \in 1..Len(orders) /\ \E n \in 1..N : keeps[n] = kept[k]
  BY ReconciledShape
<1>6. \A k \in 1..P : placed[k] \in 1..N /\ keeps[placed[k]] = 0
  BY ReconciledShape
<1>7. \A n \in 1..N : IF keeps[n] = 0 THEN \E k \in 1..P : placed[k] = n
                                      ELSE \E k \in 1..K : kept[k] = keeps[n]
  BY ReconciledShape
<1>8. Len(after) = N
  BY AsManyOrders
<1> HIDE DEF keeps, kept, placed, after, N, K, P
<1>9. \A n \in 1..N : keeps[n] # 0 => /\ keeps[n] \in 1..Len(orders)
                                      /\ Close(orders[keeps[n]], targets[n])
                                      /\ \A k \in 1..(n - 1) : keeps[k] # keeps[n]
  BY <1>1, <1>2 DEF Greedy, Free, N
<1>10. \A m, n \in 1..N : keeps[n] # 0 /\ keeps[m] = keeps[n] => m = n
  <2> SUFFICES ASSUME NEW m \in 1..N, NEW n \in 1..N, keeps[n] # 0, keeps[m] = keeps[n]
               PROVE  ~(m < n)
    BY <1>2
  <2> QED BY <1>2, <1>9
<1>11. keep \in SUBSET DOMAIN orders
  BY <1>2, <1>9
<1>12. \A i \in keep : slot[i] \in 1..N /\ keeps[slot[i]] = i /\ i # 0
  <2> SUFFICES ASSUME NEW i \in keep
               PROVE  (CHOOSE n \in 1..N : keeps[n] = i) \in 1..N
                        /\ keeps[CHOOSE n \in 1..N : keeps[n] = i] = i /\ i # 0
    OBVIOUS
  <2>1. \E n \in 1..N : keeps[n] = i
    OBVIOUS
  <2>2. i # 0
    OBVIOUS
  <2> HIDE DEF keep
  <2> QED BY <2>1, <2>2
<1>13. \A n \in 1..N : keeps[n] # 0 => keeps[n] \in keep
  OBVIOUS
<1>14. slot \in [keep -> DOMAIN targets]
  <2>1. slot = [i \in keep |-> slot[i]]
    OBVIOUS
  <2> HIDE DEF keep, slot
  <2> QED BY <1>2, <1>12, <2>1
<1> HIDE DEF keep, slot
<1>15. \A n \in 1..N : n \in {slot[i] : i \in keep} <=> keeps[n] # 0
  BY <1>10, <1>12, <1>13
<1>16. ASSUME NEW p \in 1..(K + P)
       PROVE  \/ \E i \in keep : after[p] = orders[i]
              \/ \E n \in 1..N : n \notin {slot[i] : i \in keep} /\ after[p] = targets[n]
  <2>1. K \in Nat /\ P \in Nat
    BY <1>3 DEF K, P
  <2>2. CASE p <= K
    <3>1. p \in 1..K
      BY <2>1, <2>2
    <3>2. PICK n \in 1..N : keeps[n] = kept[p]
      BY <1>5, <3>1
    <3>3. kept[p] \in 1..Len(orders) /\ kept[p] # 0
      BY <1>5, <3>1
    <3> QED BY <1>4, <1>13, <3>1, <3>2, <3>3
  <2>3. CASE p > K
    <3>1. p - K \in 1..P /\ K + (p - K) = p
      BY <2>1, <2>3
    <3> QED BY <1>4, <1>6, <1>15, <3>1
  <2> QED BY <2>1, <2>2, <2>3
<1>17. ASSUME NEW i \in keep
       PROVE  \E p \in 1..(K + P) : after[p] = orders[i]
  <2>1. PICK k \in 1..K : kept[k] = i
    BY <1>7, <1>12
  <2>2. k \in 1..(K + P)
    BY <1>3 DEF K, P
  <2> QED BY <1>4, <2>1, <2>2
<1>18. ASSUME NEW n \in 1..N, n \notin {slot[i] : i \in keep}
       PROVE  \E p \in 1..(K + P) : after[p] = targets[n]
  <2>1. PICK k \in 1..P : placed[k] = n
    BY <1>7, <1>15, <1>18
  <2>2. K + k \in 1..(K + P)
    BY <1>3 DEF K, P
  <2> QED BY <1>4, <2>1, <2>2
<1>19. DOMAIN after = 1..(K + P)
  BY <1>3
<1>20. {after[p] : p \in DOMAIN after} =
         {orders[i] : i \in keep}
           \cup {targets[n] : n \in DOMAIN targets \ {slot[i] : i \in keep}}
  <2> DEFINE taken == {slot[i] : i \in keep}
             rest  == {orders[i] : i \in keep} \cup {targets[n] : n \in DOMAIN targets \ taken}
  <2>1. ASSUME NEW p \in DOMAIN after
        PROVE  after[p] \in rest
    BY <1>2, <1>16, <1>19
  <2>2. ASSUME NEW i \in keep
        PROVE  orders[i] \in {after[p] : p \in DOMAIN after}
    BY <1>17, <1>19
  <2>3. ASSUME NEW n \in DOMAIN targets \ taken
        PROVE  targets[n] \in {after[p] : p \in DOMAIN after}
    BY <1>2, <1>18, <1>19
  <2>4. rest \subseteq {after[p] : p \in DOMAIN after}
    <3> HIDE DEF taken
    <3> QED BY <2>2, <2>3
  <2>5. {after[p] : p \in DOMAIN after} \subseteq rest
    <3> HIDE DEF rest
    <3> QED BY <2>1
  <2>6. {after[p] : p \in DOMAIN after} = rest
    <3> HIDE DEF rest
    <3> QED BY <2>4, <2>5
  <2> QED BY <2>6
<1>21. /\ \A i \in keep : Close(orders[i], targets[slot[i]])
       /\ \A i, j \in keep : slot[i] = slot[j] => i = j
  BY <1>9, <1>12
<1> QED BY <1>8, <1>11, <1>14, <1>20, <1>21 DEF after, N

(* A plan has a target for each layer of either token and for each exit at most, *)
LEMMA PlanIsShort ==
  ASSUME NEW m \in Market
  PROVE  ConstructQuotes(m) \in Seq(Priced) /\ Len(ConstructQuotes(m)) <= 2 * Layers + 2
<1>1. \A tok \in Tokens : /\ Entries(m, tok) \in Seq(BidsBelow(tok, Top(m, tok)))
                          /\ Len(Entries(m, tok)) <= Layers
                          /\ MaybeExit(m, tok) \in Seq(Exits(m, tok))
                          /\ Len(MaybeExit(m, tok)) <= 1
  BY EntriesShape, ExitsShape
<1>2. \A tok \in Tokens : /\ BidsBelow(tok, Top(m, tok)) \subseteq Shape(m)
                          /\ Exits(m, tok) \subseteq Shape(m)
  BY DEF Shape
<1>3. \A tok \in Tokens : Entries(m, tok) \in Seq(Shape(m)) /\ MaybeExit(m, tok) \in Seq(Shape(m))
  BY <1>1, <1>2, SeqMonotonic
<1> DEFINE a == Entries(m, "yes")
           b == Entries(m, "no")
           c == MaybeExit(m, "yes")
           d == MaybeExit(m, "no")
           S == Shape(m)
<1>4. /\ a \in Seq(S) /\ b \in Seq(S) /\ c \in Seq(S) /\ d \in Seq(S)
      /\ Len(a) <= Layers /\ Len(b) <= Layers /\ Len(c) <= 1 /\ Len(d) <= 1
  BY <1>1, <1>3 DEF Tokens
<1>5. ConstructQuotes(m) = <<>> \/ ConstructQuotes(m) = a \o b \o c \o d
  BY DEF ConstructQuotes
<1>6. ConstructQuotes(m) \in Seq(Priced)
  BY PlanIsPriced
<1> HIDE DEF a, b, c, d, S
<1>7. a \o b \in Seq(S) /\ Len(a \o b) = Len(a) + Len(b)
  BY <1>4, ConcatProperties
<1>8. a \o b \o c \in Seq(S) /\ Len(a \o b \o c) = Len(a) + Len(b) + Len(c)
  BY <1>4, <1>7, ConcatProperties
<1>9. Len(a \o b \o c \o d) = Len(a) + Len(b) + Len(c) + Len(d)
  BY <1>4, <1>8, ConcatProperties
<1>10. Len(a) \in Nat /\ Len(b) \in Nat /\ Len(c) \in Nat /\ Len(d) \in Nat /\ Layers \in Nat
  BY <1>4, Configured, LenProperties
<1>11. Len(a) + Len(b) + Len(c) + Len(d) <= 2 * Layers + 2
  BY <1>4, <1>10
<1>12. Len(<<>>) = 0
  OBVIOUS
<1> QED BY <1>5, <1>6, <1>9, <1>10, <1>11, <1>12

OrdersFew == Len(live) <= 2 * Layers + 2

(* and so many orders rest at most: a fill or another listing adds none, and a   *)
(* pass leaves as many as it has targets.  These are the slots of OrderSync.     *)
THEOREM OrdersStayFew == Spec => []OrdersFew
<1>1. Init => OrdersFew
  BY Configured DEF Init, OrdersFew
<1>2. Given /\ live \in Seq(Priced) /\ OrdersFew /\ [Next]_vars => OrdersFew'
  <2> SUFFICES ASSUME market \in Market, live \in Seq(Priced), OrdersFew, [Next]_vars
               PROVE  Len(live') <= 2 * Layers + 2
    BY DEF Given, OrdersFew
  <2>0. Len(live) \in Nat /\ Len(live) <= 2 * Layers + 2 /\ Layers \in Nat
    BY Configured DEF OrdersFew
  <2>1. CASE Requote
    <3>1. live' = Reconciled(ConstructQuotes(market), live)
      BY <2>1 DEF Requote
    <3>2. ConstructQuotes(market) \in Seq(Priced)
          /\ Len(ConstructQuotes(market)) <= 2 * Layers + 2
      BY PlanIsShort
    <3>3. Len(live') = Len(ConstructQuotes(market))
      BY <3>1, <3>2, AsManyOrders
    <3> QED BY <3>2, <3>3
  <2>2. CASE OrderFills
    <3>1. PICK i \in DOMAIN live : live' = SubSeq(live, 1, i - 1) \o SubSeq(live, i + 1, Len(live))
      BY <2>2 DEF OrderFills
    <3>2. i \in 1..Len(live)
      OBVIOUS
    <3>3. SubSeq(live, 1, i - 1) \in Seq(Priced) /\ Len(SubSeq(live, 1, i - 1)) = i - 1
      BY <2>0, <3>2, SubSeqProperties
    <3>4. /\ SubSeq(live, i + 1, Len(live)) \in Seq(Priced)
          /\ Len(SubSeq(live, i + 1, Len(live))) = Len(live) - i
      BY <2>0, <3>2, SubSeqProperties
    <3>5. Len(live') = (i - 1) + (Len(live) - i)
      BY <3>1, <3>3, <3>4, ConcatProperties
    <3> QED BY <2>0, <3>2, <3>5
  <2>3. CASE Relisted
    <3>1. DOMAIN live' = DOMAIN live /\ live' \in Seq(Priced)
      BY <2>3, OnlyMovedOrTaken DEF Relisted
    <3>2. Len(live') = Len(live)
      BY <3>1
    <3> QED BY <2>0, <3>2
  <2>4. CASE MarketMoves \/ UNCHANGED vars
    BY <2>0, <2>4 DEF MarketMoves, vars
  <2> QED BY <2>1, <2>2, <2>3, <2>4 DEF Next
<1> QED BY <1>1, <1>2, AlwaysPriced, PTL DEF Spec

(* A plan has one exit for a token at most: the bids come first, then the exit of *)
(* YES, then that of NO.                                                          *)
LEMMA OneExit ==
  ASSUME NEW m \in Market, NEW i \in DOMAIN ConstructQuotes(m), NEW j \in DOMAIN ConstructQuotes(m),
         ConstructQuotes(m)[i].side = "SELL", ConstructQuotes(m)[j].side = "SELL",
         ConstructQuotes(m)[i].token = ConstructQuotes(m)[j].token
  PROVE  i = j
<1> DEFINE Bids == [token : Tokens, side : {"BUY"}, price : Int, size : Nat]
           Exit(tok) == [token : {tok}, side : {"SELL"}, price : {ExitPrice(m, tok)}, size : Int]
           a == Entries(m, "yes")
           b == Entries(m, "no")
           c == MaybeExit(m, "yes")
           d == MaybeExit(m, "no")
<1>1. \A tok \in Tokens : Entries(m, tok) \in Seq(Bids)
  <2> SUFFICES ASSUME NEW tok \in Tokens
               PROVE  Entries(m, tok) \in Seq(Bids)
    OBVIOUS
  <2>1. BidsBelow(tok, Top(m, tok)) \subseteq Bids
    BY DEF BidsBelow
  <2> HIDE DEF Bids
  <2> QED BY <2>1, EntriesShape, SeqMonotonic
<1>2. \A tok \in Tokens : MaybeExit(m, tok) \in Seq(Exit(tok)) /\ Len(MaybeExit(m, tok)) <= 1
  <2> SUFFICES ASSUME NEW tok \in Tokens
               PROVE  MaybeExit(m, tok) \in Seq(Exit(tok)) /\ Len(MaybeExit(m, tok)) <= 1
    OBVIOUS
  <2>1. Exits(m, tok) \subseteq Exit(tok)
    BY DEF Exits
  <2> HIDE DEF Exit
  <2> QED BY <2>1, ExitsShape, SeqMonotonic
<1>3. ConstructQuotes(m) = <<>> \/ ConstructQuotes(m) = a \o b \o c \o d
  BY DEF ConstructQuotes
<1>4. CASE ConstructQuotes(m) = <<>>
  BY <1>4
<1>5. CASE ConstructQuotes(m) = a \o b \o c \o d
  <2> DEFINE ab == a \o b
             abc == ab \o c
             plan == abc \o d
  <2>1. ConstructQuotes(m) = plan
    BY <1>5
  <2>2. /\ a \in Seq(Bids) /\ b \in Seq(Bids)
        /\ c \in Seq(Exit("yes")) /\ Len(c) <= 1 /\ d \in Seq(Exit("no")) /\ Len(d) <= 1
    BY <1>1, <1>2 DEF Tokens
  <2> HIDE DEF a, b, c, d
  <2>3. ab \in Seq(Bids)
    BY <2>2
  <2>4. \A k \in 1..Len(ab) : ab[k].side = "BUY"
    <3> HIDE DEF ab
    <3>1. \A k \in 1..Len(ab) : ab[k] \in Bids
      <4> HIDE DEF Bids
      <4> QED BY <2>3, ElementOfSeq
    <3> QED BY <3>1
  <2>5. /\ \A k \in 1..Len(c) : c[k].token = "yes" /\ c[k].side = "SELL"
        /\ \A k \in 1..Len(d) : d[k].token = "no" /\ d[k].side = "SELL"
    <3>1. \A k \in 1..Len(c) : c[k] \in Exit("yes")
      <4> HIDE DEF Exit
      <4> QED BY <2>2, ElementOfSeq
    <3>2. \A k \in 1..Len(d) : d[k] \in Exit("no")
      <4> HIDE DEF Exit
      <4> QED BY <2>2, ElementOfSeq
    <3> QED BY <3>1, <3>2
  <2>6. /\ Len(ab) \in Nat /\ Len(c) \in Nat /\ Len(d) \in Nat
        /\ Len(c) <= 1 /\ Len(d) <= 1
    BY <2>2, <2>3, LenProperties
  <2> HIDE DEF ab, Bids, Exit
  <2>7. /\ Len(abc) = Len(ab) + Len(c)
        /\ \A k \in 1..Len(abc) : abc[k] = IF k <= Len(ab) THEN ab[k] ELSE c[k - Len(ab)]
    BY <2>2, <2>3
  <2>8. abc \in Seq(Bids \cup Exit("yes"))
    <3>1. ab \in Seq(Bids \cup Exit("yes")) /\ c \in Seq(Bids \cup Exit("yes"))
      BY <2>2, <2>3, SeqMonotonic
    <3> QED BY <3>1
  <2> HIDE DEF abc
  <2>9. /\ Len(plan) = Len(abc) + Len(d)
        /\ \A k \in 1..Len(plan) : plan[k] = IF k <= Len(abc) THEN abc[k] ELSE d[k - Len(abc)]
        /\ DOMAIN plan = 1..Len(plan)
    BY <2>2, <2>8
  <2> HIDE DEF plan
  <2>10. ASSUME NEW k \in DOMAIN plan, plan[k].side = "SELL"
         PROVE  \/ k = Len(ab) + 1 /\ k <= Len(abc) /\ plan[k].token = "yes"
                \/ k = Len(abc) + 1 /\ plan[k].token = "no"
    <3>1. k \in 1..Len(plan) /\ k \in Int
      BY <2>9
    <3>2. CASE k <= Len(ab)
      <4>1. k <= Len(abc) /\ k \in 1..Len(abc) /\ k \in 1..Len(ab)
        BY <2>6, <2>7, <3>1, <3>2
      <4> QED BY <2>4, <2>7, <2>9, <2>10, <3>1, <3>2, <4>1
    <3>3. CASE k > Len(ab) /\ k <= Len(abc)
      <4>1. k = Len(ab) + 1 /\ k - Len(ab) \in 1..Len(c) /\ k \in 1..Len(abc) /\ ~(k <= Len(ab))
        BY <2>6, <2>7, <3>1, <3>3
      <4> QED BY <2>5, <2>7, <2>9, <3>1, <3>3, <4>1
    <3>4. CASE k > Len(abc)
      <4>1. k = Len(abc) + 1 /\ k - Len(abc) \in 1..Len(d) /\ ~(k <= Len(abc))
        BY <2>6, <2>7, <2>9, <3>1, <3>4
      <4> QED BY <2>5, <2>9, <3>1, <4>1
    <3> QED BY <2>6, <2>7, <3>1, <3>2, <3>3, <3>4
  <2> QED BY <2>1, <2>10
<1> QED BY <1>3, <1>4, <1>5

\* What rests after a pass stands for one target, is it or is close to it, and no
\* other order stands for that target.
LEMMA EachOrderHasATarget ==
  ASSUME NEW T, NEW targets \in Seq(T), NEW orders \in Seq(T),
         \A n \in 1..Len(targets) : Close(targets[n], targets[n])
  PROVE  LET after == Reconciled(targets, orders)
         IN  \E of \in [DOMAIN after -> DOMAIN targets] :
               /\ \A p \in DOMAIN after : Close(after[p], targets[of[p]])
               /\ \A p, r \in DOMAIN after : of[p] = of[r] => p = r
<1> DEFINE after  == Reconciled(targets, orders)
           keeps  == Matches(targets, orders)
           kept   == Kept(targets, orders)
           placed == Placed(targets, orders)
           N == Len(targets)
           A == Len(after)
           K == Len(kept)
           For(n, p) == StandsFor(targets, orders, n, p)
           of == [p \in 1..A |-> CHOOSE n \in 1..N : For(n, p)]
<1>1. /\ Greedy(targets, orders, keeps)
      /\ kept \in Seq(Nat) /\ placed \in Seq(Nat)
      /\ after \in Seq(T) /\ A = K + Len(placed)
  BY ReconciledShape
<1>2. /\ \A k \in 1..K : after[k] = orders[kept[k]]
      /\ \A k \in 1..Len(placed) : after[K + k] = targets[placed[k]]
  BY ReconciledShape
<1>3. /\ \A p \in 1..A : \E n \in 1..N : For(n, p)
      /\ \A n \in 1..N, p, r \in 1..A : For(n, p) /\ For(n, r) => p = r
  BY OneOrderEach
<1>4. DOMAIN after = 1..A /\ DOMAIN targets = 1..N /\ A \in Nat /\ N \in Nat /\ K \in Nat
      /\ Len(placed) \in Nat
  BY <1>1
<1>5. \A p \in 1..A : of[p] \in 1..N /\ For(of[p], p)
  <2> HIDE DEF For, A, N
  <2> QED BY <1>3
<1>6. ASSUME NEW p \in 1..A
      PROVE  Close(after[p], targets[of[p]])
  <2> DEFINE n == of[p]
  <2>1. n \in 1..N /\ For(n, p)
    BY <1>5
  <2> HIDE DEF n, of
  <2>2. CASE keeps[n] = 0
    <3>1. p > K /\ placed[p - K] = n
      BY <2>1, <2>2 DEF StandsFor
    <3> HIDE DEF after, keeps, kept, placed, N, A, K
    <3>2. p - K \in 1..Len(placed) /\ K + (p - K) = p
      BY <1>1, <1>4, <3>1
    <3>3. after[p] = targets[n]
      BY <1>2, <3>1, <3>2
    <3> QED BY <2>1, <3>3 DEF n, N
  <2>3. CASE keeps[n] # 0
    <3>1. p <= K /\ kept[p] = keeps[n]
      BY <2>1, <2>3 DEF StandsFor
    <3>2. keeps[n] \in Free(targets, orders, keeps, n)
      BY <1>1, <2>1, <2>3 DEF Greedy
    <3>3. Close(orders[keeps[n]], targets[n])
      BY <3>2 DEF Free
    <3> HIDE DEF after, keeps, kept, placed, N, A, K
    <3>4. p \in 1..K
      BY <1>4, <3>1
    <3>5. after[p] = orders[keeps[n]]
      BY <1>2, <3>1, <3>4
    <3> QED BY <3>3, <3>5 DEF n
  <2> QED BY <2>2, <2>3
<1>7. \A p, r \in 1..A : of[p] = of[r] => p = r
  <2> SUFFICES ASSUME NEW p \in 1..A, NEW r \in 1..A, of[p] = of[r]
               PROVE  p = r
    OBVIOUS
  <2>1. of[p] \in 1..N /\ For(of[p], p) /\ For(of[p], r)
    BY <1>5
  <2> HIDE DEF of, For, A, N
  <2> QED BY <1>3, <2>1
<1>8. of \in [DOMAIN after -> DOMAIN targets]
  <2> HIDE DEF For, after, A, N
  <2> QED BY <1>4, <1>5
<1> HIDE DEF of, after
<1> QED BY <1>4, <1>6, <1>7, <1>8 DEF after

SellsCovered ==
  LET after == Reconciled(ConstructQuotes(market), live)
      sells == {p \in DOMAIN after : after[p].side = "SELL"}
  IN  \A p \in sells :
        /\ after[p].size * ResizeDen <= (ResizeDen + ResizeNum) * market.held[after[p].token]
        /\ \A r \in sells : after[r].token = after[p].token => r = p

(* Nothing is sold twice (_maybe_exit and reconcile together): whatever rested   *)
(* before, after a pass a token has one exit resting at most, and that one is    *)
(* larger than the holding by the resize tolerance at most.                      *)
THEOREM ExitsStayCovered ==
  ASSUME ExchangeMin > 0
  PROVE  Spec => []SellsCovered
<1>1. ASSUME Given, live \in Seq(Priced)
      PROVE  SellsCovered
  <2> DEFINE targets == ConstructQuotes(market)
             after == Reconciled(targets, live)
  <2>1. market \in Market
    BY <1>1 DEF Given
  <2>2. targets \in Seq(Priced)
    BY <2>1, PlanIsPriced
  <2>3. \A n \in 1..Len(targets) : Close(targets[n], targets[n])
    BY <2>2, CloseToItself
  <2>4. PICK of \in [DOMAIN after -> DOMAIN targets] :
          /\ \A p \in DOMAIN after : Close(after[p], targets[of[p]])
          /\ \A p, r \in DOMAIN after : of[p] = of[r] => p = r
    <3> HIDE DEF targets
    <3> QED BY <1>1, <2>2, <2>3, EachOrderHasATarget
  <2>5. after \in Seq(Priced)
    <3> HIDE DEF targets
    <3> QED BY <1>1, <2>2, ReconciledShape
  <2>6. ASSUME NEW p \in DOMAIN after, after[p].side = "SELL"
        PROVE  /\ of[p] \in DOMAIN targets /\ targets[of[p]].side = "SELL"
               /\ targets[of[p]].token = after[p].token
               /\ after[p].size * ResizeDen
                    <= (ResizeDen + ResizeNum) * market.held[after[p].token]
    <3> DEFINE q == targets[of[p]]
               o == after[p]
    <3>1. of[p] \in DOMAIN targets /\ Close(o, q)
      BY <2>4
    <3>2. q.token = o.token /\ q.side = "SELL"
          /\ (q.size <= 0 \/ Distance(o.size, q.size) * ResizeDen <= ResizeNum * q.size)
      BY <2>6, <3>1 DEF Close
    <3>3. q \in Wanted
      BY <3>1 DEF Wanted
    <3>4. q \in Exits(market, q.token) /\ q.token \in Tokens
      BY <2>1, <3>2, <3>3, WantedShape
    <3>5. q.size \in Int /\ q.size > 0
      BY <3>4, Configured DEF Exits
    <3>6. market.held[q.token] \in Nat /\ q.size <= market.held[q.token]
      <4> DEFINE h == market.held[q.token]
                 f == (h \div Fine) * Fine
      <4>1. h \in Nat
        BY <2>1, <3>4, MarketFields
      <4>2. q.size = ExitSize(h)
        BY <3>4 DEF Exits
      <4> HIDE DEF h, q
      <4>3. h \div Fine \in Int /\ f <= h
        BY <4>1, Configured, Quotient
      <4>4. q.size = f
        BY <4>1, <4>2, <4>3, Configured DEF ExitSize
      <4> QED BY <4>1, <4>3, <4>4 DEF h
    <3>7. o.size \in Nat
      <4>1. o \in Priced
        <5> HIDE DEF after
        <5> QED BY <2>5, <2>6
      <4> HIDE DEF o
      <4> QED BY <4>1 DEF Priced
    <3> HIDE DEF o, q
    <3> DEFINE x == o.size
               y == q.size
               h == market.held[q.token]
               diff == IF x >= y THEN x - y ELSE y - x
    <3>8. /\ x \in Nat /\ y \in Int /\ y > 0 /\ h \in Nat /\ y <= h
          /\ diff * ResizeDen <= ResizeNum * y
          /\ ResizeDen \in Nat /\ ResizeNum \in Nat /\ ResizeDen > 0
      BY <3>2, <3>5, <3>6, <3>7, PlanAssumption DEF Distance, PlanAssumption
    <3> HIDE DEF x, y, h
    <3>9. x * ResizeDen <= (ResizeDen + ResizeNum) * h
      <4>1. x <= y + diff /\ diff \in Nat
        BY <3>8
      <4>2. x * ResizeDen <= (y + diff) * ResizeDen
        BY <3>8, <4>1
      <4>3. (y + diff) * ResizeDen <= (ResizeDen + ResizeNum) * y
        BY <3>8, <4>1
      <4>4. (ResizeDen + ResizeNum) * y <= (ResizeDen + ResizeNum) * h
        BY <3>8
      <4>5. /\ x * ResizeDen \in Int /\ (y + diff) * ResizeDen \in Int
            /\ (ResizeDen + ResizeNum) * y \in Int /\ (ResizeDen + ResizeNum) * h \in Int
        BY <3>8, <4>1
      <4> QED BY <4>2, <4>3, <4>4, <4>5
    <3>10. o.size * ResizeDen <= (ResizeDen + ResizeNum) * market.held[o.token]
      BY <3>2, <3>9 DEF x, h
    <3> QED BY <3>1, <3>2, <3>10 DEF o, q
  <2>7. ASSUME NEW p \in DOMAIN after, NEW r \in DOMAIN after,
               after[p].side = "SELL", after[r].side = "SELL",
               after[r].token = after[p].token
        PROVE  r = p
    <3>1. /\ of[p] \in DOMAIN targets /\ targets[of[p]].side = "SELL"
          /\ of[r] \in DOMAIN targets /\ targets[of[r]].side = "SELL"
          /\ targets[of[p]].token = targets[of[r]].token
      <4> HIDE DEF after, targets
      <4> QED BY <2>6, <2>7
    <3>2. of[p] = of[r]
      BY <2>1, <3>1, OneExit
    <3> QED BY <2>4, <3>2
  <2> HIDE DEF after, targets
  <2>8. \A p \in {k \in DOMAIN after : after[k].side = "SELL"} :
          /\ after[p].size * ResizeDen <= (ResizeDen + ResizeNum) * market.held[after[p].token]
          /\ \A r \in {k \in DOMAIN after : after[k].side = "SELL"} :
                after[r].token = after[p].token => r = p
    BY <2>6, <2>7
  <2> QED BY <2>8 DEF SellsCovered, after, targets
<1> QED BY <1>1, AlwaysPriced, PTL
=============================================================================
