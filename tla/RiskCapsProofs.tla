--------------------------- MODULE RiskCapsProofs ---------------------------
(***************************************************************************)
(* Theorems about the cap of one market and the cap of the account, for    *)
(* any number of markets, any stacks and caps, and whatever happens around *)
(* the quoters.                                                            *)
(***************************************************************************)
EXTENDS RiskCaps, FiniteLemmas, TLAPS

(***************************************************************************)
(* The stack after the taper                                               *)
(***************************************************************************)
\* Max returns an element of a bounded set that is not empty.
LEMMA MaxBelongs ==
    ASSUME NEW n \in Nat, NEW S \in SUBSET (0 .. n), 0 \in S
    PROVE  Max(S) \in S
<1> DEFINE Above == {b \in Nat : \A s \in S : s <= b}
<1>1. n \in Above
  OBVIOUS
<1>2. PICK b \in Above : \A a \in Above : b <= a
  BY <1>1, LeastNatural
<1>3. b \in S
  <2>1. CASE b = 0
    BY <2>1
  <2>2. CASE b # 0
    <3>1. b \in Nat /\ b - 1 \in Nat /\ ~(b <= b - 1)
      BY <2>2
    <3>2. b - 1 \notin Above
      BY <3>1, <1>2
    <3>3. PICK s \in S : ~(s <= b - 1)
      BY <3>1, <3>2
    <3>4. s <= b /\ s \in Int
      BY <1>2
    <3> QED
      BY <3>1, <3>3, <3>4
  <2> QED
    BY <2>1, <2>2
<1>4. \A s \in S : b >= s
  BY <1>2
<1> QED
  BY <1>3, <1>4 DEF Max

\* A scaled stack is never larger than the stack.
LEMMA ScaledWithinStack ==
    ASSUME NEW m \in Markets
    PROVE  Scaled(m) \in 0 .. Stack[m]
<1> DEFINE Sizes == {size \in 0 .. Stack[m] :
                        /\ TaperAllows(size, Stack[m], Imbalance(m), MarketCap)
                        /\ TaperAllows(size, Stack[m], SumFunctionOnSet(Gross, Markets), TotalCap)
                        /\ TaperAllows(size, Stack[m], GroupCost(m), GroupCap)}
<1>1. Stack[m] \in Nat
  BY CapsAssumption
<1>2. Sizes \in SUBSET (0 .. Stack[m]) /\ 0 \in Sizes
  BY <1>1 DEF TaperAllows
<1>3. Max(Sizes) \in Sizes
  <2> HIDE DEF Sizes
  <2> QED
    BY <1>1, <1>2, MaxBelongs
<1> QED
  BY <1>3 DEF Scaled

\* Bids are wanted only when no cap says reduce only, and never more than a stack.
LEMMA TargetWithinCaps ==
    ASSUME NEW m \in Markets, NEW target \in Targets(m)
    PROVE  /\ target \in 0 .. Stack[m]
           /\ target > 0 => ~ReduceOnly(m)
<1>1. Stack[m] \in Nat
  BY CapsAssumption
<1>2. CASE Regime(m) = "QUIET"
  <2>1. ~ReduceOnly(m)
    BY <1>2 DEF Regime
  <2>2. Scaled(m) \in 0 .. Stack[m]
    BY ScaledWithinStack
  <2>3. target \in 0 .. Scaled(m)
    BY <1>2, <2>2 DEF Targets
  <2> QED
    BY <1>1, <2>1, <2>2, <2>3
<1>3. CASE Regime(m) # "QUIET"
  BY <1>1, <1>3 DEF Targets
<1> QED
  BY <1>2, <1>3

-----------------------------------------------------------------------------
(***************************************************************************)
(* The inductive invariant of one market                                   *)
(***************************************************************************)
\* What rests is known, a stack is decided for a quoter that is not idle and
\* placed where nothing rests, and neither exceeds the stack.
OrdersFit ==
    \A m \in Markets :
        /\ rest[m] <= bids[m]
        /\ bids[m] <= Stack[m]
        /\ want[m] <= Stack[m]
        /\ due[m] <= MaxLate
        /\ stage[m] = "idle" => want[m] = 0
        /\ stage[m] = "place" => bids[m] = 0

\* The heavier outcome of a market with what may still become inventory of it.
Bag(m) == yes[m] + no[m] - Pairs(m) + due[m] + rest[m]

\* A fill moves a share from resting to late to held, and a placement from wanted
\* to resting: only a decision adds to them, and it is taken below the cap.
BagBounded ==
    \A m \in Markets : Bag(m) + want[m] < MarketCap + Stack[m] + MaxLate + netted[m]

CapInv == TypeOK /\ OrdersFit /\ BagBounded

\* Pairs are what both outcomes have.
LEMMA PairsFit ==
    ASSUME TypeOK, NEW m \in Markets
    PROVE  /\ yes[m] \in Nat /\ no[m] \in Nat /\ Pairs(m) \in Nat
           /\ Pairs(m) <= yes[m] /\ Pairs(m) <= no[m]
           /\ Pairs(m) = yes[m] \/ Pairs(m) = no[m]
  BY DEF TypeOK, Pairs

\* The account starts below its caps, with nothing resting and nothing late.
LEMMA CapInvInit == Init => CapInv
<1> SUFFICES ASSUME Init  PROVE  CapInv
  OBVIOUS
<1>1. TypeOK
  BY CapsAssumption DEF Init, TypeOK
<1>2. OrdersFit
  BY CapsAssumption DEF Init, OrdersFit
<1>3. BagBounded
  BY CapsAssumption DEF Init, BagBounded, Bag, Pairs
<1> QED
  BY <1>1, <1>2, <1>3 DEF CapInv

\* Every action keeps the types.
LEMMA TypeStep == TypeOK /\ OrdersFit /\ [Next]_vars => TypeOK'
<1> SUFFICES ASSUME TypeOK, OrdersFit, [Next]_vars  PROVE  TypeOK'
  OBVIOUS
<1> USE CapsAssumption DEF TypeOK
<1>1. ASSUME NEW m \in Markets, Requote(m)  PROVE  TypeOK'
  <2>1. \A target \in Targets(m) : target \in Nat
    BY TargetWithinCaps
  <2>2. Pairs(m) \in Nat
    BY PairsFit
  <2> QED
    BY <1>1, <2>1, <2>2 DEF Requote, orders, inventory, window
<1>2. ASSUME NEW m \in Markets, CancelOk(m)  PROVE  TypeOK'
  BY <1>2 DEF CancelOk, inventory, window
<1>3. ASSUME NEW m \in Markets, CancelFails(m)  PROVE  TypeOK'
  BY <1>3 DEF CancelFails, inventory, window
<1>4. ASSUME NEW m \in Markets, ShedLoad(m)  PROVE  TypeOK'
  BY <1>4 DEF ShedLoad, orders, inventory, window
<1>5. ASSUME NEW m \in Markets, PlaceOk(m)  PROVE  TypeOK'
  BY <1>5 DEF PlaceOk, inventory
<1>6. ASSUME NEW m \in Markets, PlaceFails(m)  PROVE  TypeOK'
  BY <1>6 DEF PlaceFails, inventory
<1>7. ASSUME NEW m \in Markets, OnOrder(m)  PROVE  TypeOK'
  BY <1>7 DEF OnOrder, inventory, quoteVars, window
<1>8. ASSUME NEW m \in Markets, NEW n \in 1 .. MaxHeld, Match(m, n)  PROVE  TypeOK'
  BY <1>8 DEF Match, inventory, quoteVars, window
<1>9. ASSUME NEW m \in Markets, NEW n \in 1 .. MaxHeld, OnTrade(m, n)  PROVE  TypeOK'
  BY <1>9 DEF OnTrade, Bought, orders, quoteVars, window
<1>10. ASSUME NEW m \in Markets, NEW n \in 1 .. MaxHeld, Exit(m, n)  PROVE  TypeOK'
  BY <1>10 DEF Exit, orders, quoteVars, window
<1>11. ASSUME NEW m \in Markets, NEW n \in 1 .. MaxHeld, Merge(m, n)  PROVE  TypeOK'
  BY <1>11, PairsFit DEF Merge, orders, quoteVars, window
<1>12. ASSUME NEW m \in Markets, Sweep(m) \/ CoolOffEnds(m)  PROVE  TypeOK'
  BY <1>12 DEF Sweep, CoolOffEnds, orders, inventory, window
<1>13. CASE ResultAges
  BY <1>13 DEF ResultAges, orders, inventory, quoteVars
<1>14. CASE UNCHANGED vars
  BY <1>14 DEF vars, orders, inventory, quoteVars, window
<1> QED
  BY <1>1, <1>2, <1>3, <1>4, <1>5, <1>6, <1>7, <1>8, <1>9, <1>10, <1>11, <1>12, <1>13,
     <1>14 DEF Next, Quoter

\* Every action keeps what is known to rest and what is wanted within the stack.
LEMMA OrdersFitStep == TypeOK /\ OrdersFit /\ [Next]_vars => OrdersFit'
<1> SUFFICES ASSUME TypeOK, OrdersFit, [Next]_vars  PROVE  OrdersFit'
  OBVIOUS
<1> USE CapsAssumption DEF TypeOK, OrdersFit
<1>1. ASSUME NEW m \in Markets, Requote(m)  PROVE  OrdersFit'
  <2>1. \A target \in Targets(m) : target \in 0 .. Stack[m]
    BY TargetWithinCaps
  <2> QED
    BY <1>1, <2>1 DEF Requote, orders
<1>2. ASSUME NEW m \in Markets, CancelOk(m)  PROVE  OrdersFit'
  BY <1>2 DEF CancelOk
<1>3. ASSUME NEW m \in Markets, CancelFails(m)  PROVE  OrdersFit'
  BY <1>3 DEF CancelFails
<1>4. ASSUME NEW m \in Markets, ShedLoad(m)  PROVE  OrdersFit'
  BY <1>4 DEF ShedLoad, orders
<1>5. ASSUME NEW m \in Markets, PlaceOk(m)  PROVE  OrdersFit'
  BY <1>5 DEF PlaceOk
<1>6. ASSUME NEW m \in Markets, PlaceFails(m)  PROVE  OrdersFit'
  BY <1>6 DEF PlaceFails
<1>7. ASSUME NEW m \in Markets, OnOrder(m)  PROVE  OrdersFit'
  BY <1>7 DEF OnOrder, quoteVars
<1>8. ASSUME NEW m \in Markets, NEW n \in 1 .. MaxHeld, Match(m, n)  PROVE  OrdersFit'
  BY <1>8 DEF Match, quoteVars
<1>9. ASSUME NEW m \in Markets, NEW n \in 1 .. MaxHeld, OnTrade(m, n)  PROVE  OrdersFit'
  BY <1>9 DEF OnTrade, orders, quoteVars
<1>10. ASSUME NEW m \in Markets, NEW n \in 1 .. MaxHeld, Exit(m, n) \/ Merge(m, n)
       PROVE  OrdersFit'
  BY <1>10 DEF Exit, Merge, orders, quoteVars
<1>11. ASSUME NEW m \in Markets, Sweep(m) \/ CoolOffEnds(m)  PROVE  OrdersFit'
  BY <1>11 DEF Sweep, CoolOffEnds, orders
<1>12. CASE ResultAges \/ UNCHANGED vars
  BY <1>12 DEF ResultAges, vars, orders, quoteVars
<1> QED
  BY <1>1, <1>2, <1>3, <1>4, <1>5, <1>6, <1>7, <1>8, <1>9, <1>10, <1>11, <1>12
     DEF Next, Quoter

\* No action takes the heavier outcome, late, resting and wanted together past the
\* cap, a stack, what may be late and what was netted out.
LEMMA BagStep == CapInv /\ [Next]_vars => BagBounded'
<1> SUFFICES ASSUME CapInv, [Next]_vars  PROVE  BagBounded'
  OBVIOUS
<1> USE CapsAssumption DEF CapInv, TypeOK, OrdersFit, BagBounded, Bag
<1>1. ASSUME NEW m \in Markets, Requote(m)  PROVE  BagBounded'
  <2>1. PICK target \in Targets(m) :
          \/ UNCHANGED <<stage, want, netted>>
          \/ /\ want' = [want EXCEPT ![m] = target]
             /\ stage' = [stage EXCEPT ![m] = IF bids[m] > 0 THEN "cancel" ELSE "place"]
             /\ netted' = IF target > 0 THEN [netted EXCEPT ![m] = Pairs(m)] ELSE netted
    BY <1>1 DEF Requote
  <2>2. stage[m] = "idle" /\ UNCHANGED <<rest, due, yes, no>>
    BY <1>1 DEF Requote, orders, inventory
  <2>3. target \in 0 .. Stack[m]
    BY TargetWithinCaps
  <2>4. target > 0 => Imbalance(m) + bids[m] < MarketCap
    <3>1. target > 0 => ~(Imbalance(m) + bids[m] >= MarketCap)
      BY TargetWithinCaps DEF ReduceOnly, MarketCommitted
    <3> QED
      BY <3>1, PairsFit DEF Imbalance
  <2>5. CASE UNCHANGED <<stage, want, netted>>
    BY <2>2, <2>5 DEF Pairs
  <2>6. CASE target = 0 /\ want' = [want EXCEPT ![m] = target] /\ netted' = netted
    BY <2>2, <2>6 DEF Pairs
  <2>7. CASE /\ target > 0 /\ want' = [want EXCEPT ![m] = target]
             /\ netted' = [netted EXCEPT ![m] = Pairs(m)]
    <3>1. yes[m] + no[m] - 2 * Pairs(m) + bids[m] < MarketCap
      BY <2>4, <2>7 DEF Imbalance
    <3>2. UNCHANGED Pairs(m) /\ Pairs(m) \in Nat
      BY <2>2, PairsFit DEF Pairs
    <3>3. yes[m] + no[m] - Pairs(m) + due[m] + rest[m] + target
             < MarketCap + Stack[m] + MaxLate + Pairs(m)
      BY <2>3, <3>1, <3>2
    <3>4. \A other \in Markets \ {m} :
             UNCHANGED <<want[other], netted[other], Pairs(other)>>
      BY <2>2, <2>7 DEF Pairs
    <3>5. want'[m] = target /\ netted'[m] = Pairs(m)
      BY <2>7
    <3> QED
      BY <2>2, <3>2, <3>3, <3>4, <3>5
  <2> QED
    BY <2>1, <2>3, <2>5, <2>6, <2>7
<1>2. ASSUME NEW m \in Markets, CancelOk(m)  PROVE  BagBounded'
  BY <1>2 DEF CancelOk, inventory, Pairs
<1>3. ASSUME NEW m \in Markets, CancelFails(m)  PROVE  BagBounded'
  BY <1>3 DEF CancelFails, inventory, Pairs
<1>4. ASSUME NEW m \in Markets, ShedLoad(m)  PROVE  BagBounded'
  BY <1>4 DEF ShedLoad, orders, inventory, Pairs
<1>5. ASSUME NEW m \in Markets, PlaceOk(m)  PROVE  BagBounded'
  BY <1>5 DEF PlaceOk, inventory, Pairs
<1>6. ASSUME NEW m \in Markets, PlaceFails(m)  PROVE  BagBounded'
  BY <1>6 DEF PlaceFails, inventory, Pairs
<1>7. ASSUME NEW m \in Markets, OnOrder(m)  PROVE  BagBounded'
  BY <1>7 DEF OnOrder, inventory, quoteVars, Pairs
<1>8. ASSUME NEW m \in Markets, NEW n \in 1 .. MaxHeld, Match(m, n)  PROVE  BagBounded'
  BY <1>8 DEF Match, inventory, quoteVars, Pairs
<1>9. ASSUME NEW m \in Markets, NEW n \in 1 .. MaxHeld, OnTrade(m, n)  PROVE  BagBounded'
  BY <1>9 DEF OnTrade, Bought, orders, quoteVars, Pairs
<1>10. ASSUME NEW m \in Markets, NEW n \in 1 .. MaxHeld, Exit(m, n)  PROVE  BagBounded'
  BY <1>10 DEF Exit, orders, quoteVars, Pairs
<1>11. ASSUME NEW m \in Markets, NEW n \in 1 .. MaxHeld, Merge(m, n)  PROVE  BagBounded'
  BY <1>11 DEF Merge, orders, quoteVars, Pairs
<1>12. ASSUME NEW m \in Markets, Sweep(m) \/ CoolOffEnds(m)  PROVE  BagBounded'
  BY <1>12 DEF Sweep, CoolOffEnds, orders, inventory, Pairs
<1>13. CASE ResultAges \/ UNCHANGED vars
  BY <1>13 DEF ResultAges, vars, orders, inventory, quoteVars, Pairs
<1> QED
  BY <1>1, <1>2, <1>3, <1>4, <1>5, <1>6, <1>7, <1>8, <1>9, <1>10, <1>11, <1>12, <1>13
     DEF Next, Quoter

\* Every step of a quoter and of what surrounds it keeps the invariant.
LEMMA CapInvStep == CapInv /\ [Next]_vars => CapInv'
  BY TypeStep, OrdersFitStep, BagStep DEF CapInv

-----------------------------------------------------------------------------
(***************************************************************************)
(* The caps of the account and of an event                                 *)
(***************************************************************************)
\* All a market holds, has coming, has resting, and is about to place.
Load == [m \in Markets |-> yes[m] + no[m] + due[m] + rest[m] + want[m]]

\* What a market may add to what the account's gate saw: its stack, and its late
\* fills.  The event's gate did not see its bids either.
Slack == [m \in Markets |-> Stack[m] + MaxLate]
EventSlack == [m \in Markets |-> 2 * Stack[m] + MaxLate]

AccountBounded ==
    SumFunctionOnSet(Load, Markets) < TotalCap + SumFunctionOnSet(Slack, Markets)

GroupBounded ==
    \A e \in Markets : GroupOf[e] # NoEvent =>
        SumFunctionOnSet(Load, Group(e)) < GroupCap + SumFunctionOnSet(EventSlack, Group(e))

ExposureInv == CapInv /\ AccountBounded /\ GroupBounded

\* The functions that are summed have natural values.
LEMMA ExposureTyped ==
    ASSUME CapInv, NEW m \in Markets
    PROVE  /\ yes[m] \in Nat /\ no[m] \in Nat /\ due[m] \in Nat /\ rest[m] \in Nat
           /\ want[m] \in Nat /\ bids[m] \in Nat /\ Stack[m] \in Nat /\ MaxLate \in Nat
           /\ Load[m] = yes[m] + no[m] + due[m] + rest[m] + want[m] /\ Load[m] \in Nat
           /\ Gross[m] = yes[m] + no[m] /\ Gross[m] \in Nat
           /\ Slack[m] = Stack[m] + MaxLate /\ Slack[m] \in Nat
           /\ EventSlack[m] = 2 * Stack[m] + MaxLate /\ EventSlack[m] \in Nat
  BY CapsAssumption DEF CapInv, TypeOK, Load, Gross, Slack, EventSlack

\* Below a cap before something is added to every market, within the cap and what
\* is added afterwards.
LEMMA SumWithin ==
    ASSUME NEW S, IsFiniteSet(S), NEW seen, NEW slack, NEW load, NEW cap \in Nat,
           \A x \in S : /\ seen[x] \in Nat /\ slack[x] \in Nat /\ load[x] \in Nat
                        /\ load[x] <= seen[x] + slack[x],
           SumFunctionOnSet(seen, S) < cap
    PROVE  SumFunctionOnSet(load, S) < cap + SumFunctionOnSet(slack, S)
<1> DEFINE both == [x \in S |-> seen[x] + slack[x]]
<1>1. \A x \in S : both[x] = seen[x] + slack[x] /\ both[x] \in Nat /\ load[x] <= both[x]
  OBVIOUS
<1> HIDE DEF both
<1>2. SumFunctionOnSet(both, S) = SumFunctionOnSet(seen, S) + SumFunctionOnSet(slack, S)
  BY <1>1, SumAdds
<1>3. SumFunctionOnSet(load, S) <= SumFunctionOnSet(both, S)
  BY <1>1, SumGrows
<1>4. /\ SumFunctionOnSet(load, S) \in Nat
      /\ SumFunctionOnSet(seen, S) \in Nat
      /\ SumFunctionOnSet(slack, S) \in Nat
  BY SumIsNatural
<1> QED
  BY <1>2, <1>3, <1>4

\* The markets of an event are finitely many.
LEMMA GroupFinite ==
    ASSUME NEW e \in Markets
    PROVE  IsFiniteSet(Group(e)) /\ Group(e) \subseteq Markets
  BY CapsAssumption, FS_Subset DEF Group

\* Nothing is late, resting or wanted at the start.
LEMMA ExposureInit == Init => ExposureInv
<1> SUFFICES ASSUME Init  PROVE  ExposureInv
  OBVIOUS
<1>1. CapInv
  BY CapInvInit
<1>2. Load = Carried
  BY CapsAssumption DEF Init, Load, Carried
<1>3. \A m \in Markets : Carried[m] \in Nat /\ Carried[m] <= Carried[m] + Slack[m]
                         /\ Carried[m] <= Carried[m] + EventSlack[m]
                         /\ Slack[m] \in Nat /\ EventSlack[m] \in Nat
  BY CapsAssumption DEF Carried, Slack, EventSlack
<1> HIDE DEF Slack, EventSlack, Carried
<1>4. SumFunctionOnSet(Carried, Markets) < TotalCap + SumFunctionOnSet(Slack, Markets)
  BY <1>3, SumWithin, CapsAssumption
<1>5. ASSUME NEW e \in Markets, GroupOf[e] # NoEvent
      PROVE  SumFunctionOnSet(Carried, Group(e))
                < GroupCap + SumFunctionOnSet(EventSlack, Group(e))
  <2>1. SumFunctionOnSet(Carried, Group(e)) < GroupCap /\ GroupCap \in Nat
    BY <1>5, CapsAssumption
  <2> QED
    BY <1>3, <2>1, GroupFinite, SumWithin
<1> QED
  BY <1>1, <1>2, <1>4, <1>5 DEF ExposureInv, AccountBounded, GroupBounded

\* Only a decision to place adds to the load of a market.
LEMMA LoadGrows ==
    ASSUME CapInv, CapInv', [Next]_vars
    PROVE  \/ \A m \in Markets : Load'[m] <= Load[m]
           \/ \E d \in Markets : \E target \in Targets(d) :
                 /\ target > 0 /\ UNCHANGED <<yes, no, due, rest, bids>>
                 /\ \A m \in Markets \ {d} : Load'[m] = Load[m]
<1> DEFINE Shrinks == \A m \in Markets : Load'[m] <= Load[m]
<1> USE CapsAssumption DEF CapInv, TypeOK
<1>2. \A m \in Markets :
         /\ Load[m] = yes[m] + no[m] + due[m] + rest[m] + want[m]
         /\ Load'[m] = yes'[m] + no'[m] + due'[m] + rest'[m] + want'[m]
  BY DEF Load
<1> HIDE DEF Load
<1>3. \A m \in Markets : rest[m] <= bids[m] /\ (stage[m] = "place" => bids[m] = 0)
  BY DEF OrdersFit
<1>4. ASSUME NEW d \in Markets, CancelOk(d) \/ CancelFails(d) \/ ShedLoad(d)
      PROVE  Shrinks
  <2>1. CASE CancelOk(d)
    BY <1>2, <2>1 DEF CancelOk, inventory
  <2>2. CASE CancelFails(d)
    BY <1>2, <2>2 DEF CancelFails, inventory
  <2>3. CASE ShedLoad(d)
    BY <1>2, <2>3 DEF ShedLoad, orders, inventory
  <2> QED
    BY <1>4, <2>1, <2>2, <2>3
<1>5. ASSUME NEW d \in Markets, PlaceOk(d)  PROVE  Shrinks
  BY <1>2, <1>3, <1>5 DEF PlaceOk, inventory
<1>6. ASSUME NEW d \in Markets, PlaceFails(d)  PROVE  Shrinks
  BY <1>2, <1>3, <1>6 DEF PlaceFails, inventory
<1>7. ASSUME NEW d \in Markets, OnOrder(d) \/ Sweep(d) \/ CoolOffEnds(d)  PROVE  Shrinks
  BY <1>2, <1>7 DEF OnOrder, Sweep, CoolOffEnds, orders, inventory, quoteVars
<1>8. ASSUME NEW d \in Markets, NEW n \in 1 .. MaxHeld, Match(d, n)  PROVE  Shrinks
  BY <1>2, <1>8 DEF Match, inventory, quoteVars
<1>9. ASSUME NEW d \in Markets, NEW n \in 1 .. MaxHeld, OnTrade(d, n)  PROVE  Shrinks
  BY <1>2, <1>9 DEF OnTrade, Bought, orders, quoteVars
<1>10. ASSUME NEW d \in Markets, NEW n \in 1 .. MaxHeld, Exit(d, n)  PROVE  Shrinks
  BY <1>2, <1>10 DEF Exit, orders, quoteVars
<1>11. ASSUME NEW d \in Markets, NEW n \in 1 .. MaxHeld, Merge(d, n)  PROVE  Shrinks
  BY <1>2, <1>11 DEF Merge, orders, quoteVars
<1>12. CASE ResultAges \/ UNCHANGED vars
  BY <1>2, <1>12 DEF ResultAges, vars, orders, inventory, quoteVars
<1>13. ASSUME NEW d \in Markets, Requote(d), ~Shrinks
       PROVE  \E target \in Targets(d) :
                  /\ target > 0 /\ UNCHANGED <<yes, no, due, rest, bids>>
                  /\ \A m \in Markets \ {d} : Load'[m] = Load[m]
  <2>1. UNCHANGED <<yes, no, due, rest, bids>>
    BY <1>13 DEF Requote, orders, inventory
  <2>2. PICK target \in Targets(d) :
          want' = want \/ want' = [want EXCEPT ![d] = target]
    BY <1>13 DEF Requote
  <2>3. target \in Nat
    BY TargetWithinCaps
  <2>4. \A m \in Markets \ {d} : Load'[m] = Load[m]
    BY <1>2, <2>1, <2>2
  <2>5. target > 0
    <3>1. SUFFICES ASSUME target = 0  PROVE  Shrinks
      BY <1>13, <2>3
    <3> QED
      BY <1>2, <2>1, <2>2, <3>1
  <2> QED
    BY <2>1, <2>4, <2>5
<1> QED
  BY <1>4, <1>5, <1>6, <1>7, <1>8, <1>9, <1>10, <1>11, <1>12, <1>13 DEF Next, Quoter

\* What the account's gate saw was below its cap, and each market adds its slack.
LEMMA AccountStep == ExposureInv /\ CapInv' /\ [Next]_vars => AccountBounded'
<1> SUFFICES ASSUME ExposureInv, CapInv', [Next]_vars
             PROVE  SumFunctionOnSet(Load', Markets)
                       < TotalCap + SumFunctionOnSet(Slack, Markets)
  BY DEF AccountBounded, Slack
<1>1. CapInv /\ IsFiniteSet(Markets) /\ TotalCap \in Nat
  BY CapsAssumption DEF ExposureInv
<1>2. \A m \in Markets : /\ Load[m] \in Nat /\ Slack[m] \in Nat /\ Gross[m] \in Nat
                         /\ bids[m] \in Nat
  BY <1>1, ExposureTyped
<1>3. \A m \in Markets : Load'[m] \in Nat
  BY CapsAssumption DEF Load, CapInv, TypeOK
<1>4. CASE \A m \in Markets : Load'[m] <= Load[m]
  <2>1. SumFunctionOnSet(Load', Markets) <= SumFunctionOnSet(Load, Markets)
    BY <1>1, <1>2, <1>3, <1>4, SumGrows
  <2>2. /\ SumFunctionOnSet(Load', Markets) \in Nat
        /\ SumFunctionOnSet(Load, Markets) \in Nat
        /\ SumFunctionOnSet(Slack, Markets) \in Nat
    BY <1>1, <1>2, <1>3, SumIsNatural
  <2> QED
    BY <1>1, <2>1, <2>2 DEF ExposureInv, AccountBounded
<1>5. CASE \E d \in Markets : \E target \in Targets(d) :
              target > 0 /\ UNCHANGED <<yes, no, due, rest, bids>>
  <2>0. PICK d \in Markets : \E target \in Targets(d) :
           target > 0 /\ UNCHANGED <<yes, no, due, rest, bids>>
    BY <1>5
  <2>1. PICK target \in Targets(d) : target > 0 /\ UNCHANGED <<yes, no, due, rest, bids>>
    BY <2>0
  <2> DEFINE seen == [m \in Markets |-> Gross[m] + bids[m]]
  <2>2. \A m \in Markets : seen[m] = Gross[m] + bids[m] /\ seen[m] \in Nat
    BY <1>2
  <2>3. ASSUME NEW m \in Markets  PROVE  Load'[m] <= seen[m] + Slack[m]
    <3>1. rest[m] <= bids[m] /\ due[m] <= MaxLate /\ want'[m] <= Stack[m]
      BY <1>1 DEF CapInv, OrdersFit
    <3>2. Load'[m] = yes[m] + no[m] + due[m] + rest[m] + want'[m] /\ want'[m] \in Nat
      BY <2>1 DEF Load, CapInv, TypeOK
    <3> QED
      BY <1>1, <2>2, <3>1, <3>2, ExposureTyped
  <2> HIDE DEF seen
  <2>4. SumFunctionOnSet(seen, Markets)
           = SumFunctionOnSet(Gross, Markets) + SumFunctionOnSet(bids, Markets)
    BY <1>1, <1>2, <2>2, SumAdds
  <2>5. SumFunctionOnSet(seen, Markets) < TotalCap
    <3>1. ~ReduceOnly(d)
      BY <2>1, TargetWithinCaps
    <3>2. /\ SumFunctionOnSet(Gross, Markets) \in Nat
          /\ SumFunctionOnSet(bids, Markets) \in Nat
      BY <1>1, <1>2, SumIsNatural
    <3> QED
      BY <1>1, <2>4, <3>1, <3>2 DEF ReduceOnly, TotalCommitted
  <2> QED
    BY <1>1, <1>2, <1>3, <2>2, <2>3, <2>5, SumWithin
<1> QED
  BY <1>1, <1>4, <1>5, LoadGrows

\* What the event's gate saw was below its cap, and each of its markets adds the
\* bids it has and its slack.
LEMMA GroupStep == ExposureInv /\ CapInv' /\ [Next]_vars => GroupBounded'
<1> SUFFICES ASSUME ExposureInv, CapInv', [Next]_vars, NEW e \in Markets,
                    GroupOf[e] # NoEvent
             PROVE  SumFunctionOnSet(Load', Group(e))
                       < GroupCap + SumFunctionOnSet(EventSlack, Group(e))
  BY DEF GroupBounded, EventSlack, Group
<1>1. /\ CapInv /\ IsFiniteSet(Group(e)) /\ Group(e) \subseteq Markets /\ GroupCap \in Nat
  BY CapsAssumption, GroupFinite DEF ExposureInv
<1>2. \A m \in Group(e) : Load[m] \in Nat /\ EventSlack[m] \in Nat /\ Gross[m] \in Nat
  BY <1>1, ExposureTyped
<1>3. \A m \in Group(e) : Load'[m] \in Nat
  BY <1>1, CapsAssumption DEF Load, CapInv, TypeOK
<1>4. CASE \A m \in Group(e) : Load'[m] <= Load[m]
  <2>1. SumFunctionOnSet(Load', Group(e)) <= SumFunctionOnSet(Load, Group(e))
    BY <1>1, <1>2, <1>3, <1>4, SumGrows
  <2>2. /\ SumFunctionOnSet(Load', Group(e)) \in Nat
        /\ SumFunctionOnSet(Load, Group(e)) \in Nat
        /\ SumFunctionOnSet(EventSlack, Group(e)) \in Nat
    BY <1>1, <1>2, <1>3, SumIsNatural
  <2> QED
    BY <1>1, <2>1, <2>2 DEF ExposureInv, GroupBounded
<1>5. CASE \E d \in Group(e) : \E target \in Targets(d) :
              target > 0 /\ UNCHANGED <<yes, no, due, rest, bids>>
  <2>0. PICK d \in Group(e) : \E target \in Targets(d) :
           target > 0 /\ UNCHANGED <<yes, no, due, rest, bids>>
    BY <1>5
  <2>1. PICK target \in Targets(d) : target > 0 /\ UNCHANGED <<yes, no, due, rest, bids>>
    BY <2>0
  <2>2. d \in Markets /\ GroupOf[d] # NoEvent /\ Group(d) = Group(e)
    BY DEF Group
  <2>3. ASSUME NEW m \in Group(e)  PROVE  Load'[m] <= Gross[m] + EventSlack[m]
    <3>1. /\ rest[m] <= bids[m] /\ bids[m] <= Stack[m]
          /\ due[m] <= MaxLate /\ want'[m] <= Stack[m]
      BY <1>1 DEF CapInv, OrdersFit
    <3>2. Load'[m] = yes[m] + no[m] + due[m] + rest[m] + want'[m] /\ want'[m] \in Nat
      BY <1>1, <2>1 DEF Load, CapInv, TypeOK
    <3> QED
      BY <1>1, <3>1, <3>2, ExposureTyped
  <2>4. SumFunctionOnSet(Gross, Group(e)) < GroupCap
    <3>1. ~ReduceOnly(d)
      BY <2>1, <2>2, TargetWithinCaps
    <3>2. SumFunctionOnSet(Gross, Group(e)) \in Nat
      BY <1>1, <1>2, SumIsNatural
    <3> QED
      BY <1>1, <2>2, <3>1, <3>2 DEF ReduceOnly, GroupCost
  <2> QED
    BY <1>1, <1>2, <1>3, <2>3, <2>4, SumWithin
<1>6. \/ \A m \in Group(e) : Load'[m] <= Load[m]
      \/ \E d \in Group(e) : \E target \in Targets(d) :
            target > 0 /\ UNCHANGED <<yes, no, due, rest, bids>>
  <2>1. CASE \A m \in Markets : Load'[m] <= Load[m]
    BY <1>1, <2>1
  <2>2. ASSUME NEW d \in Markets, NEW target \in Targets(d), target > 0,
               UNCHANGED <<yes, no, due, rest, bids>>,
               \A m \in Markets \ {d} : Load'[m] = Load[m]
        PROVE  <1>6!1 \/ <1>6!2
    <3>1. CASE d \in Group(e)
      BY <2>2, <3>1
    <3>2. CASE d \notin Group(e)
      BY <1>1, <1>2, <2>2, <3>2
    <3> QED
      BY <3>1, <3>2
  <2> QED
    BY <1>1, <2>1, <2>2, LoadGrows
<1> QED
  BY <1>4, <1>5, <1>6

\* Every step keeps the invariant across the markets.
LEMMA ExposureStep == ExposureInv /\ [Next]_vars => ExposureInv'
  BY CapInvStep, AccountStep, GroupStep DEF ExposureInv

-----------------------------------------------------------------------------
(***************************************************************************)
(* Theorems                                                                *)
(***************************************************************************)
\* The inductive invariant of a market's quoter and the gate it passes: what rests
\* is known locally, and held, late, resting and wanted together were decided below
\* the cap.
THEOREM CapInvariant == Spec => []CapInv
  BY CapInvInit, CapInvStep, PTL DEF Spec

\* No resting, late or filled size is ever negative: the order message and the
\* trade message each take a fill from what it is due from, once.
THEOREM TypeCorrect == Spec => []TypeOK
<1>1. CapInv => TypeOK
  BY DEF CapInv
<1> QED
  BY <1>1, CapInvariant, PTL

\* evaluate together with the quoter, on_trade and on_order: for any stacks, caps
\* and number of markets, in whatever order the two messages of a fill arrive, the
\* heavier outcome of a market with all that may still become inventory of it stays
\* below its cap plus one stack, what may be late, and the pairs netted out when
\* the quoter last decided.
THEOREM MarketAlwaysBounded == Spec => []MarketBounded
<1>1. CapInv => MarketBounded
  <2> SUFFICES ASSUME CapInv, NEW m \in Markets
               PROVE  yes[m] + no[m] - Pairs(m) + due[m] + rest[m]
                         < MarketCap + Stack[m] + MaxLate + netted[m]
    BY DEF MarketBounded
  <2>1. Bag(m) + want[m] < MarketCap + Stack[m] + MaxLate + netted[m]
    BY DEF CapInv, BagBounded
  <2>2. /\ yes[m] \in Nat /\ no[m] \in Nat /\ Pairs(m) \in Nat
        /\ due[m] \in Nat /\ rest[m] \in Nat /\ want[m] \in Nat /\ netted[m] \in Nat
        /\ MarketCap \in Nat /\ Stack[m] \in Nat /\ MaxLate \in Nat
    BY CapsAssumption, PairsFit DEF CapInv, TypeOK
  <2> QED
    BY <2>1, <2>2 DEF Bag
<1> QED
  BY <1>1, CapInvariant, PTL

\* The inductive invariant of the gate across markets: held, late, resting and
\* decided notional together, of the account and of every event.
THEOREM ExposureInvariant == Spec => []ExposureInv
  BY ExposureInit, ExposureStep, PTL DEF Spec

\* evaluate across markets: however many quoters decide before any of them places,
\* and however late the trade messages, what the account holds, has coming and has
\* resting stays below its cap plus one stack and the late fills of every market.
THEOREM TotalAlwaysBounded == Spec => []TotalBounded
<1>1. ExposureInv => TotalBounded
  <2> SUFFICES ASSUME ExposureInv  PROVE  TotalBounded
    OBVIOUS
  <2> DEFINE exposed == [m \in Markets |-> yes[m] + no[m] + due[m] + rest[m]]
  <2>1. CapInv /\ IsFiniteSet(Markets) /\ TotalCap \in Nat
    BY CapsAssumption DEF ExposureInv
  <2>2. \A m \in Markets : /\ exposed[m] \in Nat /\ Load[m] \in Nat /\ Slack[m] \in Nat
                           /\ exposed[m] <= Load[m]
    BY <2>1, ExposureTyped
  <2> HIDE DEF exposed
  <2>3. SumFunctionOnSet(exposed, Markets) <= SumFunctionOnSet(Load, Markets)
    BY <2>1, <2>2, SumGrows
  <2>4. /\ SumFunctionOnSet(exposed, Markets) \in Nat
        /\ SumFunctionOnSet(Load, Markets) \in Nat
        /\ SumFunctionOnSet(Slack, Markets) \in Nat
    BY <2>1, <2>2, SumIsNatural
  <2>5. SumFunctionOnSet(exposed, Markets) < TotalCap + SumFunctionOnSet(Slack, Markets)
    BY <2>1, <2>3, <2>4 DEF ExposureInv, AccountBounded
  <2> QED
    BY <2>5 DEF TotalBounded, Slack, exposed
<1> QED
  BY <1>1, ExposureInvariant, PTL

EventBounded ==
    \A e \in Markets : GroupOf[e] # NoEvent =>
        SumFunctionOnSet([m \in Markets |-> yes[m] + no[m] + due[m] + rest[m]], Group(e))
            < GroupCap + SumFunctionOnSet([m \in Markets |-> 2 * Stack[m] + MaxLate], Group(e))

\* evaluate across the markets of an event, whose cap counts no bids: what they
\* hold, have coming and have resting still stays below it plus two stacks and the
\* late fills of every one of them.
THEOREM EventAlwaysBounded == Spec => []EventBounded
<1>1. ExposureInv => EventBounded
  <2> SUFFICES ASSUME ExposureInv, NEW e \in Markets, GroupOf[e] # NoEvent
               PROVE  SumFunctionOnSet([m \in Markets |-> yes[m] + no[m] + due[m] + rest[m]],
                                       Group(e))
                         < GroupCap + SumFunctionOnSet(EventSlack, Group(e))
    BY DEF EventBounded, EventSlack
  <2> DEFINE exposed == [m \in Markets |-> yes[m] + no[m] + due[m] + rest[m]]
  <2>1. CapInv /\ IsFiniteSet(Group(e)) /\ Group(e) \subseteq Markets /\ GroupCap \in Nat
    BY CapsAssumption, GroupFinite DEF ExposureInv
  <2>2. \A m \in Group(e) : /\ exposed[m] \in Nat /\ Load[m] \in Nat /\ EventSlack[m] \in Nat
                            /\ exposed[m] <= Load[m]
    BY <2>1, ExposureTyped
  <2> HIDE DEF exposed
  <2>3. SumFunctionOnSet(exposed, Group(e)) <= SumFunctionOnSet(Load, Group(e))
    BY <2>1, <2>2, SumGrows
  <2>4. /\ SumFunctionOnSet(exposed, Group(e)) \in Nat
        /\ SumFunctionOnSet(Load, Group(e)) \in Nat
        /\ SumFunctionOnSet(EventSlack, Group(e)) \in Nat
    BY <2>1, <2>2, SumIsNatural
  <2>5. SumFunctionOnSet(exposed, Group(e))
           < GroupCap + SumFunctionOnSet(EventSlack, Group(e))
    BY <2>1, <2>3, <2>4 DEF ExposureInv, GroupBounded
  <2> QED
    BY <2>5 DEF exposed
<1> QED
  BY <1>1, ExposureInvariant, PTL
=============================================================================
