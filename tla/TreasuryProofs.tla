--------------------------- MODULE TreasuryProofs ---------------------------
(***************************************************************************)
(* Theorems about Treasury, for every size of the account, every limit and *)
(* every rhythm of the reconcile loop.                                     *)
(***************************************************************************)
EXTENDS Treasury, TLAPS

(***************************************************************************)
(* Types                                                                   *)
(***************************************************************************)

LEMMA BookFillTypes ==
  ASSUME TypeOK, NEW tok \in Tokens, NEW side \in Sides, NEW price \in Prices,
         BookFill(tok, side, price)
  PROVE  pos' \in [Tokens -> Nat] /\ netCash' \in Int /\ fresh' \subseteq Tokens
<1>1. Cost(side, price) \in Int /\ Shares(side) \in Int
  BY TreasuryAssumption DEF Cost, Shares, Prices, TreasuryAssumption
<1> QED BY <1>1 DEF TypeOK, BookFill

LEMMA FairValueTypes ==
  ASSUME TypeOK
  PROVE  [tok \in Tokens |-> FairValue(tok)] \in [Tokens -> Prices]
BY TreasuryAssumption DEF TypeOK, FairValue, Prices, TreasuryAssumption

LEMMA InventoryTypes ==
  ASSUME NEW size \in [Tokens -> Nat], NEW price \in [Tokens -> Prices]
  PROVE  Inventory(size, price) \in Nat
<1>1. /\ size["yes"] \in Nat /\ size["no"] \in Nat
      /\ price["yes"] \in Nat /\ price["no"] \in Nat
  BY TreasuryAssumption DEF Tokens, Prices, TreasuryAssumption
<1> QED BY <1>1 DEF Inventory

LEMMA WorthTypes ==
  ASSUME TypeOK
  PROVE  Worth \in Int /\ Equity \in Int
<1>1. Inventory(chain, [tok \in Tokens |-> FairValue(tok)]) \in Nat
  BY FairValueTypes, InventoryTypes DEF TypeOK
<1>2. Inventory(pos, mark) \in Nat
  BY InventoryTypes DEF TypeOK
<1> QED BY <1>1, <1>2 DEF TypeOK, Worth, Equity

LEMMA TypesAtFirst == Init => TypeOK
<1> SUFFICES ASSUME Init PROVE TypeOK
  OBVIOUS
<1>1. /\ cash \in Nat /\ chain \in [Tokens -> Nat] /\ fv \in Prices
      /\ mark \in [Tokens -> Prices] /\ pos \in [Tokens -> Nat]
  BY TreasuryAssumption DEF Init, Prices, TreasuryAssumption
<1>2. base \in Int
  BY <1>1, InventoryTypes DEF Init
<1>3. [tok \in Tokens |-> FairValue(tok)] \in [Tokens -> Prices]
  BY <1>1, TreasuryAssumption DEF FairValue, Prices, TreasuryAssumption
<1>4. origin \in Int
  BY <1>1, <1>3, InventoryTypes DEF Init, Worth
<1>5. round \in 0..(DayEvery - 1)
  BY TreasuryAssumption DEF Init, TreasuryAssumption
<1>6. flight \in [Trades -> TradeRecord \cup {Over}]
  BY DEF Init
<1>7. spent \in 0..MaxSpent /\ flow \in Int /\ netCash \in Int
  BY TreasuryAssumption DEF Init, TreasuryAssumption
<1> QED BY <1>1, <1>2, <1>4, <1>5, <1>6, <1>7 DEF Init, TypeOK

LEMMA MoreOfTypes ==
  ASSUME TypeOK, NEW kind, MoreOf(kind)
  PROVE  spent' \in 0..MaxSpent
<1>1. MaxSpent \in Nat
  BY TreasuryAssumption DEF TreasuryAssumption
<1> QED BY <1>1 DEF MoreOf, TypeOK

LEMMA TypesKept == TypeOK /\ [Next]_vars => TypeOK'
<1> SUFFICES ASSUME TypeOK, [Next]_vars PROVE TypeOK'
  OBVIOUS
<1> USE DEF account, ledger, loop, history
<1>0. /\ Limit \in Nat /\ Pay \in Nat /\ DayEvery \in Nat \ {0}
      /\ Averages \subseteq Prices
  BY TreasuryAssumption DEF TreasuryAssumption, Prices
<1>1. ASSUME NEW t \in Trades, NEW tok \in Tokens, NEW side \in Sides, Matched(t, tok, side)
      PROVE  TypeOK'
  <2>1. FairValue(tok) \in Prices
    BY FairValueTypes
  <2>2. pos' \in [Tokens -> Nat] /\ netCash' \in Int /\ fresh' \subseteq Tokens
    BY <1>1, <2>1, BookFillTypes DEF Matched
  <2>3. flight' \in [Trades -> TradeRecord \cup {Over}]
    BY <1>1, <2>1 DEF Matched, TypeOK, TradeRecord
  <2>4. spent' \in 0..MaxSpent
    BY <1>1, MoreOfTypes DEF Matched
  <2> QED BY <1>1, <2>2, <2>3, <2>4 DEF Matched, TypeOK
<1>2. ASSUME NEW t \in Trades, Settles(t) PROVE TypeOK'
  <2>1. flight[t] \in TradeRecord
    BY <1>2 DEF Settles, TypeOK
  <2>2. /\ flight[t].token \in Tokens /\ flight[t].side \in Sides
        /\ flight[t].price \in Prices
    BY <2>1 DEF TradeRecord
  <2>3. /\ Cost(flight[t].side, flight[t].price) \in Int
        /\ Shares(flight[t].side) \in Int
    BY <2>2 DEF Cost, Shares, Prices
  <2>4. chain' \in [Tokens -> Nat] /\ cash' \in Nat
    BY <1>2, <2>2, <2>3 DEF Settles, TypeOK
  <2> QED BY <1>2, <2>4 DEF Settles, TypeOK
<1>3. ASSUME NEW t \in Trades, Fails(t) PROVE TypeOK'
  <2>1. flight[t] \in TradeRecord
    BY <1>3 DEF Fails, TypeOK
  <2>2. /\ flight[t].token \in Tokens /\ flight[t].price \in Prices
        /\ Other(flight[t].side) \in Sides
    BY <2>1 DEF TradeRecord, Other, Sides
  <2>3. pos' \in [Tokens -> Nat] /\ netCash' \in Int /\ fresh' \subseteq Tokens
    BY <1>3, <2>2, BookFillTypes DEF Fails
  <2> QED BY <1>3, <2>3 DEF Fails, TypeOK
<1>4. CASE GraceLapses
  BY <1>4 DEF GraceLapses, TypeOK
<1>5. CASE Requote
  <2>1. mark' \in [Tokens -> Prices]
    BY <1>5, FairValueTypes DEF Requote
  <2>2. resting' \in BOOLEAN
    BY <1>5 DEF Requote
  <2> QED BY <1>5, <2>1, <2>2 DEF Requote, TypeOK
<1>6. CASE ServePositions
  BY <1>6 DEF ServePositions, Reading, TypeOK
<1>7. CASE ReconcilePositions
  BY <1>7 DEF ReconcilePositions, Corrected, AfterPositions, TypeOK
<1>8. CASE PositionsUnreadable
  BY <1>8, MoreOfTypes DEF PositionsUnreadable, AfterPositions, TypeOK
<1>9. CASE ServeCash
  BY <1>9 DEF ServeCash, Reading, TypeOK
<1>10. CASE ReconcileCash
  BY <1>10 DEF ReconcileCash, Snapped, TypeOK
<1>11. CASE CashUnreadable
  BY <1>11, MoreOfTypes DEF CashUnreadable, TypeOK
<1>12. CASE EndRound
  <2>1. round' \in 0..(DayEvery - 1)
    BY <1>0, <1>12 DEF EndRound, TypeOK
  <2>2. Worth \in Int /\ Equity \in Int /\ flow \in Int
    BY WorthTypes DEF TypeOK
  <2>3. base' \in Int /\ origin' \in Int /\ newDay' \in BOOLEAN
    <3>1. CASE round = 0 /\ newDay
      <4>1. base' = Equity /\ origin' = Worth - flow /\ newDay' = FALSE
        BY <1>12, <3>1, Zenon DEF EndRound
      <4>2. Worth - flow \in Int
        BY <2>2
      <4> QED BY <2>2, <4>1, <4>2, Zenon
    <3>2. CASE ~(round = 0 /\ newDay)
      BY <1>12, <3>2 DEF EndRound, TypeOK
    <3> QED BY <3>1, <3>2
  <2> QED BY <1>12, <2>1, <2>3 DEF EndRound, TypeOK
<1>13. CASE PriceMoves
  BY <1>13, MoreOfTypes DEF PriceMoves, TypeOK
<1>14. ASSUME NEW amount \in {-1, 1}, MoneyFlows(Limit * amount) PROVE TypeOK'
  <2>1. Limit * amount \in Int
    BY <1>0
  <2>2. cash' \in Nat /\ flow' \in Int
    BY <1>14, <2>1 DEF MoneyFlows, TypeOK
  <2>3. spent' \in 0..MaxSpent
    BY <1>14, MoreOfTypes DEF MoneyFlows
  <2> QED BY <1>14, <2>2, <2>3 DEF MoneyFlows, TypeOK
<1>15. CASE PairsMerge
  <2>1. spent' \in 0..MaxSpent
    BY <1>15, MoreOfTypes DEF PairsMerge
  <2>2. chain' \in [Tokens -> Nat] /\ cash' \in Nat
    BY <1>0, <1>15 DEF PairsMerge, TypeOK
  <2> QED BY <1>15, <2>1, <2>2 DEF PairsMerge, TypeOK
<1>16. CASE DayTurns
  BY <1>16, MoreOfTypes DEF DayTurns, TypeOK
<1>17. CASE Restart
  <2>1. mark' \in [Tokens -> Prices] /\ pos' \in [Tokens -> Nat]
    BY <1>0, <1>17 DEF Restart, TypeOK
  <2>2. base' \in Int
    BY <1>17, <2>1, InventoryTypes DEF Restart
  <2>3. origin' \in Int
    <3>1. Worth \in Int /\ flow \in Int
      BY WorthTypes DEF TypeOK
    <3> QED BY <1>17, <3>1 DEF Restart
  <2>5. spent' \in 0..MaxSpent
    BY <1>17, MoreOfTypes DEF Restart
  <2>4. round' \in 0..(DayEvery - 1)
    BY <1>0, <1>17 DEF Restart
  <2>6. /\ UNCHANGED <<account, flow>> /\ netCash' = 0 /\ rc' = "idle"
        /\ resting' = FALSE /\ fresh' = {} /\ newDay' = FALSE /\ calm' = FALSE
    BY <1>17 DEF Restart
  <2>7. netCash' \in Int /\ rc' \in {"idle", "positions", "cash", "counted", "end"}
    BY <2>6
  <2> QED BY <2>1, <2>2, <2>3, <2>4, <2>5, <2>6, <2>7 DEF TypeOK
<1>18. CASE UNCHANGED vars
  BY <1>18 DEF vars, TypeOK
<1> QED
  BY <1>1, <1>2, <1>3, <1>4, <1>5, <1>6, <1>7, <1>8, <1>9, <1>10, <1>11, <1>12,
     <1>13, <1>14, <1>15, <1>16, <1>17, <1>18
  DEF Next, Fills, ReconcileLoop, Environment

\* Types; in particular the account is never overdrawn and no size is negative.
THEOREM TypeCorrect == Spec => []TypeOK
BY TypesAtFirst, TypesKept, PTL DEF Spec

(***************************************************************************)
(* The baseline of a new day                                               *)
(***************************************************************************)

\* What a calm round has established by the time it gets to each of its steps.
CalmInv ==
  calm =>
    /\ fresh = {} /\ \A t \in Trades : flight[t] = Over
    /\ (rc = "positions") => view.data = chain
    /\ (rc \in {"cash", "counted", "end"}) => pos = chain
    /\ (rc = "counted") => view.data = cash
    /\ (rc = "end" /\ round % CashEvery = 0) => netCash = cash

LEMMA CalmKept == TypeOK /\ CalmInv /\ [Next]_vars => CalmInv'
<1> SUFFICES ASSUME TypeOK, CalmInv, [Next]_vars PROVE CalmInv'
  OBVIOUS
<1> USE DEF account, ledger, loop, history
<1>1. CASE \E t \in Trades : \/ \E tok \in Tokens, side \in Sides : Matched(t, tok, side)
                             \/ Settles(t)
                             \/ Fails(t)
  BY <1>1 DEF Matched, Settles, Fails, CalmInv
<1>2. CASE GraceLapses
  BY <1>2 DEF GraceLapses, CalmInv
<1>3. CASE Requote
  BY <1>3 DEF Requote, CalmInv
<1>4. CASE ServePositions
  BY <1>4 DEF ServePositions, Reading, CalmInv
<1>5. CASE ReconcilePositions
  <2>1. calm => pos' = chain
    <3>1. ASSUME calm PROVE \A tok \in Tokens : InFlight(tok) = {} /\ tok \notin fresh
      BY <3>1 DEF CalmInv, InFlight, Over, Tokens
    <3>2. ASSUME calm PROVE pos' = [tok \in Tokens |-> chain[tok]]
      BY <3>1, <3>2, <1>5 DEF ReconcilePositions, Corrected, CalmInv
    <3> QED BY <3>2 DEF TypeOK
  <2>2. rc' = "end" => round % CashEvery # 0
    BY <1>5 DEF ReconcilePositions, AfterPositions
  <2> QED BY <1>5, <2>1, <2>2 DEF ReconcilePositions, AfterPositions, CalmInv
<1>6. CASE PositionsUnreadable \/ CashUnreadable
  BY <1>6 DEF PositionsUnreadable, CashUnreadable, CalmInv
<1>7. CASE ServeCash
  BY <1>7 DEF ServeCash, Reading, CalmInv
<1>8. CASE ReconcileCash
  BY <1>8 DEF ReconcileCash, Snapped, CalmInv
<1>9. CASE EndRound
  BY <1>9 DEF EndRound, CalmInv
<1>10. CASE PriceMoves \/ DayTurns
  BY <1>10 DEF PriceMoves, DayTurns, CalmInv
<1>11. CASE PairsMerge \/ Restart \/ \E amount \in {-1, 1} : MoneyFlows(Limit * amount)
  BY <1>11 DEF PairsMerge, Restart, MoneyFlows, CalmInv
<1>12. CASE UNCHANGED vars
  BY <1>12 DEF vars, CalmInv
<1> QED
  BY <1>1, <1>2, <1>3, <1>4, <1>5, <1>6, <1>7, <1>8, <1>9, <1>10, <1>11, <1>12
  DEF Next, Fills, ReconcileLoop, Environment

\* A calm round that gets to its end has read positions and then cash, and both
\* local copies equal the account.
THEOREM CalmInvariant == Spec => [](TypeOK /\ CalmInv)
<1>1. Init => CalmInv
  BY DEF Init, CalmInv
<1> QED BY <1>1, CalmKept, TypesAtFirst, TypesKept, PTL DEF Spec

\* The baseline a new day sets in a calm round is what the account is worth.
THEOREM BaselineAlwaysWorth == Spec => BaselineIsWorth
<1>1. TypeOK /\ CalmInv /\ [Next]_vars
        => [ (EndRound /\ base' # base /\ calm /\ \A tok \in Tokens : mark[tok] = FairValue(tok))
               => base' = Worth ]_vars
  <2> SUFFICES ASSUME TypeOK, CalmInv, EndRound, base' # base, calm,
                      \A tok \in Tokens : mark[tok] = FairValue(tok)
               PROVE  base' = Worth
    OBVIOUS
  <2>1. rc = "end" /\ round = 0 /\ base' = Equity
    BY DEF EndRound
  <2>2. 0 % CashEvery = 0
    BY TreasuryAssumption DEF TreasuryAssumption
  <2>3. pos = chain /\ netCash = cash
    BY <2>1, <2>2 DEF CalmInv
  <2>4. Inventory(pos, mark) = Inventory(chain, [tok \in Tokens |-> FairValue(tok)])
    BY <2>3 DEF Inventory, Tokens
  <2> QED BY <2>1, <2>3, <2>4 DEF Equity, Worth
<1> QED BY <1>1, CalmInvariant, PTL DEF Spec, BaselineIsWorth
=============================================================================
