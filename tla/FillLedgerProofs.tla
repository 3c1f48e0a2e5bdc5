-------------------------- MODULE FillLedgerProofs --------------------------
(***************************************************************************)
(* What holds of FillLedger for every set of trades and tokens, every size *)
(* and any number of restarts.                                             *)
(***************************************************************************)
EXTENDS FillLedger, FiniteLemmas, TLAPS

-----------------------------------------------------------------------------
(***************************************************************************)
(* Type correctness                                                        *)
(***************************************************************************)
\* A fill leaves a size that is a natural number: sells are floored at zero.
LEMMA MovedType ==
    ASSUME NEW size \in Nat, NEW side, NEW n \in Nat
    PROVE  Moved(size, side, n) \in Nat
BY DEF Moved

\* Applying a fill keeps the types of memory and table.
LEMMA MovePositionType ==
    ASSUME TypeOK, NEW tr \in Trades, NEW side, MovePosition(tr, side)
    PROVE  /\ pos' \in [Tokens -> Nat]
           /\ disk' \in [Tokens -> Nat]
           /\ lastFill' \in [Tokens -> Trades \cup {None}]
<1>1. TokenOf[tr] \in Tokens /\ SizeOf[tr] \in Nat
  BY LedgerAssumption
<1>2. pos[TokenOf[tr]] \in Nat
  BY <1>1 DEF TypeOK
<1>3. Moved(pos[TokenOf[tr]], side, SizeOf[tr]) \in Nat
  BY <1>1, <1>2, MovedType
<1>4. QED
  BY <1>1, <1>3 DEF MovePosition, TypeOK

\* Releasing a guard keeps the counters natural numbers.
LEMMA ClearInflightType ==
    ASSUME TypeOK, NEW tok \in Tokens, ClearInflight(tok)
    PROVE  inflight' \in [Tokens -> Nat] /\ aged' \subseteq Tokens
BY DEF TypeOK, ClearInflight

\* A new process starts with well-typed memory.
LEMMA BootType ==
    ASSUME TypeOK, Boot
    PROVE  /\ pos' \in [Tokens -> Nat]
           /\ disk' \in [Tokens -> Nat]
           /\ inflight' \in [Tokens -> Nat]
           /\ aged' \subseteq Tokens
           /\ lastFill' \in [Tokens -> Trades \cup {None}]
           /\ applied' \subseteq Trades
           /\ booked' \in [Trades -> Int]
           /\ clock' \subseteq Tokens
           /\ rc' \in {"idle", "positions", "round", "chain"}
           /\ view' \in [Tokens -> Nat] \cup {None}
           /\ probe' \subseteq Tokens
           /\ restarts' \in 0 .. MaxRestarts
BY LedgerAssumption DEF TypeOK, Boot, SeedClocks

\* TypeOK: every variable keeps its type in every reachable state.
THEOREM TypeCorrect == Spec => []TypeOK
<1>1. Init => TypeOK
  BY LedgerAssumption DEF Init, TypeOK
<1>2. TypeOK /\ [Next]_vars => TypeOK'
  <2> SUFFICES ASSUME TypeOK, [Next]_vars
               PROVE  TypeOK'
    OBVIOUS
  <2>1. ASSUME NEW tr \in Trades, Match(tr)
        PROVE  TypeOK'
    BY <2>1 DEF Match, TypeOK, dbVars, memVars, loopVars
  <2>2. ASSUME NEW tr \in Trades, NEW outcome \in Outcomes, Finish(tr, outcome)
        PROVE  TypeOK'
    <3>1. chain[TokenOf[tr]] \in Nat /\ TokenOf[tr] \in Tokens /\ SizeOf[tr] \in Nat
      BY LedgerAssumption DEF TypeOK
    <3>2. Moved(chain[TokenOf[tr]], SideOf[tr], SizeOf[tr]) \in Nat
      BY <3>1, MovedType
    <3>3. chain' \in [Tokens -> Nat]
      BY <2>2, <3>1, <3>2 DEF Finish, TypeOK
    <3>4. QED
      BY <2>2, <3>3 DEF Finish, TypeOK, dbVars, memVars, loopVars
  <2>3. ASSUME NEW tr \in Trades, GraceLapses(tr)
        PROVE  TypeOK'
    BY <2>3 DEF GraceLapses, TypeOK, dbVars, memVars, loopVars
  <2>4. ASSUME NEW tr \in Trades, OnMatched(tr)
        PROVE  TypeOK'
    <3>1. TokenOf[tr] \in Tokens
      BY LedgerAssumption
    <3>2. /\ pos' \in [Tokens -> Nat]
          /\ disk' \in [Tokens -> Nat]
          /\ lastFill' \in [Tokens -> Trades \cup {None}]
      BY <2>4, MovePositionType DEF OnMatched
    <3>3. /\ inflight' \in [Tokens -> Nat]
          /\ booked' \in [Trades -> Int]
          /\ clock' \subseteq Tokens
          /\ row' \in [Trades -> {"absent", "MATCHED", "CONFIRMED"}]
          /\ applied' \subseteq Trades
      BY <2>4, <3>1 DEF OnMatched, SyncClock, TypeOK
    <3>4. QED
      BY <2>4, <3>2, <3>3 DEF OnMatched, TypeOK, exchVars, loopVars
  <2>5. ASSUME NEW tr \in Trades, OnConfirmed(tr)
        PROVE  TypeOK'
    <3>1. inflight' \in [Tokens -> Nat] /\ aged' \subseteq Tokens
      BY <2>5, ClearInflightType, LedgerAssumption DEF OnConfirmed
    <3>2. QED
      BY <2>5, <3>1 DEF OnConfirmed, TypeOK, exchVars, loopVars
  <2>6. ASSUME NEW tr \in Trades, OnFailedTracked(tr)
        PROVE  TypeOK'
    <3>1. /\ pos' \in [Tokens -> Nat]
          /\ disk' \in [Tokens -> Nat]
          /\ lastFill' \in [Tokens -> Trades \cup {None}]
      BY <2>6, MovePositionType DEF OnFailedTracked, TypeOK
    <3>2. inflight' \in [Tokens -> Nat] /\ aged' \subseteq Tokens
      BY <2>6, ClearInflightType, LedgerAssumption DEF OnFailedTracked, TypeOK
    <3>3. booked' \in [Trades -> Int] /\ reversed' \subseteq Trades
      BY <2>6 DEF OnFailedTracked, TypeOK
    <3>4. QED
      BY <2>6, <3>1, <3>2, <3>3 DEF OnFailedTracked, TypeOK, exchVars, loopVars
  <2>7. ASSUME NEW tr \in Trades, OnFailedUntracked(tr)
        PROVE  TypeOK'
    <3>1. /\ pos' \in [Tokens -> Nat]
          /\ disk' \in [Tokens -> Nat]
          /\ lastFill' \in [Tokens -> Trades \cup {None}]
      BY <2>7, MovePositionType DEF OnFailedUntracked, TypeOK
    <3>2. inflight' \in [Tokens -> Nat] /\ aged' \subseteq Tokens
      BY <2>7, ClearInflightType, LedgerAssumption DEF OnFailedUntracked
    <3>3. reversed' \subseteq Trades
      BY <2>7 DEF OnFailedUntracked, TypeOK
    <3>4. QED
      BY <2>7, <3>1, <3>2, <3>3 DEF OnFailedUntracked, TypeOK, exchVars, loopVars
  <2>8. ASSUME NEW tr \in Trades, TornMatch(tr)
        PROVE  TypeOK'
    BY <2>8, BootType DEF TornMatch, TypeOK, exchVars
  <2>9. ASSUME NEW tr \in Trades, TornReversal(tr)
        PROVE  TypeOK'
    BY <2>9, BootType DEF TornReversal, TypeOK, exchVars
  <2>10. CASE Restart
    BY <2>10, BootType DEF Restart, TypeOK, exchVars
  <2>11. ASSUME NEW tok \in Tokens, IndexPosition(tok)
         PROVE  TypeOK'
    BY <2>11 DEF IndexPosition, TypeOK, dbVars, memVars, loopVars
  <2>12. ASSUME NEW tok \in Tokens, GuardAges(tok)
         PROVE  TypeOK'
    BY <2>12 DEF GuardAges, TypeOK, exchVars, dbVars, loopVars
  <2>13. CASE StartRound
    BY <2>13 DEF StartRound, LeftAfterExpiry, TypeOK, exchVars, dbVars
  <2>14. CASE ServePositions \/ ServeBalances
    BY <2>14 DEF ServePositions, ServeBalances, TypeOK, exchVars, dbVars, memVars
  <2>15. CASE ReconcilePositions \/ ForceDivergent
    BY <2>15 DEF ReconcilePositions, ForceDivergent, TypeOK, exchVars
  <2>16. CASE PositionsUnreadable \/ EndRound \/ StartDivergence \/ BalancesUnreadable
    BY <2>16 DEF PositionsUnreadable, EndRound, StartDivergence,
                 BalancesUnreadable, TypeOK, exchVars, dbVars, memVars
  <2>17. CASE UNCHANGED vars
    BY <2>17 DEF vars, exchVars, dbVars, memVars, loopVars, TypeOK
  <2>18. QED
    BY <2>1, <2>2, <2>3, <2>4, <2>5, <2>6, <2>7, <2>8, <2>9, <2>10, <2>11,
       <2>12, <2>13, <2>14, <2>15, <2>16, <2>17 DEF Next, UserEvent, ReconcileLoop
<1>3. QED
  BY <1>1, <1>2, PTL DEF Spec

-----------------------------------------------------------------------------
(***************************************************************************)
(* Cash and inventory move together                                        *)
(***************************************************************************)
\* BooksInv is inductive where BooksBalance is not: without its last conjunct a
\* FAILED that finds the trade outside _applied could reverse inventory and
\* leave the cash.
THEOREM BooksInvariant == Spec => []BooksInv
<1>1. Init => BooksInv
  BY DEF Init, BooksInv, BooksBalance
<1>2. TypeOK /\ BooksInv /\ [Next]_vars => BooksInv'
  <2> SUFFICES ASSUME TypeOK, BooksInv, [Next]_vars
               PROVE  BooksInv'
    OBVIOUS
  <2> USE DEF BooksInv, BooksBalance, TypeOK
  <2>1. ASSUME UNCHANGED <<row, reversed, applied, booked>>
        PROVE  BooksInv'
    BY <2>1
  <2>2. ASSUME NEW tr \in Trades, OnMatched(tr)
        PROVE  BooksInv'
    BY <2>2 DEF OnMatched, FirstSight
  <2>3. ASSUME NEW tr \in Trades, OnConfirmed(tr)
        PROVE  BooksInv'
    BY <2>3 DEF OnConfirmed
  <2>4. ASSUME NEW tr \in Trades, OnFailedTracked(tr)
        PROVE  BooksInv'
    BY <2>4 DEF OnFailedTracked
  <2>5. ASSUME NEW tr \in Trades, OnFailedUntracked(tr)
        PROVE  BooksInv'
    BY <2>5 DEF OnFailedUntracked, Reversible
  <2>6. ASSUME NEW tr \in Trades, TornMatch(tr) \/ TornReversal(tr)
        PROVE  BooksInv'
    BY <2>6 DEF TornMatch, TornReversal, Boot, Reversible
  <2>7. CASE Restart
    BY <2>7 DEF Restart, Boot
  <2>8. ASSUME NEW tr \in Trades,
               \/ Match(tr)
               \/ \E outcome \in Outcomes : Finish(tr, outcome)
               \/ GraceLapses(tr)
        PROVE  BooksInv'
    BY <2>1, <2>8 DEF Match, Finish, GraceLapses, dbVars, memVars
  <2>9. ASSUME NEW tok \in Tokens, IndexPosition(tok) \/ GuardAges(tok)
        PROVE  BooksInv'
    BY <2>1, <2>9 DEF IndexPosition, GuardAges, dbVars, memVars
  <2>10. CASE ReconcileLoop
    BY <2>1, <2>10 DEF ReconcileLoop, StartRound, ServePositions,
         ReconcilePositions, PositionsUnreadable, EndRound, StartDivergence,
         ServeBalances, ForceDivergent, BalancesUnreadable, dbVars, memVars
  <2>11. CASE UNCHANGED vars
    BY <2>1, <2>11 DEF vars, dbVars, memVars
  <2>12. QED
    BY <2>2, <2>3, <2>4, <2>5, <2>6, <2>7, <2>8, <2>9, <2>10, <2>11
       DEF Next, UserEvent
<1>3. QED
  BY <1>1, <1>2, TypeCorrect, PTL DEF Spec

\* BooksBalance: whatever the order of MATCHED, CONFIRMED, FAILED, duplicates,
\* crashes and restarts, no process keeps the cash of a trade whose inventory
\* it reversed, nor counts a trade's cash twice.
THEOREM BooksAlwaysBalance == Spec => []BooksBalance
<1>1. BooksInv => BooksBalance
  BY DEF BooksInv
<1>2. QED
  BY <1>1, BooksInvariant, PTL

-----------------------------------------------------------------------------
(***************************************************************************)
(* The processor and the store implement TradeEffects                      *)
(***************************************************************************)
\* A step that leaves the fills table alone is a stuttering step of the books.
LEMMA EffectStutter ==
    ASSUME UNCHANGED <<row, reversed>>
    PROVE  UNCHANGED [tr \in Trades |-> EffectOf(tr)]
BY DEF EffectOf

\* A fills row goes in: the abstract Book.
LEMMA EffectBook ==
    ASSUME TypeOK, BooksInv, NEW tr \in Trades,
           row[tr] = "absent",
           row' = [row EXCEPT ![tr] = "MATCHED"],
           reversed' = reversed
    PROVE  TE!Book(tr)
BY DEF TypeOK, BooksInv, TE!Book, TE!Becomes, EffectOf

\* A reversal row goes in for a trade still recorded MATCHED: the abstract Undo.
LEMMA EffectUndo ==
    ASSUME TypeOK, NEW tr \in Trades,
           row[tr] = "MATCHED", tr \notin reversed,
           row' = row,
           reversed' = reversed \cup {tr}
    PROVE  TE!Undo(tr)
BY DEF TypeOK, TE!Undo, TE!Becomes, EffectOf

\* ImplementsTradeEffects: every trade is applied at most once, undone at most
\* once, and never undone once its row says CONFIRMED, for every schedule of
\* messages, crashes and restarts.
THEOREM LedgerImplementsTradeEffects == Spec => ImplementsTradeEffects
<1>1. Init => TE!EffectsInit
  BY DEF Init, TE!EffectsInit, EffectOf
<1>2. TypeOK /\ BooksInv /\ [Next]_vars
        => [TE!EffectsNext]_([tr \in Trades |-> EffectOf(tr)])
  <2> SUFFICES ASSUME TypeOK, BooksInv, [Next]_vars
               PROVE  \/ \E tr \in Trades : TE!Book(tr) \/ TE!Undo(tr) \/ TE!Settle(tr)
                      \/ UNCHANGED [tr \in Trades |-> EffectOf(tr)]
    BY DEF TE!EffectsNext
  <2>1. ASSUME NEW tr \in Trades, OnMatched(tr)
        PROVE  TE!Book(tr)
    BY <2>1, EffectBook DEF OnMatched, FirstSight
  <2>2. ASSUME NEW tr \in Trades, TornMatch(tr)
        PROVE  TE!Book(tr)
    BY <2>2, EffectBook DEF TornMatch
  <2>3. ASSUME NEW tr \in Trades, OnConfirmed(tr)
        PROVE  TE!Settle(tr) \/ UNCHANGED [t \in Trades |-> EffectOf(t)]
    <3>1. row' = [row EXCEPT ![tr] = IF @ = "absent" THEN @ ELSE "CONFIRMED"]
          /\ reversed' = reversed
      BY <2>3 DEF OnConfirmed
    <3>2. CASE row[tr] = "MATCHED" /\ tr \notin reversed
      BY <3>1, <3>2 DEF TypeOK, TE!Settle, TE!Becomes, EffectOf
    <3>3. CASE row[tr] # "MATCHED"
      <4>1. row' = row
        BY <3>1, <3>3 DEF TypeOK
      <4>2. QED
        BY <3>1, <4>1, EffectStutter
    <3>4. CASE row[tr] = "MATCHED" /\ tr \in reversed
      BY <3>1, <3>4 DEF TypeOK, EffectOf
    <3>5. QED
      BY <3>2, <3>3, <3>4
  <2>4. ASSUME NEW tr \in Trades, OnFailedTracked(tr)
        PROVE  TE!Undo(tr)
    <3>1. row[tr] = "MATCHED" /\ tr \notin reversed
      BY <2>4 DEF BooksInv, OnFailedTracked
    <3>2. QED
      BY <2>4, <3>1, EffectUndo DEF OnFailedTracked
  <2>5. ASSUME NEW tr \in Trades, OnFailedUntracked(tr)
        PROVE  TE!Undo(tr) \/ UNCHANGED [t \in Trades |-> EffectOf(t)]
    BY <2>5, EffectUndo, EffectStutter DEF OnFailedUntracked, Reversible
  <2>6. ASSUME NEW tr \in Trades, TornReversal(tr)
        PROVE  TE!Undo(tr)
    BY <2>6, EffectUndo DEF TornReversal, Reversible
  <2>7. CASE Restart
    BY <2>7, EffectStutter DEF Restart
  <2>8. ASSUME NEW tr \in Trades,
               \/ Match(tr)
               \/ \E outcome \in Outcomes : Finish(tr, outcome)
               \/ GraceLapses(tr)
        PROVE  UNCHANGED [t \in Trades |-> EffectOf(t)]
    BY <2>8, EffectStutter DEF Match, Finish, GraceLapses, dbVars
  <2>9. ASSUME NEW tok \in Tokens, IndexPosition(tok) \/ GuardAges(tok)
        PROVE  UNCHANGED [t \in Trades |-> EffectOf(t)]
    BY <2>9, EffectStutter DEF IndexPosition, GuardAges, dbVars
  <2>10. CASE ReconcileLoop
    BY <2>10, EffectStutter DEF ReconcileLoop, StartRound, ServePositions,
         ReconcilePositions, PositionsUnreadable, EndRound, StartDivergence,
         ServeBalances, ForceDivergent, BalancesUnreadable, dbVars
  <2>11. CASE UNCHANGED vars
    BY <2>11, EffectStutter DEF vars, dbVars
  <2>12. QED
    BY <2>1, <2>2, <2>3, <2>4, <2>5, <2>6, <2>7, <2>8, <2>9, <2>10, <2>11
       DEF Next, UserEvent
<1>3. QED
  BY <1>1, <1>2, TypeCorrect, BooksInvariant, PTL
     DEF Spec, ImplementsTradeEffects, TE!EffectsSpec

-----------------------------------------------------------------------------
(***************************************************************************)
(* In-flight guards are owned                                              *)
(***************************************************************************)
\* The trades of a token the processor holds.
Owners(tok) == {tr \in applied : TokenOf[tr] = tok}

\* A token has finitely many owners, so they can be counted.
LEMMA OwnersFinite ==
    ASSUME TypeOK, NEW tok \in Tokens
    PROVE  IsFiniteSet(Owners(tok)) /\ Cardinality(Owners(tok)) \in Nat
<1>1. Owners(tok) \subseteq Trades
  BY DEF TypeOK, Owners
<1>2. QED
  BY <1>1, LedgerAssumption, FS_Subset, FS_CardinalityType

\* Owners change only with _applied.
LEMMA OwnersUnchanged ==
    ASSUME applied' = applied, NEW tok \in Tokens
    PROVE  Owners(tok)' = Owners(tok)
BY DEF Owners

\* A trade the processor takes up gives its token one owner more.
LEMMA OwnersGain ==
    ASSUME TypeOK, NEW tr \in Trades, tr \notin applied,
           applied' = applied \cup {tr}, NEW tok \in Tokens
    PROVE  Cardinality(Owners(tok)') =
              Cardinality(Owners(tok)) + (IF TokenOf[tr] = tok THEN 1 ELSE 0)
<1>1. CASE TokenOf[tr] = tok
  <2>1. Owners(tok)' = Owners(tok) \cup {tr} /\ tr \notin Owners(tok)
    BY <1>1 DEF Owners
  <2>2. QED
    BY <1>1, <2>1, OwnersFinite, FS_AddElement
<1>2. CASE TokenOf[tr] # tok
  <2>1. Owners(tok)' = Owners(tok)
    BY <1>2 DEF Owners
  <2>2. QED
    BY <1>2, <2>1, OwnersFinite
<1>3. QED
  BY <1>1, <1>2

\* A trade the processor lets go leaves its token at least all owners but one,
\* and the other tokens all of theirs.
LEMMA OwnersLose ==
    ASSUME TypeOK, NEW tr \in Trades,
           applied' = applied \ {tr}, NEW tok \in Tokens
    PROVE  /\ Cardinality(Owners(tok)') \in Nat
           /\ Cardinality(Owners(tok)') >= Cardinality(Owners(tok)) - 1
           /\ TokenOf[tr] # tok => Cardinality(Owners(tok)') = Cardinality(Owners(tok))
<1>1. CASE tr \in Owners(tok)
  <2>1. Owners(tok)' = Owners(tok) \ {tr} /\ TokenOf[tr] = tok
    BY <1>1 DEF Owners
  <2>2. Cardinality(Owners(tok) \ {tr}) = Cardinality(Owners(tok)) - 1
    BY <1>1, OwnersFinite, FS_RemoveElement
  <2>3. IsFiniteSet(Owners(tok) \ {tr})
    BY OwnersFinite, FS_Subset
  <2>4. Cardinality(Owners(tok) \ {tr}) \in Nat
    BY <2>3, FS_CardinalityType
  <2>5. QED
    BY <2>1, <2>2, <2>4, OwnersFinite
<1>2. CASE tr \notin Owners(tok)
  <2>1. Owners(tok)' = Owners(tok)
    BY <1>2 DEF Owners
  <2>2. QED
    BY <2>1, OwnersFinite
<1>3. QED
  BY <1>1, <1>2

\* A release brings the guards of its token down with the owner it may lose.
LEMMA GuardsAfterRelease ==
    ASSUME TypeOK, GuardsAreOwned, NEW tr \in Trades,
           applied' = applied \ {tr}, ClearInflight(TokenOf[tr])
    PROVE  GuardsAreOwned'
<1> SUFFICES ASSUME NEW tok \in Tokens
             PROVE  inflight'[tok] <= Cardinality(Owners(tok)')
  BY DEF GuardsAreOwned, Owners
<1>1. inflight[tok] \in Nat /\ inflight[tok] <= Cardinality(Owners(tok))
  BY DEF TypeOK, GuardsAreOwned, Owners
<1>2. inflight'[tok] = IF tok = TokenOf[tr]
                       THEN (IF inflight[tok] > 0 THEN inflight[tok] - 1 ELSE 0)
                       ELSE inflight[tok]
  BY DEF TypeOK, ClearInflight
<1>3. QED
  BY <1>1, <1>2, OwnersLose, OwnersFinite

\* GuardsAreOwned: a token never has more guards than trades that are still
\* matched and unsettled, whatever the feed loses or repeats.
THEOREM GuardsAlwaysOwned == Spec => []GuardsAreOwned
<1>1. Init => GuardsAreOwned
  <2> SUFFICES ASSUME Init, NEW tok \in Tokens
               PROVE  0 <= Cardinality({tr \in {} : TokenOf[tr] = tok})
    BY DEF Init, GuardsAreOwned
  <2>1. {tr \in {} : TokenOf[tr] = tok} = {}
    OBVIOUS
  <2>2. QED
    BY <2>1, FS_EmptySet
<1>2. TypeOK /\ BooksInv /\ GuardsAreOwned /\ [Next]_vars => GuardsAreOwned'
  <2> SUFFICES ASSUME TypeOK, BooksInv, GuardsAreOwned, [Next]_vars
               PROVE  GuardsAreOwned'
    OBVIOUS
  <2>1. ASSUME UNCHANGED <<inflight, applied>>
        PROVE  GuardsAreOwned'
    BY <2>1 DEF GuardsAreOwned
  <2>2. ASSUME NEW tr \in Trades, OnMatched(tr)
        PROVE  GuardsAreOwned'
    <3> SUFFICES ASSUME NEW tok \in Tokens
                 PROVE  inflight'[tok] <= Cardinality(Owners(tok)')
      BY DEF GuardsAreOwned, Owners
    <3>1. inflight[tok] \in Nat /\ inflight[tok] <= Cardinality(Owners(tok))
      BY DEF TypeOK, GuardsAreOwned, Owners
    <3>2. inflight'[tok] = inflight[tok] + (IF TokenOf[tr] = tok THEN 1 ELSE 0)
      BY <2>2 DEF OnMatched, TypeOK
    <3>3. tr \notin applied /\ applied' = applied \cup {tr}
      BY <2>2 DEF OnMatched, FirstSight
    <3>4. QED
      BY <3>1, <3>2, <3>3, OwnersGain, OwnersFinite
  <2>3. ASSUME NEW tr \in Trades, OnConfirmed(tr)
        PROVE  GuardsAreOwned'
    BY <2>3, GuardsAfterRelease DEF OnConfirmed
  <2>4. ASSUME NEW tr \in Trades, OnFailedTracked(tr)
        PROVE  GuardsAreOwned'
    BY <2>4, GuardsAfterRelease DEF OnFailedTracked, BooksInv
  <2>5. ASSUME NEW tr \in Trades, OnFailedUntracked(tr)
        PROVE  GuardsAreOwned'
    <3>1. applied' = applied \ {tr}
      BY <2>5 DEF OnFailedUntracked
    <3>2. QED
      BY <2>5, <3>1, GuardsAfterRelease DEF OnFailedUntracked
  <2>6. ASSUME Boot
        PROVE  GuardsAreOwned'
    <3> SUFFICES ASSUME NEW tok \in Tokens
                 PROVE  0 <= Cardinality({tr \in {} : TokenOf[tr] = tok})
      BY <2>6 DEF Boot, GuardsAreOwned
    <3>1. {tr \in {} : TokenOf[tr] = tok} = {}
      OBVIOUS
    <3>2. QED
      BY <3>1, FS_EmptySet
  <2>7. CASE StartRound
    <3> SUFFICES ASSUME NEW tok \in Tokens
                 PROVE  inflight'[tok] <= Cardinality(Owners(tok)')
      BY DEF GuardsAreOwned, Owners
    <3>1. Owners(tok)' = Owners(tok)
      BY <2>7, OwnersUnchanged DEF StartRound
    <3>2. inflight'[tok] \in {0, inflight[tok]}
      BY <2>7 DEF StartRound, LeftAfterExpiry
    <3>3. inflight[tok] <= Cardinality(Owners(tok))
      BY DEF GuardsAreOwned, Owners
    <3>4. QED
      BY <3>1, <3>2, <3>3, OwnersFinite
  <2>8. ASSUME NEW tr \in Trades,
               \/ Match(tr)
               \/ \E outcome \in Outcomes : Finish(tr, outcome)
               \/ GraceLapses(tr)
        PROVE  GuardsAreOwned'
    BY <2>1, <2>8 DEF Match, Finish, GraceLapses, memVars
  <2>9. ASSUME NEW tok \in Tokens, IndexPosition(tok) \/ GuardAges(tok)
        PROVE  GuardsAreOwned'
    BY <2>1, <2>9 DEF IndexPosition, GuardAges, memVars
  <2>10. CASE ReconcileLoop
    BY <2>1, <2>7, <2>10 DEF ReconcileLoop, ServePositions,
         ReconcilePositions, PositionsUnreadable, EndRound, StartDivergence,
         ServeBalances, ForceDivergent, BalancesUnreadable, memVars
  <2>11. CASE UNCHANGED vars
    BY <2>1, <2>11 DEF vars, memVars
  <2>12. QED
    BY <2>2, <2>3, <2>4, <2>5, <2>6, <2>8, <2>9, <2>10, <2>11
       DEF Next, UserEvent, Restart, TornMatch, TornReversal
<1>3. QED
  BY <1>1, <1>2, TypeCorrect, BooksInvariant, PTL DEF Spec

-----------------------------------------------------------------------------
(***************************************************************************)
(* Inventory is what the fills add up to                                   *)
(***************************************************************************)
\* The books carry the trade.
Counts(tr) == EffectOf(tr) \in {"held", "settled"}

Share(tr, tok, side) == IF TokenOf[tr] = tok /\ SideOf[tr] = side THEN SizeOf[tr] ELSE 0

Filled(tok, side) == [tr \in Trades |-> IF Counts(tr) THEN Share(tr, tok, side) ELSE 0]

\* All that could be sold of a token in the run.
Sales(tok) == [tr \in Trades |-> Share(tr, tok, "SELL")]

FillsAddUp ==
    \A tok \in Tokens :
        /\ disk[tok] = pos[tok]
        /\ pos[tok] = Opening[tok] + SumFunction(Filled(tok, "BUY"))
                                   - SumFunction(Filled(tok, "SELL"))

\* What one trade adds to the sums.
LEMMA ShareType ==
    ASSUME NEW tr \in Trades, NEW tok \in Tokens, NEW side \in Sides
    PROVE  Share(tr, tok, side) \in Nat
BY LedgerAssumption DEF Share

LEMMA FilledType ==
    ASSUME NEW tok \in Tokens, NEW side \in Sides
    PROVE  /\ Filled(tok, side) \in [Trades -> Nat]
           /\ SumFunction(Filled(tok, side)) \in Nat
<1>1. Filled(tok, side) \in [Trades -> Nat]
  BY ShareType DEF Filled
<1>2. QED
  BY <1>1, LedgerAssumption, SumTyped

\* A trade that the books take up adds its share, one they give up takes it away.
LEMMA SumGains ==
    ASSUME NEW tr \in Trades, NEW tok \in Tokens, NEW side \in Sides,
           ~Counts(tr), Counts(tr)',
           \A other \in Trades \ {tr} : Counts(other)' <=> Counts(other)
    PROVE  SumFunction(Filled(tok, side))' = SumFunction(Filled(tok, side)) + Share(tr, tok, side)
<1>1. Filled(tok, side)' = [Filled(tok, side) EXCEPT ![tr] = Share(tr, tok, side)]
  BY DEF Filled
<1>2. Filled(tok, side)[tr] = 0
  BY DEF Filled
<1>3. SumFunction([Filled(tok, side) EXCEPT ![tr] = Share(tr, tok, side)])
        = SumFunction(Filled(tok, side)) - Filled(tok, side)[tr] + Share(tr, tok, side)
  <2> DEFINE f == Filled(tok, side)
             n == Share(tr, tok, side)
  <2>1. f \in [Trades -> Nat] /\ n \in Nat /\ IsFiniteSet(Trades)
    BY FilledType, ShareType, LedgerAssumption
  <2> HIDE DEF f, n
  <2>2. SumFunction([f EXCEPT ![tr] = n]) = SumFunction(f) - f[tr] + n
    BY <2>1, SumUpdated
  <2>3. QED
    BY <2>2 DEF f, n
<1>4. SumFunction(Filled(tok, side)) \in Nat /\ Share(tr, tok, side) \in Nat
  BY FilledType, ShareType
<1>5. QED
  BY <1>1, <1>2, <1>3, <1>4

LEMMA SumLoses ==
    ASSUME NEW tr \in Trades, NEW tok \in Tokens, NEW side \in Sides,
           Counts(tr), ~Counts(tr)',
           \A other \in Trades \ {tr} : Counts(other)' <=> Counts(other)
    PROVE  SumFunction(Filled(tok, side))' = SumFunction(Filled(tok, side)) - Share(tr, tok, side)
<1>1. Filled(tok, side)' = [Filled(tok, side) EXCEPT ![tr] = 0]
  BY DEF Filled
<1>2. Filled(tok, side)[tr] = Share(tr, tok, side)
  BY DEF Filled
<1>3. SumFunction([Filled(tok, side) EXCEPT ![tr] = 0])
        = SumFunction(Filled(tok, side)) - Filled(tok, side)[tr] + 0
  <2> DEFINE f == Filled(tok, side)
  <2>1. f \in [Trades -> Nat] /\ 0 \in Nat /\ IsFiniteSet(Trades)
    BY FilledType, LedgerAssumption
  <2> HIDE DEF f
  <2>2. SumFunction([f EXCEPT ![tr] = 0]) = SumFunction(f) - f[tr] + 0
    BY <2>1, SumUpdated
  <2>3. QED
    BY <2>2 DEF f
<1>4. SumFunction(Filled(tok, side)) \in Nat /\ Share(tr, tok, side) \in Nat
  BY FilledType, ShareType
<1>5. QED
  BY <1>1, <1>2, <1>3, <1>4

LEMMA SumStays ==
    ASSUME NEW tok \in Tokens, NEW side \in Sides,
           \A tr \in Trades : Counts(tr)' <=> Counts(tr)
    PROVE  SumFunction(Filled(tok, side))' = SumFunction(Filled(tok, side))
<1>1. Filled(tok, side)' = Filled(tok, side)
  BY DEF Filled
<1>2. QED
  BY <1>1

\* Applying a fill: the floor of a sell is not reached when the opening covers all
\* sales.
LEMMA BookAddsUp ==
    ASSUME TypeOK, FillsAddUp, NEW tr \in Trades,
           \A tok \in Tokens : SumFunction(Sales(tok)) <= Opening[tok],
           ~Counts(tr), Counts(tr)',
           \A other \in Trades \ {tr} : Counts(other)' <=> Counts(other),
           MovePosition(tr, SideOf[tr])
    PROVE  FillsAddUp'
<1> SUFFICES ASSUME NEW tok \in Tokens
             PROVE  /\ disk'[tok] = pos'[tok]
                    /\ pos'[tok] = Opening[tok] + SumFunction(Filled(tok, "BUY"))'
                                               - SumFunction(Filled(tok, "SELL"))'
  BY DEF FillsAddUp
<1> DEFINE p == pos[tok]
           bought == SumFunction(Filled(tok, "BUY"))
           sold == SumFunction(Filled(tok, "SELL"))
           n == SizeOf[tr]
<1>1. /\ bought' = bought + Share(tr, tok, "BUY")
      /\ sold' = sold + Share(tr, tok, "SELL")
  BY SumGains DEF Sides
<1>2. bought \in Nat /\ sold \in Nat /\ sold' \in Nat
  BY <1>1, FilledType, ShareType DEF Sides
<1>3. sold' <= Opening[tok]
  <2>1. /\ Filled(tok, "SELL")' \in [Trades -> Nat] /\ Sales(tok) \in [Trades -> Nat]
        /\ \A other \in Trades : Filled(tok, "SELL")'[other] <= Sales(tok)[other]
    BY ShareType DEF Filled, Sales, Sides
  <2>2. sold' <= SumFunction(Sales(tok))
    BY <2>1, LedgerAssumption, SumBelow
  <2>3. SumFunction(Sales(tok)) \in Nat /\ Opening[tok] \in Nat
    BY <2>1, LedgerAssumption, SumTyped
  <2>4. SumFunction(Sales(tok)) <= Opening[tok]
    OBVIOUS
  <2> HIDE DEF sold
  <2>5. QED
    BY <1>2, <2>2, <2>3, <2>4
<1>4. /\ disk[tok] = p /\ p \in Nat /\ p = Opening[tok] + bought - sold
      /\ n \in Nat /\ Opening[tok] \in Nat
  BY LedgerAssumption DEF FillsAddUp, TypeOK
<1>5. /\ pos' = [pos EXCEPT ![TokenOf[tr]] = Moved(pos[TokenOf[tr]], SideOf[tr], n)]
      /\ disk' = [disk EXCEPT ![TokenOf[tr]] = Moved(pos[TokenOf[tr]], SideOf[tr], n)]
      /\ pos \in [Tokens -> Nat] /\ disk \in [Tokens -> Nat]
  BY DEF MovePosition, TypeOK
<1> HIDE DEF bought, sold, n, p
<1>6. CASE TokenOf[tr] # tok
  <2>1. Share(tr, tok, "BUY") = 0 /\ Share(tr, tok, "SELL") = 0
    BY <1>6 DEF Share
  <2>2. pos'[tok] = p /\ disk'[tok] = p
    BY <1>4, <1>5, <1>6 DEF p
  <2>3. QED
    BY <1>1, <1>2, <1>4, <2>1, <2>2 DEF bought, sold
<1>7. CASE TokenOf[tr] = tok /\ SideOf[tr] = "BUY"
  <2>1. Share(tr, tok, "BUY") = n /\ Share(tr, tok, "SELL") = 0
    BY <1>7 DEF Share, n
  <2>2. pos'[tok] = p + n /\ disk'[tok] = p + n
    BY <1>4, <1>5, <1>7 DEF p, Moved
  <2>3. bought' = bought + n /\ sold' = sold + 0
    BY <1>1, <2>1
  <2>4. pos'[tok] = Opening[tok] + bought' - sold' /\ disk'[tok] = pos'[tok]
    BY <1>2, <1>4, <2>2, <2>3
  <2>5. QED
    BY <2>4 DEF bought, sold
<1>8. CASE TokenOf[tr] = tok /\ SideOf[tr] = "SELL"
  <2>1. Share(tr, tok, "BUY") = 0 /\ Share(tr, tok, "SELL") = n
    BY <1>8 DEF Share, n
  <2>2. bought' = bought + 0 /\ sold' = sold + n
    BY <1>1, <2>1
  <2>3. p >= n
    BY <1>2, <1>3, <1>4, <2>2
  <2>4. pos'[tok] = p - n /\ disk'[tok] = p - n
    BY <1>4, <1>5, <1>8, <2>3 DEF p, Moved
  <2>5. pos'[tok] = Opening[tok] + bought' - sold' /\ disk'[tok] = pos'[tok]
    BY <1>2, <1>4, <2>2, <2>4
  <2>6. QED
    BY <2>5 DEF bought, sold
<1>9. SideOf[tr] \in {"BUY", "SELL"}
  BY LedgerAssumption DEF Sides
<1>10. QED
  BY <1>6, <1>7, <1>8, <1>9

\* Taking a fill back: a buy is still part of what is held.
LEMMA UndoAddsUp ==
    ASSUME TypeOK, FillsAddUp, NEW tr \in Trades,
           \A tok \in Tokens : SumFunction(Sales(tok)) <= Opening[tok],
           Counts(tr), ~Counts(tr)',
           \A other \in Trades \ {tr} : Counts(other)' <=> Counts(other),
           MovePosition(tr, Opposite(SideOf[tr]))
    PROVE  FillsAddUp'
<1> SUFFICES ASSUME NEW tok \in Tokens
             PROVE  /\ disk'[tok] = pos'[tok]
                    /\ pos'[tok] = Opening[tok] + SumFunction(Filled(tok, "BUY"))'
                                               - SumFunction(Filled(tok, "SELL"))'
  BY DEF FillsAddUp
<1> DEFINE p == pos[tok]
           bought == SumFunction(Filled(tok, "BUY"))
           sold == SumFunction(Filled(tok, "SELL"))
           n == SizeOf[tr]
<1>1. /\ bought' = bought - Share(tr, tok, "BUY")
      /\ sold' = sold - Share(tr, tok, "SELL")
  BY SumLoses DEF Sides
<1>2. bought \in Nat /\ sold \in Nat
  BY FilledType DEF Sides
<1>3. bought' \in Nat
  <2>1. Filled(tok, "BUY")' \in [Trades -> Nat]
    BY ShareType DEF Filled, Sides
  <2>2. QED
    BY <2>1, LedgerAssumption, SumTyped
<1>4. sold <= Opening[tok]
  <2>1. /\ Filled(tok, "SELL") \in [Trades -> Nat] /\ Sales(tok) \in [Trades -> Nat]
        /\ \A other \in Trades : Filled(tok, "SELL")[other] <= Sales(tok)[other]
    BY ShareType DEF Filled, Sales, Sides
  <2>2. sold <= SumFunction(Sales(tok))
    BY <2>1, LedgerAssumption, SumBelow
  <2>3. SumFunction(Sales(tok)) \in Nat /\ Opening[tok] \in Nat
    BY <2>1, LedgerAssumption, SumTyped
  <2>4. SumFunction(Sales(tok)) <= Opening[tok]
    OBVIOUS
  <2> HIDE DEF sold
  <2>5. QED
    BY <1>2, <2>2, <2>3, <2>4
<1>5. /\ disk[tok] = p /\ p \in Nat /\ p = Opening[tok] + bought - sold
      /\ n \in Nat /\ Opening[tok] \in Nat
  BY LedgerAssumption DEF FillsAddUp, TypeOK
<1>6. LET size == Moved(pos[TokenOf[tr]], Opposite(SideOf[tr]), n)
      IN  /\ pos' = [pos EXCEPT ![TokenOf[tr]] = size]
          /\ disk' = [disk EXCEPT ![TokenOf[tr]] = size]
          /\ pos \in [Tokens -> Nat] /\ disk \in [Tokens -> Nat]
  BY DEF MovePosition, TypeOK
<1> HIDE DEF bought, sold, n, p
<1>7. CASE TokenOf[tr] # tok
  <2>1. Share(tr, tok, "BUY") = 0 /\ Share(tr, tok, "SELL") = 0
    BY <1>7 DEF Share
  <2>2. pos'[tok] = p /\ disk'[tok] = p
    BY <1>5, <1>6, <1>7 DEF p
  <2>3. QED
    BY <1>1, <1>2, <1>5, <2>1, <2>2 DEF bought, sold
<1>8. CASE TokenOf[tr] = tok /\ SideOf[tr] = "BUY"
  <2>1. Share(tr, tok, "BUY") = n /\ Share(tr, tok, "SELL") = 0
    BY <1>8 DEF Share, n
  <2>2. bought' = bought - n /\ sold' = sold - 0
    BY <1>1, <2>1
  <2>3. p >= n
    BY <1>2, <1>3, <1>4, <1>5, <2>2
  <2>4. pos'[tok] = p - n /\ disk'[tok] = p - n
    BY <1>5, <1>6, <1>8, <2>3 DEF p, Moved, Opposite
  <2>5. pos'[tok] = Opening[tok] + bought' - sold' /\ disk'[tok] = pos'[tok]
    BY <1>2, <1>5, <2>2, <2>4
  <2>6. QED
    BY <2>5 DEF bought, sold
<1>9. CASE TokenOf[tr] = tok /\ SideOf[tr] = "SELL"
  <2>1. Share(tr, tok, "BUY") = 0 /\ Share(tr, tok, "SELL") = n
    BY <1>9 DEF Share, n
  <2>2. pos'[tok] = p + n /\ disk'[tok] = p + n
    BY <1>5, <1>6, <1>9 DEF p, Moved, Opposite
  <2>3. bought' = bought - 0 /\ sold' = sold - n
    BY <1>1, <2>1
  <2>4. pos'[tok] = Opening[tok] + bought' - sold' /\ disk'[tok] = pos'[tok]
    BY <1>2, <1>5, <2>2, <2>3
  <2>5. QED
    BY <2>4 DEF bought, sold
<1>10. SideOf[tr] \in {"BUY", "SELL"}
  BY LedgerAssumption DEF Sides
<1>11. QED
  BY <1>7, <1>8, <1>9, <1>10

\* Steps that change no row leave the sums; if they leave positions too, all is as it was.
LEMMA RestAddsUp ==
    ASSUME FillsAddUp, UNCHANGED <<pos, disk>>,
           \A tr \in Trades : Counts(tr)' <=> Counts(tr)
    PROVE  FillsAddUp'
BY SumStays DEF FillsAddUp, Sides

(* store.py, the docstring: "mirrored to SQLite on change so a crash-restart     *)
(* resumes".  Where both commits of a fill happen and no read overwrites it,     *)
(* inventory in memory and on disk is at any time what the run started with and  *)
(* what the fills that stand add up to, through any duplicates, reordering,      *)
(* reversals and restarts.  The opening covers what may be sold: a sell that     *)
(* overtakes its buy is floored at zero otherwise.                               *)
THEOREM FillsAlwaysAddUp ==
    ASSUME ~ReadsAnswer, ~TornCommits,
           \A tok \in Tokens : SumFunction(Sales(tok)) <= Opening[tok]
    PROVE  Spec => []FillsAddUp
<1> DEFINE Unread == view = None
<1>1. Init => Unread /\ FillsAddUp
  <2> SUFFICES ASSUME Init
               PROVE  /\ view = None
                      /\ \A tok \in Tokens :
                            /\ disk[tok] = pos[tok]
                            /\ pos[tok] = Opening[tok] + SumFunction(Filled(tok, "BUY"))
                                                       - SumFunction(Filled(tok, "SELL"))
    BY DEF FillsAddUp
  <2> SUFFICES ASSUME NEW tok \in Tokens
               PROVE  /\ view = None /\ disk[tok] = pos[tok]
                      /\ pos[tok] = Opening[tok] + SumFunction(Filled(tok, "BUY"))
                                                 - SumFunction(Filled(tok, "SELL"))
    BY DEF Init
  <2>1. \A tr \in Trades : ~Counts(tr)
    BY DEF Init, Counts, EffectOf
  <2>2. \A side \in Sides : Filled(tok, side) = [tr \in Trades |-> 0]
    BY <2>1 DEF Filled
  <2>3. \A side \in Sides : SumFunction(Filled(tok, side)) = 0
    BY <2>2, LedgerAssumption, SumOfZeros
  <2>4. QED
    BY <2>3, LedgerAssumption DEF Init, Sides
<1>2. Unread /\ [Next]_vars => Unread'
  BY DEF Next, UserEvent, OnMatched, OnConfirmed, OnFailedTracked, OnFailedUntracked,
         TornMatch, Match, Finish, GraceLapses, TornReversal, IndexPosition, GuardAges,
         ReconcileLoop, StartRound, ServePositions, ReconcilePositions, PositionsUnreadable,
         EndRound, StartDivergence, ServeBalances, ForceDivergent, BalancesUnreadable,
         Restart, Boot, vars, loopVars
<1>3. TypeOK /\ BooksInv /\ Unread /\ FillsAddUp /\ [Next]_vars => FillsAddUp'
  <2> SUFFICES ASSUME TypeOK, BooksInv, Unread, FillsAddUp, [Next]_vars
               PROVE  FillsAddUp'
    OBVIOUS
  <2>1. ASSUME UNCHANGED <<pos, disk, row, reversed>>
        PROVE  FillsAddUp'
    <3>1. \A tr \in Trades : Counts(tr)' <=> Counts(tr)
      BY <2>1 DEF Counts, EffectOf
    <3>2. QED
      BY <2>1, <3>1, RestAddsUp
  <2>2. ASSUME NEW tr \in Trades, OnMatched(tr)
        PROVE  FillsAddUp'
    <3>1. row[tr] = "absent" /\ row' = [row EXCEPT ![tr] = "MATCHED"] /\ reversed' = reversed
          /\ MovePosition(tr, SideOf[tr])
      BY <2>2 DEF OnMatched, FirstSight
    <3>2. ~Counts(tr) /\ Counts(tr)' /\ \A other \in Trades \ {tr} : Counts(other)' <=> Counts(other)
      BY <3>1 DEF Counts, EffectOf, TypeOK, BooksInv
    <3>3. QED
      BY <3>1, <3>2, BookAddsUp
  <2>3. ASSUME NEW tr \in Trades, OnConfirmed(tr)
        PROVE  FillsAddUp'
    <3>1. \A other \in Trades : Counts(other)' <=> Counts(other)
      BY <2>3 DEF OnConfirmed, Counts, EffectOf, TypeOK
    <3>2. QED
      BY <2>3, <3>1, RestAddsUp DEF OnConfirmed
  <2>4. ASSUME NEW tr \in Trades, row[tr] = "MATCHED", tr \notin reversed, row' = row,
               reversed' = reversed \cup {tr}, MovePosition(tr, Opposite(SideOf[tr]))
        PROVE  FillsAddUp'
    <3>1. Counts(tr) /\ ~Counts(tr)' /\ \A other \in Trades \ {tr} : Counts(other)' <=> Counts(other)
      BY <2>4 DEF Counts, EffectOf, TypeOK
    <3>2. QED
      BY <2>4, <3>1, UndoAddsUp
  <2>5. ASSUME NEW tr \in Trades, OnFailedTracked(tr)
        PROVE  FillsAddUp'
    <3>1. row[tr] = "MATCHED" /\ tr \notin reversed /\ row' = row
          /\ reversed' = reversed \cup {tr} /\ MovePosition(tr, Opposite(SideOf[tr]))
      BY <2>5 DEF OnFailedTracked, BooksInv
    <3>2. QED
      BY <2>4, <3>1
  <2>6. ASSUME NEW tr \in Trades, OnFailedUntracked(tr)
        PROVE  FillsAddUp'
    <3>1. CASE Reversible(tr)
      <4>1. row[tr] = "MATCHED" /\ tr \notin reversed /\ row' = row
            /\ reversed' = reversed \cup {tr} /\ MovePosition(tr, Opposite(SideOf[tr]))
        BY <2>6, <3>1 DEF OnFailedUntracked, Reversible
      <4>2. QED
        BY <2>4, <4>1
    <3>2. CASE ~Reversible(tr)
      <4>1. UNCHANGED <<pos, disk, row, reversed>>
        BY <2>6, <3>2 DEF OnFailedUntracked
      <4>2. QED
        BY <2>1, <4>1
    <3>3. QED
      BY <3>1, <3>2
  <2>7. CASE Restart
    <3>1. pos' = disk /\ disk' = disk /\ row' = row /\ reversed' = reversed
      BY <2>7 DEF Restart, Boot
    <3>2. pos' = pos
      <4>1. pos \in [Tokens -> Nat] /\ disk \in [Tokens -> Nat]
        BY DEF TypeOK
      <4>2. \A tok \in Tokens : disk[tok] = pos[tok]
        BY DEF FillsAddUp
      <4>3. disk = pos
        BY <4>1, <4>2
      <4>4. QED
        BY <3>1, <4>3
    <3>3. QED
      BY <2>1, <3>1, <3>2
  <2>8. ASSUME NEW tr \in Trades,
               \/ Match(tr)
               \/ \E outcome \in Outcomes : Finish(tr, outcome)
               \/ GraceLapses(tr)
        PROVE  FillsAddUp'
    BY <2>1, <2>8 DEF Match, Finish, GraceLapses, dbVars, memVars
  <2>9. ASSUME NEW tok \in Tokens, IndexPosition(tok) \/ GuardAges(tok)
        PROVE  FillsAddUp'
    BY <2>1, <2>9 DEF IndexPosition, GuardAges, dbVars, memVars
  <2>10. CASE ReconcileLoop
    BY <2>1, <2>10 DEF ReconcileLoop, StartRound, ServePositions,
         ReconcilePositions, PositionsUnreadable, EndRound, StartDivergence,
         ServeBalances, ForceDivergent, BalancesUnreadable, dbVars, memVars
  <2>11. CASE UNCHANGED vars
    BY <2>1, <2>11 DEF vars, dbVars, memVars
  <2>12. ASSUME NEW tr \in Trades, TornMatch(tr) \/ TornReversal(tr)
         PROVE  FillsAddUp'
    BY <2>12 DEF TornMatch, TornReversal
  <2>13. QED
    BY <2>2, <2>3, <2>5, <2>6, <2>7, <2>8, <2>9, <2>10, <2>11, <2>12 DEF Next, UserEvent
<1>4. QED
  BY <1>1, <1>2, <1>3, TypeCorrect, BooksInvariant, PTL DEF Spec
=============================================================================
