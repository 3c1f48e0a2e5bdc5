----------------------------- MODULE FillLedger -----------------------------
(***************************************************************************)
(* The inventory ledger of the market maker: StateStore (positions, the    *)
(* fills table, the in-flight guards), the UserEventProcessor that feeds   *)
(* it from the user websocket, the cash side of RiskManager, the hold      *)
(* clocks of the engine, and the two engine loops that overwrite positions *)
(* from outside: the REST reconcile and the on-chain divergence check.     *)
(*                                                                         *)
(* The exchange is environment.  A trade is matched, then settles or       *)
(* fails; its websocket events may be lost (never delivered), repeated and *)
(* reordered.  Handlers run on one asyncio thread and do not await, so a   *)
(* handler is one step; the loops await the network, so a read is three    *)
(* steps: the request, the server's answer, its application.               *)
(*                                                                         *)
(* Average prices, timestamps as numbers, logging and journalling are      *)
(* abstracted: no property here tells them apart.                          *)
(***************************************************************************)
EXTENDS Integers, FiniteSets

CONSTANTS
    Trades,        \* trade ids of our maker fills
    Tokens,        \* the outcome tokens we quote
    TokenOf,       \* TradeEvent.token_id
    SideOf,        \* TradeEvent.our_side
    SizeOf,        \* TradeEvent.size, in shares
    Opening,       \* shares held when the run starts
    Outcomes,      \* how the exchange may end a matched trade
    ReadsAnswer,   \* FALSE: the Data API and the RPCs are down for the run
    GuardsAge,     \* FALSE: no guard reaches the expiry age during the run
    TornCommits,   \* TRUE: a crash may fall between the commits of apply_fill
    MaxRestarts,   \* bound on the number of restarts
    None           \* Python's None: no timestamp recorded, no answer yet

Sides == {"BUY", "SELL"}

\* "contested": FAILED is announced and the trade settles all the same, the
\* case for which mark_fill_settled exists.
SettledOutcomes == {"confirmed", "contested"}

ASSUME LedgerAssumption ==
    /\ IsFiniteSet(Trades)
    /\ TokenOf \in [Trades -> Tokens]
    /\ SideOf \in [Trades -> Sides]
    /\ SizeOf \in [Trades -> Nat \ {0}]
    /\ Opening \in [Tokens -> Nat]
    /\ Outcomes \subseteq {"confirmed", "failed", "contested"}
    /\ ReadsAnswer \in BOOLEAN
    /\ GuardsAge \in BOOLEAN
    /\ TornCommits \in BOOLEAN
    /\ MaxRestarts \in Nat
    /\ None \notin Trades
    /\ None \notin [Tokens -> Nat]

VARIABLES
    \* the exchange
    ladder,      \* where each trade stands
    young,       \* trades matched less than _FILL_SETTLE_GRACE_S ago
    chain,       \* shares of the funder on the ledger contract
    api,         \* shares the Data API has indexed, possibly behind chain
    \* state.db
    row,         \* the fills table: absent, or the status column
    reversed,    \* trades whose "<id>:reverse" row is in the fills table
    disk,        \* the positions table
    \* memory of the process
    pos,         \* StateStore.positions
    inflight,    \* StateStore._inflight
    aged,        \* tokens whose _inflight_ts is past the expiry age
    lastFill,    \* the trade whose ts is in _last_fill_ts
    applied,     \* UserEventProcessor._applied
    booked,      \* signed number of note_fill calls made for each trade
    clock,       \* the keys of Engine._position_since
    \* the reconcile loop
    rc,          \* what the loop is awaiting
    view,        \* the answer on its way back to the loop
    probe,       \* the tokens the divergence check selected
    restarts

exchVars == <<ladder, young, chain, api>>
dbVars   == <<row, reversed, disk>>
memVars  == <<pos, inflight, aged, lastFill, applied, booked, clock>>
loopVars == <<rc, view, probe>>
vars     == <<exchVars, dbVars, memVars, loopVars, restarts>>

-----------------------------------------------------------------------------
(***************************************************************************)
(* Helpers                                                                 *)
(***************************************************************************)
Opposite(side) == IF side = "BUY" THEN "SELL" ELSE "BUY"

\* mutant: a sell of more than is held goes short.
MovedUnfloored(size, side, n) ==
    IF side = "BUY" THEN size + n ELSE size - n

\* The size after a fill; a sell never leaves less than zero shares.
Moved(size, side, n) ==
    IF side = "BUY" THEN size + n
    ELSE IF size >= n THEN size - n ELSE 0

\* Both halves of apply_fill after the row is in: memory, then the table.
MovePosition(tr, side) ==
    LET tok == TokenOf[tr]
        new == Moved(pos[tok], side, SizeOf[tr])
    IN  /\ pos' = [pos EXCEPT ![tok] = new]
        /\ disk' = [disk EXCEPT ![tok] = new]
        /\ lastFill' = [lastFill EXCEPT ![tok] = tr]

\* mutant: the release forgets the counter and only drops the timestamp.
ClearInflightNotCounted(tok) ==
    /\ UNCHANGED inflight
    /\ aged' = aged \ {tok}

\* clear_inflight: one guard fewer, and no timestamp once none is left.
ClearInflight(tok) ==
    /\ inflight' = [inflight EXCEPT ![tok] = IF @ > 0 THEN @ - 1 ELSE 0]
    /\ aged' = IF inflight[tok] <= 1 THEN aged \ {tok} ELSE aged

\* _guard_blocks: our optimistic view is newer than any REST read.
GuardBlocks(tok) == inflight[tok] > 0 \/ lastFill[tok] \in young

\* The websocket messages the exchange has produced for a trade.  MINED and
\* RETRYING change nothing in the processor and are left out.
Emitted(tr) ==
    CASE ladder[tr] = "none"      -> {}
      [] ladder[tr] = "matched"   -> {"MATCHED"}
      [] ladder[tr] = "confirmed" -> {"MATCHED", "CONFIRMED"}
      [] ladder[tr] = "failed"    -> {"MATCHED", "FAILED"}
      [] ladder[tr] = "contested" -> {"MATCHED", "FAILED", "CONFIRMED"}

-----------------------------------------------------------------------------
Init ==
    /\ ladder = [tr \in Trades |-> "none"]
    /\ young = {}
    /\ chain = Opening
    /\ api = Opening
    /\ row = [tr \in Trades |-> "absent"]
    /\ reversed = {}
    /\ disk = Opening
    /\ pos = Opening
    /\ inflight = [tok \in Tokens |-> 0]
    /\ aged = {}
    /\ lastFill = [tok \in Tokens |-> None]
    /\ applied = {}
    /\ booked = [tr \in Trades |-> 0]
    /\ clock = {tok \in Tokens : Opening[tok] > 0}
    /\ rc = "idle"
    /\ view = None
    /\ probe = {}
    /\ restarts = 0

-----------------------------------------------------------------------------
(***************************************************************************)
(* The exchange, the chain and the passage of time                         *)
(***************************************************************************)
Match(tr) ==
    /\ ladder[tr] = "none"
    /\ ladder' = [ladder EXCEPT ![tr] = "matched"]
    /\ young' = young \cup {tr}
    /\ UNCHANGED <<chain, api, dbVars, memVars, loopVars, restarts>>

\* A sell settles only out of shares the ledger contract holds.
Finish(tr, outcome) ==
    /\ ladder[tr] = "matched"
    /\ ladder' = [ladder EXCEPT ![tr] = outcome]
    /\ \/ /\ outcome \in SettledOutcomes
          /\ SideOf[tr] = "SELL" => chain[TokenOf[tr]] >= SizeOf[tr]
          /\ chain' = [chain EXCEPT ![TokenOf[tr]] =
                            Moved(@, SideOf[tr], SizeOf[tr])]
       \/ /\ outcome \notin SettledOutcomes
          /\ UNCHANGED chain
    /\ UNCHANGED <<young, api, dbVars, memVars, loopVars, restarts>>

\* The Data API indexes position changes asynchronously.
IndexPosition(tok) ==
    /\ api[tok] # chain[tok]
    /\ api' = [api EXCEPT ![tok] = chain[tok]]
    /\ UNCHANGED <<ladder, young, chain, dbVars, memVars, loopVars, restarts>>

GraceLapses(tr) ==
    /\ tr \in young
    /\ young' = young \ {tr}
    /\ UNCHANGED <<ladder, chain, api, dbVars, memVars, loopVars, restarts>>

GuardAges(tok) ==
    /\ GuardsAge
    /\ inflight[tok] > 0
    /\ tok \notin aged
    /\ aged' = aged \cup {tok}
    /\ UNCHANGED <<exchVars, dbVars, loopVars, restarts,
                   pos, inflight, lastFill, applied, booked, clock>>

-----------------------------------------------------------------------------
(***************************************************************************)
(* UserEventProcessor.on_trade                                             *)
(***************************************************************************)
\* mutant: the fills table is not consulted.
FirstSightInMemory(tr) == tr \notin applied

\* The match is news: neither _applied nor the fills table has it.
FirstSight(tr) == tr \notin applied /\ row[tr] = "absent"

\* The hold clock of a token runs while it is held (_sync_position_clock).
SyncClock(tok) == clock' = IF pos'[tok] > 0 THEN clock \cup {tok} ELSE clock \ {tok}

\* MATCHED seen for the first time; any other MATCHED is a duplicate and
\* changes nothing.
OnMatched(tr) ==
    LET tok == TokenOf[tr]
    IN  /\ "MATCHED" \in Emitted(tr)
        /\ FirstSight(tr)
        /\ row' = [row EXCEPT ![tr] = "MATCHED"]
        /\ MovePosition(tr, SideOf[tr])
        /\ inflight' = [inflight EXCEPT ![tok] = @ + 1]
        /\ applied' = applied \cup {tr}
        /\ booked' = [booked EXCEPT ![tr] = @ + 1]
        /\ SyncClock(tok)
        /\ UNCHANGED <<exchVars, reversed, aged, loopVars, restarts>>

\* CONFIRMED releases one guard of the token, whether or not this trade was
\* the one holding it, and marks the row settled if there is one.
OnConfirmed(tr) ==
    /\ "CONFIRMED" \in Emitted(tr)
    /\ ClearInflight(TokenOf[tr])
    /\ row' = [row EXCEPT ![tr] = IF @ = "absent" THEN @ ELSE "CONFIRMED"]
    /\ applied' = applied \ {tr}
    /\ UNCHANGED <<exchVars, reversed, disk, pos, lastFill, booked, clock,
                   loopVars, restarts>>

\* FAILED for a trade in _applied: inventory and cash are both reversed.  A
\* reversal reaches note_fill but not the hold clock.
OnFailedTracked(tr) ==
    /\ "FAILED" \in Emitted(tr)
    /\ tr \in applied
    /\ applied' = applied \ {tr}
    /\ \/ /\ tr \notin reversed
          /\ reversed' = reversed \cup {tr}
          /\ MovePosition(tr, Opposite(SideOf[tr]))
          /\ ClearInflight(TokenOf[tr])
          /\ booked' = [booked EXCEPT ![tr] = @ - 1]
       \/ /\ tr \in reversed
          /\ UNCHANGED <<reversed, disk, pos, lastFill, inflight, aged, booked>>
    /\ UNCHANGED <<exchVars, row, clock, loopVars, restarts>>

\* mutant: the CONFIRMED status of the row is not looked at.
ReversibleWhateverStatus(tr) == tr \notin reversed /\ row[tr] # "absent"

\* StateStore.reverse_fill finds something to undo.
Reversible(tr) == tr \notin reversed /\ row[tr] = "MATCHED"

\* FAILED for a trade not in _applied: the persisted inventory is undone, the
\* cash is not, and a guard of the token is released in either case.
OnFailedUntracked(tr) ==
    /\ "FAILED" \in Emitted(tr)
    /\ tr \notin applied
    /\ ClearInflight(TokenOf[tr])
    /\ \/ /\ Reversible(tr)
          /\ reversed' = reversed \cup {tr}
          /\ MovePosition(tr, Opposite(SideOf[tr]))
       \/ /\ ~Reversible(tr)
          /\ UNCHANGED <<reversed, disk, pos, lastFill>>
    /\ UNCHANGED <<exchVars, row, applied, booked, clock, loopVars, restarts>>

-----------------------------------------------------------------------------
(***************************************************************************)
(* Engine._reconcile_loop, positions                                       *)
(***************************************************************************)
\* mutant: expiry drops the timestamp and leaves the counter.
LeftAfterExpiryKept(tok) == inflight[tok]

\* expire_inflight: what is left of a token's guards.
LeftAfterExpiry(tok) == IF tok \in aged THEN 0 ELSE inflight[tok]

\* A round starts: guards past their age are dropped, positions are asked for.
StartRound ==
    /\ rc = "idle"
    /\ inflight' = [tok \in Tokens |-> LeftAfterExpiry(tok)]
    /\ aged' = {}
    /\ rc' = "positions"
    /\ UNCHANGED <<exchVars, dbVars, pos, lastFill, applied, booked, clock,
                   view, probe, restarts>>

\* The Data API composes its answer: the positions it has indexed by now.
ServePositions ==
    /\ ReadsAnswer
    /\ rc = "positions"
    /\ view = None
    /\ view' = api
    /\ UNCHANGED <<exchVars, dbVars, memVars, rc, probe, restarts>>

\* reconcile_positions(authoritative=True): every token not guarded takes the
\* size listed; a token not listed (size 0) is zeroed.
ReconcilePositions ==
    /\ rc = "positions"
    /\ view # None
    /\ pos' = [tok \in Tokens |-> IF GuardBlocks(tok) THEN pos[tok] ELSE view[tok]]
    /\ disk' = [tok \in Tokens |-> IF GuardBlocks(tok) THEN disk[tok] ELSE view[tok]]
    /\ view' = None
    /\ rc' = "round"
    /\ UNCHANGED <<exchVars, row, reversed, inflight, aged, lastFill, applied,
                   booked, clock, probe, restarts>>

\* positions() returned None: nothing is overwritten.
PositionsUnreadable ==
    /\ rc = "positions"
    /\ view = None
    /\ rc' = "round"
    /\ UNCHANGED <<exchVars, dbVars, memVars, view, probe, restarts>>

\* Three rounds in four end here.
EndRound ==
    /\ rc = "round"
    /\ rc' = "idle"
    /\ UNCHANGED <<exchVars, dbVars, memVars, view, probe, restarts>>

-----------------------------------------------------------------------------
(***************************************************************************)
(* Engine._check_position_divergence                                       *)
(***************************************************************************)
\* The tokens to check are chosen before the balances are awaited.
StartDivergence ==
    /\ rc = "round"
    /\ probe' = {tok \in Tokens : inflight[tok] = 0}
    /\ probe' # {}
    /\ rc' = "chain"
    /\ UNCHANGED <<exchVars, dbVars, memVars, view, restarts>>

ServeBalances ==
    /\ ReadsAnswer
    /\ rc = "chain"
    /\ view = None
    /\ view' = chain
    /\ UNCHANGED <<exchVars, dbVars, memVars, rc, probe, restarts>>

\* |internal - onchain| > max(1, 2% of onchain), in whole shares.
Diverges(internal, onchain) ==
    LET gap == IF internal > onchain THEN internal - onchain
                                     ELSE onchain - internal
    IN  gap > 1 /\ 50 * gap > onchain

ForceDivergent ==
    /\ rc = "chain"
    /\ view # None
    /\ LET forced == {tok \in probe : Diverges(pos[tok], view[tok])}
       IN  /\ pos' = [tok \in Tokens |->
                        IF tok \in forced THEN view[tok] ELSE pos[tok]]
           /\ disk' = [tok \in Tokens |->
                        IF tok \in forced THEN view[tok] ELSE disk[tok]]
    /\ view' = None
    /\ probe' = {}
    /\ rc' = "idle"
    /\ UNCHANGED <<exchVars, row, reversed, inflight, aged, lastFill, applied,
                   booked, clock, restarts>>

BalancesUnreadable ==
    /\ rc = "chain"
    /\ view = None
    /\ probe' = {}
    /\ rc' = "idle"
    /\ UNCHANGED <<exchVars, dbVars, memVars, view, restarts>>

-----------------------------------------------------------------------------
(***************************************************************************)
(* Crash and restart                                                       *)
(***************************************************************************)
\* _seed_position_clocks, of a process in which none runs yet.
SeedClocks == clock' = {tok \in Tokens : pos'[tok] > 0}

\* A new process: memory is empty, positions come from the table, and
\* _startup_reconcile either takes the sizes the API lists (a token it does
\* not list keeps the persisted size) and starts the hold clocks, or finds
\* the API unreadable and returns before both.
Boot ==
    /\ restarts < MaxRestarts
    /\ restarts' = restarts + 1
    /\ inflight' = [tok \in Tokens |-> 0]
    /\ aged' = {}
    /\ lastFill' = [tok \in Tokens |-> None]
    /\ applied' = {}
    /\ booked' = [tr \in Trades |-> 0]
    /\ rc' = "idle"
    /\ view' = None
    /\ probe' = {}
    /\ \/ /\ pos' = disk
          /\ disk' = disk
          /\ clock' = {}
       \/ /\ ReadsAnswer
          /\ disk' = [tok \in Tokens |-> IF api[tok] > 0 THEN api[tok] ELSE disk[tok]]
          /\ pos' = disk'
          /\ SeedClocks

Restart == Boot /\ UNCHANGED <<exchVars, row, reversed>>

\* The crash falls after the fills row is committed and before the positions
\* row is.
TornMatch(tr) ==
    /\ TornCommits
    /\ "MATCHED" \in Emitted(tr)
    /\ row[tr] = "absent"
    /\ row' = [row EXCEPT ![tr] = "MATCHED"]
    /\ Boot
    /\ UNCHANGED <<exchVars, reversed>>

TornReversal(tr) ==
    /\ TornCommits
    /\ "FAILED" \in Emitted(tr)
    /\ Reversible(tr)
    /\ reversed' = reversed \cup {tr}
    /\ Boot
    /\ UNCHANGED <<exchVars, row>>

-----------------------------------------------------------------------------
UserEvent(tr) ==
    \/ OnMatched(tr)
    \/ OnConfirmed(tr)
    \/ OnFailedTracked(tr)
    \/ OnFailedUntracked(tr)

ReconcileLoop ==
    \/ StartRound
    \/ ServePositions
    \/ ReconcilePositions
    \/ PositionsUnreadable
    \/ EndRound
    \/ StartDivergence
    \/ ServeBalances
    \/ ForceDivergent
    \/ BalancesUnreadable

Next ==
    \/ \E tr \in Trades :
          \/ Match(tr)
          \/ \E outcome \in Outcomes : Finish(tr, outcome)
          \/ GraceLapses(tr)
          \/ UserEvent(tr)
          \/ TornMatch(tr)
          \/ TornReversal(tr)
    \/ \E tok \in Tokens : IndexPosition(tok) \/ GuardAges(tok)
    \/ ReconcileLoop
    \/ Restart

Spec == Init /\ [][Next]_vars

(***************************************************************************)
(* The reconcile loop never stops and every read it awaits returns (the    *)
(* HTTP client has a timeout); a reachable Data API answers some rounds    *)
(* and catches up with the chain; time passes.  The exchange need not      *)
(* match, finish or announce anything.                                     *)
(***************************************************************************)
Fairness ==
    /\ WF_vars(StartRound)
    /\ SF_vars(ServePositions)
    /\ WF_vars(ReconcilePositions \/ PositionsUnreadable)
    /\ WF_vars(EndRound \/ StartDivergence)
    /\ WF_vars(ForceDivergent \/ BalancesUnreadable)
    /\ \A tok \in Tokens : WF_vars(IndexPosition(tok)) /\ WF_vars(GuardAges(tok))
    /\ \A tr \in Trades : WF_vars(GraceLapses(tr))

FairSpec == Spec /\ Fairness

-----------------------------------------------------------------------------
(***************************************************************************)
(* Properties                                                              *)
(***************************************************************************)
TypeOK ==
    /\ ladder \in [Trades -> {"none", "matched"} \cup Outcomes]
    /\ young \subseteq Trades
    /\ chain \in [Tokens -> Nat]
    /\ api \in [Tokens -> Nat]
    /\ row \in [Trades -> {"absent", "MATCHED", "CONFIRMED"}]
    /\ reversed \subseteq Trades
    /\ disk \in [Tokens -> Nat]
    /\ pos \in [Tokens -> Nat]
    /\ inflight \in [Tokens -> Nat]
    /\ aged \subseteq Tokens
    /\ lastFill \in [Tokens -> Trades \cup {None}]
    /\ applied \subseteq Trades
    /\ booked \in [Trades -> Int]
    /\ clock \subseteq Tokens
    /\ rc \in {"idle", "positions", "round", "chain"}
    /\ view \in [Tokens -> Nat] \cup {None}
    /\ probe \subseteq Tokens
    /\ restarts \in 0 .. MaxRestarts

\* In one process the cash ledger carries each trade at most once, carries
\* every trade the processor can still reverse with its cash, and carries no
\* trade whose inventory was taken out again: no order of MATCHED, CONFIRMED,
\* FAILED and restarts makes inventory and cash part ways by a reversal.
BooksBalance ==
    \A tr \in Trades :
        /\ booked[tr] \in {0, 1}
        /\ tr \in applied => booked[tr] = 1
        /\ tr \in reversed => booked[tr] = 0

\* The inductive form of BooksBalance: a trade the processor holds is recorded
\* as unsettled and not reversed, and a trade whose cash is on the books is
\* either still held or recorded as settled, so that no later FAILED can take
\* back its inventory without its cash.
BooksInv ==
    /\ BooksBalance
    /\ \A tr \in Trades :
        /\ tr \in applied => row[tr] = "MATCHED" /\ tr \notin reversed
        /\ tr \in reversed => row[tr] # "absent"
        /\ booked[tr] = 1 => tr \in applied \/ row[tr] = "CONFIRMED"

\* Guards are never leaked: a token never has more in-flight guards than it
\* has trades the processor still holds as matched and unsettled, so nothing
\* but those trades keeps REST from correcting the token.
GuardsAreOwned ==
    \A tok \in Tokens :
        inflight[tok] <= Cardinality({tr \in applied : TokenOf[tr] = tok})

\* The effect the books show for a trade, in the terms of TradeEffects.
EffectOf(tr) ==
    IF row[tr] = "absent" THEN "none"
    ELSE IF tr \in reversed THEN "undone"
    ELSE IF row[tr] = "CONFIRMED" THEN "settled"
    ELSE "held"

TE == INSTANCE TradeEffects WITH effect <- [tr \in Trades |-> EffectOf(tr)]

\* The processor and the store implement TradeEffects: a fill is applied at
\* most once and undone at most once across duplicates, reordering, crashes
\* and restarts, and never undone once recorded as settled.
ImplementsTradeEffects == TE!EffectsSpec

\* Whatever the feed lost, repeated or reordered, and whatever a crash tore,
\* inventory ends up equal to the shares on the ledger contract and stays
\* there, provided the reconcile loop runs and its reads sometimes answer.
Converges == <>[](pos = chain)

\* A trade whose settlement message never comes does not block its token for
\* ever: each guard is released or expires.
GuardsEnd == \A tok \in Tokens : inflight[tok] > 0 ~> inflight[tok] = 0
=============================================================================
