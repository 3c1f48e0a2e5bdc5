------------------------------ MODULE Treasury ------------------------------
(***************************************************************************)
(* What the daily-loss kill switch measures: the cash ledger and the marks *)
(* of RiskManager, the day's baseline, the reconcile loop that corrects    *)
(* positions and cash from two replicas in turn, and the account behind    *)
(* them (trades in flight, deposits and withdrawals, merged pairs).        *)
(*                                                                         *)
(* One market with a complete pair worth Pay.  Trades are of one share, at *)
(* the fair value of their token.  How single events get lost, repeated or *)
(* reordered is in FillLedger; here a trade is told once.                  *)
(***************************************************************************)
EXTENDS Integers, FiniteSets

CONSTANTS Pay,          \* what a complete pair is worth
          Limit,        \* daily_loss_kill_usdc
          Cash0,        \* collateral of the account at the start
          Yes0, No0,    \* shares of the two outcomes at the start
          Trades,       \* names of trades, reused once a trade is over
          CashEvery,    \* rounds between two cash reconciles (4 in the code)
          DayEvery,     \* rounds between two looks at the date (20)
          Moves,        \* kinds of environment step that may happen
          MaxSpent,     \* how many of them
          Averages      \* prices the shares of the start may have cost

TreasuryAssumption ==
  /\ Pay \in Nat /\ Limit \in Nat /\ Cash0 \in Nat /\ Yes0 \in Nat /\ No0 \in Nat
  /\ CashEvery \in Nat \ {0} /\ DayEvery \in Nat \ {0}
  /\ DayEvery % CashEvery = 0
  /\ Moves \subseteq {"trade", "price", "flow", "merge", "day", "restart", "unread"}
  /\ MaxSpent \in Nat /\ Averages \subseteq 0..Pay

ASSUME TreasuryAssumption

Tokens == {"yes", "no"}
Sides == {"BUY", "SELL"}
Prices == 0..Pay

VARIABLES
  cash, chain,      \* the account: collateral, shares held
  fv,               \* fair value of YES
  flight,           \* flight[t]: the trade t, or Over
  netCash,          \* RiskManager._net_cash
  pos,              \* StateStore.positions
  mark,             \* RiskManager._marks, the average price until the first mark
  base,             \* RiskManager._day_start_equity
  resting,          \* quotes of the market may rest
  fresh,            \* tokens whose last fill is within the reconcile's grace
  rc, round, view,  \* the reconcile loop: where it is, which round, what it read
  newDay,           \* the UTC day is not that of the last reset
  flow, origin,     \* history: deposits minus withdrawals; worth - flow at base
  calm,             \* history: nothing disturbed this round
  spent             \* environment steps used up

account == <<cash, chain, fv, flight>>
ledger == <<netCash, pos, mark, base, resting, fresh>>
loop == <<rc, round, view, newDay>>
history == <<flow, origin, calm, spent>>
vars == <<account, ledger, loop, history>>

Over == [token |-> "none"]
Nothing == [of |-> "nothing"]
TradeRecord == [token : Tokens, side : Sides, price : Prices]

-----------------------------------------------------------------------------
(* Values *)

FairValueSwapped(tok) == IF tok = "yes" THEN fv ELSE fv - Pay
FairValue(tok) == IF tok = "yes" THEN fv ELSE Pay - fv

\* RiskManager._inventory_value, over the two tokens of the market.
Inventory(size, price) ==
  size["yes"] * price["yes"] + size["no"] * price["no"]

Equity == netCash + Inventory(pos, mark)

DailyPnl == Equity - base

\* What the account is worth, and what trading has earned since the baseline.
Worth == cash + Inventory(chain, [tok \in Tokens |-> FairValue(tok)])
Earned == Worth - flow - origin

\* global_halt with the daily loss as its only cause (nothing in the program
\* calls kill(); the error rate is in RiskCaps).
KilledBeyond(pnl) == pnl < -Limit
Killed(pnl) == pnl <= -Limit

Cost(side, price) == IF side = "BUY" THEN -price ELSE price
Shares(side) == IF side = "BUY" THEN 1 ELSE -1
Other(side) == IF side = "BUY" THEN "SELL" ELSE "BUY"

\* Trades of a token whose settlement has not been told: they hold a guard.
InFlight(tok) == {t \in Trades : flight[t].token = tok}

MoreOf(kind) ==
  /\ kind \in Moves
  /\ spent < MaxSpent
  /\ spent' = spent + 1

-----------------------------------------------------------------------------
Init ==
  /\ cash = Cash0
  /\ chain = [tok \in Tokens |-> IF tok = "yes" THEN Yes0 ELSE No0]
  /\ fv \in Prices
  /\ flight = [t \in Trades |-> Over]
  /\ netCash = 0
  /\ pos = chain
  /\ mark \in [Tokens -> Averages]
  /\ base = Inventory(pos, mark)
  /\ resting = FALSE
  /\ fresh = {}
  /\ rc = "idle" /\ round = 1 % DayEvery /\ view = Nothing /\ newDay = FALSE
  /\ flow = 0
  /\ origin = Worth
  /\ calm = FALSE
  /\ spent = 0

-----------------------------------------------------------------------------
(* Fills, as the callbacks of the user websocket book them *)

\* apply_fill and then note_fill: inventory and cash in one step.  A sale of
\* more than is held floors the position, not the cash.
BookFill(tok, side, price) ==
  /\ pos' = [pos EXCEPT ![tok] = IF @ + Shares(side) < 0 THEN 0 ELSE @ + Shares(side)]
  /\ netCash' = netCash + Cost(side, price)
  /\ fresh' = fresh \cup {tok}

\* A resting order is matched.  The exchange checks the shares of a sale and
\* the collateral of a purchase against what other trades have not taken.
Matched(t, tok, side) ==
  /\ MoreOf("trade")
  /\ resting /\ flight[t] = Over
  /\ IF side = "SELL"
       THEN /\ pos[tok] > 0
            /\ chain[tok] > Cardinality({u \in InFlight(tok) : flight[u].side = "SELL"})
       ELSE cash >= Pay * (1 + Cardinality({u \in Trades : flight[u] # Over}))
  /\ flight' = [flight EXCEPT ![t] =
                  [token |-> tok, side |-> side, price |-> FairValue(tok)]]
  /\ BookFill(tok, side, FairValue(tok))
  /\ calm' = FALSE
  /\ UNCHANGED <<cash, chain, fv, mark, base, resting, loop, flow, origin>>

\* The trade is mined: only now do shares and collateral change hands.
Settles(t) ==
  LET tr == flight[t] IN
  /\ tr # Over
  /\ chain[tr.token] + Shares(tr.side) >= 0
  /\ cash + Cost(tr.side, tr.price) >= 0
  /\ chain' = [chain EXCEPT ![tr.token] = @ + Shares(tr.side)]
  /\ cash' = cash + Cost(tr.side, tr.price)
  /\ flight' = [flight EXCEPT ![t] = Over]
  /\ calm' = FALSE
  /\ UNCHANGED <<fv, ledger, loop, flow, origin, spent>>

\* The trade fails: _reverse_fill books the opposite at the original price.
Fails(t) ==
  LET tr == flight[t] IN
  /\ tr # Over
  /\ flight' = [flight EXCEPT ![t] = Over]
  /\ BookFill(tr.token, Other(tr.side), tr.price)
  /\ calm' = FALSE
  /\ UNCHANGED <<cash, chain, fv, mark, base, resting, loop, flow, origin, spent>>

\* The recent-fill grace of reconcile_positions passes.
GraceLapses ==
  /\ \E tok \in fresh : fresh' = fresh \ {tok}
  /\ UNCHANGED <<account, netCash, pos, mark, base, resting, loop, history>>

-----------------------------------------------------------------------------
(* The quoter *)

\* _recompute_locked marks both tokens, then asks the gate: HALTED pulls every
\* quote, anything else may quote again.
Requote ==
  LET marks == [tok \in Tokens |-> FairValue(tok)] IN
  /\ mark' = marks
  /\ resting' = ~Killed(netCash + Inventory(pos, marks) - base)
  /\ UNCHANGED <<account, netCash, pos, base, fresh, loop, history>>

-----------------------------------------------------------------------------
(* The reconcile loop *)

Reading(what, data) == [of |-> what, data |-> data]

ServePositions ==
  /\ rc = "idle"
  /\ rc' = "positions" /\ view' = Reading("positions", chain)
  /\ calm' = (fresh = {} /\ \A t \in Trades : flight[t] = Over)
  /\ UNCHANGED <<account, ledger, round, newDay, flow, origin, spent>>

\* reconcile_positions leaves out tokens with trades in flight or just filled.
Corrected(listed) ==
  [tok \in Tokens |-> IF InFlight(tok) # {} \/ tok \in fresh THEN pos[tok] ELSE listed[tok]]

AfterPositionsRoundLate == IF round % CashEvery = 1 THEN "cash" ELSE "end"
AfterPositions == IF round % CashEvery = 0 THEN "cash" ELSE "end"

ReconcilePositions ==
  /\ rc = "positions"
  /\ pos' = Corrected(view.data)
  /\ rc' = AfterPositions /\ view' = Nothing
  /\ UNCHANGED <<account, netCash, mark, base, resting, fresh, round, newDay, history>>

PositionsUnreadable ==
  /\ rc = "positions" /\ MoreOf("unread")
  /\ rc' = AfterPositions /\ view' = Nothing
  /\ calm' = FALSE
  /\ UNCHANGED <<account, ledger, round, newDay, flow, origin>>

\* collateral_balance answers with the collateral of that moment.
ServeCash ==
  /\ rc = "cash"
  /\ rc' = "counted" /\ view' = Reading("cash", cash)
  /\ UNCHANGED <<account, ledger, round, newDay, history>>

CashUnreadable ==
  /\ rc = "cash" /\ MoreOf("unread")
  /\ rc' = "end"
  /\ calm' = FALSE
  /\ UNCHANGED <<account, ledger, round, view, newDay, flow, origin>>

\* reconcile_cash: the ledger becomes the balance that was read, whatever was
\* booked since; the baseline stays.
SnappedToGains(read) == IF read > netCash THEN read ELSE netCash
Snapped(read) == read

ReconcileCash ==
  /\ rc = "counted"
  /\ netCash' = Snapped(view.data)
  /\ rc' = "end" /\ view' = Nothing
  /\ UNCHANGED <<account, pos, mark, base, resting, fresh, round, newDay, history>>

\* Last in the round: a new UTC day moves the baseline to the equity of now.
EndRound ==
  /\ rc = "end"
  /\ rc' = "idle" /\ round' = (round + 1) % DayEvery
  /\ IF round = 0 /\ newDay
       THEN base' = Equity /\ origin' = Worth - flow /\ newDay' = FALSE
       ELSE UNCHANGED <<base, origin, newDay>>
  /\ UNCHANGED <<account, netCash, pos, mark, resting, fresh, view, flow, calm, spent>>

-----------------------------------------------------------------------------
(* What happens to the account without the program's doing, and restarts *)

PriceMoves ==
  /\ MoreOf("price")
  /\ fv' \in Prices \ {fv}
  /\ UNCHANGED <<cash, chain, flight, ledger, loop, flow, origin, calm>>

MoneyFlows(amount) ==
  /\ MoreOf("flow")
  /\ cash + amount >= 0
  /\ cash' = cash + amount /\ flow' = flow + amount
  /\ calm' = FALSE
  /\ UNCHANGED <<chain, fv, flight, ledger, loop, origin>>

\* A merge is mined.  The program is not told (Lifecycle has the merging task):
\* positions and cash learn of it separately, each from its own read.
PairsMerge ==
  /\ MoreOf("merge")
  /\ \A tok \in Tokens : chain[tok] > 0
  /\ chain' = [tok \in Tokens |-> chain[tok] - 1] /\ cash' = cash + Pay
  /\ calm' = FALSE
  /\ UNCHANGED <<fv, flight, ledger, loop, flow, origin>>

DayTurns ==
  /\ MoreOf("day")
  /\ newDay' = TRUE
  /\ UNCHANGED <<account, ledger, rc, round, view, flow, origin, calm>>

\* A restart rereads positions, values them at their average price and takes
\* that for the day's baseline; the cash ledger begins at zero.
Restart ==
  /\ MoreOf("restart")
  /\ \A t \in Trades : flight[t] = Over
  /\ netCash' = 0 /\ pos' = chain
  /\ mark' \in [Tokens -> Averages]
  /\ base' = Inventory(pos', mark')
  /\ resting' = FALSE /\ fresh' = {}
  /\ rc' = "idle" /\ round' = 1 % DayEvery /\ view' = Nothing /\ newDay' = FALSE
  /\ origin' = Worth - flow /\ calm' = FALSE
  /\ UNCHANGED <<account, flow>>

-----------------------------------------------------------------------------
Fills ==
  \/ \E t \in Trades :
       \/ \E tok \in Tokens, side \in Sides : Matched(t, tok, side)
       \/ Settles(t)
       \/ Fails(t)
  \/ GraceLapses

ReconcileLoop ==
  \/ ServePositions \/ ReconcilePositions \/ PositionsUnreadable
  \/ ServeCash \/ ReconcileCash \/ CashUnreadable
  \/ EndRound

Environment ==
  \/ PriceMoves \/ PairsMerge \/ DayTurns \/ Restart
  \/ \E amount \in {-1, 1} : MoneyFlows(Limit * amount)

Next == Fills \/ Requote \/ ReconcileLoop \/ Environment

Spec == Init /\ [][Next]_vars

\* The loop is supervised and its reads time out, graces pass, the quoter
\* ticks; nothing is asked of the exchange, the operator or the calendar.
Fairness == WF_vars(ReconcileLoop) /\ WF_vars(GraceLapses) /\ WF_vars(Requote)

FairSpec == Spec /\ Fairness
-----------------------------------------------------------------------------
(* Properties *)

Idle == flight = [t \in Trades |-> Over]

TypeOK ==
  /\ cash \in Nat /\ chain \in [Tokens -> Nat] /\ fv \in Prices
  /\ flight \in [Trades -> TradeRecord \cup {Over}]
  /\ netCash \in Int /\ pos \in [Tokens -> Nat] /\ mark \in [Tokens -> Prices]
  /\ base \in Int /\ resting \in BOOLEAN /\ fresh \subseteq Tokens
  /\ rc \in {"idle", "positions", "cash", "counted", "end"}
  /\ round \in 0..(DayEvery - 1) /\ newDay \in BOOLEAN
  /\ (rc = "positions") => /\ view.of = "positions"
                          /\ view.data \in [Tokens -> Nat]
  /\ (rc = "counted") => view.of = "cash" /\ view.data \in Nat
  /\ flow \in Int /\ origin \in Int /\ calm \in BOOLEAN
  /\ spent \in 0..MaxSpent

\* The day's baseline is only ever moved at a moment when it means something:
\* in a round that could read positions and cash, with nothing in flight and
\* nothing happening to the account meanwhile, the baseline a new day sets is
\* what the account is worth (engine.py: positions, then cash, then the reset).
BaselineIsWorth ==
  [][ (EndRound /\ base' # base /\ calm /\ \A tok \in Tokens : mark[tok] = FairValue(tok))
        => base' = Worth ]_vars

\* Trades, merges, deposits and unreadable answers put the ledger out in every
\* order; once no trade is in flight its equity ends up at what the account is
\* worth (_reconcile_cash and reconcile_positions together).
LedgerCatchesUp == <>[](Idle => Equity = Worth)

\* The baseline is what the account was worth then, and no money has come or
\* gone since.
Sound == base = origin + flow

\* From a sound baseline the kill switch is exact in the end: quotes stay away
\* if and only if the day's trading has lost the limit, although the ledger lags
\* behind merges, fills and failed trades.
KillFollowsLoss == <>[](Sound /\ Idle) => <>[](resting <=> Earned > -Limit)
=============================================================================
