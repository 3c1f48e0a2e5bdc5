# Polymaker, in TLA+

Polymaker is an automated market maker for Polymarket. One Python process
quotes bids and exits on the two outcome tokens (YES and NO) of each market it
trades, hears of its fills over a websocket, keeps its inventory in memory and
in SQLite, and repairs that picture from REST reads and from the chain. The
specifications here model the parts of it where a wrong interleaving, a lost
message or a crash costs money: what the process believes it holds, and what it
believes is resting on the exchange.

Paths below are relative to `src/src/polymaker/`, but for `config/` and `livecfg/`,
which are at the top of the repository.

## 1. The system

### Components

| component | state | operations | correct when |
|---|---|---|---|
| `state/store.py` StateStore | positions, orders, in-flight guards and their times, last fill times; tables `positions`, `fills`, `pnl_snapshots` | apply_fill, reverse_fill, mark_fill_settled, mark/clear/expire_inflight, reconcile_positions, set/force_set_position, upsert/remove/replace orders | each fill enters inventory once; inventory converges to the chain; guards are not leaked; no live order is dropped |
| `state/tracker.py` UserEventProcessor | `_applied` | on_trade (MATCHED, CONFIRMED, FAILED), on_order | duplicates, reordering and restarts change nothing; inventory and cash are reversed together |
| `userstream/` | link state, subscription | parse, deliver, reconnect | our side, token and size of a maker fill are right; a gap leads to a resync |
| `engine.py` quoter | market lock, dirty flag, hold clocks, sweep flags | recompute: plan, cancel, place, quarantine, resync; pull all | a quote never rests twice; no resting order is unknown; a halt empties the book |
| `engine.py` reconcile loop | round counter | guard expiry, positions, open orders, divergence check, cash, day reset | repairs drift without overwriting what is newer |
| `engine.py` heartbeat loop | `_hb_was_down`, failure count | beat, detect loss, resync on recovery | after a wipe by the exchange local state follows, and drops nothing that rests |
| `engine.py` start and shutdown | task table | startup reconcile, supervise, drain, cancel all | never quotes beside an unknown order; leaves none behind |
| `engine.py` metadata refresh | `_halted`, metas | halt, cancel, resume, re-tick | a closed market is empty |
| `engine.py`, `merge.py` merging | `_merging`, chain lock | merge complete pairs | no nonce used twice, never more than is held |
| `execution/gateway.py` | client pool, buckets, heartbeat failures | place, cancel, cancel_asset, cancel_all, reads | an error is never taken for an empty answer |
| `execution/reconciler.py` | none | diff of targets and live orders | at most one order is kept per target |
| `execution/ratelimit.py` | tokens | acquire, pressure | never more than the budget; nobody waits for ever |
| `risk/manager.py` | marks, cash, day baseline, order results | evaluate, global_halt, note_fill, reconcile_cash, reset_day | caps and kill switch act on what was really lost or committed |
| `strategy/regime.py` | end of the cool-off | decide | priorities hold; the cool-off is not skipped |
| `strategy/quoting.py` | none | construct_quotes | never crosses, never sells more than is held |
| `strategy/estimators.py` | EWMAs, pending markouts | update | floating-point estimates |
| `marketdata/` | books, link state | snapshot, delta, staleness | the book shown is a book that existed |
| `catalog/`, `alerts.py`, `journal.py`, `config.py`, `cli.py`, `doctor.py`, `moneydoctor.py`, `livetest.py`, `report.py` | caches, files | selection, output, operator tools | not part of the trading loop |

### How they interact

Everything runs on one asyncio thread, so a handler that does not await is one
step. Tasks interleave at every `await`: a placement, a cancel, a REST read.
Three tasks change a market's orders (its quoter, the reconcile loop, the
heartbeat loop) and serialise on the market's lock; the metadata refresh and
the user websocket do not take it. Fills arrive through callbacks of the user
websocket into the store, then into the risk manager's cash and the engine's
hold clocks. The exchange, the chain and the Data API are three replicas of the
truth that disagree for seconds at a time.

### What is hard

* The same trade is told several times (MATCHED, then CONFIRMED or FAILED), in
  any order, more than once, or never; a restart forgets what was told.
* REST and RPC answers describe the moment they were composed, not the moment
  they are applied; a guard (`_inflight`, `_last_fill_ts`, the grace of a young
  order, the market lock) stands between the two.
* Any call may fail having done part of its work: a cancel, a placement, a read.
* A crash may fall between two commits.
* Only some of this repairs itself; the liveness properties say what does.

`PROJECT.json` lists these hazards one by one, each at its line.

## 2. The modules

| module | models | kind |
|---|---|---|
| `TradeEffects` | what the event processor promises for one trade | abstract specification |
| `FillLedger` | inventory, fills table, guards, cash of fills, hold clocks, REST and chain repair, crash and restart | component, with its environment |
| `FillLedgerMC` | instances of it, and statements of the code's own comments | for TLC |
| `FillLedgerProofs` | theorems about it | for TLAPS |
| `OrderSync` | the orders of one market: exchange, local state, quoter, reconcile loop, heartbeat, user websocket, metadata halt, crash and restart | component, with its environment |
| `OrderSyncMC` | instances of it | for TLC |
| `OrderStrays` | `OrderSync` with a record (`strays`) of the orders it was told are gone, or was never told of, while they rest | extension of `OrderSync` by a history variable |
| `OrderStraysMC` | instances of it | for TLC |
| `OrderSyncProofs` | theorems about both | for TLAPS |
| `RiskCaps` | the gate before quoting: caps, taper, error-rate breaker and regime, consulted by the quoters of several markets | component, with its environment |
| `RiskCapsMC` | instances of it | for TLC |
| `RiskCapsProofs` | theorems about it | for TLAPS |
| `BookFeed` | the local copy of one token's book: frames, reconnects, REST refresh, and whether the market is quoted on it | component, with its environment |
| `BookFeedMC` | instances of it | for TLC |
| `BookFeedProofs` | theorems about it | for TLAPS |
| `Treasury` | what the kill switch measures: cash ledger, marks and baseline, repaired from two reads in turn, and the account behind them | component, with its environment |
| `TreasuryMC` | instances of it, and a sentence of the code's own configuration | for TLC |
| `TreasuryProofs` | theorems about it | for TLAPS |
| `QuotePlan` | the target quotes and their diff against the resting orders, as functions on the price grid, and a quoter that applies them while the market moves | pure functions, with a small component |
| `QuotePlanMC` | the markets it is evaluated on | for TLC |
| `QuotePlanProofs` | theorems about it | for TLAPS |
| `Merging` | the merge tasks under the chain lock, their threads and their transactions | component, with its environment |
| `Lifecycle` | start, supervisor, the loops that end, the client pool and shutdown; extends `Merging`, whose tasks shutdown cancels and whose threads it does not | composition |
| `LifecycleMC` | instances of it, and a sentence of the code's own comments | for TLC |
| `LifecycleProofs` | theorems about it | for TLAPS |
| `FiniteLemmas` | induction and recursion over numbers, sums over finite sets, for the other proofs | for TLAPS |

### FillLedger

State and code: `pos` is `StateStore.positions`, `disk` the positions table,
`row` and `reversed` the fills table (the row of a trade with its status, and
its `:reverse` row), `inflight` and `aged` the guards and their expiry, `lastFill`
and `young` the recent-fill grace, `applied` the processor's `_applied`,
`booked` what `RiskManager.note_fill` was called with, `clock` the keys of
`_position_since`. `rc`, `view` and `probe` are the reconcile loop between its
awaits. `ladder`, `chain` and `api` are the exchange, the ledger contract and
the Data API.

Actions: `OnMatched`, `OnConfirmed`, `OnFailedTracked`, `OnFailedUntracked` are
the branches of `on_trade` with everything they call. `StartRound`,
`ServePositions`, `ReconcilePositions` / `PositionsUnreadable`,
`StartDivergence`, `ServeBalances`, `ForceDivergent` / `BalancesUnreadable` are
the reconcile loop cut at its awaits. `Restart` loses memory, rereads the table
and runs `_startup_reconcile`; `TornMatch` and `TornReversal` are crashes
between the two commits of one fill.

Events are never consumed: an event the exchange has produced may be delivered
at any time, any number of times, or never, which covers loss, repetition and
reordering at once.

### OrderSync

State and code: `exch` is the book, `replica` what the read API shows of it,
`transit` orders of failed placements still under way, `news` order events under
way; `local` is `StateStore.orders`, `young` those within the grace of
`replace_open_orders`; `guarded` the tokens with in-flight trades (what
`FillLedger` calls `inflight > 0`); `lock` the market lock; `qpc`, `plan`,
`acked`, `quar`, `asset`, `qview` the quoter between its awaits; `rpc`, `rview`
and `hb`, `hview` the reconcile and heartbeat loops; `halted` and `closing` the
metadata halt.

Actions: `StartRequote` is one pass of `_recompute_locked` up to its first
await, with the target set and the tolerance matching left open; `CancelOk`,
`CancelFails`, `ShedLoad`, `PostOrders`, `PostSome`, `PlaceReturns` its
branches; `CancelAsset`, `ForgetAsset`, `ServeQuoter`, `QuoterResync`,
`QuoterReadFails` the quarantine and `_refresh_token_orders`; `StartPull`
`_pull_all_quotes`. The other tasks are cut at their awaits in the same way.

A *slot* is one order the strategy may want resting: a layer of bids on a token
or the exit of a token. Prices and sizes are abstracted to whether a resting
order still satisfies a target.

Faults are switched by the constant `Faults`, so that a run says which ones it
allows: cancels, asset cancels, cancel-alls, placements and reads that fail
having done part of their work, cancels that succeed and leave orders on the
book (`"kept"`: the answer of `cancel_orders` lists them and is not read), late
landings, unparsed rows, lagging reads, snapshots applied after the grace, lost
order events, lost heartbeats, a book wiped by the exchange without the engine
noticing (`"wipe"`: fewer beats lost in a row than it halts at), and a market
that closes and opens.

`OrderStrays` adds no behaviour. Its one variable, `strays`, records what each
step of `OrderSync` leaves resting behind the back of the code (`Lost`): orders of
a cancel that counted as a success, what an asset cancel left before its token is
forgotten, an order of a failed placement that lands late, what a lagging, late or
short snapshot drops, and what a start does not find. An order leaves the record
when it leaves the book.

### RiskCaps

State and code: `bids` is the resting buy notional of each market in
`StateStore.orders` and `rest` what rests on the exchange; `yes` and `no` are its
inventory in `StateStore.positions`, `due` what was filled and not told of by a
trade message yet; `stage` and `want` are the quoter of each market between its
awaits, `swept` the flags of `Engine._sweep`, `cooling` the markets before
`RegimeMachine._event_until`, `good` and `bad` the results in
`_recent_order_results`. `netted` only records the complete pairs that the cap of
a market left out when its quoter last wanted bids.

Actions: `Requote` is one pass of `_recompute_locked` through `evaluate`,
`decide` and `construct_quotes` up to its first await; `CancelOk`,
`CancelFails`, `ShedLoad`, `PlaceOk`, `PlaceFails` are what follows it. A fill is
three steps: `Match` on the exchange, `OnOrder`, the order message that shrinks
the resting order, and `OnTrade`, the trade message that moves the inventory. The
two messages come in any order, in parts, or (the order message) not at all, and
quoters decide in between. `Exit`, `Merge`, `Sweep`, `CoolOffEnds` and
`ResultAges` happen around them. The constant `Events` says which of these a run
allows; without them the quoters are alone and deterministic but for their order.

The gate reads what the code reads: pairs are netted out of a market's notional
(`Imbalance`), not out of the total or the event (`Gross`), and bids count for the
market and the total, not for the event.

`OrderSync` has one market and leaves its target open; `RiskCaps` has several
markets, computes how much each may want, and every order of its exchange is one
that local state has heard of.

### BookFeed

State and code: `truth`, `clock` and `skew` are the exchange's book, its time
and how far the local clock is ahead of it. `link`, `snap` and `feed` are the
connection with what is on its way over it, and `exact` says whether this
connection will deliver everything in order. `book` and `last` are `bids`,
`asks` and `last_update_ts` of the `OrderBook`; `overwritten` only records that
what last wrote the whole book was a refresh and not a frame. `rest` is the maintenance loop
between its awaits. `unusable` is `_book_unusable_since`, and `quoting` says
that the market's orders rest.

Actions: `OnBook` and `OnPriceChange` are the handlers of
`MarketDataService`, `Subscribe` a (re)connect. `FirstRefresh`, `ServeBook` and
`RefreshBook` / `RefreshFails` are the maintenance loop cut at its sleep and its
await. `QuoterTick` is the part of `_recompute_locked` that looks at the book
before anything else, with `_maybe_pull_on_bad_book`. `Change`, `TimePasses`,
`LinkDrops` and `LinkStale` are the environment.

The timestamps are compared as the code compares them: a snapshot with the
exchange's time, with no time, or with the local time of the refresh against
the time of whatever was applied last.

### Treasury

State and code: `netCash`, `mark` and `base` are `_net_cash`, `_marks` and
`_day_start_equity` of `RiskManager`, `pos` the positions of the store, `resting`
whether quotes of the market may rest, `fresh` the tokens whose last fill is
within the grace, `rc`, `round`, `view` and `newDay` the reconcile loop.
`cash`, `chain`, `fv` and `flight` are the account and the trades not mined yet;
`flow`, `origin` and `calm` only record what happened.

Actions: `Matched`, `Settles` and `Fails` are a trade as the callbacks book it
and as the chain does. `Requote` is the part of `_recompute_locked` that marks
both tokens and asks `global_halt`. `ServePositions`, `ReconcilePositions`,
`ServeCash`, `ReconcileCash`, `EndRound` (and the unreadable answers) are the
reconcile loop cut at its awaits, with the rounds on which it looks at cash and
at the date. `PriceMoves`, `MoneyFlows`, `PairsMerge`, `DayTurns` and `Restart`
happen around it.

### QuotePlan

`ConstructQuotes` is `construct_quotes` down to its helpers, one operator for
each: `FairValue`, `Width`, `Aim` and `PlaceBid`, `Consolidated`, `LayerSizes`
and `AddLayers`, `ExitPrice`, `ExitSize` and `MaybeExit`, `RoundDown` and
`RoundUp` for `round_to_tick` with its clamp. `Matches` and `Reconciled` are
`reconcile` with the order in which it looks at targets and orders; `InOrder`
lists the orders it keeps and the targets it places in the order it met them. Prices are
integers that divide a tick in `Grain` parts, so that a fair value or a width
falls between ticks and rounding has something to do. `market` is a
`QuoteInputs`; `Requote` applies a plan to the orders in `live`, and
`MarketMoves`, `OrderFills` and `Relisted` (a snapshot in another order) come
between two passes.

### Merging and Lifecycle

State and code: `merging` is `_merging`, `mtask` where each merge task is,
`chainLock` the lock; `tx` is the thread of `Merger.merge` and its transaction,
`nonce` what that one is numbered with, `loose` the transactions given up on that
may be mined yet; `local` and `pairs` are the pairs as the store and the chain have
them. `task` is `_tasks`; `failed` says that a task `run_forever` awaits has
raised; `pool` and `call` are the client's thread pool with each quoter's request,
`rests` its order on the exchange.

Actions: `MaybeMerge`, `TakeLock`, `BalancesRead` and `BalancesUnreadable` are the
task of one merge. Its thread numbers and signs a transaction (`SignsV1`,
`SignsV2`), hands it to the node (`Sends`) or to the relayer, which numbers and
sends in one (`Relays`), or fails before (`CannotSend`) or while it does so
(`SendFails`, after which the node may have it all the same). It is mined or not
(`Mined`, `Reverted`), or the thread gives up waiting (`ReceiptTimesOut`) and it
settles whenever it does (`LooseSettles`); `ThreadEnds` answers the task. Several
transactions of one market may be given up on at the same time. `Start`,
`LoopReturns`, `LoopRaises`, `Supervise` are the life of a loop; `Interrupt` or the
exception of a loop (`RunForeverEnds`) begins the shutdown, which is
`BeginShutdown` (cancel and await every task, shut the pool), `Drained` or
`DrainGivesUp`, and `ClearAndClose`.

### What is abstracted

* In `Treasury`: one market; trades are of one share at the fair value of their
  token; what the shares of the start cost is one of `Averages`; a trade is told
  once (`FillLedger` has the rest); a start and a restart can read positions; the
  cash reconcile every 4 rounds and the look at the date every 20 are `CashEvery`
  and `DayEvery`; `_cash_adjustments` is only logged.

* In `QuotePlan`: what floating-point estimates feed into a plan (flow nudge,
  half-spread, skew, the size of a side, exit urgency) is given with the market,
  and one size for both sides. The microprice is that of touches of equal size.
  A size is in parts of its step and the rounding of a layer goes up at a half.
  Requotes succeed (`OrderSync` has those that fail).

* In `Merging` and `Lifecycle`: a market's two balances are their minimum; a
  quoter posts one order at a time and the requests of the other loops are left
  out, since they rest no order; `"loop"` stands for every loop that raises what
  it does not catch; whether a wallet can send for a market is one predicate
  (`CanMerge`). How the transaction is encoded is left out. A nonce stands for the
  transaction that carries it: once that one is mined or dropped its name may be
  used again, where the chain would go on counting. Transactions are mined in any
  order, and whatever makes one fail (want of pairs or gas, a Safe's own nonce
  that another took) is `Reverted`. One that is dropped does not come back. The
  program has the account to itself.

* In `BookFeed`: the size of a level is whether it has any; prices are ticks,
  and `Rounded` says at which of them a distance of one tick comes out above
  one tick in floating point; a change of tick size, the book's hash, trade
  prints and the analytics of depth are left out. A cancel of the quotes is
  taken to succeed (`OrderSync` has the ones that fail), and a usable book is
  quoted on as soon as it is looked at.

* In `RiskCaps`: a share of either outcome costs and is marked at one unit
  throughout, so that shares and notional are one number: a price that moves after
  the decision, and what that does to a bound on marked value, is left out. A
  market's bids are one stack that is repriced as a whole and fills on either
  outcome; inventory skew, toxicity, trends and prices that do not fit are the
  choice of a smaller target (`"skew"`). The time windows before a market's end
  are left out, and a market that may not be quoted for other reasons is in
  `OrderSync` (`Blind`). A trade message that is lost is one that comes late: the
  reconcile loop finds its shares.

* Prices, average prices and fees; sizes in `OrderSync`; timestamps as numbers
  (an age is "within" or "past" its limit); logging, journal, alerts.
* MINED and RETRYING change nothing in the processor and are not events.
* In `FillLedger`, merging, which moves the chain's balance without a trade
  (`Treasury` and `Merging` have it).
* Counting heartbeat failures: losing the heartbeat is one step, and so is a
  wipe that goes unnoticed. Blindness through the market or user websocket has
  the same effect on orders as a halt.
* Which layer of a token an order was placed for: only how many are wanted.

## 3. What the runs check

Every run is one question. `PROJECT.json` names its configuration and
properties, and for each property a plausible bug in the code that makes TLC
find it violated.

### Runs that pass

* `ledger`: a buy and a sell of two shares on one token that opens with
  two shares, every outcome (settled, failed, announced failed and then
  settled), guards that age, reads of any delay, torn commits, one restart.
  Inventory and cash never part ways (`BooksBalance`), guards are owned
  (`GuardsAreOwned`), a fill takes effect at most once and is not undone after
  it settled (`ImplementsTradeEffects`, the refinement of `TradeEffects`). With
  the fairness of section 4, inventory ends up equal to the chain and stays so,
  whatever was lost or torn (`Converges`), and no guard stays for ever
  (`GuardsEnd`).
* `orders_safety`: one quote, two order ids, two restarts, failing cancels,
  placements, reads and heartbeats, lost events, a closing market.
  `NoDoubleQuote`: a quote never rests twice. `Tracked`: while the lock is free
  every resting order is in local state. `SyncInv`: the inductive invariant of
  the proof.
* `orders_converge`: with late orders, lagging reads, snapshots applied late,
  failing calls, cancels that leave orders behind, wipes nobody noticed and a
  restart that leaves orders on the book, belief and book meet on every order
  again and again (`BeliefCatchesUp`).
* `orders_halt`: the same without lagging reads, wipes and lost events, and with
  the record of `OrderStrays`. Here `NoDoubleQuote` and `Tracked` are false, and
  two weaker properties say how far: a quote rests twice only if one of the two
  is a stray (`DoublesAreStrays`), and an order rests unknown while the lock is
  free only if it is one (`UntrackedAreStrays`). A halt that lasts empties the
  exchange for good, strays included (`HaltClearsExchange`).
* `risk_caps`: two markets of one event with stacks of two and of one, caps of two
  and four, trade messages that come one share late, and between the two every
  event of the environment; one opens with a pair. `MarketBounded`: the heavier
  outcome of a market, with all that rests or is filled and may still be told,
  passes the cap by less than one stack, the late fills and the pairs that were
  netted out when its quoter last wanted bids. Each of the three is needed: an order
  message that is ahead of its trade message takes a fill out of the gate's sight,
  and a sale of one leg uncovers a pair. `TotalBounded`: what the account
  holds, has coming and has resting passes its cap by less than one stack and the
  late fills of each market, which may decide at the same time; nothing is netted.
  `BreakerLetsGo`: the error-rate breaker lets go again although a halted market
  sends no orders.
* `book_feed`: one bid and one ask that move over three prices, clocks that
  disagree either way, every fault. `FeedIsExact`: on a connection that keeps its
  order, once its snapshot is in, book and deltas under way make the exchange's
  book, whatever earlier connections lost and however many refreshes were read,
  failed, were dismissed or came before that snapshot; only between a refresh that
  overwrites the book and the next snapshot that is applied is nothing said
  (section 3: the refresh may take deltas back).
  `TopWithinTick`: once the exchange rests, both sides of the local book end up
  there or missing as they should, at most one tick off, whatever was lost,
  overtaken, ignored or overwritten. `QuotesNeedABook`: quotes do not stay on a
  book that stays unusable, nor on a dead link.
* `treasury`: an account of a few dollars and shares, one trade at a time and
  three steps of the environment, in any order and at any point of a round.
  `BaselineIsWorth`: the baseline a new day takes at the end of an undisturbed
  round is what the account is worth then. `LedgerCatchesUp`: once no trade is in
  flight the ledger's equity ends up at what the account is worth, whatever was
  merged, deposited, failed or unreadable. `KillFollowsLoss`: from a sound
  baseline the quotes end up gone if and only if the day has lost the limit.
* `quote_plan`: 7 ticks of 2 parts, two layers, a reward band and a floor. Every
  regime, every book one or two ticks wide (but those with the bid at the second
  tick) with the other token's book mirrored, empty or one-sided; then two steps
  of a moving market. `NeverCross`, `PairHasEdge`, `ExitsWithinHolding` and
  `LayersScore` say that a plan is post-only, that its pair of bids costs less
  than it pays, that it sells no more than is held and that its layers score.
  `RestingPairBounded`: orders kept from earlier passes never cost more, as a
  pair, than the plan's pair plus one tolerance. `PlanSettles`: a pass leaves
  one close order for each target and a second one has nothing to do, although
  the matching is greedy and the orders may be listed in any order.
* `lifecycle`: two markets, one on each protocol version and one of them quoted, a
  Safe or a deposit wallet, two nonces, one worker thread. `NoncesDiffer`: of the
  transactions of the account that are signed, sent, or given up on and possibly
  still to be mined, no two carry one nonce; the account's pending count shows the
  sent ones, and the chain lock has to keep others from counting while one is
  signed and not sent. `MergesFit`: a merge asks for no more than the chain holds,
  unless the holding moved since it was read, be it by a transaction given up on.
  `MergesEnd`: no merge keeps the lock or its mark. `LateOnlyIfHung`: after the
  drain an order lands only from a request the drain gave up on. `ShutdownEnds`:
  `shutdown` returns, though requests hang (the process may still wait for its
  threads). `LoopsComeBack`: a loop that ended runs again or the program leaves.
  Deadlock is not checked: the program ends.

Why the bounds are enough. An order id nobody remembers may be used again, so
`Ids` bounds the orders alive at one time and not the length of a run: two ids
for a slot are the quote and its double. One token with a buy and a sell is
enough for the ledger because trades of different tokens share nothing but the
reconcile round; two trades of one token are the smallest case in which one
trade's event can touch the other's guard. One restart puts a crash between any
two steps; the second one of `orders_safety` lets what the first left behind meet
another. Three prices are the fewest at which a best price can be two ticks off,
and two changes the fewest that a snapshot can fall between; the clock goes one
past the last change so that a refresh can be stamped later than every delta.
Two markets are the fewest that share a cap, and a stack of two can
fill in part; one share is the least a trade message can be late with, and a
window of two results the fewest that trip the breaker. Three steps of the environment are a loss, something that hides it
and something that moves the baseline, and rounds 0 and 1 of two are one that
looks at cash and the date and one that does not. Seven ticks have both ends of
the scale and a middle, and half ticks are enough to fall between two. Two
markets are the fewest that contend for the chain lock, two nonces the fewest of
which one is given up on while the other is in use (with both given up on, the next
transaction cannot be numbered until one settles), and one worker the
fewest that can be hung. The theorems below lift every
safety property of the passing runs to every instance (section 5), the EOA, any
number of nonces and pairs included.

### Runs that refute what the code says of itself

Each checks one sentence of a comment or docstring, and TLC shows a behaviour of
the code that breaks it.

* `torn_commit`: `state/store.py:10` "mirrored to SQLite on change so a
  crash-restart resumes". The fills row is committed before the position; after
  a crash in between, the redelivered MATCHED is a duplicate and the shares are
  missing until a REST read lists them.
* `loss_unseen`: `livecfg/config.toml:23` "stop trading if we lose ~$12". The
  baseline of the start is taken with no cash in the ledger, and the first cash
  reconcile adds the whole balance to the ledger and nothing to the baseline. From
  then until the next UTC day the result of the day stands a balance too high and
  the limit is out of reach. The run needs one price move.
* `unclean_exit`: `engine.py:185-187` "a hung client call must not stop us from
  reaching cancel_all, which is the step that actually protects the account". The
  drain before it shuts down the pool that `cancel_all` needs; the exception is
  suppressed, and the orders resting at exit are left to the dead-man switch.

Further divergences met while modelling, which no run is spent on. The modules
reproduce those they have the parts for.

Of the orders and the ledger:

* `state/store.py:7` "corrects drift ONLY for tokens with no in-flight trades":
  CONFIRMED releases a guard of the token without asking whose it is; a repeated
  one takes another trade's (`OnConfirmed`).
* `engine.py:766` "never risk an untracked order": the result of `cancel_asset`
  is ignored, and an unreadable book ends the quarantine (`ForgetAsset`,
  `QuoterReadFails`). With the faults `"asset"`, `"place"` and `"read"`, `Tracked` is
  false.
* `execution/gateway.py:623` "treat any parsing failure as an unreadable read":
  only an answer without a single good row is treated so. With the fault
  `"rows"`, `NoDoubleQuote` is false.
* `engine.py:1000` "only for tokens with no in-flight trades": the tokens of the
  divergence check are chosen before the balances are awaited
  (`engine.py:1009-1013`), and a fill that arrives meanwhile is overwritten with
  a balance that lacks it (`ServeBalances`, `ForceDivergent`).
* `engine.py:293` "so we never quote on top of an unknown order": a failed
  `cancel_all` followed by an unreadable book is passed over (`StartupViews`).
* `state/store.py:124` takes an event's own time for the recent-fill time even
  when a newer fill was seen, and a reversal carries the original trade's time,
  so the grace of a newer fill can end early.
* `engine.py:320-324`: a start that cannot read positions returns before it
  seeds the hold clocks, and nothing seeds them later.
* `engine.py:423`: a reversal, a REST zeroing and a divergence correction leave
  the hold clock of a token that is flat; the next fill inherits it.
* `engine.py:948`: the order snapshot is read before the market lock is taken,
  so an order cancelled in between comes back into local state for a round.
* `engine.py:889`: the resync after a heartbeat gap has no grace; a read that
  lags a placement made since the recovery drops the new order.
* `engine.py:305-307`: the start that cannot confirm its wipe raises, and the
  raise is suppressed ten lines above (`engine.py:295`): the bot quotes on.
* `engine.py:1120` "restart required": a market halted because its protocol
  version changed is released by a later row that carries no version, or the old
  one (`engine.py:1110-1111`).

Of books, caps and cash:

* `marketdata/service.py:8-9` "Reconnects re-snapshot automatically": a snapshot
  that a delta of the same subscription overtakes is older than the book by then
  and ignored (`orderbook.py:92`), and with it every change of the gap, until a
  refresh finds the best price off. The same happens while the book carries the
  local time of a refresh and the local clock is ahead.
* `engine.py:1196-1217`: the refresh overwrites deltas that arrived while its
  read was awaited.
* `risk/manager.py:9-11` "exposure must be filled + resting": the cost of an
  event group (`engine.py:1230-1239`) counts filled inventory only, so bids that
  fill while their cancel is awaited can take an event a second stack past its
  cap. What remains is two stacks of each of its markets
  (`RiskCapsProofs!EventAlwaysBounded`).
* `engine.py:1188` "catch any silently-missed WS deltas": the refresh repairs a
  best price more than a tick off. A missed delta that leaves it one tick off can
  leave the book locked, and an unusable book is not quoted on: the market stays
  without quotes until another frame or a reconnect repairs it.
* `risk/manager.py:183` describes "a cancel/replace limit cycle" the gate is built
  to avoid, and keeps resting orders out of the taper for it. The hard caps do
  count them: when inventory and bids together reach a cap, the answer is
  reduce-only, the bids go, exposure is below the cap, and the bids come back.
  In `RiskCaps`, two markets with room for three of their four shares do so for
  ever with nothing happening around them.
* `risk/manager.py:64-68` sets the cash reconcile against a withdrawal that "looks
  exactly like a trading loss and can trip the daily-loss kill switch": with the
  reconcile it does so too, since the ledger follows the balance and the baseline
  does not. `KillFollowsLoss` therefore starts from a baseline after which no
  money came or went.

Of the plan:

* `config/strategy.toml:28` "never bid above FV - 1 tick": a bid is placed there,
  and kept while fair value falls by up to `reprice_ticks` more, which the same
  file sets to two. `RestingPairBounded` is what remains of the "locked edge
  1 - p - q" of `strategy/quoting.py:14`.
* Where the lowest tick lifts a bid (`round_to_tick` clamps to it), it is above
  its target and the edge of the pair is gone (the second half of `PairHasEdge`).
* `strategy/quoting.py:259` "never cross down through the bid": an exit is clamped to the
  highest tick, and crosses a bid that is already there.
* `strategy/quoting.py:210-212` "is bumped to `reward_floor`": a size below it is declined
  (`strategy/quoting.py:229-233` says so).
* `strategy/quoting.py:263-265` "size <= held": true of a plan, while a resting exit is
  kept within `resize_frac` of it after the holding has shrunk.
* `execution/reconciler.py:3-4` "the smallest cancel/place set": targets take
  the first order that fits, and an order that fits two targets may go to the
  one that had another.

Of start, shutdown and merging:

* `engine.py:150` "Never down": `run_forever` gathers the tasks, so the first
  exception of one that was there at the start ends it, and the program
  (`LoopRaises`, `RunForeverEnds`); the supervisor may restart that loop once more
  in between, and nobody gathers what it starts. A metadata row that `_apply_meta_refresh` cannot digest is
  enough: the call is outside the handler's `try`. What the supervisor restarts
  is what has returned; with `engine.heartbeat` off that is the heartbeat loop,
  every five seconds and with a critical alert.
* `engine.py:125-126` "register the dead-man switch BEFORE any quoter can place":
  the beat's result is ignored, and it is sent though `engine.heartbeat` is off,
  after which no other follows.
* `engine.py:812` "concurrent merges can't reuse a nonce": a Safe's own nonce is
  read from the chain, where a transaction whose receipt was given up on has not
  taken it yet.
* `engine.py:834-837` "two distinct silent failures used to hide here": a third
  is left, the EOA path that returns the hash of a reverted transaction
  (`merge.py:335-338`).
* `merge.py:125-127` says why a hung call must not hold the chain lock; the call
  to the relayer has no timeout of its own. `MergesEnd` excepts that wallet.

## 4. Fairness

`FillLedger`: the reconcile loop never stops (its body catches every exception
and it is supervised), each read it awaits returns because the HTTP client has
a timeout, time passes (guards age, the fill grace lapses), the Data API catches
up with the chain, and a reachable API answers some of the rounds that ask (the
one strong fairness). Nothing is asked of the exchange or of the user websocket:
trades need not finish and events need not arrive.

`OrderSync`: the quoter ticks at least every `quoter_tick_s` and `asyncio.Lock`
is first come first served, so a blind quoter that knows of orders gets to plan
their cancellation although other tasks take the lock in between (strong
fairness of `Blind /\ StartRequote`); whoever holds the lock or awaits an answer
goes on; a cancel does not fail, or leave its orders, for ever; young orders grow old; what is on its
way lands or is lost; the read API catches up. One assumption is about the
environment and not about scheduling: again and again a reconcile round gets an
answer at a moment when no trade of the market is in flight. Without it
`BeliefCatchesUp` is false, since a token with in-flight trades is left out of
the order resync (`engine.py:966`), and that is a limit of the code worth
knowing. Nothing is asked of heartbeats, of order events or of the exchange.

`RiskCaps`: results leave the window as time passes. Nothing is asked of the
quoters, of the exchange, of messages or of prices.

`Treasury`: the reconcile loop goes on, graces lapse and the quoter ticks.
Nothing is asked of the exchange, the operator or the calendar: `LedgerCatchesUp`
says what happens if trades come to an end, and unreadable answers are bounded
by `MaxSpent`.

`Lifecycle`: the event loop goes on, so shutdown's steps happen, the one an
exception begins included, and the supervisor's, one task after the other. The
merges go on: there is one at a time inside the lock, and each of its steps ends
because HTTP calls and receipts have timeouts, the relayer's excepted.
`asyncio.Lock` is first come first served (strong fairness of `TakeLock` for each
market). Nothing is assumed of the client's requests, which may hang for ever, nor
of loops, which need not end.

`QuotePlan` has safety properties only.

`BookFeed`: the service reconnects for ever and handles what arrives, the
maintenance loop is supervised and suppresses what a refresh raises, its reads
have a timeout and some of them answer (the one strong fairness), the quoter
ticks and time passes. The exchange need not change and the link need not fail.

## 5. What is proved

For every set of trades or orders, every number of tokens, slots and restarts,
from the assumptions named in the modules (`LedgerAssumption`,
`OrderAssumption`, `CapsAssumption`, `FeedAssumption`, `NoBookAssumption`,
`TreasuryAssumption`, `PlanAssumption`, `MergeAssumption`, `PoolAssumption`),
which say of what kind each constant is and no more:

* `FillLedgerProofs!TypeCorrect`: types; in particular no size and no guard
  count is ever negative.
* `FillLedgerProofs!BooksAlwaysBalance`, from `BooksInvariant`. `BooksBalance`
  alone is not inductive: nothing in it keeps a FAILED event from taking back
  the inventory of a trade whose cash stays. `BooksInv` adds that a trade in
  `_applied` has an unsettled, unreversed row, and that a trade whose cash is on
  the books is in `_applied` or settled.
* `FillLedgerProofs!GuardsAlwaysOwned`: a token never has more guards than
  trades held in `_applied`; the proof counts the set a guard at a time.
* `FillLedgerProofs!LedgerImplementsTradeEffects`: each step maps to a step of
  `TradeEffects` or to a stutter, torn commits and restarts included.
* `FillLedgerProofs!FillsAlwaysAddUp`: where both commits of a fill happen and no
  read overwrites what they wrote, inventory in memory and on disk is the opening
  plus the fills that stand, through duplicates, reordering, reversals and any
  number of restarts: the positive half of the divergence `torn_commit`. Both
  hypotheses are needed, and so is an opening that covers what may be sold: a sell
  that overtakes its buy is floored at zero, and the buy then counts in full
  (TLC finds each counterexample). No run of the project checks it.
* `OrderSyncProofs!TypeCorrect`: types, and that the lock is held by exactly the
  task inside its critical section, under every fault.
* `OrderSyncProofs!NeverTwoQuotes` and `AlwaysTracked`, from `SyncInvariant`,
  under the faults in `Tolerated`. Neither is inductive: that no quote rests
  twice depends on a snapshot in flight missing no order old enough to be
  dropped, on a plan cancelling everything that rests where it places, and on
  the quarantine having still to cancel every token on which an order with an
  unknown id may rest. `SyncInv` says these things.
* `OrderSyncProofs!DoublesAlwaysStrays` and `UntrackedAlwaysStrays`, from
  `StrayInvariant`, under every fault, those `Tolerated` leaves out included and
  without an assumption on `Faults`. `StrayInv` is `SyncInv` said of the orders
  that are not strays; the proof takes each step in two halves, the orders that
  are solid after it having been solid before or being placed by it
  (`SolidAfter`). A late landing, an ignored answer or a short snapshot therefore
  costs the orders it concerns and no others: nothing else in the bookkeeping of
  the market gives way with them. `NoStraysTolerated` shows that the record is not
  too generous: under the tolerated faults it stays empty, and the two theorems
  say what `NeverTwoQuotes` and `AlwaysTracked` say.
* `RiskCapsProofs!MarketAlwaysBounded`, from `CapInvariant`, and `TypeCorrect`.
  `MarketBounded` is not inductive: a stack is decided now and placed later.
  `CapInv` adds it (`BagBounded` counts what is wanted as well), that a quoter
  places where it knows of no bids and never more than a stack, and that local
  state never misses an order that rests (`OrdersFit`). A match, an order message
  and a trade message only move a share from resting to late to held; what is not
  seen when a quoter decides is what is late and what is netted out, and the bound
  has a term for each. In the instance of `risk_caps` TLC breaks this bound and that
  of `TotalBounded` with any of their terms left out, and with one unit less.
* `RiskCapsProofs!TotalAlwaysBounded`, from `ExposureInvariant`. `TotalBounded`
  is not inductive: a stack that was decided and is not placed yet is in no sum.
  `AccountBounded` counts it. A decision alone adds to the total, and it is taken
  while what the gate sees is below the cap; what the gate does not see is at most
  the late fills of each market and what other quoters have decided, a stack each.
* `RiskCapsProofs!EventAlwaysBounded`: what the markets of an event hold, have
  coming and have resting stays below its cap plus two stacks and the late fills of
  each. One stack is no bound: the cap of an event counts filled inventory only, so
  a quoter may decide on a stack while its last one rests, and that one fills while
  its cancel is awaited. The proof compares the sums market by market (`SumGrows`,
  `SumWithin`). No run of the project checks it: with caps as tight as those of
  `risk_caps` the other two bounds imply it.
* `BookFeedProofs!FeedAlwaysExact`, from `FeedInvariant`, and `TypeCorrect`.
  `FeedIsExact` is not inductive: the snapshot under way might be ignored as
  late, and then nothing would be exact. `FeedInv` adds that everything under way
  and everything applied is stamped no later than the exchange's clock and, unless
  a refresh wrote it, the book no later than the snapshot of its connection; and
  that snapshot and deltas together make up the exchange's book while the snapshot
  is still to come, whatever the book is by then. The theorem covers refreshes
  that fail, that find no drift, and that overwrite the book before the snapshot of
  the connection is applied. It says nothing from a refresh that overwrites the book
  to the next applied snapshot, when the book is in fact not exact.
* `TreasuryProofs!BaselineAlwaysWorth`, from `CalmInvariant`, and `TypeCorrect`.
  The property speaks of the end of a round and of what happened all through it.
  `CalmInv` says what an undisturbed round has established at each of its steps:
  what was read is still so, positions agree with the chain once they were
  applied, and cash does at the end of a round that looked at it. It needs
  `DayEvery` to be a multiple of `CashEvery`, as 20 is of 4; without that the
  baseline may be taken in a round that did not look at cash.
* `LifecycleProofs!AlwaysNoncesDiffer` and `MergesAlwaysFit`, from
  `SendInvariant`, and `TypeCorrect`, for every wallet, number of markets and
  number of nonces. `NoncesDiffer` speaks of transactions and says nothing of
  locks; `SendInv` adds that a thread is awaited by the task that holds the chain
  lock until shutdown cancels it, that no second one starts after that, and that
  the transactions given up on, any number of them, differ in their nonces from each
  other and from the one in hand.
* `LifecycleProofs!AlwaysLateOnlyIfHung`, from `DrainInv`: once shutdown is past a
  drain it did not give up on, no request is under way and the pool starts none.
* `QuotePlanProofs!PlansNeverCross`, `PlansKeepAnEdge` (for a minimum edge above
  zero and more than two ticks), `PlansExitWithinHolding` and `PlansLayer` (for an
  exchange with a minimum size; without one a size that rounds to nothing in two
  layers is not placed in one): for every grid, configuration, pair of books and
  estimate. They need no invariant beyond what a market is (`AlwaysAMarket`) and
  rest on lemmas about the functions: what rounding and the clamp may do to a
  price (`RoundDownBounds`, `RoundUpBounds`), what a bid is after edge, band, join
  and snap (`AimBounds`, `TopBounds`), which quotes layering can add
  (`AddLayersShape`), and that a largest number of layers exists (`GreatestExists`,
  from the well-foundedness of strict inclusion).
* `QuotePlanProofs!PassesSettle`: `PlanSettles`, for any targets and any orders
  that rest before the pass. `MatchesGreedily` says what the recursion of the
  matching returns: for each target the first free order close to it, or none
  exactly where no free order is. From it, `ReconciledShape` says what a pass
  leaves (the kept orders in their old order, then what was placed),
  `OneOrderEach` that each target has exactly one of them, and `KeepsWhatStands`
  that a second pass matches each target with that one and no other: a kept order
  that came earlier was not free for it the first time either, and whatever was
  placed for an earlier target is taken by it. `Settles` puts them together.
* `QuotePlanProofs!PairCostBounded`: `RestingPairBounded`. Two orders that rest
  together may come from two plans. By induction over the passes
  (`PairsStayBounded`): both rested before, or one at least is a bid of the
  present plan and the other within the tolerance of one (`ReconciledOrigins`);
  for the latter the bound is that of the bids of one plan (`PlanPair`) and one
  tolerance. It assumes that the scale has room for two bids on the lowest tick
  and the edge between them (`MinEdge + 2 <= Ticks`: the edge is 1 tick in
  `config.py:104` and in `strategy.toml`, and a tick of a cent makes 100 of them).
* `QuotePlanProofs!PassIsAChoice`: for any targets and any resting orders, what a
  pass leaves is some of those orders, each close to a target of its own, and the
  targets that got none. This is what `OrderSync!StartRequote` leaves open, up to
  the names of slots: there an order keeps its slot for life, here it may serve
  another layer at the next pass, and a layer is no more than a name.
  `OrdersStayFew` says that 2 `Layers` + 2 of those names are enough.
* `QuotePlanProofs!ExitsStayCovered` (for an exchange with a minimum size): after a
  pass, whatever rested before, a token has one exit at most, and it is larger
  than the holding by the resize tolerance at most. `PlansExitWithinHolding` says
  this of a plan; here it is said of the orders, which may be older than the
  holding. `OneExit` finds the exits in the plan and `EachOrderHasATarget` gives
  each order a target of its own.
* `QuotePlanProofs!OrdersAreQuotes`: `TypeOK`, for an exchange with a minimum size
  (`gamma.py:205` reads 5 where a market names none).

Several arguments are made by induction over numbers or finite sets. The library
states induction for an operator, which the provers cannot take as a parameter;
`FiniteLemmas` states it for the set of what a fact holds for
(`IntervalInduction`, `MinimalSubset`) and proves it from well-foundedness. It
also shows that a recursion up to a number has a solution (`RecursionExists`) and
what a sum over a finite set is (`SumUnfolds`, `SumTakesOut`, `SumUpdated`, `SumAdds`), which
is where the folds of `RiskCaps`, the sums of fills and the recursive functions of `QuotePlan` get
their meaning in the proofs. `QuotePlan` writes its recursions as functions and
not with `SelectSeq`, whose definition the provers cannot expand.

The divergences of section 3 are why `Tolerated` leaves out failing asset
cancels, failing cancel-alls, cancels that leave orders behind, late landings,
unparsed rows, lagging reads and snapshots applied after the grace: with any of
them, some only beside reads that fail or beats that are lost, `Tracked` or
`NoDoubleQuote` is false, and the theorems on strays are what holds instead.

Model-checked only: everything under fairness (`Converges`, `GuardsEnd`,
`BeliefCatchesUp`, `HaltClearsExchange`, `BreakerLetsGo`, `TopWithinTick`,
`QuotesNeedABook`, `LedgerCatchesUp`, `KillFollowsLoss`, `MergesEnd`,
`ShutdownEnds`, `LoopsComeBack`), which is beyond the proof system here.

## 6. Not modelled, and the plan

In the order in which it is worth doing:

1. `BlindState`: the staleness rules of the three links together, with the
   counting of heartbeat failures.
2. `QuotePlan` in place of the free choice in `OrderSync!StartRequote`, as a
   composition: `PassIsAChoice` is the step; orders with prices under every fault
   are what is missing.
3. The field mapping of `normalize_trade` and `normalize_order` (our side, token
   and size of a maker fill), and the pending queue of the markouts.
4. The resolution of markets at start, and a refresh of metadata that changes the
   tick or the minimum size under resting orders.

Theorems still worth proving: that a reconcile round of `FillLedger` which nothing
disturbs leaves its tokens with what the chain holds, and that a torn commit costs
the fill it tears and no other (without torn commits, `FillsAlwaysAddUp`).

Out of scope: the catalogue and its scoring, ABI encodings, the rate limiter's
waiting (one counter under one lock; its pressure is `ShedLoad`), the operator
tools and the floating-point estimators (see the notes in `PROJECT.json`).

## 7. Running

    tlc -workers 2 -config ledger.cfg FillLedgerMC
    tlapm FillLedgerProofs.tla

Deadlock is checked in every run whose configuration does not say otherwise.
