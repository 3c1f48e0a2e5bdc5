------------------------------ MODULE RiskCaps ------------------------------
(***************************************************************************)
(* The gate every quoter passes before it quotes: RiskManager.evaluate and *)
(* the error-rate breaker, consulted by the quoters of all markets, and    *)
(* RegimeMachine.decide, which turns the answer into quotes.  A quoter     *)
(* decides in one step and then awaits its cancel and its placement, so    *)
(* other markets decide in between, on what is in local state by then.     *)
(*                                                                         *)
(* A fill reaches local state twice, as a trade message that moves the     *)
(* inventory and as an order message that shrinks the resting order, in    *)
(* any order and with quoters deciding in between; a complete pair of      *)
(* YES and NO does not count against the market's cap.  What the gate does *)
(* not see is therefore part of what it lets pass, and of the bounds.      *)
(*                                                                         *)
(* One market's bids are one stack, repriced as a whole, and a bid fills   *)
(* on either outcome.  A share of either outcome costs and is marked at    *)
(* one unit throughout, so that shares and notional are the same number:   *)
(* prices that move after the decision, and what they do to a bound on     *)
(* marked value, are left out.  Orders that rest unknown to StateStore are *)
(* the subject of OrderSync, and trades that fail that of FillLedger.      *)
(***************************************************************************)
EXTENDS Integers, FiniteSetsExt, Functions

CONSTANTS
    Markets,
    GroupOf,        \* MarketMeta.event_id
    NoEvent,        \* what it is for a market of no event
    Stack,          \* base_size_usdc over all layers: a market's bids at full size
    CarriedYes,     \* inventory at the start, of each outcome
    CarriedNo,
    QMax,           \* q_max_usdc: imbalance at which a market only reduces
    MarketCap,      \* max_market_notional_usdc
    GroupCap,       \* max_event_group_loss_usdc
    TotalCap,       \* max_total_exposure_usdc
    MinSamples,     \* fewer order results than this say nothing
    ErrorPercent,   \* max_order_error_rate
    Events,         \* what happens around the quoter of each market
    MaxHeld,        \* bound on the inventory of an outcome
    MaxLate,        \* bound on a market's fills whose trade message is on its way
    MaxWindow       \* bound on the order results in the window

\* "fill"    our bids are filled
\* "exit"    inventory of one outcome is sold
\* "merge"   complete pairs are merged
\* "sweep"   prints sweep the book, or the fair value jumps
\* "cancel"  a cancel may fail, having cancelled a part
\* "reject"  a placement may fail
\* "shed"    the order budget may be under pressure
\* "move"    the price moves and resting bids have to be replaced
\* "skew"    the strategy may want less: inventory skew, toxicity, a trend, a
\*           price that does not fit
AllEvents ==
    {"fill", "exit", "merge", "sweep", "cancel", "reject", "shed", "move", "skew"}

Carried == [m \in Markets |-> CarriedYes[m] + CarriedNo[m]]

Group(m) == {other \in Markets : GroupOf[other] = GroupOf[m]}

ASSUME CapsAssumption ==
    /\ IsFiniteSet(Markets)
    /\ Stack \in [Markets -> Nat \ {0}]
    /\ CarriedYes \in [Markets -> Nat]
    /\ CarriedNo \in [Markets -> Nat]
    /\ QMax \in [Markets -> Nat \ {0}]
    /\ MarketCap \in Nat \ {0}
    /\ GroupCap \in Nat \ {0}
    /\ TotalCap \in Nat \ {0}
    /\ MinSamples \in Nat \ {0}
    /\ ErrorPercent \in 1 .. 100
    /\ Events \in [Markets -> SUBSET AllEvents]
    /\ MaxHeld \in Nat
    /\ MaxLate \in Nat
    /\ MaxWindow \in Nat
    \* the account starts below its caps
    /\ \A m \in Markets :
          /\ CarriedYes[m] < MarketCap
          /\ CarriedNo[m] < MarketCap
          /\ GroupOf[m] # NoEvent => SumFunctionOnSet(Carried, Group(m)) < GroupCap
    /\ SumFunctionOnSet(Carried, Markets) < TotalCap

VARIABLES
    rest,      \* each market's bids resting on the exchange
    due,       \* filled there, trade message not applied yet
    bids,      \* its resting bids in StateStore.orders
    yes, no,   \* its inventory in StateStore.positions
    stage,     \* what the quoter of each market is awaiting
    want,      \* the stack it is about to place, 0 when idle
    swept,     \* markets flagged in Engine._sweep
    cooling,   \* markets inside their EVENT cool-off
    good, bad, \* order results in RiskManager's window
    netted     \* history: the pairs its cap left out when a market last wanted bids

inventory == <<yes, no>>
orders    == <<rest, bids>>
quoteVars == <<stage, want, swept, cooling, netted>>
window    == <<good, bad>>
vars      == <<orders, due, inventory, quoteVars, window>>

-----------------------------------------------------------------------------
(***************************************************************************)
(* RiskManager                                                             *)
(***************************************************************************)
\* The complete pairs of a market, and what is left of the heavier outcome.
Pairs(m) == IF yes[m] <= no[m] THEN yes[m] ELSE no[m]
Imbalance(m) == yes[m] + no[m] - 2 * Pairs(m)

\* Everything a market holds, pairs included.
Gross == [m \in Markets |-> yes[m] + no[m]]

\* mutant: resting bids do not count.
MarketFilled(m) == Imbalance(m)

\* _market_notional, in which pairs net out, plus the market's resting bids.
MarketCommitted(m) == Imbalance(m) + bids[m]

\* mutant: only the market's own resting bids count against the global cap.
TotalOfOne(m) == SumFunctionOnSet(Gross, Markets) + bids[m]

\* _total_exposure, which is gross, plus the resting bids of every market.
TotalCommitted(m) == SumFunctionOnSet(Gross, Markets) + SumFunctionOnSet(bids, Markets)

\* _event_group_cost: filled inventory only; the bids of the event do not count.
GroupCost(m) == IF GroupOf[m] = NoEvent THEN 0 ELSE SumFunctionOnSet(Gross, Group(m))

\* error_rate against its limit.
TooManyErrors ==
    /\ good + bad >= MinSamples
    /\ 100 * bad >= ErrorPercent * (good + bad)

\* evaluate, the hard caps.
ReduceOnly(m) ==
    \/ MarketCommitted(m) >= MarketCap
    \/ GroupCost(m) >= GroupCap
    \/ TotalCommitted(m) >= TotalCap

\* _headroom, applied to a stack: whole up to 70% of the cap, nothing at it.
TaperAllows(size, full, current, cap) ==
    \/ size = 0
    \/ 10 * current <= 7 * cap
    \/ 3 * cap * size <= 10 * full * (cap - current)

\* evaluate, the soft taper: filled inventory only, the tightest cap decides.
Scaled(m) ==
    Max({size \in 0 .. Stack[m] :
            /\ TaperAllows(size, Stack[m], Imbalance(m), MarketCap)
            /\ TaperAllows(size, Stack[m], SumFunctionOnSet(Gross, Markets), TotalCap)
            /\ TaperAllows(size, Stack[m], GroupCost(m), GroupCap)})

-----------------------------------------------------------------------------
(***************************************************************************)
(* RegimeMachine.  TRENDING quotes as QUIET does, only smaller.            *)
(***************************************************************************)
Regime(m) ==
    IF TooManyErrors THEN "HALTED"
    ELSE IF m \in swept \cup cooling THEN "EVENT"
    ELSE IF ReduceOnly(m) \/ Imbalance(m) >= QMax[m] THEN "REDUCE_ONLY"
    ELSE "QUIET"

\* construct_quotes: the bids the market may be told to have resting.
Targets(m) ==
    IF Regime(m) # "QUIET" THEN {0}
    ELSE IF "skew" \in Events[m] THEN 0 .. Scaled(m)
    ELSE {Scaled(m)}

-----------------------------------------------------------------------------
Init ==
    /\ rest = [m \in Markets |-> 0]
    /\ due = [m \in Markets |-> 0]
    /\ bids = [m \in Markets |-> 0]
    /\ yes = CarriedYes
    /\ no = CarriedNo
    /\ stage = [m \in Markets |-> "idle"]
    /\ want = [m \in Markets |-> 0]
    /\ swept = {}
    /\ cooling = {}
    /\ good = 0
    /\ bad = 0
    /\ netted = [m \in Markets |-> 0]

(***************************************************************************)
(* The quoter of a market: Engine._recompute_locked                        *)
(***************************************************************************)
\* The sweep flag is consumed whatever the regime, and starts a cool-off only
\* if no halt comes first.  A stack that is as it should be is left alone.
Requote(m) ==
    /\ stage[m] = "idle"
    /\ swept' = swept \ {m}
    /\ cooling' = IF m \in swept /\ Regime(m) = "EVENT" THEN cooling \cup {m}
                                                        ELSE cooling
    /\ \E target \in Targets(m) :
       \/ /\ bids[m] = target
          /\ UNCHANGED <<stage, want, netted>>
       \/ /\ bids[m] # target \/ ("move" \in Events[m] /\ bids[m] > 0)
          /\ want' = [want EXCEPT ![m] = target]
          /\ stage' = [stage EXCEPT ![m] = IF bids[m] > 0 THEN "cancel" ELSE "place"]
          /\ netted' = IF target > 0 THEN [netted EXCEPT ![m] = Pairs(m)] ELSE netted
    /\ UNCHANGED <<orders, due, inventory, window>>

CancelOk(m) ==
    /\ stage[m] = "cancel"
    /\ rest' = [rest EXCEPT ![m] = 0]
    /\ bids' = [bids EXCEPT ![m] = 0]
    /\ stage' = [stage EXCEPT ![m] = IF want[m] > 0 THEN "place" ELSE "idle"]
    /\ UNCHANGED <<due, inventory, want, swept, cooling, netted, window>>

\* The cancel fails, having cancelled a part: local state is resynced, or kept
\* when the open orders cannot be read, and nothing is placed.
CancelFails(m) ==
    /\ "cancel" \in Events[m]
    /\ stage[m] = "cancel"
    /\ \E left \in 0 .. rest[m] :
          /\ rest' = [rest EXCEPT ![m] = left]
          /\ \/ bids' = [bids EXCEPT ![m] = left]
             \/ bids' = bids
    /\ stage' = [stage EXCEPT ![m] = "idle"]
    /\ want' = [want EXCEPT ![m] = 0]
    /\ UNCHANGED <<due, inventory, swept, cooling, netted, window>>

\* Pressure leaves the new bids out in a calm regime.
ShedLoad(m) ==
    /\ "shed" \in Events[m]
    /\ stage[m] = "place"
    /\ stage' = [stage EXCEPT ![m] = "idle"]
    /\ want' = [want EXCEPT ![m] = 0]
    /\ UNCHANGED <<orders, due, inventory, swept, cooling, netted, window>>

PlaceOk(m) ==
    /\ stage[m] = "place"
    /\ good + bad < MaxWindow
    /\ rest' = [rest EXCEPT ![m] = want[m]]
    /\ bids' = [bids EXCEPT ![m] = want[m]]
    /\ good' = good + 1
    /\ stage' = [stage EXCEPT ![m] = "idle"]
    /\ want' = [want EXCEPT ![m] = 0]
    /\ UNCHANGED <<due, inventory, swept, cooling, netted, bad>>

\* A failed placement is noted as an error and the market quarantined: a part may
\* have been posted, of which some fills before the cancel and some outlives it
\* and is read back.
PlaceFails(m) ==
    /\ "reject" \in Events[m]
    /\ stage[m] = "place"
    /\ good + bad < MaxWindow
    /\ bad' = bad + 1
    /\ stage' = [stage EXCEPT ![m] = "idle"]
    /\ want' = [want EXCEPT ![m] = 0]
    /\ \E filled, left \in 0 .. want[m] :
          /\ filled + left <= want[m]
          /\ filled > 0 => "fill" \in Events[m] /\ due[m] + filled <= MaxLate
          /\ left > 0 => "cancel" \in Events[m]
          /\ due' = [due EXCEPT ![m] = @ + filled]
          /\ rest' = [rest EXCEPT ![m] = left]
          /\ bids' = [bids EXCEPT ![m] = left]
    /\ UNCHANGED <<inventory, swept, cooling, netted, good>>

-----------------------------------------------------------------------------
(***************************************************************************)
(* Around the quoters                                                      *)
(***************************************************************************)
\* The exchange matches our bids; both messages about it are on their way.
Match(m, n) ==
    /\ "fill" \in Events[m]
    /\ n \in 1 .. rest[m]
    /\ due[m] + n <= MaxLate
    /\ rest' = [rest EXCEPT ![m] = @ - n]
    /\ due' = [due EXCEPT ![m] = @ + n]
    /\ UNCHANGED <<bids, inventory, quoteVars, window>>

\* on_order: an order shrinks locally to what was left of it when the message was
\* written, which is never less than what rests.
OnOrder(m) ==
    /\ \E left \in rest[m] .. bids[m] - 1 : bids' = [bids EXCEPT ![m] = left]
    /\ UNCHANGED <<rest, due, inventory, quoteVars, window>>

\* Inventory of one outcome or the other grows by n.
Bought(m, n) ==
    \/ yes[m] + n <= MaxHeld /\ yes' = [yes EXCEPT ![m] = @ + n] /\ no' = no
    \/ no[m] + n <= MaxHeld /\ no' = [no EXCEPT ![m] = @ + n] /\ yes' = yes

\* mutant: the trade message, too, takes the fill off the order.
OnTradeTwice(m, n) ==
    /\ n \in 1 .. due[m]
    /\ due' = [due EXCEPT ![m] = @ - n]
    /\ bids' = [bids EXCEPT ![m] = @ - n]
    /\ Bought(m, n)
    /\ UNCHANGED <<rest, quoteVars, window>>

\* on_trade, or the position read from the chain when the message was lost: only
\* inventory moves.
OnTrade(m, n) ==
    /\ n \in 1 .. due[m]
    /\ due' = [due EXCEPT ![m] = @ - n]
    /\ Bought(m, n)
    /\ UNCHANGED <<orders, quoteVars, window>>

\* A sale of one outcome fills.
Exit(m, n) ==
    /\ "exit" \in Events[m]
    /\ \/ n <= yes[m] /\ yes' = [yes EXCEPT ![m] = @ - n] /\ no' = no
       \/ n <= no[m] /\ no' = [no EXCEPT ![m] = @ - n] /\ yes' = yes
    /\ UNCHANGED <<orders, due, quoteVars, window>>

\* Complete pairs are merged: both outcomes shrink.
Merge(m, n) ==
    /\ "merge" \in Events[m]
    /\ n \in 1 .. Pairs(m)
    /\ yes' = [yes EXCEPT ![m] = @ - n]
    /\ no' = [no EXCEPT ![m] = @ - n]
    /\ UNCHANGED <<orders, due, quoteVars, window>>

\* Engine._on_trade flags a sweep; a jump of the fair value has the same effect.
Sweep(m) ==
    /\ "sweep" \in Events[m]
    /\ swept' = swept \cup {m}
    /\ UNCHANGED <<orders, due, inventory, stage, want, cooling, netted, window>>

CoolOffEnds(m) ==
    /\ m \in cooling
    /\ cooling' = cooling \ {m}
    /\ UNCHANGED <<orders, due, inventory, stage, want, swept, netted, window>>

\* mutant: the window is pruned when a result is noted, not when it is read.
ResultAgesWhenNoted ==
    /\ \E m \in Markets : stage[m] = "place"
    /\ \/ good > 0 /\ good' = good - 1 /\ bad' = bad
       \/ bad > 0 /\ bad' = bad - 1 /\ good' = good
    /\ UNCHANGED <<orders, due, inventory, quoteVars>>

\* An order result leaves the window (_prune).
ResultAges ==
    /\ \/ good > 0 /\ good' = good - 1 /\ bad' = bad
       \/ bad > 0 /\ bad' = bad - 1 /\ good' = good
    /\ UNCHANGED <<orders, due, inventory, quoteVars>>

Quoter(m) ==
    Requote(m) \/ CancelOk(m) \/ CancelFails(m) \/ ShedLoad(m) \/ PlaceOk(m) \/ PlaceFails(m)

Next ==
    \/ \E m \in Markets :
          \/ Quoter(m)
          \/ OnOrder(m)
          \/ \E n \in 1 .. MaxHeld :
                Match(m, n) \/ OnTrade(m, n) \/ Exit(m, n) \/ Merge(m, n)
          \/ Sweep(m)
          \/ CoolOffEnds(m)
    \/ ResultAges

Spec == Init /\ [][Next]_vars

\* Time passes: a result that is in the window leaves it.  No quoter has to tick.
Fairness == WF_vars(ResultAges)

FairSpec == Spec /\ Fairness

-----------------------------------------------------------------------------
(***************************************************************************)
(* Properties                                                              *)
(***************************************************************************)
TypeOK ==
    /\ rest \in [Markets -> Nat]
    /\ due \in [Markets -> Nat]
    /\ bids \in [Markets -> Nat]
    /\ yes \in [Markets -> Nat]
    /\ no \in [Markets -> Nat]
    /\ stage \in [Markets -> {"idle", "cancel", "place"}]
    /\ want \in [Markets -> Nat]
    /\ swept \subseteq Markets
    /\ cooling \subseteq Markets
    /\ good \in Nat
    /\ bad \in Nat
    /\ netted \in [Markets -> Nat]

\* The heavier outcome of a market, everything about to become inventory of it
\* included, goes past the market's cap by less than one stack, what late trade
\* messages may be worth, and the pairs that the cap had netted out when the
\* quoter last decided.  The order message hides a fill whose trade message is
\* late, and a sale of the other outcome uncovers a pair; failed cancels and other
\* quoters in between add nothing.
MarketBounded ==
    \A m \in Markets :
        yes[m] + no[m] - Pairs(m) + due[m] + rest[m]
            < MarketCap + Stack[m] + MaxLate + netted[m]

\* What the account holds, has rest and has coming: pairs count in its cap, but
\* every market may be one stack past it when they decide at the same time, and
\* late with its trade messages.  (An event, whose cap does not look at bids, may
\* be two stacks of every market past it.)
TotalBounded ==
    SumFunctionOnSet([m \in Markets |-> yes[m] + no[m] + due[m] + rest[m]], Markets)
        < TotalCap + SumFunctionOnSet([m \in Markets |-> Stack[m] + MaxLate], Markets)

\* A storm of rejects does not turn into a shutdown: the breaker lets go.
BreakerLetsGo == TooManyErrors ~> ~TooManyErrors
=============================================================================
