----------------------------- MODULE QuotePlan ------------------------------
(***************************************************************************)
(* The target quotes of one market (construct_quotes) and their diff       *)
(* against the resting orders (reconcile), as functions, and a quoter that *)
(* applies them while the market moves under it.                           *)
(*                                                                         *)
(* Prices are whole parts of a tick: Grain parts make a tick and Ticks     *)
(* ticks make a dollar.  Sizes are whole parts of the smallest size step,  *)
(* Fine of them to a step.  What floating-point terms feed into a plan     *)
(* (skew, width, size of a side) is given with the market.                 *)
(***************************************************************************)
EXTENDS Integers, Sequences, FiniteSets

CONSTANTS Ticks, Grain, Fine,
          MinEdge,       \* min_edge_ticks
          MinWidth,      \* delta_min_ticks
          Band,          \* rewards_max_spread, in parts; 0 is none
          Layers, Step,  \* layers, layer_step_ticks
          ExchangeMin,   \* min_order_size
          RewardFloor,   \* rewards_min_size * reward_size_mult
          SoftCap,       \* q_soft_frac * q_max, in shares
          Reprice,       \* reprice_ticks
          ResizeNum, ResizeDen,  \* resize_frac
          Markets,       \* what a market may look like at first
          Moving,        \* and as it moves
          MaxMoves       \* how often it may change

Tokens == {"yes", "no"}
Regimes == {"QUIET", "TRENDING", "REDUCE_ONLY", "EVENT", "HALTED"}
None == -1
One == Ticks * Grain

\* What a plan is made of: regime, best prices of the two books (None: no such
\* side), flow nudge, half-spread, skew, size of a side, holdings, and the
\* urgency of an exit in halves (0 waits at fair value plus the width, 2 is the
\* touch).
Market ==
  [regime : Regimes, book : [Tokens -> [bid : Int, ask : Int]], nudge : Int,
   width : Int, skew : Int, size : Nat, held : [Tokens -> Nat], urgency : 0..2]

PlanAssumption ==
  /\ Ticks \in Nat /\ Ticks > 1 /\ Grain \in Nat \ {0} /\ Fine \in Nat \ {0}
  /\ MinEdge \in Nat /\ MinWidth \in Nat /\ Band \in Nat
  /\ Layers \in Nat \ {0} /\ Step \in Nat \ {0}
  /\ ExchangeMin \in Nat /\ RewardFloor \in Nat /\ SoftCap \in Nat
  /\ Reprice \in Nat /\ ResizeNum \in Nat /\ ResizeDen \in Nat \ {0}
  /\ MaxMoves \in Nat
  /\ Markets \subseteq Market /\ Moving \subseteq Market

ASSUME PlanAssumption

-----------------------------------------------------------------------------
(* Arithmetic on the grid *)

Least(a, b) == IF a <= b THEN a ELSE b
Greatest(a, b) == IF a >= b THEN a ELSE b
Between(x, lo, hi) == Least(Greatest(x, lo), hi)
Distance(a, b) == IF a >= b THEN a - b ELSE b - a

OnGridUnclamped(p) == p
OnGrid(p) == Between(p, Grain, One - Grain)

\* round_to_tick
RoundDownUpwards(p) == OnGrid(-((-p) \div Grain) * Grain)
RoundDown(p) == OnGrid((p \div Grain) * Grain)
RoundUp(p) == OnGrid(-((-p) \div Grain) * Grain)

-----------------------------------------------------------------------------
(* Where a bid and an exit go *)

\* The microprice, for touches of equal size.
Mid(m) == (m.book["yes"].bid + m.book["yes"].ask) \div 2

\* compute_fair_value: the microprice nudged by the flow, kept off the ends.
FairValue(m) == OnGrid(Mid(m) + m.nudge)

Own(m, tok, yesPrice) == IF tok = "yes" THEN yesPrice ELSE One - yesPrice

\* The half-spread: at least its minimum and one tick; in QUIET no wider than
\* the reward band leaves room for.
Width(m) ==
  LET least == MinWidth * Grain
      room  == Band - Distance(FairValue(m), Mid(m)) - MinEdge * Grain
      fits  == m.regime = "QUIET" /\ Band > 0 /\ room >= least
  IN  Greatest(IF fits THEN Between(m.width, least, Greatest(least, room)) ELSE m.width,
               Grain)

\* What _place_bid aims at: below fair value by the minimum edge, within the
\* band, at the best bid rather than in front of it, behind the ask.
Aim(target, view, fv, mid) ==
  LET edged  == Least(target, fv - MinEdge * Grain)
      scored == IF Band > 0 THEN Least(edged, mid + Band - Grain) ELSE edged
      joined == IF view.bid # None /\ scored >= view.bid THEN view.bid ELSE scored
  IN  IF view.ask # None /\ joined >= view.ask THEN view.ask - Grain ELSE joined

\* The grid's lowest tick may lift the price back onto the ask: no bid then.
CrossesAskUnchecked(view, price) == FALSE
CrossesAsk(view, price) == view.ask # None /\ price >= view.ask

PlaceBid(target, view, fv, mid) ==
  LET price == RoundDown(Aim(target, view, fv, mid))
  IN  IF CrossesAsk(view, price) THEN None ELSE price

\* _add_layers: the size of each of n layers, rounded to a size step.
Per(total, n) == ((2 * total + n * Fine) \div (2 * n * Fine)) * Fine

Floor == Greatest(RewardFloor, ExchangeMin)
TooSmall(size) == size < ExchangeMin \/ (Floor > 0 /\ size < Floor)

\* Layers are given up one by one until each of the rest can score.
ConsolidatedToMinimum(total) ==
  LET left == {n \in 1..Layers : n = 1 \/ ~(Per(total, n) < ExchangeMin)}
  IN  CHOOSE n \in left : \A k \in left : k <= n
Consolidated(total) ==
  LET left == {n \in 1..Layers : n = 1 \/ ~TooSmall(Per(total, n))}
  IN  CHOOSE n \in left : \A k \in left : k <= n

\* Layers are placed until one leaves the band; those off the scale are skipped.
LayerSizes(total) ==
  LET n == Consolidated(total) IN
  IF total <= 0 \/ Per(total, n) <= 0 \/ TooSmall(Per(total, n))
    THEN <<>> ELSE [i \in 1..n |-> Per(total, n)]

LayerPrice(top, i) == top - (i - 1) * Step * Grain
Scores(price, mid) == Band = 0 \/ Distance(mid, price) <= Band

Quote(tok, side, price, size) ==
  [token |-> tok, side |-> side, price |-> price, size |-> size]

AddLayers(tok, top, total, mid) ==
  LET sizes == LayerSizes(total)
      fits  == {i \in DOMAIN sizes :
                  \A j \in 1..i : Scores(LayerPrice(top, j), mid) /\ LayerPrice(top, j) > 0}
  IN  [i \in 1..Cardinality(fits) |-> Quote(tok, "BUY", LayerPrice(top, i), sizes[i])]

\* Between waiting at fair value plus the width and the touch, by urgency.
ExitPrice(m, tok) ==
  LET view    == m.book[tok]
      passive == Own(m, tok, FairValue(m)) + Width(m)
      touch   == IF view.bid # None THEN view.bid + Grain ELSE passive
      urgency == IF m.regime = "REDUCE_ONLY" THEN Greatest(m.urgency, 1) ELSE m.urgency
      walked  == -((-(passive * (2 - urgency) + touch * urgency)) \div 2)
  IN  RoundUp(IF view.bid # None THEN Greatest(walked, touch) ELSE walked)

\* Never more than is held: the size is rounded down to a step.
ExitSizeRounded(held) == ((held + Fine \div 2) \div Fine) * Fine
ExitSize(held) == (held \div Fine) * Fine

MaybeExit(m, tok) ==
  LET size == ExitSize(m.held[tok]) IN
  IF m.held[tok] < ExchangeMin \/ size < ExchangeMin
    THEN <<>> ELSE <<Quote(tok, "SELL", ExitPrice(m, tok), size)>>

\* Inventory in YES shares; the side that adds to it stops at the soft cap.
Net(m) == m.held["yes"] - m.held["no"]
Adds(m, tok) ==
  /\ m.regime # "REDUCE_ONLY"
  /\ IF tok = "yes" THEN Net(m) < SoftCap ELSE -Net(m) < SoftCap

Entries(m, tok) ==
  LET skewed == Own(m, tok, FairValue(m) - m.skew)
      mid    == Own(m, tok, Mid(m))
      top    == PlaceBid(skewed - Width(m), m.book[tok], Own(m, tok, FairValue(m)), mid)
  IN  IF Adds(m, tok) /\ top # None THEN AddLayers(tok, top, m.size, mid) ELSE <<>>

\* construct_quotes.  Exits are looked at whatever became of the entries.
ConstructQuotes(m) ==
  IF m.regime \in {"EVENT", "HALTED"} THEN <<>>
  ELSE Entries(m, "yes") \o Entries(m, "no") \o MaybeExit(m, "yes") \o MaybeExit(m, "no")

-----------------------------------------------------------------------------
(* The diff *)

\* A resting order satisfies a target: same token and side, price and size
\* within their tolerances.
CloseWithinOneMore(o, q) ==
  /\ o.token = q.token /\ o.side = q.side
  /\ Distance(o.price, q.price) <= (Reprice + 1) * Grain
  /\ q.size <= 0 \/ Distance(o.size, q.size) * ResizeDen <= ResizeNum * q.size
Close(o, q) ==
  /\ o.token = q.token /\ o.side = q.side
  /\ Distance(o.price, q.price) <= Reprice * Grain
  /\ q.size <= 0 \/ Distance(o.size, q.size) * ResizeDen <= ResizeNum * q.size

\* The resting order each target keeps (0: none), first come first served.
MatchesKeptAgain(targets, live) ==
  [n \in DOMAIN targets |->
     LET fits == {i \in DOMAIN live : Close(live[i], targets[n])}
     IN  IF fits = {} THEN 0 ELSE CHOOSE i \in fits : \A j \in fits : i <= j]
Matches(targets, live) ==
  LET upTo[n \in 0..Len(targets)] ==
        IF n = 0 THEN <<>>
        ELSE LET before == upTo[n - 1]
                 fits == {i \in DOMAIN live :
                            /\ Close(live[i], targets[n])
                            /\ \A k \in DOMAIN before : before[k] # i}
             IN  Append(before, IF fits = {} THEN 0
                                ELSE CHOOSE i \in fits : \A j \in fits : i <= j)
  IN  upTo[Len(targets)]

\* The positions of a set, in order.
InOrder(length, chosen) ==
  LET upTo[n \in 0..length] ==
        IF n = 0 THEN <<>>
        ELSE IF n \in chosen THEN Append(upTo[n - 1], n) ELSE upTo[n - 1]
  IN  upTo[length]

\* reconcile, carried out: what is not kept is cancelled, what nothing
\* satisfied is placed.
Reconciled(targets, live) ==
  LET keeps   == Matches(targets, live)
      kept    == InOrder(Len(live), {keeps[n] : n \in DOMAIN keeps})
      toPlace == InOrder(Len(targets), {n \in DOMAIN keeps : keeps[n] = 0})
  IN  [k \in DOMAIN kept |-> live[kept[k]]] \o [k \in DOMAIN toPlace |-> targets[toPlace[k]]]

-----------------------------------------------------------------------------
(* The quoter *)

VARIABLES market,  \* what the strategy sees
          live,    \* the resting orders, in the order local state lists them
          moves    \* how often the market has moved

vars == <<market, live, moves>>

Init == market \in Markets \cup Moving /\ live = <<>> /\ moves = 0

\* One pass of _recompute_locked whose cancels and placements succeed (those
\* that do not are in OrderSync).
Requote ==
  /\ live' = Reconciled(ConstructQuotes(market), live)
  /\ UNCHANGED <<market, moves>>

\* Anything the strategy looks at changes, one thing at a time.
MarketMoves ==
  /\ moves < MaxMoves /\ moves' = moves + 1
  /\ market' \in {m \in Moving :
                    Cardinality({f \in DOMAIN m : m[f] # market[f]}) = 1}
  /\ UNCHANGED live

\* An order is filled and gone.
OrderFills ==
  /\ moves < MaxMoves /\ moves' = moves + 1
  /\ \E i \in DOMAIN live :
       live' = SubSeq(live, 1, i - 1) \o SubSeq(live, i + 1, Len(live))
  /\ UNCHANGED market

\* A REST snapshot lists the same orders in another order.
Relisted ==
  /\ moves < MaxMoves /\ moves' = moves + 1
  /\ \E i \in 1..(Len(live) - 1) :
       live' = [live EXCEPT ![i] = live[i + 1], ![i + 1] = live[i]]
  /\ UNCHANGED market

Next == Requote \/ MarketMoves \/ OrderFills \/ Relisted

Spec == Init /\ [][Next]_vars
-----------------------------------------------------------------------------
(* Properties *)

Quotes == [token : Tokens, side : {"BUY", "SELL"}, price : 1..(One - 1), size : Nat \ {0}]

TypeOK ==
  /\ market \in Markets \cup Moving
  /\ \A i \in DOMAIN live : live[i] \in Quotes
  /\ moves \in 0..MaxMoves

Wanted == {ConstructQuotes(market)[i] : i \in DOMAIN ConstructQuotes(market)}

\* No quote takes: every bid is below the ask and every exit above the bid of
\* its own token's book, after snapping and clamping to the grid.  The one case
\* the code leaves open is an exit over a bid at the highest tick.
NeverCross ==
  \A q \in Wanted :
    LET view == market.book[q.token] IN
    IF q.side = "BUY" THEN view.ask = None \/ q.price < view.ask
    ELSE view.bid = None \/ q.price > view.bid \/ view.bid >= One - Grain

\* A pair of bids that both fill costs less than it pays, by twice the edge
\* except where the lowest tick lifts one of them.
PairHasEdge ==
  \A p, q \in Wanted :
    (p.side = "BUY" /\ q.side = "BUY" /\ p.token = "yes" /\ q.token = "no") =>
       \/ p.price + q.price <= One - 2 * MinEdge * Grain
       \/ Least(p.price, q.price) = Grain /\ p.price + q.price < One

\* Orders resting from earlier passes are kept within the tolerance, so together
\* they may cost more than the plan's pair: never by more than the tolerance of
\* one of them, however the market moved and whichever of them was filled and
\* replaced.  Where the lowest tick lifts a bid, its edge is gone as well.
RestingPairBounded ==
  \A i, j \in DOMAIN live :
    (/\ live[i].side = "BUY" /\ live[i].token = "yes"
     /\ live[j].side = "BUY" /\ live[j].token = "no") =>
       LET cost == live[i].price + live[j].price IN
       \/ cost <= One + (Reprice - 2 * MinEdge) * Grain
       \/ /\ Least(live[i].price, live[j].price) <= (1 + Reprice) * Grain
          /\ cost <= One + (Reprice - MinEdge) * Grain

\* An exit never offers more than is held, and offers all of it but a part of a
\* step.
ExitsWithinHolding ==
  \A q \in Wanted :
    q.side = "SELL" => q.size <= market.held[q.token] /\ market.held[q.token] - q.size < Fine

\* Layers: every one scores, there are as many as can, and splitting adds no
\* more than half a step for each.
LayersScore ==
  LET sizes == LayerSizes(market.size)
      able  == {n \in 1..Layers : Per(market.size, n) > 0 /\ ~TooSmall(Per(market.size, n))}
  IN  /\ Len(sizes) = (IF able = {} THEN 0 ELSE CHOOSE n \in able : \A k \in able : k <= n)
      /\ \A i \in DOMAIN sizes :
           2 * Len(sizes) * sizes[i] <= 2 * market.size + Len(sizes) * Fine

\* A pass leaves exactly one order for each target, close to it, and a second
\* pass over the same market has nothing to do.
PlanSettles ==
  LET targets == ConstructQuotes(market)
      after   == Reconciled(targets, live)
      keeps   == Matches(targets, after)
  IN  /\ Len(after) = Len(targets)
      /\ \A n \in DOMAIN targets : keeps[n] # 0
      /\ Reconciled(targets, after) = after
=============================================================================
