----------------------------- MODULE QuotePlanMC -----------------------------
(* Instances of QuotePlan for TLC. *)
EXTENDS QuotePlan

View(bid, ask) == [bid |-> bid, ask |-> ask]
OnTicks == {Grain * n : n \in 1..(Ticks - 1)}

\* The book of NO follows that of YES, or is empty, or has had one side swept
\* away with the other at the end of the scale.
Follows(yes) == View(One - yes.ask, One - yes.bid)
OtherBooks(yes) ==
  {Follows(yes), View(None, None), View(None, Grain), View(One - Grain, None)}
BookPairs(yesBooks) == UNION {[yes : {b}, no : OtherBooks(b)] : b \in yesBooks}

MarketsOf(regimes, books, nudges, widths, skews, sizes, held, urgency) ==
  [regime : regimes, book : BookPairs(books), nudge : nudges, width : widths,
   skew : skews, size : sizes, held : held, urgency : urgency]

Holds(yes, no) == [yes |-> yes, no |-> no]

AllMarkets ==
  MarketsOf({"QUIET", "TRENDING", "REDUCE_ONLY", "HALTED"},
            {v \in [bid : OnTicks, ask : OnTicks] : v.bid < v.ask /\ v.ask <= v.bid + 2 * Grain /\ v.bid # 2 * Grain},
            {-2, 1}, {2, 5}, {0, 2}, {14},
            {Holds(0, 0), Holds(0, 9), Holds(9, 5)}, 0..2)

MovingMarkets ==
  MarketsOf({"QUIET"}, {v \in [bid : OnTicks, ask : OnTicks] : v.ask - v.bid \in {Grain, 2 * Grain}},
            {-2, 0}, {2}, {0}, {8, 14}, {Holds(0, 0)}, {0})
=============================================================================
