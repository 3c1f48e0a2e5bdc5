---------------------------- MODULE TradeEffects ----------------------------
(***************************************************************************)
(* What the user-event processor promises about one exchange trade,        *)
(* whatever the feed loses, repeats or reorders and whenever the process   *)
(* restarts: its fill enters the books at most once, it may be taken out   *)
(* again at most once, never after it was recorded as settled, and what    *)
(* was taken out stays out.                                                *)
(***************************************************************************)
CONSTANT Trades

VARIABLE effect

Effects == {"none", "held", "undone", "settled"}

EffectsOK == effect \in [Trades -> Effects]

EffectsInit == effect = [tr \in Trades |-> "none"]

Becomes(tr, from, to) ==
    /\ effect[tr] = from
    /\ effect' = [effect EXCEPT ![tr] = to]

\* MATCHED: the fill is applied optimistically.
Book(tr) == Becomes(tr, "none", "held")

\* FAILED: the optimistic fill is reversed.
Undo(tr) == Becomes(tr, "held", "undone")

\* CONFIRMED: the fill is recorded as settled.
Settle(tr) == Becomes(tr, "held", "settled")

EffectsNext == \E tr \in Trades : Book(tr) \/ Undo(tr) \/ Settle(tr)

EffectsSpec == EffectsInit /\ [][EffectsNext]_effect
=============================================================================
