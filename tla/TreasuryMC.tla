----------------------------- MODULE TreasuryMC -----------------------------
(* Instances of Treasury for TLC, and sentences of the code's own comments. *)
EXTENDS Treasury

CONSTANTS t1

AllMoves == {"trade", "price", "flow", "merge", "day", "restart", "unread"}
OneTrade == {t1}
OnlyOne == {1}
OnlyPrices == {"price"}

\* livecfg/config.toml:23 "stop trading if we lose ~$12": a loss of the limit
\* that is not made good ends the quoting.
LossStopsQuotes == <>[](Earned <= -Limit) => <>[]~resting
=============================================================================
