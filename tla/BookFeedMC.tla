----------------------------- MODULE BookFeedMC -----------------------------
(***************************************************************************)
(* Small instances of BookFeed: three prices, a bid and an ask.            *)
(***************************************************************************)
EXTENDS BookFeed

Wide == [side \in Sides |-> IF side = "bid" THEN {1} ELSE {3}]
BothWays == {-1, 1}
=============================================================================
