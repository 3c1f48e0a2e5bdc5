---------------------------- MODULE FillLedgerMC ----------------------------
(***************************************************************************)
(* Small instances of FillLedger: one outcome token, trades of two shares. *)
(***************************************************************************)
EXTENDS FillLedger, FiniteSetsExt

CONSTANTS a, b, c, t1

TokenOfAll == [tr \in Trades |-> t1]
SizeTwo == [tr \in Trades |-> 2]

\* Two buys and a sell.
SideMixed == [tr \in Trades |-> IF tr = b THEN "SELL" ELSE "BUY"]

OpenFlat == [tok \in Tokens |-> 0]
OpenTwo == [tok \in Tokens |-> 2]

AllOutcomes == {"confirmed", "failed", "contested"}

-----------------------------------------------------------------------------
(***************************************************************************)
(* Properties of particular instances                                      *)
(***************************************************************************)
Signed(tr) == IF SideOf[tr] = "BUY" THEN SizeOf[tr] ELSE -SizeOf[tr]

\* The net of the fills table for a token: rows that are not reversed.
JournalNet(tok) ==
    MapThenSumSet(Signed, {tr \in Trades \ reversed :
                              row[tr] # "absent" /\ TokenOf[tr] = tok})

-----------------------------------------------------------------------------
(***************************************************************************)
(* What the code's own text says, refuted by the run that checks it        *)
(***************************************************************************)
\* state/store.py: "mirrored to SQLite on change so a crash-restart resumes".
\* Without reads to repair it, inventory after a restart is what the fills
\* table says.
CrashRestartResumes ==
    restarts > 0 => \A tok \in Tokens : disk[tok] = Opening[tok] + JournalNet(tok)
=============================================================================
