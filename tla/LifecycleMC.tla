---------------------------- MODULE LifecycleMC -----------------------------
(***************************************************************************)
(* Small instances of Lifecycle: two markets, one of each version.         *)
(***************************************************************************)
EXTENDS Lifecycle

CONSTANTS a, b

-----------------------------------------------------------------------------
(***************************************************************************)
(* What the code's own text says, refuted by the run that checks it        *)
(***************************************************************************)
\* engine.py, shutdown: the drain is bounded so that nothing keeps it "from
\* reaching cancel_all, which is the step that actually protects the account".
CleanExitLeavesNothing ==
    (phase = "closed" /\ ~gaveUp) => \A c \in Markets : ~rests[c]
=============================================================================
