----------------------------- MODULE RiskCapsMC -----------------------------
(***************************************************************************)
(* Small instances of RiskCaps: two markets with stacks of two shares.     *)
(***************************************************************************)
EXTENDS RiskCaps

CONSTANTS m1, m2

OneEvent == [m \in Markets |-> "event"]
StackTwoOne == [m \in Markets |-> IF m = m1 THEN 2 ELSE 1]
CarryOne == [m \in Markets |-> IF m = m1 THEN 1 ELSE 0]
CarryNone == [m \in Markets |-> 0]
\* What varies is split between the markets, to keep the instance small; fills,
\* failing cancels and sizes below the stack come in both.
Around == [m \in Markets |->
    IF m = m1 THEN {"fill", "exit", "merge", "cancel", "reject", "skew"}
              ELSE {"fill", "move", "shed", "sweep", "skew"}]
QMaxFour == [m \in Markets |-> 4]
=============================================================================
