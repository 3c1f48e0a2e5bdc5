---------------------------- MODULE OrderStrays -----------------------------
(***************************************************************************)
(* OrderSync with a record of the orders its tasks lost sight of while     *)
(* they rested: what goes wrong under the faults the code does not         *)
(* tolerate, order by order.                                               *)
(***************************************************************************)
EXTENDS OrderSync

VARIABLE strays  \* resting orders that the code was told are gone, or not told of

strayVars == <<vars, strays>>

\* A snapshot may list less than the book held when it is applied.
Unreliable == Faults \cap {"slow", "lag", "rows"} # {}

\* What a step leaves resting behind the back of the code: orders reported as
\* cancelled, an order of a failed placement that lands after all, what an asset
\* cancel left before its token is forgotten, an order that an unreliable
\* snapshot drops, and what a start does not find.
Lost ==
    {o \in exch' :
        \/ CancelOk /\ o \in plan.cancel
        \/ o \in transit \ exch
        \/ CancelAsset(TokenOf[o])
        \/ Unreliable /\ (QuoterResync \/ HeartbeatResync \/ ReconcileOrders)
           /\ o \in local \ local'
        \/ Restart /\ o \notin local'}

StrayInit == Init /\ strays = {}

\* An order stays a stray until it leaves the book.
StrayNext == Next /\ strays' = (strays \cup Lost) \cap exch'

StraySpec == StrayInit /\ [][StrayNext]_strayVars

FairStraySpec == StraySpec /\ Fairness

-----------------------------------------------------------------------------
(***************************************************************************)
(* Properties                                                              *)
(***************************************************************************)
\* A second order for a target only ever rests because one of the two was lost:
\* no failure of its own makes the quoter place beside an order it could know of.
DoublesAreStrays ==
    \A o1, o2 \in exch : SlotOf[o1] = SlotOf[o2] /\ o1 # o2 => o1 \in strays \/ o2 \in strays

\* And an order that rests unknown while the lock is free is one of those lost,
\* whatever else fails around it.
UntrackedAreStrays == lock = "free" => exch \subseteq local \cup strays

\* The orders nothing went wrong with.
Solid == exch \ strays

\* Why: what SyncInv says of all resting orders holds of the solid ones under
\* every fault.
StrayInv ==
    /\ strays \subseteq exch
    /\ \A o1, o2 \in Solid : SlotOf[o1] = SlotOf[o2] => o1 = o2
    /\ ~Unreliable =>
          /\ hview # None => Solid \subseteq hview
          /\ qview # None => Solid \subseteq qview
          /\ rview # None => Solid \cap local \subseteq rview \cup young
    /\ qpc \in {"idle", "cancel", "pull", "place", "resync", "wipe"} => Solid \subseteq local
    /\ qpc = "placed" => Solid \subseteq local \cup acked
    /\ qpc \in {"quarantine", "forget"} => \A o \in Solid \ local : TokenOf[o] \in quar
    /\ qpc = "forget" => \A o \in Solid : TokenOf[o] # asset
    /\ qpc \in {"cancel", "place"} =>
          \A o \in Solid \ plan.cancel : SlotOf[o] \notin plan.place
    /\ qpc = "place" => plan.cancel = {}
    /\ qpc = "pull" => plan.place = {}
    /\ \A o \in Solid : "gone" \notin news[o]
=============================================================================
