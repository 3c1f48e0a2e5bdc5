----------------------------- MODULE Lifecycle ------------------------------
(***************************************************************************)
(* The engine's tasks from start to shutdown: the supervisor that restarts *)
(* what has ended, run_forever that waits for all of them, and shutdown    *)
(* that cancels them while the threads of the client pool and of the       *)
(* merges go on.  Each market's quoter posts one order at a time through   *)
(* the pool; the requests of the other loops are left out, they rest no    *)
(* order.                                                                  *)
(***************************************************************************)
EXTENDS Merging, FiniteSets

CONSTANTS
    Quoting,    \* bound: the markets whose quoters place orders
    Threads     \* max_workers of the client pool

ASSUME PoolAssumption ==
    Quoting \subseteq Markets /\ Threads \in Nat \ {0}

\* heartbeat returns at once where it is switched off; the websocket,
\* reconcile, metadata and maintenance loops ("loop") raise what they do not
\* catch.  A quoter catches everything.
Loops == {"heartbeat", "loop"}
Tasks == Loops \cup {"supervisor"} \cup Markets

VARIABLES
    phase,      \* "start", "up", then the steps of shutdown
    task,       \* Engine._tasks
    pool,       \* whether the client pool takes work
    call,       \* each quoter's request, as far as the pool is concerned
    rests,      \* whether an order of the quoter rests on the exchange
    failed,     \* a task that run_forever awaits has raised
    gaveUp      \* the drain was given up on

procVars == <<phase, task, failed, gaveUp>>
poolVars == <<pool, call, rests>>
vars == <<mergeVars, procVars, poolVars>>

Everyone(s) == [n \in Tasks |-> s]

Init ==
    /\ InitMerging
    /\ phase = "start"
    /\ task = Everyone("unborn")
    /\ pool = "open"
    /\ call = [c \in Markets |-> "none"]
    /\ rests = [c \in Markets |-> FALSE]
    /\ failed = FALSE
    /\ gaveUp = FALSE

\* start spawns every task, and run_forever gathers them.
Start ==
    /\ phase = "start"
    /\ phase' = "up"
    /\ running' = TRUE
    /\ task' = Everyone("live")
    /\ UNCHANGED <<wallet, heldVars, taskVars, chainVars, moved, poolVars, failed, gaveUp>>

-----------------------------------------------------------------------------
(* Loops that end, and the supervisor *)

Dies(n) == n \in Loops /\ phase = "up" /\ task[n] = "live"

\* _heartbeat_loop returns at once unless engine.heartbeat is set.
LoopReturns ==
    /\ Dies("heartbeat")
    /\ task' = [task EXCEPT !["heartbeat"] = "returned"]
    /\ UNCHANGED <<mergeVars, poolVars, phase, failed, gaveUp>>

\* _metadata_refresh_loop and its like: what they do not catch ends them.  The
\* first task of theirs that raises is one that run_forever awaits, which is not
\* true of those the supervisor starts.
LoopRaises ==
    /\ Dies("loop")
    /\ task' = [task EXCEPT !["loop"] = "raised"]
    /\ failed' = TRUE
    /\ UNCHANGED <<mergeVars, poolVars, phase, gaveUp>>

\* shutdown, up to what it drains: every task is cancelled and awaited, none
\* getting beyond what it awaits; the client's pool takes no more work and drops
\* what is queued.  The threads go on.
BeginShutdown ==
    /\ phase' = "draining"
    /\ running' = FALSE
    /\ task' = Everyone("cancelled")
    /\ failed' = FALSE
    /\ CancelMerges
    /\ pool' = "shut"
    /\ call' = [c \in Markets |-> IF call[c] = "queued" THEN "none" ELSE call[c]]
    /\ UNCHANGED <<rests, gaveUp>>

\* gather hands the exception on, run_forever raises it, and the program shuts
\* down; the supervisor may have looked in between.
RunForeverEnds == phase = "up" /\ failed /\ BeginShutdown

EndedByError(n) == task[n] = "raised"
Ended(n) == task[n] \in {"returned", "raised"}

\* _supervise, every five seconds.
Supervise(n) ==
    /\ phase = "up"
    /\ running
    /\ task["supervisor"] = "live"
    /\ n # "supervisor"
    /\ Ended(n)
    /\ task' = [task EXCEPT ![n] = "live"]
    /\ UNCHANGED <<mergeVars, poolVars, phase, failed, gaveUp>>

-----------------------------------------------------------------------------
(* Quoters and the pool *)

Busy == {c \in Markets : call[c] \in {"sending", "sent"}}

\* One that has been told of its order posts no other.
QuoterPosts(c) ==
    /\ c \in Quoting
    /\ phase = "up"
    /\ task[c] = "live"
    /\ call[c] = "none"
    /\ ~rests[c]
    /\ call' = [call EXCEPT ![c] = "queued"]
    /\ UNCHANGED <<mergeVars, procVars, pool, rests>>

\* A quoter that awaits no answer comes to the end of its requote.
QuoterMerges(c) ==
    /\ task[c] = "live"
    /\ call[c] = "none"
    /\ MaybeMerge(c)
    /\ UNCHANGED <<procVars, poolVars>>

ThreadTakes(c) ==
    /\ call[c] = "queued"
    /\ Cardinality(Busy) < Threads
    /\ call' = [call EXCEPT ![c] = "sending"]
    /\ UNCHANGED <<mergeVars, procVars, pool, rests>>

\* The exchange accepts the order, or refuses it, if the request does not hang;
\* the answer is still to come.
Decided(c) ==
    /\ call[c] = "sending"
    /\ call' = [call EXCEPT ![c] = "sent"]
    /\ \E accepted \in BOOLEAN : rests' = [rests EXCEPT ![c] = accepted]
    /\ UNCHANGED <<mergeVars, procVars, pool>>

\* The thread ends; whoever still awaits it learns what rests.
Answered(c) ==
    /\ call[c] = "sent"
    /\ call' = [call EXCEPT ![c] = "none"]
    /\ UNCHANGED <<mergeVars, procVars, pool, rests>>

-----------------------------------------------------------------------------
(* The end *)

\* SIGINT cancels run_forever; its caller then shuts the engine down.
Interrupt == phase = "up" /\ BeginShutdown

DrainUnwaited ==
    /\ phase = "draining"
    /\ phase' = "clearing"
    /\ UNCHANGED <<mergeVars, poolVars, task, failed, gaveUp>>

Drained ==
    /\ phase = "draining"
    /\ Busy = {}
    /\ phase' = "clearing"
    /\ UNCHANGED <<mergeVars, poolVars, task, failed, gaveUp>>

DrainGivesUpWhenDone ==
    /\ phase = "draining"
    /\ Busy = {}
    /\ phase' = "clearing"
    /\ gaveUp' = TRUE
    /\ UNCHANGED <<mergeVars, poolVars, task, failed>>

\* Ten seconds are over.
DrainGivesUp ==
    /\ phase = "draining"
    /\ Busy # {}
    /\ phase' = "clearing"
    /\ gaveUp' = TRUE
    /\ UNCHANGED <<mergeVars, poolVars, task, failed>>

\* cancel_all is work for the pool like any other call: a pool that was shut
\* down raises, and the exception is suppressed.
ClearAndClose ==
    /\ phase = "clearing"
    /\ phase' = "closed"
    /\ rests' = IF pool = "open" THEN [c \in Markets |-> FALSE] ELSE rests
    /\ UNCHANGED <<mergeVars, pool, call, task, failed, gaveUp>>

-----------------------------------------------------------------------------
ClientStep(c) ==
    \/ QuoterPosts(c) \/ QuoterMerges(c)
    \/ ThreadTakes(c) \/ Decided(c) \/ Answered(c)

Shutdown == RunForeverEnds \/ Drained \/ DrainGivesUp \/ ClearAndClose

Next ==
    \/ Start \/ LoopReturns \/ LoopRaises \/ Interrupt \/ Shutdown
    \/ \E n \in Tasks : Supervise(n)
    \/ \E c \in Markets : ClientStep(c) \/ (MergeStep(c) /\ UNCHANGED <<procVars, poolVars>>)

Spec == Init /\ [][Next]_vars

(***************************************************************************)
(* The event loop goes on, and the chain lock is first come first served.  *)
(* HTTP and receipt timeouts bound every step of a merge but the           *)
(* relayer's, of which nothing is assumed; nor is anything assumed of the  *)
(* client's requests, which may hang.                                      *)
(***************************************************************************)
MergeGoesOn(c) ==
    \/ BalancesRead(c) \/ BalancesUnreadable(c)
    \/ SignsV1(c) \/ SignsV2(c) \/ (wallet # "deposit" /\ CannotSend(c))
    \/ Sends(c) \/ SendFails(c)
    \/ Mined(c) \/ Reverted(c) \/ ReceiptTimesOut(c)
    \/ ThreadEnds(c)

Elsewhere == UNCHANGED <<procVars, poolVars>>

Fairness ==
    /\ WF_vars(Shutdown)
    /\ WF_vars(\E n \in Tasks : Supervise(n))
    /\ WF_vars(Elsewhere /\ \E c \in Markets : MergeGoesOn(c))
    /\ \A c \in Markets : SF_vars(Elsewhere /\ TakeLock(c))

FairSpec == Spec /\ Fairness

-----------------------------------------------------------------------------
(***************************************************************************)
(* Properties                                                              *)
(***************************************************************************)
Leaving == {"draining", "clearing", "closed"}

\* Types, and what holds of the tasks of each phase: none is left once
\* shutdown has awaited them, a mark in _merging and the chain lock belong to
\* a task that is there, and work queues in the pool only until it is shut.
TypeOK ==
    /\ MergeTypeOK
    /\ phase \in {"start", "up"} \cup Leaving
    /\ task \in [Tasks -> {"unborn", "live", "returned", "raised", "cancelled"}]
    /\ failed \in BOOLEAN
    /\ pool \in {"open", "shut"}
    /\ call \in [Markets -> {"none", "queued", "sending", "sent"}]
    /\ rests \in [Markets -> BOOLEAN]
    /\ gaveUp \in BOOLEAN
    /\ running <=> phase = "up"
    /\ phase \in Leaving => task = Everyone("cancelled") /\ merging = {}
    /\ merging = {c \in Markets : mtask[c] # "none"}
    /\ \A c \in Markets : chainLock = c <=> mtask[c] \in {"reads", "sends"}
    /\ pool = "shut" => \A c \in Markets : call[c] # "queued"

\* After the drain an order lands only from a request the drain gave up on.
LateOnlyIfHung ==
    [][\A c \in Markets :
          phase \in {"clearing", "closed"} /\ ~rests[c] /\ rests'[c] => gaveUp]_vars

\* Shutdown comes to its end though requests and merges hang.
ShutdownEnds == []<>(phase \notin {"draining", "clearing"})

\* A loop that has ended runs again, or the program leaves.
LoopsComeBack == \A n \in Loops : []<>(task[n] \notin {"returned", "raised"})

\* No market is shut out from merging for ever: its task gets the chain lock,
\* ends, and takes the mark off, however its transaction fares (the relayer is
\* trusted in nothing).
MergesEnd == \A c \in Markets : []<>(c \notin merging \/ wallet = "deposit")
=============================================================================
