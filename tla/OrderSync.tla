----------------------------- MODULE OrderSync ------------------------------
(***************************************************************************)
(* The open orders of one market: what rests on the exchange, what         *)
(* StateStore.orders believes, and the engine tasks that act on the belief *)
(* and repair it.  The quoter plans against local state, cancels, places   *)
(* and quarantines under the market lock; the reconcile loop applies a     *)
(* REST snapshot it read before it took the lock; the heartbeat loop       *)
(* resyncs after an outage; the user websocket reports orders in its own   *)
(* time.                                                                   *)
(*                                                                         *)
(* A slot is one order the strategy may want resting: a layer of bids or   *)
(* the exit of an outcome token.  Prices and sizes are abstracted to what  *)
(* the planner decides from them: which resting orders still satisfy a     *)
(* target.  An order id that nobody remembers any more may be used again,  *)
(* so Ids bounds the orders alive at one time, not the length of a run.    *)
(***************************************************************************)
EXTENDS Naturals, FiniteSets

CONSTANTS
    Tokens,        \* the two outcome tokens of the market (or one of them)
    Slots,         \* the quotes of a full target set
    Ids,           \* order ids
    TokenOf,       \* the token an order id is for
    SlotOf,        \* the quote it was placed for
    Faults,        \* what may go wrong in a run
    MaxRestarts,   \* bound on the number of restarts
    None           \* no answer yet

\* "cancel"   a cancel may fail, having cancelled some of its orders
\* "kept"     a cancel may succeed and leave some of its orders on the book
\* "all"      the cancel_all of a start may fail likewise
\* "asset"    a cancel_asset may fail, having cancelled some orders
\* "place"    a placement may fail or come back short, having posted some
\* "late"     an order of a failed placement may reach the book afterwards
\* "read"     an open-orders read may fail
\* "rows"     some rows of an open-orders read may not parse
\* "lag"      the read may lag the book
\* "slow"     a snapshot may be applied later than the grace after its read
\* "ws"       order events may be lost
\* "beat"     heartbeats may fail until the engine notices
\* "wipe"     too few may fail for that, and the exchange cancels all the same
\* "meta"     the market may close or move, and open again
AllFaults == {"cancel", "kept", "all", "asset", "place", "late", "read", "rows",
              "lag", "slow", "ws", "beat", "wipe", "meta"}

ASSUME OrderAssumption ==
    /\ TokenOf \in [Ids -> Tokens]
    /\ SlotOf \in [Ids -> Slots]
    /\ Faults \subseteq AllFaults
    /\ MaxRestarts \in Nat
    /\ None \notin Tokens
    /\ \A view \in SUBSET Ids : view # None

VARIABLES
    \* the exchange
    exch,       \* orders resting on the book
    replica,    \* the book as the read API last saw it
    transit,    \* orders of failed placements still on their way
    news,       \* order events sent and not yet delivered
    \* StateStore
    local,      \* StateStore.orders
    young,      \* local orders created less than the grace ago
    guarded,    \* tokens with in-flight trades
    \* the tasks
    lock,       \* the market lock
    qpc,        \* what the quoter is awaiting
    plan,       \* the plan it is executing
    acked,      \* the order ids in the answer to its placement
    quar,       \* tokens still to be quarantined
    asset,      \* the token whose cancel_asset has just returned
    qview,      \* the snapshot on its way to the quoter
    rpc, rview, \* the reconcile loop and its snapshot
    hb, hview,  \* the heartbeat loop and its snapshot
    halted,     \* the market is in Engine._halted
    closing,    \* tokens the metadata refresh has still to cancel
    restarts

exchVars  == <<exch, replica, transit>>
storeVars == <<local, young>>
quoteVars == <<qpc, plan, acked, quar, asset, qview>>
recVars   == <<rpc, rview>>
hbVars    == <<hb, hview>>
vars == <<exchVars, news, storeVars, guarded, lock, quoteVars, recVars, hbVars,
          halted, closing, restarts>>

NoPlan == [cancel |-> {}, place |-> {}]

-----------------------------------------------------------------------------
(***************************************************************************)
(* Helpers                                                                 *)
(***************************************************************************)
OrdersFor(orders, tok) == {o \in orders : TokenOf[o] = tok}

\* No party remembers the id, so the exchange may hand it out.
Fresh(o) ==
    /\ o \notin exch \cup replica \cup transit \cup local \cup plan.cancel \cup acked
    /\ news[o] = {}
    /\ \A view \in {qview, rview, hview} : view # None => o \notin view

\* One new id for each quote of a placement.
NewIds(slots) ==
    {CHOOSE o \in Ids : Fresh(o) /\ SlotOf[o] = q : q \in slots}

CanPlace(slots) == \A q \in slots : \E o \in Ids : Fresh(o) /\ SlotOf[o] = q

\* The book after some orders leave it; the exchange reports each.
Leave(gone) ==
    /\ exch' = exch \ gone
    /\ news' = [o \in Ids |-> IF o \in gone \cap exch THEN news[o] \cup {"gone"}
                                                      ELSE news[o]]

\* The book after some orders join it.
Join(new) ==
    /\ exch' = exch \cup new
    /\ news' = [o \in Ids |-> IF o \in new THEN news[o] \cup {"live"} ELSE news[o]]

\* What an open-orders read may return now.
Snapshots ==
    LET book == IF "lag" \in Faults THEN replica ELSE exch
    IN  {book} \cup IF "rows" \in Faults THEN (SUBSET book) \ {{}} ELSE {}

\* mutant: the snapshot is trusted about orders of any age.
ReplaceWithoutGrace(toks, view, spared) ==
    LET adopted == {o \in view : TokenOf[o] \in toks}
    IN  /\ local' = adopted \cup {o \in local : TokenOf[o] \notin toks}
        /\ young' = (young \cap local') \cup adopted

\* mutant: orders the snapshot does not list are never dropped.
ReplaceNeverDrops(toks, view, spared) ==
    LET adopted == {o \in view : TokenOf[o] \in toks}
    IN  /\ local' = local \cup adopted
        /\ young' = young \cup adopted

\* replace_open_orders: adopt the snapshot; of the orders it does not list,
\* only those in spared survive.  Adopted orders count as just created.
Replace(toks, view, spared) ==
    LET adopted == {o \in view : TokenOf[o] \in toks}
    IN  /\ local' = adopted \cup {o \in local : TokenOf[o] \notin toks \/ o \in spared}
        /\ young' = (young \cap local') \cup adopted

Forget(gone) ==
    /\ local' = local \ gone
    /\ young' = young \ gone

Remember(new) ==
    /\ local' = local \cup new
    /\ young' = young \cup new

\* mutant: a way out of _recompute that keeps the lock.
ReleaseKeepsLock ==
    /\ UNCHANGED lock
    /\ qpc' = "idle"
    /\ plan' = NoPlan
    /\ acked' = {}

\* The quoter returns from _recompute and lets go of the lock.
Release ==
    /\ lock' = "free"
    /\ qpc' = "idle"
    /\ plan' = NoPlan
    /\ acked' = {}

\* mutant: a halted market is not blind.
BlindIgnoresHalt == hb = "down"

\* hb_blind or halted: the regime is HALTED and the target set empty.
Blind == halted \/ hb = "down"

-----------------------------------------------------------------------------
Init ==
    /\ exch = {}
    /\ replica = {}
    /\ transit = {}
    /\ news = [o \in Ids |-> {}]
    /\ local = {}
    /\ young = {}
    /\ guarded = {}
    /\ lock = "free"
    /\ qpc = "idle"
    /\ plan = NoPlan
    /\ acked = {}
    /\ quar = {}
    /\ asset = None
    /\ qview = None
    /\ rpc = "idle"
    /\ rview = None
    /\ hb = "up"
    /\ hview = None
    /\ halted = FALSE
    /\ closing = {}
    /\ restarts = 0

-----------------------------------------------------------------------------
(***************************************************************************)
(* The quoter: Engine._recompute_locked                                    *)
(***************************************************************************)
\* reconcile(): at most one resting order per target is kept, the others are
\* cancelled, the targets left are placed.  The choice of keep stands for the
\* price and size tolerances, the choice of want for the strategy.  Which
\* layer of a token an order counts for is immaterial: only how many.
StartRequote ==
    /\ lock = "free"
    /\ qpc = "idle"
    /\ \E want \in SUBSET Slots, keep \in SUBSET local :
          /\ Blind => want = {}
          /\ \A o \in keep : SlotOf[o] \in want
          /\ \A o1, o2 \in keep : SlotOf[o1] = SlotOf[o2] => o1 = o2
          /\ LET place == want \ {SlotOf[o] : o \in keep}
                 cancel == local \ keep
             IN  /\ cancel # {} \/ place # {}
                 /\ CanPlace(place)
                 /\ plan' = [cancel |-> cancel, place |-> place]
                 /\ qpc' = IF cancel # {} THEN "cancel" ELSE "place"
    /\ lock' = "quoter"
    /\ UNCHANGED <<exchVars, news, storeVars, guarded, acked, quar, asset, qview,
                   recVars, hbVars, halted, closing, restarts>>

\* _pull_all_quotes: the book is unusable, every known order is cancelled.
StartPull ==
    /\ lock = "free"
    /\ qpc = "idle"
    /\ local # {}
    /\ plan' = [cancel |-> local, place |-> {}]
    /\ qpc' = "pull"
    /\ lock' = "quoter"
    /\ UNCHANGED <<exchVars, news, storeVars, guarded, acked, quar, asset, qview,
                   recVars, hbVars, halted, closing, restarts>>

\* gateway.cancel returned True: the orders leave the book, but for those the
\* answer, which is not read, lists as not cancelled; all leave local state.
CancelOk ==
    /\ qpc \in {"cancel", "pull"}
    /\ \E done \in SUBSET plan.cancel :
          /\ "kept" \notin Faults => done = plan.cancel
          /\ Leave(done)
    /\ Forget(plan.cancel)
    /\ \/ /\ plan.place # {}
          /\ qpc' = "place"
          /\ plan' = [plan EXCEPT !.cancel = {}]
          /\ UNCHANGED <<lock, acked>>
       \/ /\ plan.place = {}
          /\ Release
    /\ UNCHANGED <<replica, transit, guarded, quar, asset, qview, recVars, hbVars,
                   halted, closing, restarts>>

\* mutant: a failed cancel does not keep the quoter from placing.
CancelFailsPlacesOn ==
    /\ "cancel" \in Faults
    /\ qpc = "cancel"
    /\ \E done \in SUBSET plan.cancel : Leave(done)
    /\ qpc' = "place"
    /\ UNCHANGED <<replica, transit, storeVars, guarded, lock, plan, acked, quar,
                   asset, qview, recVars, hbVars, halted, closing, restarts>>

\* gateway.cancel returned False: local state is kept, nothing is placed, and
\* a requote resyncs from REST.
CancelFails ==
    /\ "cancel" \in Faults
    /\ \E done \in SUBSET plan.cancel : Leave(done)
    /\ \/ /\ qpc = "cancel"
          /\ qpc' = "resync"
          /\ UNCHANGED <<lock, plan, acked>>
       \/ /\ qpc = "pull"
          /\ Release
    /\ UNCHANGED <<replica, transit, storeVars, guarded, quar, asset, qview,
                   recVars, hbVars, halted, closing, restarts>>

\* The order budget is under pressure: new quotes are left out this time.
ShedLoad ==
    /\ qpc = "place"
    /\ Release
    /\ UNCHANGED <<exchVars, news, storeVars, guarded, quar, asset, qview, recVars,
                   hbVars, halted, closing, restarts>>

\* The exchange takes every order of the placement; its answer is on its way.
PostOrders ==
    /\ qpc = "place"
    /\ CanPlace(plan.place)
    /\ Join(NewIds(plan.place))
    /\ acked' = NewIds(plan.place)
    /\ qpc' = "placed"
    /\ UNCHANGED <<replica, transit, storeVars, guarded, lock, plan, quar, asset,
                   qview, recVars, hbVars, halted, closing, restarts>>

\* The placement fails or comes back short: some orders are on the book, ids
\* are known for fewer than were asked, some may still be on their way.
PostSome ==
    /\ "place" \in Faults
    /\ qpc = "place"
    /\ CanPlace(plan.place)
    /\ LET new == NewIds(plan.place)
       IN  \E posted \in SUBSET new :
           /\ Join(posted)
           /\ acked' \in (SUBSET posted) \ {new}
           /\ transit' = IF "late" \in Faults THEN transit \cup (new \ posted)
                                              ELSE transit
    /\ qpc' = "short"
    /\ UNCHANGED <<replica, storeVars, guarded, lock, plan, quar, asset, qview,
                   recVars, hbVars, halted, closing, restarts>>

\* gateway.place returns; a short answer is followed by a quarantine.
PlaceReturns ==
    /\ Remember(acked)
    /\ \/ /\ qpc = "placed"
          /\ Release
          /\ UNCHANGED quar
       \/ /\ qpc = "short"
          /\ qpc' = "quarantine"
          /\ quar' = Tokens
          /\ acked' = {}
          /\ UNCHANGED <<lock, plan>>
    /\ UNCHANGED <<exchVars, news, guarded, asset, qview, recVars, hbVars, halted,
                   closing, restarts>>

\* _quarantine, one token: cancel_asset, whose result is not looked at ...
CancelAsset(tok) ==
    /\ qpc = "quarantine"
    /\ tok \in quar
    /\ \E done \in SUBSET OrdersFor(exch, tok) :
          /\ "asset" \notin Faults => done = OrdersFor(exch, tok)
          /\ Leave(done)
    /\ asset' = tok
    /\ qpc' = "forget"
    /\ UNCHANGED <<replica, transit, storeVars, guarded, lock, plan, acked, quar,
                   qview, recVars, hbVars, halted, closing, restarts>>

\* ... then the token's orders are forgotten.
ForgetAsset ==
    /\ qpc = "forget"
    /\ Forget(OrdersFor(local, asset))
    /\ quar' = quar \ {asset}
    /\ asset' = None
    /\ qpc' = IF quar' = {} THEN "wipe" ELSE "quarantine"
    /\ UNCHANGED <<exchVars, news, guarded, lock, plan, acked, qview, recVars,
                   hbVars, halted, closing, restarts>>

\* _refresh_token_orders: the snapshot is read ...
ServeQuoter ==
    /\ qpc \in {"resync", "wipe"}
    /\ qview = None
    /\ qview' \in Snapshots
    /\ UNCHANGED <<exchVars, news, storeVars, guarded, lock, qpc, plan, acked, quar,
                   asset, recVars, hbVars, halted, closing, restarts>>

\* ... and applied, with the grace after a failed cancel and without it in a
\* quarantine ...
QuoterResync ==
    /\ qview # None
    /\ Replace(Tokens, qview, IF qpc = "resync" THEN young ELSE {})
    /\ qview' = None
    /\ Release
    /\ UNCHANGED <<exchVars, news, guarded, quar, asset, recVars, hbVars, halted,
                   closing, restarts>>

\* mutant: a failed read passes for an empty book.
QuoterReadFailsAsEmpty ==
    /\ "read" \in Faults
    /\ qpc \in {"resync", "wipe"}
    /\ qview = None
    /\ local' = {}
    /\ young' = {}
    /\ Release
    /\ UNCHANGED <<exchVars, news, guarded, quar, asset, qview, recVars, hbVars,
                   halted, closing, restarts>>

\* ... or unreadable, and local state is left as it is.
QuoterReadFails ==
    /\ "read" \in Faults
    /\ qpc \in {"resync", "wipe"}
    /\ qview = None
    /\ Release
    /\ UNCHANGED <<exchVars, news, storeVars, guarded, quar, asset, qview, recVars,
                   hbVars, halted, closing, restarts>>

-----------------------------------------------------------------------------
(***************************************************************************)
(* The reconcile loop, open orders                                         *)
(***************************************************************************)
RequestOrders ==
    /\ rpc = "idle"
    /\ rpc' = "read"
    /\ UNCHANGED <<exchVars, news, storeVars, guarded, lock, quoteVars, rview,
                   hbVars, halted, closing, restarts>>

ServeReconcile ==
    /\ rpc = "read"
    /\ rview = None
    /\ rview' \in Snapshots
    /\ UNCHANGED <<exchVars, news, storeVars, guarded, lock, quoteVars, rpc,
                   hbVars, halted, closing, restarts>>

ReconcileReadFails ==
    /\ "read" \in Faults
    /\ rpc = "read"
    /\ rview = None
    /\ rpc' = "idle"
    /\ UNCHANGED <<exchVars, news, storeVars, guarded, lock, quoteVars, rview,
                   hbVars, halted, closing, restarts>>

\* The lock is free: the snapshot read before replaces the orders of every
\* token without in-flight trades.
ReconcileOrders ==
    /\ rview # None
    /\ lock = "free"
    /\ Replace(Tokens \ guarded, rview, young)
    /\ rview' = None
    /\ rpc' = "idle"
    /\ UNCHANGED <<exchVars, news, guarded, lock, quoteVars, hbVars, halted,
                   closing, restarts>>

-----------------------------------------------------------------------------
(***************************************************************************)
(* The heartbeat loop                                                      *)
(***************************************************************************)
\* heartbeat_halt_failures consecutive failures.
HeartbeatLost ==
    /\ "beat" \in Faults
    /\ hb = "up"
    /\ hb' = "down"
    /\ UNCHANGED <<exchVars, news, storeVars, guarded, lock, quoteVars, recVars,
                   hview, halted, closing, restarts>>

\* The exchange's dead-man switch, whether or not the engine has counted enough
\* failures to halt.
AutoCancel ==
    /\ hb = "down" \/ "wipe" \in Faults
    /\ exch # {}
    /\ Leave(exch)
    /\ UNCHANGED <<replica, transit, storeVars, guarded, lock, quoteVars,
                   recVars, hbVars, halted, closing, restarts>>

\* A heartbeat succeeds: the quoter is no longer blind, a resync is due.
HeartbeatRecovers ==
    /\ hb = "down"
    /\ hb' = "resync"
    /\ UNCHANGED <<exchVars, news, storeVars, guarded, lock, quoteVars, recVars,
                   hview, halted, closing, restarts>>

HeartbeatLocks ==
    /\ hb = "resync"
    /\ lock = "free"
    /\ lock' = "heartbeat"
    /\ hb' = "read"
    /\ UNCHANGED <<exchVars, news, storeVars, guarded, quoteVars, recVars,
                   hview, halted, closing, restarts>>

ServeHeartbeat ==
    /\ hb = "read"
    /\ hview = None
    /\ hview' \in Snapshots
    /\ UNCHANGED <<exchVars, news, storeVars, guarded, lock, quoteVars, recVars,
                   hb, halted, closing, restarts>>

HeartbeatResync ==
    /\ hview # None
    /\ Replace(Tokens, hview, {})
    /\ hview' = None
    /\ hb' = "up"
    /\ lock' = "free"
    /\ UNCHANGED <<exchVars, news, guarded, quoteVars, recVars, halted, closing, restarts>>

HeartbeatReadFails ==
    /\ "read" \in Faults
    /\ hb = "read"
    /\ hview = None
    /\ hb' = "up"
    /\ lock' = "free"
    /\ UNCHANGED <<exchVars, news, storeVars, guarded, quoteVars, recVars,
                   hview, halted, closing, restarts>>

-----------------------------------------------------------------------------
(***************************************************************************)
(* The user websocket: UserEventProcessor.on_order                         *)
(***************************************************************************)
OnOrderLive(o) ==
    /\ "live" \in news[o]
    /\ news' = [news EXCEPT ![o] = @ \ {"live"}]
    /\ Remember({o})
    /\ UNCHANGED <<exchVars, guarded, lock, quoteVars, recVars, hbVars, halted,
                   closing, restarts>>

\* Events of one order arrive in the order they were sent.
OnOrderGone(o) ==
    /\ news[o] = {"gone"}
    /\ news' = [news EXCEPT ![o] = {}]
    /\ Forget({o})
    /\ UNCHANGED <<exchVars, guarded, lock, quoteVars, recVars, hbVars, halted,
                   closing, restarts>>

\* The link drops: what was under way is lost and not replayed.
LoseEvents ==
    /\ "ws" \in Faults
    /\ \E o \in Ids : news[o] # {}
    /\ news' = [o \in Ids |-> {}]
    /\ UNCHANGED <<exchVars, storeVars, guarded, lock, quoteVars, recVars,
                   hbVars, halted, closing, restarts>>

-----------------------------------------------------------------------------
(***************************************************************************)
(* The exchange, the other tasks, time                                     *)
(***************************************************************************)
\* A taker fills a resting order, wholly or in part; the fill puts trades in
\* flight and the order's event reports what remains.
Fill(o) ==
    /\ o \in exch
    /\ Leave({o}) \/ Join({o})
    /\ guarded' = guarded \cup {TokenOf[o]}
    /\ UNCHANGED <<replica, transit, storeVars, lock, quoteVars, recVars,
                   hbVars, halted, closing, restarts>>

\* The token's trades settle, fail or expire.
GuardEnds(tok) ==
    /\ tok \in guarded
    /\ guarded' = guarded \ {tok}
    /\ UNCHANGED <<exchVars, news, storeVars, lock, quoteVars, recVars, hbVars,
                   halted, closing, restarts>>

\* An order of a failed placement reaches the book after all.
LandLate(o) ==
    /\ o \in transit
    /\ Join({o})
    /\ transit' = transit \ {o}
    /\ UNCHANGED <<replica, storeVars, guarded, lock, quoteVars, recVars,
                   hbVars, halted, closing, restarts>>

\* ... or never does.
NeverLands(o) ==
    /\ o \in transit
    /\ transit' = transit \ {o}
    /\ UNCHANGED <<exch, replica, news, storeVars, guarded, lock, quoteVars,
                   recVars, hbVars, halted, closing, restarts>>

\* The read API catches up with the book.
CatchUp ==
    /\ "lag" \in Faults
    /\ replica # exch
    /\ replica' = exch
    /\ UNCHANGED <<exch, transit, news, storeVars, guarded, lock, quoteVars,
                   recVars, hbVars, halted, closing, restarts>>

\* The grace of a local order lapses.  Unless snapshots may be slow it does
\* not while a snapshot that may predate the order is on its way.
GraceLapses(o) ==
    /\ o \in young
    /\ "slow" \notin Faults =>
          /\ qview = None /\ rview = None /\ hview = None
          /\ "lag" \in Faults => o \in replica \/ o \notin exch
    /\ young' = young \ {o}
    /\ UNCHANGED <<exchVars, news, local, guarded, lock, quoteVars, recVars,
                   hbVars, halted, closing, restarts>>

\* refresh_market_metadata: the market closed or moved.  Its tokens are
\* cancelled one after the other, without the market lock and whether or not
\* a cancel succeeds.
MetaHalt ==
    /\ "meta" \in Faults
    /\ ~halted
    /\ halted' = TRUE
    /\ closing' = Tokens
    /\ UNCHANGED <<exchVars, news, storeVars, guarded, lock, quoteVars, recVars,
                   hbVars, restarts>>

MetaCancels(tok) ==
    /\ tok \in closing
    /\ closing' = closing \ {tok}
    /\ \E done \in SUBSET OrdersFor(exch, tok) : Leave(done)
    /\ UNCHANGED <<replica, transit, storeVars, guarded, lock, quoteVars,
                   recVars, hbVars, halted, restarts>>

\* A later refresh finds the market open.
MetaResume ==
    /\ halted
    /\ closing = {}
    /\ halted' = FALSE
    /\ UNCHANGED <<exchVars, news, storeVars, guarded, lock, quoteVars, recVars,
                   hbVars, closing, restarts>>

\* What local state may list after a start that left some orders resting: what
\* the second read lists if the tokens were cancelled in vain, and nothing if
\* a read failed.
StartupViews(left) ==
    (IF left = {} \/ "asset" \in Faults \/ "lag" \in Faults
     THEN {left} \cup (IF "rows" \in Faults THEN SUBSET left ELSE {})
                \cup (IF "lag" \in Faults THEN {replica} ELSE {})
     ELSE {})
    \cup (IF "read" \in Faults THEN {{}} ELSE {})

\* Crash and restart.  _startup_reconcile: cancel_all, errors suppressed; if
\* the book can be read and is not empty, cancel_asset each of its tokens and
\* adopt what a second read lists; an unreadable book is passed over.  Orders
\* and their events are not persisted; a placement under way may still land.
Restart ==
    /\ restarts < MaxRestarts
    /\ restarts' = restarts + 1
    /\ \E left \in SUBSET exch :
          /\ left # {} => "all" \in Faults
          /\ exch' = left
          /\ local' \in StartupViews(left)
    /\ news' = [o \in Ids |-> {}]
    /\ young' = local'
    /\ transit' \in {transit} \cup
          IF "late" \in Faults /\ qpc = "place" /\ CanPlace(plan.place)
          THEN {transit \cup NewIds(plan.place)} ELSE {}
    /\ guarded' = {}
    /\ Release
    /\ quar' = {}
    /\ asset' = None
    /\ qview' = None
    /\ rpc' = "idle"
    /\ rview' = None
    /\ hb' = "up"
    /\ hview' = None
    /\ halted' = FALSE
    /\ closing' = {}
    /\ UNCHANGED replica

-----------------------------------------------------------------------------
Quoter ==
    \/ StartRequote \/ StartPull
    \/ CancelOk \/ CancelFails
    \/ ShedLoad \/ PostOrders \/ PostSome \/ PlaceReturns
    \/ ForgetAsset \/ \E tok \in Tokens : CancelAsset(tok)
    \/ ServeQuoter \/ QuoterResync \/ QuoterReadFails

Reconciler ==
    RequestOrders \/ ServeReconcile \/ ReconcileReadFails \/ ReconcileOrders

Heartbeat ==
    \/ HeartbeatLost \/ HeartbeatRecovers \/ HeartbeatLocks
    \/ ServeHeartbeat \/ HeartbeatResync \/ HeartbeatReadFails

UserStream == LoseEvents \/ \E o \in Ids : OnOrderLive(o) \/ OnOrderGone(o)

Environment ==
    \/ AutoCancel \/ CatchUp \/ MetaHalt \/ MetaResume
    \/ \E tok \in Tokens : GuardEnds(tok) \/ MetaCancels(tok)
    \/ \E o \in Ids : Fill(o) \/ LandLate(o) \/ NeverLands(o) \/ GraceLapses(o)

Next == Quoter \/ Reconciler \/ Heartbeat \/ UserStream \/ Environment \/ Restart

Spec == Init /\ [][Next]_vars

(***************************************************************************)
(* What the tasks and their surroundings go on doing.  The quoter ticks    *)
(* and asyncio.Lock is first come first served, so a blind quoter gets to  *)
(* cancel what it knows of (a seeing one need not change anything);        *)
(* whoever holds the lock, or awaits an answer, goes on; not every cancel  *)
(* fails or leaves its orders; time passes; the read API catches up.  Of   *)
(* the environment one thing is assumed: again and again a reconcile round *)
(* gets its answer and finds no trade in flight.  Nothing is asked of the  *)
(* user websocket, of the heartbeats or of the exchange.                   *)
(***************************************************************************)
QuoterGoesOn == lock = "quoter" /\ Quoter

CleanRound == ReconcileOrders /\ guarded = {}

Fairness ==
    /\ SF_vars(Blind /\ StartRequote)
    /\ WF_vars(QuoterGoesOn)
    /\ SF_vars(CancelOk /\ plan.cancel \cap exch' = {})
    /\ []<><<CleanRound>>_vars
    /\ WF_vars(ServeHeartbeat)
    /\ WF_vars(HeartbeatResync)
    /\ WF_vars(CatchUp)
    /\ \A o \in Ids : SF_vars(GraceLapses(o)) /\ WF_vars(LandLate(o) \/ NeverLands(o))

FairSpec == Spec /\ Fairness

-----------------------------------------------------------------------------
(***************************************************************************)
(* Properties                                                              *)
(***************************************************************************)
Awaits == {"cancel", "pull", "place", "placed", "short", "quarantine", "forget",
           "wipe", "resync"}

\* The market lock is held by exactly the task that is inside its critical
\* section, and only there is a snapshot awaited under the lock.
LockDiscipline ==
    /\ lock = IF qpc \in Awaits THEN "quoter"
              ELSE IF hb = "read" THEN "heartbeat" ELSE "free"
    /\ hb = "read" => qpc = "idle"
    /\ hview # None => hb = "read"
    /\ qview # None => qpc \in {"resync", "wipe"}

\* Types, and who holds the lock.
TypeOK ==
    /\ exch \subseteq Ids
    /\ replica \subseteq Ids
    /\ transit \subseteq Ids
    /\ news \in [Ids -> SUBSET {"live", "gone"}]
    /\ local \subseteq Ids
    /\ young \subseteq local
    /\ guarded \subseteq Tokens
    /\ qpc \in {"idle"} \cup Awaits
    /\ plan \in [cancel : SUBSET Ids, place : SUBSET Slots]
    /\ acked \subseteq Ids
    /\ quar \subseteq Tokens
    /\ asset \in Tokens \cup {None}
    /\ qview \in {None} \cup SUBSET Ids
    /\ rpc \in {"idle", "read"}
    /\ rview \in {None} \cup SUBSET Ids
    /\ hb \in {"up", "down", "resync", "read"}
    /\ hview \in {None} \cup SUBSET Ids
    /\ halted \in BOOLEAN
    /\ closing \subseteq Tokens
    /\ restarts \in 0 .. MaxRestarts
    /\ LockDiscipline

\* Under the faults in Tolerated (failing cancels, placements, reads, events and
\* heartbeats among them) the market never has two live orders for one target:
\* the quoter never places beside an order it has forgotten.
NoDoubleQuote ==
    \A o1, o2 \in exch : SlotOf[o1] = SlotOf[o2] => o1 = o2

\* Whenever no task holds the market lock, every order resting on the exchange
\* is in local state, where the next requote sees it.
Tracked == lock = "free" => exch \subseteq local

\* The faults under which the market is quoted once and nothing is untracked.
Tolerated == {"cancel", "place", "read", "ws", "beat", "wipe", "meta"}

\* Why NoDoubleQuote and Tracked hold: whoever may apply a snapshot holds one
\* that misses no resting order old enough to be dropped, a plan cancels all
\* that rests where it places, orders without a known id only rest on tokens
\* the quarantine has still to cancel, and one task is inside the lock.
SyncInv ==
    /\ NoDoubleQuote
    /\ transit = {}
    /\ hview # None => exch \subseteq hview
    /\ qview # None => exch \subseteq qview
    /\ rview # None => exch \cap local \subseteq rview \cup young
    /\ qpc \in {"idle", "cancel", "pull", "place", "resync", "wipe"} => exch \subseteq local
    /\ qpc = "placed" => exch \subseteq local \cup acked
    /\ qpc \in {"quarantine", "forget"} =>
          \A o \in exch \ local : TokenOf[o] \in quar
    /\ qpc = "forget" => \A o \in exch : TokenOf[o] # asset
    /\ qpc \in {"cancel", "place"} =>
          \A o \in exch \ plan.cancel : SlotOf[o] \notin plan.place
    /\ qpc = "place" => plan.cancel = {}
    /\ qpc = "pull" => plan.place = {}
    /\ \A o \in exch : "gone" \notin news[o]

\* Belief and book meet on every order again and again: an order resting on
\* the exchange unknown to local state is found (or leaves), and an order that
\* is only believed to rest is dropped, so that its quote is placed anew.
BeliefCatchesUp ==
    \A o \in Ids : []<>(o \in local <=> o \in exch)

\* A halt that lasts empties the exchange for good, whatever was untracked, in
\* flight or failing when it came.
HaltClearsExchange == <>[]halted => <>[](exch = {})
=============================================================================
