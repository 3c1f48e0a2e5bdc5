--------------------------- MODULE OrderSyncProofs ---------------------------
(***************************************************************************)
(* OrderSync for any market, any order ids and any number of restarts: its *)
(* types and the discipline of the market lock under every fault, and,     *)
(* under the faults the code tolerates, that no target is quoted twice and *)
(* no order rests unknown to local state while the lock is free. Then what *)
(* is left of both under every fault, with the record of OrderStrays.      *)
(***************************************************************************)
EXTENDS OrderStrays, TLAPS

\* The ids of a placement are fresh, one for each quote asked for.
LEMMA NewIdsFacts ==
    ASSUME NEW slots \in SUBSET Slots, CanPlace(slots)
    PROVE  /\ NewIds(slots) \subseteq Ids
           /\ \A o \in NewIds(slots) : Fresh(o) /\ SlotOf[o] \in slots
           /\ \A o1, o2 \in NewIds(slots) : SlotOf[o1] = SlotOf[o2] => o1 = o2
<1>. DEFINE New(q) == CHOOSE o \in Ids : Fresh(o) /\ SlotOf[o] = q
<1>1. \A q \in slots : New(q) \in Ids /\ Fresh(New(q)) /\ SlotOf[New(q)] = q
  BY DEF CanPlace
<1>2. NewIds(slots) = {New(q) : q \in slots}
  BY DEF NewIds
<1>. QED
  BY <1>1, <1>2

\* A snapshot lists orders of the book or of its replica, whatever does not
\* parse.
LEMMA SnapshotsType ==
    ASSUME exch \subseteq Ids, replica \subseteq Ids
    PROVE  Snapshots \subseteq SUBSET Ids
  BY DEF Snapshots

\* A start adopts a part of what it left on the book, or of the replica.
LEMMA StartupViewsType ==
    ASSUME NEW left \in SUBSET Ids, replica \subseteq Ids
    PROVE  StartupViews(left) \subseteq SUBSET Ids
  BY DEF StartupViews

-----------------------------------------------------------------------------
\* Every variable keeps its type and the lock is held by the task inside its
\* critical section, whatever fails.
THEOREM TypeCorrect == Spec => []TypeOK
<1>1. Init => TypeOK
  <2>. SUFFICES ASSUME Init  PROVE TypeOK
    OBVIOUS
  <2>1. LockDiscipline
    BY DEF Init, LockDiscipline, Awaits
  <2>2. restarts \in 0 .. MaxRestarts
    BY OrderAssumption DEF Init
  <2>3. plan \in [cancel : SUBSET Ids, place : SUBSET Slots]
    BY DEF Init, NoPlan
  <2>4. news \in [Ids -> SUBSET {"live", "gone"}]
    BY DEF Init
  <2>. QED
    BY <2>1, <2>2, <2>3, <2>4 DEF Init, TypeOK
<1>2. TypeOK /\ [Next]_vars => TypeOK'
  <2>. SUFFICES ASSUME TypeOK, [Next]_vars  PROVE TypeOK'
    OBVIOUS
  <2>. USE OrderAssumption DEF TypeOK, Leave, Join, Remember, Forget, Replace, Release, OrdersFor, NoPlan, Awaits, LockDiscipline, exchVars, storeVars, quoteVars, recVars, hbVars
  <2>1. CASE StartRequote
    BY <2>1 DEF StartRequote
  <2>2. CASE StartPull
    BY <2>2 DEF StartPull
  <2>3. CASE CancelOk
    BY <2>3 DEF CancelOk
  <2>4. CASE CancelFails
    BY <2>4 DEF CancelFails
  <2>5. CASE ShedLoad
    BY <2>5 DEF ShedLoad
  <2>6. CASE PostOrders
    BY <2>6, NewIdsFacts DEF PostOrders
  <2>7. CASE PostSome
    BY <2>7, NewIdsFacts DEF PostSome
  <2>8. CASE PlaceReturns
    BY <2>8 DEF PlaceReturns
  <2>9. CASE ForgetAsset
    BY <2>9 DEF ForgetAsset
  <2>10. ASSUME NEW tok \in Tokens, CancelAsset(tok)  PROVE TypeOK'
    BY <2>10 DEF CancelAsset
  <2>11. CASE ServeQuoter
    BY <2>11, SnapshotsType DEF ServeQuoter
  <2>12. CASE QuoterResync
    BY <2>12 DEF QuoterResync
  <2>13. CASE QuoterReadFails
    BY <2>13 DEF QuoterReadFails
  <2>14. CASE RequestOrders
    BY <2>14 DEF RequestOrders
  <2>15. CASE ServeReconcile
    BY <2>15, SnapshotsType DEF ServeReconcile
  <2>16. CASE ReconcileReadFails
    BY <2>16 DEF ReconcileReadFails
  <2>17. CASE ReconcileOrders
    BY <2>17 DEF ReconcileOrders
  <2>18. CASE HeartbeatLost
    BY <2>18 DEF HeartbeatLost
  <2>19. CASE HeartbeatRecovers
    BY <2>19 DEF HeartbeatRecovers
  <2>20. CASE HeartbeatLocks
    BY <2>20 DEF HeartbeatLocks
  <2>21. CASE ServeHeartbeat
    BY <2>21, SnapshotsType DEF ServeHeartbeat
  <2>22. CASE HeartbeatResync
    BY <2>22 DEF HeartbeatResync
  <2>23. CASE HeartbeatReadFails
    BY <2>23 DEF HeartbeatReadFails
  <2>24. CASE LoseEvents
    BY <2>24 DEF LoseEvents
  <2>25. ASSUME NEW o \in Ids, OnOrderLive(o)  PROVE TypeOK'
    BY <2>25 DEF OnOrderLive
  <2>26. ASSUME NEW o \in Ids, OnOrderGone(o)  PROVE TypeOK'
    BY <2>26 DEF OnOrderGone
  <2>27. CASE AutoCancel
    BY <2>27 DEF AutoCancel
  <2>28. CASE CatchUp
    BY <2>28 DEF CatchUp
  <2>29. CASE MetaHalt
    BY <2>29 DEF MetaHalt
  <2>30. CASE MetaResume
    BY <2>30 DEF MetaResume
  <2>38. ASSUME NEW tok \in Tokens, MetaCancels(tok)  PROVE TypeOK'
    BY <2>38 DEF MetaCancels
  <2>31. ASSUME NEW tok \in Tokens, GuardEnds(tok)  PROVE TypeOK'
    BY <2>31 DEF GuardEnds
  <2>32. ASSUME NEW o \in Ids, Fill(o)  PROVE TypeOK'
    BY <2>32 DEF Fill
  <2>33. ASSUME NEW o \in Ids, LandLate(o)  PROVE TypeOK'
    BY <2>33 DEF LandLate
  <2>34. ASSUME NEW o \in Ids, NeverLands(o)  PROVE TypeOK'
    BY <2>34 DEF NeverLands
  <2>35. ASSUME NEW o \in Ids, GraceLapses(o)  PROVE TypeOK'
    BY <2>35 DEF GraceLapses
  <2>36. CASE Restart
    <3>1. PICK left \in SUBSET exch : exch' = left /\ local' \in StartupViews(left)
      BY <2>36 DEF Restart
    <3>2. exch' \subseteq Ids /\ local' \subseteq Ids
      BY <3>1, StartupViewsType
    <3>3. transit' \subseteq Ids
      BY <2>36, NewIdsFacts DEF Restart
    <3>4. news' \in [Ids -> SUBSET {"live", "gone"}]
      BY <2>36 DEF Restart
    <3>5. restarts' \in 0 .. MaxRestarts
      BY <2>36 DEF Restart
    <3>6. plan' \in [cancel : SUBSET Ids, place : SUBSET Slots]
      BY <2>36 DEF Restart
    <3>. QED
      BY <2>36, <3>2, <3>3, <3>4, <3>5, <3>6 DEF Restart
  <2>37. CASE UNCHANGED vars
    BY <2>37 DEF vars
  <2>. QED
    BY <2>1, <2>2, <2>3, <2>4, <2>5, <2>6, <2>7, <2>8, <2>9, <2>10, <2>11, <2>12, <2>13, <2>14, <2>15, <2>16, <2>17, <2>18, <2>19, <2>20, <2>21, <2>22, <2>23, <2>24, <2>25, <2>26, <2>27, <2>28, <2>29, <2>30, <2>31, <2>32, <2>33, <2>34, <2>35, <2>36, <2>37, <2>38
       DEF Next, Quoter, Reconciler, Heartbeat, UserStream, Environment
<1>. QED
  BY <1>1, <1>2, PTL DEF Spec

-----------------------------------------------------------------------------
\* With tolerated faults only, what an open-orders read returns is the book.
LEMMA HonestSnapshots ==
    ASSUME Faults \subseteq Tolerated
    PROVE  Snapshots = {exch}
  BY DEF Tolerated, Snapshots

\* With tolerated faults only, a start leaves no order behind.
LEMMA HonestStartup ==
    ASSUME Faults \subseteq Tolerated
    PROVE  StartupViews({}) = {{}}
  BY DEF Tolerated, StartupViews

\* The strengthening of NoDoubleQuote and Tracked is an invariant when no
\* cancel_all or cancel_asset fails, no posted order lands late, no row is
\* unreadable and no read lags or is slower than the grace.
THEOREM SyncInvariant ==
    ASSUME Faults \subseteq Tolerated
    PROVE  Spec => []SyncInv
<1>1. Init => SyncInv
  BY DEF Init, SyncInv, NoDoubleQuote
<1>2. TypeOK /\ SyncInv /\ [Next]_vars => SyncInv'
  <2>. SUFFICES ASSUME TypeOK, SyncInv, [Next]_vars  PROVE SyncInv'
    OBVIOUS
  <2>. USE OrderAssumption DEF TypeOK, SyncInv, NoDoubleQuote, Leave, Join, Remember, Forget, Replace, Release, OrdersFor, NoPlan, Awaits, LockDiscipline, exchVars, storeVars, quoteVars, recVars, hbVars
  <2>1. CASE StartRequote
    BY <2>1 DEF StartRequote
  <2>2. CASE StartPull
    BY <2>2 DEF StartPull
  <2>3. CASE CancelOk
    <3>0. "kept" \notin Faults
      BY DEF Tolerated
    <3>1. /\ exch' = exch \ plan.cancel
          /\ local' = local \ plan.cancel
          /\ young' = young \ plan.cancel
          /\ \A o \in exch' : news'[o] = news[o]
      BY <2>3, <3>0 DEF CancelOk
    <3>2. CASE plan.place = {}
      BY <2>3, <3>1, <3>2 DEF CancelOk
    <3>3. CASE plan.place # {}
      BY <2>3, <3>1, <3>3 DEF CancelOk
    <3>. QED
      BY <3>2, <3>3
  <2>4. CASE CancelFails
    BY <2>4 DEF CancelFails
  <2>5. CASE ShedLoad
    BY <2>5 DEF ShedLoad
  <2>6. CASE PostOrders
    <3>. DEFINE new == NewIds(plan.place)
    <3>1. /\ new \subseteq Ids
          /\ \A o \in new : Fresh(o) /\ SlotOf[o] \in plan.place
          /\ \A o1, o2 \in new : SlotOf[o1] = SlotOf[o2] => o1 = o2
      BY <2>6, NewIdsFacts DEF PostOrders
    <3>2. hview = None /\ qview = None
      BY <2>6 DEF PostOrders
    <3>3. \A o \in new : o \notin exch /\ o \notin local /\ news[o] = {}
      BY <3>1 DEF Fresh
    <3>4. \A o \in exch : SlotOf[o] \notin plan.place
      BY <2>6 DEF PostOrders
    <3>. HIDE DEF new
    <3>5. exch' = exch \cup new /\ acked' = new
      BY <2>6 DEF PostOrders, new
    <3>6. \A o \in exch' : news'[o] = IF o \in new THEN {"live"} ELSE news[o]
      <4>1. Join(new)
        BY <2>6 DEF PostOrders, new
      <4>2. \A o \in Ids : news'[o] = IF o \in new THEN news[o] \cup {"live"} ELSE news[o]
        BY <4>1
      <4>3. exch' \subseteq Ids
        BY <3>1, <3>5
      <4>4. \A o \in new : news[o] = {}
        BY <3>3
      <4>. QED
        BY <4>2, <4>3, <4>4
    <3>7. NoDoubleQuote'
      BY <3>1, <3>4, <3>5
    <3>. QED
      <4>1. /\ qpc = "place" /\ qpc' = "placed"
            /\ UNCHANGED <<replica, transit, local, young, plan, qview, rview, hview, hb>>
        BY <2>6 DEF PostOrders
      <4>2. rview' # None => exch' \cap local' \subseteq rview' \cup young'
        BY <3>3, <3>5, <4>1
      <4>3. exch' \subseteq local' \cup acked'
        BY <3>5, <4>1
      <4>4. \A o \in exch' : "gone" \notin news'[o]
        BY <3>5, <3>6
      <4>. QED
        BY <3>2, <3>7, <4>1, <4>2, <4>3, <4>4
  <2>7. CASE PostSome
    <3>. DEFINE new == NewIds(plan.place)
    <3>1. /\ new \subseteq Ids
          /\ \A o \in new : Fresh(o) /\ SlotOf[o] \in plan.place
          /\ \A o1, o2 \in new : SlotOf[o1] = SlotOf[o2] => o1 = o2
      BY <2>7, NewIdsFacts DEF PostSome
    <3>2. hview = None /\ qview = None
      BY <2>7 DEF PostSome
    <3>3. \A o \in new : o \notin exch /\ o \notin local /\ news[o] = {}
      BY <3>1 DEF Fresh
    <3>4. \A o \in exch : SlotOf[o] \notin plan.place
      BY <2>7 DEF PostSome
    <3>. HIDE DEF new
    <3>5. PICK posted \in SUBSET new : Join(posted)
      BY <2>7 DEF PostSome, new
    <3>6. exch' = exch \cup posted
      BY <3>5
    <3>7. \A o \in exch' : news'[o] = IF o \in posted THEN {"live"} ELSE news[o]
      <4>1. \A o \in Ids :
                news'[o] = IF o \in posted THEN news[o] \cup {"live"} ELSE news[o]
        BY <3>5
      <4>2. exch' \subseteq Ids
        BY <3>1, <3>6
      <4>3. \A o \in posted : news[o] = {}
        BY <3>3
      <4>. QED
        BY <4>1, <4>2, <4>3
    <3>8. NoDoubleQuote'
      BY <3>1, <3>4, <3>6
    <3>9. transit' = {}
      BY <2>7 DEF PostSome, Tolerated
    <3>. QED
      <4>1. /\ qpc = "place" /\ qpc' = "short"
            /\ UNCHANGED <<local, young, plan, qview, rview, hview>>
        BY <2>7 DEF PostSome
      <4>2. rview' # None => exch' \cap local' \subseteq rview' \cup young'
        BY <3>3, <3>6, <4>1
      <4>3. \A o \in exch' : "gone" \notin news'[o]
        BY <3>6, <3>7
      <4>. QED
        BY <3>2, <3>8, <3>9, <4>1, <4>2, <4>3
  <2>8. CASE PlaceReturns
    BY <2>8 DEF PlaceReturns
  <2>9. CASE ForgetAsset
    BY <2>9 DEF ForgetAsset
  <2>10. ASSUME NEW tok \in Tokens, CancelAsset(tok)  PROVE SyncInv'
    <3>1. /\ exch' = exch \ OrdersFor(exch, tok)
          /\ \A o \in exch' : news'[o] = news[o]
      BY <2>10 DEF CancelAsset, Tolerated
    <3>. QED
      BY <2>10, <3>1 DEF CancelAsset
  <2>11. CASE ServeQuoter
    BY <2>11, HonestSnapshots DEF ServeQuoter
  <2>12. CASE QuoterResync
    BY <2>12 DEF QuoterResync
  <2>13. CASE QuoterReadFails
    BY <2>13 DEF QuoterReadFails
  <2>14. CASE RequestOrders
    BY <2>14 DEF RequestOrders
  <2>15. CASE ServeReconcile
    BY <2>15, HonestSnapshots DEF ServeReconcile
  <2>16. CASE ReconcileReadFails
    BY <2>16 DEF ReconcileReadFails
  <2>17. CASE ReconcileOrders
    BY <2>17 DEF ReconcileOrders
  <2>18. CASE HeartbeatLost
    BY <2>18 DEF HeartbeatLost
  <2>19. CASE HeartbeatRecovers
    BY <2>19 DEF HeartbeatRecovers
  <2>20. CASE HeartbeatLocks
    BY <2>20 DEF HeartbeatLocks
  <2>21. CASE ServeHeartbeat
    BY <2>21, HonestSnapshots DEF ServeHeartbeat
  <2>22. CASE HeartbeatResync
    BY <2>22 DEF HeartbeatResync
  <2>23. CASE HeartbeatReadFails
    BY <2>23 DEF HeartbeatReadFails
  <2>24. CASE LoseEvents
    BY <2>24 DEF LoseEvents
  <2>25. ASSUME NEW o \in Ids, OnOrderLive(o)  PROVE SyncInv'
    BY <2>25 DEF OnOrderLive
  <2>26. ASSUME NEW o \in Ids, OnOrderGone(o)  PROVE SyncInv'
    BY <2>26 DEF OnOrderGone
  <2>27. CASE AutoCancel
    BY <2>27 DEF AutoCancel
  <2>28. CASE CatchUp
    BY <2>28 DEF CatchUp
  <2>29. CASE MetaHalt
    BY <2>29 DEF MetaHalt
  <2>30. CASE MetaResume
    BY <2>30 DEF MetaResume
  <2>38. ASSUME NEW tok \in Tokens, MetaCancels(tok)  PROVE SyncInv'
    BY <2>38 DEF MetaCancels
  <2>31. ASSUME NEW tok \in Tokens, GuardEnds(tok)  PROVE SyncInv'
    BY <2>31 DEF GuardEnds
  <2>32. ASSUME NEW o \in Ids, Fill(o)  PROVE SyncInv'
    BY <2>32 DEF Fill
  <2>33. ASSUME NEW o \in Ids, LandLate(o)  PROVE SyncInv'
    BY <2>33 DEF LandLate
  <2>34. ASSUME NEW o \in Ids, NeverLands(o)  PROVE SyncInv'
    BY <2>34 DEF NeverLands
  <2>35. ASSUME NEW o \in Ids, GraceLapses(o)  PROVE SyncInv'
    BY <2>35 DEF GraceLapses, Tolerated
  <2>36. CASE Restart
    <3>1. exch' = {} /\ local' \in StartupViews({})
      BY <2>36 DEF Restart, Tolerated
    <3>2. transit' = {}
      BY <2>36 DEF Restart, Tolerated
    <3>. QED
      BY <2>36, <3>1, <3>2 DEF Restart
  <2>37. CASE UNCHANGED vars
    BY <2>37 DEF vars
  <2>. QED
    BY <2>1, <2>2, <2>3, <2>4, <2>5, <2>6, <2>7, <2>8, <2>9, <2>10, <2>11, <2>12, <2>13, <2>14, <2>15, <2>16, <2>17, <2>18, <2>19, <2>20, <2>21, <2>22, <2>23, <2>24, <2>25, <2>26, <2>27, <2>28, <2>29, <2>30, <2>31, <2>32, <2>33, <2>34, <2>35, <2>36, <2>37, <2>38
       DEF Next, Quoter, Reconciler, Heartbeat, UserStream, Environment
<1>. QED
  BY <1>1, <1>2, TypeCorrect, PTL DEF Spec
-----------------------------------------------------------------------------
\* Whatever fails among cancels, placements, reads, events and heartbeats, no
\* target is ever quoted by two live orders.
THEOREM NeverTwoQuotes ==
    ASSUME Faults \subseteq Tolerated
    PROVE  Spec => []NoDoubleQuote
<1>1. SyncInv => NoDoubleQuote
  BY DEF SyncInv
<1>. QED
  BY <1>1, SyncInvariant, PTL

\* And whenever nobody holds the market lock, local state knows every order
\* that rests on the exchange.
THEOREM AlwaysTracked ==
    ASSUME Faults \subseteq Tolerated
    PROVE  Spec => []Tracked
<1>1. TypeOK /\ SyncInv => Tracked
  BY DEF TypeOK, LockDiscipline, Awaits, SyncInv, Tracked
<1>. QED
  BY <1>1, TypeCorrect, SyncInvariant, PTL

-----------------------------------------------------------------------------
(***************************************************************************)
(* Under every fault                                                       *)
(***************************************************************************)
\* An order that is solid after a step was not lost in it, and solid before if
\* it rested.
LEMMA SolidAfter ==
    ASSUME StrayNext, NEW o \in Solid'
    PROVE  /\ o \in exch'
           /\ o \in exch => o \in Solid
           /\ CancelOk => o \notin plan.cancel
           /\ o \in transit => o \in exch
           /\ ~CancelAsset(TokenOf[o])
           /\ Unreliable /\ (QuoterResync \/ HeartbeatResync \/ ReconcileOrders) =>
                o \notin local \/ o \in local'
           /\ Restart => o \in local'
<1>1. o \in exch' /\ o \notin strays'
  BY DEF Solid
<1>2. o \notin strays /\ o \notin Lost
  BY <1>1 DEF StrayNext
<1>. QED
  BY <1>1, <1>2 DEF Solid, Lost

\* Where no snapshot misses an order, a read returns the book.
LEMMA ReliableSnapshots ==
    ASSUME ~Unreliable
    PROVE  Snapshots = {exch}
  BY DEF Unreliable, Snapshots

\* The record changes nothing that it records.
LEMMA StrayTypes == StraySpec => []TypeOK
<1>1. StrayInit => Init
  BY DEF StrayInit
<1>2. [StrayNext]_strayVars => [Next]_vars
  BY DEF StrayNext, strayVars
<1>. QED
  BY <1>1, <1>2, TypeCorrect, PTL DEF Spec, StraySpec

\* What is solid stays accounted for whatever fails: by local state while the
\* lock is free, by the plan, the answer or the quarantine while it is not.
THEOREM StrayInvariant == StraySpec => []StrayInv
<1>1. StrayInit => StrayInv
  BY DEF StrayInit, Init, StrayInv, Solid
<1>2. TypeOK /\ StrayInv /\ [StrayNext]_strayVars => StrayInv'
  <2>. SUFFICES ASSUME TypeOK, StrayInv, StrayNext  PROVE StrayInv'
    BY DEF strayVars, vars, StrayInv, Solid, exchVars, storeVars, quoteVars, recVars, hbVars
  <2>a. strays' \subseteq exch' /\ Solid \subseteq exch /\ Solid' \subseteq exch'
    BY DEF StrayNext, Solid
  <2>b. Next
    BY DEF StrayNext
  <2>c. \A o \in Solid' : /\ o \in exch => o \in Solid
                          /\ CancelOk => o \notin plan.cancel
                          /\ o \in transit => o \in exch
                          /\ ~CancelAsset(TokenOf[o])
                          /\ Unreliable /\ (QuoterResync \/ HeartbeatResync \/ ReconcileOrders) =>
                               o \notin local \/ o \in local'
                          /\ Restart => o \in local'
    BY SolidAfter
  <2>. USE OrderAssumption DEF TypeOK, StrayInv, Leave, Join, Remember, Forget, Replace, Release, OrdersFor, NoPlan, Awaits, LockDiscipline, exchVars, storeVars, quoteVars, recVars, hbVars
  <2>1. CASE StartRequote
    BY <2>a, <2>c, <2>1 DEF StartRequote
  <2>2. CASE StartPull
    BY <2>a, <2>c, <2>2 DEF StartPull
  <2>3. CASE CancelOk
    <3>1. /\ Solid' \subseteq Solid \ plan.cancel
          /\ local' = local \ plan.cancel
          /\ young' = young \ plan.cancel
          /\ \A o \in Solid' : news'[o] = news[o]
      <4>1. PICK done \in SUBSET plan.cancel : Leave(done)
        BY <2>3 DEF CancelOk
      <4>2. Solid' \subseteq Solid \ plan.cancel
        BY <2>a, <2>c, <2>3, <4>1
      <4>. QED
        BY <2>a, <2>3, <4>1, <4>2 DEF CancelOk
    <3>2. CASE plan.place = {}
      BY <2>a, <2>3, <3>1, <3>2 DEF CancelOk
    <3>3. CASE plan.place # {}
      BY <2>a, <2>3, <3>1, <3>3 DEF CancelOk
    <3>. QED
      BY <3>2, <3>3
  <2>4. CASE CancelFails
    BY <2>a, <2>c, <2>4 DEF CancelFails
  <2>5. CASE ShedLoad
    BY <2>a, <2>c, <2>5 DEF ShedLoad
  <2>6. CASE PostOrders
    <3>. DEFINE new == NewIds(plan.place)
    <3>1. /\ new \subseteq Ids
          /\ \A o \in new : Fresh(o) /\ SlotOf[o] \in plan.place
          /\ \A o1, o2 \in new : SlotOf[o1] = SlotOf[o2] => o1 = o2
      BY <2>6, NewIdsFacts DEF PostOrders
    <3>2. \A o \in new : o \notin exch /\ o \notin local /\ news[o] = {}
      BY <3>1 DEF Fresh
    <3>3. Join(new) /\ acked' = new
      BY <2>6 DEF PostOrders
    <3>. HIDE DEF new
    <3>4. /\ qpc = "place" /\ qpc' = "placed" /\ hview = None /\ qview = None
          /\ UNCHANGED <<local, young, plan, qview, rview, hview>>
      BY <2>6 DEF PostOrders
    <3>5. Solid' \subseteq Solid \cup new
      BY <2>a, <2>c, <3>3
    <3>6. \A o \in Solid' : "gone" \notin news'[o]
      BY <2>a, <3>1, <3>2, <3>3, <3>5
    <3>7. \A o1, o2 \in Solid' : SlotOf[o1] = SlotOf[o2] => o1 = o2
      BY <3>1, <3>4, <3>5
    <3>8. rview' # None /\ ~Unreliable => Solid' \cap local' \subseteq rview' \cup young'
      BY <3>2, <3>4, <3>5
    <3>9. Solid' \subseteq local' \cup acked'
      BY <3>3, <3>4, <3>5
    <3>. QED
      BY <2>a, <3>4, <3>6, <3>7, <3>8, <3>9
  <2>7. CASE PostSome
    <3>. DEFINE new == NewIds(plan.place)
    <3>1. /\ new \subseteq Ids
          /\ \A o \in new : Fresh(o) /\ SlotOf[o] \in plan.place
          /\ \A o1, o2 \in new : SlotOf[o1] = SlotOf[o2] => o1 = o2
      BY <2>7, NewIdsFacts DEF PostSome
    <3>2. \A o \in new : o \notin exch /\ o \notin local /\ news[o] = {}
      BY <3>1 DEF Fresh
    <3>. HIDE DEF new
    <3>3. PICK posted \in SUBSET new : Join(posted)
      BY <2>7 DEF PostSome, new
    <3>4. /\ qpc = "place" /\ qpc' = "short" /\ hview = None /\ qview = None
          /\ UNCHANGED <<local, young, plan, qview, rview, hview>>
      BY <2>7 DEF PostSome
    <3>5. Solid' \subseteq Solid \cup posted
      BY <2>a, <2>c, <3>3
    <3>6. \A o \in Solid' : "gone" \notin news'[o]
      BY <2>a, <3>1, <3>2, <3>3, <3>5
    <3>7. \A o1, o2 \in Solid' : SlotOf[o1] = SlotOf[o2] => o1 = o2
      BY <3>1, <3>4, <3>5
    <3>8. rview' # None /\ ~Unreliable => Solid' \cap local' \subseteq rview' \cup young'
      BY <3>2, <3>4, <3>5
    <3>. QED
      BY <2>a, <3>4, <3>6, <3>7, <3>8
  <2>8. CASE PlaceReturns
    BY <2>a, <2>c, <2>8 DEF PlaceReturns
  <2>9. CASE ForgetAsset
    BY <2>a, <2>c, <2>9 DEF ForgetAsset
  <2>10. ASSUME NEW tok \in Tokens, CancelAsset(tok)  PROVE StrayInv'
    <3>1. PICK done \in SUBSET OrdersFor(exch, tok) : Leave(done)
      BY <2>10 DEF CancelAsset
    <3>2. Solid' \subseteq Solid
      BY <2>a, <2>c, <3>1
    <3>3. \A o \in Solid' : TokenOf[o] # tok /\ news'[o] = news[o]
      BY <2>a, <2>c, <2>10, <3>1
    <3>. QED
      BY <2>a, <2>10, <3>2, <3>3 DEF CancelAsset
  <2>11. CASE ServeQuoter
    BY <2>a, <2>c, <2>11, ReliableSnapshots DEF ServeQuoter
  <2>12. CASE QuoterResync
    BY <2>a, <2>c, <2>12 DEF QuoterResync
  <2>13. CASE QuoterReadFails
    BY <2>a, <2>c, <2>13 DEF QuoterReadFails
  <2>14. CASE RequestOrders
    BY <2>a, <2>c, <2>14 DEF RequestOrders
  <2>15. CASE ServeReconcile
    BY <2>a, <2>c, <2>15, ReliableSnapshots DEF ServeReconcile
  <2>16. CASE ReconcileReadFails
    BY <2>a, <2>c, <2>16 DEF ReconcileReadFails
  <2>17. CASE ReconcileOrders
    BY <2>a, <2>c, <2>17 DEF ReconcileOrders
  <2>18. CASE HeartbeatLost
    BY <2>a, <2>c, <2>18 DEF HeartbeatLost
  <2>19. CASE HeartbeatRecovers
    BY <2>a, <2>c, <2>19 DEF HeartbeatRecovers
  <2>20. CASE HeartbeatLocks
    BY <2>a, <2>c, <2>20 DEF HeartbeatLocks
  <2>21. CASE ServeHeartbeat
    BY <2>a, <2>c, <2>21, ReliableSnapshots DEF ServeHeartbeat
  <2>22. CASE HeartbeatResync
    BY <2>a, <2>c, <2>22 DEF HeartbeatResync
  <2>23. CASE HeartbeatReadFails
    BY <2>a, <2>c, <2>23 DEF HeartbeatReadFails
  <2>24. CASE LoseEvents
    BY <2>a, <2>c, <2>24 DEF LoseEvents
  <2>25. ASSUME NEW o \in Ids, OnOrderLive(o)  PROVE StrayInv'
    BY <2>a, <2>c, <2>25 DEF OnOrderLive
  <2>26. ASSUME NEW o \in Ids, OnOrderGone(o)  PROVE StrayInv'
    BY <2>a, <2>c, <2>26 DEF OnOrderGone
  <2>27. CASE AutoCancel
    BY <2>a, <2>c, <2>27 DEF AutoCancel
  <2>28. CASE CatchUp
    BY <2>a, <2>c, <2>28 DEF CatchUp
  <2>29. CASE MetaHalt
    BY <2>a, <2>c, <2>29 DEF MetaHalt
  <2>30. CASE MetaResume
    BY <2>a, <2>c, <2>30 DEF MetaResume
  <2>38. ASSUME NEW tok \in Tokens, MetaCancels(tok)  PROVE StrayInv'
    BY <2>a, <2>c, <2>38 DEF MetaCancels
  <2>31. ASSUME NEW tok \in Tokens, GuardEnds(tok)  PROVE StrayInv'
    BY <2>a, <2>c, <2>31 DEF GuardEnds
  <2>32. ASSUME NEW o \in Ids, Fill(o)  PROVE StrayInv'
    BY <2>a, <2>c, <2>32 DEF Fill
  <2>33. ASSUME NEW o \in Ids, LandLate(o)  PROVE StrayInv'
    BY <2>a, <2>c, <2>33 DEF LandLate
  <2>34. ASSUME NEW o \in Ids, NeverLands(o)  PROVE StrayInv'
    BY <2>a, <2>c, <2>34 DEF NeverLands
  <2>35. ASSUME NEW o \in Ids, GraceLapses(o)  PROVE StrayInv'
    BY <2>a, <2>c, <2>35 DEF GraceLapses, Unreliable
  <2>36. CASE Restart
    <3>1. exch' \subseteq exch /\ news' = [o \in Ids |-> {}]
      BY <2>36 DEF Restart
    <3>2. Solid' \subseteq Solid \cap local'
      BY <2>a, <2>c, <2>36, <3>1
    <3>3. \A o \in Solid' : news'[o] = {}
      BY <2>a, <3>1, <3>2
    <3>. QED
      BY <2>a, <2>36, <3>2, <3>3 DEF Restart
  <2>. QED
    BY <2>b, <2>1, <2>2, <2>3, <2>4, <2>5, <2>6, <2>7, <2>8, <2>9, <2>10, <2>11, <2>12, <2>13, <2>14, <2>15, <2>16, <2>17, <2>18, <2>19, <2>20, <2>21, <2>22, <2>23, <2>24, <2>25, <2>26, <2>27, <2>28, <2>29, <2>30, <2>31, <2>32, <2>33, <2>34, <2>35, <2>36, <2>38
       DEF Next, Quoter, Reconciler, Heartbeat, UserStream, Environment
<1>. QED
  BY <1>1, <1>2, StrayTypes, PTL DEF StraySpec

\* Under every fault at once, two orders rest for one target only if the code was
\* told that one of them is gone, or not told that it rests.
THEOREM DoublesAlwaysStrays == StraySpec => []DoublesAreStrays
<1>1. StrayInv => DoublesAreStrays
  BY DEF StrayInv, Solid, DoublesAreStrays
<1>. QED
  BY <1>1, StrayInvariant, PTL

\* And an order rests unknown to local state, while nobody holds the lock, only if
\* it is such a one.
THEOREM UntrackedAlwaysStrays == StraySpec => []UntrackedAreStrays
<1>1. TypeOK /\ StrayInv => UntrackedAreStrays
  BY DEF TypeOK, LockDiscipline, Awaits, StrayInv, Solid, UntrackedAreStrays
<1>. QED
  BY <1>1, StrayTypes, StrayInvariant, PTL

\* Under the faults the code tolerates there are none: the record is exact enough
\* that NeverTwoQuotes and AlwaysTracked are what is left of it then.
THEOREM NoStraysTolerated ==
    ASSUME Faults \subseteq Tolerated
    PROVE  StraySpec => [](strays = {})
<1>1. StrayInit => strays = {}
  BY DEF StrayInit
<1>2. TypeOK /\ SyncInv /\ strays = {} /\ [StrayNext]_strayVars => (strays = {})'
  <2>. SUFFICES ASSUME TypeOK, SyncInv, strays = {}, StrayNext, NEW o \in Lost
                PROVE  FALSE
    BY DEF StrayNext, strayVars
  <2>1. o \in exch' /\ transit = {} /\ ~Unreliable
    BY DEF Lost, SyncInv, Tolerated, Unreliable
  <2>2. ~(CancelOk /\ o \in plan.cancel)
    BY <2>1 DEF CancelOk, Leave, Tolerated
  <2>3. ~CancelAsset(TokenOf[o])
    BY <2>1 DEF CancelAsset, Leave, OrdersFor, Tolerated
  <2>4. ~Restart
    BY <2>1 DEF Restart, Tolerated
  <2>. QED
    BY <2>1, <2>2, <2>3, <2>4 DEF Lost
<1>3. StraySpec => []SyncInv
  <2>1. StrayInit => Init
    BY DEF StrayInit
  <2>2. [StrayNext]_strayVars => [Next]_vars
    BY DEF StrayNext, strayVars
  <2>. QED
    BY <2>1, <2>2, SyncInvariant, PTL DEF Spec, StraySpec
<1>. QED
  BY <1>1, <1>2, <1>3, StrayTypes, PTL DEF StraySpec
=============================================================================
