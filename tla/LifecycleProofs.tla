--------------------------- MODULE LifecycleProofs ---------------------------
(***************************************************************************)
(* Theorems about Lifecycle and the merging tasks it runs, for any number  *)
(* of markets and threads and any kind of wallet.                          *)
(***************************************************************************)
EXTENDS Lifecycle, TLAPS

(***************************************************************************)
(* Types                                                                   *)
(***************************************************************************)
\* Until shutdown the pool is open, and before the start nothing merges.
Young ==
    /\ phase \in {"start", "up"} => pool = "open"
    /\ phase = "start" => merging = {}

\* Whoever has signed has a nonce.
Signed == \A c \in Markets : tx[c] \in {"signed", "pending"} => nonce[c] \in Nonces

TypeInv == TypeOK /\ Young /\ Signed

LEMMA FreshNonce ==
    ASSUME Nonces \ Carried # {}
    PROVE  Fresh \in Nonces /\ Fresh \notin Carried
BY DEF Fresh

LEMMA EveryoneTypes ==
    ASSUME NEW s
    PROVE  \A n \in Tasks : Everyone(s)[n] = s
BY DEF Everyone

\* The task of a market ends: lock and mark are let go of together.
LEMMA EndTypes ==
    ASSUME TypeInv, NEW c \in Markets, mtask[c] \in {"reads", "sends"}, End(c),
           UNCHANGED <<running, wallet, heldVars, nonce, loose, procVars, poolVars>>,
           tx' \in [Markets -> TxStates],
           \A d \in Markets : tx'[d] \in {"signed", "pending"} => tx'[d] = tx[d]
    PROVE  TypeInv'
<1> USE DEF heldVars, procVars, poolVars
<1>1. MergeTypeOK'
  <2>1. MaxPairs \in Nat /\ 0 \in 0 .. MaxPairs
    BY MergeAssumption DEF MergeAssumption
  <2>2. amount' \in [Markets -> 0 .. MaxPairs]
    BY <2>1 DEF TypeInv, TypeOK, MergeTypeOK, End
  <2>3. moved' \in [Markets -> BOOLEAN]
    BY DEF TypeInv, TypeOK, MergeTypeOK, End
  <2>4. mtask' \in [Markets -> {"none", "waits", "reads", "sends"}]
    BY DEF TypeInv, TypeOK, MergeTypeOK, End
  <2> QED BY <2>2, <2>3, <2>4 DEF TypeInv, TypeOK, MergeTypeOK, End
<1>2. merging' = {d \in Markets : mtask'[d] # "none"}
  BY DEF TypeInv, TypeOK, MergeTypeOK, End
<1>3. \A d \in Markets : chainLock' = d <=> mtask'[d] \in {"reads", "sends"}
  BY MergeAssumption DEF TypeInv, TypeOK, MergeTypeOK, End, MergeAssumption
<1>4. phase' \in Leaving => merging' = {}
  BY DEF TypeInv, TypeOK, End
<1>5. Young'
  BY DEF TypeInv, Young, End
<1>6. task' = task /\ Everyone("cancelled")' = Everyone("cancelled")
  BY DEF Everyone
<1>7. Signed'
  BY DEF TypeInv, Signed
<1> QED BY <1>1, <1>2, <1>3, <1>4, <1>5, <1>6, <1>7 DEF TypeInv, TypeOK

LEMMA MergeTypes ==
    ASSUME TypeInv, NEW c \in Markets, MergeStep(c), UNCHANGED <<procVars, poolVars>>
    PROVE  TypeInv'
<1> USE DEF heldVars, taskVars, chainVars, procVars, poolVars
<1>0. MaxPairs \in Nat /\ Free \notin Markets
  BY MergeAssumption DEF MergeAssumption
<1>a. Everyone("cancelled")' = Everyone("cancelled")
  BY DEF Everyone
<1>1. ASSUME UNCHANGED <<running, taskVars>>, MergeTypeOK', Signed' PROVE TypeInv'
  BY <1>1, <1>a DEF TypeInv, TypeOK, Young
<1>2. CASE TakeLock(c)
  <2>1. MergeTypeOK'
    BY <1>2 DEF TypeInv, TypeOK, MergeTypeOK, TakeLock
  <2>2. /\ merging' = {d \in Markets : mtask'[d] # "none"}
        /\ \A d \in Markets : chainLock' = d <=> mtask'[d] \in {"reads", "sends"}
    BY <1>0, <1>2 DEF TypeInv, TypeOK, MergeTypeOK, TakeLock
  <2> QED BY <1>2, <1>a, <2>1, <2>2 DEF TypeInv, TypeOK, Young, Signed, TakeLock
<1>3. CASE BalancesRead(c)
  <2>1. CASE Sized(c) = 0
    BY <1>3, <2>1, EndTypes DEF BalancesRead, TypeInv, TypeOK, MergeTypeOK
  <2>2. CASE Sized(c) # 0
    <3>1. Sized(c) \in 0 .. MaxPairs
      BY <1>0 DEF Sized, Smaller, TypeInv, TypeOK, MergeTypeOK
    <3>2. MergeTypeOK'
      <4>1. amount' \in [Markets -> 0 .. MaxPairs]
        BY <1>3, <2>2, <3>1 DEF BalancesRead, TypeInv, TypeOK, MergeTypeOK
      <4>m. moved' \in [Markets -> BOOLEAN]
        BY <1>3, <2>2 DEF BalancesRead, TypeInv, TypeOK, MergeTypeOK
      <4>2. /\ mtask' \in [Markets -> {"none", "waits", "reads", "sends"}]
            /\ tx' \in [Markets -> TxStates]
        BY <1>3, <2>2 DEF BalancesRead, TypeInv, TypeOK, MergeTypeOK, TxStates
      <4> QED BY <1>3, <2>2, <4>1, <4>2, <4>m DEF BalancesRead, TypeInv, TypeOK, MergeTypeOK
    <3>3. /\ merging' = {d \in Markets : mtask'[d] # "none"}
          /\ \A d \in Markets : chainLock' = d <=> mtask'[d] \in {"reads", "sends"}
      BY <1>3, <2>2 DEF BalancesRead, TypeInv, TypeOK, MergeTypeOK
    <3>4. Signed'
      BY <1>3, <2>2 DEF BalancesRead, TypeInv, TypeOK, MergeTypeOK, Signed
    <3> QED BY <1>3, <1>a, <2>2, <3>2, <3>3, <3>4 DEF BalancesRead, TypeInv, TypeOK, Young
  <2> QED BY <2>1, <2>2
<1>4. CASE BalancesUnreadable(c)
  BY <1>4, EndTypes DEF BalancesUnreadable, TypeInv, TypeOK, MergeTypeOK
<1>5. CASE SignsV1(c) \/ SignsV2(c) \/ Sends(c) \/ Relays(c)
  <2>1. tx' \in [Markets -> TxStates]
    BY <1>5 DEF TypeInv, TypeOK, MergeTypeOK, SignsV1, SignsV2, Sends, Relays, Numbers, TxStates
  <2>2. nonce' \in [Markets -> Nonces \cup {NoNonce}]
    <3>1. CASE Sends(c)
      BY <3>1 DEF Sends, TypeInv, TypeOK, MergeTypeOK
    <3>2. CASE ~Sends(c)
      <4>1. nonce' = [nonce EXCEPT ![c] = Fresh] /\ Nonces \ Carried # {}
        BY <1>5, <3>2 DEF SignsV1, SignsV2, Relays, Numbers
      <4> QED BY <4>1, FreshNonce DEF TypeInv, TypeOK, MergeTypeOK
    <3> QED BY <3>1, <3>2
  <2>3. UNCHANGED <<running, wallet, heldVars, taskVars, loose, moved>>
    BY <1>5 DEF SignsV1, SignsV2, Sends, Relays, Numbers
  <2>4. Signed'
    <3>1. CASE Sends(c)
      BY <3>1 DEF Sends, Signed, TypeInv, TypeOK, MergeTypeOK
    <3>2. CASE ~Sends(c)
      <4>1. /\ nonce' = [nonce EXCEPT ![c] = Fresh] /\ Nonces \ Carried # {}
            /\ \A d \in Markets : d # c => tx'[d] = tx[d]
        BY <1>5, <3>2 DEF SignsV1, SignsV2, Relays, Numbers, TypeInv, TypeOK, MergeTypeOK
      <4> QED BY <4>1, FreshNonce DEF Signed, TypeInv, TypeOK, MergeTypeOK
    <3> QED BY <3>1, <3>2
  <2> QED BY <1>1, <2>1, <2>2, <2>3, <2>4 DEF TypeInv, TypeOK, MergeTypeOK
<1>10. CASE CannotSend(c) \/ SendFails(c) \/ ReceiptTimesOut(c) \/ Mined(c) \/ Reverted(c)
  <2>1. pairs' \in [Markets -> 0 .. MaxPairs]
    BY <1>0, <1>10 DEF TypeInv, TypeOK, MergeTypeOK, CannotSend, SendFails, ReceiptTimesOut,
                       Mined, Reverted
  <2>2. LetsGo(c)
    BY <1>10 DEF CannotSend, SendFails, ReceiptTimesOut, Mined, Reverted
  <2>3. tx' \in [Markets -> TxStates]
    BY <2>2 DEF LetsGo, TypeInv, TypeOK, MergeTypeOK, TxStates
  <2>4. nonce' \in [Markets -> Nonces \cup {NoNonce}]
    BY <2>2 DEF LetsGo, TypeInv, TypeOK, MergeTypeOK
  <2>5. loose' \subseteq Transactions
    <3>1. CASE tx[c] \in {"signed", "pending"}
      <4>1. Leftover(c) \in Transactions
        BY <3>1 DEF Leftover, Transactions, Signed, TypeInv, TypeOK, MergeTypeOK
      <4>2. loose' \in {loose, loose \cup {Leftover(c)}}
        BY <1>10 DEF CannotSend, SendFails, ReceiptTimesOut, Mined, Reverted
      <4> QED BY <4>1, <4>2 DEF TypeInv, TypeOK, MergeTypeOK
    <3>2. CASE tx[c] \notin {"signed", "pending"}
      <4>1. loose' = loose
        BY <1>10, <3>2 DEF CannotSend, SendFails, ReceiptTimesOut, Mined, Reverted
      <4> QED BY <4>1 DEF TypeInv, TypeOK, MergeTypeOK
    <3> QED BY <3>1, <3>2
  <2>6. UNCHANGED <<running, wallet, local, taskVars, moved>>
    BY <1>10 DEF CannotSend, SendFails, ReceiptTimesOut, Mined, Reverted
  <2>7. Signed'
    BY <2>2, <2>6 DEF LetsGo, Signed, TypeInv, TypeOK, MergeTypeOK
  <2> QED BY <1>1, <2>1, <2>3, <2>4, <2>5, <2>6, <2>7 DEF TypeInv, TypeOK, MergeTypeOK
<1>6. CASE ThreadEnds(c)
  <2>1. /\ tx' \in [Markets -> TxStates]
        /\ \A d \in Markets : tx'[d] \in {"signed", "pending"} => tx'[d] = tx[d]
    BY <1>6 DEF ThreadEnds, TypeInv, TypeOK, MergeTypeOK, TxStates
  <2>2. CASE mtask[c] = "sends"
    BY <1>6, <2>1, <2>2, EndTypes DEF ThreadEnds
  <2>3. CASE mtask[c] # "sends"
    <3>1. /\ amount' = [amount EXCEPT ![c] = 0] /\ moved' = [moved EXCEPT ![c] = FALSE]
          /\ UNCHANGED <<running, wallet, heldVars, merging, mtask, chainLock, nonce, loose>>
      BY <1>6, <2>3 DEF ThreadEnds
    <3>2. amount' \in [Markets -> 0 .. MaxPairs] /\ moved' \in [Markets -> BOOLEAN]
      BY <1>0, <3>1 DEF TypeInv, TypeOK, MergeTypeOK
    <3>3. MergeTypeOK' /\ Signed'
      BY <2>1, <3>1, <3>2 DEF TypeInv, TypeOK, MergeTypeOK, Signed
    <3> QED BY <1>a, <3>1, <3>3 DEF TypeInv, TypeOK, Young
  <2> QED BY <2>2, <2>3
<1>7. CASE LooseSettles(c)
  <2>1. PICK l \in loose :
           /\ l.of = c /\ loose' = loose \ {l}
           /\ \/ /\ pairs[c] >= l.amount
                 /\ pairs' = [pairs EXCEPT ![c] = @ - l.amount]
                 /\ Moves(c)
              \/ UNCHANGED <<pairs, moved>>
           /\ UNCHANGED <<running, wallet, local, taskVars, tx, nonce>>
    BY <1>7 DEF LooseSettles
  <2>2. pairs' \in [Markets -> 0 .. MaxPairs] /\ moved' \in [Markets -> BOOLEAN]
    <3>1. pairs[c] \in 0 .. MaxPairs /\ l.amount \in 0 .. MaxPairs
      BY DEF TypeInv, TypeOK, MergeTypeOK, Transactions
    <3>2. pairs[c] >= l.amount => pairs[c] - l.amount \in 0 .. MaxPairs
      BY <1>0, <3>1
    <3>3. CASE pairs[c] >= l.amount /\ pairs' = [pairs EXCEPT ![c] = @ - l.amount] /\ Moves(c)
      BY <3>2, <3>3 DEF Moves, TypeInv, TypeOK, MergeTypeOK
    <3>4. CASE UNCHANGED <<pairs, moved>>
      BY <3>4 DEF TypeInv, TypeOK, MergeTypeOK
    <3> QED BY <2>1, <3>3, <3>4
  <2>3. loose' \subseteq Transactions
    BY <2>1 DEF TypeInv, TypeOK, MergeTypeOK
  <2>4. MergeTypeOK' /\ Signed'
    BY <2>1, <2>2, <2>3 DEF TypeInv, TypeOK, MergeTypeOK, Signed
  <2> QED BY <1>1, <2>1, <2>4
<1>8. CASE TradeFills(c) \/ TradeSettles(c)
  <2>1. /\ local' \in [Markets -> 0 .. MaxPairs]
        /\ pairs' \in [Markets -> 0 .. MaxPairs]
        /\ moved' \in [Markets -> BOOLEAN]
    <3>1. CASE TradeFills(c)
      BY <3>1 DEF TradeFills, TypeInv, TypeOK, MergeTypeOK
    <3>2. CASE TradeSettles(c)
      <4>1. pairs' \in [Markets -> 0 .. MaxPairs]
        BY <3>2 DEF TradeSettles, TypeInv, TypeOK, MergeTypeOK
      <4>2. moved' \in [Markets -> BOOLEAN]
        BY <3>2 DEF TradeSettles, Moves, TypeInv, TypeOK, MergeTypeOK
      <4> QED BY <3>2, <4>1, <4>2 DEF TradeSettles, TypeInv, TypeOK, MergeTypeOK
    <3> QED BY <1>8, <3>1, <3>2
  <2>2. UNCHANGED <<running, wallet, taskVars, chainVars>>
    BY <1>8 DEF TradeFills, TradeSettles
  <2> QED BY <1>1, <2>1, <2>2 DEF TypeInv, TypeOK, MergeTypeOK, Signed
<1>9. CASE PositionsReconcile(c)
  BY <1>1, <1>9 DEF PositionsReconcile, TypeInv, TypeOK, MergeTypeOK, Signed
<1> QED BY <1>2, <1>3, <1>4, <1>5, <1>6, <1>7, <1>8, <1>9, <1>10 DEF MergeStep

LEMMA ShutdownTypes ==
    ASSUME TypeInv, BeginShutdown
    PROVE  TypeInv'
<1> USE DEF heldVars, chainVars
<1>0. amount' \in [Markets -> 0 .. MaxPairs]
  BY MergeAssumption
     DEF BeginShutdown, CancelMerges, TypeInv, TypeOK, MergeTypeOK, MergeAssumption
<1>1. MergeTypeOK' /\ Signed'
  BY <1>0 DEF BeginShutdown, CancelMerges, TypeInv, TypeOK, MergeTypeOK, Signed
<1>2. \A c \in Markets : chainLock' # c /\ mtask'[c] = "none"
  BY MergeAssumption DEF BeginShutdown, CancelMerges, MergeAssumption
<1>3. call' \in [Markets -> {"none", "queued", "sending", "sent"}]
      /\ \A c \in Markets : call'[c] # "queued"
  BY DEF BeginShutdown, TypeInv, TypeOK
<1>4. task' = Everyone("cancelled") /\ Everyone("cancelled")' = Everyone("cancelled")
  BY DEF BeginShutdown, Everyone
<1>5. Everyone("cancelled") \in [Tasks -> {"unborn", "live", "returned", "raised", "cancelled"}]
  BY DEF Everyone
<1>6. merging' = {} /\ merging' = {c \in Markets : mtask'[c] # "none"}
  BY <1>2 DEF BeginShutdown, CancelMerges
<1>7. Young'
  BY DEF BeginShutdown, Young
<1> QED BY <1>1, <1>2, <1>3, <1>4, <1>5, <1>6, <1>7
        DEF BeginShutdown, TypeInv, TypeOK, Leaving

LEMMA TypesKept == TypeInv /\ [Next]_vars => TypeInv'
<1> SUFFICES ASSUME TypeInv, [Next]_vars PROVE TypeInv'
  OBVIOUS
<1> USE DEF heldVars, taskVars, chainVars, mergeVars, procVars, poolVars
<1>a. Everyone("cancelled")' = Everyone("cancelled")
  BY DEF Everyone
<1>b. ASSUME UNCHANGED mergeVars PROVE MergeTypeOK' /\ Signed'
  BY <1>b DEF TypeInv, TypeOK, MergeTypeOK, Signed
<1>1. CASE Start
  <2>1. MergeTypeOK' /\ Signed'
    BY <1>1 DEF Start, TypeInv, TypeOK, MergeTypeOK, Signed
  <2>2. task' \in [Tasks -> {"unborn", "live", "returned", "raised", "cancelled"}]
    BY <1>1 DEF Start, Everyone
  <2> QED BY <1>1, <2>1, <2>2 DEF Start, TypeInv, TypeOK, Young, Leaving
<1>2. CASE LoopReturns
  BY <1>2, <1>b DEF LoopReturns, Dies, TypeInv, TypeOK, Young, Leaving
<1>3. CASE LoopRaises
  BY <1>3, <1>b DEF LoopRaises, Dies, TypeInv, TypeOK, Young, Leaving
<1>4. CASE Interrupt \/ RunForeverEnds
  BY <1>4, ShutdownTypes DEF Interrupt, RunForeverEnds
<1>5. CASE Drained \/ DrainGivesUp \/ ClearAndClose
  <2>1. phase' \in {"clearing", "closed"} /\ phase \in Leaving
    BY <1>5 DEF Drained, DrainGivesUp, ClearAndClose, Leaving
  <2>2. rests' \in [Markets -> BOOLEAN] /\ gaveUp' \in BOOLEAN
    BY <1>5 DEF Drained, DrainGivesUp, ClearAndClose, TypeInv, TypeOK
  <2>3. UNCHANGED <<mergeVars, pool, call, task, failed>>
    BY <1>5 DEF Drained, DrainGivesUp, ClearAndClose
  <2> QED BY <1>a, <1>b, <2>1, <2>2, <2>3 DEF TypeInv, TypeOK, Young, Leaving
<1>6. ASSUME NEW n \in Tasks, Supervise(n) PROVE TypeInv'
  BY <1>6, <1>b DEF Supervise, TypeInv, TypeOK, Young, Leaving
<1>7. ASSUME NEW c \in Markets, ClientStep(c) PROVE TypeInv'
  <2>1. CASE QuoterMerges(c)
    <3>1. phase = "up" /\ MaybeMerge(c) /\ UNCHANGED <<procVars, poolVars>>
      BY <1>7, <2>1 DEF QuoterMerges, MaybeMerge, TypeInv, TypeOK
    <3>2. MergeTypeOK' /\ Signed'
      BY <3>1 DEF MaybeMerge, TypeInv, TypeOK, MergeTypeOK, Signed
    <3>3. /\ merging' = {d \in Markets : mtask'[d] # "none"}
          /\ \A d \in Markets : chainLock' = d <=> mtask'[d] \in {"reads", "sends"}
      BY <3>1 DEF MaybeMerge, TypeInv, TypeOK, MergeTypeOK
    <3> QED BY <3>1, <3>2, <3>3 DEF MaybeMerge, TypeInv, TypeOK, Young, Leaving
  <2>2. CASE QuoterPosts(c)
    BY <1>7, <1>b, <2>2 DEF QuoterPosts, TypeInv, TypeOK, Young, Leaving
  <2>3. CASE ThreadTakes(c) \/ Decided(c) \/ Answered(c)
    <3>1. /\ call' \in [Markets -> {"none", "queued", "sending", "sent"}]
          /\ \A d \in Markets : call'[d] = "queued" => call[d] = "queued"
      BY <2>3 DEF ThreadTakes, Decided, Answered, TypeInv, TypeOK
    <3>2. rests' \in [Markets -> BOOLEAN]
      BY <2>3 DEF ThreadTakes, Decided, Answered, TypeInv, TypeOK
    <3>3. UNCHANGED <<mergeVars, procVars, pool>>
      BY <2>3 DEF ThreadTakes, Decided, Answered
    <3> QED BY <1>a, <1>b, <3>1, <3>2, <3>3 DEF TypeInv, TypeOK, Young
  <2> QED BY <1>7, <2>1, <2>2, <2>3 DEF ClientStep
<1>8. ASSUME NEW c \in Markets, MergeStep(c), UNCHANGED <<procVars, poolVars>>
      PROVE  TypeInv'
  BY <1>8, MergeTypes
<1>9. CASE UNCHANGED vars
  BY <1>9, <1>a, <1>b DEF vars, TypeInv, TypeOK, Young
<1> QED BY <1>1, <1>2, <1>3, <1>4, <1>5, <1>6, <1>7, <1>8, <1>9 DEF Next, Shutdown

LEMMA TypesAtFirst == Init => TypeInv
<1> SUFFICES ASSUME Init PROVE TypeInv
  OBVIOUS
<1>1. MergeTypeOK
  <2>1. 0 \in 0 .. MaxPairs /\ wallet \in AllWallets
    BY MergeAssumption DEF Init, InitMerging, MergeAssumption
  <2>2. /\ amount \in [Markets -> 0 .. MaxPairs]
        /\ pairs \in [Markets -> 0 .. MaxPairs] /\ local = pairs
    BY <2>1 DEF Init, InitMerging
  <2>3. /\ moved \in [Markets -> BOOLEAN] /\ tx \in [Markets -> TxStates]
        /\ nonce \in [Markets -> Nonces \cup {NoNonce}] /\ loose \subseteq Transactions
        /\ mtask \in [Markets -> {"none", "waits", "reads", "sends"}]
        /\ running \in BOOLEAN /\ merging = {} /\ chainLock = Free
    BY DEF Init, InitMerging, TxStates
  <2> QED BY <2>1, <2>2, <2>3 DEF MergeTypeOK
<1>2. task \in [Tasks -> {"unborn", "live", "returned", "raised", "cancelled"}]
  BY DEF Init, Everyone
<1>3. \A c \in Markets : chainLock = c <=> mtask[c] \in {"reads", "sends"}
  BY MergeAssumption DEF Init, InitMerging, MergeAssumption
<1>4. merging = {} /\ merging = {c \in Markets : mtask[c] # "none"}
  BY DEF Init, InitMerging
<1>5. Signed
  BY DEF Init, InitMerging, Signed
<1> QED BY <1>1, <1>2, <1>3, <1>4, <1>5 DEF Init, InitMerging, TypeInv, TypeOK, Young, Leaving

LEMMA AlwaysTypes == Spec => []TypeInv
BY TypesAtFirst, TypesKept, PTL DEF Spec

\* In every phase the tasks, marks and locks are those of the phase, whatever
\* ends, hangs or is cancelled.
THEOREM TypeCorrect == Spec => []TypeOK
<1>1. TypeInv => TypeOK
  BY DEF TypeInv
<1> QED BY <1>1, AlwaysTypes, PTL

(***************************************************************************)
(* No nonce used twice, and no merge larger than what is held              *)
(***************************************************************************)
\* Whoever has a thread awaits it, or the engine is shutting down.
ThreadAwaited ==
    \A c \in Markets : tx[c] # "none" => mtask[c] = "sends" \/ phase \in Leaving

OneThread ==
    \A c, d \in Markets : tx[c] # "none" /\ tx[d] # "none" => c = d

\* The transactions given up on differ from each other and from every other.
NoncesApart ==
    /\ \A c \in Markets, l \in loose : tx[c] \in {"signed", "pending"} => nonce[c] # l.nonce
    /\ \A k, l \in loose : k.nonce = l.nonce => k = l

SendInv == ThreadAwaited /\ OneThread /\ NoncesApart /\ MergesFit

\* Outside shutdown a market whose task is not sending has no thread, and no
\* other market has one while a task holds the lock to read the balances.
LEMMA NoThread ==
    ASSUME TypeInv, SendInv, NEW c \in Markets
    PROVE  /\ phase \notin Leaving /\ mtask[c] # "sends" => tx[c] = "none"
           /\ mtask[c] # "none" => phase = "up"
           /\ mtask[c] = "reads" => \A d \in Markets : tx[d] = "none"
<1>1. mtask[c] # "none" => phase = "up"
  BY DEF TypeInv, TypeOK, Young
<1>2. phase \notin Leaving /\ mtask[c] # "sends" => tx[c] = "none"
  BY DEF SendInv, ThreadAwaited
<1>3. ASSUME mtask[c] = "reads", NEW d \in Markets PROVE tx[d] = "none"
  <2>1. chainLock = c /\ phase \notin Leaving
    BY <1>1, <1>3 DEF TypeInv, TypeOK, Leaving
  <2>2. mtask[d] # "sends"
    BY <1>3, <2>1 DEF TypeInv, TypeOK
  <2> QED BY <2>1, <2>2 DEF SendInv, ThreadAwaited
<1> QED BY <1>1, <1>2, <1>3

LEMMA MergeSends ==
    ASSUME TypeInv, SendInv, NEW c \in Markets, MergeStep(c), UNCHANGED <<procVars, poolVars>>
    PROVE  SendInv'
<1> USE DEF heldVars, taskVars, chainVars, procVars, poolVars
<1>t. /\ tx \in [Markets -> TxStates] /\ mtask \in [Markets -> {"none", "waits", "reads", "sends"}]
      /\ amount \in [Markets -> 0 .. MaxPairs] /\ pairs \in [Markets -> 0 .. MaxPairs]
      /\ moved \in [Markets -> BOOLEAN] /\ nonce \in [Markets -> Nonces \cup {NoNonce}]
      /\ MaxPairs \in Nat
  BY MergeAssumption DEF TypeInv, TypeOK, MergeTypeOK, MergeAssumption
<1>n. ASSUME UNCHANGED nonce, loose' \subseteq loose,
             \A d \in Markets : tx'[d] \in {"signed", "pending"} => tx[d] \in {"signed", "pending"}
      PROVE  NoncesApart'
  BY <1>n DEF SendInv, NoncesApart
<1>1. CASE TakeLock(c)
  BY <1>1, <1>t DEF TakeLock, SendInv, ThreadAwaited, OneThread, NoncesApart, MergesFit
<1>2. CASE BalancesRead(c)
  <2>1. \A d \in Markets : tx[d] = "none"
    BY <1>2, NoThread DEF BalancesRead
  <2>2. CASE Sized(c) = 0
    <3>1. UNCHANGED <<tx, nonce, loose>>
      BY <1>2, <2>2 DEF BalancesRead
    <3> QED BY <1>n, <2>1, <3>1 DEF SendInv, ThreadAwaited, OneThread, MergesFit
  <2>3. CASE Sized(c) # 0
    <3>1. /\ tx' = [tx EXCEPT ![c] = "building"] /\ mtask' = [mtask EXCEPT ![c] = "sends"]
          /\ amount' = [amount EXCEPT ![c] = Sized(c)] /\ UNCHANGED <<pairs, nonce, loose>>
      BY <1>2, <2>3 DEF BalancesRead
    <3>2. \A d \in Markets : tx'[d] # "none" => d = c /\ tx'[d] = "building"
      BY <1>t, <2>1, <3>1
    <3>3. mtask'[c] = "sends" /\ amount'[c] = Sized(c) /\ Sized(c) <= pairs[c]
      BY <1>t, <3>1 DEF Sized, Smaller
    <3>4. NoncesApart'
      BY <1>n, <3>1, <3>2
    <3> QED BY <3>1, <3>2, <3>3, <3>4 DEF SendInv, ThreadAwaited, OneThread, MergesFit
  <2> QED BY <2>2, <2>3
<1>3. CASE BalancesUnreadable(c)
  <2>1. (\A d \in Markets : tx[d] = "none") /\ UNCHANGED <<tx, nonce, loose>>
    BY <1>3, NoThread DEF BalancesUnreadable
  <2> QED BY <1>n, <2>1 DEF SendInv, ThreadAwaited, OneThread, MergesFit
<1>4. ASSUME \A d \in Markets : tx'[d] # "none" => tx[d] # "none",
             \A d \in Markets : tx'[d] \in {"building", "signed", "pending"} =>
                tx[d] \in {"building", "signed", "pending"} /\ pairs'[d] = pairs[d],
             UNCHANGED <<taskVars, moved>>, NoncesApart'
      PROVE  SendInv'
  BY <1>4 DEF SendInv, ThreadAwaited, OneThread, MergesFit
<1>5. CASE SignsV1(c) \/ SignsV2(c) \/ Relays(c)
  <2>1. /\ tx[c] = "building" /\ nonce' = [nonce EXCEPT ![c] = Fresh]
        /\ Nonces \ Carried # {}
        /\ \E state \in {"signed", "pending"} : tx' = [tx EXCEPT ![c] = state]
        /\ UNCHANGED <<pairs, taskVars, loose, moved>>
    BY <1>5 DEF SignsV1, SignsV2, Relays, Numbers
  <2>2. NoncesApart'
    <3>1. \A l \in loose : Fresh # l.nonce
      BY <2>1, FreshNonce DEF Carried
    <3>2. \A d \in Markets : d # c => tx'[d] = tx[d] /\ nonce'[d] = nonce[d]
      BY <1>t, <2>1
    <3>3. nonce'[c] = Fresh
      BY <1>t, <2>1
    <3> QED BY <2>1, <3>1, <3>2, <3>3 DEF SendInv, NoncesApart
  <2>3. \A d \in Markets : tx'[d] # "none" =>
           tx[d] # "none" /\ (d = c \/ tx'[d] = tx[d])
    BY <1>t, <2>1
  <2> QED BY <1>4, <2>1, <2>2, <2>3
<1>6. CASE Sends(c)
  <2>1. /\ tx[c] = "signed" /\ tx' = [tx EXCEPT ![c] = "pending"]
        /\ UNCHANGED <<pairs, taskVars, moved, nonce, loose>>
    BY <1>6 DEF Sends
  <2>2. NoncesApart'
    BY <1>n, <1>t, <2>1
  <2> QED BY <1>4, <1>t, <2>1, <2>2
<1>7. CASE CannotSend(c) \/ SendFails(c) \/ ReceiptTimesOut(c) \/ Mined(c) \/ Reverted(c)
  <2>1. /\ LetsGo(c) /\ tx[c] \in {"building", "signed", "pending"}
        /\ UNCHANGED <<taskVars, moved>>
    BY <1>7 DEF CannotSend, SendFails, ReceiptTimesOut, Mined, Reverted
  <2>2. /\ tx'[c] = "done"
        /\ \A d \in Markets : d # c => tx'[d] = tx[d] /\ nonce'[d] = nonce[d] /\ pairs'[d] = pairs[d]
    BY <1>7, <1>t, <2>1 DEF LetsGo, CannotSend, SendFails, ReceiptTimesOut, Mined, Reverted
  <2>3. \A d \in Markets : d # c => tx'[d] = "none"
    BY <2>1, <2>2 DEF SendInv, OneThread
  <2>4. NoncesApart'
    <3>1. CASE loose' = loose
      BY <2>2, <2>3, <3>1 DEF SendInv, NoncesApart
    <3>2. CASE loose' = loose \cup {Leftover(c)} /\ tx[c] \in {"signed", "pending"}
      <4>1. Leftover(c).nonce = nonce[c] /\ \A l \in loose : nonce[c] # l.nonce
        BY <3>2 DEF Leftover, SendInv, NoncesApart
      <4> QED BY <2>2, <2>3, <3>2, <4>1 DEF SendInv, NoncesApart
    <3> QED BY <1>7, <3>1, <3>2 DEF CannotSend, SendFails, ReceiptTimesOut, Mined, Reverted
  <2> QED BY <1>4, <2>1, <2>2, <2>3, <2>4
<1>8. CASE ThreadEnds(c)
  <2>1. /\ tx' = [tx EXCEPT ![c] = "none"] /\ UNCHANGED <<pairs, phase, nonce, loose>>
    BY <1>8 DEF ThreadEnds
  <2>2. \A d \in Markets : d # c =>
           mtask'[d] = mtask[d] /\ amount'[d] = amount[d] /\ moved'[d] = moved[d]
    BY <1>8, <1>t DEF ThreadEnds, End
  <2>3. \A d \in Markets : tx'[d] # "none" => d # c /\ tx[d] = tx'[d]
    BY <1>t, <2>1
  <2>4. NoncesApart'
    BY <1>n, <2>1, <2>3
  <2> QED BY <2>1, <2>2, <2>3, <2>4 DEF SendInv, ThreadAwaited, OneThread, MergesFit
<1>9. CASE LooseSettles(c) \/ TradeSettles(c)
  <2>1. \A d \in Markets : (pairs'[d] = pairs[d] /\ moved'[d] = moved[d]) \/ moved'[d] \/ tx[d] = "none"
    BY <1>9, <1>t DEF LooseSettles, TradeSettles, Moves
  <2>2. UNCHANGED <<taskVars, tx, nonce>> /\ loose' \subseteq loose
    BY <1>9 DEF LooseSettles, TradeSettles
  <2>3. NoncesApart'
    BY <1>n, <2>2
  <2> QED BY <2>1, <2>2, <2>3 DEF SendInv, ThreadAwaited, OneThread, MergesFit
<1>10. CASE TradeFills(c) \/ PositionsReconcile(c)
  <2>1. UNCHANGED <<pairs, taskVars, chainVars, moved>>
    BY <1>10 DEF TradeFills, PositionsReconcile
  <2> QED BY <2>1 DEF SendInv, ThreadAwaited, OneThread, NoncesApart, MergesFit
<1> QED BY <1>1, <1>2, <1>3, <1>5, <1>6, <1>7, <1>8, <1>9, <1>10 DEF MergeStep

LEMMA SendsKept == TypeInv /\ SendInv /\ [Next]_vars => SendInv'
<1> SUFFICES ASSUME TypeInv, SendInv, [Next]_vars PROVE SendInv'
  OBVIOUS
<1> USE DEF heldVars, taskVars, chainVars, mergeVars, procVars, poolVars
<1>1. ASSUME UNCHANGED <<pairs, mtask, amount, chainVars, moved>>, phase \in Leaving => phase' \in Leaving
      PROVE  SendInv'
  BY <1>1 DEF SendInv, ThreadAwaited, OneThread, NoncesApart, MergesFit
<1>2. ASSUME BeginShutdown PROVE SendInv'
  BY <1>2 DEF BeginShutdown, CancelMerges, SendInv, ThreadAwaited, OneThread, NoncesApart, MergesFit, Leaving
<1>3. CASE Start
  BY <1>1, <1>3 DEF Start, Leaving
<1>4. CASE LoopReturns
  BY <1>1, <1>4 DEF LoopReturns
<1>5. CASE LoopRaises
  BY <1>1, <1>5 DEF LoopRaises
<1>6. CASE Interrupt \/ RunForeverEnds
  BY <1>2, <1>6 DEF Interrupt, RunForeverEnds
<1>7. CASE Drained \/ DrainGivesUp \/ ClearAndClose
  BY <1>1, <1>7 DEF Drained, DrainGivesUp, ClearAndClose, Leaving
<1>8. ASSUME NEW n \in Tasks, Supervise(n) PROVE SendInv'
  BY <1>1, <1>8 DEF Supervise
<1>9. ASSUME NEW c \in Markets, ClientStep(c) PROVE SendInv'
  <2>1. CASE QuoterMerges(c)
    <3>1. /\ phase = "up" /\ mtask[c] = "none" /\ UNCHANGED <<chainVars, pairs, moved, phase>>
          /\ mtask' = [mtask EXCEPT ![c] = "waits"] /\ amount' = [amount EXCEPT ![c] = local[c]]
      BY <2>1 DEF QuoterMerges, MaybeMerge, TypeInv, TypeOK
    <3>2. tx[c] = "none"
      BY <3>1, NoThread DEF Leaving
    <3>3. \A d \in Markets : d # c => mtask'[d] = mtask[d] /\ amount'[d] = amount[d]
      BY <3>1 DEF TypeInv, TypeOK, MergeTypeOK
    <3> QED BY <3>1, <3>2, <3>3 DEF SendInv, ThreadAwaited, OneThread, NoncesApart, MergesFit
  <2>2. CASE ~QuoterMerges(c)
    BY <1>1, <1>9, <2>2 DEF ClientStep, QuoterPosts, ThreadTakes, Decided, Answered
  <2> QED BY <2>1, <2>2
<1>10. ASSUME NEW c \in Markets, MergeStep(c), UNCHANGED <<procVars, poolVars>>
       PROVE  SendInv'
  BY <1>10, MergeSends
<1>11. CASE UNCHANGED vars
  BY <1>1, <1>11 DEF vars
<1> QED BY <1>3, <1>4, <1>5, <1>6, <1>7, <1>8, <1>9, <1>10, <1>11 DEF Next, Shutdown

\* A thread is awaited by the task that holds the chain lock, or outlives it at
\* shutdown, when no other starts.
THEOREM SendInvariant == Spec => [](TypeInv /\ SendInv)
<1>1. Init => SendInv
  BY DEF Init, InitMerging, SendInv, ThreadAwaited, OneThread, NoncesApart, MergesFit
<1> QED BY <1>1, TypesAtFirst, TypesKept, SendsKept, PTL DEF Spec

\* For any markets, wallets and nonces, and however loops end, receipts time out,
\* sending fails and the program is interrupted: two transactions of the account
\* never carry one nonce, those given up on included.
THEOREM AlwaysNoncesDiffer == Spec => []NoncesDiffer
<1>1. SendInv => NoncesDiffer
  <2> SUFFICES ASSUME SendInv PROVE NoncesDiffer
    OBVIOUS
  <2>1. \A c, d \in {e \in Markets : tx[e] \in {"signed", "pending"}} : c = d
    BY DEF SendInv, OneThread
  <2> QED BY <2>1 DEF SendInv, NoncesApart, NoncesDiffer
<1> QED BY <1>1, SendInvariant, PTL

\* A transaction fits the balance it was sized by, whatever the store believed.
THEOREM MergesAlwaysFit == Spec => []MergesFit
<1>1. SendInv => MergesFit
  BY DEF SendInv
<1> QED BY <1>1, SendInvariant, PTL

(***************************************************************************)
(* What lands after the drain                                              *)
(***************************************************************************)
\* The drain that was not given up on has left no thread, and the pool that was
\* shut starts none.
DrainInv ==
    /\ phase \in Leaving => pool = "shut"
    /\ phase \in {"clearing", "closed"} /\ ~gaveUp => Busy = {}

LEMMA DrainKept == TypeInv /\ DrainInv /\ [Next]_vars => DrainInv'
<1> SUFFICES ASSUME TypeInv, DrainInv, [Next]_vars PROVE DrainInv'
  OBVIOUS
<1> USE DEF procVars, poolVars
<1>1. ASSUME UNCHANGED <<phase, pool, call, gaveUp>> PROVE DrainInv'
  BY <1>1 DEF DrainInv, Busy, Leaving
<1>2. ASSUME BeginShutdown PROVE DrainInv'
  BY <1>2 DEF BeginShutdown, DrainInv, Leaving
<1>3. CASE Start
  BY <1>3 DEF Start, DrainInv, Leaving
<1>4. CASE LoopReturns \/ LoopRaises \/ Interrupt \/ RunForeverEnds
  BY <1>1, <1>2, <1>4 DEF LoopReturns, LoopRaises, Interrupt, RunForeverEnds
<1>5. ASSUME NEW n \in Tasks, Supervise(n) PROVE DrainInv'
  BY <1>1, <1>5 DEF Supervise
<1>6. CASE Drained \/ DrainGivesUp \/ ClearAndClose
  <2>1. CASE Drained
    BY <2>1 DEF Drained, DrainInv, Busy, Leaving
  <2>2. CASE DrainGivesUp
    BY <2>2 DEF DrainGivesUp, DrainInv, Leaving
  <2>3. CASE ClearAndClose
    BY <2>3 DEF ClearAndClose, DrainInv, Busy, Leaving
  <2> QED BY <1>6, <2>1, <2>2, <2>3
<1>7. ASSUME NEW c \in Markets, ClientStep(c) PROVE DrainInv'
  <2>1. CASE QuoterPosts(c)
    BY <2>1 DEF QuoterPosts, DrainInv, Leaving
  <2>2. CASE QuoterMerges(c)
    BY <1>1, <2>2 DEF QuoterMerges
  <2>3. CASE ThreadTakes(c)
    <3>1. phase \notin Leaving
      BY <2>3 DEF ThreadTakes, DrainInv, TypeInv, TypeOK
    <3> QED BY <2>3, <3>1 DEF ThreadTakes, DrainInv, Leaving
  <2>4. CASE Decided(c) \/ Answered(c)
    <3>1. c \in Busy
      BY <2>4 DEF Decided, Answered, Busy
    <3>2. UNCHANGED <<phase, pool, gaveUp>>
      BY <2>4 DEF Decided, Answered
    <3> QED BY <3>1, <3>2 DEF DrainInv, Leaving
  <2> QED BY <1>7, <2>1, <2>2, <2>3, <2>4 DEF ClientStep
<1>8. ASSUME NEW c \in Markets, MergeStep(c), UNCHANGED <<procVars, poolVars>> PROVE DrainInv'
  BY <1>1, <1>8
<1>9. CASE UNCHANGED vars
  BY <1>1, <1>9 DEF vars
<1> QED BY <1>3, <1>4, <1>5, <1>6, <1>7, <1>8, <1>9 DEF Next, Shutdown

\* Only the thread of a request under way puts an order on the book.
LEMMA LandsByThread ==
    ASSUME [Next]_vars, NEW c \in Markets, ~rests[c], rests'[c]
    PROVE  UNCHANGED phase /\ Busy # {}
<1> USE DEF procVars, poolVars
<1>1. rests' # rests
  OBVIOUS
<1>2. ~Start /\ ~LoopReturns /\ ~LoopRaises /\ ~Interrupt
  BY <1>1 DEF Start, LoopReturns, LoopRaises, Interrupt, BeginShutdown
<1>3. \A n \in Tasks : ~Supervise(n)
  BY <1>1 DEF Supervise
<1>4. ~Shutdown
  BY <1>1 DEF Shutdown, RunForeverEnds, BeginShutdown, Drained, DrainGivesUp, ClearAndClose
<1>5. ASSUME NEW d \in Markets, ClientStep(d) PROVE UNCHANGED phase /\ d \in Busy
  <2>1. Decided(d)
    BY <1>1, <1>5
       DEF ClientStep, QuoterPosts, QuoterMerges, ThreadTakes, Answered
  <2> QED BY <2>1 DEF Decided, Busy
<1>6. ~UNCHANGED vars /\ ~UNCHANGED <<procVars, poolVars>>
  BY <1>1 DEF vars
<1> QED BY <1>2, <1>3, <1>4, <1>5, <1>6 DEF Next

\* The bounded drain of shutdown does what its comment says it is there for: for
\* any number of quoters and threads, whatever a request still does, it does
\* before the program believes that nothing is under way.
THEOREM AlwaysLateOnlyIfHung == Spec => LateOnlyIfHung
<1> DEFINE Landing == \A c \in Markets :
                 phase \in {"clearing", "closed"} /\ ~rests[c] /\ rests'[c] => gaveUp
<1>1. Init => DrainInv
  BY DEF Init, DrainInv, Leaving
<1>2. DrainInv /\ [Next]_vars => [Landing]_vars
  <2> SUFFICES ASSUME DrainInv, [Next]_vars, NEW c \in Markets,
                      phase \in {"clearing", "closed"}, ~rests[c], rests'[c]
               PROVE  gaveUp
    OBVIOUS
  <2> QED BY LandsByThread DEF DrainInv
<1> QED BY <1>1, <1>2, DrainKept, AlwaysTypes, PTL DEF Spec, LateOnlyIfHung
=============================================================================
