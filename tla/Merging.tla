------------------------------ MODULE Merging -------------------------------
(***************************************************************************)
(* Merging complete pairs into cash: the engine's _maybe_merge and         *)
(* _merge_task, one background task per market under one chain lock, and   *)
(* the thread in which Merger.merge sends the transaction and waits for    *)
(* its receipt.  The chain and the market move on meanwhile.               *)
(*                                                                         *)
(* A market's two balances are represented by their minimum, its pairs.    *)
(***************************************************************************)
EXTENDS Naturals

CONSTANTS
    Markets,    \* the traded markets
    Free,       \* nobody: the chain lock is free
    V2,         \* those on protocol version 2
    V2Enabled,  \* wallet.merge_v2_enabled
    Wallets,    \* the kinds of wallet considered
    Builder,    \* whether there are builder credentials
    MergeMin,   \* merge_min_size
    Nonces,     \* bound: the nonces told apart, those of mined transactions over again
    NoNonce,    \* nothing is signed
    MaxPairs    \* bound: pairs held in a market

\* signature_type 0, 2, and 1 or 3
AllWallets == {"eoa", "safe", "deposit"}

MergeAssumption ==
    /\ Free \notin Markets /\ NoNonce \notin Nonces
    /\ V2 \subseteq Markets
    /\ V2Enabled \in BOOLEAN /\ Builder \in BOOLEAN
    /\ Wallets \subseteq AllWallets
    /\ MergeMin \in Nat \ {0} /\ MaxPairs \in Nat

ASSUME MergeAssumption

VARIABLES
    running,    \* Engine._running
    wallet,     \* wallet.signature_type
    local,      \* pairs held as the store knows them
    pairs,      \* pairs held on the chain
    merging,    \* Engine._merging
    mtask,      \* where each market's merge task is
    chainLock,  \* who holds Engine._chain_lock
    amount,     \* how many pairs the task merges
    tx,         \* the thread and its transaction
    nonce,      \* the nonce that transaction is signed with
    loose,      \* the transactions given up on that may yet be mined
    moved       \* the chain balance changed since the thread's task read it

heldVars  == <<local, pairs>>
taskVars  == <<merging, mtask, chainLock, amount>>
chainVars == <<tx, nonce, loose>>
mergeVars == <<running, wallet, heldVars, taskVars, chainVars, moved>>

TxStates == {"none", "building", "signed", "pending", "done"}

\* A transaction of a market, once it is signed.
Transactions == [of : Markets, nonce : Nonces, amount : 0 .. MaxPairs]

\* By the kind of wallet and the version of the market.
CanMerge(c) ==
    /\ wallet \in {"eoa", "safe"} \/ Builder
    /\ c \in V2 => V2Enabled

InitMerging ==
    /\ running = FALSE
    /\ wallet \in Wallets
    /\ pairs \in [Markets -> 0 .. MaxPairs]
    /\ local = pairs
    /\ merging = {}
    /\ mtask = [c \in Markets |-> "none"]
    /\ chainLock = Free
    /\ amount = [c \in Markets |-> 0]
    /\ tx = [c \in Markets |-> "none"]
    /\ nonce = [c \in Markets |-> NoNonce]
    /\ loose = {}
    /\ moved = [c \in Markets |-> FALSE]

-----------------------------------------------------------------------------
(* The task *)

\* _maybe_merge, at the end of a requote.
MaybeMerge(c) ==
    /\ running
    /\ c \notin merging
    /\ local[c] >= MergeMin
    /\ merging' = merging \cup {c}
    /\ amount' = [amount EXCEPT ![c] = local[c]]
    /\ mtask' = [mtask EXCEPT ![c] = "waits"]
    /\ UNCHANGED <<running, wallet, heldVars, chainVars, moved, chainLock>>

TakeLockUnasked(c) ==
    /\ mtask[c] = "waits"
    /\ chainLock' = c
    /\ mtask' = [mtask EXCEPT ![c] = "reads"]
    /\ UNCHANGED <<running, wallet, heldVars, chainVars, moved, merging, amount>>

TakeLock(c) ==
    /\ mtask[c] = "waits"
    /\ chainLock = Free
    /\ chainLock' = c
    /\ mtask' = [mtask EXCEPT ![c] = "reads"]
    /\ UNCHANGED <<running, wallet, heldVars, chainVars, moved, merging, amount>>

\* The end of the task, however it comes: the lock is let go of and the
\* market may merge again.
EndKeepsMark(c) ==
    /\ mtask' = [mtask EXCEPT ![c] = "none"]
    /\ chainLock' = Free
    /\ merging' = IF mtask[c] = "reads" THEN merging ELSE merging \ {c}
    /\ amount' = [amount EXCEPT ![c] = 0]
    /\ moved' = [moved EXCEPT ![c] = FALSE]

End(c) ==
    /\ mtask' = [mtask EXCEPT ![c] = "none"]
    /\ chainLock' = Free
    /\ merging' = merging \ {c}
    /\ amount' = [amount EXCEPT ![c] = 0]
    /\ moved' = [moved EXCEPT ![c] = FALSE]

Smaller(a, b) == IF a <= b THEN a ELSE b

SizedLocally(c) == amount[c]
Sized(c) == Smaller(amount[c], pairs[c])

\* The balances are read from the chain; what is to be merged is no more than
\* they hold.
BalancesRead(c) ==
    /\ mtask[c] = "reads"
    /\ IF Sized(c) = 0
       THEN End(c) /\ UNCHANGED tx
       ELSE /\ amount' = [amount EXCEPT ![c] = Sized(c)]
            /\ moved' = [moved EXCEPT ![c] = FALSE]
            /\ mtask' = [mtask EXCEPT ![c] = "sends"]
            /\ tx' = [tx EXCEPT ![c] = "building"]
            /\ UNCHANGED <<merging, chainLock>>
    /\ UNCHANGED <<running, wallet, heldVars, nonce, loose>>

\* Unreadable balances are not taken for none: the task ends.
BalancesUnreadable(c) ==
    /\ mtask[c] = "reads"
    /\ End(c)
    /\ UNCHANGED <<running, wallet, heldVars, chainVars>>

-----------------------------------------------------------------------------
(* The thread, in Merger.merge *)

\* What the node counts as pending, of this engine and of every earlier one;
\* a transaction that is signed and not sent is not among it.
Carried ==
    {nonce[c] : c \in {d \in Markets : tx[d] = "pending"}} \cup {l.nonce : l \in loose}

Fresh == CHOOSE n \in Nonces : n \notin Carried

\* A transaction is numbered, for the account or by the relayer for the wallet.
Numbers(c, state) ==
    /\ tx[c] = "building"
    /\ CanMerge(c)
    /\ Nonces \ Carried # {}
    /\ tx' = [tx EXCEPT ![c] = state]
    /\ nonce' = [nonce EXCEPT ![c] = Fresh]
    /\ UNCHANGED <<running, wallet, heldVars, taskVars, loose, moved>>

\* To the conditional tokens or the adapter for negative risk, directly or by a
\* Safe that executes the call.  The Safe's own nonce is read from the last
\* block: of two calls under way with the same one the later reverts.
SignsV1(c) == c \notin V2 /\ wallet # "deposit" /\ Numbers(c, "signed")

\* To the router; the account signs for itself even if it has a Safe.
SignsV2(c) == c \in V2 /\ wallet # "deposit" /\ Numbers(c, "signed")

\* send_raw_transaction.
Sends(c) ==
    /\ tx[c] = "signed"
    /\ tx' = [tx EXCEPT ![c] = "pending"]
    /\ UNCHANGED <<running, wallet, heldVars, taskVars, nonce, loose, moved>>

\* The relayer gives the number, and sends what is signed with it.
Relays(c) == wallet = "deposit" /\ Numbers(c, "pending")

\* The thread is done with its transaction.
LetsGo(c) ==
    /\ tx' = [tx EXCEPT ![c] = "done"]
    /\ nonce' = [nonce EXCEPT ![c] = NoNonce]

Leftover(c) == [of |-> c, nonce |-> nonce[c], amount |-> amount[c]]

\* The wallet cannot merge, or building or signing raised, or the relayer did.
CannotSend(c) ==
    /\ tx[c] = "building"
    /\ LetsGo(c)
    /\ UNCHANGED <<running, wallet, heldVars, taskVars, loose, moved>>

\* Sending raised, and the node may have the transaction all the same.
SendFails(c) ==
    /\ tx[c] = "signed"
    /\ LetsGo(c)
    /\ loose' \in {loose, loose \cup {Leftover(c)}}
    /\ UNCHANGED <<running, wallet, heldVars, taskVars, moved>>

\* No receipt within 120 or 180 seconds: the transaction stays where it is.
ReceiptTimesOut(c) ==
    /\ tx[c] = "pending"
    /\ LetsGo(c)
    /\ loose' = loose \cup {Leftover(c)}
    /\ UNCHANGED <<running, wallet, heldVars, taskVars, moved>>

\* merge() answers; nobody hears it if the task was cancelled.
ThreadEnds(c) ==
    /\ tx[c] = "done"
    /\ tx' = [tx EXCEPT ![c] = "none"]
    /\ IF mtask[c] = "sends" THEN End(c)
       ELSE /\ amount' = [amount EXCEPT ![c] = 0]
            /\ moved' = [moved EXCEPT ![c] = FALSE]
            /\ UNCHANGED <<merging, mtask, chainLock>>
    /\ UNCHANGED <<running, wallet, heldVars, nonce, loose>>

CancelMergesKeepsMarks ==
    /\ mtask' = [c \in Markets |-> "none"]
    /\ chainLock' = Free
    /\ UNCHANGED <<merging, amount, chainVars, moved, wallet, heldVars>>

\* shutdown cancels the tasks at whatever they await; their threads go on, with
\* what they were given.
CancelMerges ==
    /\ mtask' = [c \in Markets |-> "none"]
    /\ merging' = {}
    /\ chainLock' = Free
    /\ amount' = [c \in Markets |-> IF tx[c] = "none" THEN 0 ELSE amount[c]]
    /\ UNCHANGED <<chainVars, moved, wallet, heldVars>>

-----------------------------------------------------------------------------
(* The chain and the market *)

\* The chain holds the pairs, and gives collateral for them.
Mined(c) ==
    /\ tx[c] = "pending"
    /\ pairs[c] >= amount[c]
    /\ pairs' = [pairs EXCEPT ![c] = @ - amount[c]]
    /\ LetsGo(c)
    /\ UNCHANGED <<running, wallet, local, taskVars, loose, moved>>

\* For want of pairs, or of gas, or for a nonce used before.
Reverted(c) ==
    /\ tx[c] = "pending"
    /\ LetsGo(c)
    /\ UNCHANGED <<running, wallet, heldVars, taskVars, loose, moved>>

\* A balance changes under a thread whose task has read it.
Moves(c) == moved' = [moved EXCEPT ![c] = tx[c] # "none"]

\* A transaction given up on is mined after all, or dropped for good.
LooseSettles(c) ==
    \E l \in loose :
       /\ l.of = c
       /\ loose' = loose \ {l}
       /\ \/ /\ pairs[c] >= l.amount
             /\ pairs' = [pairs EXCEPT ![c] = @ - l.amount]
             /\ Moves(c)
          \/ UNCHANGED <<pairs, moved>>
       /\ UNCHANGED <<running, wallet, local, taskVars, tx, nonce>>

\* Fills reach the store before they settle on the chain.
TradeFills(c) ==
    /\ running
    /\ \E n \in (0 .. MaxPairs) \ {local[c]} : local' = [local EXCEPT ![c] = n]
    /\ UNCHANGED <<running, wallet, pairs, taskVars, chainVars, moved>>

TradeSettles(c) ==
    /\ running
    /\ \E n \in (0 .. MaxPairs) \ {pairs[c]} : pairs' = [pairs EXCEPT ![c] = n]
    /\ Moves(c)
    /\ UNCHANGED <<running, wallet, local, taskVars, chainVars>>

\* A reconcile round.
PositionsReconcile(c) ==
    /\ running
    /\ local[c] # pairs[c]
    /\ local' = [local EXCEPT ![c] = pairs[c]]
    /\ UNCHANGED <<running, wallet, pairs, taskVars, chainVars, moved>>

MergeStep(c) ==
    \/ TakeLock(c) \/ BalancesRead(c) \/ BalancesUnreadable(c)
    \/ SignsV1(c) \/ SignsV2(c) \/ Sends(c) \/ Relays(c)
    \/ CannotSend(c) \/ SendFails(c) \/ ReceiptTimesOut(c) \/ ThreadEnds(c)
    \/ Mined(c) \/ Reverted(c) \/ LooseSettles(c)
    \/ TradeFills(c) \/ TradeSettles(c) \/ PositionsReconcile(c)

-----------------------------------------------------------------------------
(* Properties *)

MergeTypeOK ==
    /\ running \in BOOLEAN
    /\ wallet \in AllWallets
    /\ local \in [Markets -> 0 .. MaxPairs]
    /\ pairs \in [Markets -> 0 .. MaxPairs]
    /\ merging \subseteq Markets
    /\ mtask \in [Markets -> {"none", "waits", "reads", "sends"}]
    /\ chainLock \in Markets \cup {Free}
    /\ amount \in [Markets -> 0 .. MaxPairs]
    /\ tx \in [Markets -> TxStates]
    /\ nonce \in [Markets -> Nonces \cup {NoNonce}]
    /\ loose \subseteq Transactions
    /\ moved \in [Markets -> BOOLEAN]

\* "Concurrent merges can't reuse a nonce": of the transactions of the account
\* that are signed, under way, or given up on and possibly still to be mined, no
\* two share one.  The count that a nonce is read from does not know of one that
\* is signed and not sent; it is the chain lock that keeps others from reading
\* it then, through timeouts, failures, and a shutdown that lets go of the lock
\* while the thread goes on.
NoncesDiffer ==
    wallet # "deposit" =>
       LET holders == {c \in Markets : tx[c] \in {"signed", "pending"}}
       IN  /\ \A c, d \in holders : nonce[c] = nonce[d] => c = d
           /\ \A c \in holders, l \in loose : nonce[c] # l.nonce
           /\ \A k, l \in loose : k.nonce = l.nonce => k = l

\* Unless trading or an earlier transaction took pairs since the balances were
\* read, a transaction merges no more than the chain holds, however stale the
\* store is (it still shows the pairs a merge has just taken).
MergesFit ==
    \A c \in Markets :
       tx[c] \in {"building", "signed", "pending"} /\ ~moved[c] => amount[c] <= pairs[c]
=============================================================================
