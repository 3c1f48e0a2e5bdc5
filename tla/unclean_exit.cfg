SPECIFICATION Spec
CONSTANTS
    a = a
    b = b
    Free = Free
    Markets = {a, b}
    V2 = {b}
    V2Enabled = TRUE
    Wallets = {"eoa"}
    Builder = TRUE
    Nonces = {1, 2}
    NoNonce = NoNonce
    MergeMin = 1
    MaxPairs = 1
    Quoting = {a}
    Threads = 1
INVARIANT CleanExitLeavesNothing

CHECK_DEADLOCK FALSE
