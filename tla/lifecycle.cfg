SPECIFICATION FairSpec
CONSTANTS
    a = a
    b = b
    Free = Free
    Markets = {a, b}
    V2 = {b}
    V2Enabled = TRUE
    Wallets = {"safe", "deposit"}
    Builder = TRUE
    Nonces = {1, 2}
    NoNonce = NoNonce
    MergeMin = 1
    MaxPairs = 1
    Quoting = {a}
    Threads = 1
INVARIANTS TypeOK NoncesDiffer MergesFit
PROPERTIES MergesEnd LateOnlyIfHung ShutdownEnds LoopsComeBack
CHECK_DEADLOCK FALSE
