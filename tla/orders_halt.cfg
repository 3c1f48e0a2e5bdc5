SPECIFICATION FairStraySpec
CONSTANTS
    o1 = o1
    o2 = o2
    yes = yes
    bid = bid
    None = None
    Ids = {o1, o2}
    Tokens = {yes}
    TokenOf <- OneToken
    SlotOf <- OneSlot
    Slots = {bid}
    Faults = {"cancel", "kept", "all", "asset", "place", "late", "read", "slow", "meta"}
    MaxRestarts = 1
INVARIANTS DoublesAreStrays UntrackedAreStrays
PROPERTY HaltClearsExchange
