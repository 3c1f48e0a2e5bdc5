SPECIFICATION FairSpec
CONSTANTS
    o1 = o1
    o2 = o2
    yes = yes
    bid = bid
    None = None
    Ids = {o1, o2}
    Tokens = {yes}
    TokenOf <- OneToken
    SlotOf <- OneSlot
    Slots = {bid}
    Faults = {"cancel", "kept", "all", "asset", "place", "late", "read", "lag", "slow", "wipe"}
    MaxRestarts = 1
PROPERTY BeliefCatchesUp
