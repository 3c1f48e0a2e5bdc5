SPECIFICATION Spec
CONSTANTS
    o1 = o1
    o2 = o2
    yes = yes
    bid = bid
    None = None
    Ids = {o1, o2}
    Tokens = {yes}
    TokenOf <- OneToken
    SlotOf <- OneSlot
    Slots = {bid}
    Faults = {"cancel", "place", "read", "ws", "beat", "wipe", "meta"}
    MaxRestarts = 2
INVARIANTS TypeOK NoDoubleQuote Tracked SyncInv
