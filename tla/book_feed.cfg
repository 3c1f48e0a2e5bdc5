SPECIFICATION FairSpec
CONSTANTS
    None = None
    Off = Off
    Prices = {1, 2, 3}
    Opened <- Wide
    Rounded = {2}
    Skews <- BothWays
    Faults = {"late", "lose", "bare", "drop", "read"}
    MaxTime = 4
    MaxFeed = 2
INVARIANTS TypeOK FeedIsExact
PROPERTIES TopWithinTick QuotesNeedABook
