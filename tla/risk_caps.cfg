SPECIFICATION FairSpec
CONSTANTS
    m1 = m1
    m2 = m2
    Markets = {m1, m2}
    GroupOf <- OneEvent
    NoEvent = NoEvent
    Stack <- StackTwoOne
    CarriedYes <- CarryOne
    CarriedNo <- CarryOne
    QMax <- QMaxFour
    MarketCap = 2
    GroupCap = 4
    TotalCap = 4
    MinSamples = 2
    ErrorPercent = 50
    Events <- Around
    MaxHeld = 2
    MaxLate = 1
    MaxWindow = 2
INVARIANTS TypeOK MarketBounded TotalBounded
PROPERTY BreakerLetsGo
