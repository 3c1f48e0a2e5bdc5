SPECIFICATION FairSpec
CONSTANTS
    a = a
    b = b
    c = c
    t1 = t1
    None = None
    Trades = {a, b}
    Tokens = {t1}
    TokenOf <- TokenOfAll
    SideOf <- SideMixed
    SizeOf <- SizeTwo
    Opening <- OpenTwo
    Outcomes <- AllOutcomes
    ReadsAnswer = TRUE
    GuardsAge = TRUE
    TornCommits = TRUE
    MaxRestarts = 1
INVARIANTS TypeOK BooksBalance GuardsAreOwned
PROPERTIES ImplementsTradeEffects Converges GuardsEnd
