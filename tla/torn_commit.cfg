SPECIFICATION Spec
CONSTANTS
    a = a
    b = b
    c = c
    t1 = t1
    None = None
    Trades = {a}
    Tokens = {t1}
    TokenOf <- TokenOfAll
    SideOf <- SideMixed
    SizeOf <- SizeTwo
    Opening <- OpenFlat
    Outcomes <- AllOutcomes
    ReadsAnswer = FALSE
    GuardsAge = TRUE
    TornCommits = TRUE
    MaxRestarts = 1
INVARIANT CrashRestartResumes
