CONSTANTS
  Pay = 2
  Limit = 2
  Cash0 = 4
  Yes0 = 2
  No0 = 1
  t1 = t1
  Trades <- OneTrade
  CashEvery = 2
  DayEvery = 2
  Moves <- AllMoves
  MaxSpent = 3
  Averages <- OnlyOne
SPECIFICATION FairSpec
INVARIANT TypeOK
PROPERTIES BaselineIsWorth LedgerCatchesUp KillFollowsLoss
CHECK_DEADLOCK FALSE
