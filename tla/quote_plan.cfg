CONSTANTS
  Ticks = 7
  Grain = 2
  Fine = 2
  MinEdge = 1
  MinWidth = 1
  Band = 6
  Layers = 2
  Step = 1
  ExchangeMin = 4
  RewardFloor = 6
  SoftCap = 6
  Reprice = 2
  ResizeNum = 1
  ResizeDen = 2
  Markets <- AllMarkets
  Moving <- MovingMarkets
  MaxMoves = 2
SPECIFICATION Spec
INVARIANTS TypeOK NeverCross PairHasEdge RestingPairBounded ExitsWithinHolding LayersScore PlanSettles
