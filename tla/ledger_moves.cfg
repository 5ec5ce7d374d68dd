SPECIFICATION Spec
CONSTANTS
  Locations = {plant, store}
  NoLoc = NoLoc
  NLots = 0
  LotTracked = FALSE
  ClientIds = {id1}
  GeneratedId = GeneratedId
  PostTypes <- MCTypes
  Quantities <- MCQuantities
  LotQuality = {"RELEASED"}
  TicksPerDay = 2
  AsOfPinned = FALSE
  MaxTick = 0
  MaxTxns = 5
  NoDay = NoDay
INVARIANT NoNegativeStock
PROPERTIES ReverseIsOpposite OnlyFlowsChangeTotal
CONSTRAINT StatesGoOn
CHECK_DEADLOCK FALSE
