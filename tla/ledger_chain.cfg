SPECIFICATION Spec
CONSTANTS
  Locations = {plant, store}
  NoLoc = NoLoc
  NLots = 1
  LotTracked = TRUE
  ClientIds = {}
  GeneratedId = GeneratedId
  PostTypes <- MCChainTypes
  Quantities = {1}
  LotQuality = {"RELEASED", "QUARANTINE", "REJECTED"}
  TicksPerDay = 1
  AsOfPinned = FALSE
  MaxTick = 2
  MaxTxns = 3
  NoDay = NoDay
INVARIANTS ChainInPostingOrder ChainHolds WindowsCompose
CHECK_DEADLOCK FALSE
