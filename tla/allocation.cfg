SPECIFICATION AllocSpec
CONSTANTS
  Locations = {plant, store}
  NoLoc = NoLoc
  NLots = 2
  LotTracked = FALSE
  ClientIds = {}
  GeneratedId = GeneratedId
  PostTypes = {}
  Quantities = {}
  LotQuality = {"RELEASED"}
  TicksPerDay = 1
  AsOfPinned = TRUE
  MaxTick = 0
  MaxTxns = 9
  Own = own
  Skus = {own, other}
  PoNumbers = {po1}
  ShipmentNos = {s1}
  TransferNos = {t1}
  MasterKeys <- MCMasterKeys
  MasterRefs <- MCMasterKeys
  Columns = {}
  Sources = {}
  Absent = Absent
  Today = 4
  Expiry <- MCExpiry
  ReceivedOn <- MCReceivedOn
  Production <- MCProduction
  QtyPer = 1
  Sessions = {a, b}
  Scopes <- MCScopes
  a = a
  b = b
  plant = plant
  store = store
  other = other
  po1 = po1
  s1 = s1
  t1 = t1
INVARIANTS PeggedOnce NoQueueJumping PositionFollowsMessages
PROPERTIES RepegStable CommitCovered
CHECK_DEADLOCK FALSE
