SPECIFICATION IntakeSpec
CONSTANTS
  Locations = {plant, store}
  NoLoc = NoLoc
  NLots = 1
  LotTracked = FALSE
  ClientIds <- MCClientIds
  GeneratedId = GeneratedId
  PostTypes = {}
  Quantities = {}
  LotQuality = {"RELEASED"}
  TicksPerDay = 1
  AsOfPinned = TRUE
  MaxTick = 0
  MaxTxns = 6
  Own = own
  Skus = {own, other}
  PoNumbers = {po1}
  ShipmentNos = {s1}
  TransferNos = {t1}
  MasterKeys <- MCMasterKeys
  MasterRefs <- MCMasterRefs
  Columns = {"name", "class"}
  Sources <- MCSources
  Absent = Absent
  Today = 4
  Scopes <- MCScopes
  ColumnValues = {"a", "b", "c"}
  plant = plant
  store = store
  other = other
  po1 = po1
  s1 = s1
  t1 = t1
  T1 = T1
INVARIANTS EventLedger OrdersAddUp ReuploadHarmless
PROPERTIES EventsOnce NothingOrAll
CHECK_DEADLOCK FALSE
