SPECIFICATION Spec
CONSTANTS
  Sessions = {s1, s2}
  NoSession = NoSession
  Buckets = {plant}
  NoBucket = NoBucket
  LotNamed = TRUE
  Quantities = {1}
  Stock <- MCStock
  ClientIds = {}
  GeneratedId = GeneratedId
  Slots = {1, 2}
  Absent = Absent
  MaxPosts = 1
  MaxLog = 2
  plant = plant
  store = store
INVARIANT ChainAcrossSessions
CHECK_DEADLOCK FALSE
