SPECIFICATION Spec
CONSTANTS
  Sessions = {s1, s2}
  NoSession = NoSession
  Buckets = {plant, store}
  NoBucket = NoBucket
  LotNamed = TRUE
  Quantities = {1, 2}
  Stock <- MCStock
  ClientIds = {id1}
  GeneratedId = GeneratedId
  Slots = {1, 2}
  Absent = Absent
  MaxPosts = 2
  MaxLog = 3
  plant = plant
  store = store
INVARIANTS NoNegativeRow UniqueTxnIds OneRowPerBucket
CHECK_DEADLOCK FALSE
PROPERTY RequestsEnd
