SPECIFICATION Spec
CONSTANTS
  Absent = Absent
  Ticks = 2
  Phi <- MCPhi
  Loss <- MCLoss
  ZOf <- MCZOf
  ZOfLoss <- MCZOfLoss
  Kept = 4
  Simulations <- MCSimulations
  Dimensions <- MCDimensions
  PackUnits <- MCPackUnits
  Tasks <- MCTasks
  Pairs <- MCPairs
  Networks <- MCNetworks
  Plannings <- MCPlannings
  Picks <- MCPicks
  Policied <- MCPolicied
  Conversions <- MCConversions
  Audits <- MCAudits
  Histories <- MCHistories
  Sourcings <- MCSourcings
  SalesPlans <- MCSalesPlans
  Measured <- MCMeasured
  Scorings <- MCScorings
  Splits <- MCSplits
  Traced <- MCTraced
  Feeds <- MCFeeds
  MaxSold = 10
  MaxOrders = 3
INVARIANTS QuantitiesAddUp AdviceSettles ResultsAsDefined RowsInAnyOrder FeedsSettle
CHECK_DEADLOCK FALSE
