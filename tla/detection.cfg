SPECIFICATION Spec
CONSTANTS
  Absent = Absent
  Sessions = {a, b}
  Workers = 2
  Scenarios <- MCScenarios
  Levels <- MCLevels
  ExpiryDays <- MCExpiryDays
  Weights <- MCWeights
  TimeScore <- MCTimeScore
  MinPriority = 25
  Window = 14
  TopN <- MCTopN
  a = a
  b = b
INVARIANTS AlertsFollowFacts AdviceFollowsAlerts IncidentsHold
PROPERTIES RunsReopenAndResolveOnly JobEnds
CHECK_DEADLOCK FALSE
