SPECIFICATION Spec
CONSTANTS
  Actions = {a1}
  Users = {planner, manager}
  RoleOf <- MCRoleOf
  Types = {"CREATE_PO", "TRANSFER_STOCK", "RELEASE_STOCK"}
  Quantities = {1, 2}
  UnitCost = 1
  SimCosts = {1, 3}
  Rules <- MCRules
  Ladders <- MCLadders
  NoCost = NoCost
  Modes = {"RECOMMENDATION", "SIMULATION_ONLY", "LIVE"}
  Levels = {0, 1, 4}
  AlertMoves = {"Resolved"}
  MaxRows = 4
  planner = planner
  manager = manager
  executive = executive
  admin = admin
INVARIANTS ApprovedAsIs RepeatNeedsEscalation ActionedWasExecuted
PROPERTIES ExecutesWhatWasApproved ImplementsGate DenyWins ApproverMeetsLadder
CONSTRAINTS WideOrLong AlertMovesFirst
CHECK_DEADLOCK FALSE
