SPECIFICATION Spec
CONSTANTS
  Actions = {a1}
  Users = {planner, manager, admin}
  RoleOf <- MCRoleOf
  Types = {"CREATE_PO"}
  Quantities = {1, 2}
  UnitCost = 1
  SimCosts = {1, 3}
  Rules <- MCRules
  Ladders <- MCLadders
  NoCost = NoCost
  Modes = {"SIMULATION_ONLY"}
  Levels = {1}
  AlertMoves = {}
  MaxRows = 3
  planner = planner
  manager = manager
  executive = executive
  admin = admin
PROPERTIES FinalStaysFinal
CHECK_DEADLOCK FALSE
