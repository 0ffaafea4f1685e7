SPECIFICATION Spec
CONSTANTS
  Client = {c1, c2}
  MAX_CLIENTS = 1
  HISTORY_SIZE = 6
  MaxFd = 4
  Production = {20, 41}
  Consumption = {0, 100}
  Commands = {"kill", "display info scii", "query condition", "end of input"}
  MaxCommands = 2
  Patient = FALSE
SYMMETRY ClientSymmetry
CHECK_DEADLOCK FALSE
INVARIANTS EveryActionHasItsStatus SuccessMeansRemoved ServersDieOfTheGone ReportsTellOneHistory
PROPERTIES ServersKeepSpec
