SPECIFICATION LiveSpec
CONSTANTS
  Client = {c1, c2}
  MAX_CLIENTS = 1
  HISTORY_SIZE = 4
  MaxFd = 5
  Production = {35}
  Consumption = {0}
  Commands = {"kill", "invalid", "display info se", "query condition"}
  MaxCommands = 1
  Patient = TRUE
CHECK_DEADLOCK FALSE
PROPERTIES RefusedLeavesBoth KillEndsClient EveryClientSettles
