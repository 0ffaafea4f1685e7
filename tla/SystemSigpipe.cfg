SPECIFICATION Spec
CONSTANTS
  Client = {c1}
  MAX_CLIENTS = 1
  HISTORY_SIZE = 4
  MaxFd = 5
  Production = {20}
  Consumption = {0}
  Commands = {"kill", "display info scii"}
  MaxCommands = 2
  Patient = FALSE
CHECK_DEADLOCK FALSE
INVARIANTS ServersSurvive
