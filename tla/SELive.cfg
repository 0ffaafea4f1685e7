SPECIFICATION LiveSpec
CONSTANTS
  Client = {c1, c2, c3}
  MAX_CLIENTS = 1
  HISTORY_SIZE = 1
  server_type = "SE"
  MaxFd = 5
  Levels = {20}
  Requests = {"REQ_STATUS"}
  MaxPending = 1
  Resets = FALSE
CHECK_DEADLOCK FALSE
INVARIANTS TypeOK
PROPERTIES EveryConnectionAnswered EveryDepartureNoticed
