SPECIFICATION Spec
CONSTANTS
  Client = {c1, c2, c3}
  MAX_CLIENTS = 2
  HISTORY_SIZE = 2
  server_type = "SE"
  MaxFd = 5
  Levels = {20}
  Requests = {"REQ_INFOSE"}
  MaxPending = 2
  Resets = TRUE
SYMMETRY ClientSymmetry
CHECK_DEADLOCK FALSE
INVARIANTS AdmittedIsRegistered
