SPECIFICATION Spec
CONSTANTS
  Client = {c1, c2, c3}
  MAX_CLIENTS = 2
  HISTORY_SIZE = 1
  server_type = "SCII"
  MaxFd = 6
  Levels = {0}
  Requests = {"REQ_INFOSCII", "REQ_UP", "REQ_NONE", "REQ_DOWN", "OTHER"}
  MaxPending = 1
  Resets = TRUE
CONSTRAINT OneIndexOfTwo
SYMMETRY ClientSymmetry
CHECK_DEADLOCK FALSE
INVARIANTS CountMatchesWatched SnapshotStaysValid TableMatchesWatched
PROPERTIES OnlyOwnDeparture KeepsRegistry
