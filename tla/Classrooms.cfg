SPECIFICATION LiveSpec
CONSTANTS
  c1 = c1
  c2 = c2
  Client <- MCClient
  NoClient = NoClient
  MAX_ROOMS = 2
  RoomWords <- MCRoomWords
  Readings <- MCReadings
CHECK_DEADLOCK FALSE
INVARIANTS TypeOK EntriesKeepPhase AnswersStayTrue ServerOutlivesClient
PROPERTIES EveryWaitEnds KeepsRooms
