SPECIFICATION LiveSpec
CONSTANTS
  Programs = {"UDPEchoServer", "UDPEchoServer-SIGO"}
  Plain = {u1}
  Retrying = {t1}
  MAXTRIES = 5
  QueueLimit = 2
  MaxFaults = 2
CHECK_DEADLOCK FALSE
INVARIANTS DTypeOK NoneForgotten PrintsItsEcho NoEchoFromNothing
PROPERTIES WaitsForACause
