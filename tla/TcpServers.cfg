SPECIFICATION LiveSpec
CONSTANTS
  c1 = c1
  c2 = c2
  Client = {c1, c2}
  Pool = {"child"}
  Programs = {"TCPEchoServer", "TCPEchoServer4", "TCPEchoServer-Fork", "TCPEchoServer-ForkN", "TCPEchoServer-Thread", "TCPEchoServer-Select", "PlusOneServer", "VoteServerTCP", "chat/server", "chat/server-mt", "exemplo/server"}
  Word <- MCWord
  BYTE = 2
  BUFSIZE = 2
  Ports = 2
  ThreadLimits = {1, 2}
  Builds <- MCBuilds
  Commands <- MCCommands
  EarlierVotes <- MCEarlierVotes
  StackBytes <- MCStackBytes
INVARIANTS
  ServerTypeOK
  AnswersAreRight
  HeldIsHandled
  CountsItsChildren
  EndsForAReason
  VotesAreCounted
PROPERTIES
  FailuresStayApart
  EndsOrWaitsForAUser
CHECK_DEADLOCK FALSE
