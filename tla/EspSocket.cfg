SPECIFICATION FairSpec
CONSTANTS
  BufferSize = 4
  InputSize = 5
  EventQueueSize = 4
  AnswerTicks = 2
  GuardTicks = 1
  CommandTicks = 3
  JoinTicks = 3
  MaxStale = 1
  MaxIgnored = 5
  MaxJoinFailures = 3
  MaxConnectFailures = 2
  MaxRestarts = 1
  MaxData = 2
INVARIANTS
  TypeOK
  ReadyMeansJoined
  ConnectedMeansTransparent
PROPERTIES
  CommandsStayLocal
  CallsReturn
