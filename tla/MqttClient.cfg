SPECIFICATION FairSpec
CONSTANTS
  KeepAlive = 6
  CommandTimeout = 5
  PollTime = 1
  WorkTime = 1
  HandlingTime = 1
  Polls = 2
  MaxPacketId = 2
  BufSize = 256
  Strings <- MCStrings
  MaxRetries = 1
  MaxUnread = 1
  QoS <- MCQoS
  Texts <- MCTexts
  Meanings <- MCMeanings
INVARIANTS
  PacketsAgree
  TypeOK
  AcknowledgementsMatch
  CompleteMeansDelivered
  SettingsAsMeant
  HeardInTime
PROPERTIES
  CallsEnd
  SettingsAnswered
