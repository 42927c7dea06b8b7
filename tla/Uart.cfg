SPECIFICATION FairSpec
CONSTANTS
  Bytes <- MCBytes
  Size = 2
  Modulus = 6
  Writes <- MCWrites
  MaxRead = 2
  WireSize = 1
  FullDuplex = FALSE
INVARIANTS
  TypeOK
  TransmitterArmed
PROPERTIES
  ReceiveIsQueue
  TransmitIsQueue
  FlushEnds
