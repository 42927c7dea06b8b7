SPECIFICATION RecoverySpec
CONSTANTS
  MaxHeld = 0
  SetpointMax = 3
  SetpointIncrement = 3
  MaxRPM = 12
  StallLimit = 2
  StallGoal = 5
  ReportPeriod = 50
  Readings <- MCReadings
  SensorReadings <- MCSensorReadings
  Messages <- MCAnyMessages
  LostWrites = TRUE
INVARIANTS
  MultiplierArmed
PROPERTIES
  CorrectionTowardsGoal
  AutoRecoversFromLostWrites
