SPECIFICATION FairSpec
CONSTANTS
  MaxHeld = 1
  SetpointMax = 2
  SetpointIncrement = 2
  MaxRPM = 20
  StallLimit = 1
  StallGoal = 0
  ReportPeriod = 50
  Readings <- MCHighReading
  SensorReadings <- MCSensorReadings
  Messages <- MCMessages
  LostWrites = FALSE
INVARIANTS
  TypeOK
  AutoGoalInForce
  ManualOutputInForce
  StatusConsistent
PROPERTIES
  SettingsGetReported
