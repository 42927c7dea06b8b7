SPECIFICATION Spec
CONSTANTS
  MaxHeld = 0
  SetpointMax = 3
  SetpointIncrement = 3
  MaxRPM = 60
  StallLimit = 1
  StallGoal = 0
  ReportPeriod = 50
  Readings <- MCReadings
  SensorReadings <- MCSensorReadings
  Messages <- MCFastMessages
  LostWrites = FALSE
PROPERTIES
  GrowthBelowGoal
