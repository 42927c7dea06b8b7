SPECIFICATION CSpec
CONSTANTS
  MaxHeld = 0
  SetpointMax = 120
  SetpointIncrement = 5
  MaxRPM = 1000
  StallLimit = 60
  StallGoal = 50
  ReportPeriod = 50
  Readings <- MCReadings
  SensorReadings <- MCSensorReadings
  Messages <- MCMessages
  LostWrites = FALSE
  Gains <- MCGains
  Scenarios <- MCScenarios
  BufferMax = 3
  MaxLost = 5
PROPERTIES
  RegulatesOnPresent
  Settles
