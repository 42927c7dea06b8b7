SPECIFICATION Spec
CONSTANTS
  MaxHeld = 2
  SetpointMax = 7
  SetpointIncrement = 5
  Stored <- MCStored
  SensorReadings <- MCSensorReadings
  StoresDuringEdits = FALSE
PROPERTY
  ImplementsEditor
