SPECIFICATION FairSpec
CONSTANTS
  MaxHeld = 2
  SetpointMax = 5
  SetpointIncrement = 5
  Stored <- MCStored
  SensorReadings <- MCSensorReadings
  StoresDuringEdits = TRUE
INVARIANTS
  TypeOK
  EditsInRange
  ScreenStaleOnlyIfDirty
PROPERTIES
  ButtonsCommitWhatIsShown
  ScreenCatchesUp
