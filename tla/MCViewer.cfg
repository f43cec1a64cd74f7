SPECIFICATION MCSpec
CONSTANTS
  m1 = m1
  m2 = m2
  m3 = m3
  NoModel = NoModel
  Models <- MCModels
  FirstModel = m1
  Capacity = 1
  MaxEvents = 2
  MaxSelections = 2
  MaxChanges = 1
INVARIANTS RequestsIntact OneRequestUnderWay ReadAsSent 
PROPERTIES ScreenFollowed CloseTakesEffect
\* The connection ends.
CHECK_DEADLOCK FALSE
