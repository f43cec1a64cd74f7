SPECIFICATION Spec
CONSTANTS
  Arguments <- OneArgument
  DefaultPort <- MCDefaultPort
  Disturbances <- Everything
  MaxDisturbances = 2
  NoServer = NoServer
INVARIANTS ServerHasService CaptureNeedsServer AdvertisedIsServed RestartOnlyIfServing StopOffered IInv
\* The behaviour ends when the user leaves a dialog and no disturbance is left.
CHECK_DEADLOCK FALSE
