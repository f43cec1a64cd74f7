SPECIFICATION FairSpec
CONSTANTS
  Arguments <- AllArguments
  DefaultPort <- MCDefaultPort
  Disturbances <- OneUser
  MaxDisturbances = 3
  NoServer = NoServer
INVARIANTS UiAgrees ViewOnlyHonoured
PROPERTIES ToggleAnswered
