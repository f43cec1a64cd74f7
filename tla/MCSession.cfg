SPECIFICATION MCSpec
CONSTANTS
  Clients = {c1, c2}
  Nobody = Nobody
  Keys = {"Ctrl"}
  MaxEvents = 3
  MaxSwitches = 2
  Minors = {7}
CHECK_DEADLOCK FALSE
INVARIANTS InputFollowsUser ScrollsCounted ContextsOfClients
