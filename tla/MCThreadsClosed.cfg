SPECIFICATION Spec
CONSTANTS
  Clients = {c1, c2}
  Main = Main
  Listener = Listener
  NoClient = NoClient
  Acceptors = {Listener}
PROPERTIES StaysClosed
CHECK_DEADLOCK FALSE
