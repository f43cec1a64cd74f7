SPECIFICATION FairSpec
CONSTANTS
  Clients = {c1, c2}
  Main = Main
  Listener = Listener
  NoClient = NoClient
  Acceptors = {Listener}
INVARIANTS  RefsBalanced ListLinked NoneMissed NobodyServed
PROPERTIES KeepsClients StopEnds
CHECK_DEADLOCK FALSE
