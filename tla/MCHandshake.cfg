SPECIFICATION HandshakeSpec
CONSTANTS
  Clients = {c1, c2}
  Minors = {3, 7, 8, 889}
CHECK_DEADLOCK FALSE
INVARIANTS InStep NobodyStuck PasswordAsked
