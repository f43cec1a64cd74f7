SPECIFICATION Spec
CONSTANTS
  c1 = c1
  c2 = c2
  left = left
  right = right
  NoClient = NoClient
  Clients <- Both
  Settled <- Both
  Leavers <- Nobody
  Parts <- OnePart
  MaxFrames = 2
  MaxSwaps = 2
  MaxRequests = 2
INVARIANT ReadsLockedOut
INVARIANT BufferAlive
INVARIANT SizeKnown
PROPERTY SharesScreen
\* Images and messages cease, and every thread waits.
CHECK_DEADLOCK FALSE
