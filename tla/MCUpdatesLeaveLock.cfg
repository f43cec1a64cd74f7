SPECIFICATION Spec
CONSTANTS
  c1 = c1
  c2 = c2
  left = left
  right = right
  NoClient = NoClient
  Clients <- JustC1
  Settled <- JustC1
  Leavers <- JustC1
  Parts <- OnePart
  MaxFrames = 1
  MaxSwaps = 1
  MaxRequests = 1
INVARIANT ReadsReenabled
\* Images and messages cease, and every thread waits.
CHECK_DEADLOCK FALSE
