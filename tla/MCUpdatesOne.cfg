SPECIFICATION FairSpec
CONSTANTS
  c1 = c1
  c2 = c2
  left = left
  right = right
  NoClient = NoClient
  Clients <- JustC1
  Settled <- Nobody
  Leavers <- JustC1
  Parts <- TwoParts
  MaxFrames = 2
  MaxSwaps = 1
  MaxRequests = 2
INVARIANT PictureKept
PROPERTY RequestAnswered
\* Images and messages cease, and every thread waits.
CHECK_DEADLOCK FALSE
