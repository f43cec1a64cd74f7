SPECIFICATION MCSpec
CONSTANTS
  Width = 6
  Height = 3
  Clients <- MCClients
  Images <- MCImages
  DrawnRects <- MCDrawn
  CopiedRegions <- MCCopied
  RequestedRects <- MCRequested
  Moves <- MCMoves
  MaxRects = 2
  MaxOps = 2
  HextileSize = 4
  ZRLETile = 6
  CoRREMax = 4
  ZlibMaxSize = 8
  ZlibMinSize = 17
  PaletteMax = 6
  MaxByte = 4
CHECK_DEADLOCK FALSE
INVARIANTS PictureFollows StreamInStep RegionsExact
PROPERTY KeepsRegions
