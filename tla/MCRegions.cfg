SPECIFICATION Spec
CONSTANTS
  dark = dark
  light = light
  Points <- MCPoints
  Pixels <- MCPixels
  Areas <- MCAreas
  Moves <- MCMoves
  Apart = TRUE
SYMMETRY MCSymmetry
INVARIANTS PictureFollows ShowsScreen
