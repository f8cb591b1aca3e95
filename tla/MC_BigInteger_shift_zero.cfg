CONSTANTS
  r1 = r1
  r2 = r2
  r3 = r3
  N = 2
  Objects <- MCObjects
  MaxBlocks = 2
  Counts <- MCCounts
  Places <- MCPlaces
  Arrays <- MCArrays
  PieceBits = 1
  Pieces <- MCPieces
  Texts <- MCTexts
  Radix = 3
  Misuses = {"shift_zero"}
SPECIFICATION Spec
SYMMETRY Symmetry
INVARIANTS
  ZeroIsEmpty
