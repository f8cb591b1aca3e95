CONSTANTS
  r1 = r1
  r2 = r2
  r3 = r3
  N = 2
  Objects <- MCThreeObjects
  MaxBlocks = 1
  Counts <- MCFewCounts
  Places <- MCFewPlaces
  Arrays <- MCFewArrays
  PieceBits = 1
  Pieces <- MCPieces
  Texts <- MCFewTexts
  Radix = 3
  Misuses = {}
SPECIFICATION Spec
SYMMETRY ThreeSymmetry
PROPERTIES
  ImplementsIntegers
