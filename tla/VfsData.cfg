SPECIFICATION Spec
CONSTANTS
  Names = {a, b, c}
  Path <- Flat
  MaxIno = 4
  Byte = {1}
  Offsets = {0, 1}
  Lengths = {2}
  MIN_CAPACITY = 1
  LINK_DEPTH = 2
  SLASH = SLASH
  UP = UP
  Targets = {}
  NoTarget = NoTarget
SYMMETRY NameSymmetry
INVARIANTS TypeOK BlobsOwned
PROPERTY ImplementsVolume
