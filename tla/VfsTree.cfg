SPECIFICATION Spec
CONSTANTS
  Names = {a, b}
  Path <- Deep
  MaxIno = 4
  Byte = {1}
  Offsets = {}
  Lengths = {0}
  MIN_CAPACITY = 1
  LINK_DEPTH = 2
  SLASH = SLASH
  UP = UP
  Targets <- DeepTargets
  NoTarget = NoTarget
SYMMETRY NameSymmetry
INVARIANTS TreeOK
PROPERTY ImplementsVolume
