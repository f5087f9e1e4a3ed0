SPECIFICATION Spec
CONSTANTS
  MaxPid = 3
  Pages = 2
  ExitCodes = {0}
  Signals = {}
INVARIANT ImageIntact
