SPECIFICATION KillSpec
CONSTANTS
  MaxPid = 3
  Pages = 1
  ExitCodes = {0}
  Signals = {9}
INVARIANT ResumedIsRunning
