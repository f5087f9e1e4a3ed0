SPECIFICATION FairSpec
CONSTANTS
  MaxPid = 4
  Pages = 3
  ExitCodes = {0, 1}
  Signals = {}
INVARIANTS ResumedIsRunning ForkChain ZombieHasReaper Wait4NeverSpins ImageIntact SnapshotsOK
PROPERTIES ExitCodeKept BlockedParentResumes ImplementsCalls
