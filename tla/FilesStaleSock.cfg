SPECIFICATION SocketsSpec
CONSTANTS
  MaxPid = 2
  Pages = 1
  ExitCodes = {0}
  Signals = {}
  MAX_FDS = 2
  FirstFd = 1
  MaxFiles = 2
  MaxPipes = 1
  PIPE_SIZE = 1
  MAX_SOCKETS = 1
INVARIANTS RegularFileReady
