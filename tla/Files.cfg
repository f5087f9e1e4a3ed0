SPECIFICATION FilesSpec
CONSTANTS
  MaxPid = 3
  Pages = 1
  ExitCodes = {139}
  Signals = {11}
  MAX_FDS = 2
  FirstFd = 0
  MaxFiles = 2
  MaxPipes = 1
  PIPE_SIZE = 2
  MAX_SOCKETS = 0
INVARIANTS TypeOK TaskListOK OnlyCurrentRuns FilesTypeOK RefCountExact PipeEndsCounted
PROPERTY PipeWaitIsForever
VIEW FdView
