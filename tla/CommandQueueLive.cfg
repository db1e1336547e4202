SPECIFICATION FairSpec
CONSTANTS
  Clients = {t1, t2}
  SyncCmds = {s1, s2}
  AsyncCmds = {x1}
  OneWayCmds = {}
  OpenCmds = {s1}
  ShutdownCmd = shut
  Disp = disp
  Main = main
  Nobody = nobody
  NoCmd = nocmd
  PipeCapacity = 4
PROPERTY SyncCallReturns
PROPERTY ShutdownCompletes
CHECK_DEADLOCK FALSE
