SPECIFICATION FairSpec
CONSTANTS
  Clients = {t1, t2}
  SyncCmds = {s1}
  AsyncCmds = {x1}
  OneWayCmds = {}
  OpenCmds = {}
  ShutdownCmd = shut
  Disp = disp
  Main = main
  Nobody = nobody
  NoCmd = nocmd
  PipeCapacity = 1
PROPERTY SubmitDoesNotBlock
CHECK_DEADLOCK FALSE
