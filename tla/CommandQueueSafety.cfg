SPECIFICATION Spec
CONSTANTS
  Clients = {t1, t2}
  SyncCmds = {s1, s2}
  AsyncCmds = {x1}
  OneWayCmds = {f1}
  OpenCmds = {s1, x1}
  ShutdownCmd = shut
  Disp = disp
  Main = main
  Nobody = nobody
  NoCmd = nocmd
  PipeCapacity = 2
INVARIANT TypeOK
INVARIANT PipeMatchesQueue
INVARIANT OneOwner
INVARIANT AnsweredOnce
INVARIANT WaiterIsServed
INVARIANT OnlyLateCallsAreDropped
PROPERTY ImplementsService
CHECK_DEADLOCK FALSE
