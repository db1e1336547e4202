SPECIFICATION FairSpec
CONSTANTS
  Clients = {c1, c2}
  MaxInst = 3
  MaxQueue = 3
INVARIANT TypeOK
INVARIANT NoUseAfterDestroy
INVARIANT StartedIsRunning
INVARIANT OnlyLateConnectionsSurvive
PROPERTY CallsReturn
CHECK_DEADLOCK FALSE
