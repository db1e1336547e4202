SPECIFICATION Spec
CONSTANTS
  k1 = k1
  k2 = k2
  Conns = {k1, k2}
  Shared = {k1}
  NoConn = noconn
  MaxRefs = 2
  Asks = {a}
  Casts = {}
  Subscribes = {s}
  OwnerSubscribes = {o}
  Registers = {g}
  Removes = {u}
  OnSecond = {g}
  Removed = s
  Home <- MCHome
  Subject <- MCSubject
INVARIANT TypeOK
INVARIANT RepliesAreListed
INVARIANT NoTraceOfClosed
INVARIANT OpenIsPending
INVARIANT PendingIsAlive
INVARIANT AnsweredOnce
PROPERTY ImplementsService
CHECK_DEADLOCK FALSE
