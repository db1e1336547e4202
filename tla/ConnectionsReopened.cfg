SPECIFICATION Spec
CONSTANTS
  k1 = k1
  k2 = k2
  Conns = {k1, k2}
  Shared = {k1}
  NoConn = noconn
  MaxRefs = 2
  Asks = {}
  Casts = {}
  Subscribes = {}
  OwnerSubscribes = {o}
  Registers = {}
  Removes = {}
  OnSecond = {}
  Removed = none
  Home <- MCHome
  Subject <- MCSubject
PROPERTY CallbackFindsCommand
CHECK_DEADLOCK FALSE
