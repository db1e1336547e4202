SPECIFICATION FairSpec
CONSTANTS
  k1 = k1
  k2 = k2
  Conns = {k1, k2}
  Shared = {k1}
  NoConn = noconn
  MaxRefs = 1
  Asks = {a1}
  Casts = {}
  Subscribes = {}
  OwnerSubscribes = {}
  Registers = {}
  Removes = {}
  OnSecond = {}
  Removed = none
  Home <- MCHome
  Subject <- MCSubject
PROPERTY RequestsTimeOut
CHECK_DEADLOCK FALSE
