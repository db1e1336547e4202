SPECIFICATION FairSpec
CONSTANTS
  s1 = s1
  b1 = b1
  c1 = c1
  g1 = g1
  Registrations = {s1}
  Subscriptions = {b1}
  Calls = {c1}
  Signals = {g1}
  For <- MCFor
INVARIANT TypeOK
INVARIANT NothingIsMissed
INVARIANT ContextIsAlive
INVARIANT RepliedOnce
PROPERTY MessageIsHandled
PROPERTY RequestsAreCarriedOut
CHECK_DEADLOCK FALSE
