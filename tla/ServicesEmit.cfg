SPECIFICATION Spec
CONSTANTS
  s1 = s1
  b1 = b1
  c1 = c1
  g1 = g1
  Registrations = {s1}
  Subscriptions = {}
  Calls = {c1}
  Signals = {}
  For <- MCFor
INVARIANT EmitFindsRegistration
CHECK_DEADLOCK FALSE
