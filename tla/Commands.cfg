SPECIFICATION Spec
CONSTANTS
  N = 3
  None = None
INVARIANT TypeOK
INVARIANT AnsweredOnce
INVARIANT NothingIsOwed
INVARIANT NoDanglingCommand
INVARIANT HandleIsSound
CHECK_DEADLOCK FALSE
