\* Two workers that call at the same time while the channel breaks, closes or the process ends.
SPECIFICATION FairSpec
CONSTANTS
  Worker = {w1, w2}
  MaxSends = 2
  MaxCalls = 2
  MaxAsync = 1
INVARIANTS
  TypeOK
  PointersSound
PROPERTIES
  SimultaneousCalls
  EverySendReturns
CHECK_DEADLOCK FALSE
