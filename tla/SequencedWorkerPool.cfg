\* Two workers and three tasks, with two flushes and a shutdown at any time.
SPECIFICATION FairSpec
CONSTANTS
  Worker = {w1, w2}
  Poster = {p}
  Owner = Owner
  Nobody = Nobody
  Kinds <- Mixed
  MaxNew = 1
  MaxFlush = 2
  MaxClock = 1
INVARIANTS
  TypeOK
  RunInSequence
  WorkHasWorker
  ShutdownKeepsPromise
PROPERTIES
  FlushContract
  ShutdownCompletes
CHECK_DEADLOCK FALSE
