\* One thread with two channels of different restrict-dispatch groups.
SPECIFICATION Spec
CONSTANTS
  P = P
  Q = Q
  R = R
  a1 = a1
  b1 = b1
  a2 = a2
  b2 = b2
  None = None
  G1 = G1
  G2 = G2
  Unrestricted = None
  Proc = {P, Q, R}
  Ctx = {a1, b1, a2, b2}
  Owner <- ForkOwner
  Peer <- ForkPeer
  Group <- TwoGroups
  MaxSends = 1
  Budget <- Budget111
  UnblockFlags <- Unblocking
  ReplyResults = {TRUE}
  MayDefer = FALSE
  MayTimeOut = {}
  MayPump = {}
  MayShutDown = {}
  MayDestroy = {}
  MayCrash = {}
INVARIANTS
  RestrictedReentrancy
  IteratorValid
SYMMETRY Mirror
CHECK_DEADLOCK FALSE
