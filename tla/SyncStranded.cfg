\* The same thread: a message of the other group can be left in the queue.
SPECIFICATION Spec
CONSTANTS
  P = P
  Q = Q
  R = R
  a1 = a1
  b1 = b1
  a2 = a2
  b2 = b2
  None = None
  G1 = G1
  G2 = G2
  Unrestricted = None
  Proc = {P, Q, R}
  Ctx = {a1, b1, a2, b2}
  Owner <- ForkOwner
  Peer <- ForkPeer
  Group <- TwoGroups
  MaxSends = 1
  Budget <- Budget111
  UnblockFlags <- Unblocking
  ReplyResults = {TRUE}
  MayDefer = FALSE
  MayTimeOut = {}
  MayPump = {}
  MayShutDown = {}
  MayDestroy = {}
  MayCrash = {}
INVARIANT AtRestMeansDispatched
CHECK_DEADLOCK FALSE
