\* Nested Sends, in nested message loops too, whose replies are late, deferred or overtaken.
SPECIFICATION Spec
CONSTANTS
  P = P
  Q = Q
  R = R
  a1 = a1
  b1 = b1
  a2 = a2
  b2 = b2
  None = None
  G1 = G1
  G2 = G2
  Unrestricted = None
  Proc = {P, Q}
  Ctx = {a1, b1}
  Owner <- PairOwner
  Peer <- PairPeer
  Group <- PairGroup
  MaxSends = 2
  Budget <- Budget21
  UnblockFlags <- PlainFromQ
  ReplyResults = {TRUE}
  MayDefer = TRUE
  MayTimeOut <- OneOfP
  MayPump = {P}
  MayShutDown = {}
  MayDestroy = {}
  MayCrash = {}
INVARIANTS
  RepliesMatched
  WakeupsKept
CHECK_DEADLOCK FALSE
