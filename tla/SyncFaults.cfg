\* Shutdown, a destroyed channel and a dying peer, with nested Sends.
SPECIFICATION FairSpec
CONSTANTS
  P = P
  Q = Q
  R = R
  a1 = a1
  b1 = b1
  a2 = a2
  b2 = b2
  None = None
  G1 = G1
  G2 = G2
  Unrestricted = None
  Proc = {P, Q}
  Ctx = {a1, b1}
  Owner <- PairOwner
  Peer <- PairPeer
  Group <- PairGroup
  MaxSends = 2
  Budget <- Budget21
  UnblockFlags <- Unblocking
  ReplyResults = {TRUE}
  MayDefer = FALSE
  MayTimeOut = {}
  MayPump = {}
  MayShutDown = {P}
  MayDestroy = {a1}
  MayCrash = {Q}
INVARIANTS
  TypeOK
  SendsAccounted
PROPERTIES
  ImplementsSyncCall
  NobodyWaitsForEver
CHECK_DEADLOCK FALSE
