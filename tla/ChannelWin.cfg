\* A hello of one part and messages of two while ends close and the client dies.
SPECIFICATION FairSpec
CONSTANTS
  MaxSends = 2
  MaxTotal = 2
  Sizes = {2}
  ReadBuf = 2
  Quota = 2
  MaxMessage = 4
  Validate = TRUE
  SecretOK = {TRUE, FALSE}
  MayClose = {"server"}
  MayDie = {"client"}
INVARIANTS
  TypeOK
  PendingMatchesKernel
  GoneMeansQuiet
  OperationsKept
PROPERTIES
  ImplementsMessagePipe
  PeerIsHeard
  CloseReturns
CHECK_DEADLOCK FALSE
