\* The client connects and dies before the server has noticed it.
SPECIFICATION FairSpec
CONSTANTS
  MaxSends = 0
  MaxTotal = 0
  Sizes = {1}
  ReadBuf = 2
  Quota = 2
  MaxMessage = 4
  Validate = TRUE
  SecretOK = {TRUE}
  MayClose = {}
  MayDie = {"client"}
PROPERTY PeerLossReported
CHECK_DEADLOCK FALSE
