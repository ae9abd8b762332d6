\* Three calls, replies in up to two pieces, the error reply to the bytes after
\* the body, two deploy commands beside them.
CONSTANTS
  MaxFd = 3
  MaxCalls = 3
  MaxPieces = 2
  MaxPipes = 2
  Urls <- AnyUrl
  Rejects = TRUE
SPECIFICATION FairSpec
INVARIANTS
  TypeOK
  HandleOpen
  LeakedAreStale
  NoLeftoverAnswer
  OwnAnswer
  SendOnlyConnected
PROPERTIES
  OnlySecondClose
  CallReturns
CHECK_DEADLOCK FALSE
