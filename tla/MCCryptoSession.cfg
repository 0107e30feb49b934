SPECIFICATION FairSpec
CONSTANTS
  Errors = {"bad input", "broken"}
  MaxResponses = 1
  Nothing = Nothing
  Recoverable = {"bad input"}
  MaxChunks <- MCMaxChunks
  Requests <- MCRequests
  MaxRequests = 3
  OutputLen = 2
CHECK_DEADLOCK FALSE
INVARIANTS StateInv ResultIsTrue InputInOrder FailedPushesNothing
PROPERTIES ImplementsTransfer ExportsReturn DroppedEnds
