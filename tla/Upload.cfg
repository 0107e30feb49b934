CONSTANTS
  MaxBytes = 4
  Buffer = 2
SPECIFICATION FairSpec
INVARIANT OutcomeIsTheSidecars
PROPERTIES ImplementsTransfer ExportsReturn
CHECK_DEADLOCK FALSE
