CONSTANTS
  Families = {"http", "grpc", "go"}
  Segments <- MCSegments
  Encoded <- MCEncoded
  Subscriptions <- MCSubscriptions
  Bindings <- MCBindings
  Declared <- MCDeclared
  Deliveries <- MCCommon
  Attributes <- MCAttributes
  MaxDeliveries = 2
  None = None
SPECIFICATION Spec
INVARIANTS IInv ReachesItsCallback RulePathArrives LostOnlyIfSaid
CHECK_DEADLOCK FALSE
