CONSTANTS
  Callers = {a, b}
  Http = {a}
  Requests <- Asks
  Answers <- MCAnswers
  MaxAttempts = 2
  MaxCalls = 2
  MaxCut <- MCMaxCut
  MaxWrites = 3
  None = None
SPECIFICATION Spec
INVARIANT MismatchWroteNothing
CHECK_DEADLOCK FALSE
