CONSTANTS
  Callers = {a, b}
  Http = {a}
  Requests <- Asks
  Answers <- MCAnswers
  MaxAttempts = 2
  MaxCalls = 2
  MaxCut <- MCMaxCut
  MaxWrites = 3
  None = None
SPECIFICATION Spec
INVARIANTS IInv Conditional OutcomeIsTrue
CHECK_DEADLOCK FALSE
