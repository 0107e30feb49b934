CONSTANTS
  Callers = {a, b}
  Http = {a}
  Requests = {"try-lock", "unlock"}
  Answers = {"success", "held", "does-not-exist", "belongs-to-others", "internal", "4xx", "5xx"}
  MaxAttempts = 4
  MaxCalls = 3
  MaxCut <- MCMaxCut
  None = None
SPECIFICATION FairSpec
INVARIANTS  NotAcquiredIsOthers StateInv
PROPERTY CallsEnd
CHECK_DEADLOCK FALSE
