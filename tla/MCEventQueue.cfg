SPECIFICATION FairSpec
CONSTANTS
  Callers = {g1, g2, g3}
  Kinds = {topic, job}
  Bodies = {b1}
  Targets = {"store", "self", "actor", "cycle"}
  Resiliency = TRUE
  QueueCap = 1
  MaxDeliveries = 3
  NoOne = NoOne
  NoEvent = NoEvent
  NoAnswer = NoAnswer
  NotAttached = NotAttached
INVARIANTS OwnAnswer IInv
  
