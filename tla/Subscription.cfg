CONSTANT Updates = {u1, u2, u3}
SPECIFICATION SubFairSpec
INVARIANTS   OneLateUpdate
PROPERTY SubscriptionEnds
CHECK_DEADLOCK FALSE
