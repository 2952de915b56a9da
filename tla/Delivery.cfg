SPECIFICATION DeliverySpec
CONSTANTS
  e1 = e1
  e2 = e2
  Bodies <- MCBodies
  Events = {e1, e2}
  Workers = {w1, w2}
  MaxAttempts = 2
  BatchSize = 2
  MaxReplays = 1
  NoRow = NoRow
  Topics = {o1}
  Endpoints = {p1}
  Rows = {r1, r2}
  Deliverers = {d1, d2}
  MaxPublishes = 2
  MaxRotations = 1
  EarlyRotation = FALSE
  MaxCrashes = 1
INVARIANTS PoisonIsFiled NothingLost
PROPERTIES PromiseSpec SignedForReceiver EveryEventSettles RowEndsOrIsZombie
CHECK_DEADLOCK FALSE
