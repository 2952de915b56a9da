SPECIFICATION DoorSpec
CONSTANTS
  MaxFailed = 2
  LockFor = 1
  ChallengeTtl = 2
  StepUpAge = 2
  Window = 1
  Challenges = {c1, c2}
  Sessions = {s1}
  BackupCodes = {b1}
  MaxSecrets = 2
  MaxNow = 3
  Processes = {p1, p2, p3}
  Rows = 3
  Clients = {k1, k2, k3}
  Payloads = {"a", "b"}
  MaxFaults = 3
  Tabs = {w1, w2}
  Slugs = {"s1", "s2"}
  Names = {"n1", "n2"}
  MaxDeaths = 1
  Callers = {q1, q2, q3}
  FailureThreshold = 2
  MaxOutages = 2
  MaxClicks = 2
  MaxLost = 2
  Requesters = {x1, x2}
  Quota = 2
  Width = 2
  MaxCuts = 1
  Handlers = {h1, h2}
  Merchants = {"m1", "m2"}
  Customers = {"u1"}
  Keys = {"k1"}
  Links = {"l1"}
  Parked = {"o1"}
  PageSize = 1
  MaxEvents = 3
  Together = {{"m1", "m2"}, {"u1"}, {"o1"}, {"k1"}, {"l1"}}
  Timed = {"k1"}
  MaxClock = 2
INVARIANTS FactorsHold EveryProcessReads EffectOncePerKey OnboardedOnce ConfirmedOnce LimitsHold RecordsHold
PROPERTIES EveryoneIsServed
CHECK_DEADLOCK FALSE
