SPECIFICATION Spec
CONSTANTS
  Txs = {t1, t2}
  MaxEntries = 1
  Sealers = {s1}
  MaxFaults = 0
  NoCandidate = NoCandidate
  BeltHolds = FALSE
INVARIANT ChainVerifies
CHECK_DEADLOCK FALSE
