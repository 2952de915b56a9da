SPECIFICATION Spec
CONSTANTS
  m1 = m1
  Merchants = {m1}
  OpeningBalance <- MCOpening
  PayoutIds = {p1, p2}
  Amounts = {1, 2}
  Workers = {w1, w2, r1}
  Redrivers = {r1}
  MaxBatch = 2
  Settlements = {}
  MaxFaults = 1
  LeaseHolds = FALSE
  NoJob = NoJob
SYMMETRY MCSymmetry
INVARIANT OneBankContact
CHECK_DEADLOCK FALSE
