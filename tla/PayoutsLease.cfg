SPECIFICATION FairSpec
CONSTANTS
  m1 = m1
  Merchants = {m1}
  OpeningBalance <- MCOpening
  PayoutIds = {p1, p2}
  Amounts = {1, 2}
  Workers = {w1, w2, r1}
  Redrivers = {r1}
  MaxBatch = 2
  Settlements = {s1}
  MaxFaults = 1
  LeaseHolds = TRUE
  NoJob = NoJob
INVARIANTS JournalAgrees PaidMeansBankPaid NoDoubleDrive PayoutsAreBooked
PROPERTIES ReservationSpec PayoutsMoveOn
CHECK_DEADLOCK FALSE
