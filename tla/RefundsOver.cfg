SPECIFICATION Spec
CONSTANTS
  m1 = m1
  i1 = i1
  Spare = 1
  Merchants = {m1}
  OpeningBalance <- MCOpening
  RefundIds = {r1, r2}
  Intents = {i1}
  Captured <- MCCaptured
  MerchantOf <- MCMerchantOf
  Amounts = {1, 2}
  MaxFaults = 1
INVARIANT NoOverRefund
CHECK_DEADLOCK FALSE
