SPECIFICATION Spec
CONSTANTS
  m1 = m1
  b1 = b1
  charge = charge
  Merchants = {m1}
  OpeningBalance <- MCOpening
  BankDisputes = {b1}
  DisputeIds = {d1, d2}
  Amount <- MCAmount
  MerchantOf <- MCMerchantOf
  Quotes <- MCChargeQuotes
  Handlers = {h1, h2}
  NoRef = NoRef
SYMMETRY MCSymmetry
INVARIANT HeldOnce
CHECK_DEADLOCK FALSE
