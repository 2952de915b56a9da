SPECIFICATION Spec
CONSTANTS
  m1 = m1
  b1 = b1
  charge = charge
  Merchants = {m1}
  OpeningBalance <- MCOpening
  BankDisputes = {b1, b2, b3}
  DisputeIds = {d1, d2, d3}
  Amount <- MCAmount
  MerchantOf <- MCMerchantOf
  Quotes <- MCDisputeQuotes
  Handlers = {h1, h2}
  NoRef = NoRef
SYMMETRY MCSymmetry
INVARIANTS VerdictIsTheBanks HeldOnce
PROPERTIES ReservationSpec
CHECK_DEADLOCK FALSE
