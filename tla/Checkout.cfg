SPECIFICATION CheckoutFairSpec
CONSTANTS
  m1 = m1
  Merchants = {m1}
  OpeningBalance <- MCOpening
  Intents = {i1}
  Attempts = {a1, a2}
  Amount <- MCAmount
  Fee <- MCFee
  MerchantOf <- MCMerchantOf
  InboxAttempts = 2
  MaxFaults = 1
  Sessions = {s1, s2}
  NoIntent = NoIntent
  NoRead = NoRead
INVARIANTS ChargesAreBooked OneCharge OutcomeIsVerified SessionOutcome
PROPERTIES SessionsMoveOn
CHECK_DEADLOCK FALSE
