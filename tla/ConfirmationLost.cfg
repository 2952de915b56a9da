SPECIFICATION FairSpec
CONSTANTS
  m1 = m1
  Merchants = {m1}
  OpeningBalance <- MCOpening
  Intents = {i1}
  Attempts = {a1}
  Amount <- MCAmount
  Fee <- MCFee
  MerchantOf <- MCMerchantOf
  InboxAttempts = 2
  MaxFaults = 1
  NoIntent = NoIntent
PROPERTY ApprovedIsCaptured
CHECK_DEADLOCK FALSE
