SPECIFICATION OfficeSpec
CONSTANTS
  m1 = m1
  c1 = c1
  c2 = c2
  c3 = c3
  Merchants = {m1}
  OpeningBalance <- MCOpening
  Callers = {c1, c2, c3}
  Calls <- MCCalls
  Rank <- MCRank
  Auditors = {x1}
  Audited <- MCAudited
  MaxRetries = 1
  MaxAgain = 1
  MaxAborts = 2
  None = None
  Txs = {t1, t2}
  MaxEntries = 2
  Sealers = {s1, s2}
  MaxFaults = 1
  NoCandidate = NoCandidate
  BeltHolds = TRUE
  Refs = {r1}
  Users = {u1, u2}
  Loaders = {l1, l2}
  Adjs = {a1, a2}
  MaxCalls = 4
  Size = 1
  JobsEnabled = 2
INVARIANTS NoFalseDrift LinesAreClassified BooksMatchDecisions ChainVerifies
PROPERTIES AtomicPosting AnswersAreTrue EveryCallEnds EntriesAreAnchored StopsCleanly
CHECK_DEADLOCK FALSE
