SPECIFICATION Spec
CONSTANTS
  m1 = m1
  m2 = m2
  m3 = m3
  p1 = p1
  p2 = p2
  Messages = {m1, m2, m3}
  Requests <- MCRequests
  MessageOf <- MCMessageOf
  Handlers = {h1, h2, h3}
  Nil = Nil
  UseRetryMessageStore = TRUE
  recentMessagesSize = 2
  maxIncomingRetryEntries = 1
  RetryLimit = 2
  Parallel = 2
  MaxHours = 1
  MaxReceipts = 4
  MaxFaults = 1
SYMMETRY Symmetric
INVARIANT TypeOK RecentAreKept SentSurviveRestart ResendsBounded PermitsAreHeld
CHECK_DEADLOCK FALSE
