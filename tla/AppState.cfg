SPECIFICATION Spec
CONSTANTS
  a = a
  b = b
  Workers = {w1, w2}
  Indexes = {a, b}
  Edits <- MCEdits
  OwnEdits <- MCOwnEdits
  AllKeys = {1, 2}
  FirstKeys = {1}
  Nobody = Nobody
  NoValue = NoValue
  MaxVersion = 2
  MaxCalls = 2
  MaxFaults = 1
SYMMETRY Symmetry
INVARIANT TypeOK StoredHashIsSigned MACsFollowVersion NoFalseMismatch
CHECK_DEADLOCK FALSE
