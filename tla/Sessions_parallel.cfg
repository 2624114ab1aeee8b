SPECIFICATION Spec
CONSTANTS
  Senders = {s1, s2}
  InlineCalls = {}
  Retriers = {r1}
  Decrypters = {d1}
  Nil = Nil
  Together = {{s1, s2, r1, d1}}
  MaxChains = 2
  MaxKeys = 2
  MaxFaults = 1
SYMMETRY Symmetric
CHECK_DEADLOCK FALSE
INVARIANT FreshKeys
