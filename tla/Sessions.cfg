SPECIFICATION Spec
CONSTANTS
  Senders = {s1, s2}
  InlineCalls = {b1, b2}
  Retriers = {r1}
  Decrypters = {d1}
  Nil = Nil
  Together = {{s1, s2, r1}, {s1, s2, d1}, {r1, d1}, {s1, s2, b1, b2}}
  MaxChains = 2
  MaxKeys = 2
  MaxFaults = 1
SYMMETRY Symmetric
INVARIANT TypeOK SendsUseFreshKeys MigratingHasOwner
CHECK_DEADLOCK FALSE
