SPECIFICATION Spec
CONSTANTS
  Triggers = {t1, t2}
  Nil = Nil
  WantedPreKeyCount = 1
  MinPreKeyCount = 1
  InitialCount = 2
  MaxKeys = 3
  MaxFaults = 2
SYMMETRY Symmetric
INVARIANT TypeOK OfferedKeysWork MarkedWasUploaded
PROPERTY ConfirmedStaysConfirmed
CHECK_DEADLOCK FALSE
