SPECIFICATION FairSpec
CONSTANTS
  iq = iq
  msg = msg
  view = view
  Requests = {iq, msg, view}
  Ids = {1, 2, 3}
  IdOf <- OneOfEachIds
  Kind <- OneOfEach
  NoRetry = {}
  NoChan = NoChan
  MaxConns = 2
  Loads = {{iq, msg}, {iq, view}}
INVARIANT TypeOK RegisteredIsReady NoLostWakeup NoWaitOnDeadSocket
PROPERTY ClosedConnectionReleases
CHECK_DEADLOCK FALSE
