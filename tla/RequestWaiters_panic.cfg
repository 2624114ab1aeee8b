SPECIFICATION Spec
CONSTANTS
  iq = iq
  msg = msg
  view = view
  Requests = {msg}
  Ids = {1}
  IdOf <- MessageId
  Kind <- Message
  NoRetry = {}
  NoChan = NoChan
  Loads = {{msg}}
  MaxConns = 2
INVARIANT NoPanic
CHECK_DEADLOCK FALSE
