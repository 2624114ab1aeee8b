SPECIFICATION FairSpec
CONSTANTS
  App = App
  Jobs = {j1, j2}
  MaxConns = 2
  MaxNodes = 2
  QueueSize = 1
  Stanzas = {"plain"}
  AppCalls = {"Connect", "Cancel"}
  EnableAutoReconnect = TRUE
  InitialAutoReconnect = FALSE
  DisableLoginAutoReconnect = FALSE
  SilentConns = {}
  Paired = TRUE
  HookMayRefuse = FALSE
  HandlersMayStall = TRUE
INVARIANT OverflowIsAnswered
PROPERTY DropIsRecovered
CHECK_DEADLOCK FALSE
