SPECIFICATION Spec
CONSTANTS
  App = App
  Jobs = {j1, j2}
  MaxConns = 2
  MaxNodes = 1
  QueueSize = 1
  Stanzas = {"success", "restart", "loggedout", "cat"}
  AppCalls = {"Connect", "Disconnect", "ResetConnection", "Logout"}
  EnableAutoReconnect = TRUE
  InitialAutoReconnect = FALSE
  DisableLoginAutoReconnect = FALSE
  SilentConns = {1}
  Paired = TRUE
  HookMayRefuse = FALSE
  HandlersMayStall = TRUE
SYMMETRY Symmetry
INVARIANT TypeOK NoLeakedSocket SerialHandlers
CHECK_DEADLOCK FALSE
