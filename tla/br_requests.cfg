SPECIFICATION Spec
CONSTANTS
  a1 = a1 a2 = a2 w1 = w1 w2 = w2
  Accounts = {a1, a2}
  NoAccount = NoAccount
  Threads = {w1, w2}
  Ports = {1, 2}
  Kinds = {"reserve", "start", "stop", "restart", "reset", "health", "login", "preflight", "delete"}
  MaxRequests = 3
  MaxRows = 3
  MaxFaults = 1
INVARIANTS OwnBrowserOnly ResetForgetsLogin NothingLeftBehind
PROPERTIES StopEndsBrowser
CHECK_DEADLOCK FALSE
SYMMETRY Interchangeable
