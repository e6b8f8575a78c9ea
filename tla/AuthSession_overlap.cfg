SPECIFICATION Spec
CONSTANTS
  a = a  b = b  s = s  t = t  none = none
  User = {a, b}
  Task = {s, t}
  Ops = {"login", "logout", "refresh", "token", "clear"}
  None = none
  MaxCalls = 2
  MaxFaults = 1
  MaxCrashes = 1
SYMMETRY AuthSymmetry
INVARIANT TypeOK
INVARIANT NeverReused
INVARIANT MemoryStaysLoggedOut
INVARIANT SettledStoreMatches
CHECK_DEADLOCK FALSE
