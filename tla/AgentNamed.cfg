SPECIFICATION Spec
CONSTANTS
  gh = gh
  u1 = u1
  u2 = u2
  none = none
  torn = torn
  Servers = {gh}
  Urls = {u1, u2}
  MaxSessions = 2
  None = none
  Torn = torn
  NL = 0
  half = half
  Half = half
  MaxLog = 6
  Hosts = {"native"}
  LineLen <- MCLineLen
  NamedIds = TRUE
  MaxLines = 3
  MaxCrashes = 0
INVARIANT
  NamedBinds
CHECK_DEADLOCK FALSE
