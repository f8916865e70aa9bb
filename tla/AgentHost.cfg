SPECIFICATION Spec
CONSTANTS
  gh = gh
  u1 = u1
  u2 = u2
  none = none
  torn = torn
  Servers = {gh}
  Urls = {u1, u2}
  MaxSessions = 2
  None = none
  Torn = torn
  NL = 0
  half = half
  Half = half
  MaxLog = 3
  Hosts = {"golem", "native"}
  LineLen <- MCLineLen
  NamedIds = FALSE
  MaxLines = 4
  MaxCrashes = 2
SYMMETRY Endpoints
INVARIANTS
  TypeOK
  SessionTable
  SentHome
  IdsMean
  LogKept
  Converges
  Replays
CHECK_DEADLOCK FALSE
