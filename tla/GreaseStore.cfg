SPECIFICATION FairSpec
CONSTANTS
    a = a
    b = b
    r = r
    u1 = u1
    u2 = u2
    Names = {a, b, r}
    Kinds = {"mcp", "prompt", "script"}
    ServerNames = {a}
    Urls = {u1, u2}
    Offers <- MCOffers
    FirstRegs <- MCFirstRegs
    FirstOffers <- MCFirstOffers
    ToolLists = {t}
    OldLogs = {6}
    Gone = Gone
    Torn = Torn
    Bare = Bare
    Failed = Failed
    None = None
    Reserved = r
    MaxReleases = 2
    MaxLines = 2
    MaxCrashes = 1
    IOErrors = TRUE
CHECK_DEADLOCK FALSE
INVARIANTS
    TypeOK
    MarkerHasPayload
    RestartKeeps
    FlagsEarned
    LoggedEarned
    ViewFresh
    ProofDecides
PROPERTIES
    Durable
    Ends
