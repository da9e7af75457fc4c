SPECIFICATION Spec
CONSTANTS
    None = None
    Requests <- MCRequests
    Kind <- MCKind
    Peer <- MCPeer
    Forwarded <- MCForwarded
    Proxies <- MCProxies
    Spans <- MCSpans
    PoolWaits <- MCPoolWaits
    Arrivals = 3
    Limit = 1
    PoolSize = 2
INVARIANTS
    LateForACause
    NoOneSpendsAnothersLimit
PROPERTIES
    NeverReadAsSignedOut
    StarvedOnlyByChains
