SPECIFICATION Spec
CONSTANTS
    Ws <- OneWs
    Http <- OneHttp
    Ceiling = 1
    Length = 2
    MaxUp = 2
INVARIANTS TypeOK CeilingKept NoGhostSlot NoOrphanBinding PcEndFreesSlot CachedWasSent
CHECK_DEADLOCK FALSE
