SPECIFICATION Spec
CONSTANTS
    Uuid = {u1, u2}
    Conn = {c1, c2}
    None = None
    MaxTunnels = 1
    Misses = 1
    BytesPerDay = 1
    Listable = {u1}
    MaxFrame = 2
    MaxDay = 1
    MaxLate = 1
SYMMETRY Symmetry
VIEW View
INVARIANTS TypeOK CapacityRespected RegisteredIsLive ServingIsKnown TunnelBudget
PROPERTY OfflineByOwnExit
CONSTRAINT EditsBeforeMidnight
