SPECIFICATION LiveSpec
CONSTANTS
    Refresher = {tick, handshake}
    Uuid = {u1}
    None = None
    MaxEdits = 2
    Login = {}
    Password = {q1}
    Conn = {c1}
    Instance = {i1}
    Job = {j1}
    Token = {t1, t2}
    Serial = {s1}
    Config = {k1, k2}
    Task = {w1}
    Gone = Gone
INVARIANT StampVouchesForSet
PROPERTIES
    SetFollowsFile UnracedEditTakesEffect SlotFreed TasksEnd ChangeReachesHub BoundGetsRelay
    MarkedRelayGoes StaleTunnelEnds ConfigIsTried HeldDrains
CHECK_DEADLOCK FALSE
