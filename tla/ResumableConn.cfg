SPECIFICATION Spec
CONSTANTS
    Conn = {c1, c2}
    Task = {t1, t2}
    None = None
    Gone = Gone
    InitialCredit = 1
    CreditEvery = 1
    RingFrames = 2
    MaxHeld = 2
    MaxPush = 4
    MaxSeq = 2
    MaxGen = 2
INVARIANTS TypeOK RingCoversTheGap WorkloadInOrder NoStrandedConn
PROPERTIES BindingOutlivesStrangers ImplementsDownlink
CHECK_DEADLOCK FALSE
SYMMETRY Symmetry
CONSTRAINT OneOrQuiet
