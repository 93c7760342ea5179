SPECIFICATION Spec
CONSTANTS
    Conn = {c1, c2}
    Task = {t1, t2}
    None = None
    Gone = Gone
    InitialCredit = 1
    CreditEvery = 1
    RingFrames = 1
    MaxHeld = 1
    MaxPush = 0
    MaxSeq = 2
    MaxGen = 2
SYMMETRY Symmetry
INVARIANTS ResumeLosesNothing
CHECK_DEADLOCK FALSE
