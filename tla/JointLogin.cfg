SPECIFICATION Spec
CONSTANTS
    Login = {l1, l2}
    Password = {p1, p2}
    None = None
    Cap = 1
    MaxTunnels = 2
    MaxEpoch = 2
SYMMETRY Symmetry
VIEW View
INVARIANTS TypeOK CurrentPasswordOnly GateNeverStepsBack
CHECK_DEADLOCK FALSE
