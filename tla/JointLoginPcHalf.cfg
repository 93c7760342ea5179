SPECIFICATION Spec
CONSTANTS
    Login = {l1}
    Password = {p1, p2}
    None = None
    Cap = 1
    MaxTunnels = 1
    MaxEpoch = 1
INVARIANT PcProvesPassword
CHECK_DEADLOCK FALSE
