SPECIFICATION Spec
CONSTANTS
    Conn = {c1,c2}
    Instance = {i1,i2}
    Job = {j1}
    Token = {t1}
    Serial = {s1,s2}
    None = None
    MaxQueue = 2
SYMMETRY Symmetry
INVARIANTS TypeOK BoundToRegistered CountTold
CHECK_DEADLOCK FALSE
