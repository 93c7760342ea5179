SPECIFICATION Spec
CONSTANTS
    Conn = {c1}
    Instance = {i1}
    Job = {j1, j2}
    Token = {t1, t2}
    Serial = {s1}
    None = None
    MaxQueue = 2
PROPERTY AttachedIsBound
CHECK_DEADLOCK FALSE
