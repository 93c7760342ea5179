SPECIFICATION Spec
CONSTANTS
    Uuid = {u1}
    Conn = {c1}
    None = None
    MaxTunnels = 1
    Misses = 1
    BytesPerDay = 2
    Listable = {}
    MaxFrame = 2
    MaxDay = 1
    MaxLate = 0
SYMMETRY Symmetry
INVARIANT LinkBudget
