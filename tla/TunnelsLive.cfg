SPECIFICATION LiveSpec
CONSTANTS
    Create = {p1, p2}
    Id = {d1}
    None = None
    Pc = {u1}
    Conn = {c1, c2}
INVARIANT OrphansAreKnown
PROPERTIES CollisionKillsNobody VanishedIsDropped ReplacedUnwinds BlockedGoesOffAir
CHECK_DEADLOCK FALSE
