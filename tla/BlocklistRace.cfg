SPECIFICATION FairSpec
CONSTANTS
    Refresher = {tick, handshake}
    Uuid = {u1, u2}
    None = None
    MaxEdits = 2
PROPERTY EditTakesEffect
