CONSTANTS
    Clients = {c1, c2}
    NoClient = none
    Writers = {w1, w2}
    Midnight = 4
    MaxTime = 5
    MaxMark = 7
SPECIFICATION WatermarkSpec
INVARIANT OnlySameSecondIsMissed
CHECK_DEADLOCK FALSE
