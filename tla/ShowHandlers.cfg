CONSTANTS
    DJs = {d1, d2}
    NoDJ = NoDJ
    Requests = {r1, r2}
    MaxShows = 2
    MaxLog = 3
    RowIds = {e1, e2, e3}
    Reorders = {m1, m2}
    MaxPlace = 4
    MaxCalls = 4
SPECIFICATION MCSpec
SYMMETRY Symmetry
CONSTRAINT CallsBounded
INVARIANT PartsTypeOK
INVARIANT HostCanSignOff
PROPERTY ImplementsBoard
PROPERTY OrderIsKept
