CONSTANTS
    r1 = r1
    r2 = r2
    a1 = a1
    none = none
    t1 = t1
    t2 = t2
    t3 = t3
    c1 = c1
    c2 = c2
    c3 = c3
    c4 = c4
    w1 = w1
    w2 = w2
    Tokens = {t1, t2, t3}
    NoToken = none
    Interval = 2
    Timeout = 5
    MaxFailures = 2
    Callers = {c1, c2, c3, c4}
    LaneOf <- OneLive
    BulkMax = 2
    Suppress = TRUE
    Rows = {r1, r2}
    Albums = {a1}
    AlbumOf <- OneLinked
    NoAlbum = none
    Historical = {r2}
    TerminalUpdates <- TerminalOnce
    Reads = {1, 2}
    MaxVersions = 3
    MaxFlips = 2
    MaxLost = 1
SPECIFICATION MCSpec
INVARIANT PartsTypeOK
INVARIANT CacheFresh
INVARIANT RowsInOrder
INVARIANT DeathIsSeen
INVARIANT LookupsAreOwn
INVARIANT OneHolder
PROPERTY EveryPlayGoesOut
PROPERTY LifeIsSeen
PROPERTY EveryLookupSettles
CHECK_DEADLOCK FALSE
