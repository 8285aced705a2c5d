CONSTANTS
    r1 = r1
    a1 = a1
    Rows = {r1}
    Workers = {w1, w2}
    Albums = {a1}
    NoAlbum = NoAlbum
    NoRow = NoRow
    AlbumOf <- OneLinked
    RotationRows = {r1}
    TTL = 1
    HandlerBudget = 3
    Grace = 0
    RecoveryWindow = 2

SPECIFICATION LiveSpec
INVARIANT LinkedVerdictIsReadable
PROPERTY HealedOnce
PROPERTY ImplementsBoard
PROPERTY EveryRowSettles
