CONSTANTS
    p1 = p1
    Plays = {p1}
    MaxId = 2
    Rows = {1, 2, 3, 4, 5, 6}
    Upstream = {1, 2, 4, 5, 6}
    Keyspaces <- Files
    BatchSize = 2
    MaxCrashes = 1
    MaxCommands = 3
    MaxAttempts = 2
    MaxQueues = 2
SPECIFICATION MCSpec
INVARIANT DeletedStaysDeleted
CHECK_DEADLOCK FALSE
