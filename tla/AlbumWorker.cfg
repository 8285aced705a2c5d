CONSTANTS
    Handlers = {h1, h2}
    Sweeps = {w1}
    JobRows = {}
    Services = {spotify, apple}
    Fallbacks = {spotify}
    Guarded = {spotify, apple}
    Coerced = {}
    Links = {u1, u2}
    Cap = 2
SPECIFICATION LiveSpec
INVARIANT MergeAgrees
INVARIANT SearchIsOffered
PROPERTY VerifiedIsKept
PROPERTY SweepSettles
CHECK_DEADLOCK FALSE
