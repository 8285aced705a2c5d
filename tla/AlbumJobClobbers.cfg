CONSTANTS
    Handlers = {h1}
    Sweeps = {}
    JobRows = {j1}
    Services = {spotify, apple}
    Fallbacks = {spotify}
    Guarded = {}
    Coerced = {}
    Links = {u1, u2}
    Cap = 2
SPECIFICATION Spec
SYMMETRY Symmetry
PROPERTY VerifiedIsKept
CHECK_DEADLOCK FALSE
