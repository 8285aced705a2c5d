CONSTANTS
    Handlers = {h1, h2}
    Sweeps = {s1}
    JobRows = {j1}
    Services = {bandcamp, apple}
    Fallbacks = {bandcamp}
    Guarded = {}
    Coerced = {bandcamp}
    Links = {u1}
    Cap = 2
    Clients = {c1, c2}
    NoClient = none
    Writers = {w1, w2, w3}
    Midnight = 4
    MaxTime = 4
    MaxMark = 7
    Members = {m1, m2}
    Edits = {e1, e2, e3}
    Nobody = none
SPECIFICATION MCSpec
INVARIANT PartsTypeOK
INVARIANT AttemptsBounded
INVARIANT NothingIsMissed
PROPERTY AbsentIsTerminal
PROPERTY EditReplacesWhatItSaw
SYMMETRY Interchangeable
CHECK_DEADLOCK FALSE
