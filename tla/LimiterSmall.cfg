CONSTANTS
    Calls = {c1, c2, c3, c4}
    MaxConcurrent = 2
    Burst = 1
    TokenTicks = 2
    QueueWait = 1
    Timeouts = {1, 2}
    FailureThreshold = 2
    OpenTicks = 2
    Window = 5
SPECIFICATION RateLiveSpec
INVARIANT PermitsInUse
INVARIANT ProbeIsUnderWay
INVARIANT RateRespected
PROPERTY NoOvertaking
PROPERTY BreakerRecovers
