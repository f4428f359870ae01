SPECIFICATION PacerSpec
CONSTANTS
    Threads = {t1, t2}
    Burst = 2
    Rate = 1
    Cost = 2
    Second = 2
    BaseBackoff = 2
    MaxBackoff = 4
    Thresholds = {1, 2}
    Retries = {0, 1}
    BACKOFF = 2
    MaxCalls = 2
    Horizon = 4
INVARIANTS
    PacerTypeOK
    BurstBound
    NoGrantWhileOpen
    RequestsPerSlot
    BreakerInTime

SYMMETRY Symmetric
