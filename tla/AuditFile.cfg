SPECIFICATION FileSpec
CONSTANTS
    Sinks = {k1, k2}
    Sessions = {s1, s2, s3}
    MaxRows = 5
    N = 4
INVARIANTS
    SinkTypeOK
    AckedAreCommitted
    ThreadsAreChains
    GhostsAreLast
    AcceptsExactlyReplayable
    NoRowTwice
    SinkLogsAccepted
PROPERTY
    WalkEnds
