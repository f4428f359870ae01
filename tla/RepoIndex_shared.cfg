SPECIFICATION IndexSpec
CONSTANTS
    Sessions = {s1, s2, s3}
    Files = 2
    Sources <- SomeSources
    TopK = 1
    max_tokens = 6
    overlap_tokens = 3
SYMMETRY Symmetric
INVARIANTS
    WorktreeIndexed
    OnePointPerName
    PointsLocate
