SPECIFICATION Spec
CONSTANTS
    s1 = s1
    s2 = s2
    w1 = w1
    w2 = w2
    x1 = x1
    x2 = x2
    nobody = nobody
    Spaces = {s1, s2}
    Workers = {w1, w2}
    Sweepers = {x1}
    MaxTxid = 2
    MaxSeq = 3
    Batch = 1
    SweepBatch = 2
    MaxBatches = 2
    MaxAttempts = 2
    MaxFailures = 2
    NoOne = nobody
SYMMETRY SlotSymmetry
INVARIANTS
    TypeOK
    ChainVerifies
    CheckpointsTile
    PassedHasJob
PROPERTY LogSpec
