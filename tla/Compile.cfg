SPECIFICATION FairSpec
CONSTANTS
    a = a
    b = b
    Job = Job
    Memories = {a, b}
    Forgettable = {a}
    SnoozeCap = 1
    MaxAttempts = 2
    Faults <- Everything
    MaxChanges = 2
    MaxFaults = 1
INVARIANTS
    TypeOK
    BehindHasJob
    CompilingIsBehind
    ForgottenIsGone
    RewrittenIsClean
PROPERTIES
    CatchesUp
    ForgetsEnd
CHECK_DEADLOCK FALSE
