SPECIFICATION Spec
CONSTANTS
    a = a
    b = b
    Job = Job
    Memories = {a, b}
    Forgettable = {a, b}
    SnoozeCap = 1
    MaxAttempts = 2
    Faults <- Nothing
    MaxChanges = 0
    MaxFaults = 0
INVARIANTS
    ForgottenIsGone
CHECK_DEADLOCK FALSE
