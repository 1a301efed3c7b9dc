SPECIFICATION Spec
CONSTANTS
    A = A
    B = B
    e = e
    None = None
    Devices = {A, B}
    Editors = {A}
    Edits = {e}
    Trouble <- Quiet
    MaxRuns = 1
    MaxResolves = 1
    MaxTrouble = 0
INVARIANT AskedOnce
CHECK_DEADLOCK FALSE
