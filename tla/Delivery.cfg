SPECIFICATION FairSpec
CONSTANTS
    A = A
    B = B
    e = e
    None = None
    Devices = {A, B}
    Editors = {A}
    Edits = {e}
    Trouble <- Every
    MaxRuns = 2
    MaxResolves = 1
    MaxTrouble = 1
INVARIANTS
    TypeOK
PROPERTIES
    
    BaselineNeverBack
    EditAsked
    DueIsDelivered
CHECK_DEADLOCK FALSE
