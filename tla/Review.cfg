SPECIFICATION Spec
CONSTANTS
    m1 = m1
    m2 = m2
    None = None
    Order <- TwoCards
    Unjudged = {m1}
    Gestures <- Some
    MaxPresses = 2
    MaxUndos = 1
    MaxTrouble = 1
    MaxAsks = 1
INVARIANTS
    TypeOK
    MarksEnd
    OutcomeHolds
PROPERTIES
    NoSelfClash
CHECK_DEADLOCK FALSE
