SPECIFICATION Spec
CONSTANTS
    d1 = d1
    d2 = d2
    d3 = d3
    f1 = f1
    f2 = f2
    Memories = {d1, f1}
    Decisions = {d1}
    Standing = {d1}
    Commands = {"propose", "edit", "judge", "resolve", "undo"}
    MaxCommands = 6
    MaxVersion = 3
    MaxReading = 0
INVARIANT UndoLosesNothing
CHECK_DEADLOCK FALSE
