SPECIFICATION Spec
CONSTANTS
    d1 = d1
    d2 = d2
    d3 = d3
    f1 = f1
    f2 = f2
    Memories = {d1, d2, f1}
    Decisions = {d1, d2}
    Standing = {d1}
    Commands = {"remember", "propose", "update", "edit", "keep", "reject", "judge", "resolve", "undo"}
    MaxCommands = 5
    MaxVersion = 2
    MaxReading = 0
INVARIANTS
    TypeOK
    ConflictFlagMatches
    FoldTargetsStand
    VerdictsOnce
CHECK_DEADLOCK FALSE
