SPECIFICATION Spec
CONSTANTS
    d1 = d1
    d2 = d2
    d3 = d3
    f1 = f1
    f2 = f2
    Memories = {d1, d2, f1}
    Decisions = {d1, d2}
    Standing = {d1}
    Commands = {"remember", "propose", "keep", "reject", "judge", "skip", "undo", "forget"}
    MaxCommands = 4
    MaxVersion = 2
    MaxReading = 1
INVARIANT
    ProposalsJudged
CHECK_DEADLOCK FALSE
