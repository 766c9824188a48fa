SPECIFICATION Spec
CONSTANTS
    Findings = {f1, f2}
    Person = person
    MaxRounds = 2
    Settings <- MCFull
    MaxWork = 1
    MaxEnds = 0
    MaxActs = 0
INVARIANT
    RepliesMatch
CHECK_DEADLOCK FALSE
