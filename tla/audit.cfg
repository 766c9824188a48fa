SPECIFICATION Spec
CONSTANTS
    Reviewers = {"quality", "security", "codex-local"}
    MaxAudits = 2
    MaxAnswers = 1
    MaxFaults = 2
INVARIANT TypeOK
PROPERTIES VerdictEarned RequestAudited
CHECK_DEADLOCK FALSE
