SPECIFICATION Spec
CONSTANTS
    Findings = {f1}
    Person = person
    MaxRounds = 1
    Settings <- MCSettings
    MaxWork = 1
    MaxEnds = 1
    MaxActs = 1
INVARIANTS
    TypeOK
    DoneOnce
    StoryNotForgotten
PROPERTIES
    PublishedAsAudited
    ReviewedOrWaived
    FindingsSettled
