SPECIFICATION Spec
CONSTANTS
    Stories = {s1, s2}
    MaxEvents = 3
    MaxDispatches = 3
    MaxEdits = 2
SYMMETRY StorySymmetry
INVARIANT TypeOK
PROPERTY CommittedAsOwned
PROPERTY HandbackGated
 
PROPERTY FinalizedOnce
CHECK_DEADLOCK FALSE
