SPECIFICATION FairSpec
CONSTANTS
    Text = 5
    Keys = 3
INVARIANTS LossBounded
PROPERTIES WaitEnds
CHECK_DEADLOCK FALSE
