SPECIFICATION Spec
CONSTANTS
    Files <- UpToThree
    SampleRows = 2
    Parts <- WholeOrCut
    MaxCalls = 2
INVARIANTS TypeOK TypesAreTheJoin FrameIsThePart SampledIsKept DiesOnlyOnUnreadable
CHECK_DEADLOCK FALSE
