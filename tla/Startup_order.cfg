SPECIFICATION FairSpec
CONSTANTS
    NumNodes = 4
    Local = {1, 2, 3}
    Killable = {3}
    StartBudget <- LastOnce
INVARIANTS TypeOK RegistrationsAreLives DirectoryComesFirst DirectoryIsComplete ServerSurvivesStartup OnlyRegistersInLoop NobodyRunsBeforeTheLoopEnds
 
CHECK_DEADLOCK FALSE
