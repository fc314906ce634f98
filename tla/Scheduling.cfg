\* The event loop's tasks, the disciplined sessions and one finite crawl.
SPECIFICATION MCSpec
CONSTANTS
    default = default
    a = a
    b = b
    e1 = e1
    e2 = e2
    Engines <- MCEngines
    Slots = 3
    LoopNum = 1
    Limit = 1
    IsDistributed = TRUE
    MaxTasks = 5
    Ids <- MCIds
    Default = default
    Groups <- MCNoGroups
    GroupMembers <- MCNoMembers
    Users <- MCUsers
    ReuseEnded = FALSE
    MaxRefetch = 0
    MaxWrappers = 1
INVARIANTS TasksInv NotClosedInUse
PROPERTIES EveryTaskStarts StoppedEngineCloses EndedUnusedCloses FiniteCrawlCloses
