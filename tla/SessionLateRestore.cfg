\* Two scheduler loops restore the same session; nothing begins it anew.
SPECIFICATION Spec
CONSTANTS
    Focuses = {"state"}
    Messages = {"m1", "m2"}
    Children = {"k"}
    ParentOf <- MCParentOf
    Ids = {1, 2, 3}
    NoItem = "-"
    RecycleIds = FALSE
    MaxFaults = 2
    StartMessages = 2
    Fruitful = {1}
    Cells = {1, 2}
    StartLimit = 2
    RecycleCells = FALSE
    MaxOutages = 1
    MaxReruns = 1
    Discovered = {1, 2, 3, 4}
    Fingerprint <- MCFingerprint
    Positions <- MCPositions
    ShardOf <- MCShardOf
    DontFilter = {4}
    StartUrls = {1, 4}
    RecordsSeen = FALSE
    MaxLostReplies = 1
    Ttl = TRUE
    Visits = {1, 2, 3}
    Tokens = {1}
    Hints = {"h"}
    Loops = 2
    StartsOver = FALSE
    MaxRestarts = 1
    NoState = NoState
    Emissions <- MCEmissions
    Sentinel <- MCSentinel
    MaxQueue = 1
    EngineNum = 2
    MaxBeats = 1
    Outages = FALSE
    Runs = {"r1", "r2", "r3"}
    Workers = {"w1", "w2"}
    WorkerOf <- MCWorkerOf
    RunEngines = 1
    MaxRuns = 2
    MaxWorkers = 1
    MaxNotes = 1
    MaxPostFaults = 1
    Sites = {"x", "y"}
    HostOf <- MCHostOf
    Elsewhere <- MCElsewhere
    RobotPaths <- MCRobotPaths
    Texts <- MCTexts
    AgentsInUa = {"bot"}
    SseLines <- MCSseLines
    SizeOf <- MCSizeOf
    MaxEventSize = 2
    MaxLines = 4
PROPERTIES NeverForgets
