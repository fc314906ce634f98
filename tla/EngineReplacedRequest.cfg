SPECIFICATION FairSpec
CONSTANTS
    Requests <- MCFewRequests
    Fp <- MCFp
    DontFilter <- MCFewDontFilter
    MaxStart = 2
    LoopNum = 1
    SharedMeta = FALSE
    MaxRetries = 1
    MaxReplacements = 1
PROPERTIES FiniteCrawlCloses
CHECK_DEADLOCK FALSE
