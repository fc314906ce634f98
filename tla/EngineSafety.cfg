SPECIFICATION Spec
CONSTANTS
    Requests <- MCRequests
    Fp <- MCFp
    DontFilter <- MCDontFilter
    MaxStart = 2
    LoopNum = 1
    SharedMeta = FALSE
    MaxRetries = 1
    MaxReplacements = 1
INVARIANTS CompletionSound OwnedUntilBoundary FetchedOnce
CHECK_DEADLOCK FALSE
