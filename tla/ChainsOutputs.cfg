\* One plain request and one spider interceptor are enough to lose a result.
SPECIFICATION ChainsSpec
CONSTANTS
    Requests = {1}
    Streams = {}
    Download = 1
    Spider = 1
    MaxStreams = 1
    MaxOutputs = 1
    MaxTurns = 0
INVARIANT OutputsKept
CHECK_DEADLOCK FALSE
