\* WebSockets, interceptor chains with streams, transfers of a session, Protobuf.
SPECIFICATION Spec
CONSTANTS
    Connects = {1, 2}
    Sends = {1}
    Requests = {1, 2}
    Streams = {1, 2}
    Download = 2
    Spider = 1
    MaxStreams = 1
    MaxOutputs = 1
    MaxTurns = 1
    Transfers = {1, 2}
    Media = {1}
    Longest = 2
    MaxAttempts = 2
    PartSize = 2
    MaxMedia = 3
    MaxSize = 4
    Declared = 0
    WordBits = 15
    Fixed32 = 2
    Fixed64 = 3
    LengthBytes = 2
    Inputs <- MCInputs
    Calls <- MCCalls
INVARIANTS WebSocketsInv ChainsInv MediaWhole CodecExact
PROPERTIES HeldSendServed EndHonoured SpacedStarts FetchesEnd
CHECK_DEADLOCK FALSE
