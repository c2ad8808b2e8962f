SPECIFICATION WebSpec
CONSTANTS
    Credentials = {good, bad}
    Pin = good
    ChannelIds = {1}
    ClientKinds = {"INPUT"}
    Alphabet = {}
    Letters = {}
    MaxControl = 3
    MaxStreams = 1
    MaxFrames = 2
    DisplayFrames = 0
    CursorMoves = 0
    EncoderMayFail = FALSE
PROPERTY
    WebFlowReachesInput
CHECK_DEADLOCK FALSE
