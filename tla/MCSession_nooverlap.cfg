SPECIFICATION Spec
CONSTANTS
    Credentials = {good, bad}
    Pin = good
    ChannelIds = {1, 2}
    ClientKinds = {"INPUT"}
    Alphabet <- AlienFrames
    Letters <- OneLetter
    MaxControl = 2
    MaxStreams = 0
    MaxFrames = 0
    DisplayFrames = 0
    CursorMoves = 0
    EncoderMayFail = TRUE
INVARIANT
    NoOverlapIsFatal
CHECK_DEADLOCK FALSE
