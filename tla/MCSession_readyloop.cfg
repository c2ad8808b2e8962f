SPECIFICATION FairSpec
CONSTANTS
    Credentials = {good, bad}
    Pin = good
    ChannelIds = {1, 2}
    ClientKinds = {"INPUT"}
    Alphabet <- OpeningFrames
    Letters <- TwoLetters
    MaxControl = 4
    MaxStreams = 0
    MaxFrames = 0
    DisplayFrames = 0
    CursorMoves = 0
    EncoderMayFail = TRUE
PROPERTY
    ReadyLoopNeverBlocks
CHECK_DEADLOCK FALSE
