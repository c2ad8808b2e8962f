SPECIFICATION FairSpec
CONSTANTS
    Credentials = {good, bad}
    Pin = good
    ChannelIds = {1, 2}
    ClientKinds = {"INPUT"}
    Alphabet <- OpeningFrames
    Letters <- TwoLetters
    MaxControl = 3
    MaxStreams = 1
    MaxFrames = 1
    DisplayFrames = 0
    CursorMoves = 0
    EncoderMayFail = TRUE
PROPERTY
    ClosingControlEndsSession
CHECK_DEADLOCK FALSE
