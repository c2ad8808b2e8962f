SPECIFICATION Spec
CONSTANTS
    Credentials = {good, bad}
    Pin = good
    ChannelIds = {1, 2}
    ClientKinds = {"CHAT"}
    Alphabet <- NamingFrames
    Letters <- OneLetter
    MaxControl = 3
    MaxStreams = 2
    MaxFrames = 0
    DisplayFrames = 0
    CursorMoves = 0
    EncoderMayFail = TRUE
INVARIANT
    NamedStreamCarriesChannel
CHECK_DEADLOCK FALSE
