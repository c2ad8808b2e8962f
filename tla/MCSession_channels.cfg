SPECIFICATION Spec
CONSTANTS
    Credentials = {good, bad}
    Pin = good
    ChannelIds = {1, 2}
    ClientKinds = {"INPUT", "CHAT", "FILE", "AUDIO"}
    Alphabet <- OpeningFrames
    Letters <- OneLetter
    MaxControl = 4
    MaxStreams = 2
    MaxFrames = 1
    DisplayFrames = 0
    CursorMoves = 0
    EncoderMayFail = TRUE
INVARIANTS
    OneConversation
    GrantsBindInOrder
CHECK_DEADLOCK FALSE
