SPECIFICATION TestClientSpec
CONSTANTS
    Credentials = {good, bad}
    Pin = good
    ChannelIds = {1, 2, 3, 4}
    ClientKinds = {"INPUT", "CLIPBOARD", "CHAT", "FILE"}
    Alphabet = {}
    Letters = {}
    MaxControl = 6
    MaxStreams = 4
    MaxFrames = 2
    DisplayFrames = 0
    CursorMoves = 1
    EncoderMayFail = TRUE
INVARIANTS
    TestClientTypeOK
    StreamsServeTheirChannel
    AckIsMine
    StreamsComeAsAnnounced
    FaithfulClientIsServed
    CloseCutsNoSender
PROPERTIES
    RightPinCompletes
    WrongPinIsRefused
    NobodyWaitsForever
CHECK_DEADLOCK FALSE
