SPECIFICATION FairSpec
CONSTANTS
    Credentials = {good, bad}
    Pin = good
    ChannelIds = {1}
    ClientKinds = {"INPUT", "CHAT", "AUDIO"}
    Alphabet <- AnyFrame
    Letters <- AnyLetter
    MaxControl = 3
    MaxStreams = 1
    MaxFrames = 1
    DisplayFrames = 1
    CursorMoves = 1
    EncoderMayFail = TRUE
INVARIANTS
    TypeOK
    AuthGate
    OneConversation
    ClosedIsQuiet
PROPERTIES
    ImplementsLifecycle
    LossReleasesEverything
    GracefulEnd
CHECK_DEADLOCK FALSE
