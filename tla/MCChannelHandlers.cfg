SPECIFICATION FairSpec
CONSTANTS
    U32 = 4
    U64 = 8
    EchoOffset = 3
    TextCap = 2
    Window = 1
    MaxFrames = 4
    Alphabet <- SmallAlphabet
    Scripts <- SmallScripts
INVARIANTS
    TypeOK
    RepliesAnswer
    TransferIsReported
    EndMeansServed
PROPERTIES
    ScriptCompletes
CHECK_DEADLOCK FALSE
