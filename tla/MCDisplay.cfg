SPECIFICATION FairSpec
CONSTANTS
    DISPLAY_FRAME_COUNT = 3
    MaxU8 = 3
    NalCounts <- SmallCounts
    Window = 2
INVARIANTS
    TypeOK
    SlicesCountUpToTheirTotal
    KeyframeIsFirst
    EndMeansWholePictures
    DumpFollowsTheEncoder
PROPERTIES
    VideoEnds
CHECK_DEADLOCK FALSE
