SPECIFICATION FairSpec
CONSTANTS
    MaxByte = 2
    MaxLength = 1
    MaxBytes = 6
    Letters <- SmallLetters
INVARIANTS
    TypeOK
    WhatIsWrittenIsRead
    NothingReadAhead
    AllocationCapped
PROPERTIES
    ImplementsQueue
    ReaderFinishes
CHECK_DEADLOCK FALSE
