SPECIFICATION Spec
CONSTANTS
    U32 = 4
    Default <- DefaultCaps
    Variants <- SmallVariants
    RawVariants <- SmallRawVariants
INVARIANTS
    TypeOK
    BothSidesAgree
    NothingBeyondEitherSide
    OffersAreTheClients
CHECK_DEADLOCK FALSE
