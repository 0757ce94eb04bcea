SPECIFICATION FairSpec
CONSTANTS
    Size = 3
    Bits = {"b0"}
INVARIANTS
    TypeOK
    RamWhileRunning
    OnlyTheRange
    EraseTrue
    WriteMade
PROPERTY
    ComesBack
