SPECIFICATION Spec
CONSTANTS
    Family = {"slau049", "slau144", "slau208"}
    Bits = {"b0"}
    Regions <- MCRegions
    Top = 11
    MaxLen = 4
INVARIANTS
    TypeOK
    WritesExactly
    ReadsExactly
    RangeErased
PROPERTIES
    InfoAProtected
    ErasedWhenAnswered
    LockaRestored
