SPECIFICATION Spec
CONSTANTS
    None = None
    Devices <- MCDevices
    FirstX <- kMcuX_
    FirstXv2 <- kMcuXv2_
    DefaultDevice <- MCDefaultDevice
    MemConfigs <- MCMemConfigs
    MemBlocks <- MCMemBlocks
    MemoryKeys <- EnumMemoryKey
    MaxMemConfigs <- kMaxMemConfigs
    EemTimers <- MCEemTimers
    CpuXVersions <- McuXs
    PartCodes <- MCPartCodes
    Queries <- MCQueries
INVARIANTS
    TypeOK
    FullMatchWins
    MapIsOverride
    LookupExact
    FoundByItsCode
    FuncletRamIsRam
PROPERTY DriverFitsThePart
