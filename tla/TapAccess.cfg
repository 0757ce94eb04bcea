SPECIFICATION Spec
CONSTANTS
    RamAddr <- MCRam
    FlashAddr <- MCFlash
    InfoAAddr <- MCInfoA
    Per8Addr <- MCPer8
    GpRegs = {5}
    Parts <- MCParts
    Calls <- MCCalls
    MaxCalls = 2
INVARIANTS TypeOK FlashClosed ReleasedAsAsked RegistersReadQuietly
PROPERTIES Implements
