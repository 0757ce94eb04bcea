CONSTANTS
    Part <- MCPart
    NoRecord = NoRecord
    Value = {vector, a}
    ResetVector = vector
    EmptyPc = vector
    Set = {a}
    MaxRx = 2
    SendsPlus = FALSE
SPECIFICATION Spec
PROPERTIES ReportedPcTrue
