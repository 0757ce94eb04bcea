CONSTANTS
    Part <- MCPart
    NoRecord = NoRecord
    Value = {vector, empty, a}
    ResetVector = vector
    EmptyPc = empty
    Set = {a}
    MaxRx = 2
    SendsPlus = TRUE
SPECIFICATION FairSpec
INVARIANTS TypeOK CallsFitTheTarget OneConversation
PROPERTIES LateInterruptIgnored InterruptAnswered PacketTaken
