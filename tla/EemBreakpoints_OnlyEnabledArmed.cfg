CONSTANTS
    MaxBreakpoints = 4
    NumHw = 3
    Address = {zero, nop4343}
    ZeroAddress = zero
    SwBkpInstr = nop4343
    WatchType = {"write"}
SPECIFICATION EemSpec
INVARIANT OnlyEnabledArmed
