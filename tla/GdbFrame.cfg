SPECIFICATION FrameSpec
CONSTANTS
    TextChar = {10, 43, 70}
    MaxText = 200
    MaxRuns = 2
INVARIANTS
    FrameTypeOK
    FrameReadable
CHECK_DEADLOCK FALSE
