SPECIFICATION Spec
CONSTANTS
    NoComm = 99
    COLS = 6
    LINES = 5
    COLORS = 256
    Jobs <- MCJobs
INVARIANTS
    ParsesSamples
    CountsAddUp
    FramesFit
    CursorHolds
PROPERTIES
    KeepsInView
    DumpsSamples
