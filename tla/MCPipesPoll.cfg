SPECIFICATION Pipes
CONSTANTS
    Procs = {p}
    Codes = {0, 3}
    PipeCap = 2
    MaxSent = 3
    Lengths = {0, 3}
    Header = 2
    FrameCap = 4
    PipeBuf = 2
    Keeps = FALSE
    MaxSends = 2
    Users = {p1}
    Uses <- AllUses
    Permits = 1
    MaxPermits = 1
PROPERTIES PollReturns
CHECK_DEADLOCK FALSE
