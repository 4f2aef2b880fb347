SPECIFICATION Pipes
CONSTANTS
    Procs = {p}
    Codes = {0, 3}
    PipeCap = 2
    MaxSent = 3
    Lengths = {0, 3}
    Header = 2
    FrameCap = 4
    PipeBuf = 2
    Keeps = FALSE
    MaxSends = 2
    Users = {p1, p2, p3}
    Uses <- AllUses
    Permits = 2
    MaxPermits = 2
INVARIANTS StatusKept NothingLeft AnswersAreHonest MutualExclusion PermitsConserved
PROPERTIES SignalsOwnChild TakesAll CloseEnds RefinesMailbox ParentSeesTheEnd
           TimedAcquireReturns
CHECK_DEADLOCK FALSE
