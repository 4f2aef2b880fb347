SPECIFICATION Multiprocessing
CONSTANTS
    Waiters = {w1, w2}
    Setters = {s1, s2}
    MaxSets = 2
    Forever = TRUE
    Children = {c1, c2}
    Codes = {1}
    PidsAreFds = {TRUE, FALSE}
INVARIANTS SetWakesSomeone RecordMatchesKernel ExitCodeSurvives DaemonsTold
PROPERTIES TimedWaitReturns SignalsOwnChild ShutdownEnds KilledIsJoined
CHECK_DEADLOCK FALSE
