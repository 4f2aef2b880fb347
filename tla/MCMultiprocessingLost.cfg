SPECIFICATION Multiprocessing
CONSTANTS
    Waiters = {w1, w2}
    Setters = {s1}
    MaxSets = 1
    Forever = FALSE
    Children = {c1, c2}
    Codes = {1}
    PidsAreFds = {TRUE, FALSE}
INVARIANTS SetWakesEveryone
CHECK_DEADLOCK FALSE
