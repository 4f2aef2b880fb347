SPECIFICATION SoundsAndTools
CONSTANTS
    Contexts = {c1, c2}
    Buses = {b1, b2}
    Sounds = {s1, s2}
    Captures = {k}
    NoBus = NoBus
    main = main
    util = util
    std = std
    plain = plain
    needsUtil = needsUtil
    NoText = NoText
    Documents <- MCDocuments
    Texts <- MCTexts
    Libraries <- MCLibraries
    ImportsOf <- MCImportsOf
    FirstFile <- MCFirstFile
    MaxEvents = 2
    MaxTabs = 2
    MaxQueue = 2
    Compilers = {build, server}
    MemberCount = 3
    Entry = 2
    MaxPacks = 2
    MaxClock = 3
    Habits = {}
    Subjects = {"sounds", "session", "library"}
INVARIANTS RefsAreOwners NothingDangles NothingLeaks SettledIsRight SeesTheArchive
PROPERTIES AnswersDescribeTheText ShownEventually
CHECK_DEADLOCK FALSE
