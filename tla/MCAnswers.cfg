SPECIFICATION Spec
CONSTANTS
    None = None
    Null = Null
    s1 = s1
    s2 = s2
    main = main
    topic = topic
    dev = dev
    rel = rel
    ann = ann
    bot = bot
    Sessions = {s1, s2}
    Places <- MCPlaces
    Reports <- MCReports
    Repos = {1, 2}
    WeekLength = 2
    MaxTime = 4
    MaxPrs = 2
    Bots <- MCBots
    WeekDays = 7
    InstantBelow = 2
    SizeBounds <- MCSizeBounds
    reviewLinkage = TRUE
    Base = dev
    Now = 21
    Pulls <- MCPulls
    Lists <- MCLists
SYMMETRY Symmetric
INVARIANTS
    AddsUp
    RangeNeverReassigns
    FiguresAgree
PROPERTIES
    MergedKeepsItsWork
CHECK_DEADLOCK FALSE
