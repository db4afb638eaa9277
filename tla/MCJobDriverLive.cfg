\* Liveness of one headless driver with two slots, with a daemon that does what it is told in time.
SPECIFICATION FairSystem
CONSTANTS
    None = None
    c1 = c1
    d1 = d1
    d2 = d2
    s1 = s1
    s2 = s2
    Claimers = {c1}
    Jobs = {1}
    MaxAttempts = 2
    MaxResumes = 1
    Drivers = {d1}
    Slots = {s1, s2}
    DriverOf <- OneDriver
    RemoteDrivers = {}
    OpencodeDrivers = {}
    Unattributed = {}
    Stoppable = {d1}
    DaemonFalters = FALSE
PROPERTIES
    SlotsComeBack
    EveryJobEnds
