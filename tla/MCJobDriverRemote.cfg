\* Two Remote Control drivers, one job that is parked and resumed.
SPECIFICATION SystemSpec
CONSTANTS
    None = None
    c1 = c1
    d1 = d1
    d2 = d2
    s1 = s1
    s2 = s2
    Claimers = {c1}
    Jobs = {1}
    MaxAttempts = 2
    MaxResumes = 1
    Drivers = {d1, d2}
    Slots = {s1, s2}
    DriverOf <- TwoDrivers
    RemoteDrivers = {d1, d2}
    OpencodeDrivers = {}
    Unattributed = {}
    Stoppable = {}
    DaemonFalters = TRUE
SYMMETRY DriverSymmetry
INVARIANTS
    SettledMeansStopped
    SessionHasOneWriter
PROPERTIES
    DrivesTheBoard
