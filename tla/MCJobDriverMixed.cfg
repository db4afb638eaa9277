\* A Remote Control driver and an opencode driver: a job parked by the first may be claimed by the
\* second, which has to refuse it.
SPECIFICATION SystemSpec
CONSTANTS
    None = None
    c1 = c1
    d1 = d1
    d2 = d2
    s1 = s1
    s2 = s2
    Claimers = {c1}
    Jobs = {1}
    MaxAttempts = 2
    MaxResumes = 1
    Drivers = {d1, d2}
    Slots = {s1, s2}
    DriverOf <- TwoDrivers
    RemoteDrivers = {d1}
    OpencodeDrivers = {d2}
    Unattributed = {}
    Stoppable = {}
    DaemonFalters = TRUE
INVARIANTS
    SucceededMeansRan
    BoardShowsTheSession
