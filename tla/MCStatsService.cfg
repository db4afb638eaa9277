\* A pull request that is there and changes; the App may read it some time after the boot.
SPECIFICATION FairServiceSpec
CONSTANTS
    r1 = r1
    r2 = r2
    Repos = {r1}
    Prs = {1}
    RepoOf <- MCRepoOf
    GrantedFirst = {}
    OpenedFirst = 1
    PageSize = 1
    Overlap = 0
    MayRunShort = TRUE
    MaxChanges = 2
    MaxWoes = 1
INVARIANTS
    ShownIsStored
PROPERTIES
    EveryUpdateArrives
    VisitorsAreServed
CHECK_DEADLOCK FALSE
