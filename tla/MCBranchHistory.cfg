\* Three commits on one branch and one on another, landing in any order, of which one may be
\* dated further behind than the overlap; a branch is pushed over, and one thing fails.
SPECIFICATION Spec
CONSTANTS
    r1 = r1
    r2 = r2
    Repos = {r1, r2}
    Commits = {1, 2, 3, 4}
    RepoOf <- MCRepoOf
    Overlap = 1
    MaxRewinds = 1
    MaxFaults = 1
INVARIANTS
    RangeIsExact
    CoveredIsStored
CHECK_DEADLOCK FALSE
