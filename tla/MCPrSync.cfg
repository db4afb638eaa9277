\* A repository with two pull requests and one that has none yet and is granted late; a failure
\* or a crash.
SPECIFICATION Spec
CONSTANTS
    r1 = r1
    r2 = r2
    Repos = {r1, r2}
    Prs = {1, 2, 3}
    RepoOf <- MCRepoOf
    GrantedFirst = {r1}
    OpenedFirst = 2
    PageSize = 1
    Overlap = 0
    MayRunShort = FALSE
    MaxChanges = 4
    MaxWoes = 1
INVARIANTS
    NothingLeftBehind
PROPERTIES
    SnapshotNeverGoesBack
    FullWalksAreDue
CHECK_DEADLOCK FALSE
