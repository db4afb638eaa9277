\* Three rows of two members: two of one name, one whose directory is occupied; a crash and a
\* statement that fails.
SPECIFICATION FairSpec
CONSTANTS
    None = None
    m1 = m1
    m2 = m2
    a1 = a1
    a2 = a2
    b = b
    da = da
    db = db
    s1 = s1
    s2 = s2
    s3 = s3
    s4 = s4
    MemberOf <- MCMemberOf
    Members = {m1, m2}
    Checkouts = {a1, a2, b}
    Dirs = {da, db}
    DirOf <- MCDirOf
    Foreign = {db}
    Slots = {s1, s2, s3, s4}
    Concurrency = 2
    MaxPuts = 2
    MaxCrashes = 1
    MaxFaults = 1
INVARIANTS
    BoundedClones
    ReadyIsOnDisk
    CheckoutIsWhole
    OneClonePerCheckout
    CloningHasRunner
PROPERTIES
    SelectedIsCloned
CHECK_DEADLOCK FALSE
