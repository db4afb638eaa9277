\* Two jobs, two claims at a time: every interleaving of statements, locks and expiries.
SPECIFICATION MCSpec
CONSTANTS
    c1 = c1
    c2 = c2
    Claimers <- MCClaimers
    Jobs = {1, 2}
    MaxAttempts = 2
    MaxResumes = 1
INVARIANTS
    ParkingIsFree
    ResultIsTheLastRuns
    ClaimsAreExclusive
PROPERTIES
    LeaseNeverStolen
    ImplementsLifecycle
    QueuedIsServed
