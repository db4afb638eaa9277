\* Two people and three logins; an upgrade from a release without accounts.
SPECIFICATION Spec
CONSTANTS
    None = None
    Server = Server
    Cli = Cli
    Processes = {Server, Cli}
    Versions = {4, 5, 10}
    Rekeys = {5}
    Old = {4}
    attempts = 2
    u1 = u1
    u2 = u2
    f1 = f1
    f2 = f2
    t1 = t1
    alice = alice
    bob = bob
    carl = carl
    t2 = t2
    People = {u1, u2}
    Logins = {alice, bob, carl}
    LOCAL_LOGIN = LOCAL_LOGIN
    LocalUser = LocalUser
    Unclaimed = Unclaimed
    Bootstrap = alice
    Tokens = {t1, t2}
    Flows = {f1, f2}
    AutoJoin = TRUE
    MaxRuns = 3
    MaxVisits = 4
SYMMETRY Symmetric
INVARIANTS
    ReadyMeansMigrated
    RemovalEndsSessions
    SomebodyCanSignIn
PROPERTIES
    ClaimedForGood
    RefusedMeansUninvited
CHECK_DEADLOCK FALSE
