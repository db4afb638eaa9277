SPECIFICATION Spec
CONSTANTS
    None = None
    s1 = s1
    m1 = m1
    r1 = r1
    main = main
    topic = topic
    Sessions = {s1}
    Places <- MCPlaces
    Models = {m1}
    OpensAt = {2}
    AsksAt = {2}
    CHUNK = 2
    MaxTime = 3
    MaxHooks = 1
    MaxFaults = 1
SYMMETRY Symmetric
INVARIANTS
    WorkCountsOnce
    CreditedOnce
CHECK_DEADLOCK FALSE
