SPECIFICATION Spec
CONSTANTS
    None = None
    Ranges = {week, month}
    Presses = {p1}
    MaxChanges = 2
    Repos = {r1, r2}
    Selections = {{}, {r1}}
    Grants = {{r1}, {r1, r2}}
    MaxRepos = 1
    Executors = {e1}
    MaxSaves = 1
    MaxFaults = 1
INVARIANT ShownIsSelected
PROPERTY PageCatchesUp
CHECK_DEADLOCK FALSE
