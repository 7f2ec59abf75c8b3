SPECIFICATION Spec
CONSTANTS
    h1 = h1
    h2 = h2
    r1 = r1
    Absent = Absent
    Unfetched = Unfetched
    Failed = Failed
    Walker = Walker
    Handles = {h1, h2}
    Requests = {r1}
    MaxVersion = 1
    Reindexes = FALSE
    Faults = FALSE
INVARIANTS
    WarmMeansFetched
