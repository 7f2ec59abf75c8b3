SPECIFICATION Spec
CONSTANTS
    pg = pg
    org = org
    alice = alice
    bob = bob
    teku = teku
    pandaops = pandaops
    NoIndex = NoIndex
    Broken = Broken
    None = None
    Sources <- MCSources
    Handles <- MCHandles
    Teams <- MCTeams
    Outcomes <- MCOutcomesWide
    MinMembers <- FloorOfTwoAndOne
    MinTeams <- FloorOfOne
    ExcludeLists <- MCExcludeLists
    IsWriter = TRUE
    FileSurvives <- Never
    LoadFaults = FALSE
INVARIANTS
    SyncerInv
    UnfetchedSourcesStayServed
PROPERTIES
    UnfetchedSourcesStayPublished
    ServedMovesOnlyByFetch
