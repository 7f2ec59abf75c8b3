SPECIFICATION FairSpec
CONSTANTS
    pg = pg
    org = org
    alice = alice
    bob = bob
    teku = teku
    pandaops = pandaops
    NoIndex = NoIndex
    Broken = Broken
    None = None
    Sources <- MCSources
    Handles <- MCHandles
    Teams <- MCTeams
    Outcomes <- MCOutcomesWide
    MinMembers <- FloorOfTwoAndOne
    MinTeams <- FloorOfOne
    ExcludeLists <- MCExcludeLists
    IsWriter = FALSE
    FileSurvives <- Always
    LoadFaults = TRUE
INVARIANTS
    TypeOK
    SyncerInv
    AllGreenMeansCurrent
    HeldBackOnlyWhileStarved
PROPERTIES
    SnapshotMovesOnlyByFetch
    ServedMovesOnlyByFetch
    HealthySourcesKeepUpdating
    KeepsLastGood
