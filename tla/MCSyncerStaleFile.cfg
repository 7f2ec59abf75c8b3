SPECIFICATION Spec
CONSTANTS
    pg = pg
    org = org
    alice = alice
    bob = bob
    teku = teku
    pandaops = pandaops
    NoIndex = NoIndex
    Broken = Broken
    None = None
    Sources <- MCSources
    Handles <- MCHandles
    Teams <- MCTeams
    Outcomes <- MCOutcomes
    MinMembers <- FloorOfTwoAndOne
    MinTeams <- FloorOfOne
    ExcludeLists <- MCExcludeLists
    IsWriter = TRUE
    FileSurvives <- Always
    LoadFaults = FALSE
PROPERTIES
    UnfetchedSourcesStayPublished
