SPECIFICATION PipeSpec
CONSTANTS
    pg = pg
    org = org
    alice = alice
    bob = bob
    teku = teku
    geth = geth
    o1 = o1
    o2 = o2
    NoIndex = NoIndex
    Broken = Broken
    None = None
    Nothing = Nothing
    Sources <- MCSources
    Handles <- MCHandles
    Teams <- MCTeams
    Outcomes <- MCOutcomes
    MinMembers <- MCFloors
    MinTeams <- MCFloors
    ExcludeLists <- MCExcludeLists
    IsWriter = FALSE
    FileSurvives <- Always
    LoadFaults = FALSE
    OrgSource = org
    Sections = {}
    Orgs = {o1, o2}
    TeamSections <- NoLists
    TeamOrgs <- MCTeamOrgs
    TeamMembers <- NoLists
    OrgOrder <- MCOrgOrder
    Nameless = {}
    PageSize = 2
    PublicAtStart <- MCPublicAtStart
    MaxMoves = 0
PROPERTIES
    SaveKeepsPublicMembers
