SPECIFICATION FairSpec
CONSTANTS
    alice = alice
    bob = bob
    carol = carol
    ghost = ghost
    teku = teku
    geth = geth
    sT = sT
    sG = sG
    sN = sN
    sX = sX
    o1 = o1
    o2 = o2
    Nothing = Nothing
    Teams = {teku, geth}
    Sections = {sT, sG, sN, sX}
    Orgs = {o1, o2}
    Handles = {alice, bob, carol}
    TeamSections <- MCTeamSections
    TeamOrgs <- MCTeamOrgs
    TeamMembers <- MCTeamMembers
    Lines <- MCLines
    MaxLines = 4
    MaxMissing = 1
    OrgOrder <- MCOrgOrder
    Nameless = {ghost}
    PageSize = 2
    PublicAtStart <- MCPublicAtStart
    MaxMoves = 2
    Toggles <- MCToggles
    MinMembers <- MCMinMembers
    MinTeams <- MCMinTeams
    Restorable <- MCRestorable
INVARIANTS
    TypeOK
    RowsFollowTheirHeader
    WarningsTellOfLastDocument
    GreenMeansFaithful
    CountsTellOfLastSuccess
PROPERTIES
    EachLeaveHidesAtMostOne
    FetchEnds
