SPECIFICATION Spec
CONSTANTS
    Ann = Ann
    ann = ann
    bob = bob
    geth = geth
    teku = teku
    guild = guild
    org = org
    manual = manual
    o1 = o1
    o2 = o2
    nm = nm
    client = client
    Nothing = Nothing
    Logins <- MCLogins
    Lower <- MCLower
    Slugs = {geth, teku}
    SlugOrder <- MCSlugOrder
    KindOf <- MCKindOf
    Sources = {guild, org, manual}
    OrgSource = org
    Orgs = {o1, o2}
    Names = {nm}
    Inputs <- MCInputs
    MaxRows = 3
INVARIANTS
    TypeOK
    IndexIsSuperset
    RoundTrip
    OrderShowsOnlyInDisplay
    UsersFoldTeams
    ViewsOfASourceAgree
    SetsStandForIndexes
