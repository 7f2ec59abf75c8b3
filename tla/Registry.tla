------------------------------ MODULE Registry ------------------------------
(***************************************************************************)
(* The team registry (internal/config, read once at the start) and its       *)
(* inversions: which team a section of the Protocol Guild document belongs   *)
(* to, which teams a GitHub org contributes to, who is a member by hand.     *)
(*                                                                          *)
(* The fields of a team that only describe it (display name, kind, layer)    *)
(* are left out, and so is the order of its lists.                           *)
(***************************************************************************)
EXTENDS Naturals, FiniteSets

CONSTANTS
    Teams,          \* team slugs
    Sections,       \* section headers, of the document or the registry
    Orgs,           \* GitHub orgs
    Handles,        \* GitHub logins
    TeamSections,   \* Team.ProtocolGuildSections, by slug
    TeamOrgs,       \* Team.GitHubOrgs, by slug
    TeamMembers,    \* Team.Members, by slug
    Nothing         \* the empty string

ASSUME RegistryAssumption ==
    /\ IsFiniteSet(Teams)
    /\ TeamSections \in [Teams -> SUBSET Sections]
    /\ TeamOrgs \in [Teams -> SUBSET Orgs]
    /\ TeamMembers \in [Teams -> SUBSET (Handles \cup {Nothing})]
    /\ Nothing \notin Teams \cup Sections \cup Orgs \cup Handles

\* A membership; which source it is from is known by where it is kept.
Row == [handle : Handles, team : Teams, org : Orgs \cup {Nothing}]
RowOf(h, t, o) == [handle |-> h, team |-> t, org |-> o]

\* SectionTeams walks the teams in the order of a map iteration, so a section that
\* two teams claim goes to either of them, for as long as the process runs.
ClaimantsOf(section) == {t \in Teams : section \in TeamSections[t]}
Configured == {s \in Sections : ClaimantsOf(s) # {}}
SectionTeams == {f \in [Configured -> Teams] : \A s \in Configured : f[s] \in ClaimantsOf(s)}

ClaimedOrgs == UNION {TeamOrgs[t] : t \in Teams}
OrgTeams == [o \in ClaimedOrgs |-> {t \in Teams : o \in TeamOrgs[t]}]

ManualMembers == [t \in {u \in Teams : TeamMembers[u] # {}} |-> TeamMembers[t]]

\* The manual source: a row for each handle that is not empty.
ManualRows ==
    UNION {{RowOf(h, t, Nothing) : h \in ManualMembers[t] \ {Nothing}} : t \in DOMAIN ManualMembers}

=============================================================================
