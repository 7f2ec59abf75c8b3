------------------------------ MODULE Pipeline -------------------------------
(***************************************************************************)
(* The syncer with the GitHub org source inside it: the one step in which    *)
(* Syncer lets that source answer is opened into the pages and orgs of       *)
(* GitHubOrg, interleaved with the other sources of the same sync.  And the  *)
(* orderly shutdown: SIGTERM cancels the context, so every request fails     *)
(* from then on, but Stop waits for the sync under way, and that sync still  *)
(* installs and saves what it has (run in cmd/coredevs/main.go, Stop).       *)
(***************************************************************************)
EXTENDS Syncer, Sequences

CONSTANTS
    OrgSource,                                                   \* githuborg.Source
    Sections, Orgs, TeamSections, TeamOrgs, TeamMembers, Nothing,     \* as in Registry
    OrgOrder, Nameless, PageSize, PublicAtStart, MaxMoves             \* as in GitHubOrg

VARIABLES
    public, moves, orgAt, cursor, page, logins, rows, count, skipped, stayed, left,  \* as in GitHubOrg
    cancelled    \* the context is cancelled

Org == INSTANCE GitHubOrg

sourceVars == <<public, moves, orgAt, cursor, page, logins, rows, count, skipped, stayed, left>>
pipeVars == <<vars, sourceVars, cancelled>>

\* What the theorems about this module presuppose of its constants: the registry and
\* the orgs are as in Registry and GitHubOrg, and Syncer leaves the org source free in
\* what it answers.
WellConfigured ==
    /\ OrgSource \in Sources
    /\ IsFiniteSet(Teams)
    /\ Outcomes[OrgSource] = SUBSET MembershipsOf(OrgSource)
    /\ TeamOrgs \in [Teams -> SUBSET Orgs]
    /\ OrgOrder \in Seq(Orgs)
    /\ {OrgOrder[k] : k \in 1 .. Len(OrgOrder)} = Org!ClaimedOrgs
    /\ PageSize \in Nat \ {0} /\ MaxMoves \in Nat
    /\ PublicAtStart \subseteq [Orgs -> Seq(Org!Accounts)]

\* The result of the fetch in the form Syncer keeps it.
OrgResult == {[handle |-> m.handle, team |-> m.team, source |-> OrgSource] : m \in rows}

-----------------------------------------------------------------------------
PipeInit == Init /\ Org!OrgInit /\ cancelled = FALSE

\* The org source's goroutine, within a sync.
OrgGoroutine ==
    /\ pc = "fetching" /\ OrgSource \in pending
    /\ UNCHANGED <<vars, cancelled>>

BeginOrgs == OrgGoroutine /\ Org!BeginFetch

ReadOrgs == OrgGoroutine /\ ~cancelled /\ (Org!ReadPage \/ Org!ReadLastPage)

SkipOrg == OrgGoroutine /\ Org!SkipOrg

EndOrgs == OrgGoroutine /\ Org!EndFetch

\* Fetch has returned: fetchOne takes its rows, or rejects them.
OrgsFetched ==
    /\ Org!OrgReturn
    /\ \/ FetchAccepted(OrgSource) /\ latest'[OrgSource] = OrgResult
       \/ FetchRejected(OrgSource) /\ ~Accepts(OrgSource, OrgResult)
    /\ UNCHANGED cancelled

\* The other sources, of which nothing but an error comes once the context is gone.
OthersFetched ==
    /\ \E s \in Sources \ {OrgSource} :
        FetchRejected(s) \/ (~cancelled /\ FetchAccepted(s))
    /\ UNCHANGED <<sourceVars, cancelled>>

\* What Sync does when the goroutines are done does not look at the context.
FinishSync ==
    /\ HoldBack \/ InstallIndex \/ SaveSnapshot \/ SaveFails
    /\ UNCHANGED <<sourceVars, cancelled>>

\* A cancelled context keeps no sync from starting: Start's own comes after a boot
\* whatever the context is, and when the ticker is ready too, loop's select may pick it.
\* It does keep a publish from succeeding.
BootOrTick ==
    /\ Boot \/ StartSync \/ (~cancelled /\ Publish)
    /\ UNCHANGED <<sourceVars, cancelled>>

Cancel ==
    /\ pc # "down" /\ ~cancelled
    /\ cancelled' = TRUE
    /\ UNCHANGED <<vars, sourceVars>>

\* The process ends: of itself after a cancel, when the sync is done, or killed at any
\* moment.  The goroutine goes with it.
Exit ==
    /\ Crash
    /\ cancelled' = FALSE
    /\ Org!OrgRestart

PeopleMove == Org!Move /\ UNCHANGED <<vars, cancelled>>

PipeNext ==
    \/ BeginOrgs \/ ReadOrgs \/ SkipOrg \/ EndOrgs
    \/ OrgsFetched \/ OthersFetched
    \/ FinishSync \/ BootOrTick
    \/ Cancel \/ Exit \/ PeopleMove

PipeSpec == PipeInit /\ [][PipeNext]_pipeVars

-----------------------------------------------------------------------------
(* Properties *)

\* The goroutine of the org source runs within a sync, and what it returns is one of
\* the outcomes that Syncer allows for it, so nothing Syncer is shown to do is lost by
\* opening the step.
OrgAnswersFit ==
    /\ Org!OrgTypeOK
    /\ orgAt # "idle" => pc = "fetching" /\ OrgSource \in pending
    /\ OrgResult \in Outcomes[OrgSource]

\* Public members of the orgs of the team, as GitHub has them now.
StillPublic(m) == \E o \in Orgs : o \in TeamOrgs[m.team] /\ m.handle \in Org!Listed(o)

\* README.md: the last good result is kept "so a transient upstream outage never drops
\* a team"; and Sync: "never let a partial view reach disk".  So a save keeps a
\* membership that came from an org and still is public in it.
SaveKeepsPublicMembers ==
    [][disk' \notin {disk, NoIndex} =>
        \A m \in Content(disk) :
            (m.source = OrgSource /\ m.handle \notin exclude /\ StillPublic(m)) => m \in disk']_pipeVars

=============================================================================
