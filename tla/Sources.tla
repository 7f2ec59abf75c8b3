------------------------------- MODULE Sources -------------------------------
(***************************************************************************)
(* The three sources behind the syncer's fetchOne, which judges each fetch,  *)
(* records a status, and keeps the last good result (internal/syncer,        *)
(* buildSources of cmd/coredevs/main.go).  Sources share nothing but the     *)
(* registry, so their fetches interleave freely; what Sync then does with    *)
(* the results is in module Syncer.                                          *)
(***************************************************************************)
EXTENDS ProtocolGuild, GitHubOrg

CONSTANTS
    Toggles,       \* the sets of sources the configuration may switch on
    MinMembers,    \* floor on the members of a fetch, per source; 0 disables
    MinTeams,      \* floor on its teams
    Restorable     \* what a boot may find to restore: the fallback of each source, or none

SourceNames == {"protocolguild", "githuborg", "manual"}

ASSUME SourcesAssumption ==
    /\ Toggles \subseteq SUBSET {"protocolguild", "githuborg"}
    /\ MinMembers \in [SourceNames -> Nat]
    /\ MinTeams \in [SourceNames -> Nat]
    /\ IsFiniteSet(ManualRows)
    /\ Restorable \subseteq [SourceNames -> SUBSET Row]
    /\ \A good \in Restorable, s \in SourceNames :
        \A m \in good[s] : m.org # Nothing <=> s = "githuborg"

VARIABLES
    enabled,     \* the sources that were built
    status,      \* Syncer.status
    lastGood     \* Syncer.lastGood

syncVars == <<enabled, status, lastGood>>
vars == <<pgVars, orgVars, syncVars>>

Unknown == [error |-> FALSE, succeeded |-> FALSE, members |-> 0, teams |-> 0, warnings |-> {}]

TeamsIn(ms) == {m.team : m \in ms}
Collected == {memberships[i] : i \in 1 .. Len(memberships)}

-----------------------------------------------------------------------------
(* Helpers.  One that says "faulty" is not part of the specification: it is  *)
(* a plausible bug that a property must notice.                              *)

\* faulty: the floor on teams is not checked
MembersOnly(s, n, ms) == n >= MinMembers[s]
\* fetchOne: a result under a floor is rejected; the members are counted row by row.
MeetsFloors(s, n, ms) ==
    /\ MinMembers[s] > 0 => n >= MinMembers[s]
    /\ MinTeams[s] > 0 => Cardinality(TeamsIn(ms)) >= MinTeams[s]

\* faulty: a rejected fetch loses what there was
GoodCleared(s) == {}
GoodKept(s) == lastGood[s]

-----------------------------------------------------------------------------
\* buildSources: the manual source needs no switch, but members.  restoreLastGood: a
\* boot that finds an index takes the fallbacks from it, and leaves the statuses empty.
\* What there is to find, in the file or the row, is the matter of Syncer and Cluster.
Init ==
    /\ PGInit /\ OrgInit
    /\ \E on \in Toggles :
        enabled = on \cup (IF DOMAIN ManualMembers # {} THEN {"manual"} ELSE {})
    /\ status = [s \in SourceNames |-> Unknown]
    /\ lastGood \in Restorable

\* fetchOne after Fetch has returned n rows, ms without repetition.
Accept(s, n, ms, warnings) ==
    /\ MeetsFloors(s, n, ms)
    /\ status' = [status EXCEPT ![s] = [error |-> FALSE, succeeded |-> TRUE, members |-> n,
                                        teams |-> Cardinality(TeamsIn(ms)), warnings |-> warnings]]
    /\ lastGood' = [lastGood EXCEPT ![s] = ms]
    /\ UNCHANGED enabled

\* fetchOne after an error or under a floor.  The warnings are recorded all the same.
Reject(s, warnings) ==
    /\ status' = [status EXCEPT ![s].error = TRUE, ![s].warnings = warnings]
    /\ lastGood' = [lastGood EXCEPT ![s] = GoodKept(s)]
    /\ UNCHANGED enabled

FetchGuild ==
    /\ "protocolguild" \in enabled
    /\ PGFetch
    /\ UNCHANGED <<orgVars, syncVars>>

GuildAccepted ==
    /\ PGReturn /\ pgAt = "parsed"
    /\ Accept("protocolguild", Len(memberships), Collected, missing)
    /\ UNCHANGED orgVars

GuildRejected ==
    /\ PGReturn
    /\ pgAt = "failed" \/ ~MeetsFloors("protocolguild", Len(memberships), Collected)
    /\ Reject("protocolguild", missing)
    /\ UNCHANGED orgVars

FetchOrgs ==
    /\ "githuborg" \in enabled
    /\ OrgFetch
    /\ UNCHANGED <<pgVars, syncVars>>

OrgsAccepted ==
    /\ OrgReturn
    /\ Accept("githuborg", count, rows, {})
    /\ UNCHANGED pgVars

OrgsRejected ==
    /\ OrgReturn
    /\ ~MeetsFloors("githuborg", count, rows)
    /\ Reject("githuborg", {})
    /\ UNCHANGED pgVars

PeopleMove ==
    /\ "githuborg" \in enabled
    /\ Move
    /\ UNCHANGED <<pgVars, syncVars>>

\* The manual source cannot fail, and no floor can be set for it.
FetchManual ==
    /\ "manual" \in enabled
    /\ Accept("manual", Cardinality(ManualRows), ManualRows, {})
    /\ UNCHANGED <<pgVars, orgVars>>

\* The process is killed at any moment, or stops, and the next one boots with the same
\* configuration: whatever has been counted is forgotten.
Restart ==
    /\ PGRestart /\ OrgRestart
    /\ status' = [s \in SourceNames |-> Unknown]
    /\ lastGood' \in Restorable
    /\ UNCHANGED enabled

Next ==
    \/ FetchGuild \/ GuildAccepted \/ GuildRejected
    \/ FetchOrgs \/ OrgsAccepted \/ OrgsRejected \/ PeopleMove
    \/ FetchManual
    \/ Restart

Spec == Init /\ [][Next]_vars

\* A request ends, one way or the other: the HTTP client has a timeout.
FairSpec == Spec /\ WF_vars(FetchOrgs)

-----------------------------------------------------------------------------
(* Properties *)

Status == [error : BOOLEAN, succeeded : BOOLEAN, members : Nat, teams : Nat,
           warnings : SUBSET Configured]

\* Every variable keeps its type, and no fallback holds rows of another source: only
\* the org source's rows carry an org.
TypeOK ==
    /\ PGTypeOK /\ OrgTypeOK
    /\ enabled \subseteq SourceNames
    /\ status \in [SourceNames -> Status]
    /\ lastGood \in [SourceNames -> SUBSET Row]
    /\ \A s \in SourceNames : \A m \in lastGood[s] : m.org # Nothing <=> s = "githuborg"

\* Between fetches the warnings are those of the last document that was parsed, also
\* when it was rejected, and also when later downloads failed: they may be of an
\* older document than the error beside them, but a section that is gone is never
\* passed over (Warnings, fetchOne).
WarningsTellOfLastDocument ==
    pgAt = "idle" =>
        status["protocolguild"].warnings = IF documents THEN Absent ELSE {}

\* Between fetches, a guild status without error means that the fallback is, row for
\* row, what the last document says, and a sound document at that: within the budget
\* and above the floors (parse, Fetch, fetchOne).
GreenMeansFaithful ==
    (pgAt = "idle" /\ status["protocolguild"].succeeded /\ ~status["protocolguild"].error) =>
        /\ lastGood["protocolguild"] =
              {RowOf(lines[i].targets[Len(lines[i].targets)], TeamAt(i), Nothing) : i \in Counted}
        /\ MaxMissing > 0 => Cardinality(Absent) <= MaxMissing
        /\ Cardinality(Counted) >= MinMembers["protocolguild"]
        /\ Cardinality(TeamsIn(lastGood["protocolguild"])) >= MinTeams["protocolguild"]

\* Since a source first succeeded in this process, the counts in its status are those
\* of the fallback, whatever was rejected since, and at or above the floors; rows can
\* only be fewer than the members counted, when one was read twice.  Until then the
\* counts are 0, "from the last successful fetch" (SourceStatus), though what is served
\* may be a restored fallback: no failed fetch has touched that (fetchOne,
\* restoreLastGood).
CountsTellOfLastSuccess ==
    \A s \in SourceNames :
        IF status[s].succeeded
          THEN /\ status[s].teams = Cardinality(TeamsIn(lastGood[s]))
               /\ status[s].teams >= MinTeams[s]
               /\ Cardinality(lastGood[s]) <= status[s].members
               /\ status[s].members >= MinMembers[s]
          ELSE /\ status[s].teams = 0 /\ status[s].members = 0
               /\ \E good \in Restorable : lastGood[s] = good[s]

=============================================================================
