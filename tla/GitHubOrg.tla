------------------------------ MODULE GitHubOrg ------------------------------
(***************************************************************************)
(* The GitHub org source (internal/source/githuborg): it goes through the    *)
(* orgs of the registry one by one and reads the public members of each page *)
(* by page, until a page is not full.  Meanwhile people join and leave, which *)
(* shifts those listed after them.  An org with a failing page is skipped.   *)
(* An org's members are listed in an order of GitHub's own, so who joins may *)
(* come anywhere.                                                            *)
(***************************************************************************)
EXTENDS Registry, SequencesExt

CONSTANTS
    OrgOrder,       \* the configured orgs, sorted
    Nameless,       \* accounts listed without a login
    PageSize,       \* pageSize
    PublicAtStart,  \* what the member lists may be at first
    MaxMoves        \* bound on people who join or leave

Accounts == Handles \cup Nameless

ASSUME OrgAssumption ==
    /\ OrgOrder \in Seq(Orgs)
    /\ {OrgOrder[k] : k \in 1 .. Len(OrgOrder)} = ClaimedOrgs
    /\ Nameless \cap Handles = {}
    /\ PageSize \in Nat \ {0}
    /\ MaxMoves \in Nat
    /\ PublicAtStart \subseteq [Orgs -> Seq(Accounts)]

VARIABLES
    public,    \* GitHub: the public members of each org, as it lists them
    moves,     \* people who have joined or left
    orgAt,     \* where Fetch stands: idle, fetching or fetched
    cursor,    \* Fetch: position in OrgOrder of the org it is at
    page,      \* PublicMembers: the page to read next
    logins,    \* PublicMembers: those read so far, with the nameless
    rows,      \* Fetch: the memberships collected
    count,     \* Fetch: their number; who is read twice counts twice
    skipped,   \* the orgs skipped by this fetch
    stayed,    \* who has been public in this org since its first page was asked for
    left       \* how many have left it from the pages already read

readVars == <<cursor, page, logins, stayed, left>>
orgVars == <<public, moves, orgAt, rows, count, skipped, readVars>>

Current == OrgOrder[cursor]
Reading == orgAt = "fetching" /\ cursor <= Len(OrgOrder)
Listed(o) == {public[o][i] : i \in 1 .. Len(public[o])}

-----------------------------------------------------------------------------
(* Helpers.  One that says "faulty" is not part of the specification: it is  *)
(* a plausible bug that a property must notice.                              *)

ReadUpTo == (page - 1) * PageSize

\* What GitHub answers for a page.
Batch == [i \in 1 .. (IF Len(public[Current]) > page * PageSize THEN PageSize
                      ELSE IF Len(public[Current]) > ReadUpTo THEN Len(public[Current]) - ReadUpTo
                      ELSE 0) |-> public[Current][ReadUpTo + i]]

\* faulty: only those with a login count as a page's entries
FullOfNamed == Cardinality({i \in DOMAIN Batch : Batch[i] \notin Nameless}) >= PageSize
FullPage == Len(Batch) >= PageSize

\* faulty: an org that failed is asked again at once
AskedAgain == cursor
AfterFailure == cursor + 1

\* faulty: accounts without a login are kept
EveryoneIn(s) == 1 .. Len(s)
NamedIn(s) == {i \in 1 .. Len(s) : s[i] \notin Nameless}
RowsOf(o, s) == {RowOf(s[i], t, o) : i \in NamedIn(s), t \in OrgTeams[o]}

-----------------------------------------------------------------------------
OrgInit ==
    /\ public \in PublicAtStart
    /\ moves = 0
    /\ orgAt = "idle"
    /\ cursor = 1 /\ page = 1 /\ logins = << >>
    /\ rows = {} /\ count = 0 /\ skipped = {}
    /\ stayed = {} /\ left = 0

\* The first page of the k-th org is asked for next.
GoTo(k) ==
    /\ cursor' = k
    /\ page' = 1
    /\ logins' = << >>
    /\ stayed' = IF k <= Len(OrgOrder) THEN Listed(OrgOrder[k]) ELSE {}
    /\ left' = 0

BeginFetch ==
    /\ orgAt = "idle"
    /\ orgAt' = "fetching"
    /\ rows' = {} /\ count' = 0 /\ skipped' = {}
    /\ GoTo(1)
    /\ UNCHANGED <<public, moves>>

ReadPage ==
    /\ Reading
    /\ FullPage
    /\ logins' = logins \o Batch
    /\ page' = page + 1
    /\ UNCHANGED <<public, moves, orgAt, cursor, rows, count, skipped, stayed, left>>

\* A page that is not full is the last one of its org.
ReadLastPage ==
    /\ Reading
    /\ ~FullPage
    /\ rows' = rows \cup RowsOf(Current, logins \o Batch)
    /\ count' = count + Cardinality(NamedIn(logins \o Batch)) * Cardinality(OrgTeams[Current])
    /\ GoTo(cursor + 1)
    /\ UNCHANGED <<public, moves, orgAt, skipped>>

\* Any page may fail: not found, rate limited, cancelled, not to be decoded.
SkipOrg ==
    /\ Reading
    /\ skipped' = skipped \cup {Current}
    /\ GoTo(AfterFailure)
    /\ UNCHANGED <<public, moves, orgAt, rows, count>>

\* Fetch returns what it has, and never an error.
EndFetch ==
    /\ orgAt = "fetching" /\ cursor > Len(OrgOrder)
    /\ orgAt' = "fetched"
    /\ UNCHANGED <<public, moves, rows, count, skipped, readVars>>

OrgReturn ==
    /\ orgAt = "fetched"
    /\ orgAt' = "idle"
    /\ UNCHANGED <<public, moves, rows, count, skipped, readVars>>

\* The process ends, and the goroutine with it; another process has a new source.
OrgRestart ==
    /\ orgAt' = "idle"
    /\ cursor' = 1 /\ page' = 1 /\ logins' = << >>
    /\ rows' = {} /\ count' = 0 /\ skipped' = {}
    /\ stayed' = {} /\ left' = 0
    /\ UNCHANGED <<public, moves>>

Join(o, a, i) ==
    /\ moves < MaxMoves
    /\ a \notin Listed(o)
    /\ public' = [public EXCEPT ![o] = InsertAt(@, i, a)]
    /\ moves' = moves + 1
    /\ UNCHANGED <<orgAt, rows, count, skipped, readVars>>

Leave(o, i) ==
    /\ moves < MaxMoves
    /\ public' = [public EXCEPT ![o] = RemoveAt(@, i)]
    /\ moves' = moves + 1
    /\ IF Reading /\ o = Current
         THEN /\ stayed' = stayed \ {public[o][i]}
              /\ left' = IF i <= ReadUpTo THEN left + 1 ELSE left
         ELSE UNCHANGED <<stayed, left>>
    /\ UNCHANGED <<orgAt, rows, count, skipped, cursor, page, logins>>

Move ==
    \E o \in Orgs :
        \/ \E a \in Accounts, i \in 1 .. Len(public[o]) + 1 : Join(o, a, i)
        \/ \E i \in 1 .. Len(public[o]) : Leave(o, i)

OrgFetch == BeginFetch \/ ReadPage \/ ReadLastPage \/ SkipOrg \/ EndFetch

OrgNext == OrgFetch \/ OrgReturn \/ OrgRestart \/ Move

OrgSpec == OrgInit /\ [][OrgNext]_orgVars

-----------------------------------------------------------------------------
(* Properties *)

OrgTypeOK ==
    /\ public \in [Orgs -> Seq(Accounts)]
    /\ moves \in 0 .. MaxMoves
    /\ orgAt \in {"idle", "fetching", "fetched"}
    /\ cursor \in 1 .. Len(OrgOrder) + 1
    /\ page \in Nat \ {0}
    /\ logins \in Seq(Accounts)
    /\ rows \subseteq Row
    /\ count \in Nat
    /\ skipped \subseteq Orgs
    /\ stayed \subseteq Accounts
    /\ left \in Nat

\* Who has been public all the while an org was read, and gets no row for one of the
\* teams of that org.
Hidden(o, collected) ==
    {a \in stayed \ Nameless :
        \E t \in Teams : o \in TeamOrgs[t] /\ RowOf(a, t, o) \notin collected}

\* Reading page by page while people come and go, an org that is not skipped loses at
\* most one of those who stayed for each one who left from a page already read; if
\* nobody left, it loses nobody (PublicMembers, Fetch).
EachLeaveHidesAtMostOne ==
    [][(Reading /\ cursor' = cursor + 1 /\ Current \notin skipped') =>
        Cardinality(Hidden(Current, rows')) <= left]_orgVars

\* A fetch comes to its end, for people do not join forever.
FetchEnds == orgAt = "fetching" ~> orgAt # "fetching"

=============================================================================
