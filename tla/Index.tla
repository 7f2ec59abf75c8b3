------------------------------- MODULE Index --------------------------------
(***************************************************************************)
(* The index (internal/index): Build folds membership rows, one by one, into *)
(* teams and members; Memberships flattens an index back into rows for a     *)
(* restart; Users folds the teams into people.                               *)
(*                                                                          *)
(* The two nested maps of an index are one function from cells, pairs of a   *)
(* team slug and a lowercased handle, to members.  The sorted, duplicate-free *)
(* lists of sources and orgs are sets.                                       *)
(***************************************************************************)
EXTENDS Naturals, SequencesExt

CONSTANTS
    Logins,      \* GitHub logins as the sources write them
    Lower,       \* the lowercased form of each login
    Slugs,       \* team slugs
    SlugOrder,   \* the same in sorted order
    Sources,     \* source names
    OrgSource,   \* the source whose rows carry an org
    Orgs,        \* GitHub orgs
    Names,       \* display names
    KindOf,      \* the kind of each team, from the registry
    Nothing,     \* the empty string; as a filter, no filter
    Inputs,      \* the rows the sources may produce
    MaxRows      \* bound on the rows of one Build

Row == [handle : Logins \cup {Nothing}, team : Slugs \cup {Nothing}, source : Sources,
        org : Orgs \cup {Nothing}, name : Names \cup {Nothing}]

ASSUME IndexAssumption ==
    /\ Inputs \subseteq Row
    /\ \A m \in Inputs : m.org # Nothing <=> m.source = OrgSource
    /\ DOMAIN Lower = Logins
    /\ Nothing \notin Logins \cup Slugs \cup Sources \cup Orgs \cup Names
    /\ IsFiniteSet(Slugs) /\ SlugOrder \in SetToSeqs(Slugs)
    /\ MaxRows \in Nat

Keys == {Lower[h] : h \in Logins}

VARIABLES
    rows,    \* the rows Build has gone through
    idx      \* the index it has built of them

vars == <<rows, idx>>

-----------------------------------------------------------------------------
(* Build.  A helper that says "faulty" is not part of the specification: it  *)
(* is a plausible bug that a property must notice.                           *)

Counts(m) == m.handle # Nothing /\ m.team # Nothing
\* faulty: logins are compared as written
CellAsWritten(m) == <<m.team, m.handle>>
Cell(m) == <<m.team, Lower[m.handle]>>

Fresh(m) == [handle |-> m.handle, name |-> Nothing, sources |-> {}, orgs |-> {}]

\* faulty: the last name or casing wins; a row replaces what others contributed
MergedLast(old, m) ==
    [handle |-> m.handle,
     name |-> IF m.name = Nothing THEN old.name ELSE m.name,
     sources |-> old.sources \cup {m.source},
     orgs |-> old.orgs \cup ({m.org} \ {Nothing})]
MergedReplacing(old, m) ==
    [handle |-> old.handle,
     name |-> IF old.name = Nothing THEN m.name ELSE old.name,
     sources |-> {m.source},
     orgs |-> old.orgs \cup ({m.org} \ {Nothing})]
\* The first casing and the first name win, sources and orgs add up.
Merged(old, m) ==
    [handle |-> old.handle,
     name |-> IF old.name = Nothing THEN m.name ELSE old.name,
     sources |-> old.sources \cup {m.source},
     orgs |-> old.orgs \cup ({m.org} \ {Nothing})]

\* One turn of the loop in Build.
Fold(index, m) ==
    IF ~Counts(m) THEN index
    ELSE [c \in DOMAIN index \cup {Cell(m)} |->
            IF c # Cell(m) THEN index[c]
            ELSE Merged(IF c \in DOMAIN index THEN index[c] ELSE Fresh(m), m)]

Empty == [c \in {} |-> Nothing]

\* Build: the loop over all rows.
Build(ms) ==
    LET upTo[n \in 0 .. Len(ms)] == IF n = 0 THEN Empty ELSE Fold(upTo[n - 1], ms[n])
    IN  upTo[Len(ms)]

\* faulty: the exclude list is compared as written
ExcludedAsWritten(m, exclude) == m.handle \in exclude
\* Sync, before it builds: the rows of excluded handles are left out.
Excluded(m, exclude) == m.handle # Nothing /\ Lower[m.handle] \in exclude

-----------------------------------------------------------------------------
(* Reading an index. *)

\* faulty: an org member is flattened once, without its orgs
OrgRowsBare(c, member, s) ==
    {[handle |-> member.handle, team |-> c[1], source |-> s, org |-> Nothing, name |-> member.name]}
\* Memberships: a row per source, and for the org source a row per org.
OrgRows(c, member, s) ==
    {[handle |-> member.handle, team |-> c[1], source |-> s, org |-> o, name |-> member.name] :
        o \in IF s = OrgSource /\ member.orgs # {} THEN member.orgs ELSE {Nothing}}

Memberships(index) ==
    UNION {UNION {OrgRows(c, index[c], s) : s \in index[c].sources} : c \in DOMAIN index}

\* Lookup: the teams a handle appears on.
Lookup(index, key) == {t \in Slugs : <<t, key>> \in DOMAIN index}

\* faulty: a name is taken from the first team only
NameOfFirst(u, member) == u.name
\* Users, inner loop: a later team fills in a name that is still missing.
NameFilled(u, member) == IF u.name = Nothing THEN member.name ELSE u.name

\* Users: one team, in slug order, folded into the people met so far.
AddTeam(index, people, slug) ==
    LET here == {k \in Keys : <<slug, k>> \in DOMAIN index}
        met(k) == IF k \in DOMAIN people THEN people[k]
                  ELSE [handle |-> index[<<slug, k>>].handle, name |-> index[<<slug, k>>].name,
                        teams |-> {}, sources |-> {}, orgs |-> {}]
    IN  [k \in DOMAIN people \cup here |->
            IF k \notin here THEN people[k]
            ELSE [handle |-> met(k).handle,
                  name |-> NameFilled(met(k), index[<<slug, k>>]),
                  teams |-> met(k).teams \cup {slug},
                  sources |-> met(k).sources \cup index[<<slug, k>>].sources,
                  orgs |-> met(k).orgs \cup index[<<slug, k>>].orgs]]

\* Users: the loop over the sorted slugs.
Users(index) ==
    LET upTo[n \in 0 .. Len(SlugOrder)] ==
            IF n = 0 THEN Empty ELSE AddTeam(index, upTo[n - 1], SlugOrder[n])
    IN  upTo[Len(SlugOrder)]

\* faulty: a filter shows those whom no other source knows
KnownOnlyFrom(sources, filter) == filter = Nothing \/ sources = {filter}
\* The ?source filter, of a team's members and of all people.
ComesFrom(sources, filter) == filter = Nothing \/ filter \in sources

\* Members, handleUsers: the cells of a team that a filter leaves.
Members(index, slug, filter) ==
    {c \in DOMAIN index : c[1] = slug /\ ComesFrom(index[c].sources, filter)}

\* countBySource, handleTeams and the metric of team members.
CountBySource(index, slug) ==
    [s \in Sources |-> Cardinality({c \in Members(index, slug, Nothing) : s \in index[c].sources})]

\* handleAllUsers: filters by source and by the kind of any of the teams.
AllUsers(people, filter, kind) ==
    {k \in DOMAIN people :
        /\ ComesFrom(people[k].sources, filter)
        /\ kind # Nothing => \E t \in people[k].teams : KindOf[t] = kind}

-----------------------------------------------------------------------------
Init == rows = << >> /\ idx = Empty

AddRow(m) ==
    /\ Len(rows) < MaxRows
    /\ rows' = Append(rows, m)
    /\ idx' = Fold(idx, m)

\* Build has returned; the next sync builds anew.
NextBuild ==
    /\ rows # << >>
    /\ rows' = << >>
    /\ idx' = Empty

Next == NextBuild \/ \E m \in Inputs : AddRow(m)

Spec == Init /\ [][Next]_vars

-----------------------------------------------------------------------------
(* Properties *)

Member == [handle : Logins, name : Names \cup {Nothing},
           sources : SUBSET Sources, orgs : SUBSET Orgs]

IsIndex(index) ==
    /\ DOMAIN index \subseteq Slugs \X Keys
    /\ index \in [DOMAIN index -> Member]

\* The index maps lowercased cells to members.
TypeOK ==
    /\ rows \in Seq(Inputs)
    /\ IsIndex(idx)

\* The positions of the rows that count, and of those about cell c.
Counted(ms) == {i \in 1 .. Len(ms) : Counts(ms[i])}
About(ms, c) == {i \in Counted(ms) : Cell(ms[i]) = c}

\* A member holds what the rows about its cell say: the casing of the first row,
\* the name of the first row that has one, all the sources and all the orgs.
MemberOf(ms, c, member) ==
    /\ \E i \in About(ms, c) : member.handle = ms[i].handle /\ \A j \in About(ms, c) : i <= j
    /\ member.sources = {ms[i].source : i \in About(ms, c)}
    /\ member.orgs = {ms[i].org : i \in About(ms, c)} \ {Nothing}
    /\ \/ member.name = Nothing /\ \A i \in About(ms, c) : ms[i].name = Nothing
       \/ \E i \in About(ms, c) :
            /\ member.name = ms[i].name /\ ms[i].name # Nothing
            /\ \A j \in About(ms, c) : ms[j].name # Nothing => i <= j

SupersetOf(ms, index) ==
    /\ DOMAIN index = {Cell(ms[i]) : i \in Counted(ms)}
    /\ \A c \in DOMAIN index : MemberOf(ms, c, index[c])

\* What Build promises, said without the loop: a member for exactly the cells some
\* row is about, holding what its own rows say and nothing of another member's.
IndexIsSuperset == SupersetOf(rows, idx)

\* An index survives being flattened into rows and built again, which is what a
\* restart does with it: no source loses or gains a member, an org or a name, in
\* whatever order the rows come (Memberships, Build, restoreLastGood).
RoundTrip == \A ms \in SetToSeqs(Memberships(idx)) : Build(ms) = idx

\* The rows at the positions that p lists.
Picked(ms, p) == [i \in 1 .. Len(p) |-> ms[p[i]]]

\* The goroutines of a sync append their rows in any order.  The order decides
\* nothing but the display casing and name: the cells, sources and orgs of the
\* index are the same (Sync, Build).
OrderShowsOnlyInDisplay ==
    \A p \in SetToSeqs(1 .. Len(rows)) :
        LET other == Build(Picked(rows, p))
        IN  /\ DOMAIN other = DOMAIN idx
            /\ \A c \in DOMAIN idx :
                /\ other[c].sources = idx[c].sources
                /\ other[c].orgs = idx[c].orgs
                /\ other[c].name = Nothing <=> idx[c].name = Nothing

\* Where the teams of a person stand in the order of the slugs.
TeamsOf(index, key) == {i \in 1 .. Len(SlugOrder) : <<SlugOrder[i], key>> \in DOMAIN index}

\* A person has those of their teams that stand at the positions ts, the sources and
\* orgs of those teams, the casing of the first, and the name of the first that has one.
PersonOf(index, key, ts, u) ==
    LET at(i) == index[<<SlugOrder[i], key>>]
    IN  /\ u.teams = {SlugOrder[i] : i \in ts}
        /\ u.sources = UNION {at(i).sources : i \in ts}
        /\ u.orgs = UNION {at(i).orgs : i \in ts}
        /\ \E i \in ts : u.handle = at(i).handle /\ \A j \in ts : i <= j
        /\ \/ u.name = Nothing /\ \A i \in ts : at(i).name = Nothing
           \/ \E i \in ts :
                /\ u.name = at(i).name /\ at(i).name # Nothing
                /\ \A j \in ts : at(j).name # Nothing => i <= j

\* Users lists everyone who is on a team, with all their teams, which are those that
\* Lookup gives (Users, Lookup).
UsersFoldTeams ==
    /\ DOMAIN Users(idx) = {c[2] : c \in DOMAIN idx}
    /\ \A k \in DOMAIN Users(idx) :
        /\ PersonOf(idx, k, TeamsOf(idx, k), Users(idx)[k])
        /\ Users(idx)[k].teams = Lookup(idx, k)

RowsFrom(s) == {m \in Memberships(idx) : m.source = s}

\* One source's part of an index is the same in every view of it: the people of
\* ?source are the members of the teams' ?source, as many as are counted for it, and
\* exactly the cells that a restart restores as that source's last good result, with
\* its orgs.  People of a kind are those of the teams of that kind (Members,
\* countBySource, handleUsers, handleAllUsers, restoreLastGood).
ViewsOfASourceAgree ==
    /\ \A s \in Sources :
        LET part == UNION {Members(idx, t, s) : t \in Slugs}
        IN  /\ AllUsers(Users(idx), s, Nothing) = {c[2] : c \in part}
            /\ \A t \in Slugs : CountBySource(idx, t)[s] = Cardinality(Members(idx, t, s))
            /\ \A ms \in SetToSeqs(RowsFrom(s)) :
                /\ DOMAIN Build(ms) = part
                /\ \A c \in part :
                    /\ Build(ms)[c].sources = {s}
                    /\ Build(ms)[c].orgs = IF s = OrgSource THEN idx[c].orgs ELSE {}
    /\ \A kind \in {KindOf[t] : t \in Slugs} \ {Nothing} :
        AllUsers(Users(idx), Nothing, kind) =
            {c[2] : c \in {d \in DOMAIN idx : KindOf[d[1]] = kind}}

\* What module Syncer keeps of an index, and of rows.
SetOf(index) ==
    UNION {{[handle |-> c[2], team |-> c[1], source |-> s] : s \in index[c].sources} :
               c \in DOMAIN index}
SetOfRows(ms) ==
    {[handle |-> Lower[ms[i].handle], team |-> ms[i].team, source |-> ms[i].source] :
        i \in Counted(ms)}

\* Syncer may keep sets of memberships in the place of indexes.  An index has the
\* memberships of its rows; it is empty if and only if its set is; one source's rows
\* restored are that source's part of the set; and leaving out the rows of excluded
\* handles before building, in whatever order they came, leaves those handles out of
\* the set (Sync, Build, restoreLastGood).
SetsStandForIndexes ==
    /\ SetOf(idx) = SetOfRows(rows)
    /\ SetOf(idx) = {} <=> idx = Empty
    /\ \A s \in Sources : \A ms \in SetToSeqs(RowsFrom(s)) :
        SetOf(Build(ms)) = {m \in SetOf(idx) : m.source = s}
    /\ \A exclude \in SUBSET Keys :
        \A p \in SetToSeqs({i \in 1 .. Len(rows) : ~Excluded(rows[i], exclude)}) :
            SetOf(Build(Picked(rows, p))) = {m \in SetOf(idx) : m.handle \notin exclude}

=============================================================================
