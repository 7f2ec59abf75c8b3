---------------------------- MODULE SourcesProofs ----------------------------
(* Proofs about Sources: its steps are steps of the sources it puts together, *)
(* so what is proved of them holds here, and the syncer's statuses tell what  *)
(* the sources found.                                                        *)
EXTENDS Sources, ProtocolGuildProofs, GitHubOrgProofs

\* A row costs a member that was counted.
RowsCounted ==
    /\ IsFiniteSet(rows) /\ Cardinality(rows) <= count
    /\ \A r \in rows : r.org # Nothing

-----------------------------------------------------------------------------
(* Counting *)

LEMMA ImageIsSmaller ==
    ASSUME NEW S, IsFiniteSet(S), NEW f, f = [x \in S |-> f[x]]
    PROVE  /\ IsFiniteSet({f[x] : x \in S})
           /\ Cardinality({f[x] : x \in S}) <= Cardinality(S)
<1> DEFINE T == {f[x] : x \in S}
<1>1. f \in Surjection(S, T)
  BY DEF Surjection
<1>. QED
  BY <1>1, FS_Surjection

LEMMA UnionIsSmaller ==
    ASSUME NEW S, IsFiniteSet(S), NEW T, IsFiniteSet(T)
    PROVE  /\ IsFiniteSet(S \cup T)
           /\ Cardinality(S \cup T) <= Cardinality(S) + Cardinality(T)
<1>1. IsFiniteSet(S \cap T)
  BY FS_Subset
<1>2. Cardinality(S \cap T) \in Nat /\ Cardinality(S) \in Nat /\ Cardinality(T) \in Nat
  BY <1>1, FS_CardinalityType
<1>3. /\ IsFiniteSet(S \cup T)
      /\ Cardinality(S \cup T) = Cardinality(S) + Cardinality(T) - Cardinality(S \cap T)
  BY FS_Union
<1>. QED
  BY <1>2, <1>3

\* An org's rows are no more than its members that were read times its teams.
LEMMA RowsOfOrg ==
    ASSUME NEW o \in ClaimedOrgs, NEW s \in Seq(Accounts)
    PROVE  /\ IsFiniteSet(RowsOf(o, s))
           /\ Cardinality(RowsOf(o, s)) <= Cardinality(NamedIn(s)) * Cardinality(OrgTeams[o])
           /\ \A r \in RowsOf(o, s) : r.org # Nothing
<1> DEFINE P == NamedIn(s) \X OrgTeams[o]
           f == [p \in P |-> RowOf(s[p[1]], p[2], o)]
<1>1. IsFiniteSet(NamedIn(s))
  <2>1. IsFiniteSet(1 .. Len(s)) /\ NamedIn(s) \subseteq 1 .. Len(s)
    BY FS_Interval DEF NamedIn
  <2>. QED
    BY <2>1, FS_Subset
<1>2. IsFiniteSet(OrgTeams[o])
  <2>1. OrgTeams[o] \subseteq Teams
    BY DEF OrgTeams
  <2>. QED
    BY <2>1, RegistryAssumption, FS_Subset
<1>3. IsFiniteSet(P) /\ Cardinality(P) = Cardinality(NamedIn(s)) * Cardinality(OrgTeams[o])
  BY <1>1, <1>2, FS_Product
<1>4. RowsOf(o, s) = {f[p] : p \in P}
  <2>1. ASSUME NEW r \in RowsOf(o, s) PROVE r \in {f[p] : p \in P}
    <3>1. PICK i \in NamedIn(s), t \in OrgTeams[o] : r = RowOf(s[i], t, o)
      BY <2>1 DEF RowsOf
    <3>2. <<i, t>> \in P /\ f[<<i, t>>] = r
      BY <3>1
    <3>. QED
      BY <3>2
  <2>2. ASSUME NEW p \in P PROVE f[p] \in RowsOf(o, s)
    BY <2>2 DEF RowsOf
  <2>. QED
    BY <2>1, <2>2
<1>5. \A r \in RowsOf(o, s) : r.org = o
  BY DEF RowsOf, RowOf
<1>6. o # Nothing
  BY RegistryAssumption DEF ClaimedOrgs
<1>7. f = [p \in P |-> f[p]]
  OBVIOUS
<1>. HIDE DEF P, f
<1>. QED
  BY <1>3, <1>4, <1>5, <1>6, <1>7, ImageIsSmaller

LEMMA StepRowsCounted ==
    ASSUME OrgTypeOK, RowsCounted, [OrgNext]_orgVars
    PROVE  RowsCounted'
<1>1. CASE BeginFetch \/ OrgRestart
  <2>1. rows' = {} /\ count' = 0
    BY <1>1 DEF BeginFetch, OrgRestart
  <2>. QED
    BY <2>1, FS_EmptySet DEF RowsCounted
<1>2. CASE ReadLastPage
  <2>1. logins \o Batch \in Seq(Accounts) /\ Current \in ClaimedOrgs
    BY <1>2, BatchType, CurrentType DEF OrgTypeOK, ReadLastPage
  <2>2. PICK n \in Nat : n = Cardinality(NamedIn(logins \o Batch)) * Cardinality(OrgTeams[Current])
    BY <2>1, RowsType
  <2>3. PICK more : more = RowsOf(Current, logins \o Batch)
    OBVIOUS
  <2>4. /\ IsFiniteSet(more) /\ Cardinality(more) <= n
        /\ \A r \in more : r.org # Nothing
    BY <2>1, <2>2, <2>3, RowsOfOrg
  <2>5. rows' = rows \cup more /\ count' = count + n
    BY <1>2, <2>2, <2>3 DEF ReadLastPage
  <2>6. IsFiniteSet(rows \cup more) /\ Cardinality(rows \cup more) <= count + n
    <3>1. Cardinality(rows) \in Nat /\ Cardinality(more) \in Nat /\ count \in Nat
      BY <2>4, FS_CardinalityType DEF RowsCounted, OrgTypeOK
    <3>2. /\ IsFiniteSet(rows \cup more)
          /\ Cardinality(rows \cup more) <= Cardinality(rows) + Cardinality(more)
      BY <2>4, UnionIsSmaller DEF RowsCounted
    <3>3. Cardinality(rows \cup more) \in Nat
      BY <3>2, FS_CardinalityType
    <3>. QED
      BY <2>4, <3>1, <3>2, <3>3 DEF RowsCounted
  <2>. QED
    BY <2>4, <2>5, <2>6 DEF RowsCounted
<1>3. CASE UNCHANGED <<rows, count>>
  BY <1>3 DEF RowsCounted
<1>. QED
  BY <1>1, <1>2, <1>3
  DEF OrgNext, OrgFetch, Move, ReadPage, SkipOrg, EndFetch, OrgReturn, Join, Leave, orgVars

-----------------------------------------------------------------------------
(* The statuses *)

\* Between documents the recorded missing sections are those of the last one, and the
\* status shows them.
WarningsInv ==
    /\ pgAt # "parsing" => missing = IF documents THEN Absent ELSE {}
    /\ pgAt = "idle" => status["protocolguild"].warnings = missing

\* A document whose rows are about to be returned is within the budget, and what was
\* taken from one is what it says until the next one is downloaded.
GuildInv ==
    /\ pgAt = "parsed" => (MaxMissing > 0 => Cardinality(Absent) <= MaxMissing)
    /\ GreenMeansFaithful

SourcesInv ==
    /\ ParseInv /\ PagingInv /\ RowsCounted
    /\ TypeOK /\ CountsTellOfLastSuccess
    /\ WarningsInv /\ GuildInv
    /\ \A i \in 1 .. Len(memberships) : memberships[i].org = Nothing

LEMMA TeamsAreFinite ==
    ASSUME NEW ms \in SUBSET Row
    PROVE  Cardinality(TeamsIn(ms)) \in Nat
<1>1. TeamsIn(ms) \subseteq Teams
  BY DEF TeamsIn, Row
<1>. QED
  BY <1>1, RegistryAssumption, FS_Subset, FS_CardinalityType

LEMMA ManualType ==
    /\ ManualRows \subseteq Row
    /\ \A m \in ManualRows : m.org = Nothing
    /\ Cardinality(ManualRows) \in Nat
<1>1. \A t \in DOMAIN ManualMembers : t \in Teams /\ ManualMembers[t] \subseteq Handles \cup {Nothing}
  BY RegistryAssumption DEF ManualMembers
<1>2. ManualRows \subseteq Row /\ \A m \in ManualRows : m.org = Nothing
  BY <1>1 DEF ManualRows, RowOf, Row
<1>. QED
  BY <1>2, SourcesAssumption, FS_CardinalityType

LEMMA CollectedType ==
    ASSUME PGTypeOK
    PROVE  /\ Collected \subseteq Row
           /\ Len(memberships) \in Nat
           /\ IsFiniteSet(Collected) /\ Cardinality(Collected) <= Len(memberships)
<1>1. memberships \in Seq(Row) /\ Len(memberships) \in Nat
  BY DEF PGTypeOK
<1>2. memberships = [k \in 1 .. Len(memberships) |-> memberships[k]]
  BY <1>1
<1>3. IsFiniteSet(1 .. Len(memberships)) /\ Cardinality(1 .. Len(memberships)) = Len(memberships)
  BY <1>1, FS_Interval
<1>4. /\ IsFiniteSet({memberships[k] : k \in 1 .. Len(memberships)})
      /\ Cardinality({memberships[k] : k \in 1 .. Len(memberships)}) <= Cardinality(1 .. Len(memberships))
  BY <1>2, <1>3, ImageIsSmaller
<1>5. Collected \subseteq Row
  BY <1>1 DEF Collected
<1>6. IsFiniteSet(Collected) /\ Cardinality(Collected) <= Len(memberships)
  BY <1>3, <1>4 DEF Collected
<1>. QED
  BY <1>1, <1>5, <1>6

\* The counts of one source.
CountsTell(s) ==
    IF status[s].succeeded
      THEN /\ status[s].teams = Cardinality(TeamsIn(lastGood[s]))
           /\ status[s].teams >= MinTeams[s]
           /\ Cardinality(lastGood[s]) <= status[s].members
           /\ status[s].members >= MinMembers[s]
      ELSE /\ status[s].teams = 0 /\ status[s].members = 0
           /\ \E good \in Restorable : lastGood[s] = good[s]

LEMMA EachSource == CountsTellOfLastSuccess <=> \A s \in SourceNames : CountsTell(s)
BY DEF CountsTellOfLastSuccess, CountsTell

LEMMA EachSourceNext == CountsTellOfLastSuccess' <=> \A s \in SourceNames : CountsTell(s)'
BY DEF CountsTellOfLastSuccess, CountsTell

\* What fetchOne does to the status and the fallback of the one source that it is about.
LEMMA AcceptKeeps ==
    ASSUME TypeOK, CountsTellOfLastSuccess, NEW s \in SourceNames, NEW n \in Nat,
           NEW ms \in SUBSET Row, IsFiniteSet(ms), Cardinality(ms) <= n,
           \A m \in ms : m.org # Nothing <=> s = "githuborg",
           NEW ws \in SUBSET Configured, Accept(s, n, ms, ws)
    PROVE  /\ enabled' \subseteq SourceNames
           /\ status' \in [SourceNames -> Status]
           /\ lastGood' \in [SourceNames -> SUBSET Row]
           /\ \A z \in SourceNames : \A m \in lastGood'[z] : m.org # Nothing <=> z = "githuborg"
           /\ CountsTellOfLastSuccess'
           /\ status'[s] = [error |-> FALSE, succeeded |-> TRUE, members |-> n,
                            teams |-> Cardinality(TeamsIn(ms)), warnings |-> ws]
           /\ lastGood'[s] = ms
           /\ n >= MinMembers[s]
           /\ Cardinality(TeamsIn(ms)) >= MinTeams[s]
<1> DEFINE new == [error |-> FALSE, succeeded |-> TRUE, members |-> n,
                   teams |-> Cardinality(TeamsIn(ms)), warnings |-> ws]
<1>1. Cardinality(TeamsIn(ms)) \in Nat
  BY TeamsAreFinite
<1>2. new \in Status
  BY <1>1 DEF Status
<1>3. status' = [status EXCEPT ![s] = new] /\ lastGood' = [lastGood EXCEPT ![s] = ms] /\ enabled' = enabled
  BY DEF Accept
<1>4. /\ status \in [SourceNames -> Status] /\ lastGood \in [SourceNames -> SUBSET Row]
      /\ enabled \subseteq SourceNames
      /\ \A z \in SourceNames : \A m \in lastGood[z] : m.org # Nothing <=> z = "githuborg"
  BY DEF TypeOK
<1>5. n >= MinMembers[s] /\ Cardinality(TeamsIn(ms)) >= MinTeams[s]
  <2>1. MinMembers[s] \in Nat /\ MinTeams[s] \in Nat
    BY SourcesAssumption
  <2>. QED
    BY <2>1, <1>1 DEF Accept, MeetsFloors
<1>6. /\ new.teams = Cardinality(TeamsIn(ms)) /\ new.members = n /\ new.succeeded = TRUE
  OBVIOUS
<1>. HIDE DEF new
<1>7. status'[s] = new /\ lastGood'[s] = ms
      /\ \A z \in SourceNames : z # s => status'[z] = status[z] /\ lastGood'[z] = lastGood[z]
  BY <1>3, <1>4
<1>8. CountsTellOfLastSuccess'
  <2>1. ASSUME NEW z \in SourceNames PROVE CountsTell(z)'
    <3>1. CASE z = s
      BY <3>1, <1>5, <1>6, <1>7 DEF CountsTell, TeamsIn
    <3>2. CASE z # s
      <4>1. CountsTell(z)
        BY EachSource
      <4>. QED
        BY <3>2, <4>1, <1>7 DEF CountsTell, TeamsIn
    <3>. QED
      BY <3>1, <3>2
  <2>. QED
    BY <2>1, EachSourceNext
<1>9. /\ status' \in [SourceNames -> Status] /\ lastGood' \in [SourceNames -> SUBSET Row]
  BY <1>2, <1>3, <1>4
<1>10. \A z \in SourceNames : \A m \in lastGood'[z] : m.org # Nothing <=> z = "githuborg"
  BY <1>4, <1>7
<1>. QED
  BY <1>3, <1>4, <1>5, <1>7, <1>8, <1>9, <1>10 DEF new

LEMMA RejectKeeps ==
    ASSUME TypeOK, CountsTellOfLastSuccess, NEW s \in SourceNames,
           NEW ws \in SUBSET Configured, Reject(s, ws)
    PROVE  /\ enabled' \subseteq SourceNames
           /\ status' \in [SourceNames -> Status]
           /\ lastGood' = lastGood
           /\ CountsTellOfLastSuccess'
           /\ status'[s].error = TRUE /\ status'[s].warnings = ws
           /\ \A z \in SourceNames : z # s => status'[z] = status[z]
<1>1. /\ status \in [SourceNames -> Status] /\ lastGood \in [SourceNames -> SUBSET Row]
      /\ enabled \subseteq SourceNames
  BY DEF TypeOK
<1>2. status' = [status EXCEPT ![s].error = TRUE, ![s].warnings = ws] /\ enabled' = enabled
  BY DEF Reject
<1>3. lastGood' = lastGood
  BY <1>1 DEF Reject, GoodKept
<1>4. status[s] \in Status
  BY <1>1
<1>5. /\ status'[s] = [status[s] EXCEPT !.error = TRUE, !.warnings = ws]
      /\ \A z \in SourceNames : z # s => status'[z] = status[z]
  BY <1>1, <1>2
<1>6. /\ status'[s].error = TRUE /\ status'[s].warnings = ws
      /\ status'[s].members = status[s].members /\ status'[s].teams = status[s].teams
      /\ status'[s].succeeded = status[s].succeeded
  BY <1>4, <1>5 DEF Status
<1>7. status'[s] \in Status
  BY <1>4, <1>5 DEF Status
<1>8. status' \in [SourceNames -> Status]
  BY <1>1, <1>2, <1>5, <1>7
<1>9. CountsTellOfLastSuccess'
  <2>1. \A z \in SourceNames : /\ status'[z].members = status[z].members
                               /\ status'[z].teams = status[z].teams
                               /\ status'[z].succeeded = status[z].succeeded
    BY <1>5, <1>6
  <2>2. ASSUME NEW z \in SourceNames PROVE CountsTell(z)'
    <3>1. CountsTell(z)
      BY EachSource
    <3>. QED
      BY <3>1, <2>1, <1>3 DEF CountsTell, TeamsIn
  <2>. QED
    BY <2>2, EachSourceNext
<1>. QED
  BY <1>1, <1>2, <1>3, <1>5, <1>6, <1>8, <1>9

-----------------------------------------------------------------------------
(* Steps *)

\* Every step of Sources is a step of each source, or leaves it alone.
LEMMA StepsOfParts == [Next]_vars => [PGNext]_pgVars /\ [OrgNext]_orgVars
BY DEF Next, vars, FetchGuild, GuildAccepted, GuildRejected, FetchOrgs, OrgsAccepted,
       OrgsRejected, PeopleMove, FetchManual, Restart, PGNext, OrgNext

Untouched ==
    /\ status["protocolguild"]' = status["protocolguild"]
    /\ lastGood["protocolguild"]' = lastGood["protocolguild"]

\* Nothing about the guild changes.
LEMMA GuildRests ==
    ASSUME SourcesInv, UNCHANGED pgVars, Untouched
    PROVE  WarningsInv' /\ GuildInv'
<1>1. /\ UNCHANGED <<sectionTeams, pgAt, lines, documents, missing>>
      /\ status'["protocolguild"] = status["protocolguild"]
      /\ lastGood'["protocolguild"] = lastGood["protocolguild"]
  BY DEF pgVars, parseVars, Untouched
<1>2. Absent' = Absent /\ Counted' = Counted
  BY <1>1 DEF Absent, Counted, HeadOf
<1>3. \A i : ReaderRow(i)' = ReaderRow(i)
  BY <1>1 DEF ReaderRow, TeamAt, HeadOf
<1>4. WarningsInv'
  BY <1>1, <1>2 DEF SourcesInv, WarningsInv
<1>5. {ReaderRow(i)' : i \in Counted'} = {ReaderRow(i) : i \in Counted}
  BY <1>2, <1>3
<1>6. GuildInv'
  BY <1>1, <1>2, <1>5 DEF SourcesInv, GuildInv, GreenMeansFaithful, ReaderRow, TeamsIn
<1>. QED
  BY <1>4, <1>6

\* A step of the parser.
LEMMA GuildReads ==
    ASSUME SourcesInv, PGFetch, UNCHANGED <<status, lastGood>>
    PROVE  WarningsInv' /\ GuildInv'
<1>1. CASE Download \/ (\E l \in Lines : ReadHeading(l) \/ ReadHeader(l) \/ ReadRow(l))
  <2>1. pgAt' = "parsing"
    BY <1>1 DEF Download, ReadHeading, ReadHeader, ReadRow, NextLine
  <2>. QED
    BY <2>1 DEF WarningsInv, GuildInv, GreenMeansFaithful
<1>2. CASE DownloadFails
  <2>1. pgAt = "idle" /\ pgAt' = "failed" /\ UNCHANGED <<documents, missing, lines>>
    BY <1>2 DEF DownloadFails, parseVars
  <2>2. Absent' = Absent
    BY <2>1 DEF Absent
  <2>. QED
    BY <2>1, <2>2 DEF SourcesInv, WarningsInv, GuildInv, GreenMeansFaithful
<1>3. CASE EndDocument
  <2>1. /\ pgAt' = IF OverBudget THEN "failed" ELSE "parsed"
        /\ documents' = TRUE /\ missing' = Configured \ seen /\ lines' = lines
    BY <1>3 DEF EndDocument, parseVars, WarningsOfDocument, MissingSections
  <2>2. Absent' = Absent /\ Absent = Configured \ seen
    BY <2>1 DEF Absent, SourcesInv, ParseInv, SeenAreHeaders
  <2>3. Cardinality(Absent) \in Nat /\ MaxMissing \in Nat
    <3>1. IsFiniteSet(Configured) /\ Absent \subseteq Configured /\ MaxMissing \in Nat
      BY LinesAssumption DEF Absent
    <3>. QED
      BY <3>1, FS_Subset, FS_CardinalityType
  <2>4. OverBudget <=> MaxMissing > 0 /\ Cardinality(Absent) > MaxMissing
    BY <2>2 DEF OverBudget, MissingSections
  <2>5. pgAt' = "parsed" => (MaxMissing > 0 => Cardinality(Absent) <= MaxMissing)
    BY <2>1, <2>3, <2>4
  <2>6. pgAt' # "idle" /\ missing' = Absent'
    BY <2>1, <2>2
  <2>. QED
    BY <2>1, <2>2, <2>5, <2>6 DEF WarningsInv, GuildInv, GreenMeansFaithful
<1>. QED
  BY <1>1, <1>2, <1>3 DEF PGFetch

\* The parser's Fetch has returned to fetchOne, which takes the rows.
LEMMA GuildTaken ==
    ASSUME SourcesInv, GuildAccepted
    PROVE  WarningsInv' /\ GuildInv'
<1>1. /\ pgAt = "parsed" /\ pgAt' = "idle"
      /\ UNCHANGED <<sectionTeams, documents, missing, lines, memberships>>
      /\ Accept("protocolguild", Len(memberships), Collected, missing)
  BY DEF GuildAccepted, PGReturn, parseVars
<1>2. /\ status'["protocolguild"].warnings = missing
      /\ lastGood'["protocolguild"] = Collected
      /\ Len(memberships) >= MinMembers["protocolguild"]
      /\ Cardinality(TeamsIn(Collected)) >= MinTeams["protocolguild"]
  <2>1. missing \subseteq Configured /\ TypeOK /\ CountsTellOfLastSuccess
    BY DEF SourcesInv, TypeOK, PGTypeOK
  <2>2. \A m \in Collected : m.org # Nothing <=> "protocolguild" = "githuborg"
    BY DEF SourcesInv, Collected
  <2>3. Accept("protocolguild", Len(memberships), Collected, missing) /\ "protocolguild" \in SourceNames
    BY <1>1 DEF SourceNames
  <2>4. /\ Collected \subseteq Row /\ Len(memberships) \in Nat
        /\ IsFiniteSet(Collected) /\ Cardinality(Collected) <= Len(memberships)
    BY CollectedType DEF SourcesInv, TypeOK
  <2>5. /\ status'["protocolguild"] =
              [error |-> FALSE, succeeded |-> TRUE, members |-> Len(memberships),
               teams |-> Cardinality(TeamsIn(Collected)), warnings |-> missing]
        /\ lastGood'["protocolguild"] = Collected
        /\ Len(memberships) >= MinMembers["protocolguild"]
        /\ Cardinality(TeamsIn(Collected)) >= MinTeams["protocolguild"]
    BY <2>1, <2>2, <2>3, <2>4, AcceptKeeps
  <2>. QED
    BY <2>5
<1>3. Absent' = Absent /\ Counted' = Counted
  BY <1>1 DEF Absent, Counted, HeadOf
<1>4. \A i : ReaderRow(i)' = ReaderRow(i)
  BY <1>1 DEF ReaderRow, TeamAt, HeadOf
<1>5. WarningsInv'
  BY <1>1, <1>2, <1>3 DEF SourcesInv, WarningsInv
<1>6. /\ Collected = {ReaderRow(i) : i \in Counted}
      /\ Len(memberships) = Cardinality(Counted)
      /\ MaxMissing > 0 => Cardinality(Absent) <= MaxMissing
  BY <1>1 DEF SourcesInv, ParseInv, Gathered, RowsFollowTheirHeader, Collected, GuildInv
<1>7. {ReaderRow(i)' : i \in Counted'} = {ReaderRow(i) : i \in Counted}
  BY <1>3, <1>4
<1>8. GuildInv'
  BY <1>1, <1>2, <1>3, <1>6, <1>7 DEF GuildInv, GreenMeansFaithful, ReaderRow, TeamsIn
<1>. QED
  BY <1>5, <1>8

LEMMA GuildRefused ==
    ASSUME SourcesInv, GuildRejected
    PROVE  WarningsInv' /\ GuildInv'
<1>1. /\ pgAt # "parsing" /\ pgAt' = "idle"
      /\ UNCHANGED <<documents, missing, lines>>
      /\ Reject("protocolguild", missing)
  BY DEF GuildRejected, PGReturn, parseVars
<1>2. status'["protocolguild"].error = TRUE /\ status'["protocolguild"].warnings = missing
  <2>1. missing \subseteq Configured /\ TypeOK /\ CountsTellOfLastSuccess
    BY DEF SourcesInv, TypeOK, PGTypeOK
  <2>2. "protocolguild" \in SourceNames
    BY DEF SourceNames
  <2>3. Reject("protocolguild", missing)
    BY <1>1
  <2>. QED
    BY <2>1, <2>2, <2>3, RejectKeeps
<1>3. Absent' = Absent
  BY <1>1 DEF Absent
<1>. QED
  BY <1>1, <1>2, <1>3 DEF SourcesInv, WarningsInv, GuildInv, GreenMeansFaithful

\* The rest of the type invariant, and the counts.
StatusInv ==
    /\ enabled \subseteq SourceNames
    /\ status \in [SourceNames -> Status]
    /\ lastGood \in [SourceNames -> SUBSET Row]
    /\ \A s \in SourceNames : \A m \in lastGood[s] : m.org # Nothing <=> s = "githuborg"
    /\ CountsTellOfLastSuccess

\* A fetch of the orgs or of the manual source leaves the guild's status alone.
LEMMA OthersAccepted ==
    ASSUME SourcesInv, OrgsAccepted \/ FetchManual
    PROVE  StatusInv' /\ Untouched
<1>1. status \in [SourceNames -> Status] /\ lastGood \in [SourceNames -> SUBSET Row]
  BY DEF SourcesInv, TypeOK
<1>2. /\ "githuborg" \in SourceNames /\ "manual" \in SourceNames /\ "protocolguild" \in SourceNames
      /\ "githuborg" # "manual" /\ {} \in SUBSET Configured
  BY DEF SourceNames
<1>3. CASE OrgsAccepted
  <2>1. Accept("githuborg", count, rows, {})
    BY <1>3 DEF OrgsAccepted
  <2>2. /\ count \in Nat /\ rows \in SUBSET Row /\ IsFiniteSet(rows) /\ Cardinality(rows) <= count
        /\ \A m \in rows : m.org # Nothing <=> "githuborg" = "githuborg"
    BY DEF SourcesInv, RowsCounted, PagingInv, OrgTypeOK
  <2>3. StatusInv'
    BY <1>2, <2>1, <2>2, AcceptKeeps DEF SourcesInv, StatusInv
  <2>4. Untouched
    BY <1>1, <1>2, <2>1 DEF Accept, Untouched
  <2>. QED
    BY <2>3, <2>4
<1>4. CASE FetchManual
  <2>1. Accept("manual", Cardinality(ManualRows), ManualRows, {})
    BY <1>4 DEF FetchManual
  <2>2. /\ Cardinality(ManualRows) \in Nat /\ ManualRows \in SUBSET Row /\ IsFiniteSet(ManualRows)
        /\ Cardinality(ManualRows) <= Cardinality(ManualRows)
        /\ \A m \in ManualRows : m.org # Nothing <=> "manual" = "githuborg"
    BY <1>2, ManualType, SourcesAssumption
  <2>3. StatusInv'
    BY <1>2, <2>1, <2>2, AcceptKeeps DEF SourcesInv, StatusInv
  <2>4. Untouched
    BY <1>1, <1>2, <2>1 DEF Accept, Untouched
  <2>. QED
    BY <2>3, <2>4
<1>. QED
  BY <1>3, <1>4

LEMMA OthersRejected ==
    ASSUME SourcesInv, OrgsRejected
    PROVE  StatusInv' /\ Untouched
<1>1. "githuborg" \in SourceNames /\ "protocolguild" \in SourceNames /\ {} \in SUBSET Configured
  BY DEF SourceNames
<1>2. Reject("githuborg", {}) /\ TypeOK /\ CountsTellOfLastSuccess
  BY DEF OrgsRejected, SourcesInv
<1>3. /\ enabled' \subseteq SourceNames
      /\ status' \in [SourceNames -> Status]
      /\ lastGood' = lastGood
      /\ CountsTellOfLastSuccess'
      /\ \A z \in SourceNames : z # "githuborg" => status'[z] = status[z]
  BY <1>1, <1>2, RejectKeeps
<1>. QED
  BY <1>1, <1>2, <1>3 DEF TypeOK, StatusInv, Untouched

LEMMA GuildStatus ==
    ASSUME SourcesInv, GuildAccepted \/ GuildRejected
    PROVE  StatusInv'
<1>1. "protocolguild" \in SourceNames /\ missing \in SUBSET Configured
  BY DEF SourceNames, SourcesInv, TypeOK, PGTypeOK
<1>2. TypeOK /\ CountsTellOfLastSuccess /\ PGTypeOK
  BY DEF SourcesInv, TypeOK
<1>3. CASE GuildAccepted
  <2>1. Accept("protocolguild", Len(memberships), Collected, missing)
    BY <1>3 DEF GuildAccepted
  <2>2. \A m \in Collected : m.org # Nothing <=> "protocolguild" = "githuborg"
    BY DEF SourcesInv, Collected
  <2>. QED
    BY <1>1, <1>2, <2>1, <2>2, CollectedType, AcceptKeeps DEF StatusInv
<1>4. CASE GuildRejected
  <2>1. Reject("protocolguild", missing)
    BY <1>4 DEF GuildRejected
  <2>. QED
    BY <1>1, <1>2, <2>1, RejectKeeps DEF TypeOK, StatusInv
<1>. QED
  BY <1>3, <1>4

LEMMA NoOrgInGuildRows ==
    ASSUME SourcesInv, [PGNext]_pgVars
    PROVE  \A i \in 1 .. Len(memberships') : memberships'[i].org = Nothing
<1>1. CASE Download \/ PGRestart
  <2>1. Len(memberships') = 0
    BY <1>1 DEF Download, PGRestart
  <2>. QED
    BY <2>1
<1>2. ASSUME NEW l \in Lines, ReadRow(l)
      PROVE  \A i \in 1 .. Len(memberships') : memberships'[i].org = Nothing
  <2>1. CASE memberships' = memberships
    BY <2>1 DEF SourcesInv
  <2>2. CASE memberships' = Append(memberships, RowOf(Profile(l), currentTeam, Nothing))
    <3>1. memberships \in Seq(Row) /\ RowOf(Profile(l), currentTeam, Nothing).org = Nothing
      BY DEF SourcesInv, TypeOK, PGTypeOK, RowOf
    <3>. QED
      BY <2>2, <3>1 DEF SourcesInv
  <2>. QED
    BY <1>2, <2>1, <2>2 DEF ReadRow
<1>3. CASE UNCHANGED memberships
  BY <1>3 DEF SourcesInv
<1>. QED
  BY <1>1, <1>2, <1>3
  DEF PGNext, PGFetch, DownloadFails, ReadHeading, ReadHeader, EndDocument, PGReturn, pgVars, parseVars

LEMMA InitSourcesInv == Init => SourcesInv
<1>. SUFFICES ASSUME Init PROVE SourcesInv
  OBVIOUS
<1>1. ParseInv /\ PagingInv
  BY InitParseInv, InitPagingInv DEF Init
<1>2. RowsCounted
  BY FS_EmptySet DEF Init, OrgInit, RowsCounted
<1>3. Len(memberships) = 0
  BY DEF Init, PGInit
<1>4. Unknown \in Status /\ Unknown.teams = 0 /\ Unknown.members = 0 /\ Unknown.succeeded = FALSE
  BY DEF Unknown, Status
<1>5. /\ status \in [SourceNames -> Status] /\ \A s \in SourceNames : status[s] = Unknown
      /\ lastGood \in [SourceNames -> SUBSET Row]
      /\ \A s \in SourceNames : \A m \in lastGood[s] : m.org # Nothing <=> s = "githuborg"
  BY <1>4, SourcesAssumption DEF Init
<1>6. CountsTellOfLastSuccess
  BY <1>4, <1>5 DEF Init, CountsTellOfLastSuccess
<1>7. enabled \subseteq SourceNames
  BY SourcesAssumption DEF Init, SourceNames
<1>8. WarningsInv /\ GuildInv
  BY <1>5 DEF Init, PGInit, WarningsInv, GuildInv, GreenMeansFaithful, Unknown, SourceNames
<1>. QED
  BY <1>1, <1>2, <1>3, <1>5, <1>6, <1>7, <1>8 DEF SourcesInv, TypeOK, ParseInv, PagingInv

\* A new process knows nothing, and has restored what it found.
LEMMA Restarted ==
    ASSUME SourcesInv, Restart
    PROVE  StatusInv' /\ WarningsInv' /\ GuildInv'
<1>1. Unknown \in Status /\ Unknown.teams = 0 /\ Unknown.members = 0 /\ Unknown.succeeded = FALSE
      /\ Unknown.warnings = {}
  BY DEF Unknown, Status
<1>2. /\ enabled' \subseteq SourceNames
      /\ status' \in [SourceNames -> Status] /\ \A s \in SourceNames : status'[s] = Unknown
      /\ lastGood' \in Restorable
  BY <1>1 DEF Restart, SourcesInv, TypeOK
<1>3. /\ lastGood' \in [SourceNames -> SUBSET Row]
      /\ \A s \in SourceNames : \A m \in lastGood'[s] : m.org # Nothing <=> s = "githuborg"
  BY <1>2, SourcesAssumption
<1>4. CountsTellOfLastSuccess'
  <2>1. ASSUME NEW s \in SourceNames PROVE CountsTell(s)'
    BY <1>1, <1>2 DEF CountsTell
  <2>. QED
    BY <2>1, EachSourceNext
<1>5. pgAt' = "idle" /\ documents' = FALSE /\ missing' = {} /\ "protocolguild" \in SourceNames
  BY DEF Restart, PGRestart, SourceNames
<1>. QED
  BY <1>1, <1>2, <1>3, <1>4, <1>5 DEF StatusInv, WarningsInv, GuildInv, GreenMeansFaithful

LEMMA StepSourcesInv == SourcesInv /\ [Next]_vars => SourcesInv'
<1>. SUFFICES ASSUME SourcesInv, [Next]_vars PROVE SourcesInv'
  OBVIOUS
<1>1. [PGNext]_pgVars /\ [OrgNext]_orgVars
  BY StepsOfParts
<1>2. ParseInv' /\ PagingInv' /\ RowsCounted'
  BY <1>1, StepParseInv, StepPagingInv, StepRowsCounted DEF SourcesInv, PagingInv
<1>3. \A i \in 1 .. Len(memberships') : memberships'[i].org = Nothing
  BY <1>1, NoOrgInGuildRows
<1>4. SUFFICES StatusInv' /\ WarningsInv' /\ GuildInv'
  BY <1>2, <1>3 DEF SourcesInv, StatusInv, TypeOK, ParseInv, PagingInv
<1>5. ASSUME UNCHANGED syncVars PROVE StatusInv'
  BY <1>5 DEF SourcesInv, TypeOK, CountsTellOfLastSuccess, TeamsIn, StatusInv, syncVars
<1>6. CASE FetchGuild
  BY <1>5, <1>6, GuildReads DEF FetchGuild, syncVars
<1>7. CASE GuildAccepted
  BY <1>7, GuildTaken, GuildStatus
<1>8. CASE GuildRejected
  BY <1>8, GuildRefused, GuildStatus
<1>9. CASE OrgsAccepted \/ FetchManual
  BY <1>9, OthersAccepted, GuildRests DEF OrgsAccepted, FetchManual
<1>10. CASE OrgsRejected
  BY <1>10, OthersRejected, GuildRests DEF OrgsRejected
<1>11. CASE FetchOrgs \/ PeopleMove \/ UNCHANGED vars
  <2>1. UNCHANGED pgVars /\ UNCHANGED syncVars
    BY <1>11 DEF FetchOrgs, PeopleMove, vars
  <2>2. Untouched
    BY <2>1 DEF syncVars, Untouched
  <2>. QED
    BY <2>1, <2>2, <1>5, GuildRests
<1>12. CASE Restart
  BY <1>12, Restarted
<1>. QED
  BY <1>6, <1>7, <1>8, <1>9, <1>10, <1>11, <1>12 DEF Next

LEMMA SourcesInvariant == Spec => []SourcesInv
<1>. QED
  BY InitSourcesInv, StepSourcesInv, PTL DEF Spec

-----------------------------------------------------------------------------
(* Theorems *)

\* Every variable keeps its type, and no fallback holds rows of another source.
THEOREM SourcesTyped == Spec => []TypeOK
<1>. QED
  BY SourcesInvariant, PTL DEF SourcesInv

\* Interleaved with the other sources, the parser still attributes every row to the
\* team of its own section.
THEOREM RowsOfGuild == Spec => []RowsFollowTheirHeader
<1>. QED
  BY SourcesInvariant, PTL DEF SourcesInv, ParseInv

\* The warnings of the guild's status are those of the last document parsed.
THEOREM WarningsCurrent == Spec => []WarningsTellOfLastDocument
<1>1. SourcesInv => WarningsTellOfLastDocument
  BY DEF SourcesInv, WarningsInv, WarningsTellOfLastDocument
<1>. QED
  BY <1>1, SourcesInvariant, PTL

\* A guild status without error tells of a fallback that is the last document, row for
\* row, within the budget and the floors.
THEOREM GreenFaithful == Spec => []GreenMeansFaithful
<1>. QED
  BY SourcesInvariant, PTL DEF SourcesInv, GuildInv

\* Through restarts and whatever is restored: the counts in a status are those of the
\* fallback once the source has succeeded in this process; until then they are 0, and
\* the fallback is the one restored.
THEOREM CountsRight == Spec => []CountsTellOfLastSuccess
<1>. QED
  BY SourcesInvariant, PTL DEF SourcesInv

\* In the syncer, too, reading an org loses at most one of those who stayed for each
\* one who left.
THEOREM OrgsLose == Spec => EachLeaveHidesAtMostOne
<1>1. Init => OrgInit
  BY DEF Init
<1>2. [Next]_vars => [OrgNext]_orgVars
  BY StepsOfParts
<1>3. Spec => OrgSpec
  BY <1>1, <1>2, PTL DEF Spec, OrgSpec
<1>. QED
  BY <1>3, PagingLoses
=============================================================================
