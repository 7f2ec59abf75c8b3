--------------------------- MODULE PipelineProofs ---------------------------
(* Proofs about Pipeline: with the org source opened up, the syncer keeps all *)
(* it is proved to keep, and what that source returns is what Syncer expects. *)
EXTENDS Pipeline, SyncerProofs, FiniteSetTheorems

-----------------------------------------------------------------------------
(* The syncer's safety carries over. *)

LEMMA PipeStep == WellConfigured /\ [PipeNext]_pipeVars => [Next]_vars
<1>. SUFFICES ASSUME WellConfigured, [PipeNext]_pipeVars PROVE Next \/ UNCHANGED vars
  OBVIOUS
<1>1. CASE BeginOrgs \/ ReadOrgs \/ SkipOrg \/ EndOrgs \/ Cancel \/ PeopleMove
  BY <1>1 DEF BeginOrgs, ReadOrgs, SkipOrg, EndOrgs, Cancel, PeopleMove, OrgGoroutine
<1>2. CASE OrgsFetched \/ OthersFetched
  <2>1. \E s \in Sources : FetchAccepted(s) \/ FetchRejected(s)
    BY <1>2 DEF OrgsFetched, OthersFetched, WellConfigured
  <2>. QED
    BY <2>1 DEF Next
<1>3. CASE FinishSync \/ BootOrTick \/ Exit
  BY <1>3 DEF FinishSync, BootOrTick, Exit, Next
<1>4. CASE UNCHANGED pipeVars
  BY <1>4 DEF pipeVars
<1>. QED
  BY <1>1, <1>2, <1>3, <1>4 DEF PipeNext

\* Page by page or in one step, with an orderly shutdown at any moment: the composition
\* is a behaviour of the syncer.
THEOREM PipelineIsSyncer == WellConfigured /\ PipeSpec => Spec
<1>. SUFFICES ASSUME WellConfigured PROVE PipeSpec => Spec
  OBVIOUS
<1>1. PipeInit => Init
  BY DEF PipeInit
<1>2. [PipeNext]_pipeVars => [Next]_vars
  BY PipeStep
<1>. QED
  BY <1>1, <1>2, PTL DEF PipeSpec, Spec

\* Whatever a shutdown makes of a fetch under way, a save moves each source's part of
\* the file to what that source has returned and nothing else.
THEOREM PipelineSaves == ~IsWriter /\ WellConfigured /\ PipeSpec => SnapshotMovesOnlyByFetch
BY PipelineIsSyncer, SnapshotSafe, PTL

\* Nor can a shutdown or a half-read org part what is served from the fallbacks:
\* between syncs it is all of them, unless that is nothing or a source in error has
\* none; and with all sources green it is what they last returned, or that is nothing.
THEOREM PipelineServes ==
    WellConfigured /\ PipeSpec => [](HeldBackOnlyWhileStarved /\ AllGreenMeansCurrent)
BY PipelineIsSyncer, HeldBackOnlyStarved, GreenCurrent, PTL

\* And the composition implements the abstract registers, by the same mapping.
THEOREM PipelineImplements == ~IsWriter /\ WellConfigured /\ PipeSpec => KeepsLastGood
BY PipelineIsSyncer, Implements, PTL

-----------------------------------------------------------------------------
(* The types of the org source, as in GitHubOrgProofs but from WellConfigured. *)

LEMMA OrgBatch ==
    ASSUME WellConfigured, Org!OrgTypeOK, Org!Reading
    PROVE  /\ Org!Current \in Orgs /\ Org!Current \in Org!ClaimedOrgs
           /\ Org!Batch \in Seq(Org!Accounts)
<1>1. Org!Current \in Org!ClaimedOrgs
  BY DEF WellConfigured, Org!OrgTypeOK, Org!Reading, Org!Current
<1>2. Org!ClaimedOrgs \subseteq Orgs
  BY DEF WellConfigured, Org!ClaimedOrgs
<1>3. PICK s \in Seq(Org!Accounts) : s = public[Org!Current]
  BY <1>1, <1>2 DEF Org!OrgTypeOK
<1>4. PICK u \in Nat : u = Org!ReadUpTo /\ page * PageSize = u + PageSize
  BY DEF WellConfigured, Org!OrgTypeOK, Org!ReadUpTo
<1> DEFINE n == IF Len(s) > u + PageSize THEN PageSize
                ELSE IF Len(s) > u THEN Len(s) - u
                ELSE 0
<1>5. n \in Nat /\ \A j \in 1 .. n : u + j \in 1 .. Len(s)
  <2>1. PageSize \in Nat /\ Len(s) \in Nat
    BY DEF WellConfigured
  <2>. QED
    BY <2>1
<1>6. Org!Batch = [i \in 1 .. n |-> s[u + i]]
  BY <1>3, <1>4 DEF Org!Batch
<1>. HIDE DEF n
<1>7. Org!Batch \in Seq(Org!Accounts)
  BY <1>5, <1>6
<1>. QED
  BY <1>1, <1>2, <1>7

\* The instance brings its own copy of the operator.
LEMMA SameCardinality == \A S : Org!Cardinality(S) = Cardinality(S)
BY DEF Org!Cardinality, Cardinality

LEMMA OrgRows ==
    ASSUME WellConfigured, NEW o \in Org!ClaimedOrgs, NEW s \in Seq(Org!Accounts)
    PROVE  /\ Org!RowsOf(o, s) \subseteq Org!Row
           /\ Cardinality(Org!NamedIn(s)) * Cardinality(Org!OrgTeams[o]) \in Nat
<1>1. o \in Orgs /\ Org!OrgTeams[o] \subseteq Teams
  BY DEF WellConfigured, Org!ClaimedOrgs, Org!OrgTeams
<1>2. ASSUME NEW i \in Org!NamedIn(s) PROVE s[i] \in Handles
  BY <1>2 DEF Org!NamedIn, Org!Accounts
<1>3. Org!RowsOf(o, s) \subseteq Org!Row
  BY <1>1, <1>2 DEF Org!RowsOf, Org!RowOf, Org!Row
<1>4. Cardinality(Org!OrgTeams[o]) \in Nat
  BY <1>1, FS_Subset, FS_CardinalityType DEF WellConfigured
<1>5. Cardinality(Org!NamedIn(s)) \in Nat
  <2>1. IsFiniteSet(1 .. Len(s)) /\ Org!NamedIn(s) \subseteq 1 .. Len(s)
    BY FS_Interval DEF Org!NamedIn
  <2>. QED
    BY <2>1, FS_Subset, FS_CardinalityType
<1>. QED
  BY <1>3, <1>4, <1>5

LEMMA OrgMoves ==
    ASSUME NEW S, NEW s \in Seq(S)
    PROVE  /\ \A i \in 1 .. Len(s) + 1, a \in S : Org!InsertAt(s, i, a) \in Seq(S)
           /\ \A i \in 1 .. Len(s) : Org!RemoveAt(s, i) \in Seq(S)
<1>1. ASSUME NEW i \in 1 .. Len(s) + 1, NEW a \in S PROVE Org!InsertAt(s, i, a) \in Seq(S)
  <2>1. SubSeq(s, 1, i - 1) \in Seq(S) /\ SubSeq(s, i, Len(s)) \in Seq(S) /\ <<a>> \in Seq(S)
    OBVIOUS
  <2>2. SubSeq(s, 1, i - 1) \o <<a>> \in Seq(S)
    BY <2>1
  <2>. QED
    BY <2>1, <2>2 DEF Org!InsertAt
<1>2. ASSUME NEW i \in 1 .. Len(s) PROVE Org!RemoveAt(s, i) \in Seq(S)
  <2>1. SubSeq(s, 1, i - 1) \in Seq(S) /\ SubSeq(s, i + 1, Len(s)) \in Seq(S)
    OBVIOUS
  <2>. QED
    BY <2>1 DEF Org!RemoveAt
<1>. QED
  BY <1>1, <1>2

LEMMA OrgGoTo ==
    ASSUME WellConfigured, Org!OrgTypeOK, NEW k \in 1 .. Len(OrgOrder) + 1, Org!GoTo(k)
    PROVE  /\ cursor' \in 1 .. Len(OrgOrder) + 1
           /\ page' \in Nat \ {0}
           /\ logins' \in Seq(Org!Accounts)
           /\ stayed' \subseteq Org!Accounts
           /\ left' \in Nat
<1>1. \A o \in Orgs : Org!Listed(o) \subseteq Org!Accounts
  BY DEF Org!OrgTypeOK, Org!Listed
<1>2. \A j \in 1 .. Len(OrgOrder) : OrgOrder[j] \in Orgs
  BY DEF WellConfigured
<1>3. stayed' \subseteq Org!Accounts
  BY <1>1, <1>2 DEF Org!GoTo, WellConfigured
<1>. QED
  BY <1>3 DEF Org!GoTo

LEMMA OrgStep ==
    ASSUME WellConfigured, Org!OrgTypeOK, [Org!OrgNext]_(sourceVars)
    PROVE  Org!OrgTypeOK'
<1>0. Len(OrgOrder) \in Nat
  BY DEF WellConfigured
<1>1. CASE Org!BeginFetch
  <2>1. 1 \in 1 .. Len(OrgOrder) + 1 /\ Org!GoTo(1)
    BY <1>0, <1>1 DEF Org!BeginFetch
  <2>. QED
    BY <1>1, <2>1, OrgGoTo DEF Org!OrgTypeOK, Org!BeginFetch
<1>2. CASE Org!ReadPage
  <2>1. logins' \in Seq(Org!Accounts)
    BY <1>2, OrgBatch DEF Org!OrgTypeOK, Org!ReadPage
  <2>. QED
    BY <1>2, <2>1 DEF Org!OrgTypeOK, Org!ReadPage
<1>3. CASE Org!ReadLastPage
  <2>1. logins \o Org!Batch \in Seq(Org!Accounts) /\ Org!Current \in Org!ClaimedOrgs
    BY <1>3, OrgBatch DEF Org!OrgTypeOK, Org!ReadLastPage
  <2>2. PICK n \in Nat :
          n = Cardinality(Org!NamedIn(logins \o Org!Batch)) * Cardinality(Org!OrgTeams[Org!Current])
    BY <2>1, OrgRows
  <2>3. Org!RowsOf(Org!Current, logins \o Org!Batch) \subseteq Org!Row
    BY <2>1, OrgRows
  <2>4. /\ rows' = rows \cup Org!RowsOf(Org!Current, logins \o Org!Batch)
        /\ count' = count + n
    BY <1>3, <2>2, SameCardinality DEF Org!ReadLastPage
  <2>5. rows' \subseteq Org!Row /\ count' \in Nat
    BY <2>3, <2>4 DEF Org!OrgTypeOK
  <2>6. cursor + 1 \in 1 .. Len(OrgOrder) + 1 /\ Org!GoTo(cursor + 1)
    BY <1>0, <1>3 DEF Org!OrgTypeOK, Org!ReadLastPage, Org!Reading
  <2>. QED
    BY <1>3, <2>5, <2>6, OrgGoTo DEF Org!OrgTypeOK, Org!ReadLastPage
<1>4. CASE Org!SkipOrg
  <2>1. cursor + 1 \in 1 .. Len(OrgOrder) + 1 /\ Org!GoTo(cursor + 1)
    BY <1>0, <1>4 DEF Org!OrgTypeOK, Org!SkipOrg, Org!Reading, Org!AfterFailure
  <2>. QED
    BY <1>4, <2>1, OrgGoTo, OrgBatch DEF Org!OrgTypeOK, Org!SkipOrg
<1>5. CASE Org!EndFetch \/ Org!OrgReturn \/ UNCHANGED sourceVars
  <2>1. /\ UNCHANGED <<public, moves, rows, count, skipped, cursor, page, logins, stayed, left>>
        /\ orgAt' \in {orgAt, "fetched", "idle"}
    BY <1>5 DEF Org!EndFetch, Org!OrgReturn, sourceVars, Org!readVars
  <2>. QED
    BY <2>1 DEF Org!OrgTypeOK
<1>6. ASSUME NEW o \in Orgs, NEW a \in Org!Accounts, NEW i \in 1 .. Len(public[o]) + 1,
             Org!Join(o, a, i)
      PROVE  Org!OrgTypeOK'
  <2>1. public[o] \in Seq(Org!Accounts) /\ Org!InsertAt(public[o], i, a) \in Seq(Org!Accounts)
    BY OrgMoves DEF Org!OrgTypeOK
  <2>2. public' \in [Orgs -> Seq(Org!Accounts)] /\ moves' \in 0 .. MaxMoves
    BY <1>6, <2>1 DEF WellConfigured, Org!OrgTypeOK, Org!Join
  <2>. QED
    BY <1>6, <2>2 DEF Org!OrgTypeOK, Org!Join, Org!readVars
<1>7. ASSUME NEW o \in Orgs, NEW i \in 1 .. Len(public[o]), Org!Leave(o, i)
      PROVE  Org!OrgTypeOK'
  <2>1. public[o] \in Seq(Org!Accounts) /\ Org!RemoveAt(public[o], i) \in Seq(Org!Accounts)
    BY OrgMoves DEF Org!OrgTypeOK
  <2>2. public' \in [Orgs -> Seq(Org!Accounts)] /\ moves' \in 0 .. MaxMoves
    BY <1>7, <2>1 DEF WellConfigured, Org!OrgTypeOK, Org!Leave
  <2>3. stayed' \subseteq stayed /\ left' \in {left, left + 1}
    BY <1>7 DEF Org!Leave
  <2>. QED
    BY <1>7, <2>2, <2>3 DEF Org!OrgTypeOK, Org!Leave
<1>8. CASE Org!OrgRestart
  <2>1. 1 \in 1 .. Len(OrgOrder) + 1 /\ << >> \in Seq(Org!Accounts)
    BY <1>0
  <2>. QED
    BY <1>8, <2>1 DEF Org!OrgTypeOK, Org!OrgRestart
<1>. QED
  BY <1>1, <1>2, <1>3, <1>4, <1>5, <1>6, <1>7, <1>8 DEF Org!OrgNext, Org!OrgFetch, Org!Move

-----------------------------------------------------------------------------
(* What the org source returns. *)

\* The goroutine of the org source exists within a sync only.
WithinSync == orgAt # "idle" => pc = "fetching" /\ OrgSource \in pending

LEMMA PipeInitTypes == WellConfigured /\ PipeInit => Org!OrgTypeOK /\ WithinSync
<1>. SUFFICES ASSUME WellConfigured, PipeInit PROVE Org!OrgTypeOK /\ WithinSync
  OBVIOUS
<1>1. 1 \in 1 .. Len(OrgOrder) + 1 /\ << >> \in Seq(Org!Accounts) /\ 0 \in 0 .. MaxMoves
  BY DEF WellConfigured
<1>. QED
  BY <1>1 DEF PipeInit, Org!OrgInit, Org!OrgTypeOK, WithinSync, WellConfigured

LEMMA PipeStepTypes ==
    ASSUME WellConfigured, Org!OrgTypeOK, WithinSync, [PipeNext]_pipeVars
    PROVE  Org!OrgTypeOK' /\ WithinSync'
<1>1. CASE BeginOrgs \/ ReadOrgs \/ SkipOrg \/ EndOrgs
  <2>1. Org!OrgFetch /\ OrgGoroutine
    BY <1>1 DEF BeginOrgs, ReadOrgs, SkipOrg, EndOrgs, Org!OrgFetch
  <2>2. Org!OrgTypeOK'
    BY <2>1, OrgStep DEF Org!OrgNext
  <2>. QED
    BY <2>1, <2>2 DEF OrgGoroutine, WithinSync, vars, progVars
<1>2. CASE OrgsFetched
  <2>1. Org!OrgTypeOK' /\ orgAt' = "idle"
    BY <1>2, OrgStep DEF OrgsFetched, Org!OrgNext, Org!OrgReturn
  <2>. QED
    BY <2>1 DEF WithinSync
<1>3. CASE PeopleMove
  <2>1. Org!OrgTypeOK' /\ UNCHANGED <<orgAt, pc, pending>>
    BY <1>3, OrgStep DEF PeopleMove, Org!OrgNext, Org!Move, Org!Join, Org!Leave, vars, progVars
  <2>. QED
    BY <2>1 DEF WithinSync
<1>4. CASE Exit
  <2>1. Org!OrgTypeOK' /\ orgAt' = "idle"
    BY <1>4, OrgStep DEF Exit, Org!OrgNext, Org!OrgRestart
  <2>. QED
    BY <2>1 DEF WithinSync
<1>5. CASE OthersFetched \/ FinishSync \/ BootOrTick \/ Cancel \/ UNCHANGED pipeVars
  <2>1. UNCHANGED sourceVars
    BY <1>5 DEF OthersFetched, FinishSync, BootOrTick, Cancel, pipeVars
  <2>2. Org!OrgTypeOK'
    BY <2>1, OrgStep
  <2>3. orgAt' = orgAt
    BY <2>1 DEF sourceVars
  <2>4. CASE OthersFetched
    BY <2>2, <2>3, <2>4 DEF OthersFetched, WithinSync, FetchAccepted, FetchRejected
  <2>5. CASE FinishSync \/ BootOrTick
    BY <2>2, <2>3, <2>5 DEF FinishSync, BootOrTick, WithinSync, HoldBack, InstallIndex,
          SaveSnapshot, SaveFails, Boot, StartSync, Publish, progVars
  <2>6. CASE Cancel \/ UNCHANGED pipeVars
    BY <2>2, <2>3, <2>6 DEF Cancel, WithinSync, vars, progVars, pipeVars
  <2>. QED
    BY <1>5, <2>2, <2>4, <2>5, <2>6
<1>. QED
  BY <1>1, <1>2, <1>3, <1>4, <1>5 DEF PipeNext

\* However people move and whichever orgs are skipped, what the org source returns is
\* one of the answers that Syncer allows for, so opening the step has lost nothing, and
\* its goroutine never outlives the sync that waits for it.
THEOREM AnswersFit == WellConfigured /\ PipeSpec => []OrgAnswersFit
<1>. SUFFICES ASSUME WellConfigured PROVE PipeSpec => []OrgAnswersFit
  OBVIOUS
<1>1. PipeInit => Org!OrgTypeOK /\ WithinSync
  BY PipeInitTypes
<1>2. Org!OrgTypeOK /\ WithinSync /\ [PipeNext]_pipeVars => Org!OrgTypeOK' /\ WithinSync'
  BY PipeStepTypes
<1>3. Org!OrgTypeOK /\ WithinSync => OrgAnswersFit
  BY DEF OrgAnswersFit, WithinSync, WellConfigured, OrgResult, MembershipsOf, Membership,
      Org!OrgTypeOK, Org!Row
<1>. QED
  BY <1>1, <1>2, <1>3, PTL DEF PipeSpec
=============================================================================
