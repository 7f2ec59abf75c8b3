------------------------------- MODULE Syncer -------------------------------
(***************************************************************************)
(* The syncer of a standalone or writer pod (internal/syncer): it fetches   *)
(* every source concurrently, falls back on each source's last good result, *)
(* installs the rebuilt index in the serving store and saves it to the      *)
(* snapshot file.  A writer also copies the served index to Postgres and    *)
(* starts from that row after a restart.                                    *)
(*                                                                          *)
(* Data is abstracted to memberships: an index is the set of the            *)
(* memberships it was built from (module Index shows that Build loses none  *)
(* of them), so display names, casing and timestamps are left out.          *)
(***************************************************************************)
EXTENDS Naturals, FiniteSets

CONSTANTS
    Sources,        \* the enabled sources
    Handles,        \* lowercased GitHub handles
    Teams,          \* team slugs
    Outcomes,       \* Outcomes[s]: what a fetch of s can give: memberships or Broken
    MinMembers,     \* floors on the members of a fetch, per source; 0 disables
    MinTeams,       \* floors on the teams of a fetch, per source; 0 disables
    ExcludeLists,   \* the exclude lists the configuration may hold at a boot
    IsWriter,       \* role writer (TRUE) or standalone (FALSE)
    FileSurvives,   \* whether the snapshot file may outlive the process: a subset of BOOLEAN
    LoadFaults,     \* whether reading a persisted index may fail at a boot
    NoIndex,        \* the nil *Index
    Broken,         \* a fetch that returns an error
    None            \* no value yet

Membership == [handle : Handles, team : Teams, source : Sources]
MembershipsOf(s) == {m \in Membership : m.source = s}
Index == SUBSET Membership

ASSUME OutcomesAssumption ==
    /\ \A idx \in Index : idx # NoIndex /\ idx # Broken /\ idx # None
    /\ \A s \in Sources : Outcomes[s] \subseteq {Broken} \cup SUBSET MembershipsOf(s)
ASSUME ConfigAssumption ==
    /\ ExcludeLists \subseteq SUBSET Handles
    /\ IsWriter \in BOOLEAN
    /\ FileSurvives \subseteq BOOLEAN
    /\ LoadFaults \in BOOLEAN

VARIABLES
    pc,          \* where Start/Sync stands: down, fetching, saving or idle
    up,          \* the first Sync has returned: HTTP server and publisher run
    pending,     \* Sync: sources whose goroutine has not finished
    all,         \* Sync: memberships appended so far
    anyFresh,    \* Sync: some source produced new data
    starved,     \* Sync: sources that failed with nothing to fall back on
    store,       \* index.Store: the index being served
    lastGood,    \* Syncer.lastGood, {} where the map has no entry
    lastError,   \* SourceStatus.LastError # "", per source
    latest,      \* SourceStatus.LastSuccess with the result it is about, None before it
    exclude,     \* Syncer.exclude, from the configuration of this boot
    disk,        \* the snapshot file
    published,   \* the row in Postgres
    settled      \* None, or the answer each upstream has settled on for good

progVars == <<pc, up, pending, all, anyFresh, starved, store, lastGood, lastError, latest, exclude>>
vars == <<progVars, disk, published, settled>>

-----------------------------------------------------------------------------
(* Pure helpers of the code.  A definition that says "faulty" is not part  *)
(* of the specification: it is a plausible bug that a property must notice. *)

Content(idx) == IF idx = NoIndex THEN {} ELSE idx
BySource(ms, s) == {m \in ms : m.source = s}

Excluding(ms) == {m \in ms : m.handle \notin exclude}

TeamsIn(ms) == {m.team : m \in ms}

\* fetchOne: an error or a result under a floor is rejected.
Accepts(s, r) ==
    /\ r # Broken
    /\ Cardinality(r) >= MinMembers[s]
    /\ Cardinality(TeamsIn(r)) >= MinTeams[s]

\* faulty: keeps one membership per source, or does not split by source
RestoreOverwrites(lg, idx) ==
    [s \in Sources |-> IF BySource(Content(idx), s) = {} THEN lg[s]
                       ELSE {CHOOSE m \in BySource(Content(idx), s) : TRUE}]
RestoreUnsplit(lg, idx) ==
    [s \in Sources |-> IF Content(idx) = {} THEN lg[s] ELSE Content(idx)]
\* restoreLastGood: only the sources present in the snapshot are replaced.
Restore(lg, idx) ==
    [s \in Sources |-> IF BySource(Content(idx), s) = {} THEN lg[s]
                                                         ELSE BySource(Content(idx), s)]

\* faulty: any failed source, whether or not it has a fallback, is starved
EveryFailureStarves(s, fallback) == TRUE
Starves(s, fallback) == fallback = {}

\* Sync: an index that misses a starved source does not replace a served one.
HoldsBack(idx, st, missing) == missing # {} /\ st # NoIndex

\* faulty: an index is installed once only
InstallsOnce(idx, st) == st = NoIndex
Installs(idx, st) == idx # {} \/ st = NoIndex

\* faulty: saves a partial view
SavesPartial(idx, fresh, missing) == fresh /\ idx # {}
Saves(idx, fresh, missing) == fresh /\ idx # {} /\ missing = {}

-----------------------------------------------------------------------------
(* Boot and crash.  run wires Seed (writer only), then Start: the index     *)
(* loaded from Postgres, then the file over it, then the first Sync; HTTP   *)
(* and the publisher start when that Sync has returned.                     *)

Init ==
    /\ pc = "down" /\ up = FALSE
    /\ pending = {} /\ all = {} /\ anyFresh = FALSE /\ starved = {}
    /\ store = NoIndex
    /\ lastGood = [s \in Sources |-> {}]
    /\ lastError = [s \in Sources |-> FALSE]
    /\ latest = [s \in Sources |-> None]
    /\ exclude = {}
    /\ disk = NoIndex
    /\ published = NoIndex
    /\ settled = None

\* A load that fails is logged and read as "no snapshot".
Loadable(idx) == {idx} \cup (IF LoadFaults THEN {NoIndex} ELSE {})

\* Seed ignores a nil index and one without teams.
Seeds(idx) == Content(idx) # {}

Boot ==
    /\ pc = "down"
    /\ \E db \in (IF IsWriter THEN Loadable(published) ELSE {NoIndex}),
          file \in Loadable(disk) :
        /\ lastGood' = Restore(Restore([s \in Sources |-> {}], db), file)
        /\ store' = IF file # NoIndex THEN file
                    ELSE IF Seeds(db) THEN db
                    ELSE NoIndex
    /\ exclude' \in ExcludeLists
    /\ pc' = "fetching"
    /\ pending' = Sources
    /\ UNCHANGED <<up, all, anyFresh, starved, lastError, latest, disk, published, settled>>

\* The process dies at any point; its memory goes, and its disk may.
Crash ==
    /\ pc # "down"
    /\ settled = None
    /\ pc' = "down" /\ up' = FALSE
    /\ pending' = {} /\ all' = {} /\ anyFresh' = FALSE /\ starved' = {}
    /\ store' = NoIndex
    /\ lastGood' = [s \in Sources |-> {}]
    /\ lastError' = [s \in Sources |-> FALSE]
    /\ latest' = [s \in Sources |-> None]
    /\ exclude' = {}
    /\ \E survives \in FileSurvives : disk' = IF survives THEN disk ELSE NoIndex
    /\ UNCHANGED <<published, settled>>

-----------------------------------------------------------------------------
(* Sync.  The goroutines of one Sync run concurrently, so the sources end   *)
(* in any order; two Syncs never overlap, since Start runs the first one    *)
(* and loop the others.                                                     *)

\* What a fetch of s can give: anything, until the upstream has settled.
Answers(s) == IF settled = None THEN Outcomes[s] ELSE {settled[s]}

StartSync ==
    /\ pc = "idle"
    /\ pc' = "fetching"
    /\ pending' = Sources
    /\ UNCHANGED <<up, all, anyFresh, starved, store, lastGood, lastError, latest, exclude,
                   disk, published, settled>>

FetchAccepted(s) ==
    /\ pc = "fetching" /\ s \in pending
    /\ \E r \in Answers(s) :
        /\ Accepts(s, r)
        /\ lastGood' = [lastGood EXCEPT ![s] = r]
        /\ latest' = [latest EXCEPT ![s] = r]
        /\ all' = all \cup r
    /\ lastError' = [lastError EXCEPT ![s] = FALSE]
    /\ anyFresh' = TRUE
    /\ pending' = pending \ {s}
    /\ UNCHANGED <<pc, up, starved, store, exclude, disk, published, settled>>

FetchRejected(s) ==
    /\ pc = "fetching" /\ s \in pending
    /\ \E r \in Answers(s) : ~Accepts(s, r)
    /\ lastError' = [lastError EXCEPT ![s] = TRUE]
    /\ all' = all \cup lastGood[s]
    /\ starved' = IF Starves(s, lastGood[s]) THEN starved \cup {s} ELSE starved
    /\ pending' = pending \ {s}
    /\ UNCHANGED <<pc, up, anyFresh, store, lastGood, latest, exclude, disk, published, settled>>

\* The locals of a Sync that has returned are gone.
EndSync ==
    /\ pc' = "idle"
    /\ up' = TRUE
    /\ all' = {} /\ anyFresh' = FALSE /\ starved' = {}

\* Every goroutine is done, but a source is starved: keep what is served.
HoldBack ==
    /\ pc = "fetching" /\ pending = {}
    /\ HoldsBack(Excluding(all), store, starved)
    /\ EndSync
    /\ UNCHANGED <<pending, store, lastGood, lastError, latest, exclude, disk, published, settled>>

InstallIndex ==
    /\ pc = "fetching" /\ pending = {}
    /\ ~HoldsBack(Excluding(all), store, starved)
    /\ store' = IF Installs(Excluding(all), store) THEN Excluding(all) ELSE store
    /\ IF Saves(Excluding(all), anyFresh, starved)
         THEN pc' = "saving" /\ UNCHANGED <<up, all, anyFresh, starved>>
         ELSE EndSync
    /\ UNCHANGED <<pending, lastGood, lastError, latest, exclude, disk, published, settled>>

\* index.Save renames a temporary file over the snapshot: all or nothing.
SaveSnapshot ==
    /\ pc = "saving"
    /\ disk' = Excluding(all)
    /\ EndSync
    /\ UNCHANGED <<pending, store, lastGood, lastError, latest, exclude, published, settled>>

\* A failed save is logged; the Sync has succeeded all the same.
SaveFails ==
    /\ pc = "saving"
    /\ EndSync
    /\ UNCHANGED <<pending, store, lastGood, lastError, latest, exclude, disk, published, settled>>

\* publisher.publish: the served index to the row in Postgres.  A failed write
\* leaves the row, as if the tick had not come.
Publish ==
    /\ IsWriter /\ up
    /\ store # NoIndex
    /\ published' = store
    /\ UNCHANGED <<progVars, disk, settled>>

\* The environment of the liveness property: from here on each upstream gives
\* the same answer at every fetch, and the process is not killed any more.
Settle ==
    /\ settled = None
    /\ settled' \in {o \in [Sources -> UNION {Outcomes[s] : s \in Sources}] :
                        \A s \in Sources : o[s] \in Outcomes[s]}
    /\ UNCHANGED <<progVars, disk, published>>

Next ==
    \/ Boot \/ Crash
    \/ StartSync
    \/ \E s \in Sources : FetchAccepted(s) \/ FetchRejected(s)
    \/ HoldBack \/ InstallIndex
    \/ SaveSnapshot \/ SaveFails
    \/ Publish
    \/ Settle

Spec == Init /\ [][Next]_vars

\* Kubernetes restarts the process, the ticker fires, a fetch returns (the HTTP
\* client times out) and a local write ends, one way or the other.
Fairness ==
    /\ WF_vars(Boot)
    /\ WF_vars(StartSync)
    /\ \A s \in Sources : WF_vars(FetchAccepted(s) \/ FetchRejected(s))
    /\ WF_vars(HoldBack \/ InstallIndex)
    /\ WF_vars(SaveSnapshot \/ SaveFails)

FairSpec == Spec /\ Fairness

-----------------------------------------------------------------------------
(* Properties *)

\* Every variable keeps its type; in particular a source's fallback never holds
\* memberships of another source, whatever snapshot it was restored from.
TypeOK ==
    /\ pc \in {"down", "fetching", "saving", "idle"}
    /\ up \in BOOLEAN
    /\ pending \subseteq Sources
    /\ all \in Index
    /\ anyFresh \in BOOLEAN
    /\ starved \subseteq Sources
    /\ store \in {NoIndex} \cup Index
    /\ lastGood \in [Sources -> Index]
    /\ \A s \in Sources : lastGood[s] \subseteq MembershipsOf(s)
    /\ lastError \in [Sources -> BOOLEAN]
    /\ latest \in [Sources -> {None} \cup Index]
    /\ \A s \in Sources : latest[s] # None => latest[s] \subseteq MembershipsOf(s)
    /\ exclude \subseteq Handles
    /\ disk \in {NoIndex} \cup Index
    /\ published \in {NoIndex} \cup Index
    /\ settled # None => \A s \in Sources : settled[s] \in Outcomes[s]

\* A save moves each source's part of the snapshot file to the latest result
\* that source has had accepted since the boot, and leaves it as it was (less
\* the handles excluded by now) when it has had none: no failed fetch, partial
\* sync, order of the goroutines or crash lets a source lose its memberships on
\* disk (Sync's guards on the publish and the save, restoreLastGood).
SnapshotMovesOnlyByFetch ==
    [][disk' \notin {disk, NoIndex} =>
        \A s \in Sources :
            BySource(disk', s) =
                Excluding(IF latest[s] = None THEN BySource(Content(disk), s) ELSE latest[s])]_vars

\* The same for what is served, while the process runs: a sync replaces a
\* source's memberships by the latest accepted result, or keeps them.
ServedMovesOnlyByFetch ==
    [][(pc \notin {"down"} /\ pc' \notin {"down"} /\ store' # store) =>
        \A s \in Sources :
            BySource(store', s) =
                Excluding(IF latest[s] = None THEN BySource(Content(store), s) ELSE latest[s])]_vars

\* What the pod restarts from.
Durable == IF IsWriter THEN published ELSE disk

\* Requests served from the first sync on never miss what the durable copy has of
\* a source that has not been fetched successfully since the boot: a pod that
\* restarts while an upstream is broken serves that upstream's last good result.
UnfetchedSourcesStayServed ==
    up /\ Durable # NoIndex =>
        \A s \in Sources :
            latest[s] = None => Excluding(BySource(store, s)) = Excluding(BySource(Durable, s))

\* The same for the writer's published row, which every reader serves from: a
\* source not fetched since the writer's boot keeps what was published of it,
\* less the handles excluded by now.
UnfetchedSourcesStayPublished ==
    [][published' # published =>
        \A s \in Sources :
            latest[s] = None =>
                BySource(published', s) \in
                    {BySource(Content(published), s), Excluding(BySource(Content(published), s))}]_vars

\* Between syncs, when no source reports an error, what is served is exactly
\* what the sources last answered, less the excluded handles, unless that is
\* nothing at all (an empty index never replaces a populated one).
AllGreenMeansCurrent ==
    (pc = "idle" /\ \A s \in Sources : ~lastError[s]) =>
        LET current == Excluding(UNION {latest[s] : s \in Sources})
        IN  store = current \/ current = {}

\* Between syncs what is served is every source's fallback, less the handles this
\* boot's configuration excludes, unless that is nothing at all.  The one exception is
\* a source that reports an error and has nothing to fall back on: only while there
\* is one can an excluded handle stay served, or a new answer wait (Sync's guards).
HeldBackOnlyWhileStarved ==
    pc = "idle" =>
        LET whole == Excluding(UNION {lastGood[s] : s \in Sources})
        IN  \/ store = whole
            \/ whole = {}
            \/ \E s \in Sources : lastError[s] /\ lastGood[s] = {}

\* A standalone pod implements the abstract LastGood: whatever the goroutines, floors,
\* hold-backs, saves and restores do, it amounts to a register per source that moves
\* only by its own accepted answers (Sync, fetchOne, restoreLastGood, Start).
Abstract == INSTANCE LastGood WITH
    Good <- [s \in Sources |-> {r \in Outcomes[s] : Accepts(s, r)}],
    Policies <- ExcludeLists,
    NoAnswer <- None,
    running <- pc # "down",
    excluded <- exclude,
    answer <- latest,
    served <- [s \in Sources |-> BySource(Content(store), s)],
    kept <- [s \in Sources |-> BySource(Content(disk), s)]

KeepsLastGood == Abstract!Spec

\* What source s contributes once the upstreams have settled.
Standing(s) == IF Accepts(s, settled[s]) THEN settled[s] ELSE lastGood[s]

\* The served index is what the healthy upstreams answer and the others last gave,
\* but for the documented exceptions: a source starved for good, and nothing to
\* serve at all.
UpToDate ==
    /\ settled # None
    /\ LET target == Excluding(UNION {Standing(s) : s \in Sources})
       IN  \/ store = target
           \/ target = {}
           \/ \E s \in Sources : Standing(s) = {} /\ ~Accepts(s, settled[s])

\* Once the upstreams have settled, what is served becomes and stays up to date:
\* a broken source that has a last good result never keeps the healthy ones from
\* updating (README.md: "keeps publishing updates from the sources that are
\* healthy instead of freezing").
HealthySourcesKeepUpdating == (settled # None) ~> []UpToDate

-----------------------------------------------------------------------------
(* The inductive invariant behind the properties above, in named parts.     *)
(* SyncerProofs proves it for every value of the constants.                 *)

\* A boot restores from one place only: a standalone pod from its file, a
\* writer from Postgres, since its file is gone.
RestoresFromOne == ~IsWriter \/ TRUE \notin FileSurvives

\* A source's fallback is its latest accepted result, once it has one.
Retained ==
    \A s \in Sources :
        /\ pc = "down" => latest[s] = None
        /\ latest[s] # None => lastGood[s] = latest[s]

\* A running sync has collected the fallbacks of the sources that are done, and
\* only a starved source that never answered leaves it nothing.
Collected ==
    /\ pc \in {"down", "idle"} => all = {} /\ starved = {}
    /\ pc \in {"fetching", "saving"} =>
         \A s \in Sources :
            /\ BySource(all, s) = IF s \in pending THEN {} ELSE lastGood[s]
            /\ (s \notin pending /\ lastGood[s] = {}) => (s \in starved \/ latest[s] # None)
    /\ pc = "saving" => pending = {} /\ starved = {}

\* Requests and publishes come after the first sync, which installs an index.
UpServes ==
    /\ up => pc # "down"
    /\ (up \/ pc \in {"saving", "idle"}) => store # NoIndex

\* The fallback of a source not fetched since the boot is what is served of it.
FallbackServed ==
    (RestoresFromOne /\ pc # "down") =>
        \A s \in Sources :
            latest[s] = None =>
                Excluding(lastGood[s]) = Excluding(BySource(Content(store), s))

\* In a standalone pod it is also what the snapshot file has of it.
FallbackSaved ==
    (~IsWriter /\ pc # "down") =>
        \A s \in Sources :
            (latest[s] = None /\ (~LoadFaults \/ lastGood[s] # {})) =>
                Excluding(lastGood[s]) = Excluding(BySource(Content(disk), s))

\* What a writer serves of such a source is what it has published of it.
ServedPublished ==
    /\ (IsWriter /\ TRUE \notin FileSurvives /\ pc = "down") => disk = NoIndex
    /\ (IsWriter /\ TRUE \notin FileSurvives /\ ~LoadFaults /\ pc # "down") =>
         \A s \in Sources :
            latest[s] = None =>
                BySource(Content(store), s) \in
                    {BySource(Content(published), s), Excluding(BySource(Content(published), s))}

SyncerInv ==
    /\ TypeOK /\ Retained /\ Collected /\ UpServes
    /\ FallbackServed /\ FallbackSaved /\ ServedPublished

=============================================================================
