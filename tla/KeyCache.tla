------------------------------ MODULE KeyCache ------------------------------
(***************************************************************************)
(* The SSH key cache of a standalone or writer pod (internal/keys): a       *)
(* walker goes round the indexed handles, requests fetch a cold handle on    *)
(* demand past the walker, the syncer replaces the index under both, and     *)
(* every fetched entry is written to a file of its own.                      *)
(*                                                                          *)
(* The keys GitHub publishes for a handle are a version number; an entry is  *)
(* the version it holds.  The index is the set of its handles.  Pacing and   *)
(* timestamps are left out: FetchedAt is zero exactly while an entry is      *)
(* Unfetched.                                                               *)
(***************************************************************************)
EXTENDS Naturals, FiniteSets

CONSTANTS
    Handles,       \* lowercased GitHub handles
    Requests,      \* on-demand HTTP requests that may be in flight at once
    MaxVersion,    \* bound: how often the keys of a handle change
    Reindexes,     \* whether the syncer may change the set of handles
    Faults,        \* whether reading, writing and removing files may fail
    Absent,        \* no entry, no file
    Unfetched,     \* an entry without a successful fetch
    Failed,        \* a fetch that returned an error
    Walker         \* the walker goroutine

Versions == 0 .. MaxVersion
Fetchers == Requests \cup {Walker}

ASSUME KeyCacheAssumption ==
    /\ MaxVersion \in Nat
    /\ Walker \notin Requests
    /\ Absent # Unfetched /\ Absent # Failed /\ Unfetched # Failed
    /\ \A v \in Versions : v # Absent /\ v # Unfetched /\ v # Failed
    /\ Reindexes \in BOOLEAN /\ Faults \in BOOLEAN

VARIABLES
    index,      \* the handles of the served index, handlesFn
    published,  \* GitHub: the version of each handle's keys
    alive,      \* the process runs
    entries,    \* Cache.entries
    files,      \* the files under CacheDir
    warmed,     \* Cache.warmed
    stage,      \* where the walker is: sample, prune, remove or pass
    wanted,     \* the walker's copy of the handle set for this pass
    removing,   \* prune: keys deleted from memory whose files are still to go
    todo,       \* handles of this pass still to be fetched
    jobs,       \* what each fetcher is doing
    everIndexed,\* history: handles that were ever in the index
    calm        \* from here on nothing changes and nothing fails

walkerVars == <<stage, wanted, removing, todo>>
world == <<index, published, everIndexed, calm>>
vars == <<world, alive, entries, files, warmed, walkerVars, jobs>>

-----------------------------------------------------------------------------
(* Helpers.  One that says "faulty" is not part of the specification: it is  *)
(* a plausible bug that a property must notice.                              *)

Idle == [at |-> "idle"]

\* faulty: an error is stored like keys, or empties the entry
ErrorStored(held, result) == result
ErrorClears(held, result) == IF result = Failed THEN Unfetched ELSE result
\* fetchOne: an error keeps the last good keys.
Updated(held, result) ==
    IF result # Failed THEN result
    ELSE IF held = Absent THEN Unfetched
    ELSE held

\* faulty: any login may be fetched on demand
AnyMiss(h) == entries[h] = Absent
\* handleHandleKeys: a miss, for a handle of the index.
ColdMiss(h) == entries[h] = Absent /\ h \in index

\* faulty: prune keeps every entry
NothingStale(h) == FALSE
Stale(h) == h \notin wanted

\* faulty: a pass ends after its first handle
PassEndsEarly == stage = "pass" /\ todo # wanted
PassDone == stage = "pass" /\ todo = {}

-----------------------------------------------------------------------------
Init ==
    /\ index \in SUBSET Handles
    /\ published = [h \in Handles |-> 0]
    /\ alive = FALSE
    /\ entries = [h \in Handles |-> Absent]
    /\ files = [h \in Handles |-> Absent]
    /\ warmed = FALSE
    /\ stage = "sample" /\ wanted = {} /\ removing = {} /\ todo = {}
    /\ jobs = [p \in Fetchers |-> Idle]
    /\ everIndexed = index
    /\ calm = FALSE

\* loadCache: one unreadable file drops everything that was loaded.
Loaded == {files} \cup (IF Faults THEN {[h \in Handles |-> Absent]} ELSE {})

\* Any loaded entry counts as warm.
Start ==
    /\ ~alive
    /\ alive' = TRUE
    /\ entries' \in Loaded
    /\ warmed' = (\E h \in Handles : entries'[h] # Absent)
    /\ UNCHANGED <<world, files, walkerVars, jobs>>

\* The process dies: the files stay.
Crash ==
    /\ alive /\ ~calm
    /\ alive' = FALSE
    /\ entries' = [h \in Handles |-> Absent]
    /\ warmed' = FALSE
    /\ stage' = "sample" /\ wanted' = {} /\ removing' = {} /\ todo' = {}
    /\ jobs' = [p \in Fetchers |-> Idle]
    /\ UNCHANGED <<world, files>>

-----------------------------------------------------------------------------
(* The walker: walk and prune. *)

Sample ==
    /\ alive /\ stage = "sample"
    /\ wanted' = index
    /\ stage' = "prune"
    /\ UNCHANGED <<world, alive, entries, files, warmed, removing, todo, jobs>>

\* Under the lock: memory only.
PruneEntries ==
    /\ alive /\ stage = "prune"
    /\ removing' = {h \in Handles : entries[h] # Absent /\ Stale(h)}
    /\ entries' = [h \in Handles |-> IF h \in removing' THEN Absent ELSE entries[h]]
    /\ stage' = "remove"
    /\ UNCHANGED <<world, alive, files, warmed, wanted, todo, jobs>>

\* After the lock is released: the files, one by one.
RemoveFile ==
    /\ alive /\ stage = "remove"
    /\ \E h \in removing :
        /\ removing' = removing \ {h}
        /\ \/ files' = [files EXCEPT ![h] = Absent]
           \/ Faults /\ ~calm /\ UNCHANGED files
    /\ UNCHANGED <<world, alive, entries, warmed, stage, wanted, todo, jobs>>

\* Nothing to fetch: warm at once, and sample again after a pause.
EmptyPass ==
    /\ alive /\ stage = "remove" /\ removing = {}
    /\ wanted = {}
    /\ warmed' = TRUE
    /\ stage' = "sample"
    /\ UNCHANGED <<world, alive, entries, files, wanted, removing, todo, jobs>>

BeginPass ==
    /\ alive /\ stage = "remove" /\ removing = {}
    /\ wanted # {}
    /\ stage' = "pass"
    /\ todo' = wanted
    /\ UNCHANGED <<world, alive, entries, files, warmed, wanted, removing, jobs>>

FetchNext ==
    /\ alive /\ stage = "pass" /\ jobs[Walker] = Idle
    /\ \E h \in todo :
        /\ todo' = todo \ {h}
        /\ jobs' = [jobs EXCEPT ![Walker] = [at |-> "asked", handle |-> h]]
    /\ UNCHANGED <<world, alive, entries, files, warmed, stage, wanted, removing>>

EndPass ==
    /\ alive /\ PassDone /\ jobs[Walker] = Idle
    /\ warmed' = TRUE
    /\ stage' = "sample"
    /\ UNCHANGED <<world, alive, entries, files, wanted, removing, todo, jobs>>

-----------------------------------------------------------------------------
(* fetchOne, run by the walker and by requests, concurrently. *)

\* A request for a cold handle; requests do not know of each other.
Ask(r) ==
    /\ alive /\ jobs[r] = Idle
    /\ \E h \in Handles :
        /\ ColdMiss(h)
        /\ jobs' = [jobs EXCEPT ![r] = [at |-> "asked", handle |-> h]]
    /\ UNCHANGED <<world, alive, entries, files, warmed, walkerVars>>

\* GitHub answers with the keys of that moment, or the fetch fails.
Answer(p) ==
    /\ jobs[p].at = "asked"
    /\ \E result \in {published[jobs[p].handle]} \cup (IF calm THEN {} ELSE {Failed}) :
        jobs' = [jobs EXCEPT ![p] = [at |-> "answered", handle |-> jobs[p].handle,
                                     result |-> result]]
    /\ UNCHANGED <<world, alive, entries, files, warmed, walkerVars>>

\* Under the lock: the entry, created if it is gone.
Update(p) ==
    /\ jobs[p].at = "answered"
    /\ entries' = [entries EXCEPT ![jobs[p].handle] = Updated(@, jobs[p].result)]
    /\ jobs' = [jobs EXCEPT ![p] = IF @.result = Failed THEN Idle ELSE [@ EXCEPT !.at = "updated"]]
    /\ UNCHANGED <<world, alive, files, warmed, walkerVars>>

\* After the lock is released: the file, replaced by a rename.
Persist(p) ==
    /\ jobs[p].at = "updated"
    /\ \/ files' = [files EXCEPT ![jobs[p].handle] = jobs[p].result]
       \/ Faults /\ ~calm /\ UNCHANGED files
    /\ jobs' = [jobs EXCEPT ![p] = Idle]
    /\ UNCHANGED <<world, alive, entries, warmed, walkerVars>>

-----------------------------------------------------------------------------
(* The world: the syncer installs another index, a developer changes keys,   *)
(* and, for the liveness property, both stop for good.                       *)

Reindex ==
    /\ Reindexes /\ ~calm
    /\ index' \in SUBSET Handles
    /\ everIndexed' = everIndexed \cup index'
    /\ UNCHANGED <<published, calm, alive, entries, files, warmed, walkerVars, jobs>>

Rotate(h) ==
    /\ ~calm /\ published[h] < MaxVersion
    /\ published' = [published EXCEPT ![h] = @ + 1]
    /\ UNCHANGED <<index, everIndexed, calm, alive, entries, files, warmed, walkerVars, jobs>>

CalmDown ==
    /\ ~calm /\ calm' = TRUE
    /\ UNCHANGED <<index, published, everIndexed, alive, entries, files, warmed, walkerVars, jobs>>

Walk == Sample \/ PruneEntries \/ RemoveFile \/ EmptyPass \/ BeginPass \/ FetchNext \/ EndPass

Fetch(p) == Answer(p) \/ Update(p) \/ Persist(p)

Next ==
    \/ Start \/ Crash
    \/ Walk
    \/ \E r \in Requests : Ask(r)
    \/ \E p \in Fetchers : Fetch(p)
    \/ Reindex
    \/ \E h \in Handles : Rotate(h)
    \/ CalmDown

\* The pod is restarted, the walker's sleeps end and every fetch returns (the
\* HTTP client and the request context both time out).
Fairness ==
    /\ WF_vars(Start)
    /\ WF_vars(Walk)
    /\ \A p \in Fetchers : WF_vars(Fetch(p))

Spec == Init /\ [][Next]_vars
FairSpec == Spec /\ Fairness

-----------------------------------------------------------------------------
(* Properties *)

Job == {Idle}
       \cup [at : {"asked"}, handle : Handles]
       \cup [at : {"answered"}, handle : Handles, result : {Failed} \cup Versions]
       \cup [at : {"updated"}, handle : Handles, result : Versions]

\* Every variable keeps its type; only a successful result reaches a file.
TypeOK ==
    /\ index \subseteq Handles
    /\ published \in [Handles -> Versions]
    /\ alive \in BOOLEAN
    /\ entries \in [Handles -> {Absent, Unfetched} \cup Versions]
    /\ files \in [Handles -> {Absent} \cup Versions]
    /\ warmed \in BOOLEAN
    /\ stage \in {"sample", "prune", "remove", "pass"}
    /\ wanted \subseteq Handles
    /\ removing \subseteq Handles
    /\ todo \subseteq Handles
    /\ jobs \in [Fetchers -> Job]
    /\ everIndexed \subseteq Handles
    /\ calm \in BOOLEAN

\* The cache holds, in memory, on disk and in flight, only handles the index has
\* listed at some time: the endpoint is no proxy for arbitrary logins, whatever
\* requests race with the walker and with a changing index (handleHandleKeys).
OnlyIndexedHandles ==
    /\ index \subseteq everIndexed
    /\ wanted \subseteq everIndexed
    /\ todo \subseteq everIndexed
    /\ \A h \in Handles :
        entries[h] # Absent \/ files[h] # Absent => h \in everIndexed
    /\ \A p \in Fetchers : jobs[p].at # "idle" => jobs[p].handle \in everIndexed

\* While the process runs, a developer's fetched keys leave memory only when the
\* walker's sample of the index did not list that developer: no failed fetch and
\* no overlap of fetches drops them (fetchOne, prune).
KeysKeptWhileWanted ==
    [][\A h \in Handles :
        (alive /\ alive' /\ entries[h] \in Versions /\ entries'[h] \notin Versions)
            => (stage = "prune" /\ h \notin wanted)]_vars

\* When the walker declares the cache warm, every handle of its pass has an
\* entry, even if requests and a new index came in between.
WarmsWhenComplete ==
    [][(alive /\ alive' /\ ~warmed /\ warmed') =>
        \A h \in wanted : entries[h] # Absent]_vars

\* Memory and files agree with GitHub on the indexed handles, and memory holds no
\* other handle.
InStep ==
    /\ alive
    /\ \A h \in index : entries[h] = published[h] /\ files[h] = published[h]
    /\ \A h \in Handles \ index : entries[h] = Absent

\* Once the index and GitHub stop changing, the cache gets in step with them and
\* stays so, whatever late answers, late writes and half-done prunes were under
\* way at that moment.
CacheGetsInStep == calm ~> []InStep

-----------------------------------------------------------------------------
(* The inductive invariant behind the safety properties.  KeyCacheProofs      *)
(* proves it for every value of the constants.                               *)

\* While a pass runs, each of its handles is still to be fetched, in the walker's
\* hands, or has an entry; no pass runs in a dead process.
PassAccounts ==
    /\ stage = "pass" =>
        \A h \in wanted :
            \/ h \in todo
            \/ jobs[Walker].at \in {"asked", "answered"} /\ jobs[Walker].handle = h
            \/ entries[h] # Absent
    /\ ~alive => stage = "sample"

KeyCacheInv == TypeOK /\ OnlyIndexedHandles /\ PassAccounts

=============================================================================
