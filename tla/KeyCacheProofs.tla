--------------------------- MODULE KeyCacheProofs ---------------------------
(* Proofs about KeyCache, for any handles, requests and versions.            *)
EXTENDS KeyCache, TLAPS

\* What a fetcher has in hand at each stage.
LEMMA JobStages ==
    ASSUME TypeOK, NEW p \in Fetchers
    PROVE  /\ jobs[p] \in Job
           /\ jobs[p].at \in {"idle", "asked", "answered", "updated"}
           /\ jobs[p].at = "idle" <=> jobs[p] = Idle
           /\ jobs[p].at # "idle" => jobs[p].handle \in Handles
           /\ jobs[p].at = "answered" => jobs[p].result \in {Failed} \cup Versions
           /\ jobs[p].at = "updated" => jobs[p].result \in Versions
<1>1. jobs[p] \in Job
  BY DEF TypeOK
<1>2. CASE jobs[p] = Idle
  BY <1>1, <1>2 DEF Idle
<1>3. CASE jobs[p] \in [at : {"asked"}, handle : Handles]
  BY <1>1, <1>3 DEF Idle
<1>4. CASE jobs[p] \in [at : {"answered"}, handle : Handles, result : {Failed} \cup Versions]
  BY <1>1, <1>4 DEF Idle
<1>5. CASE jobs[p] \in [at : {"updated"}, handle : Handles, result : Versions]
  BY <1>1, <1>5 DEF Idle
<1>. QED
  BY <1>1, <1>2, <1>3, <1>4, <1>5 DEF Job

\* What fetchOne stores: keys, or what was there.
LEMMA UpdatedType ==
    ASSUME NEW held \in {Absent, Unfetched} \cup Versions, NEW result \in {Failed} \cup Versions
    PROVE  /\ Updated(held, result) \in {Unfetched} \cup Versions
           /\ held \in Versions => Updated(held, result) \in Versions
BY KeyCacheAssumption DEF Updated

\* What an update does to the entries.
LEMMA UpdateStores ==
    ASSUME TypeOK, NEW p \in Fetchers, Update(p)
    PROVE  /\ jobs[p].handle \in Handles
           /\ entries' \in [Handles -> {Absent, Unfetched} \cup Versions]
           /\ entries'[jobs[p].handle] # Absent
           /\ entries[jobs[p].handle] \in Versions => entries'[jobs[p].handle] \in Versions
           /\ \A h \in Handles : h # jobs[p].handle => entries'[h] = entries[h]
<1>1. jobs[p].handle \in Handles /\ jobs[p].result \in {Failed} \cup Versions
  BY JobStages DEF Update
<1>2. entries[jobs[p].handle] \in {Absent, Unfetched} \cup Versions
  BY <1>1 DEF TypeOK
<1>3. /\ Updated(entries[jobs[p].handle], jobs[p].result) \in {Unfetched} \cup Versions
      /\ entries[jobs[p].handle] \in Versions =>
            Updated(entries[jobs[p].handle], jobs[p].result) \in Versions
  BY <1>1, <1>2, UpdatedType
<1>4. \A v \in {Unfetched} \cup Versions : v # Absent
  BY KeyCacheAssumption
<1>. QED
  BY <1>1, <1>3, <1>4 DEF TypeOK, Update

-----------------------------------------------------------------------------
(* Steps of the walker. *)

LEMMA WalkInv ==
    ASSUME KeyCacheInv, Walk
    PROVE  KeyCacheInv'
<1>0. TypeOK /\ OnlyIndexedHandles /\ PassAccounts
  BY DEF KeyCacheInv
<1>00. Walker \in Fetchers
  BY DEF Fetchers
<1>1. CASE Sample
  BY <1>0, <1>1 DEF Sample, KeyCacheInv, TypeOK, OnlyIndexedHandles, PassAccounts, world
<1>2. CASE PruneEntries
  <2>1. removing' \subseteq Handles
    BY <1>2 DEF PruneEntries
  <2>2. entries' \in [Handles -> {Absent, Unfetched} \cup Versions]
    BY <1>0, <1>2 DEF PruneEntries, TypeOK
  <2>3. \A h \in Handles : entries'[h] # Absent => entries[h] # Absent
    BY <1>0, <1>2 DEF PruneEntries, TypeOK
  <2>. QED
    BY <1>0, <1>2, <2>1, <2>2, <2>3
       DEF PruneEntries, KeyCacheInv, TypeOK, OnlyIndexedHandles, PassAccounts, world
<1>3. CASE RemoveFile
  <2>1. files' \in [Handles -> {Absent} \cup Versions]
    BY <1>0, <1>3 DEF RemoveFile, TypeOK
  <2>2. \A h \in Handles : files'[h] # Absent => files[h] # Absent
    BY <1>0, <1>3 DEF RemoveFile, TypeOK
  <2>3. removing' \subseteq Handles
    BY <1>0, <1>3 DEF RemoveFile, TypeOK
  <2>4. TypeOK'
    BY <1>0, <1>3, <2>1, <2>3 DEF RemoveFile, TypeOK, world
  <2>. QED
    BY <1>0, <1>3, <2>2, <2>4
       DEF RemoveFile, KeyCacheInv, OnlyIndexedHandles, PassAccounts, world
<1>4. CASE EmptyPass
  BY <1>0, <1>4 DEF EmptyPass, KeyCacheInv, TypeOK, OnlyIndexedHandles, PassAccounts, world
<1>5. CASE BeginPass
  BY <1>0, <1>5 DEF BeginPass, KeyCacheInv, TypeOK, OnlyIndexedHandles, PassAccounts, world
<1>6. CASE FetchNext
  <2>1. PICK h \in todo :
          todo' = todo \ {h} /\ jobs' = [jobs EXCEPT ![Walker] = [at |-> "asked", handle |-> h]]
    BY <1>6 DEF FetchNext
  <2>2. h \in Handles /\ h \in everIndexed
    BY <1>0 DEF TypeOK, OnlyIndexedHandles
  <2>3. [at |-> "asked", handle |-> h] \in Job
    BY <2>2 DEF Job
  <2>4. jobs' \in [Fetchers -> Job]
    BY <1>0, <2>1, <2>3 DEF TypeOK
  <2>5. /\ jobs'[Walker].at = "asked" /\ jobs'[Walker].handle = h
        /\ \A p \in Fetchers : p # Walker => jobs'[p] = jobs[p]
    BY <1>0, <1>00, <2>1 DEF TypeOK
  <2>6. jobs[Walker].at = "idle"
    BY <1>6 DEF FetchNext, Idle
  <2>7. TypeOK'
    BY <1>0, <1>6, <2>1, <2>4 DEF FetchNext, TypeOK, world
  <2>8. OnlyIndexedHandles'
    BY <1>0, <1>6, <2>1, <2>2, <2>5 DEF FetchNext, OnlyIndexedHandles, world
  <2>9. PassAccounts'
    BY <1>0, <1>6, <2>1, <2>5, <2>6 DEF FetchNext, PassAccounts
  <2>. QED
    BY <2>7, <2>8, <2>9 DEF KeyCacheInv
<1>7. CASE EndPass
  BY <1>0, <1>7 DEF EndPass, KeyCacheInv, TypeOK, OnlyIndexedHandles, PassAccounts, world
<1>. QED
  BY <1>1, <1>2, <1>3, <1>4, <1>5, <1>6, <1>7 DEF Walk

-----------------------------------------------------------------------------
(* Steps of a fetch, by the walker or a request. *)

LEMMA FetchInv ==
    ASSUME KeyCacheInv, NEW p \in Fetchers, Fetch(p)
    PROVE  KeyCacheInv'
<1>0. TypeOK /\ OnlyIndexedHandles /\ PassAccounts
  BY DEF KeyCacheInv
<1>1. jobs[p].handle \in Handles /\ jobs[p].handle \in everIndexed
  BY <1>0, JobStages DEF Fetch, Answer, Update, Persist, OnlyIndexedHandles
<1> DEFINE h == jobs[p].handle
<1>2. CASE Answer(p)
  <2>1. PICK result \in {published[h], Failed} :
          jobs' = [jobs EXCEPT ![p] = [at |-> "answered", handle |-> h, result |-> result]]
    BY <1>2 DEF Answer
  <2>2. result \in {Failed} \cup Versions
    BY <1>0, <1>1 DEF TypeOK
  <2>3. [at |-> "answered", handle |-> h, result |-> result] \in Job
    BY <1>1, <2>2 DEF Job
  <2>4. jobs' \in [Fetchers -> Job]
    BY <1>0, <2>1, <2>3 DEF TypeOK
  <2>5. /\ jobs'[p].at = "answered" /\ jobs'[p].handle = h
        /\ \A q \in Fetchers : q # p => jobs'[q] = jobs[q]
    BY <1>0, <2>1 DEF TypeOK
  <2>6. TypeOK'
    BY <1>0, <1>2, <2>4 DEF Answer, TypeOK, world, walkerVars
  <2>7. OnlyIndexedHandles'
    BY <1>0, <1>1, <1>2, <2>5 DEF Answer, OnlyIndexedHandles, world, walkerVars
  <2>8. PassAccounts'
    BY <1>0, <1>2, <2>5 DEF Answer, PassAccounts, walkerVars, Fetchers
  <2>. QED
    BY <2>6, <2>7, <2>8 DEF KeyCacheInv
<1>3. CASE Update(p)
  <2>1. jobs[p] \in [at : {"answered"}, handle : Handles, result : {Failed} \cup Versions]
    BY <1>0, <1>3 DEF TypeOK, Update, Job, Idle
  <2>2. /\ Idle \in Job
        /\ jobs[p].result # Failed => [jobs[p] EXCEPT !.at = "updated"] \in Job
    BY <2>1 DEF Job
  <2>3. jobs' \in [Fetchers -> Job]
    BY <1>0, <1>3, <2>2 DEF TypeOK, Update
  <2>4. /\ jobs'[p].at # "idle" => jobs'[p].handle = h
        /\ \A q \in Fetchers : q # p => jobs'[q] = jobs[q]
    BY <1>0, <1>3, <2>1 DEF TypeOK, Update, Idle
  <2>5. /\ entries' \in [Handles -> {Absent, Unfetched} \cup Versions]
        /\ entries'[h] # Absent
        /\ \A k \in Handles : k # h => entries'[k] = entries[k]
    BY <1>0, <1>3, UpdateStores
  <2>6. TypeOK'
    BY <1>0, <1>3, <2>3, <2>5 DEF Update, TypeOK, world, walkerVars
  <2>7. OnlyIndexedHandles'
    BY <1>0, <1>1, <1>3, <2>4, <2>5 DEF Update, OnlyIndexedHandles, world, walkerVars
  <2>8. PassAccounts'
    BY <1>0, <1>1, <1>3, <2>4, <2>5 DEF Update, TypeOK, PassAccounts, walkerVars, Fetchers
  <2>. QED
    BY <2>6, <2>7, <2>8 DEF KeyCacheInv
<1>4. CASE Persist(p)
  <2>1. jobs[p].result \in Versions /\ Idle \in Job
    BY <1>0, <1>4, JobStages DEF Persist, Job
  <2>2. /\ files' \in [Handles -> {Absent} \cup Versions]
        /\ \A k \in Handles : k # h => files'[k] = files[k]
    BY <1>0, <1>1, <1>4, <2>1 DEF Persist, TypeOK
  <2>3. /\ jobs' \in [Fetchers -> Job]
        /\ jobs'[p].at = "idle" /\ jobs[p].at = "updated"
        /\ \A q \in Fetchers : q # p => jobs'[q] = jobs[q]
    BY <1>0, <1>4, <2>1 DEF Persist, TypeOK, Idle
  <2>4. TypeOK'
    BY <1>0, <1>4, <2>2, <2>3 DEF Persist, TypeOK, world, walkerVars
  <2>5. OnlyIndexedHandles'
    BY <1>0, <1>1, <1>4, <2>2, <2>3 DEF Persist, OnlyIndexedHandles, world, walkerVars
  <2>6. PassAccounts'
    BY <1>0, <1>4, <2>3 DEF Persist, PassAccounts, walkerVars, Fetchers
  <2>. QED
    BY <2>4, <2>5, <2>6 DEF KeyCacheInv
<1>. QED
  BY <1>2, <1>3, <1>4 DEF Fetch

-----------------------------------------------------------------------------
(* The other steps. *)

LEMMA OtherInv ==
    ASSUME KeyCacheInv,
           \/ Start \/ Crash \/ Reindex \/ CalmDown
           \/ \E h \in Handles : Rotate(h)
           \/ \E r \in Requests : Ask(r)
    PROVE  KeyCacheInv'
<1>0. TypeOK /\ OnlyIndexedHandles /\ PassAccounts
  BY DEF KeyCacheInv
<1>1. CASE Start
  <2>1. entries' \in [Handles -> {Absent, Unfetched} \cup Versions]
    BY <1>0, <1>1 DEF Start, Loaded, TypeOK
  <2>2. \A h \in Handles : entries'[h] # Absent => files[h] # Absent
    BY <1>0, <1>1 DEF Start, Loaded, TypeOK
  <2>3. warmed' \in BOOLEAN
    BY <1>1 DEF Start
  <2>4. TypeOK'
    BY <1>0, <1>1, <2>1, <2>3 DEF Start, TypeOK, world, walkerVars
  <2>5. OnlyIndexedHandles'
    BY <1>0, <1>1, <2>2 DEF Start, OnlyIndexedHandles, world, walkerVars
  <2>6. PassAccounts'
    BY <1>0, <1>1 DEF Start, PassAccounts, walkerVars
  <2>. QED
    BY <2>4, <2>5, <2>6 DEF KeyCacheInv
<1>2. CASE Crash
  <2>1. Idle \in Job /\ Idle.at = "idle"
    BY DEF Job, Idle
  <2>2. TypeOK'
    BY <1>0, <1>2, <2>1 DEF Crash, TypeOK, world
  <2>3. OnlyIndexedHandles'
    BY <1>0, <1>2, <2>1 DEF Crash, OnlyIndexedHandles, world
  <2>4. PassAccounts'
    BY <1>2 DEF Crash, PassAccounts
  <2>. QED
    BY <2>2, <2>3, <2>4 DEF KeyCacheInv
<1>3. CASE Reindex
  BY <1>0, <1>3 DEF Reindex, KeyCacheInv, TypeOK, OnlyIndexedHandles, PassAccounts, walkerVars
<1>4. CASE CalmDown
  BY <1>0, <1>4 DEF CalmDown, KeyCacheInv, TypeOK, OnlyIndexedHandles, PassAccounts, walkerVars
<1>5. ASSUME NEW h \in Handles, Rotate(h)
      PROVE  KeyCacheInv'
  <2>1. published' \in [Handles -> Versions]
    BY <1>0, <1>5, KeyCacheAssumption DEF Rotate, TypeOK, Versions
  <2>. QED
    BY <1>0, <1>5, <2>1
       DEF Rotate, KeyCacheInv, TypeOK, OnlyIndexedHandles, PassAccounts, walkerVars
<1>6. ASSUME NEW r \in Requests, Ask(r)
      PROVE  KeyCacheInv'
  <2>1. PICK h \in Handles :
          ColdMiss(h) /\ jobs' = [jobs EXCEPT ![r] = [at |-> "asked", handle |-> h]]
    BY <1>6 DEF Ask
  <2>2. h \in everIndexed
    BY <1>0, <2>1 DEF ColdMiss, OnlyIndexedHandles
  <2>3. [at |-> "asked", handle |-> h] \in Job /\ r \in Fetchers /\ r # Walker
    BY <1>6, KeyCacheAssumption DEF Job, Fetchers
  <2>4. /\ jobs' \in [Fetchers -> Job]
        /\ jobs'[r].handle = h
        /\ \A q \in Fetchers : q # r => jobs'[q] = jobs[q]
    BY <1>0, <2>1, <2>3 DEF TypeOK
  <2>5. TypeOK'
    BY <1>0, <1>6, <2>4 DEF Ask, TypeOK, world, walkerVars
  <2>6. OnlyIndexedHandles'
    BY <1>0, <1>6, <2>2, <2>4 DEF Ask, OnlyIndexedHandles, world, walkerVars
  <2>7. PassAccounts'
    BY <1>0, <1>6, <2>3, <2>4 DEF Ask, PassAccounts, walkerVars, Fetchers
  <2>. QED
    BY <2>5, <2>6, <2>7 DEF KeyCacheInv
<1>. QED
  BY <1>1, <1>2, <1>3, <1>4, <1>5, <1>6

LEMMA StepInv ==
    ASSUME KeyCacheInv, [Next]_vars
    PROVE  KeyCacheInv'
<1>1. CASE UNCHANGED vars
  BY <1>1 DEF KeyCacheInv, TypeOK, OnlyIndexedHandles, PassAccounts, vars, world, walkerVars
<1>. QED
  BY <1>1, WalkInv, FetchInv, OtherInv DEF Next

-----------------------------------------------------------------------------
(* The theorems. *)

\* The invariant of the cache, for any handles, requests and versions.
THEOREM KeyCacheInvariant == Spec => []KeyCacheInv
<1>1. Init => KeyCacheInv
  <2>1. SUFFICES ASSUME Init PROVE KeyCacheInv
    OBVIOUS
  <2>2. Idle \in Job /\ Idle.at = "idle" /\ 0 \in Versions
    BY KeyCacheAssumption DEF Job, Idle, Versions
  <2>3. TypeOK
    BY <2>1, <2>2 DEF Init, TypeOK
  <2>. QED
    BY <2>1, <2>2, <2>3 DEF Init, KeyCacheInv, OnlyIndexedHandles, PassAccounts
<1>. QED
  BY <1>1, StepInv, PTL DEF Spec

\* No handle that was never indexed is ever fetched, cached or written to disk.
THEOREM NoOpenProxy == Spec => []OnlyIndexedHandles
<1>1. KeyCacheInv => OnlyIndexedHandles
  BY DEF KeyCacheInv
<1>. QED
  BY <1>1, KeyCacheInvariant, PTL

\* Fetched keys leave memory only by a prune that does not want their handle.
THEOREM KeysKept == Spec => KeysKeptWhileWanted
<1>1. ASSUME KeyCacheInv, Next, NEW h \in Handles,
             alive, alive', entries[h] \in Versions, entries'[h] \notin Versions
      PROVE  stage = "prune" /\ h \notin wanted
  <2>1. entries' # entries
    BY <1>1
  <2>2. CASE Start \/ Crash
    BY <1>1, <2>2 DEF Start, Crash
  <2>3. CASE PruneEntries
    BY <1>1, <2>3 DEF PruneEntries, Stale
  <2>4. ASSUME NEW p \in Fetchers, Update(p)
        PROVE  FALSE
    BY <1>1, <2>4, UpdateStores DEF KeyCacheInv
  <2>. QED
    BY <1>1, <2>1, <2>2, <2>3, <2>4
       DEF Next, Walk, Fetch, Sample, RemoveFile, EmptyPass, BeginPass, FetchNext, EndPass,
           Ask, Answer, Persist, Reindex, Rotate, CalmDown
<1>2. KeyCacheInv /\ [Next]_vars =>
        [\A h \in Handles :
            (alive /\ alive' /\ entries[h] \in Versions /\ entries'[h] \notin Versions)
                => (stage = "prune" /\ h \notin wanted)]_vars
  BY <1>1
<1>. QED
  BY <1>2, KeyCacheInvariant, PTL DEF Spec, KeysKeptWhileWanted

\* A running cache becomes warm only when every handle of its pass has an entry.
THEOREM WarmIsComplete == Spec => WarmsWhenComplete
<1>1. ASSUME KeyCacheInv, Next, alive, alive', ~warmed, warmed'
      PROVE  \A h \in wanted : entries[h] # Absent
  <2>1. CASE EmptyPass
    BY <2>1 DEF EmptyPass
  <2>2. CASE EndPass
    BY <1>1, <2>2 DEF EndPass, PassDone, KeyCacheInv, PassAccounts, Idle
  <2>. QED
    BY <1>1, <2>1, <2>2
       DEF Next, Start, Crash, Walk, Fetch, Sample, PruneEntries, RemoveFile, BeginPass, FetchNext,
           Ask, Answer, Update, Persist, Reindex, Rotate, CalmDown, world, walkerVars
<1>2. KeyCacheInv /\ [Next]_vars =>
        [(alive /\ alive' /\ ~warmed /\ warmed') => \A h \in wanted : entries[h] # Absent]_vars
  BY <1>1
<1>. QED
  BY <1>2, KeyCacheInvariant, PTL DEF Spec, WarmsWhenComplete

=============================================================================
