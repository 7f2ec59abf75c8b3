---------------------------- MODULE SyncerProofs ----------------------------
(* Proofs about Syncer, for every value of its constants.                    *)
EXTENDS Syncer, TLAPS

\* Taking a source's part of a snapshot or dropping the excluded handles stays
\* within the memberships, and the two commute.
LEMMA Parts ==
    ASSUME NEW ms \in Index, NEW s \in Sources
    PROVE  /\ BySource(ms, s) \in Index
           /\ BySource(ms, s) \subseteq MembershipsOf(s)
           /\ Excluding(ms) \in Index
           /\ Excluding(Excluding(ms)) = Excluding(ms)
           /\ BySource(Excluding(ms), s) = Excluding(BySource(ms, s))
BY DEF Index, BySource, MembershipsOf, Excluding

LEMMA ContentType ==
    ASSUME NEW idx \in {NoIndex} \cup Index
    PROVE  Content(idx) \in Index
BY DEF Content, Index

\* What an accepted fetch returns is a set of memberships of that source.
LEMMA AcceptedType ==
    ASSUME TypeOK, NEW s \in Sources, NEW r \in Answers(s), Accepts(s, r)
    PROVE  r \in Index /\ r \subseteq MembershipsOf(s) /\ r # None
<1>1. r \in Outcomes[s]
  BY DEF TypeOK, Answers
<1>2. r \in SUBSET MembershipsOf(s)
  BY <1>1, OutcomesAssumption DEF Accepts
<1>. QED
  BY <1>2, OutcomesAssumption DEF Index, MembershipsOf

\* restoreLastGood keeps every fallback a set of memberships of its source.
LEMMA RestoreType ==
    ASSUME NEW lg \in [Sources -> Index],
           \A s \in Sources : lg[s] \subseteq MembershipsOf(s),
           NEW idx \in {NoIndex} \cup Index
    PROVE  /\ Restore(lg, idx) \in [Sources -> Index]
           /\ \A s \in Sources : Restore(lg, idx)[s] \subseteq MembershipsOf(s)
<1>1. Content(idx) \in Index
  BY ContentType
<1>2. \A s \in Sources : /\ BySource(Content(idx), s) \in Index
                         /\ BySource(Content(idx), s) \subseteq MembershipsOf(s)
  BY <1>1, Parts
<1>. QED
  BY <1>2 DEF Restore

LEMMA InitTypeOK == Init => TypeOK
BY DEF Init, TypeOK, Index

LEMMA BootTypeOK ==
    ASSUME TypeOK, Boot
    PROVE  TypeOK'
<1>1. PICK db \in (IF IsWriter THEN Loadable(published) ELSE {NoIndex}), file \in Loadable(disk) :
        /\ lastGood' = Restore(Restore([s \in Sources |-> {}], db), file)
        /\ store' = IF file # NoIndex THEN file ELSE IF Seeds(db) THEN db ELSE NoIndex
  BY DEF Boot
<1>2. db \in {NoIndex} \cup Index /\ file \in {NoIndex} \cup Index
  BY <1>1 DEF TypeOK, Loadable
<1> DEFINE none == [s \in Sources |-> {}]
           first == Restore(none, db)
<1>3. none \in [Sources -> Index] /\ \A s \in Sources : none[s] \subseteq MembershipsOf(s)
  BY DEF Index
<1>4. first \in [Sources -> Index] /\ \A s \in Sources : first[s] \subseteq MembershipsOf(s)
  <2>. HIDE DEF none
  <2>. QED BY <1>2, <1>3, RestoreType
<1>5. lastGood' \in [Sources -> Index] /\ \A s \in Sources : lastGood'[s] \subseteq MembershipsOf(s)
  <2>. HIDE DEF first
  <2>1. lastGood' = Restore(first, file)
    BY <1>1 DEF first
  <2>. QED BY <2>1, <1>2, <1>4, RestoreType
<1>6. store' \in {NoIndex} \cup Index
  BY <1>1, <1>2
<1>7. exclude' \subseteq Handles
  BY ConfigAssumption DEF Boot
<1>. QED
  BY <1>5, <1>6, <1>7 DEF TypeOK, Boot

LEMMA FetchTypeOK ==
    ASSUME TypeOK, NEW s \in Sources, FetchAccepted(s) \/ FetchRejected(s)
    PROVE  TypeOK'
<1>1. CASE FetchAccepted(s)
  <2>1. PICK r \in Answers(s) :
          /\ Accepts(s, r)
          /\ lastGood' = [lastGood EXCEPT ![s] = r]
          /\ latest' = [latest EXCEPT ![s] = r]
          /\ all' = all \cup r
    BY <1>1 DEF FetchAccepted
  <2>2. r \in Index /\ r \subseteq MembershipsOf(s)
    BY <2>1, AcceptedType
  <2>3. all' \in Index
    BY <2>1, <2>2 DEF TypeOK, Index
  <2>4. /\ lastGood' \in [Sources -> Index]
        /\ \A t \in Sources : lastGood'[t] \subseteq MembershipsOf(t)
    BY <2>1, <2>2 DEF TypeOK
  <2>5. /\ latest' \in [Sources -> {None} \cup Index]
        /\ \A t \in Sources : latest'[t] # None => latest'[t] \subseteq MembershipsOf(t)
    BY <2>1, <2>2 DEF TypeOK
  <2>6. lastError' \in [Sources -> BOOLEAN]
    BY <1>1 DEF TypeOK, FetchAccepted
  <2>. QED
    BY <1>1, <2>3, <2>4, <2>5, <2>6 DEF TypeOK, FetchAccepted
<1>2. CASE FetchRejected(s)
  <2>1. all' \in Index
    BY <1>2 DEF TypeOK, FetchRejected, Index
  <2>2. lastError' \in [Sources -> BOOLEAN]
    BY <1>2 DEF TypeOK, FetchRejected
  <2>. QED
    BY <1>2, <2>1, <2>2 DEF TypeOK, FetchRejected
<1>. QED
  BY <1>1, <1>2

LEMMA StepTypeOK ==
    ASSUME TypeOK, [Next]_vars
    PROVE  TypeOK'
<1>1. Excluding(all) \in Index
  BY DEF TypeOK, Index, Excluding
<1>2. CASE Boot
  BY <1>2, BootTypeOK
<1>3. CASE Crash
  BY <1>3 DEF TypeOK, Crash, Index
<1>4. CASE StartSync
  BY <1>4 DEF TypeOK, StartSync
<1>5. CASE \E s \in Sources : FetchAccepted(s) \/ FetchRejected(s)
  BY <1>5, FetchTypeOK
<1>6. CASE HoldBack
  BY <1>6 DEF TypeOK, HoldBack, EndSync, Index
<1>7. CASE InstallIndex
  BY <1>1, <1>7 DEF TypeOK, InstallIndex, EndSync, Index
<1>8. CASE SaveSnapshot \/ SaveFails
  BY <1>1, <1>8 DEF TypeOK, SaveSnapshot, SaveFails, EndSync, Index
<1>9. CASE Publish
  BY <1>9 DEF TypeOK, Publish, progVars
<1>10. CASE Settle
  BY <1>10 DEF TypeOK, Settle, progVars
<1>11. CASE UNCHANGED vars
  BY <1>11 DEF TypeOK, vars, progVars
<1>. QED
  BY <1>2, <1>3, <1>4, <1>5, <1>6, <1>7, <1>8, <1>9, <1>10, <1>11 DEF Next

\* Every variable keeps its type and every fallback its source, for any number of
\* sources and handles (restoreLastGood, fetchOne).
THEOREM TypeCorrect == Spec => []TypeOK
BY InitTypeOK, StepTypeOK, PTL DEF Spec

-----------------------------------------------------------------------------
(* The inductive invariant.  TypeOK is known before and after each step.     *)

LEMMA BootInv ==
    ASSUME SyncerInv, TypeOK', Boot
    PROVE  SyncerInv'
<1>1. PICK db \in (IF IsWriter THEN Loadable(published) ELSE {NoIndex}), file \in Loadable(disk) :
        /\ lastGood' = Restore(Restore([s \in Sources |-> {}], db), file)
        /\ store' = IF file # NoIndex THEN file ELSE IF Seeds(db) THEN db ELSE NoIndex
  BY DEF Boot
<1>2. \A s \in Sources : lastGood'[s] = IF BySource(Content(file), s) # {}
                                          THEN BySource(Content(file), s)
                                          ELSE BySource(Content(db), s)
  BY <1>1 DEF Restore
<1>3. /\ \A s \in Sources : latest[s] = None /\ latest'[s] = None
      /\ pc = "down" /\ pc' = "fetching"
      /\ all' = {} /\ starved' = {} /\ pending' = Sources
      /\ disk' = disk /\ published' = published
  BY DEF Boot, SyncerInv, Retained, Collected
<1>4. Content(store') = IF file # NoIndex THEN file ELSE Content(db)
  BY <1>1 DEF Content, Seeds
<1>5. Retained'
  BY <1>3 DEF Retained
<1>6. Collected'
  BY <1>3 DEF Collected, BySource
<1>7. FallbackServed'
  <2>. SUFFICES ASSUME RestoresFromOne, NEW s \in Sources
                PROVE  lastGood'[s] = BySource(Content(store'), s)
    BY DEF FallbackServed, Excluding
  <2>1. db = NoIndex \/ file = NoIndex
    BY <1>1, <1>3 DEF RestoresFromOne, SyncerInv, ServedPublished, Loadable
  <2>. QED
    BY <2>1, <1>2, <1>4 DEF Content, BySource
<1>8. FallbackSaved'
  <2>. SUFFICES ASSUME ~IsWriter, NEW s \in Sources, ~LoadFaults \/ lastGood'[s] # {}
                PROVE  lastGood'[s] = BySource(Content(disk), s)
    BY <1>3 DEF FallbackSaved, Excluding
  <2>1. db = NoIndex
    BY <1>1
  <2>2. CASE file = disk
    BY <2>1, <2>2, <1>2 DEF Content, BySource
  <2>3. CASE file # disk
    BY <2>1, <2>3, <1>1, <1>2 DEF Content, BySource, Loadable
  <2>. QED
    BY <2>2, <2>3
<1>9. ServedPublished'
  <2>. SUFFICES ASSUME IsWriter, TRUE \notin FileSurvives, ~LoadFaults
                PROVE  Content(store') = Content(published)
    BY <1>3 DEF ServedPublished
  <2>1. db = published /\ file = NoIndex
    BY <1>1, <1>3 DEF SyncerInv, ServedPublished, Loadable
  <2>. QED
    BY <2>1, <1>4
<1>10. UpServes'
  BY DEF SyncerInv, Boot, UpServes
<1>. QED
  BY <1>5, <1>6, <1>7, <1>8, <1>9, <1>10 DEF SyncerInv

LEMMA CrashInv ==
    ASSUME SyncerInv, TypeOK', Crash
    PROVE  SyncerInv'
<1>1. Retained'
  BY DEF Crash, Retained
<1>2. Collected'
  BY DEF Crash, Collected
<1>3. FallbackServed' /\ FallbackSaved'
  BY DEF Crash, FallbackServed, FallbackSaved
<1>4. ServedPublished'
  BY ConfigAssumption DEF Crash, ServedPublished
<1>5. UpServes'
  BY DEF Crash, UpServes
<1>. QED
  BY <1>1, <1>2, <1>3, <1>4, <1>5 DEF SyncerInv

LEMMA StartSyncInv ==
    ASSUME SyncerInv, TypeOK', StartSync
    PROVE  SyncerInv'
<1>1. Retained'
  BY DEF SyncerInv, StartSync, Retained
<1>2. Collected'
  BY DEF SyncerInv, StartSync, Collected, BySource
<1>3. FallbackServed' /\ FallbackSaved' /\ ServedPublished'
  BY DEF SyncerInv, StartSync, FallbackServed, FallbackSaved, ServedPublished, Excluding
<1>4. UpServes'
  BY DEF SyncerInv, StartSync, UpServes
<1>. QED
  BY <1>1, <1>2, <1>3, <1>4 DEF SyncerInv

LEMMA FetchAcceptedInv ==
    ASSUME SyncerInv, TypeOK', NEW s \in Sources, FetchAccepted(s)
    PROVE  SyncerInv'
<1>1. PICK r \in Answers(s) :
        /\ Accepts(s, r)
        /\ lastGood' = [lastGood EXCEPT ![s] = r]
        /\ latest' = [latest EXCEPT ![s] = r]
        /\ all' = all \cup r
  BY DEF FetchAccepted
<1>2. r \subseteq MembershipsOf(s) /\ r # None
  BY <1>1, AcceptedType DEF SyncerInv
<1>3. /\ lastGood'[s] = r /\ latest'[s] = r
      /\ \A t \in Sources \ {s} : lastGood'[t] = lastGood[t] /\ latest'[t] = latest[t]
  BY <1>1 DEF SyncerInv, TypeOK
<1>4. /\ pc = "fetching" /\ pc' = "fetching"
      /\ s \in pending /\ pending' = pending \ {s}
      /\ starved' = starved /\ store' = store /\ exclude' = exclude
      /\ disk' = disk /\ published' = published
  BY DEF FetchAccepted
<1>5. Retained'
  BY <1>3, <1>4 DEF SyncerInv, Retained
<1>6. Collected'
  <2>1. BySource(all', s) = r
    BY <1>1, <1>2, <1>4 DEF SyncerInv, Collected, BySource, MembershipsOf
  <2>2. \A t \in Sources \ {s} : BySource(all', t) = BySource(all, t)
    BY <1>1, <1>2 DEF BySource, MembershipsOf
  <2>. QED
    BY <1>2, <1>3, <1>4, <2>1, <2>2 DEF SyncerInv, Collected
<1>7. FallbackServed' /\ FallbackSaved' /\ ServedPublished'
  BY <1>2, <1>3, <1>4 DEF SyncerInv, FallbackServed, FallbackSaved, ServedPublished, Excluding
<1>8. UpServes'
  BY DEF SyncerInv, FetchAccepted, UpServes
<1>. QED
  BY <1>5, <1>6, <1>7, <1>8 DEF SyncerInv

LEMMA FetchRejectedInv ==
    ASSUME SyncerInv, TypeOK', NEW s \in Sources, FetchRejected(s)
    PROVE  SyncerInv'
<1>1. Retained'
  BY DEF SyncerInv, FetchRejected, Retained
<1>2. Collected'
  <2>1. lastGood[s] \subseteq MembershipsOf(s)
    BY DEF SyncerInv, TypeOK
  <2>2. BySource(all', s) = lastGood[s]
    BY <2>1 DEF FetchRejected, SyncerInv, Collected, BySource, MembershipsOf
  <2>3. \A t \in Sources \ {s} : BySource(all', t) = BySource(all, t)
    BY <2>1 DEF FetchRejected, BySource, MembershipsOf
  <2>. QED
    BY <2>2, <2>3 DEF FetchRejected, SyncerInv, Collected, Starves
<1>3. FallbackServed' /\ FallbackSaved' /\ ServedPublished'
  BY DEF SyncerInv, FetchRejected, FallbackServed, FallbackSaved, ServedPublished, Excluding
<1>4. UpServes'
  BY DEF SyncerInv, FetchRejected, UpServes
<1>. QED
  BY <1>1, <1>2, <1>3, <1>4 DEF SyncerInv

LEMMA HoldBackInv ==
    ASSUME SyncerInv, TypeOK', HoldBack
    PROVE  SyncerInv'
<1>1. Retained'
  BY DEF SyncerInv, HoldBack, EndSync, Retained
<1>2. Collected'
  BY DEF HoldBack, EndSync, Collected
<1>3. FallbackServed' /\ FallbackSaved' /\ ServedPublished'
  BY DEF SyncerInv, HoldBack, EndSync, FallbackServed, FallbackSaved, ServedPublished, Excluding
<1>4. UpServes'
  BY DEF HoldBack, HoldsBack, EndSync, UpServes
<1>. QED
  BY <1>1, <1>2, <1>3, <1>4 DEF SyncerInv

\* What a completed sync would install: every source's fallback, filtered.
LEMMA SyncedParts ==
    ASSUME SyncerInv, pc \in {"fetching", "saving"}, pending = {}, NEW s \in Sources
    PROVE  BySource(Excluding(all), s) = Excluding(lastGood[s])
<1>1. BySource(all, s) = lastGood[s]
  BY DEF SyncerInv, Collected
<1>. QED
  BY <1>1, Parts DEF SyncerInv, TypeOK

\* Filtering twice is filtering once, so the installed part agrees with the fallback.
LEMMA FilteredFallback ==
    ASSUME TypeOK, NEW s \in Sources
    PROVE  Excluding(Excluding(lastGood[s])) = Excluding(lastGood[s])
BY Parts DEF TypeOK

LEMMA InstallIndexInv ==
    ASSUME SyncerInv, TypeOK', InstallIndex
    PROVE  SyncerInv'
<1>1. /\ pc = "fetching" /\ pending = {} /\ pending' = {}
      /\ latest' = latest /\ lastGood' = lastGood /\ exclude' = exclude
      /\ disk' = disk /\ published' = published
      /\ \/ pc' = "saving" /\ all' = all /\ starved' = starved /\ starved = {}
         \/ pc' = "idle" /\ all' = {} /\ starved' = {}
      /\ store' = Excluding(all) \/ store' = store
  BY DEF InstallIndex, EndSync, Saves
<1>2. \A s \in Sources : BySource(Excluding(all), s) = Excluding(lastGood[s])
  BY <1>1, SyncedParts
<1>3. Retained'
  BY <1>1 DEF SyncerInv, Retained
<1>4. Collected'
  BY <1>1 DEF SyncerInv, Collected
<1>5. Excluding(all) # NoIndex
  BY OutcomesAssumption DEF SyncerInv, TypeOK, Index, Excluding
<1>6. FallbackServed'
  <2>1. CASE store' = store
    BY <1>1, <2>1 DEF SyncerInv, FallbackServed, Excluding
  <2>2. CASE store' = Excluding(all)
    <3>. SUFFICES ASSUME NEW s \in Sources
                  PROVE  Excluding(lastGood[s]) = Excluding(BySource(Content(store'), s))
      BY <1>1 DEF FallbackServed, Excluding
    <3>1. Content(store') = Excluding(all)
      BY <1>5, <2>2 DEF Content
    <3>. QED
      BY <3>1, <1>2, FilteredFallback DEF SyncerInv
  <2>. QED
    BY <1>1, <2>1, <2>2
<1>7. FallbackSaved'
  BY <1>1 DEF SyncerInv, FallbackSaved, Excluding
<1>8. ServedPublished'
  <2>1. CASE store' = store
    BY <1>1, <2>1 DEF SyncerInv, ServedPublished, Excluding
  <2>2. CASE store' = Excluding(all)
    <3>. SUFFICES ASSUME IsWriter, TRUE \notin FileSurvives, ~LoadFaults,
                         NEW s \in Sources, latest[s] = None
                  PROVE  BySource(Content(store'), s) = Excluding(BySource(Content(published), s))
      BY <1>1 DEF ServedPublished, Excluding
    <3>1. Content(store') = Excluding(all)
      BY <1>5, <2>2 DEF Content
    <3>2. Excluding(lastGood[s]) = Excluding(BySource(Content(store), s))
      BY <1>1 DEF SyncerInv, FallbackServed, RestoresFromOne
    <3>3. BySource(Content(store), s) \in
            {BySource(Content(published), s), Excluding(BySource(Content(published), s))}
      BY <1>1 DEF SyncerInv, ServedPublished
    <3>4. Excluding(BySource(Content(store), s)) = Excluding(BySource(Content(published), s))
      BY <3>3 DEF Excluding
    <3>. QED
      BY <3>1, <3>2, <3>4, <1>2
  <2>. QED
    BY <1>1, <2>1, <2>2
<1>9. UpServes'
  BY <1>5 DEF SyncerInv, InstallIndex, Installs, EndSync, UpServes
<1>. QED
  BY <1>3, <1>4, <1>6, <1>7, <1>8, <1>9 DEF SyncerInv

LEMMA SaveSnapshotInv ==
    ASSUME SyncerInv, TypeOK', SaveSnapshot
    PROVE  SyncerInv'
<1>1. /\ pc = "saving" /\ pc' = "idle" /\ pending = {}
      /\ latest' = latest /\ lastGood' = lastGood /\ exclude' = exclude
      /\ disk' = Excluding(all) /\ store' = store /\ published' = published
  BY DEF SaveSnapshot, EndSync, SyncerInv, Collected
<1>2. Retained'
  BY <1>1 DEF SyncerInv, Retained
<1>3. Collected'
  BY DEF SaveSnapshot, EndSync, Collected
<1>4. FallbackServed' /\ ServedPublished'
  BY <1>1 DEF SyncerInv, FallbackServed, ServedPublished, Excluding
<1>5. FallbackSaved'
  <2>. SUFFICES ASSUME NEW s \in Sources
                PROVE  Excluding(lastGood[s]) = Excluding(BySource(Content(disk'), s))
    BY <1>1 DEF FallbackSaved, Excluding
  <2>1. Content(disk') = Excluding(all)
    BY <1>1, OutcomesAssumption DEF SyncerInv, TypeOK, Index, Excluding, Content
  <2>2. BySource(Excluding(all), s) = Excluding(lastGood[s])
    BY <1>1, SyncedParts
  <2>. QED
    BY <2>1, <2>2, FilteredFallback DEF SyncerInv
<1>6. UpServes'
  BY DEF SyncerInv, SaveSnapshot, EndSync, UpServes
<1>. QED
  BY <1>2, <1>3, <1>4, <1>5, <1>6 DEF SyncerInv

LEMMA SaveFailsInv ==
    ASSUME SyncerInv, TypeOK', SaveFails
    PROVE  SyncerInv'
<1>1. Retained'
  BY DEF SyncerInv, SaveFails, EndSync, Retained
<1>2. Collected'
  BY DEF SaveFails, EndSync, Collected
<1>3. FallbackServed' /\ FallbackSaved' /\ ServedPublished'
  BY DEF SyncerInv, SaveFails, EndSync, FallbackServed, FallbackSaved, ServedPublished, Excluding
<1>4. UpServes'
  BY DEF SyncerInv, SaveFails, EndSync, UpServes
<1>. QED
  BY <1>1, <1>2, <1>3, <1>4 DEF SyncerInv

LEMMA PublishInv ==
    ASSUME SyncerInv, TypeOK', Publish
    PROVE  SyncerInv'
<1>1. Retained' /\ Collected'
  BY DEF SyncerInv, Publish, progVars, Retained, Collected
<1>2. FallbackServed' /\ FallbackSaved'
  BY DEF SyncerInv, Publish, progVars, FallbackServed, FallbackSaved, Excluding
<1>3. ServedPublished'
  BY DEF SyncerInv, Publish, progVars, ServedPublished
<1>4. UpServes'
  BY DEF SyncerInv, Publish, progVars, UpServes
<1>. QED
  BY <1>1, <1>2, <1>3, <1>4 DEF SyncerInv

\* Steps that leave the program, the file and the row alone.
LEMMA QuietInv ==
    ASSUME SyncerInv, TypeOK', UNCHANGED <<progVars, disk, published>>
    PROVE  SyncerInv'
<1>1. Retained' /\ Collected'
  BY DEF SyncerInv, progVars, Retained, Collected
<1>2. FallbackServed' /\ FallbackSaved' /\ ServedPublished'
  BY DEF SyncerInv, progVars, FallbackServed, FallbackSaved, ServedPublished, Excluding
<1>3. UpServes'
  BY DEF SyncerInv, progVars, UpServes
<1>. QED
  BY <1>1, <1>2, <1>3 DEF SyncerInv

\* The inductive invariant holds in every reachable state: each source's fallback,
\* what is served of it, what is saved of it and what is published of it never
\* come apart (Sync, fetchOne, restoreLastGood, Seed, Start).
THEOREM SyncerInvariant == Spec => []SyncerInv
<1>1. Init => SyncerInv
  <2>. SUFFICES ASSUME Init PROVE SyncerInv
    OBVIOUS
  <2>1. Retained /\ Collected /\ UpServes /\ FallbackServed /\ FallbackSaved /\ ServedPublished
    BY DEF Init, Retained, Collected, UpServes, FallbackServed, FallbackSaved, ServedPublished
  <2>. QED
    BY <2>1, InitTypeOK DEF SyncerInv
<1>2. SyncerInv /\ [Next]_vars => SyncerInv'
  <2>. SUFFICES ASSUME SyncerInv, [Next]_vars PROVE SyncerInv'
    OBVIOUS
  <2>1. TypeOK'
    BY StepTypeOK DEF SyncerInv
  <2>2. CASE Boot
    BY <2>1, <2>2, BootInv
  <2>3. CASE Crash
    BY <2>1, <2>3, CrashInv
  <2>4. CASE StartSync
    BY <2>1, <2>4, StartSyncInv
  <2>5. ASSUME NEW s \in Sources, FetchAccepted(s) PROVE SyncerInv'
    BY <2>1, <2>5, FetchAcceptedInv
  <2>6. ASSUME NEW s \in Sources, FetchRejected(s) PROVE SyncerInv'
    BY <2>1, <2>6, FetchRejectedInv
  <2>7. CASE HoldBack
    BY <2>1, <2>7, HoldBackInv
  <2>8. CASE InstallIndex
    BY <2>1, <2>8, InstallIndexInv
  <2>9. CASE SaveSnapshot
    BY <2>1, <2>9, SaveSnapshotInv
  <2>10. CASE SaveFails
    BY <2>1, <2>10, SaveFailsInv
  <2>11. CASE Publish
    BY <2>1, <2>11, PublishInv
  <2>12. CASE Settle \/ UNCHANGED vars
    BY <2>1, <2>12, QuietInv DEF Settle, vars
  <2>. QED
    BY <2>2, <2>3, <2>4, <2>5, <2>6, <2>7, <2>8, <2>9, <2>10, <2>11, <2>12 DEF Next
<1>. QED
  BY <1>1, <1>2, PTL DEF Spec

-----------------------------------------------------------------------------
(* The safety properties. *)

\* What a save writes of a source, in a standalone pod.
LEMMA SaveMoves ==
    ASSUME ~IsWriter, SyncerInv, SaveSnapshot, NEW s \in Sources
    PROVE  BySource(disk', s) =
             Excluding(IF latest[s] = None THEN BySource(Content(disk), s) ELSE latest[s])
<1>1. pc = "saving" /\ pending = {} /\ starved = {}
  BY DEF SaveSnapshot, SyncerInv, Collected
<1>2. BySource(disk', s) = Excluding(lastGood[s])
  BY <1>1, SyncedParts DEF SaveSnapshot
<1>3. CASE latest[s] # None
  BY <1>2, <1>3 DEF SyncerInv, Retained
<1>4. CASE latest[s] = None
  <2>1. lastGood[s] # {}
    BY <1>1, <1>4 DEF SyncerInv, Collected
  <2>. QED
    BY <1>1, <1>2, <1>4, <2>1 DEF SyncerInv, FallbackSaved
<1>. QED
  BY <1>3, <1>4

\* What a sync installs of a source.
LEMMA InstallMoves ==
    ASSUME RestoresFromOne, SyncerInv, InstallIndex, store' = Excluding(all), NEW s \in Sources
    PROVE  BySource(store', s) =
             Excluding(IF latest[s] = None THEN BySource(Content(store), s) ELSE latest[s])
<1>1. BySource(store', s) = Excluding(lastGood[s])
  BY SyncedParts DEF InstallIndex
<1>. QED
  BY <1>1 DEF SyncerInv, Retained, FallbackServed, InstallIndex

\* In a standalone pod a save moves each source's part of the snapshot file to
\* its latest accepted result or leaves it, whatever fails, crashes or comes in
\* whatever order (Sync's guards, restoreLastGood), load errors included.
THEOREM SnapshotSafe == ~IsWriter /\ Spec => SnapshotMovesOnlyByFetch
<1>. SUFFICES ASSUME ~IsWriter PROVE Spec => SnapshotMovesOnlyByFetch
  OBVIOUS
<1> DEFINE Moves == disk' \notin {disk, NoIndex} =>
        \A s \in Sources :
            BySource(disk', s) =
                Excluding(IF latest[s] = None THEN BySource(Content(disk), s) ELSE latest[s])
<1>1. SyncerInv /\ [Next]_vars => [Moves]_vars
  <2>. SUFFICES ASSUME SyncerInv, Next, disk' \notin {disk, NoIndex} PROVE Moves
    OBVIOUS
  <2>1. SaveSnapshot
    BY DEF Next, Boot, Crash, StartSync, FetchAccepted, FetchRejected, HoldBack, InstallIndex,
           SaveFails, Publish, Settle
  <2>. QED
    BY <2>1, SaveMoves
<1>. QED
  BY <1>1, SyncerInvariant, PTL DEF Spec, SnapshotMovesOnlyByFetch

\* What a running pod serves moves the same way, as long as a boot restores from
\* one place only.
THEOREM ServedSafe == RestoresFromOne /\ Spec => ServedMovesOnlyByFetch
<1>. SUFFICES ASSUME RestoresFromOne PROVE Spec => ServedMovesOnlyByFetch
  OBVIOUS
<1> DEFINE Moves == (pc \notin {"down"} /\ pc' \notin {"down"} /\ store' # store) =>
        \A s \in Sources :
            BySource(store', s) =
                Excluding(IF latest[s] = None THEN BySource(Content(store), s) ELSE latest[s])
<1>1. SyncerInv /\ [Next]_vars => [Moves]_vars
  <2>. SUFFICES ASSUME SyncerInv, Next, pc # "down", pc' # "down", store' # store PROVE Moves
    OBVIOUS
  <2>1. InstallIndex /\ store' = Excluding(all)
    BY DEF Next, Boot, Crash, StartSync, FetchAccepted, FetchRejected, HoldBack, InstallIndex,
           SaveSnapshot, SaveFails, Publish, Settle, progVars
  <2>. QED
    BY <2>1, InstallMoves
<1>. QED
  BY <1>1, SyncerInvariant, PTL DEF Spec, ServedMovesOnlyByFetch

\* A pod that restarts while an upstream is broken serves that upstream's last
\* good result, if the copy it restarts from can be read and is the only one.
THEOREM RestartServesFallback ==
    RestoresFromOne /\ ~LoadFaults /\ Spec => []UnfetchedSourcesStayServed
<1>. SUFFICES ASSUME RestoresFromOne, ~LoadFaults PROVE Spec => []UnfetchedSourcesStayServed
  OBVIOUS
<1>1. SyncerInv => UnfetchedSourcesStayServed
  <2>. SUFFICES ASSUME SyncerInv, up, Durable # NoIndex, NEW s \in Sources, latest[s] = None
                PROVE  Excluding(BySource(store, s)) = Excluding(BySource(Durable, s))
    BY DEF UnfetchedSourcesStayServed
  <2>1. pc # "down" /\ Content(store) = store /\ Content(Durable) = Durable
    BY DEF SyncerInv, UpServes, Content
  <2>2. CASE IsWriter
    <3>1. BySource(store, s) \in {BySource(Durable, s), Excluding(BySource(Durable, s))}
      BY <2>1, <2>2 DEF SyncerInv, ServedPublished, RestoresFromOne, Durable
    <3>. QED
      BY <3>1 DEF Excluding
  <2>3. CASE ~IsWriter
    BY <2>1, <2>3 DEF SyncerInv, FallbackServed, FallbackSaved, RestoresFromOne, Durable
  <2>. QED
    BY <2>2, <2>3
<1>. QED
  BY <1>1, SyncerInvariant, PTL

\* The published row keeps what it has of a source the writer has not fetched
\* since its boot, when the writer's disk is lost and the row can be read.
THEOREM PublishedSafe ==
    TRUE \notin FileSurvives /\ ~LoadFaults /\ Spec => UnfetchedSourcesStayPublished
<1>. SUFFICES ASSUME TRUE \notin FileSurvives, ~LoadFaults
              PROVE  Spec => UnfetchedSourcesStayPublished
  OBVIOUS
<1> DEFINE Kept == published' # published =>
        \A s \in Sources :
            latest[s] = None =>
                BySource(published', s) \in
                    {BySource(Content(published), s), Excluding(BySource(Content(published), s))}
<1>1. SyncerInv /\ [Next]_vars => [Kept]_vars
  <2>. SUFFICES ASSUME SyncerInv, Next, published' # published, NEW s \in Sources, latest[s] = None
                PROVE  BySource(published', s) \in
                         {BySource(Content(published), s), Excluding(BySource(Content(published), s))}
    OBVIOUS
  <2>1. Publish
    BY DEF Next, Boot, Crash, StartSync, FetchAccepted, FetchRejected, HoldBack, InstallIndex,
           SaveSnapshot, SaveFails, Settle
  <2>2. IsWriter /\ pc # "down" /\ published' = Content(store)
    BY <2>1 DEF Publish, SyncerInv, UpServes, Content
  <2>. QED
    BY <2>2 DEF SyncerInv, ServedPublished
<1>. QED
  BY <1>1, SyncerInvariant, PTL DEF Spec, UnfetchedSourcesStayPublished

-----------------------------------------------------------------------------
(* Statuses *)

\* What the statuses say during and after a sync.
StatusInv ==
    /\ pc = "idle" => pending = {}
    /\ pc # "down" => \A s \in starved : s \notin pending /\ lastError[s] /\ lastGood[s] = {}
    /\ pc # "down" => \A s \in Sources : (s \notin pending /\ ~lastError[s]) => latest[s] # None
    /\ pc \in {"saving", "idle"} =>
         \/ store = Excluding(UNION {lastGood[s] : s \in Sources})
         \/ Excluding(UNION {lastGood[s] : s \in Sources}) = {}
         \/ \E s \in Sources : lastError[s] /\ lastGood[s] = {}

\* A finished sync has collected every source's fallback.
LEMMA CollectedWhole ==
    ASSUME SyncerInv, pc = "fetching", pending = {}
    PROVE  all = UNION {lastGood[s] : s \in Sources}
<1>1. \A s \in Sources : BySource(all, s) = lastGood[s]
  BY DEF SyncerInv, Collected
<1>2. \A m \in all : m.source \in Sources
  BY DEF SyncerInv, TypeOK, Index, Membership
<1>3. ASSUME NEW m \in all PROVE m \in UNION {lastGood[s] : s \in Sources}
  <2>1. m.source \in Sources /\ m \in BySource(all, m.source)
    BY <1>2 DEF BySource
  <2>. QED
    BY <2>1, <1>1
<1>4. ASSUME NEW s \in Sources, NEW m \in lastGood[s] PROVE m \in all
  BY <1>1 DEF BySource
<1>. QED
  BY <1>3, <1>4

LEMMA StepStatusInv ==
    ASSUME SyncerInv, StatusInv, [Next]_vars
    PROVE  StatusInv'
<1>1. CASE Boot \/ StartSync
  <2>1. pc' = "fetching" /\ pending' = Sources /\ starved' = {}
    BY <1>1 DEF Boot, StartSync, SyncerInv, Collected
  <2>. QED
    BY <2>1 DEF StatusInv
<1>2. CASE Crash
  BY <1>2 DEF Crash, StatusInv
<1>3. ASSUME NEW s \in Sources, FetchAccepted(s) PROVE StatusInv'
  <2>1. PICK r \in Answers(s) : Accepts(s, r) /\ latest' = [latest EXCEPT ![s] = r]
    BY <1>3 DEF FetchAccepted
  <2>2. r # None
    BY <2>1, AcceptedType DEF SyncerInv
  <2>3. latest'[s] # None /\ \A t \in Sources \ {s} : latest'[t] = latest[t]
    BY <2>1, <2>2 DEF SyncerInv, TypeOK
  <2>4. /\ pc = "fetching" /\ pc' = "fetching" /\ s \in pending /\ pending' = pending \ {s}
        /\ starved' = starved /\ starved \subseteq Sources
        /\ \A t \in Sources \ {s} : lastError'[t] = lastError[t] /\ lastGood'[t] = lastGood[t]
    BY <1>3 DEF FetchAccepted, SyncerInv, TypeOK
  <2>. QED
    BY <2>3, <2>4 DEF StatusInv
<1>4. ASSUME NEW s \in Sources, FetchRejected(s) PROVE StatusInv'
  <2>1. /\ pc = "fetching" /\ pc' = "fetching" /\ s \in pending /\ pending' = pending \ {s}
        /\ starved' = IF lastGood[s] = {} THEN starved \cup {s} ELSE starved
        /\ starved \subseteq Sources /\ latest' = latest /\ lastGood' = lastGood
        /\ lastError'[s] = TRUE
        /\ \A t \in Sources \ {s} : lastError'[t] = lastError[t]
    BY <1>4 DEF FetchRejected, Starves, SyncerInv, TypeOK
  <2>. QED
    BY <2>1 DEF StatusInv
<1>5. CASE HoldBack
  <2>1. /\ pending = {} /\ pending' = {} /\ starved # {} /\ starved' = {} /\ starved \subseteq Sources
        /\ pc = "fetching" /\ pc' = "idle" /\ latest' = latest
        /\ lastError' = lastError /\ lastGood' = lastGood
    BY <1>5 DEF HoldBack, HoldsBack, EndSync, SyncerInv, TypeOK
  <2>. QED
    BY <2>1 DEF StatusInv
<1>6. CASE InstallIndex
  <2>1. /\ pending = {} /\ pending' = {} /\ starved' \in {starved, {}}
        /\ pc = "fetching" /\ pc' \in {"saving", "idle"}
        /\ latest' = latest /\ lastError' = lastError /\ lastGood' = lastGood /\ exclude' = exclude
        /\ store' = Excluding(all) \/ Excluding(all) = {}
    BY <1>6 DEF InstallIndex, Installs, EndSync
  <2>2. all = UNION {lastGood[s] : s \in Sources}
    BY <2>1, CollectedWhole
  <2>. QED
    BY <2>1, <2>2 DEF StatusInv, Excluding
<1>7. CASE SaveSnapshot \/ SaveFails
  <2>1. /\ pending = {} /\ pending' = pending /\ starved' = {}
        /\ pc = "saving" /\ pc' = "idle"
        /\ latest' = latest /\ lastError' = lastError /\ lastGood' = lastGood
        /\ exclude' = exclude /\ store' = store
    BY <1>7 DEF SaveSnapshot, SaveFails, EndSync, SyncerInv, Collected
  <2>. QED
    BY <2>1 DEF StatusInv, Excluding
<1>8. CASE Publish \/ Settle \/ UNCHANGED vars
  <2>1. UNCHANGED progVars
    BY <1>8 DEF Publish, Settle, vars
  <2>. QED
    BY <2>1 DEF progVars, StatusInv, Excluding
<1>. QED
  BY <1>1, <1>2, <1>3, <1>4, <1>5, <1>6, <1>7, <1>8 DEF Next

LEMMA StatusInvariant == Spec => [](SyncerInv /\ StatusInv)
<1>1. Init => StatusInv
  BY DEF Init, StatusInv
<1>2. SyncerInv /\ StatusInv /\ [Next]_vars => StatusInv'
  BY StepStatusInv
<1>. QED
  BY <1>1, <1>2, SyncerInvariant, PTL DEF Spec

\* An index is held back, and with it the exclude list or a new answer, only while a
\* source reports an error and has nothing to fall back on.
THEOREM HeldBackOnlyStarved == Spec => []HeldBackOnlyWhileStarved
<1>1. StatusInv => HeldBackOnlyWhileStarved
  BY DEF StatusInv, HeldBackOnlyWhileStarved
<1>. QED
  BY <1>1, StatusInvariant, PTL

\* Between syncs, green statuses mean that what is served is what the sources last
\* answered: no starved source, held-back index or skipped install hides behind them.
THEOREM GreenCurrent == Spec => []AllGreenMeansCurrent
<1>1. ASSUME SyncerInv, StatusInv, pc = "idle", \A s \in Sources : ~lastError[s]
      PROVE  LET current == Excluding(UNION {latest[s] : s \in Sources})
             IN  store = current \/ current = {}
  <2>1. \A s \in Sources : latest[s] = lastGood[s]
    BY <1>1 DEF SyncerInv, Retained, StatusInv
  <2>2. UNION {latest[s] : s \in Sources} = UNION {lastGood[s] : s \in Sources}
    BY <2>1
  <2>. QED
    BY <1>1, <2>2 DEF StatusInv
<1>2. SyncerInv /\ StatusInv => AllGreenMeansCurrent
  BY <1>1 DEF AllGreenMeansCurrent
<1>. QED
  BY <1>2, StatusInvariant, PTL

-----------------------------------------------------------------------------
(* The refinement of LastGood *)

Served == [s \in Sources |-> BySource(Content(store), s)]
Kept == [s \in Sources |-> BySource(Content(disk), s)]

AbstractVars == <<pc # "down", exclude, latest, Served, Kept>>

LEMMA NothingServed ==
    ASSUME NEW s PROVE BySource(Content(NoIndex), s) = {}
BY DEF BySource, Content

LEMMA ImplementsInit == Init => Abstract!Init
<1>. SUFFICES ASSUME Init PROVE Abstract!Init
  OBVIOUS
<1>1. store = NoIndex /\ disk = NoIndex /\ pc = "down" /\ exclude = {}
      /\ latest = [s \in Sources |-> None]
  BY DEF Init
<1>. QED
  BY <1>1, NothingServed DEF Abstract!Init, Abstract!Silence, Abstract!Unanswered

\* What a save or an install amounts to, source by source.
LEMMA TakenIn ==
    ASSUME NEW old, NEW s \in Sources
    PROVE  Abstract!TakenIn(old)[s] = Excluding(IF latest[s] = None THEN old[s] ELSE latest[s])
BY DEF Abstract!TakenIn, Abstract!Visible, Excluding

LEMMA ImplementsBoot ==
    ASSUME ~IsWriter, SyncerInv, Boot
    PROVE  Abstract!Start
<1>1. PICK db \in {NoIndex}, file \in Loadable(disk) :
        store' = IF file # NoIndex THEN file ELSE IF Seeds(db) THEN db ELSE NoIndex
  BY DEF Boot
<1>2. store' \in {disk, NoIndex}
  BY <1>1 DEF Loadable, Seeds, Content
<1>3. pc = "down" /\ pc' = "fetching" /\ exclude' \in ExcludeLists /\ latest' = latest /\ disk' = disk
  BY DEF Boot
<1>4. Served' \in {Kept, Abstract!Silence}
  <2>1. CASE store' = disk
    BY <2>1 DEF Served, Kept
  <2>2. CASE store' = NoIndex
    BY <2>2, NothingServed DEF Served, Abstract!Silence
  <2>. QED
    BY <1>2, <2>1, <2>2
<1>5. Kept' = Kept
  BY <1>3 DEF Kept
<1>. QED
  BY <1>3, <1>4, <1>5 DEF Abstract!Start, Served, Kept

LEMMA ImplementsCrash ==
    ASSUME Crash
    PROVE  Abstract!Stop
<1>1. /\ pc # "down" /\ pc' = "down" /\ exclude' = {} /\ latest' = [s \in Sources |-> None]
      /\ store' = NoIndex /\ disk' \in {disk, NoIndex}
  BY DEF Crash
<1>2. Served' = Abstract!Silence
  BY <1>1, NothingServed DEF Served, Abstract!Silence
<1>3. Kept' \in {Kept, Abstract!Silence}
  <2>1. CASE disk' = disk
    BY <2>1 DEF Kept
  <2>2. CASE disk' = NoIndex
    BY <2>2, NothingServed DEF Kept, Abstract!Silence
  <2>. QED
    BY <1>1, <2>1, <2>2
<1>. QED
  BY <1>1, <1>2, <1>3 DEF Abstract!Stop, Abstract!Unanswered, Served, Kept

LEMMA ImplementsFetch ==
    ASSUME SyncerInv, NEW s \in Sources, FetchAccepted(s)
    PROVE  Abstract!Hear(s)
<1>1. PICK r \in Answers(s) : Accepts(s, r) /\ latest' = [latest EXCEPT ![s] = r]
  BY DEF FetchAccepted
<1>2. r \in Outcomes[s]
  BY <1>1 DEF SyncerInv, TypeOK, Answers
<1>3. pc = "fetching" /\ pc' = "fetching" /\ exclude' = exclude /\ store' = store /\ disk' = disk
  BY DEF FetchAccepted
<1>4. Served' = Served /\ Kept' = Kept
  BY <1>3 DEF Served, Kept
<1>. QED
  BY <1>1, <1>2, <1>3, <1>4 DEF Abstract!Hear, Served, Kept

LEMMA ImplementsInstall ==
    ASSUME ~IsWriter, SyncerInv, SyncerInv', InstallIndex
    PROVE  Abstract!Serve \/ UNCHANGED AbstractVars
<1>1. /\ pc = "fetching" /\ pc' # "down" /\ exclude' = exclude /\ latest' = latest /\ disk' = disk
      /\ store' \in {store, Excluding(all)}
  BY DEF InstallIndex, EndSync
<1>2. Kept' = Kept
  BY <1>1 DEF Kept
<1>3. CASE store' = store
  BY <1>1, <1>2, <1>3 DEF AbstractVars, Served
<1>4. CASE store' = Excluding(all)
  <2>1. Content(store') = store'
    BY <1>4, OutcomesAssumption DEF SyncerInv, TypeOK, Index, Excluding, Content
  <2>2. \A s \in Sources : BySource(Content(store'), s) = Abstract!TakenIn(Served)[s]
    BY <1>4, <2>1, InstallMoves, TakenIn DEF Served, RestoresFromOne
  <2>3. Served' = [s \in Sources |-> Abstract!TakenIn(Served)[s]]
    BY <2>2 DEF Served
  <2>4. Served' = Abstract!TakenIn(Served)
    BY <2>3 DEF Abstract!TakenIn
  <2>. QED
    BY <1>1, <1>2, <2>4 DEF Abstract!Serve, Served, Kept
<1>. QED
  BY <1>1, <1>3, <1>4

LEMMA ImplementsSave ==
    ASSUME ~IsWriter, SyncerInv, SaveSnapshot
    PROVE  Abstract!Keep
<1>1. /\ pc = "saving" /\ pc' = "idle" /\ exclude' = exclude /\ latest' = latest /\ store' = store
      /\ disk' = Excluding(all)
  BY DEF SaveSnapshot, EndSync
<1>2. Served' = Served
  BY <1>1 DEF Served
<1>3. Content(disk') = disk'
  BY <1>1, OutcomesAssumption DEF SyncerInv, TypeOK, Index, Excluding, Content
<1>4. \A s \in Sources : BySource(Content(disk'), s) = Abstract!TakenIn(Kept)[s]
  BY <1>3, SaveMoves, TakenIn DEF Kept
<1>5. Kept' = [s \in Sources |-> Abstract!TakenIn(Kept)[s]]
  BY <1>4 DEF Kept
<1>6. Kept' = Abstract!TakenIn(Kept)
  BY <1>5 DEF Abstract!TakenIn
<1>. QED
  BY <1>1, <1>2, <1>6 DEF Abstract!Keep, Served, Kept

LEMMA ImplementsNothing ==
    ASSUME \/ StartSync \/ HoldBack \/ SaveFails \/ Publish \/ Settle \/ UNCHANGED vars
           \/ \E s \in Sources : FetchRejected(s)
    PROVE  UNCHANGED AbstractVars
<1>1. /\ UNCHANGED <<exclude, latest, store, disk>>
      /\ (pc # "down") = (pc' # "down")
  BY DEF StartSync, HoldBack, SaveFails, Publish, Settle, FetchRejected, EndSync, vars, progVars
<1>. QED
  BY <1>1 DEF AbstractVars, Served, Kept

\* Whatever the order of the goroutines, the failures and the crashes: a standalone pod
\* is a register per source that only the source's own accepted answers move.
THEOREM Implements == ~IsWriter /\ Spec => KeepsLastGood
<1>. SUFFICES ASSUME ~IsWriter PROVE Spec => KeepsLastGood
  OBVIOUS
<1>1. SyncerInv /\ SyncerInv' /\ [Next]_vars => [Abstract!Next]_(Abstract!vars)
  <2>. SUFFICES ASSUME SyncerInv, SyncerInv', [Next]_vars
                PROVE  Abstract!Next \/ UNCHANGED Abstract!vars
    OBVIOUS
  <2>1. Abstract!vars = AbstractVars /\ Abstract!vars' = AbstractVars'
    BY DEF Abstract!vars, AbstractVars, Served, Kept
  <2>2. CASE Boot
    BY <2>2, ImplementsBoot DEF Abstract!Next
  <2>3. CASE Crash
    BY <2>3, ImplementsCrash DEF Abstract!Next
  <2>4. ASSUME NEW s \in Sources, FetchAccepted(s) PROVE Abstract!Next
    BY <2>4, ImplementsFetch DEF Abstract!Next
  <2>5. CASE InstallIndex
    BY <2>1, <2>5, ImplementsInstall DEF Abstract!Next
  <2>6. CASE SaveSnapshot
    BY <2>6, ImplementsSave DEF Abstract!Next
  <2>7. CASE \/ StartSync \/ HoldBack \/ SaveFails \/ Publish \/ Settle \/ UNCHANGED vars
             \/ \E s \in Sources : FetchRejected(s)
    BY <2>1, <2>7, ImplementsNothing
  <2>. QED
    BY <2>2, <2>3, <2>4, <2>5, <2>6, <2>7 DEF Next
<1>. QED
  BY <1>1, ImplementsInit, SyncerInvariant, PTL DEF Spec, KeepsLastGood, Abstract!Spec
=============================================================================
