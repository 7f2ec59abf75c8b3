--------------------------- MODULE ClusterProofs ----------------------------
(* Proofs about Cluster, for any number of writers, readers, syncs and saves. *)
EXTENDS Cluster, TLAPS

\* A row in the table is a whole snapshot.
LEMMA RowInTable ==
    ASSUME TypeOK, Row > 0
    PROVE  /\ Row \in 1 .. MaxSaves
           /\ saved[Row] \in Snapshot /\ Generation \in 1 .. MaxSaves
<1>1. Row \in Nat /\ Row \in 1 .. Row /\ saved[Row] \in Snapshot
  BY DEF TypeOK, Row
<1>. QED
  BY <1>1, ClusterAssumption DEF TypeOK, Generation, Snapshot

\* What a save does to the table.
LEMMA SaveAppends ==
    ASSUME TypeOK, NEW w \in Writers, Save(w)
    PROVE  /\ Row \in Nat /\ Row' = Row + 1 /\ Row' <= MaxSaves
           /\ saved' \in Seq(Snapshot)
           /\ saved'[Row'] = wsnap[w]
           /\ \A i \in 1 .. Row : saved'[i] = saved[i]
<1>1. wsnap[w] \in Snapshot
  BY DEF TypeOK, Save
<1>. QED
  BY <1>1, ClusterAssumption DEF TypeOK, Save, Row

-----------------------------------------------------------------------------
(* The type invariant. *)

LEMMA DropTypeOK ==
    ASSUME TypeOK, NEW w \in Writers, DropSnapshot(w)
    PROVE  /\ publishing' \in [Writers -> {"idle", "index", "keys", "full"}]
           /\ wsnap' \in [Writers -> Draft]
           /\ \A v \in Writers : Full(v)' => wsnap'[v] \in Snapshot
<1>1. Blank \in Draft
  BY ClusterAssumption DEF Blank, Draft
<1>. QED
  BY <1>1 DEF TypeOK, DropSnapshot, Full

LEMMA WriterTypeOK ==
    ASSUME ClusterInv, NEW w \in Writers, Writer(w)
    PROVE  TypeOK'
<1>0. TypeOK /\ WritersReady
  BY DEF ClusterInv
<1> USE ClusterAssumption
<1>1. CASE BootWriter(w)
  <2>1. Row > 0 => saved[Row].index \in 1 .. MaxSyncs
    BY <1>0, RowInTable DEF Snapshot
  <2>2. /\ windex' \in [Writers -> 0 .. MaxSyncs]
        /\ wstatus' \in [Writers -> 0 .. MaxSyncs]
        /\ syncs' \in 0 .. MaxSyncs
    <3>1. CASE syncs < MaxSyncs /\ syncs' = syncs + 1
               /\ windex' = [windex EXCEPT ![w] = syncs + 1]
               /\ wstatus' = [wstatus EXCEPT ![w] = syncs + 1]
      <4>1. syncs + 1 \in 0 .. MaxSyncs
        BY <1>0, <3>1 DEF TypeOK
      <4>. QED
        BY <1>0, <3>1, <4>1 DEF TypeOK
    <3>2. CASE Row > 0 /\ syncs' = syncs
               /\ windex' = [windex EXCEPT ![w] = saved[Row].index]
               /\ wstatus' = [wstatus EXCEPT ![w] = saved[Row].index]
      <4>1. saved[Row].index \in 0 .. MaxSyncs
        BY <2>1, <3>2
      <4>. QED
        BY <1>0, <3>2, <4>1 DEF TypeOK
    <3>. QED
      BY <1>1, <3>1, <3>2 DEF BootWriter
  <2>. QED
    BY <1>0, <1>1, <2>2 DEF TypeOK, BootWriter, readerVars, Row, Full
<1>2. CASE CrashWriter(w)
  <2>1. wkeys' \in [Writers -> SUBSET Handles]
    BY <1>0, <1>2 DEF TypeOK, CrashWriter
  <2>2. /\ wup' \in [Writers -> BOOLEAN]
        /\ windex' \in [Writers -> 0 .. MaxSyncs]
        /\ wstatus' \in [Writers -> 0 .. MaxSyncs]
    BY <1>0, <1>2 DEF TypeOK, CrashWriter
  <2>3. /\ publishing' \in [Writers -> {"idle", "index", "keys", "full"}]
        /\ wsnap' \in [Writers -> Draft]
        /\ \A v \in Writers : Full(v)' => wsnap'[v] \in Snapshot
    BY <1>0, <1>2, DropTypeOK DEF CrashWriter
  <2>. QED
    BY <1>0, <1>2, <2>1, <2>2, <2>3 DEF TypeOK, CrashWriter, readerVars, Row
<1>3. CASE RecordStatuses(w)
  BY <1>0, <1>3 DEF TypeOK, RecordStatuses, readerVars, Row, Full
<1>4. CASE InstallIndex(w)
  BY <1>0, <1>4 DEF TypeOK, InstallIndex, readerVars, Row, Full
<1>5. CASE FetchKeys(w)
  BY <1>0, <1>5 DEF TypeOK, FetchKeys, readerVars, Row, Full
<1>6. CASE TakeIndex(w)
  <2>1. wsnap' \in [Writers -> Draft]
    BY <1>0, <1>6 DEF TypeOK, TakeIndex, Draft
  <2>2. \A v \in Writers : Full(v)' => wsnap'[v] \in Snapshot
    BY <1>0, <1>6 DEF TypeOK, TakeIndex, Full
  <2>. QED
    BY <1>0, <1>6, <2>1, <2>2 DEF TypeOK, TakeIndex, readerVars, Row
<1>7. CASE TakeKeys(w)
  <2>1. wsnap' \in [Writers -> Draft]
    BY <1>0, <1>7 DEF TypeOK, TakeKeys, Draft
  <2>2. \A v \in Writers : Full(v)' => wsnap'[v] \in Snapshot
    BY <1>0, <1>7 DEF TypeOK, TakeKeys, Full
  <2>. QED
    BY <1>0, <1>7, <2>1, <2>2 DEF TypeOK, TakeKeys, readerVars, Row
<1>8. CASE TakeStatuses(w)
  <2>1. PICK gen \in Clock : wsnap' = [wsnap EXCEPT ![w].status = wstatus[w], ![w].gen = gen]
    BY <1>8 DEF TakeStatuses
  <2>2. gen \in 1 .. MaxSaves /\ wstatus[w] \in 1 .. MaxSyncs /\ wsnap[w].index \in 1 .. MaxSyncs
    BY <1>0, <1>8 DEF TypeOK, TakeStatuses, WritersReady, Clock, Draft
  <2>3. /\ wsnap' = [wsnap EXCEPT ![w] = wsnap'[w]]
        /\ wsnap'[w] \in Snapshot
    BY <1>0, <2>1, <2>2 DEF TypeOK, Draft, Snapshot
  <2>4. Snapshot \subseteq Draft
    BY DEF Snapshot, Draft
  <2>5. \A v \in Writers : Full(v)' => wsnap'[v] \in Snapshot
    BY <1>0, <1>8, <2>3 DEF TypeOK, TakeStatuses, Full
  <2>. QED
    BY <1>0, <1>8, <2>3, <2>4, <2>5 DEF TypeOK, TakeStatuses, readerVars, Row
<1>9. CASE Save(w)
  <2>1. saved' \in Seq(Snapshot) /\ Row' <= MaxSaves
    BY <1>0, <1>9, SaveAppends
  <2>. QED
    BY <1>0, <1>9, <2>1, DropTypeOK DEF TypeOK, Save, readerVars
<1>10. CASE SaveFails(w)
  BY <1>0, <1>10, DropTypeOK DEF TypeOK, SaveFails, readerVars, Row
<1>. QED
  BY <1>1, <1>2, <1>3, <1>4, <1>5, <1>6, <1>7, <1>8, <1>9, <1>10 DEF Writer

LEMMA ReaderTypeOK ==
    ASSUME ClusterInv, NEW r \in Readers,
           Poll(r) \/ LoadFails(r) \/ RestartReader(r)
    PROVE  TypeOK'
<1>0. TypeOK
  BY DEF ClusterInv
<1>1. Row' = Row /\ UNCHANGED <<writerVars, saved, quiet>>
  BY DEF Poll, ReadGeneration, LoadRow, SetIndex, ReplaceKeys, SetStatuses, LoadFails,
         RestartReader, Row
<1>2. Row \in 0 .. MaxSaves /\ (Row > 0 => Generation \in 0 .. MaxSaves)
  BY <1>0, RowInTable, ClusterAssumption DEF TypeOK, Row
<1>3. poll' \in [Readers -> [at : Stages, gen : 0 .. MaxSaves, pos : 0 .. MaxSaves]]
  <2>1. CASE ReadGeneration(r)
    BY <1>0, <1>2, <2>1 DEF TypeOK, ReadGeneration, IsNews, Stages
  <2>2. CASE LoadRow(r)
    BY <1>0, <1>2, <2>2 DEF TypeOK, LoadRow, Stages
  <2>3. CASE SetIndex(r) \/ ReplaceKeys(r)
    <3>1. CASE SetIndex(r)
      BY <1>0, <3>1 DEF TypeOK, SetIndex, Stages
    <3>2. CASE ReplaceKeys(r)
      BY <1>0, <3>2 DEF TypeOK, ReplaceKeys, Stages
    <3>. QED
      BY <2>3, <3>1, <3>2
  <2>4. CASE SetStatuses(r) \/ LoadFails(r) \/ RestartReader(r)
    <3>1. Resting \in [at : Stages, gen : 0 .. MaxSaves, pos : 0 .. MaxSaves]
      BY ClusterAssumption DEF Resting, Stages
    <3>. QED
      BY <1>0, <2>4, <3>1 DEF TypeOK, SetStatuses, LoadFails, RestartReader
  <2>. QED
    BY <2>1, <2>2, <2>3, <2>4 DEF Poll
<1>4. /\ lastGen' \in [Readers -> 0 .. MaxSaves]
      /\ rindex' \in [Readers -> 0 .. MaxSaves]
      /\ rkeys' \in [Readers -> 0 .. MaxSaves]
      /\ rstatus' \in [Readers -> 0 .. MaxSaves]
  <2>1. poll[r].pos \in 0 .. MaxSaves /\ poll[r].gen \in 0 .. MaxSaves /\ 0 \in 0 .. MaxSaves
    BY <1>0, ClusterAssumption DEF TypeOK
  <2>2. CASE ReadGeneration(r) \/ LoadRow(r)
    BY <1>0, <2>2 DEF TypeOK, ReadGeneration, LoadRow
  <2>3. CASE SetIndex(r) \/ ReplaceKeys(r)
    BY <1>0, <2>1, <2>3 DEF TypeOK, SetIndex, ReplaceKeys
  <2>4. CASE SetStatuses(r)
    BY <1>0, <2>1, <2>4 DEF TypeOK, SetStatuses, SeenGeneration
  <2>5. CASE LoadFails(r)
    BY <1>0, <2>5 DEF TypeOK, LoadFails, KeysOnError
  <2>6. CASE RestartReader(r)
    BY <1>0, <2>1, <2>6 DEF TypeOK, RestartReader
  <2>. QED
    BY <2>2, <2>3, <2>4, <2>5, <2>6 DEF Poll
<1>. QED
  BY <1>0, <1>1, <1>3, <1>4 DEF TypeOK, writerVars, Full

-----------------------------------------------------------------------------
(* The writers' side of the invariant. *)

LEMMA WriterReadies ==
    ASSUME ClusterInv, NEW w \in Writers, Writer(w)
    PROVE  WritersReady'
<1>0. TypeOK /\ WritersReady
  BY DEF ClusterInv
<1> USE ClusterAssumption
<1>1. CASE BootWriter(w)
  <2>1. Row > 0 => saved[Row].index # 0
    BY <1>0, RowInTable DEF Snapshot
  <2>. QED
    BY <1>0, <1>1, <2>1 DEF TypeOK, WritersReady, BootWriter
<1>2. CASE CrashWriter(w)
  BY <1>0, <1>2 DEF TypeOK, WritersReady, CrashWriter, DropSnapshot
<1>3. CASE RecordStatuses(w)
  BY <1>0, <1>3 DEF TypeOK, WritersReady, RecordStatuses
<1>4. CASE InstallIndex(w)
  BY <1>0, <1>4 DEF TypeOK, WritersReady, InstallIndex
<1>5. CASE FetchKeys(w)
  BY <1>0, <1>5 DEF WritersReady, FetchKeys
<1>6. CASE TakeIndex(w)
  BY <1>0, <1>6 DEF TypeOK, WritersReady, TakeIndex, Draft
<1>7. CASE TakeKeys(w)
  BY <1>0, <1>7 DEF TypeOK, WritersReady, TakeKeys, Draft
<1>8. CASE TakeStatuses(w)
  BY <1>0, <1>8 DEF TypeOK, WritersReady, TakeStatuses, Draft
<1>9. CASE Save(w)
  BY <1>0, <1>9 DEF TypeOK, WritersReady, Save, DropSnapshot
<1>10. CASE SaveFails(w)
  BY <1>0, <1>10 DEF TypeOK, WritersReady, SaveFails, DropSnapshot
<1>. QED
  BY <1>1, <1>2, <1>3, <1>4, <1>5, <1>6, <1>7, <1>8, <1>9, <1>10 DEF Writer

\* Generations stay apart as long as no new snapshot is completed or saved.
LEMMA FewerGenerations ==
    ASSUME GenerationsDiffer, saved' = saved,
           \A v \in Writers : Full(v)' => Full(v) /\ wsnap'[v] = wsnap[v]
    PROVE  GenerationsDiffer'
BY DEF GenerationsDiffer, Row

LEMMA WriterGenerations ==
    ASSUME ClusterInv, NEW w \in Writers, Writer(w)
    PROVE  GenerationsDiffer'
<1>0. TypeOK /\ GenerationsDiffer
  BY DEF ClusterInv
<1>1. CASE BootWriter(w) \/ RecordStatuses(w) \/ InstallIndex(w) \/ FetchKeys(w)
  BY <1>0, <1>1, FewerGenerations DEF BootWriter, RecordStatuses, InstallIndex, FetchKeys, Full
<1>2. CASE CrashWriter(w)
  BY <1>0, <1>2, FewerGenerations DEF TypeOK, CrashWriter, DropSnapshot, Full
<1>3. CASE TakeIndex(w)
  BY <1>0, <1>3, FewerGenerations DEF TypeOK, TakeIndex, Full
<1>4. CASE TakeKeys(w)
  BY <1>0, <1>4, FewerGenerations DEF TypeOK, TakeKeys, Full
<1>5. CASE SaveFails(w)
  BY <1>0, <1>5, FewerGenerations DEF TypeOK, SaveFails, DropSnapshot, Full
<1>6. CASE TakeStatuses(w)
  <2>1. PICK gen \in Clock : wsnap' = [wsnap EXCEPT ![w].status = wstatus[w], ![w].gen = gen]
    BY <1>6 DEF TakeStatuses
  <2>2. /\ wsnap'[w].gen = gen
        /\ \A v \in Writers \ {w} : wsnap'[v] = wsnap[v] /\ Full(v)' = Full(v)
        /\ saved' = saved
    BY <1>0, <1>6, <2>1 DEF TypeOK, TakeStatuses, Draft, Full
  <2>3. \A i \in 1 .. Row : saved[i].gen # gen
    BY DEF Clock
  <2>4. \A v \in Writers \ {w} : Full(v) => wsnap[v].gen # gen
    BY DEF Clock
  <2>. QED
    BY <1>0, <2>2, <2>3, <2>4 DEF GenerationsDiffer, Row
<1>7. CASE Save(w)
  <2>1. /\ Row \in Nat /\ Row' = Row + 1
        /\ saved'[Row'] = wsnap[w]
        /\ \A i \in 1 .. Row : saved'[i] = saved[i]
    BY <1>0, <1>7, SaveAppends
  <2>2. /\ Full(w) /\ ~Full(w)'
        /\ \A v \in Writers \ {w} : wsnap'[v] = wsnap[v] /\ Full(v)' = Full(v)
    BY <1>0, <1>7 DEF TypeOK, Save, DropSnapshot, Full
  <2>3. \A i, j \in 1 .. Row' : saved'[i].gen = saved'[j].gen => i = j
    BY <1>0, <2>1, <2>2 DEF GenerationsDiffer
  <2>4. \A v \in Writers : Full(v)' => v # w /\ Full(v) /\ wsnap'[v] = wsnap[v]
    BY <2>2
  <2>5. \A v \in Writers : Full(v)' => \A i \in 1 .. Row' : saved'[i].gen # wsnap'[v].gen
    BY <1>0, <2>1, <2>2, <2>4 DEF GenerationsDiffer
  <2>6. \A v \in Writers : Full(v)' => \A u \in Writers \ {v} : Full(u)' => wsnap'[u].gen # wsnap'[v].gen
    BY <1>0, <2>4 DEF GenerationsDiffer
  <2>. QED
    BY <2>3, <2>5, <2>6 DEF GenerationsDiffer
<1>. QED
  BY <1>1, <1>2, <1>3, <1>4, <1>5, <1>6, <1>7 DEF Writer

-----------------------------------------------------------------------------
(* The readers' side of the invariant. *)

ReaderInv == SwapsInOrder /\ AtRestOneSnapshot

\* What the invariant says of one reader.
ReaderOK(r) ==
    /\ rindex[r] <= Row /\ rkeys[r] <= Row /\ rstatus[r] <= Row
    /\ poll[r].at \in {"loaded", "indexSet", "keysSet"} =>
        /\ poll[r].pos <= Row
        /\ rindex[r] <= poll[r].pos /\ rkeys[r] <= poll[r].pos /\ rstatus[r] <= poll[r].pos
    /\ poll[r].at = "indexSet" => rindex[r] = poll[r].pos
    /\ poll[r].at = "keysSet" => rindex[r] = poll[r].pos /\ rkeys[r] = poll[r].pos
    /\ poll[r].at \in {"idle", "seen", "loaded"} =>
        rindex[r] = rkeys[r] /\ rkeys[r] = rstatus[r]

LEMMA ReaderInvByReader == ReaderInv <=> \A r \in Readers : ReaderOK(r)
BY DEF ReaderInv, ReaderOK, SwapsInOrder, AtRestOneSnapshot

\* Writers only add rows.
LEMMA WriterReaderInv ==
    ASSUME ClusterInv, NEW w \in Writers, Writer(w)
    PROVE  ReaderInv'
<1>0. TypeOK /\ ReaderInv
  BY DEF ClusterInv, ReaderInv
<1>1. /\ Row \in Nat /\ Row' \in Nat /\ Row' >= Row
      /\ poll' = poll /\ rindex' = rindex /\ rkeys' = rkeys /\ rstatus' = rstatus
  <2>1. CASE Save(w)
    BY <1>0, <2>1, SaveAppends DEF Save, readerVars
  <2>2. CASE ~Save(w)
    BY <1>0, <2>2 DEF Writer, BootWriter, CrashWriter, RecordStatuses, InstallIndex, FetchKeys,
          TakeIndex, TakeKeys, TakeStatuses, SaveFails, TypeOK, Row, readerVars
  <2>. QED
    BY <2>1, <2>2
<1>2. \A r \in Readers :
        /\ rindex[r] \in Nat /\ rkeys[r] \in Nat /\ rstatus[r] \in Nat
        /\ poll[r].pos \in Nat
  BY <1>0, ClusterAssumption DEF TypeOK
<1>3. ASSUME NEW r \in Readers
      PROVE  ReaderOK(r)'
  <2>1. ReaderOK(r)
    BY <1>0, ReaderInvByReader
  <2>2. \A n \in Nat : n <= Row => n <= Row'
    BY <1>1
  <2>. QED
    BY <1>1, <1>2, <2>1, <2>2 DEF ReaderOK
<1>. QED
  BY <1>3 DEF ReaderInv, ReaderOK, SwapsInOrder, AtRestOneSnapshot

LEMMA ReaderReaderInv ==
    ASSUME ClusterInv, NEW r \in Readers,
           Poll(r) \/ LoadFails(r) \/ RestartReader(r)
    PROVE  ReaderInv'
<1>0. TypeOK /\ ReaderInv
  BY DEF ClusterInv, ReaderInv
<1>1. /\ Row \in Nat /\ Row' = Row
      /\ rindex[r] \in Nat /\ rkeys[r] \in Nat /\ rstatus[r] \in Nat
      /\ poll[r].pos \in Nat
  <2>1. saved' = saved
    BY DEF Poll, ReadGeneration, LoadRow, SetIndex, ReplaceKeys, SetStatuses, LoadFails,
           RestartReader
  <2>. QED
    BY <1>0, <2>1, ClusterAssumption DEF TypeOK, Row
<1>2. ReaderOK(r)
  BY <1>0, ReaderInvByReader
<1>3. ReaderOK(r)'
  <2>1. CASE ReadGeneration(r)
    BY <1>0, <1>1, <1>2, <2>1 DEF TypeOK, ReaderOK, ReadGeneration, IsNews, Resting
  <2>2. CASE LoadRow(r)
    BY <1>0, <1>1, <1>2, <2>2 DEF TypeOK, ReaderOK, LoadRow
  <2>3. CASE SetIndex(r)
    <3>1. /\ poll[r].at = "loaded"
          /\ poll'[r].at = "indexSet" /\ poll'[r].pos = poll[r].pos
          /\ rindex'[r] = poll[r].pos /\ rkeys'[r] = rkeys[r] /\ rstatus'[r] = rstatus[r]
      BY <1>0, <2>3 DEF TypeOK, SetIndex
    <3>2. /\ poll[r].pos <= Row
          /\ rkeys[r] <= poll[r].pos /\ rstatus[r] <= poll[r].pos
          /\ rkeys[r] <= Row /\ rstatus[r] <= Row
      BY <1>2, <3>1 DEF ReaderOK
    <3>. QED
      BY <1>1, <3>1, <3>2 DEF ReaderOK
  <2>4. CASE ReplaceKeys(r)
    <3>1. /\ poll[r].at = "indexSet"
          /\ poll'[r].at = "keysSet" /\ poll'[r].pos = poll[r].pos
          /\ rindex'[r] = rindex[r] /\ rkeys'[r] = poll[r].pos /\ rstatus'[r] = rstatus[r]
      BY <1>0, <2>4 DEF TypeOK, ReplaceKeys
    <3>. QED
      BY <1>1, <1>2, <3>1 DEF ReaderOK
  <2>5. CASE SetStatuses(r)
    BY <1>0, <1>1, <1>2, <2>5 DEF TypeOK, ReaderOK, SetStatuses, Resting
  <2>6. CASE LoadFails(r)
    BY <1>0, <1>1, <1>2, <2>6 DEF TypeOK, ReaderOK, LoadFails, KeysOnError, Resting
  <2>7. CASE RestartReader(r)
    BY <1>0, <1>1, <2>7 DEF TypeOK, ReaderOK, RestartReader, Resting
  <2>. QED
    BY <2>1, <2>2, <2>3, <2>4, <2>5, <2>6, <2>7 DEF Poll
<1>4. ASSUME NEW q \in Readers, q # r
      PROVE  ReaderOK(q)'
  <2>1. poll'[q] = poll[q] /\ rindex'[q] = rindex[q] /\ rkeys'[q] = rkeys[q] /\ rstatus'[q] = rstatus[q]
    BY <1>0, <1>4 DEF TypeOK, Poll, ReadGeneration, LoadRow, SetIndex, ReplaceKeys, SetStatuses,
          LoadFails, RestartReader
  <2>2. ReaderOK(q)
    BY <1>0, ReaderInvByReader
  <2>. QED
    BY <1>1, <2>1, <2>2 DEF ReaderOK
<1>. QED
  BY <1>3, <1>4, ReaderInvByReader DEF ReaderInv, ReaderOK, SwapsInOrder, AtRestOneSnapshot

-----------------------------------------------------------------------------
(* The theorems. *)

LEMMA StepInv ==
    ASSUME ClusterInv, [Next]_vars
    PROVE  ClusterInv'
<1>1. ASSUME NEW w \in Writers, Writer(w)
      PROVE  ClusterInv'
  BY <1>1, WriterTypeOK, WriterReadies, WriterGenerations, WriterReaderInv DEF ClusterInv, ReaderInv
<1>2. ASSUME NEW r \in Readers, Poll(r) \/ LoadFails(r) \/ RestartReader(r)
      PROVE  ClusterInv'
  <2>1. TypeOK' /\ ReaderInv'
    BY <1>2, ReaderTypeOK, ReaderReaderInv
  <2>2. UNCHANGED <<writerVars, saved>>
    BY <1>2 DEF Poll, ReadGeneration, LoadRow, SetIndex, ReplaceKeys, SetStatuses, LoadFails,
         RestartReader
  <2>3. WritersReady'
    BY <2>2 DEF ClusterInv, WritersReady, writerVars
  <2>4. GenerationsDiffer'
    BY <2>2, FewerGenerations DEF ClusterInv, writerVars, Full
  <2>. QED
    BY <2>1, <2>3, <2>4 DEF ClusterInv, ReaderInv
<1>3. CASE CalmDown
  <2>1. Blank \in Draft
    BY ClusterAssumption DEF Blank, Draft
  <2>2. TypeOK'
    BY <1>3, <2>1 DEF ClusterInv, TypeOK, CalmDown, Full, readerVars, Row
  <2>3. WritersReady'
    BY <1>3 DEF ClusterInv, WritersReady, CalmDown
  <2>4. GenerationsDiffer'
    BY <1>3, FewerGenerations DEF ClusterInv, CalmDown, Full
  <2>5. SwapsInOrder' /\ AtRestOneSnapshot'
    BY <1>3 DEF ClusterInv, SwapsInOrder, AtRestOneSnapshot, CalmDown, readerVars, Row
  <2>. QED
    BY <2>2, <2>3, <2>4, <2>5 DEF ClusterInv
<1>4. CASE UNCHANGED vars
  <2>1. UNCHANGED <<wup, windex, wstatus, wkeys, publishing, wsnap, syncs, saved, poll, lastGen,
                    rindex, rkeys, rstatus, quiet>>
    BY <1>4 DEF vars, writerVars, readerVars
  <2>2. TypeOK' /\ WritersReady'
    BY <2>1 DEF ClusterInv, TypeOK, WritersReady, Full, Row
  <2>3. GenerationsDiffer'
    BY <2>1, FewerGenerations DEF ClusterInv, Full
  <2>4. SwapsInOrder' /\ AtRestOneSnapshot'
    BY <2>1 DEF ClusterInv, SwapsInOrder, AtRestOneSnapshot, Row
  <2>. QED
    BY <2>2, <2>3, <2>4 DEF ClusterInv
<1>. QED
  BY <1>1, <1>2, <1>3, <1>4 DEF Next, NoNews

\* The invariant of writers, row and readers, for any number of each.
THEOREM ClusterInvariant == Spec => []ClusterInv
<1>1. Init => ClusterInv
  <2>1. SUFFICES ASSUME Init PROVE ClusterInv
    OBVIOUS
  <2>2. Row = 0 /\ saved \in Seq(Snapshot)
    BY <2>1 DEF Init, Row
  <2>3. Blank \in Draft /\ Resting \in [at : Stages, gen : 0 .. MaxSaves, pos : 0 .. MaxSaves]
    BY ClusterAssumption DEF Blank, Draft, Resting, Stages
  <2>4. TypeOK
    <3>1. 0 \in 0 .. MaxSyncs /\ 0 \in 0 .. MaxSaves /\ 0 <= MaxSaves
      BY ClusterAssumption
    <3>2. \A w \in Writers : ~Full(w)
      BY <2>1 DEF Init, Full
    <3>3. /\ wup \in [Writers -> BOOLEAN]
          /\ windex \in [Writers -> 0 .. MaxSyncs] /\ wstatus \in [Writers -> 0 .. MaxSyncs]
          /\ wkeys \in [Writers -> SUBSET Handles]
          /\ publishing \in [Writers -> {"idle", "index", "keys", "full"}]
          /\ wsnap \in [Writers -> Draft] /\ syncs \in 0 .. MaxSyncs
      BY <2>1, <2>3, <3>1 DEF Init
    <3>4. /\ poll \in [Readers -> [at : Stages, gen : 0 .. MaxSaves, pos : 0 .. MaxSaves]]
          /\ lastGen \in [Readers -> 0 .. MaxSaves] /\ rindex \in [Readers -> 0 .. MaxSaves]
          /\ rkeys \in [Readers -> 0 .. MaxSaves] /\ rstatus \in [Readers -> 0 .. MaxSaves]
          /\ quiet \in BOOLEAN
      BY <2>1, <2>3, <3>1 DEF Init
    <3>. QED
      BY <2>2, <3>1, <3>2, <3>3, <3>4 DEF TypeOK
  <2>5. WritersReady /\ GenerationsDiffer
    BY <2>1, <2>2 DEF Init, WritersReady, GenerationsDiffer, Full
  <2>6. SwapsInOrder /\ AtRestOneSnapshot
    <3>1. \A r \in Readers :
            poll[r].at = "idle" /\ rindex[r] = 0 /\ rkeys[r] = 0 /\ rstatus[r] = 0
      BY <2>1 DEF Init, Resting
    <3>. QED
      BY <2>2, <3>1 DEF SwapsInOrder, AtRestOneSnapshot
  <2>. QED
    BY <2>4, <2>5, <2>6 DEF ClusterInv
<1>. QED
  BY <1>1, StepInv, PTL DEF Spec

\* A reader between two loads serves one saved snapshot: no interleaving of saves,
\* queries, failures and swaps leaves it with a mix for good.
THEOREM OneSnapshot == Spec => []AtRestOneSnapshot
<1>1. ClusterInv => AtRestOneSnapshot
  BY DEF ClusterInv
<1>. QED
  BY <1>1, ClusterInvariant, PTL

\* What one step does to what a reader serves.
LEMMA ReaderMoves ==
    ASSUME ClusterInv, [Next]_vars, NEW r \in Readers
    PROVE  /\ rindex[r] \in Nat /\ rkeys[r] \in Nat /\ rstatus[r] \in Nat
           /\ \/ rindex'[r] >= rindex[r] /\ rkeys'[r] >= rkeys[r] /\ rstatus'[r] >= rstatus[r]
              \/ rindex'[r] = 0
<1>0. TypeOK /\ ReaderOK(r)
  BY ReaderInvByReader DEF ClusterInv, ReaderInv
<1>1. /\ rindex[r] \in Nat /\ rkeys[r] \in Nat /\ rstatus[r] \in Nat
      /\ poll[r].pos \in Nat
  BY <1>0, ClusterAssumption DEF TypeOK
<1>2. ASSUME NEW q \in Readers, Poll(q) \/ LoadFails(q) \/ RestartReader(q), q # r
      PROVE  rindex'[r] = rindex[r] /\ rkeys'[r] = rkeys[r] /\ rstatus'[r] = rstatus[r]
  BY <1>0, <1>2 DEF TypeOK, Poll, ReadGeneration, LoadRow, SetIndex, ReplaceKeys, SetStatuses,
        LoadFails, RestartReader
<1>3. CASE Poll(r) \/ LoadFails(r)
  <2>1. CASE ReadGeneration(r) \/ LoadRow(r) \/ LoadFails(r)
    BY <1>0, <1>1, <2>1 DEF TypeOK, ReadGeneration, LoadRow, LoadFails, KeysOnError
  <2>2. CASE SetIndex(r)
    <3>1. /\ poll[r].at = "loaded"
          /\ rindex'[r] = poll[r].pos /\ rkeys'[r] = rkeys[r] /\ rstatus'[r] = rstatus[r]
      BY <1>0, <2>2 DEF TypeOK, SetIndex
    <3>. QED
      BY <1>0, <1>1, <3>1 DEF ReaderOK
  <2>3. CASE ReplaceKeys(r)
    <3>1. /\ poll[r].at = "indexSet"
          /\ rindex'[r] = rindex[r] /\ rkeys'[r] = poll[r].pos /\ rstatus'[r] = rstatus[r]
      BY <1>0, <2>3 DEF TypeOK, ReplaceKeys
    <3>. QED
      BY <1>0, <1>1, <3>1 DEF ReaderOK
  <2>4. CASE SetStatuses(r)
    BY <1>0, <1>1, <2>4 DEF TypeOK, ReaderOK, SetStatuses
  <2>. QED
    BY <1>3, <2>1, <2>2, <2>3, <2>4 DEF Poll
<1>4. CASE RestartReader(r)
  BY <1>0, <1>4 DEF TypeOK, RestartReader
<1>5. ASSUME \/ \E w \in Writers : Writer(w)
             \/ CalmDown
             \/ UNCHANGED vars
      PROVE  rindex' = rindex /\ rkeys' = rkeys /\ rstatus' = rstatus
  BY <1>5 DEF Writer, BootWriter, CrashWriter, RecordStatuses, InstallIndex, FetchKeys, TakeIndex,
        TakeKeys, TakeStatuses, Save, SaveFails, CalmDown, readerVars, vars
<1>. QED
  BY <1>1, <1>2, <1>3, <1>4, <1>5 DEF Next, NoNews

\* No reader ever goes back to an earlier save while it runs.
THEOREM MovesForward == Spec => ReadersMoveForward
<1>1. ClusterInv /\ [Next]_vars =>
        [\A r \in Readers :
            rindex[r] # 0 /\ rindex'[r] # 0 =>
                rindex'[r] >= rindex[r] /\ rkeys'[r] >= rkeys[r] /\ rstatus'[r] >= rstatus[r]]_vars
  BY ReaderMoves
<1>. QED
  BY <1>1, ClusterInvariant, PTL DEF Spec, ReadersMoveForward

\* A ready reader stays ready until it is restarted.
THEOREM StaysReady == Spec => ReadyStaysReady
<1>1. ClusterInv /\ [Next]_vars => [\A r \in Readers : Ready(r) => Ready(r)' \/ rindex'[r] = 0]_vars
  <2>1. SUFFICES ASSUME ClusterInv, [Next]_vars, NEW r \in Readers, Ready(r), rindex'[r] # 0
                 PROVE  Ready(r)'
    OBVIOUS
  <2>. QED
    BY <2>1, ReaderMoves DEF Ready
<1>. QED
  BY <1>1, ClusterInvariant, PTL DEF Spec, ReadyStaysReady

-----------------------------------------------------------------------------
(* The refinement: publisher, row and pollers implement Feed, but for the      *)
(* fairness of Feed, which is left to the runs.                               *)

\* Once publishing has stopped, no snapshot is in the making.
NothingInTheMaking == quiet => \A w \in Writers : publishing[w] = "idle"

LEMMA QuietIsIdle == Spec => []NothingInTheMaking
<1>1. Init => NothingInTheMaking
  BY DEF Init, NothingInTheMaking
<1>2. ClusterInv /\ NothingInTheMaking /\ [Next]_vars => NothingInTheMaking'
  <2>. SUFFICES ASSUME ClusterInv, NothingInTheMaking, [Next]_vars
                PROVE  NothingInTheMaking'
    OBVIOUS
  <2>0. publishing \in [Writers -> {"idle", "index", "keys", "full"}]
    BY DEF ClusterInv, TypeOK
  <2>1. ASSUME NEW w \in Writers, Writer(w) PROVE NothingInTheMaking'
    BY <2>0, <2>1 DEF NothingInTheMaking, Writer, BootWriter, CrashWriter, RecordStatuses,
          InstallIndex, FetchKeys, TakeIndex, TakeKeys, TakeStatuses, Save, SaveFails,
          DropSnapshot, Full
  <2>2. ASSUME NEW r \in Readers, Poll(r) \/ LoadFails(r) \/ RestartReader(r)
        PROVE  NothingInTheMaking'
    BY <2>2 DEF NothingInTheMaking, Poll, ReadGeneration, LoadRow, SetIndex, ReplaceKeys,
          SetStatuses, LoadFails, RestartReader, writerVars
  <2>3. CASE CalmDown
    BY <2>3 DEF NothingInTheMaking, CalmDown
  <2>4. CASE UNCHANGED vars
    BY <2>4 DEF NothingInTheMaking, vars, writerVars
  <2>. QED
    BY <2>1, <2>2, <2>3, <2>4 DEF Next, NoNews
<1>. QED
  BY <1>1, <1>2, ClusterInvariant, PTL DEF Spec

LEMMA FeedOfWriter ==
    ASSUME ClusterInv, NothingInTheMaking, NEW w \in Writers, Writer(w)
    PROVE  Abstract!Next \/ UNCHANGED <<saved, rstatus, quiet>>
<1>0. TypeOK
  BY DEF ClusterInv
<1>1. CASE Save(w)
  <2>1. ~quiet
    BY <1>1 DEF NothingInTheMaking, Save, Full
  <2>2. wsnap[w] \in Snapshot
    BY <1>0, <1>1 DEF TypeOK, Save
  <2>3. Abstract!Add
    BY <1>1, <2>1, <2>2 DEF Abstract!Add, Save, readerVars
  <2>. QED
    BY <2>3 DEF Abstract!Next
<1>2. CASE ~Save(w)
  BY <1>2 DEF Writer, BootWriter, CrashWriter, RecordStatuses, InstallIndex, FetchKeys,
        TakeIndex, TakeKeys, TakeStatuses, SaveFails, readerVars
<1>. QED
  BY <1>1, <1>2

LEMMA FeedOfReader ==
    ASSUME ClusterInv, NEW r \in Readers, Poll(r) \/ LoadFails(r) \/ RestartReader(r)
    PROVE  Abstract!Next \/ UNCHANGED <<saved, rstatus, quiet>>
<1>0. TypeOK /\ ReaderOK(r)
  BY ReaderInvByReader DEF ClusterInv, ReaderInv
<1>1. CASE SetStatuses(r)
  <2>1. /\ rstatus[r] \in Nat /\ poll[r].pos \in Nat /\ Row \in Nat
        /\ rstatus[r] <= poll[r].pos /\ poll[r].pos <= Row
    BY <1>0, <1>1, ClusterAssumption DEF TypeOK, ReaderOK, SetStatuses, Row
  <2>2. rstatus' = [rstatus EXCEPT ![r] = poll[r].pos] /\ UNCHANGED <<saved, quiet>>
    BY <1>1 DEF SetStatuses
  <2>3. CASE poll[r].pos = rstatus[r]
    BY <1>0, <2>2, <2>3 DEF TypeOK
  <2>4. CASE poll[r].pos > rstatus[r]
    <3>1. poll[r].pos \in 1 .. Len(saved)
      BY <2>1, <2>4 DEF Row
    <3>2. Abstract!Advance(r)
      BY <2>2, <2>4, <3>1 DEF Abstract!Advance
    <3>. QED
      BY <3>2 DEF Abstract!Next
  <2>. QED
    BY <2>1, <2>3, <2>4
<1>2. CASE RestartReader(r)
  <2>1. Abstract!Restart(r)
    BY <1>2 DEF RestartReader, Abstract!Restart
  <2>. QED
    BY <2>1 DEF Abstract!Next
<1>3. CASE ReadGeneration(r) \/ LoadRow(r) \/ SetIndex(r) \/ ReplaceKeys(r) \/ LoadFails(r)
  BY <1>3 DEF ReadGeneration, LoadRow, SetIndex, ReplaceKeys, LoadFails
<1>. QED
  BY <1>1, <1>2, <1>3 DEF Poll

\* However many writers overlap, whatever their clocks read and wherever queries,
\* saves and restarts fall, what the readers show is one sequence of snapshots that
\* each of them goes through forwards.
THEOREM ImplementsFeed == Spec => Abstract!Spec
<1>1. Init => Abstract!Init
  BY DEF Init, Abstract!Init
<1>2. ClusterInv /\ NothingInTheMaking /\ [Next]_vars => [Abstract!Next]_(Abstract!vars)
  <2>. SUFFICES ASSUME ClusterInv, NothingInTheMaking, [Next]_vars
                PROVE  Abstract!Next \/ UNCHANGED <<saved, rstatus, quiet>>
    BY DEF Abstract!vars
  <2>1. CASE CalmDown
    <3>1. Abstract!Close
      BY <2>1 DEF CalmDown, Abstract!Close, readerVars
    <3>. QED
      BY <3>1 DEF Abstract!Next
  <2>2. CASE UNCHANGED vars
    BY <2>2 DEF vars, readerVars
  <2>. QED
    BY <2>1, <2>2, FeedOfWriter, FeedOfReader DEF Next, NoNews
<1>. QED
  BY <1>1, <1>2, ClusterInvariant, QuietIsIdle, PTL DEF Spec, Abstract!Spec

=============================================================================
