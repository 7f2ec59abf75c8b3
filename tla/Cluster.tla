------------------------------ MODULE Cluster -------------------------------
(***************************************************************************)
(* The writer, the Postgres row and the readers (cmd/coredevs/cluster.go,    *)
(* internal/store, internal/snapshot, internal/keys/reader.go).  A writer    *)
(* takes its index, keys and statuses one after the other, marshals them and *)
(* upserts the single row; a reader polls the generation, loads the row and  *)
(* swaps three serving structures one after the other.                       *)
(*                                                                          *)
(* An index is the number of the sync that installed it, statuses likewise,  *)
(* keys are the handles that have some.  Every row ever saved is kept in     *)
(* order in "saved", so that what a reader serves can be named by the        *)
(* position of the save it came from.                                        *)
(***************************************************************************)
EXTENDS Naturals, Sequences

CONSTANTS
    Writers,    \* the writer pods: one, and a transient second one
    Readers,    \* the reader pods
    Handles,    \* handles with keys on GitHub
    MaxSyncs,   \* bound on syncs
    MaxSaves    \* bound on saves

ASSUME ClusterAssumption == MaxSyncs \in Nat /\ MaxSaves \in Nat

VARIABLES
    wup,        \* the writer runs
    windex,     \* its index.Store: number of the sync installed, 0 for nil
    wstatus,    \* its source statuses: number of the sync that wrote them
    wkeys,      \* its key cache; while it is down, the files it will load
    publishing, \* how far the publisher is: idle, index, keys or full
    wsnap,      \* its snapshot in the making
    syncs,      \* syncs so far, in the whole cluster
    saved,      \* every row saved so far; the last one is in Postgres
    poll,       \* the poller's load in progress
    lastGen,    \* poller.lastGen
    rindex,     \* position of the save each serving structure came from
    rkeys,
    rstatus,
    quiet       \* from here on nothing is published and nothing fails

writerVars == <<wup, windex, wstatus, wkeys, publishing, wsnap, syncs>>
readerVars == <<poll, lastGen, rindex, rkeys, rstatus>>
vars == <<writerVars, saved, readerVars, quiet>>

Row == Len(saved)               \* 0 while the table is empty
Generation == saved[Row].gen

-----------------------------------------------------------------------------
(* Helpers.  One that says "faulty" is not part of the specification: it is  *)
(* a plausible bug that a property must notice.                              *)

\* faulty: only a greater generation is news, though clocks may go back
GreaterIsNews(r) == Row > 0 /\ Generation > lastGen[r]
\* poller.load: any other generation is news.
IsNews(r) == Row > 0 /\ Generation # lastGen[r]

\* faulty: remembers the generation of the row as it is by now
GenerationByNow(r) == Generation
\* poller.load: the generation read before the row.
SeenGeneration(r) == poll[r].gen

\* faulty: a failed load empties the key structure
KeysClearedOnError(r) == 0
\* A failed load leaves what is served.
KeysOnError(r) == rkeys[r]

\* The snapshot of w is complete and has its generation.
Full(w) == publishing[w] = "full"

\* faulty: a coarse clock, which may give a generation that was given before
CoarseClock == 1 .. MaxSaves
\* publisher.publish: the clock of this pod in nanoseconds, which may be behind
\* another pod's; two snapshots of the same nanosecond are left out.
Clock ==
    {g \in 1 .. MaxSaves :
        /\ \A i \in 1 .. Row : saved[i].gen # g
        /\ \A v \in Writers : Full(v) => wsnap[v].gen # g}

-----------------------------------------------------------------------------
Resting == [at |-> "idle", gen |-> 0, pos |-> 0]
Blank == [index |-> 0, keys |-> {}, status |-> 0, gen |-> 0]

Init ==
    /\ wup = [w \in Writers |-> FALSE]
    /\ windex = [w \in Writers |-> 0]
    /\ wstatus = [w \in Writers |-> 0]
    /\ wkeys = [w \in Writers |-> {}]
    /\ publishing = [w \in Writers |-> "idle"]
    /\ wsnap = [w \in Writers |-> Blank]
    /\ syncs = 0
    /\ saved = << >>
    /\ poll = [r \in Readers |-> Resting]
    /\ lastGen = [r \in Readers |-> 0]
    /\ rindex = [r \in Readers |-> 0]
    /\ rkeys = [r \in Readers |-> 0]
    /\ rstatus = [r \in Readers |-> 0]
    /\ quiet = FALSE

(* The writer.  Its first sync ends before the publisher starts: the index is *)
(* the seeded one (from the row, if it can be read) or that of a new sync.    *)
(* A sync that installs nothing is left out, and so are the errors it records. *)

BootWriter(w) ==
    /\ ~wup[w] /\ ~quiet
    /\ wup' = [wup EXCEPT ![w] = TRUE]
    /\ \/ /\ syncs < MaxSyncs
          /\ syncs' = syncs + 1
          /\ windex' = [windex EXCEPT ![w] = syncs + 1]
          /\ wstatus' = [wstatus EXCEPT ![w] = syncs + 1]
       \/ /\ Row > 0
          /\ windex' = [windex EXCEPT ![w] = saved[Row].index]
          /\ wstatus' = [wstatus EXCEPT ![w] = saved[Row].index]
          /\ UNCHANGED syncs
    /\ UNCHANGED <<wkeys, publishing, wsnap, saved, readerVars, quiet>>

DropSnapshot(w) ==
    /\ publishing' = [publishing EXCEPT ![w] = "idle"]
    /\ wsnap' = [wsnap EXCEPT ![w] = Blank]

\* A container restart keeps the key files, a new pod starts without any.
CrashWriter(w) ==
    /\ wup[w] /\ ~quiet
    /\ wup' = [wup EXCEPT ![w] = FALSE]
    /\ windex' = [windex EXCEPT ![w] = 0]
    /\ wstatus' = [wstatus EXCEPT ![w] = 0]
    /\ DropSnapshot(w)
    /\ wkeys' \in {wkeys, [wkeys EXCEPT ![w] = {}]}
    /\ UNCHANGED <<syncs, saved, readerVars, quiet>>

\* A sync writes the statuses as its fetches end, and the index at its end.
RecordStatuses(w) ==
    /\ wup[w] /\ wstatus[w] = windex[w]
    /\ syncs < MaxSyncs
    /\ syncs' = syncs + 1
    /\ wstatus' = [wstatus EXCEPT ![w] = syncs + 1]
    /\ UNCHANGED <<wup, windex, wkeys, publishing, wsnap, saved, readerVars, quiet>>

InstallIndex(w) ==
    /\ wup[w] /\ wstatus[w] # windex[w]
    /\ windex' = [windex EXCEPT ![w] = wstatus[w]]
    /\ UNCHANGED <<wup, wstatus, wkeys, publishing, wsnap, syncs, saved, readerVars, quiet>>

FetchKeys(w) ==
    /\ wup[w]
    /\ \E h \in Handles \ wkeys[w] : wkeys' = [wkeys EXCEPT ![w] = @ \cup {h}]
    /\ UNCHANGED <<wup, windex, wstatus, publishing, wsnap, syncs, saved, readerVars, quiet>>

-----------------------------------------------------------------------------
(* publisher.publish: index, then keys, then statuses, then the upsert. *)

TakeIndex(w) ==
    /\ wup[w] /\ publishing[w] = "idle" /\ ~quiet
    /\ windex[w] # 0
    /\ publishing' = [publishing EXCEPT ![w] = "index"]
    /\ wsnap' = [wsnap EXCEPT ![w].index = windex[w]]
    /\ UNCHANGED <<wup, windex, wstatus, wkeys, syncs, saved, readerVars, quiet>>

TakeKeys(w) ==
    /\ publishing[w] = "index"
    /\ publishing' = [publishing EXCEPT ![w] = "keys"]
    /\ wsnap' = [wsnap EXCEPT ![w].keys = wkeys[w]]
    /\ UNCHANGED <<wup, windex, wstatus, wkeys, syncs, saved, readerVars, quiet>>

TakeStatuses(w) ==
    /\ publishing[w] = "keys"
    /\ publishing' = [publishing EXCEPT ![w] = "full"]
    /\ \E gen \in Clock :
        wsnap' = [wsnap EXCEPT ![w].status = wstatus[w], ![w].gen = gen]
    /\ UNCHANGED <<wup, windex, wstatus, wkeys, syncs, saved, readerVars, quiet>>

Save(w) ==
    /\ Full(w)
    /\ Row < MaxSaves
    /\ saved' = Append(saved, wsnap[w])
    /\ DropSnapshot(w)
    /\ UNCHANGED <<wup, windex, wstatus, wkeys, syncs, readerVars, quiet>>

\* The upsert fails: this generation is lost, the next tick publishes again.
SaveFails(w) ==
    /\ Full(w)
    /\ DropSnapshot(w)
    /\ UNCHANGED <<wup, windex, wstatus, wkeys, syncs, saved, readerVars, quiet>>

-----------------------------------------------------------------------------
(* The reader: poller.load, on boot and on every tick. *)

ReadGeneration(r) ==
    /\ poll[r] = Resting
    /\ IsNews(r)
    /\ poll' = [poll EXCEPT ![r].at = "seen", ![r].gen = Generation]
    /\ UNCHANGED <<writerVars, saved, lastGen, rindex, rkeys, rstatus, quiet>>

\* Nothing new in the table: the poll ends there.
NoNews(r) ==
    /\ poll[r] = Resting
    /\ ~IsNews(r)
    /\ UNCHANGED vars

\* The row may have been replaced since its generation was read.
LoadRow(r) ==
    /\ poll[r].at = "seen"
    /\ poll' = [poll EXCEPT ![r].at = "loaded", ![r].pos = Row]
    /\ UNCHANGED <<writerVars, saved, lastGen, rindex, rkeys, rstatus, quiet>>

\* The query or the parse fails: keep serving, try again at the next tick.
LoadFails(r) ==
    /\ poll[r].at = "seen" /\ ~quiet
    /\ poll' = [poll EXCEPT ![r] = Resting]
    /\ rkeys' = [rkeys EXCEPT ![r] = KeysOnError(r)]
    /\ UNCHANGED <<writerVars, saved, lastGen, rindex, rstatus, quiet>>

SetIndex(r) ==
    /\ poll[r].at = "loaded"
    /\ rindex' = [rindex EXCEPT ![r] = poll[r].pos]
    /\ poll' = [poll EXCEPT ![r].at = "indexSet"]
    /\ UNCHANGED <<writerVars, saved, lastGen, rkeys, rstatus, quiet>>

ReplaceKeys(r) ==
    /\ poll[r].at = "indexSet"
    /\ rkeys' = [rkeys EXCEPT ![r] = poll[r].pos]
    /\ poll' = [poll EXCEPT ![r].at = "keysSet"]
    /\ UNCHANGED <<writerVars, saved, lastGen, rindex, rstatus, quiet>>

SetStatuses(r) ==
    /\ poll[r].at = "keysSet"
    /\ rstatus' = [rstatus EXCEPT ![r] = poll[r].pos]
    /\ lastGen' = [lastGen EXCEPT ![r] = SeenGeneration(r)]
    /\ poll' = [poll EXCEPT ![r] = Resting]
    /\ UNCHANGED <<writerVars, saved, rindex, rkeys, quiet>>

\* A reader keeps nothing on disk.
RestartReader(r) ==
    /\ ~quiet
    /\ poll' = [poll EXCEPT ![r] = Resting]
    /\ lastGen' = [lastGen EXCEPT ![r] = 0]
    /\ rindex' = [rindex EXCEPT ![r] = 0]
    /\ rkeys' = [rkeys EXCEPT ![r] = 0]
    /\ rstatus' = [rstatus EXCEPT ![r] = 0]
    /\ UNCHANGED <<writerVars, saved, quiet>>

\* For the liveness property: publishing and failures stop.
CalmDown ==
    /\ ~quiet /\ quiet' = TRUE
    /\ publishing' = [w \in Writers |-> "idle"]
    /\ wsnap' = [w \in Writers |-> Blank]
    /\ UNCHANGED <<wup, windex, wstatus, wkeys, syncs, saved, readerVars>>

Writer(w) ==
    \/ BootWriter(w) \/ CrashWriter(w)
    \/ RecordStatuses(w) \/ InstallIndex(w) \/ FetchKeys(w)
    \/ TakeIndex(w) \/ TakeKeys(w) \/ TakeStatuses(w) \/ Save(w) \/ SaveFails(w)

Poll(r) ==
    \/ ReadGeneration(r) \/ LoadRow(r) \/ SetIndex(r) \/ ReplaceKeys(r) \/ SetStatuses(r)

Next ==
    \/ \E w \in Writers : Writer(w)
    \/ \E r \in Readers : Poll(r) \/ NoNews(r) \/ LoadFails(r) \/ RestartReader(r)
    \/ CalmDown

\* The poller's ticker fires, and a query that does not fail returns.
Fairness == \A r \in Readers : WF_vars(Poll(r))

Spec == Init /\ [][Next]_vars
FairSpec == Spec /\ Fairness

-----------------------------------------------------------------------------
(* Properties *)

Snapshot == [index : 1 .. MaxSyncs, keys : SUBSET Handles,
             status : 1 .. MaxSyncs, gen : 1 .. MaxSaves]
Draft == [index : 0 .. MaxSyncs, keys : SUBSET Handles,
          status : 0 .. MaxSyncs, gen : 0 .. MaxSaves]
Stages == {"idle", "seen", "loaded", "indexSet", "keysSet"}

\* Every variable keeps its type; every saved row is a whole snapshot with an index.
TypeOK ==
    /\ wup \in [Writers -> BOOLEAN]
    /\ windex \in [Writers -> 0 .. MaxSyncs]
    /\ wstatus \in [Writers -> 0 .. MaxSyncs]
    /\ wkeys \in [Writers -> SUBSET Handles]
    /\ publishing \in [Writers -> {"idle", "index", "keys", "full"}]
    /\ wsnap \in [Writers -> Draft]
    /\ \A w \in Writers : Full(w) => wsnap[w] \in Snapshot
    /\ syncs \in 0 .. MaxSyncs
    /\ saved \in Seq(Snapshot) /\ Row <= MaxSaves
    /\ poll \in [Readers -> [at : Stages, gen : 0 .. MaxSaves, pos : 0 .. MaxSaves]]
    /\ lastGen \in [Readers -> 0 .. MaxSaves]
    /\ rindex \in [Readers -> 0 .. MaxSaves]
    /\ rkeys \in [Readers -> 0 .. MaxSaves]
    /\ rstatus \in [Readers -> 0 .. MaxSaves]
    /\ quiet \in BOOLEAN

\* A reader between two loads serves index, keys and statuses of one and the same
\* saved snapshot, whichever writer saved it and whatever failed before
\* (poller.load).
AtRestOneSnapshot ==
    \A r \in Readers :
        poll[r].at \in {"idle", "seen", "loaded"} => rindex[r] = rkeys[r] /\ rkeys[r] = rstatus[r]

\* What a reader serves never goes back to an earlier save while it runs, though
\* generations are clock readings that may.
ReadersMoveForward ==
    [][\A r \in Readers :
        rindex[r] # 0 /\ rindex'[r] # 0 =>
            rindex'[r] >= rindex[r] /\ rkeys'[r] >= rkeys[r] /\ rstatus'[r] >= rstatus[r]]_vars

\* handleReadyz on a reader.
Ready(r) == rindex[r] # 0 /\ rkeys[r] # 0

\* A ready reader stays ready until it is restarted: no writer that is down, no
\* failed query and no half-done swap takes it out of service.
ReadyStaysReady ==
    [][\A r \in Readers : Ready(r) => Ready(r)' \/ rindex'[r] = 0]_vars

\* Once publishing stops, every reader comes to serve the snapshot in the row, and
\* keeps to it: no interleaving of a save with a load in progress is missed.
ReadersConverge ==
    quiet ~> [](\A r \in Readers : rindex[r] = Row /\ rkeys[r] = Row /\ rstatus[r] = Row)

\* The publisher, the row and the pollers implement the abstract Feed: the row that is
\* overwritten, the clocks and the two queries of a load amount to one sequence of
\* snapshots, of which each reader shows an ever later one and in the end the last.
\* What a reader shows is the position of its statuses, which are swapped last.
Abstract == INSTANCE Feed WITH
    Snapshots <- Snapshot,
    feed <- saved,
    shown <- rstatus,
    closed <- quiet

FollowsFeed == Abstract!FairSpec

-----------------------------------------------------------------------------
(* The inductive invariant behind the safety properties, in named parts.     *)
(* ClusterProofs proves it for every value of the constants.                 *)

\* A running writer has an index and statuses, and only a running writer publishes.
WritersReady ==
    \A w \in Writers :
        /\ wup[w] => windex[w] # 0 /\ wstatus[w] # 0
        /\ publishing[w] # "idle" => wup[w] /\ wsnap[w].index # 0

\* No two saves, done or under way, carry the same generation.
GenerationsDiffer ==
    /\ \A i, j \in 1 .. Row : saved[i].gen = saved[j].gen => i = j
    /\ \A w \in Writers : Full(w) =>
        /\ \A i \in 1 .. Row : saved[i].gen # wsnap[w].gen
        /\ \A v \in Writers \ {w} : Full(v) => wsnap[v].gen # wsnap[w].gen

\* A swap moves the three structures to the loaded row in a fixed order, none of
\* them back.
SwapsInOrder ==
    \A r \in Readers :
        /\ rindex[r] <= Row /\ rkeys[r] <= Row /\ rstatus[r] <= Row
        /\ poll[r].at \in {"loaded", "indexSet", "keysSet"} =>
            /\ poll[r].pos <= Row
            /\ rindex[r] <= poll[r].pos /\ rkeys[r] <= poll[r].pos /\ rstatus[r] <= poll[r].pos
        /\ poll[r].at = "indexSet" => rindex[r] = poll[r].pos
        /\ poll[r].at = "keysSet" => rindex[r] = poll[r].pos /\ rkeys[r] = poll[r].pos

ClusterInv == TypeOK /\ WritersReady /\ GenerationsDiffer /\ SwapsInOrder /\ AtRestOneSnapshot

=============================================================================
