# Formal verification of coredevs

TLA+ models of coredevs, the registry of Ethereum core developers: modules that
follow the Go code, TLC configurations that check them on small instances, and
proofs, checked by TLAPS, of what holds for every size.

- [The system](#the-system): its parts, state, operations and hard behaviours
- [Modules](#modules): which module models what, and how it corresponds to the code
- [Runs](#runs): what each one checks, its bounds, and what it shows
- [Fairness](#fairness)
- [Proofs](#proofs)
- [What the models leave out](#what-the-models-leave-out)

`PROJECT.json` holds the same in a form for tools: the components, the runs, the
lines each definition stands for, the hazards with the properties that cover
them, and for each property a small change of the model that breaks it.

## The system

A pod runs in one of three roles (`cmd/coredevs/main.go`). A **standalone** pod
does everything. A **writer** pod does the same and publishes what it serves to
one row in Postgres. A **reader** pod only loads that row.

| Part | State it keeps | Operations | Talks to |
| --- | --- | --- | --- |
| syncer (`internal/syncer`) | last good result and status per source, exclude list | `Start`, `Seed`, `restoreLastGood`, `Sync`, `fetchOne`, `loop` | sources (one goroutine each), index store, snapshot file |
| index (`internal/index`) | teams and members; the store holds the one that is served | `Build`, `Memberships`, `Users`, `Lookup`, `Get`, `Set` | syncer, API, key cache, publisher |
| snapshot file (`internal/index/snapshot.go`) | the last saved index | `Save` (temporary file and rename), `LoadSnapshot` | syncer |
| Protocol Guild source (`internal/source/protocolguild`) | the missing sections of the last document | `Fetch`, `parse`, `Warnings` | GitHub |
| GitHub org source (`internal/source/githuborg`) | none | `Fetch`, `PublicMembers`, `fetchPage` | GitHub |
| manual source (`internal/source/manual`) | the configured handles | `Fetch` | none |
| key cache (`internal/keys/keys.go`, `cache.go`) | an entry per handle, in memory and in a file each; the warm flag | `Start`, `walk`, `prune`, `fetchOne`, `Refresh`, `Snapshot` | index store, GitHub, disk |
| key reader (`internal/keys/reader.go`) | the entries of the loaded snapshot | `Replace`, `Get`, `Warmed` | poller, API |
| publisher (`cmd/coredevs/cluster.go`) | none | `publish`, on start and on a ticker | index store, key cache, syncer, store |
| poller (`cmd/coredevs/cluster.go`) | the generation it loaded last | `load`, on start and on a ticker | store, index store, key reader, statuses |
| store (`internal/store`) | one row: generation and data | `Save` (upsert), `Generation`, `Load` | Postgres |
| API (`internal/api`) | none | handlers, readiness, the on-demand key fetch | everything, for reading |
| configuration (`internal/config`) | read once | `Load`, `Validate`, inversions of the registry | wiring |

What makes it hard, and what makes each part correct:

- **Syncer.** Sources fail alone or together, in any order, at every sync and at
  every boot, and the process may die between any two steps. A source that fails
  must be stood in for by its last good result, which must survive restarts; what
  is served and what is saved must never lose a source for a failure; and a source
  that stays broken must not freeze the others.
- **Sources.** The Protocol Guild document is markdown: which team a row counts for
  depends on the lines before it, and a restructured document still parses. The
  members of an org are read page by page while people join and leave, and an org
  that fails is skipped in silence. Every member must be attributed to the section
  they are under, a status without error must mean a sound document faithfully read,
  warnings and counts must be true of the document and the success they speak of,
  also after a restart that restores a fallback, and paging must end and lose no more
  than those who move.
- **Index.** It is built from rows that arrive in any order, and flattened back
  into rows at every restart. No member, source, org or name may get lost or end
  up with someone else, and the order may decide nothing but display.
- **Key cache.** The walker, on-demand requests and the syncer that replaces the
  index run concurrently; answers come late and overtake each other; memory changes
  under a lock and the files after it. No developer's keys may be dropped while the
  developer is indexed, no stranger's keys may get in, and in the end the cache must
  agree with GitHub.
- **Publisher, store, poller.** Four clocks and no lock between them: a snapshot is
  read in three steps, generations are wall clock readings of pods that come and go,
  a save may land between the two queries of a load, and a load swaps three
  structures one by one. A reader must come to rest on one whole snapshot, never go
  back, and never miss the last one.

The list of hazards in `PROJECT.json` names these at their lines.

## Modules

| Module | Models | State | Steps |
| --- | --- | --- | --- |
| `Syncer` | the syncer, the snapshot file, and as far as it restarts from them the boot order and the published row | where `Sync` stands, its locals, the served index, `lastGood`, statuses, file, row | boot, each end of a fetch, hold back, install, save or fail, publish, crash |
| `Registry` | the team registry and its inversions, the manual rows | none | none: constants and operators |
| `ProtocolGuild` | the Protocol Guild source | the document so far, the current team, the headers seen, the rows, the warnings | download, each line, end of the document, failure, restart |
| `GitHubOrg` | the GitHub org source, and the member lists at GitHub | where `Fetch` and `PublicMembers` stand, what they have collected; the lists | each page, each skipped org, restart; someone joins or leaves |
| `Sources` | both and the manual source behind `fetchOne`: floors, status, fallback | which sources are built, statuses, `lastGood` | those of the sources, each fetch accepted or rejected, and a restart that restores fallbacks |
| `Pipeline` | `Syncer` with `GitHubOrg` inside it, and the orderly shutdown | those of both, and whether the context is cancelled | those of both, cancel, exit |
| `Index` | `Build`, `Memberships`, `Members`, `Users`, `Lookup`, and the filters and counts of the API | the rows gone through and the index they made | one turn of the loop of `Build` |
| `KeyCache` | the key cache and its files | index, GitHub's keys, entries, files, the walker's stage, one job per fetcher | sample, prune, remove, pass, ask, answer, update, persist, load, crash |
| `Cluster` | publisher, row, poller, key reader | each writer's index, statuses, keys and snapshot in the making; every row saved; each reader's load and three serving structures | each read of `publish`, upsert, each query and swap of `load`, failures, restarts |
| `LastGood` | what `Syncer` promises, in the abstract | per source: answer, served, kept | start, hear, serve, keep, stop |
| `Feed` | what `Cluster` promises, in the abstract | a sequence of snapshots, the position each reader shows | add, advance, restart, close |
| `MCSyncer`, `MCIndex`, `MCKeyCache`, `MCCluster`, `MCSources`, `MCPipeline` | small instances of these, and properties that only a run needs | | |
| `SyncerProofs`, `IndexProofs`, `KeyCacheProofs`, `ClusterProofs`, `ProtocolGuildProofs`, `GitHubOrgProofs`, `SourcesProofs`, `PipelineProofs` | theorems about them | | |

**How the modules go together.** `Sources` extends `ProtocolGuild` and `GitHubOrg`,
which extend `Registry`: the three sources share only the registry, so their steps
interleave freely. `Pipeline` extends `Syncer` and instantiates `GitHubOrg` in the
place of the one step in which `Syncer` lets that source answer. `Syncer` implements
`LastGood`, and `Cluster` implements `Feed`, each by a refinement mapping at the end
of its module. `Sources` takes what a boot may find to restore as a constant,
`Restorable`: that it is a source's earlier accepted result is what `Syncer` shows.
`LastGood`'s registers are the parts of the index and of the snapshot
file that belong to one source; `Feed`'s sequence is every row ever saved, and what a
reader shows is the position of its statuses, which a load swaps last.

**How data is abstracted.** In `Syncer` an index is the set of memberships it was
built from. What entitles it to do so is `SetsStandForIndexes` in `Index`, which is
proved: the set is that of the rows, it is empty when the index is, restoring one
source gives that source's part of it, and leaving out the rows of excluded handles
leaves those handles out of it. In `ProtocolGuild` a line is what the regular expressions make of it. In
`GitHubOrg` a list of members is a sequence, since its order decides which page
someone is on. In `KeyCache` the keys GitHub has for a handle are a version number. In
`Cluster` an index is the number of the sync that made it, a set of keys the
handles that have some, and what a reader serves is the position of the save it
came from in the sequence of all saves: two structures come from one snapshot if and only
if their positions are equal.

**How steps are cut.** A step is what one goroutine does between two moments at
which another can see or change what it works on: under one lock, one SQL statement,
one HTTP exchange, one rename. So `fetchOne` of the key cache is three steps (the
answer, the update under the lock, the file written after it), and `Sync` is one
step per source, one for the install and one for the save. A crash may come before
and after each.

**Faulty helpers.** Some helpers say "faulty" in their comment. They are not part
of the specification: each is a plausible bug, put in the place of the helper it
precedes to see that the named property notices it.

**Histories.** `latest` in `Syncer` extends `LastSuccess` by the result it is about;
`everIndexed` in `KeyCache` remembers the handles ever indexed; `saved` in `Cluster`
keeps overwritten rows; `lines` in `ProtocolGuild` keeps the document, and `stayed`
and `left` in `GitHubOrg` record who was public all the while an org was read and how
many have left from its pages already read. No step depends on what they remember beyond what the code
itself keeps. `settled`, `calm` and `quiet` say that from now on the environment does nothing more,
as the liveness properties presuppose.

## Runs

Passing runs:

| Run | Instance | What it shows |
| --- | --- | --- |
| `syncer_standalone` | one pod, two sources, two handles, two teams; floors, exclude lists that change from boot to boot; fetches, saves and loads that fail; crashes anywhere | what is served and what is saved of a source moves only to that source's accepted results; when all sources are green, what is served is current; otherwise it is every source's fallback, less the excluded handles, unless a source has failed and has none; healthy sources keep updating; all of it implements `LastGood` |
| `syncer_writer` | the same as a writer whose disk is lost with the pod | after a restart, a source that has not been fetched since is served, and published, as it was before |
| `index` | every sequence of up to three rows out of sixteen: two casings of a login and a second person, two teams, three sources, two orgs, a name, two incomplete rows | the index is the superset of its rows; flattening and rebuilding is the identity; order decides only display; `Users` and `Lookup` agree with it; the part of one source is the same in the filtered views, the counts and the fallback a restart restores; a set of memberships can stand for an index, in what `Syncer` does with it |
| `keycache` | two handles, the walker and one request, a changing index, keys that change once, failing fetches, failing file operations, crashes | only indexed handles are cached; no keys are dropped while wanted; the walker says warm when its pass is complete; the cache gets in step with GitHub and stays there |
| `cluster` | two overlapping writers, a reader, two syncs, two saves with generations in any order, failing saves and loads, restarts | a reader at rest serves one snapshot, moves forward, stays ready, and converges on the row; all of it implements `Feed` |
| `sources` | two teams; three configured sections of which one is claimed twice and one never appears, an unmapped section, headers with and without a count, nested links; two orgs, one of both teams, with an account without a login; people who join and leave; floors and a budget; restarts at any moment, with something to restore or nothing | members follow their section; green means a sound document faithfully read; warnings are those of the last document parsed; counts are those of the last success and of the fallback that goes with it, and 0 beside a restored fallback until the first success; paging loses at most one member for each who leaves, and ends |

Runs that find a disagreement between the code and what is written about it:

| Run | What is written | What the code does |
| --- | --- | --- |
| `syncer_load_fault` | README: a broken upstream cannot erase the good state readers are served | a writer that cannot read the row at boot starts from nothing and publishes a partial index over it |
| `syncer_stale_file` | README: a writer reloads what it last published to Postgres | a snapshot file left by a container restart overrides the row, though it may be older |
| `keycache_warm` | `keys.go`: warm means the first full pass is done, so no partial team keys | one file left by a pass that was cut short is enough |
| `cluster_keys` | `writer-deployment.yaml`: a writer's downtime does not affect serving | a new writer publishes the few keys it has so far, and readers drop the others |
| `cluster_coherent` | `snapshot.go`: a snapshot is one coherent generation | index, keys and statuses are read one after the other, around a running sync |
| `org_outage` | README: a transient upstream outage never drops a team; `syncer.go`: never let a partial view reach disk | an org whose request fails, or is cancelled by a shutdown, is skipped without an error; without a floor (as in `config.yaml`) the rest is fresh, and is saved over what was good |

**Bounds, and why they are enough.** *Syncer*: two sources, because every guard of
`Sync` speaks of one source that failed and another that did not; sets of answers
with two good ones, one under the floor, an empty one and an error, so that a source
can change, shrink, fail and come back. No counter bounds the run: all its syncs,
crashes and restarts are explored. *Index*: a cell needs a row that founds it and a
row that adds to it, and a third is needed to show that a first name is kept; the
proof covers the rest. *KeyCache*: `MaxVersion` 1, so a fetch can bring an old or a
new version and no other; two handles, so that one can leave the index while the other stays; one
request beside the walker, since every race is between two fetches of one handle. A
second request was left out for size; the safety properties are proved for any
number. *Cluster*: `MaxSaves` 2, since every race is between a load and one save,
and two saves have their generations in either order; `MaxSyncs` 2, so an index can
differ from its statuses. The safety properties are proved for any bounds.
*Sources*: `MaxLines` 4, since a row depends on the nearest header or heading before
it and the worst case is a header, another one, and two rows; `PageSize` 2 with lists
of four and of two, so that an org ends on a full page, or on one that is not once
someone has left or joined, and two can be missed; `MaxMoves` 2, so that one person leaves and one joins, or two
leave. Each floor is set for one source, and a behaviour has one of the two
downloading sources switched on, or none, beside the manual one: the sources share no
state, so their product would only multiply states. A boot finds nothing to restore or a
fallback of every source, since a status never depends on what it is. Restarts are not
counted. The safety properties are proved
for any bounds, floors and registry, with all the sources on. *Pipeline*: two teams with
an org each, nobody moves; the counterexample needs no more.

Every deadlock is checked for: none of these systems may stop.

Two remarks on what the runs taught. With restored fallbacks in place, no single
change of the guard that holds back a partial index breaks a property of `Syncer`:
`HoldsBack` is a second line of defence, for sources that were never seen. And a
pod that starts for the first time, with a source broken, does serve a partial
index, since there is nothing it could hold on to.

## Fairness

- `Syncer`: the pod is restarted (Kubernetes), the ticker fires, a fetch ends one
  way or the other (the HTTP client has a timeout of 30 s), the steps of `Sync` are
  taken and a local write ends. Nothing is assumed of the outcome of a fetch: a
  source may fail forever. Publishing is not assumed.
- `KeyCache`: the pod is restarted, the walker's sleeps end, and every fetch, by the
  walker or a request, ends (client timeout; 15 s for a request).
- `Sources`: a request of the org source ends, one way or the other (client timeout),
  so its goroutine goes on. Nothing is assumed of the outcome, nor of the other
  sources. That people do not join forever is not fairness but the bound `MaxMoves`,
  and that a page asked for is the page answered is GitHub's part.
- `Cluster`: the poller's ticker fires and its queries return. Nothing is assumed of
  the writers.

`Feed` is fair too: a reader of a closed feed does not stop short of its end. `Cluster`
is shown to implement that from the fairness above.

All of it is weak fairness: each step stays possible until it is taken.
The liveness properties hold from the moment the environment stops changing
(`Settle`, `CalmDown`), which it may never do: none of them assumes that it does.

## Proofs

TLAPS checks these for every value of the constants that satisfies the named
assumptions of the modules. Each follows one pattern: an inductive invariant, a
lemma per group of steps that preserve it, and the property from the invariant.

| Theorem | Says | Argument |
| --- | --- | --- |
| `SyncerInvariant`, `TypeCorrect` | `SyncerInv` is an invariant | `Retained` (a fallback is the latest accepted result), `Collected` (a running sync has gathered exactly the fallbacks of the sources that are done), `UpServes`, and three links between fallback, served index, file and row |
| `SnapshotSafe` | a save moves each source's part of the file to its latest result or leaves it | at a save nothing is starved (`Collected`), so each source contributes its fallback, which is its latest result (`Retained`) or what the file has (`FallbackSaved`) |
| `ServedSafe` | the same for what is served | as above with `FallbackServed`; it presupposes that a boot restores from one place |
| `RestartServesFallback`, `PublishedSafe` | a source not fetched since the boot is served, and published, as before | `ServedPublished`; they presuppose that the copy can be read and, for a writer, that the file is gone: the runs `syncer_load_fault` and `syncer_stale_file` show that neither condition can be dropped |
| `IndexTyped`, `BuildCorrect` | `Build` computes the superset of any rows | the superset of the rows so far is inductive; a row about a new cell and a row about a known one are two lemmas (`FirstAbout`, `AnotherAbout`) |
| `RoundTripHolds` | any index, flattened into rows and built again in any order, is the same index | `BuildRight`: the recursive `Build` gives the superset of its rows; the rows of a flattened member (`RowsOfCell`) all carry its casing and name and together its sources and orgs, so the superset of them is that member again |
| `OrderShowsOnlyInDisplayHolds` | rows in another order differ in display casing and name only | the superset of rows determines everything else by the set of rows, which a permutation keeps (`PickedRows`) |
| `UsersFoldTeamsHolds` | `Users` lists everyone who is on a team with all their teams, sources and orgs, and the first casing and name | after any number of slugs, the people met are right for those slugs (`PersonOf` at those positions) |
| `ViewsOfASourceAgreeHolds` | filtered views, counts and a restored fallback agree on the part of a source | `BuildRight` on the rows of that source, and the theorem about `Users` |
| `SetsStandForIndexesHolds` | `Syncer` may keep a set of memberships in the place of an index | `BuildRight` on the rows of a source, and on those an exclude list leaves |
| `KeyCacheInvariant`, `NoOpenProxy` | only handles that were once indexed are fetched, cached or written | every way a handle travels (sample, pass, request, job, entry, file) carries the bound along |
| `KeysKept` | fetched keys leave a running process only by a prune that does not want them | no other step lowers an entry (`UpdateStores`) |
| `WarmIsComplete` | a walker says warm only when its whole pass has entries | `PassAccounts`: each handle of the pass is to be fetched, in hand, or has an entry |
| `ClusterInvariant` | types, distinct generations, swaps in order | `WritersReady`, `GenerationsDiffer`, `SwapsInOrder` |
| `GreenCurrent` | with all sources green, what is served is what they last answered | a consequence of `StatusInv` below: a source without an error has answered, and its fallback is that answer (`Retained`) |
| `HeldBackOnlyStarved` | between syncs every fallback is served, less the excluded handles, unless that is nothing or a source in error has no fallback | `StatusInv` says it of the idle syncer and, of a running sync, that a starved source is in error with no fallback, and that one done without an error has an answer; by `Collected` an install is then the whole of the fallbacks (`CollectedWhole`), and a hold-back needs a starved source |
| `Implements` | a standalone pod implements `LastGood` | each step maps to a step of one register set or to a stutter: a boot starts, an accepted fetch is heard, an install serves and a save keeps, by the lemmas behind `ServedSafe` and `SnapshotSafe`; everything else leaves the mapping alone |
| `ParserTyped`, `ParserRight`, `RowsOfGuild` | members follow the section they are under, in documents of any length | `TeamFollows` (the current team is that of the nearest header) and `Gathered` (the rows so far are those of the counted lines so far) |
| `WarningsCurrent`, `GreenFaithful`, `CountsRight`, `SourcesTyped` | through restarts that restore anything: warnings are those of the last document this process parsed, a green status tells of it, counts are those of the fallback once the source has succeeded, and 0 beside the restored one until then | `SourcesInv`: between fetches the status and the fallback are those of the document in `lines`, or a rejected one left them, or the process has just begun |
| `PagingTyped`, `PagingLoses`, `OrgsLose` | reading an org loses at most one of those who stayed for each who left behind the reader | `Accounted`: those who stayed, are listed on pages already read and were not read are at most as many as have left from those pages |
| `PipelineIsSyncer`, `PipelineSaves`, `PipelineServes`, `PipelineImplements` | with the org source opened up and a shutdown at any moment, `Syncer`'s safety remains | each step is a step of `Syncer` or leaves it alone |
| `AnswersFit` | what the opened source returns is an answer that `Syncer` allows for, within the sync that waits for it | the types of `GitHubOrg`, and that the goroutine exists within a sync only; without it the theorem above might hold because a step is blocked |
| `ImplementsFeed` | writers, row and readers implement `Feed` but for its fairness | a save adds, the swap of the statuses advances or repeats a position, a restart restarts; `QuietIsIdle` says that nothing is saved once the feed is closed |
| `OneSnapshot`, `MovesForward`, `StaysReady` | a reader at rest serves one snapshot, never goes back, stays ready | `SwapsInOrder` knows at each stage of a load which structures have moved, and that the loaded position is not behind what is served |

None of the stated properties is inductive by itself. `SnapshotMovesOnlyByFetch`,
say, speaks of the file only; that a rejected fetch leaves it alone depends on the
fallback, which depends on what was restored at the boot, which came from the file.

What the theorems assume of the constants is named in the modules: in `Registry`,
`ProtocolGuild` and `Sources` in particular that the teams, the configured sections
and the manual rows are finite in number, which they are as parts of a file. Two
theorems have conditions of their own: those about a standalone pod say `~IsWriter`,
and those about `Pipeline` say `WellConfigured`, which is what `GitHubOrg` assumes of
its constants and that `Syncer` leaves the org source free in what it answers.

`Build` and `Users` are recursive functions, and the theorems about them hold for
any number of rows and slugs. The induction they need is the lemma `CountingUp` of
`IndexProofs`, stated about a set of naturals and not about a predicate, which the
provers could not instantiate: a set that holds 0, and with each number below `n` the
next, holds all up to `n`, or else there would be a least number missing. Each use
names the set of turns after which the loop is right.

What the theorems of `Index` assume is `IndexAssumption`: rows are well formed, only
rows of the org source carry an org, and the slugs are finite in number and listed in
`SlugOrder`. How the order is made does not matter to any of them.

Every safety property of a passing run is stated by a theorem. Only model-checked:
the liveness properties (`HealthySourcesKeepUpdating`, `CacheGetsInStep`,
`ReadersConverge`, `FetchEnds`) and the fairness of `Feed` in `FollowsFeed`. They rest
on fairness, hence on ENABLED, which the prover does not handle.

## What the models leave out

- *Syncer*: times and error texts of a status; that its fields are written without
  the lock under which they are copied, so a copy may show half of an update; a source
  that is switched off between two boots. What a source may answer is a constant,
  which `Pipeline` replaces for the org source.
- *Sources*: a source that is switched on or off between two boots (a restart keeps the
  configuration); the regular expressions themselves; the order of a team's lists and
  repeated entries in them; names of people; requests, headers and rate limits. A
  page is read in one step.
- *Pipeline*: the last steps of a shutdown, which only wait. A sync may still start
  after the context is cancelled, as when `loop` finds the ticker ready too; a publish
  then fails. A writer's row is in `Syncer` only.
- *Index*: the sorting of lists, which is for display.
- *KeyCache*: pacing and the rate ceiling, the warm timeout (after which a pod is
  ready in any case), timestamps, and a cache without a directory. The text of the
  keys is not parsed.
- *Cluster*: two saves in one nanosecond; a key cache or an index too large for a
  row; errors recorded by a sync that installs nothing; developers who drop keys or
  leave the index. A writer's sync is two steps here and all of `Syncer` there.
- Loading and validating the configuration (they run once, before everything else), the
  text formats of the API and its on-demand view of an org (the client of `GitHubOrg`
  and nothing kept), the metrics that only export times and key counts, and the Helm
  chart beyond what it says of restarts.
- Requests of the API that read the index and then the keys, and so may mix two
  generations: `AtRestOneSnapshot` says when that can be. Putting every request into
  `Cluster` would multiply its states and say no more.

Five remarks on what the comments of the code say, found while modelling and left
without a run of their own. `Statuses` is said to be sorted by name and returns the
order of a map; `Sync` is said not to publish, and does. The warnings are said to be
of the "most recent fetch" (`syncer.go`, at `SourceStatus` and `Reporter`), but a
fetch whose download failed leaves them as they were: they are of the last document
parsed, as `protocolguild.go` says, and `WarningsTellOfLastDocument` states that.
The alert `CoredevsSourceTeamsCollapsed` is said to mean that section headers
changed, but `restoreLastGood` restores the fallback and not its counts: after a
restart during an outage of the document the count of teams is 0 beside the fallback
that is served, and the alert fires though no document was read.
`CountsTellOfLastSuccess` has both sides of it: 0 until the first success of the
process, and from then on never below the floor, which equals the alert's threshold,
since a collapse is rejected. And the README says that manual members are always
included, and `config.yaml` how excluded handles are dropped: both are true of what
a sync builds, but not of what is served while a source is starved, since the result
is then held back. `HeldBackOnlyWhileStarved` shows that there is no other
exception.
