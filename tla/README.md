# GameRec in TLA+

GameRec recommends games by the text of their Steam descriptions. Once a night an ingest fetches
games from Steam, keeps their text in a file, turns it into vectors and stores those in MinDB; an API
searches the vectors for a web page; a sidecar backs the whole up to object storage, from where it can
be restored; a small Java service keeps what each user owns. This directory holds a formal model of what
in it can lose, corrupt or mix up data: TLA+ modules translated from the source, runs of the model
checker TLC on small instances, and proofs that TLAPS checks for every instance.

- [1. The system](#1-the-system): components, state, interaction, hazards
- [2. The modules](#2-the-modules) and how they correspond to the code
- [3. What is checked](#3-what-is-checked): runs, bounds, fairness
- [4. What is proved](#4-what-is-proved)
- [5. Where the code does not do what it says](#5-where-the-code-does-not-do-what-it-says)
- [6. Not modelled](#6-not-modelled)
- [7. Plan](#7-plan)

To check a run, `tlc -config IngestOnePod.cfg MCIngestRun.tla`; to check proofs,
`tlapm Backup_proofs.tla`. `PROJECT.json` lists the runs, the code lines of every definition, a
mutation of the code for every property that the property catches, the findings and the hazards.

## 1. The system

### Components

| component | state it keeps | operations | correct when |
|---|---|---|---|
| ingest lease, `gamerec/lease.py` | the object `locks/ingest.json`: token, owner, expiry | `acquire`, `renew`, `release` | one job works at a time; a dead job's lease does not block its own restart; an abandoned lease is taken |
| nightly ingest, `ingest/run.py` | what one run has in memory: claims, plan, batch, cursor | `main`, `_run`, `plan`, `fetch_one` | after any interruption the stores below agree well enough for the next run to go on |
| checkpoint, `gamerec/checkpoint.py` | `checkpoint.json`: appids seen, status, refresh cursor, model stamp | `load`, `mark_pending`, `mark_complete` | COMPLETE means that a snapshot has what it claims |
| document store, `gamerec/corpus.py` | `documents.jsonl`, one line per fetch, latest wins | `append`, `load`, `appids`, `compact` | no document is ever lost |
| name index, `gamerec/names.py` | `names.json`: name and status of every appid met | `merge`, `load`, `appids_with`, `resolve` | "in corpus" means that there is a document |
| MinDB and its client, `gamerec/mindb.py` | vectors in memory, write-ahead log, `mindb.snap`, `mindb.snap.meta` | insert, search, get, snapshot | (external) |
| object store, `gamerec/objectstore.py` | objects by key | get, put, put-if-absent, delete, list | (external behind a thin client) |
| backup sidecar, `ops/backup.py` | what it last backed up; generations `gen-<time>/` | `--watch`, `back_up_once`, `write_generation`, `prune`, `sync_documents` | a generation appears whole, its checkpoint claims no more than its snapshot has, enough of them stay |
| restore, `ops/restore.py` | the volume it writes | `fetch_generation`, `_verify_checkpoint`, `write_files`, `retire_wal` | a snapshot comes with the checkpoint that describes it, no log is lost, MinDB comes back |
| reindex and stamp, `ingest/reindex.py`, `gamerec/stamp.py` | the model stamp of the checkpoint | embed and insert every document again; `assert_ingestable` | no index of two models passes for one; a reindex that completes is whole |
| Steam client and throttle, `ingest/steam.py`, `ingest/throttle.py` | token bucket, two retry budgets | `fetch_popular`, `fetch_details`, `acquire`, `penalise` | the rate is kept, only an answer is a verdict, the run ends |
| recommend API, `api/main.py`, `api/library.py` | cached name index | `GET /recommend` | the cached names are the file's; the page is full where it can be; excluded games are not on it |
| library service, `services/library-service` | a user's entries | PUT, DELETE, list | concurrent requests act one at a time, and are refused only when they race |
| web page, `web/app.js` | button and status line | submit, `ask` with its retries, `render` | every submit settles |

Narration, embeddings, document rendering and configuration are pure or numerical; benchmarks,
deployment and the generated MinDB stubs carry no logic of their own.

### How they interact

A run of the ingest is one process. Its writes go, per batch, in this order:

    documents.jsonl  ->  names.json  ->  vectors in MinDB  ->  pending checkpoint  ->  renew the lease

and, after the last batch, final snapshot -> COMPLETE checkpoint -> compaction of `documents.jsonl` ->
copy of the document store to object storage -> release of the lease. Nothing ties two of these
writes together: the order alone makes a kill in between harmless. MinDB takes snapshots when a run
asks for one and also on its own clock, and may come back from a restart with less than it had. The
sidecar sees files only: it watches the modification time of `mindb.snap`, reads the checkpoint and
then the snapshot, and uploads both. Runs are kept apart by the lease, for which object storage offers an
atomic create-if-absent and otherwise plain get, put and delete. A reindex takes the same lease, writes
the same vectors and the same checkpoint, and changes its stamp. A restore takes none: it relies on an
operator who has stopped MinDB, and puts checkpoint, .meta and snapshot on the volume in this order,
then moves the log of the old snapshot aside.

A request of the page goes to the API, whose calls run in threads: names.json (cached, reloaded when its
modification time has changed), MinDB's get for the vector of a seed, the library service for what the user
owns, MinDB's search, and a second get to compare the hits with what the user ruled out. The files, the
corpus and the library change under it; a 503 the page retries.

What is hard here, and hard to reach by a unit test:

- a kill, an exception or a lost log between any two of the writes, and everything the runs after it
  inherit;
- the lease: each of its steps acts on a reading that may be old by then;
- the checkpoint is read before the lease is held;
- torn lines and torn files, and what is later appended to them;
- the sidecar reads three files one after the other while two other processes replace them;
- a marker that must come last on the way in and first on the way out, while any put or delete may
  be the last one that happens;
- a restore killed between two files, or with an ingest waiting for MinDB;
- an index that is of two models for as long as a reindex takes, and a stamp that one job compares and
  another one changes;
- a bucket that refills while its owner sleeps, and two budgets that must not be spent on one another;
- requests whose parts see different versions of the names, the corpus and the library;
- transactions that act on a row they read earlier;
- what must happen in the end although backups fail, sidecars restart and snapshots come and go.

`PROJECT.json` lists these as hazards with their lines.

## 2. The modules

    Lock             what a lease promises (abstract)
    IngestLease      the lease protocol, one step per call to object storage; implements Lock
    IngestRun        runs of the ingest, the stores they write, MinDB's snapshots, every failure
    Generations      what backups promise a restore (abstract)
    Backup           the sidecar beside an abstract ingest and MinDB; implements Generations
    Restore          a restore of one of those generations, MinDB's boot, an ingest that waits for it
    Reindex          ingests and reindexes under the lease, the stamp, changes of the image
    Throttle         the token bucket, and a meter that says what a budget is
    Steam            EXTENDS Throttle: the popularity scan and the fetches of a run
    Recommend        calls of GET /recommend, and what changes under them
    WebPage          EXTENDS Recommend: the page that makes and repeats those calls
    Library          what the library service promises (abstract)
    LibraryService   its transactions; implements Library
    MC*              instances for TLC
    *_proofs         theorems about the module of that name

Each level keeps of the one below what it needs. `IngestRun` has the lease as one variable, `holder`,
with `LeaseMode` for how far it is kept, because `IngestLease` settles what the protocol guarantees.
`Backup` has of the ingest only the order append, insert, claim, snapshot, COMPLETE, because the rest
of `IngestRun` writes nothing the sidecar reads. `Restore` takes any content a sidecar may have uploaded,
under the one assumption that `Backup` shows of it (`Generations!Covered`: but for what failures kept from MinDB, a COMPLETE
checkpoint claims what its snapshot has), and damages it. Both leave out games that are claimed without a document. `Reindex` has of the
ingest what the stamp depends on. `Steam` is `fetch_one` of `IngestRun` answer by answer.

### IngestLease

One action per request: `Create`, `Read`, `Recreate`, `Reread`, `Delete`, `Steal` are the calls of
`acquire` in their order; `RenewRead`/`RenewPut` and `ReleaseRead`/`ReleaseDelete` the two calls each of
`renew` and `release`. What a run has read stays in `seen` until the write it justifies. `moment` is
`now` as `acquire` samples it once. A run's token is the run itself (a fresh uuid4); `Owner` is the pod name and
pid, which a container restarted in place shares with its dead attempt. `Begin` lets such an attempt
start only when the one before has stopped. The lease may be unreadable at the start. `staleWrite` is a
history variable: it notes that a put or delete hit an object other than the one that was read.

`Lock` is a set of `holders` that one run at a time enters when it is empty, and that becomes empty again; after
the first write that came too late (`StaleWrite`) it promises nothing. `IngestLease` implements it with the runs that are
entitled to work, by their own record of the expiry, as `holders` and `staleWrite` as `broken`.

### IngestRun

A game is its appid. `documents` are the appids that `documents.jsonl` has a readable line of,
`surplus` its other lines (the compaction threshold counts them), `tornTail` says that the file ends
without a newline, and `unended` has the game of that last line if it can be read all the same and is its game's only one: the cut came
between the JSON and the newline. What is appended next runs into that line, and the two can be read no more (`Write`). `names` is the name index by status, `namesTorn` a `names.json` that was cut
short. `index`, `snapshot` and `offsite` are the appids in MinDB, in its snapshot and in the copy of the documents in
object storage. Each run has a program counter and what it carries in memory.

`LoadCheckpoint`, `AcquireLease`, `StandDown` and `Resume` are `main` up to the resumption from claims and
corpus; `WrongDimensions` the early return; `Scan` is `fetch_popular` with any part of the catalogue and
any side of the review floor for each game; `Plan` is `plan`: new games, games promoted over the floor,
then refreshes in rotation after the cursor, at most `MaxUpdates`. `Fetch` answers for a batch with any
verdicts `fetch_one` can give. Then one action per write: `AppendDocuments`, `MergeNames`, `Insert`,
`MarkPending`, `PeriodicSnapshot`, `Renew`, `FinalSnapshot` (or `FinalSnapshotFails`), `MarkComplete`,
`CompactLoad`, `CompactReplace`, `SyncDocuments`, `Release`.

Failures: `Kill` between any two steps, `KilledInAppend` within the lines of a batch, within a line or just before its newline,
`KilledInMerge` within `names.json`, `Raise` (an exception, which passes the sync by and reaches the
release), `NamesUnreadable`, `MinDBLosesLog`. After a kill the pod may be scheduled again, for ever.

Two history variables name what failures excuse: `orphans` are documents whose insert a failure
prevented or whose vector a lost log took; `glued` are games whose last line was written onto one without a newline, or was
written onto, and that have no other line.

### Backup and Generations

`Generations` is a set `visible` of generations to which one is added (`Publish`: newer than all, and
its COMPLETE checkpoint claims nothing that its snapshot lacks, games a failure kept from MinDB
excepted) or from which the oldest is taken (`Withdraw`: only while `Retain` newer ones stay).

In `Backup` the bucket holds every generation ever begun with the keys that are in it at the moment.
The program counter of the sidecar goes through the loop of `main` and `back_up_once`: `Tick` (the time
differs from the one remembered), `TakeDigest` (same vectors: remember and sleep), `LoadCheckpoint` (parse,
and give up unless COMPLETE), `ReadBytes` (the second read of the same file), `ReadData`, `ReadMeta` (and
the second stat), `Put` for each of files, manifest and marker, `Prune` (list and choose),
`Delete` key by key in the byte order in which object storage lists them, `Done`. `BackupFails` is the exception
handler of the loop, `SidecarRestarts` a new container. MinDB's save is two renames in either order,
which the code does not control. `visible`, the generations with a marker, is the refinement mapping.

The data files of a generation are one key ("files"): they are put one after another and each counts
for nothing without the others. Two backups never share a prefix: names have a resolution of one
second, and the loop sleeps between two attempts.

### Restore

A snapshot is a number that grows with every save; MinDB's .meta and log carry the number as run id. The job:
`Start` (any generation) or `StartNewest`, `GetMarker`, `GetManifest`, `GetFile` for one file of the
manifest after the other, `Verify` (`_verify_checkpoint`, and the refusal to overwrite without `--force`),
`WriteCheckpoint`, `WriteMeta`, `WriteSnap`, `RetireSegment` one rename at a time, `Restored`; `Killed` between any two.
A generation may lack its .meta, hold a pending checkpoint, have damaged bytes, or be pruned key by
key meanwhile (`PruneKey`). MinDB is external: `Boot` replays the log that is there, `BootRefused` when log and .meta disagree.

The ingest beside it is that of `IngestRun` as far as claims go: `IngestLoads` the checkpoint, waits for MinDB, `IngestResumes` with
its documents added to its claims (`run.py:211-212`), then for each batch `IngestAppends`, `IngestInserts`, `IngestClaims`, and at the end
`IngestSaves` and `IngestCompletes`; `IngestEnds` anywhere. documents.jsonl is not part of a generation, so after an older one is restored
the documents are ahead of MinDB: `missed` is a history variable for the games MinDB need not have a vector of, because a failure or
such a restore kept it out. `torn` is another: the checkpoint may be of another snapshot, since a restore has written
one and not the other, or an ingest was under way or wrote the checkpoint (`job.beside`) meanwhile. `orphaned` has the segments
moved aside since the last snapshot came onto the volume: later ones may overwrite those of before, as `os.replace` does.

### Reindex

A vector is the model it was made with. Jobs take the image's model when they start. An ingest loads the checkpoint and
compares stamps (`StartIngest`) before it has the lease (`AcquireIngest`); a reindex reads both documents and
claims under it (`AcquireReindex`), then `ReindexInserts`, `ReindexMarks`, `ReindexSnapshots`,
`ReindexRenews` for each batch, and `ReindexMarksAll`, `ReindexFinal`, `ReindexCompletes` at the end. `Dies` anywhere,
with or without giving the lease back. The history variable `mixing` names why the stamp
need not be the model of every vector: a first run that died before there was a stamp, a stamp
that was stale when it was compared, a reindex that is not finished. A reindex that completes clears it. A lease expires only
when its job is dead: that a working job overruns it (`run.py:267-281`) or has none, without object storage (`reindex.py:50-52`), is left out.

### Throttle and Steam

The balance of the bucket is counted in ticks, `Period` to a token, so nothing is a fraction; it may be
negative, a debt that `acquire` sleeps off. `Reserve`, `Acquire` and `Penalise` are the methods, `Tick` the clock. The
meter (`spent`, `elapsed`) starts anew at any moment, so a bound on it is a bound on every
stretch of time up to `Window`. `Steam` adds `ScanPage` (a page of a catalogue in any order), `ScanFails` (the request for
a page or its JSON raises, which is not tried again and ends the run), the floor
(`FilterGame`), and the loop of `fetch_details`: a token, a request, and one of the answers the code tells
apart (`AnsweredWithDetails`, `AnsweredWithNothing`, `Throttled`, `FailedOnce`, `FailedLast`); `GiveUp` after
the last rate limit.

### Recommend and WebPage

Each call has a program counter: `Stat`, `Load`, `Keep`, `Stamp` are `_names`, whose two assignments to the cache
are two steps because calls run in threads; then `ResolveSeed`, `AskLibrary`, `Search`, `DropNegated`, each one request
to another process, skipped where the query does not ask for it. `MinDBFails` is the 503. A search returns any ranking
of the corpus at that moment; which games are closer to what was ruled out is part of the query. A negation costs
the second get and the headroom whether or not any game is closer to it. Beside
the calls: names.json is truncated and written, each with the modification time of the write before it or a new one (`Stamped`: the
clock of the file system is coarse; `since` is the first version under the present time), the corpus grows and shrinks. The page submits, pauses
after a 503 and asks again at most `MaxRetries` times, renders or fails, as it does when the connection breaks (`FetchRejects`). The button does not keep asks from
overlapping: Ctrl+Enter submits past it.

### Library and LibraryService

`Library` is a map and requests that act on it at one moment, or are refused and do nothing; one whose database or pod failed (`Fail`)
acts once, even after its client was told, or never. In `LibraryService` a
request begins a transaction, looks (`FindForPut`, `FindForDelete`), and then inserts (and waits for
an uncommitted INSERT of the same key, `Conflict` if that one commits), updates or deletes by the id of
the row it found (`Stale` if no such row is left). The database or the pod may fail at any point, and the client then gets a 500 ("failed", by the handler of
everything else) or no answer ("lost"): before there is a COMMIT to send (`Lose`) nothing is done; around it (`LoseCommit`) the COMMIT may be
unsent, on its way, or made and unacknowledged, so the transaction stays open until it commits after all or the database rolls it back
(`RollBack`). An answer lost after the commit is the same to its client. The map of
the refinement is the committed rows; the moment a request acts is its commit, or its look where it
changes nothing. `met` is a history variable: which requests about the same game had a transaction open at the same time.

## 3. What is checked

| run | instance | shows |
|---|---|---|
| `lease` | 3 runs, two of them attempts of one container, clock 0..3, ttl 1 | types; `LeaseIsALock` (refinement): the protocol itself never lets two runs work, nor one replace another that is still entitled, only a write that came late does; `OnlyCompetitorsBlock` (action property): a run stands down only before a lease of another identity, and one that had not expired or that was created after its own delete: never before a dead attempt of its own (D55), an unreadable lease or none; `AbandonedLeaseIsTaken` (liveness) |
| `ingest_one_pod` | one pod for ever, 2 games, batches of 1, snapshot every 2nd batch, 2 failures | the stores agree but for lines that ran into one another: `VectorsHaveDocuments`, `UsableNamesHaveDocuments`, `ClaimsAreExplained`; and as action properties `DocumentsNeverLost`, `CompleteIsSnapshotted`, `ClaimsNeverShrink`, and `CheckpointsCatchUp`: every checkpoint written claims every document, those a dead run left behind as well |
| `ingest_two_pods` | two pods, 1 game, 2 failures | types and the inductive invariant `IngestInv` (`DocumentsReachTheIndex` among its parts), where each pod has read the checkpoint before it holds the lease |
| `ingest_overrun` | two pods that overlap, 1 game | when a lease expires under a live run, `DocumentsReachTheIndex` still holds: no vector is missed |
| `ingest_rotation` | one pod for ever, 2 games, 1 refresh a night, 1 failure | `RotationComesRound` (liveness): every document that stays listed is refreshed again and again |
| `backup` | 1 game, 2 saves, 2 failures, retain 1 | `MarkedIsWhole`; `QuietMeansBackedUp`: the sidecar lets a snapshot be only when its vectors are in a generation that can be seen; `BackupsAreGenerations` (refinement); `VectorsAreBackedUp` (liveness) |
| `restore` | 3 buckets of 2 generations, 1 game, 1 save, 1 failure, retain 1 | types; `SnapshotIsDescribed`, `LogsAreKept` (action properties); `ClaimsAreHeldUnlessTorn`; `MinDBComesBack` (liveness) |
| `reindex` | an ingest and a reindex, 2 games, 2 models, 1 change of the image, 1 failure | types; `CompleteIsOneModelUnlessMixing`; `ReindexIsWhole` (action property); `IndexIsLevelled` (liveness) |
| `steam` | 4 games on 2 pages, 2 attempts, burst 1, 2 ticks a token, penalty 3..4, window 4 | types; `RequestsArePaced`; `NoGameTwice`; `OnlyAnswersSettle` (action property); `RunEnds` (liveness) |
| `recommend` | 2 asks, 3 games, a page of 1, headroom 2, 1 rewrite of names.json under a coarse clock, 1 change of the corpus, 1 retry | types; `NamesFollowTheFile`; `NothingUnwanted`, `PageFills` (action properties); `EverySubmitSettles` (liveness) |
| `library` | any 3 requests, 2 games, a failure of each | types; `RefusedOnlyInARace`: a 409, or the 500 of a row that is gone, takes another open transaction about the same game (the only other 500 is that of a database that fails); `LibraryIsAMap` (refinement) |
| `ingest_outage` | the smallest that shows it | a claim of a comment that the code does not keep, see section 5 |

Why the bounds are enough. Two runs that meet over a third party's expired lease are the worst case of
the protocol, so three runs; the clock needs to pass one expiry and then another. In `IngestRun` the games
do not interact except by sharing a batch, a line or the cap on refreshes, so two games give
every pair of positions (before/after a snapshot, torn/whole, new/refreshed); two failures give a failure while
recovering from one. `BatchSize` is 1 so that a run has several batches and several snapshots of the cursor; larger batches
are covered by the proofs. Two saves give a snapshot that moves while it is read and while its
generation is uploaded; `Retain` of 1 makes pruning start with the second generation. The number of
runs of a pod, of backups and of generations that start is not bounded other than by what they need.
In `Restore` games do not interact, and a second generation is all that pruning and an older restore need; the buckets have a good generation
before one that is empty and has no .meta, one whose snapshot misses what it claims before a good one, and a damaged one before one around a
pending checkpoint. Any content at all is covered by the proofs. In `Reindex` two games are needed, for a reindex that is
half way. In `Steam` the penalty is longer than the bucket takes to fill, as with the defaults, and
the window longer than two tokens. In `Recommend` two calls are what overlapping reloads take, three games what
a page of one leaves over after an exclusion and a negation. In `LibraryService` it takes three requests for a row that is
deleted and created anew under a third. Larger values of all of these are covered by the proofs where
there are any.

Deadlock is checked where the system goes on for ever. It is not in `lease`, `recommend` and `library`, where
every process, ask or request comes once, and in `restore`, where a MinDB that is up may stay so.

Fairness. `IngestLease!FairSpec`: a run that is not killed goes on with `acquire`, `renew` and `release`
(they are straight-line code; the Job's deadline ends every run), nothing makes a run start or crash.
`Backup!FairSpec`: weak fairness of the sidecar's loop alone, which never exits, catches every exception
and polls for ever; nothing is assumed of the ingest or of MinDB, hence the premise of
`VectorsAreBackedUp` that the checkpoint stays COMPLETE from some time on. Failures are finitely many
there, because an object store that always fails gets no backups. `IngestRun!FairSpec`: a run that is not
killed goes on and the CronJob starts another (MinDB's calls have no deadline, but the Job has: what hangs is killed, a failure like any other); nothing
makes MinDB's snapshots succeed, hence the premise of `RotationComesRound` that runs complete again and again.
`Restore!FairSpec`: a job runs to its exit; the operator follows restore.yaml, and whenever MinDB is down
again and again starts a restore of the newest generation with `--force`, starts MinDB and stops one that refuses its log.
`Reindex!FairSpec`: jobs go on, a dead job's lease expires, an ingest comes to the end of its list, and the
operator starts a reindex until one is done; strong fairness there, because other jobs may hold the lease in
between. `Steam!Spec`: the thread runs and time passes. `WebPage!Spec`: of each ask, what the API and the page do on their own goes on (`OnItsOwn`: reading the name index, asking the library service,
which has a timeout, and pausing before a retry). Calls to MinDB have no deadline (`mindb.py:104`, `:116`, `:134`) and the page's `fetch` has no abort
(`app.js:147`), so nothing makes them end: hence the premise `NobodyHangs` of `EverySubmitSettles`, that each of them is answered or fails.

## 4. What is proved

For every value of the constants (any games, runs, batch sizes, caps, retention, and any number of
failures, saves and clock ticks), from the assumptions the modules name:

| theorem | says |
|---|---|
| `LeaseTypeCorrect`, `MutualExclusionUnlessStaleWrite` | types of `IngestLease`; two runs are entitled to work only after a stale write |
| `LeaseImplementsALock` | `IngestLease` implements `Lock` |
| `StandingDownTakesARival` | `OnlyCompetitorsBlock` |
| `IngestTypeCorrect` | types of `IngestRun`, in every `LeaseMode` |
| `IngestIsConsistent` | `IngestInv`, where the lease is kept (`LeaseMode = "kept"`) |
| `CorpusFirst`, `EveryUsableNameHasADocument`, `EveryClaimIsExplained` | the invariants of `ingest_one_pod`, from it |
| `NoDocumentIsEverLost`, `CompleteMeansSnapshotted`, `EveryCheckpointCatchesUp` | its action properties, from it |
| `EveryDocumentReachesTheIndex` | `DocumentsReachTheIndex`, in every `LeaseMode` |
| `NoVerdictIsTakenBack`, `OnePodTakesNoVerdictBack` | `ClaimsNeverShrink` in every `LeaseMode`, as long as one run at a time is alive; so for one pod |
| `NoGameIsPlannedTwice` | a plan has no game twice, where the lease is kept |
| `WaitingDocumentsMoveUp` | a document due and not refreshed moves up by as many places as a night has refreshes, in every `LeaseMode` |
| `BackupTypeCorrect`, `BackupsKeepTheOrder` | types (which its run need not check then) and the inductive invariant of `Backup` |
| `MarkedGenerationsAreWhole` | a marked generation is whole |
| `BackupImplementsGenerations` | `Backup` implements `Generations` |
| `RestIsOnlyOnABackup` | `QuietMeansBackedUp` |
| `RestoreTypeCorrect`, `RestoredSnapshotIsDescribed`, `NoLogIsLost`, `ClaimsAreHeld` | types and the safety properties of `restore` |
| `ReindexTypeCorrect`, `CompleteIsOneModel`, `FinishedReindexIsWhole` | types and the safety properties of `reindex` |
| `LimiterPaces`, `RunUsesTheLimiter`, `RequestsKeepToTheBudget` | the bucket alone keeps the rate; a run uses it as it is meant to; so a run's requests keep the rate |
| `SteamTypeCorrect`, `NoGameIsFetchedTwice`, `AnswersSettleGames` | types and the other safety properties of `steam` |
| `LibraryTypeCorrect`, `RefusalsAreRaces` | types of `LibraryService`; `RefusedOnlyInARace` |
| `ServiceImplementsTheMap` | `LibraryService` implements `Library` |
| `CachedNamesFollowTheFile`, `NothingUnwantedIsRecommended`, `PagesFill` | the safety properties of `recommend`, of the service alone under any requests |
| `PageIsTyped`, `PageIsBusyOnlyWhileAsking` | types of page and service; the page says it is busy only while an ask is under way |
| `PageImplementsTheService`, `PageShowsNothingUnwanted` | the page uses the service as it may be used; so those properties hold of what it renders |

**Lease.** Mutual exclusion is not inductive. `LeaseInv` adds that the object records every entitled run
with the expiry that run believes in (`LeaseRecordsHolder`), that a run about to write holds the reading
that justifies it (`ReadingsJustifyWrites`), that sampled times are past and that a container has one
live process. A takeover that is not stale then deletes a lease that has expired, or a dead attempt's. For the refinement of `Lock`, the
same record before and after a step: where a run is entitled before it and another one after it, the step has put a lease
over the first one's, which only a renewal does, and a renewal that is not stale finds its own token. `RivalInv`, for whose lease
makes a run stand down, has that the lease which appears between a takeover's delete and create is a rival's (`LosersHaveRivals`),
since no other attempt of the same identity is alive then to write one (`OneProcessPerOwner`).

**Ingest.** `IngestInv` adds to the four invariants what makes each write find the one before it made:
a batch past the append has its documents (`BatchIsAppended`), past the merge its names
(`BatchIsNamed`), what is in memory as seen can be explained (`MemoryIsExplained`), what compaction
has read is still the file (`CompactionIsCurrent`, which needs `HolderKnowsIt`: one run at a time inside
the try block), between final snapshot and COMPLETE nothing is added (`SnapshotIsCurrent`), from the resumption on a run has every
document among its claims or in its batch (`MemoryCoversTheCorpus`), and the copy
in object storage has nothing the volume has not, but for lines that ran into one another since (`CopyIsNoNewer`). The proof has one lemma per conjunct.

Some of it needs no lease. `ReachInv` is enough for `DocumentsReachTheIndex`: what has reached the index, as a vector, as an
orphan or in a batch about to be inserted, has reached it for good (`ReachedStaysReached`), so what compaction has read may be
written back whoever wrote to the file meanwhile. `ClaimsNeverShrink` does not follow from the lease at all, since a checkpoint
is loaded before it is held; it follows from `OneAtATime` by `MemoryIsCurrent`. And the rotation is arithmetic: `Before` orders the
corpus from any cursor on (`BeforeIsAnOrder`), moving the cursor on turns that order (`BeforeTurns`), the refreshes of a night are
the first in line (`RefreshesAreFirstInLine`) and as many as the cap where something has to wait (`NightsAreFull`), and the cursor is left on
the last of them (`ListsEndWithTheLast`); so the line in front of one that waits gets shorter by the cap
(`WaitingMovesUp`). This is what makes `RotationComesRound` true; that nights keep coming is TLC's part.

**Backup.** To show that a published generation is covered, `BackupInv` follows the claim backwards:
documents have vectors or are excused (`DocumentsAreExplained`), a snapshot contains the one before it
(`SnapshotsGrow`), the final snapshot has every document (`FinalSnapshotIsCurrent`), so a COMPLETE checkpoint is
covered by the snapshot on disk from then on (`CompleteIsCovered`), so a checkpoint read earlier is covered by a snapshot
read later (`CopyIsCovered`), and so is what is uploaded (`GenerationsAreCovered`). This is the module docstring's
argument for reading the checkpoint first. `UploadIsInOrder` and the listing order give
`MarkedIsWhole`; `DoomedAreOldest` says that what pruning set out to delete is still surplus when it comes to it.
Each step of `Backup` then is a `Publish` (the marker is put), a `Withdraw` (the marker of the oldest goes), or
leaves `visible` alone.

`QuietMeansBackedUp` is the safety half of `VectorsAreBackedUp`. It is not inductive: the time
remembered is that of the stat, the digest is of a later read and the data of a still later one, and any of the three may
be of another snapshot. `QuietInv` adds that these sights are in order (`SightsAreInOrder`), so that a time that is still
that of the snapshot when the backup is done is that of the data as well, and that snapshots and so generations only
gain vectors (`GenerationsGrow`). A digest that has not changed then means that the generation which earned it, or a newer one
that made it surplus, has exactly the snapshot's vectors (`RememberedIsKept`, `DoomedAreOldest`).

**Restore.** `RestoreInv` says what the job knows where it is (`JobKnowsIt`): MinDB is down from its start to its exit,
so nothing but an ingest touches the files, and that only the checkpoint; from the verification on the generation's checkpoint is complete; once
it is written, it is the checkpoint on the volume unless an ingest wrote its own beside (`OfTheGeneration`), and what it claims is in the
generation's vectors or has been missed before, because a sidecar uploads nothing else (`AllCovered`). Once the snapshot is in place it has all
that MinDB will be asked for, whatever becomes of the log (`SnapshotHasIt`). `InMemory` (a MinDB that is up has its snapshot and its log) makes a save lose
nothing. `DocumentsAreHeld` says that a document has a vector, or is in a batch on its way (`InFlight`), or is `missed`, which is what an ingest
that claims it by its document alone relies on; `ClaimsAreSaved` that where nothing is torn the same holds of what is claimed, by the checkpoint and by
an ingest that has read it. What `torn` and `missed` excuse is thus named by the theorem and not assumed away: a restore cut short or beside an
ingest, and games a failure or an older generation kept from MinDB. The proof has one lemma per action.

**Reindex.** `ReindexInv` adds to the types that whoever works holds the lease, that a working reindex is on course
(`OnCourse`: what it has taken from its list is in MinDB under its model, lost logs excepted; its claims include
those on disk) and that with nothing mixed (`Unmixed`) index and snapshot are of the model of the stamp, or, before there
is one, of the ingest that is about to write it.

**Steam.** The rate bound is not inductive. `MeterInv` adds the tokens there are: what was spent, what is owed and what is in
the bucket are never more together than burst, one token, and what the rate has earned since the meter
started. It is proved of `Throttle` alone; that every step of `Steam` is one of its steps (`RunUsesTheLimiter`) carries it over. `RunInv` then
has only the budgets to follow.

**Library.** `ServiceInv` says that the one uncommitted INSERT of a game is of a request that waits to
commit it, that nobody is answered before it is done unless its database or pod failed around a COMMIT, and that a request which has met no other finds what it
has read unchanged; a transaction that has ended stays so, so an answer, once given, is kept. Each step of `LibraryService` then is a step of `Library` or leaves map and answers alone.

**Recommend and the page.** `ServiceInv` says that where reloads have not overlapped, the cache is current and a reload
under way goes the same way as the file: what it has loaded is a version the file has been since it had the time that was seen
(`ReloadIsCurrent`); and that what a call has excluded when it searches is what its seed and its library ask for
(`ExcludedByTheSearch`). `PagesFill` is counting: a search that wants as many hits as the page has places and the call
has exclusions keeps enough of them, whatever the ranking. The page has the `Nth` hit `Kept` in each of its places; that there is
exactly one is proved by the least and the greatest element of a set of positions. `PageInv` has for each ask what it may
do next; each step of the page then is a step of the service or leaves it alone.

Only model-checked: the liveness properties (`AbandonedLeaseIsTaken`, `VectorsAreBackedUp`,
`RotationComesRound`, `MinDBComesBack`, `IndexIsLevelled`, `RunEnds`, `EverySubmitSettles`), which the prover
cannot do under fairness. Every other property of a passing run is the statement of a theorem. Where the lease is not kept
(`LeaseMode` "overrun" or "none"), types, `DocumentsReachTheIndex`, `ClaimsNeverShrink` for one run at a time and the
rotation are proved; the rest does not hold, see section 5.

## 5. Where the code does not do what it says

One has a run whose counterexample shows it:

- **An outage as a verdict** (`ingest_outage`). A game once filtered is claimed. If it passes the floor on
  a night Steam does not answer, it becomes "pending", leaves the filtered set, and is never planned again.

Met while modelling, kept in the models as the code has them, without a run of their own; the
properties of section 3 except exactly these.

The ingest and its lease:

- Two runs that both read an expired lease each delete and create; the second delete removes the first one's
  new lease (`lease.py:158`), though CONTEXT.md says "Held by exactly one job at a time".
- `release` and `renew` decide on a reading and then delete or put unconditionally, so either may hit a lease that
  was stolen in between (`lease.py:79`, `:67`); `LeaseIsALock` promises nothing after that.
- A run killed between append and insert leaves a document without a vector. The next one counts it as seen,
  inserts nothing for it and completes over it (`run.py:212`): an `orphan`, until a reindex.
- `append` continues a line that a kill cut short; the new document is lost and its vector is inserted (`corpus.py:43`).
- A kill that cuts a line just before its newline leaves one that can be read (`corpus.py:62`): the next run claims the document, and its own first
  append then runs into that line and makes it unreadable. The claim stays, with no document, no name and no vector, so the game is never fetched
  again, though "the one thing it must never do is lose a document" (`corpus.py:3`).
- Running without object storage, the documents say, costs two runs repeated work; the compaction of one drops
  what the other appended meanwhile (`corpus.py:80`), and `merge` undoes the other's names (`names.py:104`).
- `names.json` is truncated and rewritten in place (`names.py:100`); a kill in between leaves a file that
  no later run can read: `NamesUnreadable` in every run from then on.
- An exception in `_run` passes the push of documents by (`run.py:190`), though its comment says "either way".
- A run that loses its lease breaks out of the loop and still stores the planned refresh cursor
  (`run.py:280`), so the refreshes it did not make wait for the next round.
- The checkpoint is read before the lease is acquired (`run.py:162`); the older claims overwrite newer
  ones, and games without documents are fetched again. `ClaimsNeverShrink` therefore holds only where
  one run at a time is alive (`NoVerdictIsTakenBack`).

Backup and restore:

- The checkpoint is parsed, then read again for its bytes; a run may have made it pending in between, and
  the generation is one nobody may use (`backup.py:157`, `:171`). A restore refuses it. It counts as a
  backup all the same: its digest is remembered, so the same vectors are not stored again, and pruning,
  which looks at markers only (`backup.py:131`), may drop the last generation that restores in its favour.
- The second stat is of the snapshot only, so a generation may hold the .meta of another snapshot (`backup.py:83`).
- "If this dies halfway, the result is a checkpoint with no snapshot" (`restore.py:149`) is so on an
  empty volume; with `--force` it is a COMPLETE checkpoint over the snapshot that was there.
- "Dying between the two leaves MinDB refusing to boot" (`restore.py:131`) is so if the generation has a .meta that differs;
  if it has none and there is none, MinDB replays the log of the replaced snapshot over the restored one.
- A restore takes no lease. An ingest that has read the old checkpoint and waits for MinDB completes over the
  restored snapshot with the old claims.
- documents.jsonl is not restored. After an older generation is, the next ingest claims every document (`run.py:211`) and completes over
  a MinDB that lacks the vectors of the newer ones, until a reindex.
- A log segment is moved to a name made of its own (`restore.py:137`), and `os.replace` overwrites a file an earlier restore moved there, though the comment
  calls those writes "the only copy".

Reindex and stamp:

- From the first batch to the first mark, vectors of the new model are in MinDB under the old stamp, and from then
  on vectors of the old model under the new one (`reindex.py:105`). A reindex that dies there leaves an index
  an ingest of either image adds to and completes, though `stamp.py` says of a mixed corpus that an ingest refuses to add to it.
- The stamp is compared before the lease is held (`run.py:164`): a reindex may finish in between.
- A first run that dies after an insert and before its first mark leaves vectors without a stamp.
- "Stopping with the checkpoint pending" (`reindex.py:119`) is not so before the first mark: then the old
  COMPLETE checkpoint is still there.

Steam:

- `FetchFailed` is for when Steam never answered, but an answer of `null`, or one under another appid,
  is "nothing for this appid" and becomes a verdict (`steam.py:150`).
- A page of the popularity scan whose request or JSON fails is not tried again: the run ends there (`steam.py:77`).
- `penalise` empties the bucket so that a run does not "burst into it again", but the bucket fills while it
  sleeps, and with the default backoff is full after it. The rate bound holds all the same.

API, page and library service:

- Two overlapping reloads of the name index may leave the older names under the newer time (`main.py:92`), until
  the file changes again. So may two rewrites within one tick of the file system's clock, which a test knows to be "coarser than this test is
  fast" (`test_api_probes.py:141`). A request that meets a half-written names.json is a 500.
- No call to MinDB has a deadline (`mindb.py:104`, `:116`, `:134`), and the page's `fetch` no abort (`app.js:147`): a MinDB that accepts and never answers
  leaves the button dead for good.
- Overlapping asks share one result list: the answer to an older one may be rendered last (`app.js:189`).
- A PUT or DELETE whose row another request deleted meanwhile is a 500, where the handler says "Anything left is a bug"
  (`ApiExceptionHandler.java:78`); and so is a database that fails, which is no bug either. Then the change may have been made all the same, if it was the
  commit that was not acknowledged; one whose answer is lost has been made.

## 6. Not modelled

- In the ingest: review counts beyond the floor, the text of documents and names, several
  lines of one appid beyond their number, the names half of the copy in object storage, and the wording of every log line.
- The write-ahead log of MinDB in the ingest, except for whether it survives a restart; in `Restore` it is modelled
  as far as its documents describe it. MinDB is external.
- `backup.py` without `--watch` is `back_up_once` alone; without object storage it only sleeps.
- In the API: the health and readiness probes and the search by name, which keep no state; vectors, the fuzzy matching of titles,
  and the wording of a negation; a query with neither mood nor seed, which is turned away. The listing of entries of the
  library service is read only, and users do not share rows.
- Two merges of names.json at once (`names.py:104`), which runs that share a lease do not make.
- In `Reindex`, a lease that expires under a working job, and running without object storage. In `Backup` and `Restore`, games that are claimed without
  a document, and lines of documents.jsonl that ran into one another.
- Narration adds text to a page and fails open. Embeddings and document rendering are pure; configuration is
  the constants of the modules; benchmarks, deployment and generated stubs have no logic of their own.

## 7. Plan

Done: all modules of section 2 and, of every safety property a run checks, a theorem.

Left, most important first:

1. **What liveness rests on**, one safety theorem each, as `WaitingDocumentsMoveUp` is for the rotation and
   `RestIsOnlyOnABackup` for the backups: a MinDB that
   refuses its log has a restore that ends that (`MinDBComesBack`), a run's budgets only go down (`RunEnds`), a takeover that finds the
   object gone creates it (`AbandonedLeaseIsTaken`).
2. **CorpusStore** at the level of lines, refined to `documents` of `IngestRun`: latest wins through append,
   compaction and torn lines; the two halves of `merge`.
3. **A torn names.json** (`names.py:100`): what the runs after it still do, as a property of its own.
