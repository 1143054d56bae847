------------------------------ MODULE Restore ------------------------------
(***************************************************************************)
(* The restore (ops/restore.py): an operator stops MinDB, a job takes a    *)
(* Backup Generation out of the bucket one get at a time, verifies all of  *)
(* it and then puts three files on the volume, the snapshot last; the log  *)
(* of the snapshot it replaced is moved aside, and MinDB is started again. *)
(*                                                                         *)
(* The job takes no lease.  Beside it there are a sidecar that is pruning  *)
(* while its pod is stopped, and an ingest that may have read the          *)
(* checkpoint before, and writes it after.  The job may be killed between  *)
(* any two steps.  What is restored is MinDB's snapshot and its            *)
(* checkpoint; the corpus, with its documents, stays as it is.             *)
(* Games that are claimed without a document or a vector are left out.     *)
(*                                                                         *)
(* A snapshot is known by a number that grows with every save, and so is   *)
(* the run id MinDB keeps in the .meta beside it and in its log.           *)
(* Generation i is of snapshot i; those MinDB writes come after Newest.    *)
(***************************************************************************)
EXTENDS Integers, Sequences, FiniteSets

CONSTANTS
  Game,        \* games, each with at most one vector
  Newest,      \* generations in the bucket, 1 the oldest
  Retain,      \* RETAIN_GENERATIONS
  Uploads,     \* what may be under the prefixes of the generations
  MaxSaves,    \* bound: snapshots MinDB writes
  MaxFailures  \* bound: kills of the job, stops of a MinDB that is up

ASSUME GameAssumption   == IsFiniteSet(Game)
ASSUME NewestAssumption == Newest \in Nat \ {0} /\ Retain \in Nat \ {0}
ASSUME BoundAssumption  == MaxSaves \in Nat /\ MaxFailures \in Nat

AllFiles == {"mindb.snap", "checkpoint.json", "mindb.snap.meta"}
Keys     == AllFiles \cup {"manifest.json", "COMPLETE"}

(* A generation: the keys that were uploaded, what is in its files, if     *)
(* there is a .meta among them, and the files whose bytes have changed.    *)
(* "unreadable": bytes that are no Checkpoint.                             *)
Content == [keys : SUBSET Keys, status : {"pending", "complete", "unreadable"},
            claims : SUBSET Game, vectors : SUBSET Game, sidecar : {"own", "none"},
            damaged : SUBSET AllFiles]

ASSUME UploadsAssumption == Uploads \subseteq [1..Newest -> Content]

VARIABLES
  bucket,      \* every generation: its keys, what is in its files, what is damaged
  \* the volume
  documents,   \* documents.jsonl: the games with a document
  checkpoint,  \* checkpoint.json: status, claims, and the generation it is of
  meta,        \* mindb.snap.meta: the run id, 0 if there is no file
  snap,        \* mindb.snap: its number, 0 if there is no file, and its vectors
  wal,         \* log segments beside the snapshot
  orphaned,    \* log segments moved aside, and not overwritten since
  \* processes
  mindb,       \* "stopped", "up", or "refused": the log is of another run
  index,       \* vectors in memory
  saves,       \* snapshots MinDB has written
  job,         \* the restore: where it is, its generation, what it has fetched
  ingest,      \* an ingest: where it is, its claims, its batch
  \* history
  missed,      \* games MinDB need not have the vector of, though they have a document
  torn,        \* the checkpoint may be of another snapshot
  failures

volume  == <<documents, checkpoint, meta, snap, wal, orphaned>>
server  == <<mindb, index, saves>>
history == <<missed, torn, failures>>
vars    == <<bucket, volume, server, job, ingest, history>>

Gen == 1..Newest

(* The files the manifest of a generation lists, in its order. *)
Manifest(i) == IF bucket[i].sidecar = "own" THEN <<"mindb.snap", "checkpoint.json", "mindb.snap.meta">>
                                            ELSE <<"mindb.snap", "checkpoint.json">>

Checkpoint == [of : 0..Newest, status : {"absent", "pending", "complete"}, claims : SUBSET Game]
Numbers == 0..(Newest + 1 + MaxSaves)
Segment == [run : Numbers, onto : Numbers, vectors : SUBSET Game]

NoCheckpoint == [of |-> 0, status |-> "absent", claims |-> {}]
NoSnapshot   == [number |-> 0, vectors |-> {}]
NoJob        == [pc |-> "idle", gen |-> 0, force |-> FALSE, files |-> {}, beside |-> FALSE]
NoIngest     == [pc |-> "idle", claims |-> {}, batch |-> {}]

TypeOK ==
  /\ bucket \in [Gen -> Content]
  /\ documents \subseteq Game /\ missed \subseteq Game
  /\ checkpoint \in Checkpoint
  /\ meta \in Numbers
  /\ snap \in [number : Numbers, vectors : SUBSET Game]
  /\ wal \subseteq Segment /\ orphaned \subseteq Segment
  /\ mindb \in {"stopped", "up", "refused"} /\ index \subseteq Game /\ saves \in 0..MaxSaves
  /\ job \in [pc : {"idle", "marker", "manifest", "file", "verify", "checkpoint", "meta", "snap",
                    "retire"},
              gen : 0..Newest, force : BOOLEAN, files : SUBSET AllFiles, beside : BOOLEAN]
  /\ ingest \in [pc : {"idle", "waiting", "running", "inserting", "claiming", "saved"},
                 claims : SUBSET Game, batch : SUBSET Game]
  /\ torn \in BOOLEAN
  /\ failures \in 0..MaxFailures

(* The vectors MinDB loads: of the snapshot, and of the log beside it.     *)
Stored == snap.vectors \cup UNION {s.vectors : s \in wal}

(* The volume MinDB was stopped over, or one that lost its snapshot. *)
InitVolume ==
  \/ \E vectors \in SUBSET Game : \E tail \in SUBSET (Game \ vectors) :
       /\ snap = [number |-> Newest + 1, vectors |-> vectors]
       /\ meta = Newest + 1
       /\ wal = {[run |-> Newest + 1, onto |-> Newest + 1, vectors |-> v] : v \in {{}, tail}}
       /\ \E status \in {"pending", "complete"} :
            checkpoint = [of |-> 0, status |-> status, claims |-> vectors]
       /\ torn = FALSE
  \/ /\ snap = NoSnapshot /\ meta = 0 /\ wal = {}
     /\ checkpoint \in {NoCheckpoint, [of |-> 0, status |-> "complete", claims |-> Game]}
     /\ torn = (checkpoint # NoCheckpoint)

(* Generations!Covered, of Backup: but for what failures and restores have *)
(* kept from MinDB, a COMPLETE checkpoint claims what its snapshot has.    *)
Covered(g) == g.status = "complete" => g.claims \subseteq g.vectors \cup missed

Init ==
  /\ bucket \in Uploads
  /\ missed \in SUBSET Game /\ \A i \in Gen : Covered(bucket[i])
  /\ InitVolume /\ orphaned = {}
  /\ documents \in SUBSET (Stored \cup missed)
  /\ mindb = "stopped" /\ index = {} /\ saves = 0
  /\ job = NoJob /\ ingest = NoIngest
  /\ failures = 0

Failing == failures < MaxFailures /\ failures' = failures + 1

-----------------------------------------------------------------------------
(* The bucket *)

(* complete_generations *)
Visible(i) == "COMPLETE" \in bucket[i].keys

(* list returns keys in order of their bytes: capitals come first. *)
ListingOrder == <<"COMPLETE", "checkpoint.json", "manifest.json", "mindb.snap", "mindb.snap.meta">>

(* The sidecar prunes a generation that is surplus, key by key. *)
PruneKey ==
  /\ \E i \in Gen, n \in DOMAIN ListingOrder :
       /\ Cardinality({j \in Gen : Visible(j) /\ j > i}) >= Retain
       /\ ListingOrder[n] \in bucket[i].keys
       /\ \A m \in 1..(n - 1) : ListingOrder[m] \notin bucket[i].keys
       /\ bucket' = [bucket EXCEPT ![i].keys = @ \ {ListingOrder[n]}]
  /\ UNCHANGED <<volume, server, job, ingest, history>>

-----------------------------------------------------------------------------
(* The job: main, fetch_generation, write_files *)

Unwritten == <<volume, server, bucket, ingest, history>>

(* RestoreFailed: exit 1. *)
Refuse == job' = NoJob

Proceed(pc) == job' = [job EXCEPT !.pc = pc]

(* With --generation, of any prefix; with --force or without. *)
Start(i, force) ==
  /\ job = NoJob /\ mindb = "stopped"
  /\ job' = [NoJob EXCEPT !.pc = "marker", !.gen = i, !.force = force]
  /\ UNCHANGED Unwritten

(* The newest complete generation is the default. *)
StartNewest(force) ==
  \E i \in Gen : Visible(i) /\ (\A j \in Gen : Visible(j) => j <= i) /\ Start(i, force)

GetMarker ==
  /\ job.pc = "marker"
  /\ IF Visible(job.gen) THEN Proceed("manifest") ELSE Refuse
  /\ UNCHANGED Unwritten

GetManifest ==
  /\ job.pc = "manifest"
  /\ IF "manifest.json" \in bucket[job.gen].keys THEN Proceed("file") ELSE Refuse
  /\ UNCHANGED Unwritten

(* Every file the manifest lists has to be there, with its digest. *)
GetFile ==
  /\ job.pc = "file"
  /\ LET f == Manifest(job.gen)[Cardinality(job.files) + 1] IN
     IF f \in bucket[job.gen].keys /\ f \notin bucket[job.gen].damaged
       THEN job' = [job EXCEPT !.files = @ \cup {f},
                               !.pc = IF Cardinality(job.files) + 1 = Len(Manifest(job.gen))
                                        THEN "verify" ELSE "file"]
       ELSE Refuse
  /\ UNCHANGED Unwritten

Targets(files) ==
  {f \in files : \/ f = "checkpoint.json" /\ checkpoint.status # "absent"
                 \/ f = "mindb.snap.meta" /\ meta # 0
                 \/ f = "mindb.snap" /\ snap.number # 0}

(* Mutant: matching the manifest is enough.                                *)
VerifyDigestsOnly ==
  /\ job.pc = "verify"
  /\ IF Targets(job.files) = {} \/ job.force THEN Proceed("checkpoint") ELSE Refuse
  /\ UNCHANGED Unwritten

(* _verify_checkpoint; and nothing is overwritten without --force. *)
Verify ==
  /\ job.pc = "verify"
  /\ IF /\ bucket[job.gen].status = "complete"
        /\ Targets(job.files) = {} \/ job.force
       THEN Proceed("checkpoint")
       ELSE Refuse
  /\ UNCHANGED Unwritten

Rest == <<documents, server, bucket, ingest, failures>>

(* Mutant: a checkpoint that is there is kept.                             *)
PutCheckpointIfAbsent ==
  checkpoint' = IF checkpoint.status = "absent"
                  THEN [of |-> job.gen, status |-> bucket[job.gen].status,
                        claims |-> bucket[job.gen].claims]
                  ELSE checkpoint

PutCheckpoint == checkpoint' = [of |-> job.gen, status |-> bucket[job.gen].status,
                                claims |-> bucket[job.gen].claims]

(* Mutant: a .meta with nothing in it stands in for one that is missing.   *)
PutMetaEmpty == meta' = IF "mindb.snap.meta" \in job.files THEN job.gen ELSE -1

PutMeta == meta' = IF "mindb.snap.meta" \in job.files THEN job.gen ELSE meta

PutSnap == snap' = [number |-> job.gen, vectors |-> bucket[job.gen].vectors]

WriteCheckpoint ==
  /\ job.pc = "checkpoint"
  /\ PutCheckpoint
  /\ torn' = TRUE
  /\ job' = [job EXCEPT !.pc = "meta", !.beside = FALSE]
  /\ UNCHANGED <<meta, snap, wal, orphaned, missed, Rest>>

(* A generation without a .meta leaves the one that is there. *)
WriteMeta ==
  /\ job.pc = "meta"
  /\ PutMeta
  /\ Proceed("snap")
  /\ UNCHANGED <<checkpoint, snap, wal, orphaned, missed, torn, Rest>>

(* MinDB will have what the generation has, whatever documents there are.  *)
(* From here on a segment that is moved aside may get the name of one an   *)
(* earlier restore moved aside, and os.replace overwrites that.            *)
WriteSnap ==
  /\ job.pc = "snap"
  /\ PutSnap
  /\ missed' = missed \cup (documents \ bucket[job.gen].vectors)
  /\ torn' = (ingest # NoIngest \/ job.beside)
  /\ orphaned' = {}
  /\ Proceed("retire")
  /\ UNCHANGED <<checkpoint, meta, wal, Rest>>

(* Mutant: segments are deleted.                                           *)
RetireDeletes ==
  /\ job.pc = "retire"
  /\ \E s \in wal : wal' = wal \ {s} /\ orphaned' = orphaned
  /\ UNCHANGED <<documents, checkpoint, meta, snap, server, bucket, job, ingest, history>>

(* retire_wal: segment after segment, every one is renamed.                *)
RetireSegment ==
  /\ job.pc = "retire"
  /\ \E s \in wal : wal' = wal \ {s} /\ orphaned' = orphaned \cup {s}
  /\ UNCHANGED <<documents, checkpoint, meta, snap, server, bucket, job, ingest, history>>

(* Mutant: a log is left beside the snapshot.                              *)
RestoredAtOnce ==
  /\ job.pc = "retire"
  /\ job' = NoJob
  /\ UNCHANGED Unwritten

(* "restored ...; start MinDB and it will load this snapshot" *)
Restored ==
  /\ job.pc = "retire" /\ wal = {}
  /\ job' = NoJob
  /\ UNCHANGED Unwritten

Killed ==
  /\ job # NoJob
  /\ job' = NoJob
  /\ Failing
  /\ UNCHANGED <<volume, server, bucket, ingest, missed, torn>>

Job == GetMarker \/ GetManifest \/ GetFile \/ Verify \/ WriteCheckpoint \/ WriteMeta \/ WriteSnap
       \/ RetireSegment \/ Restored

-----------------------------------------------------------------------------
(* MinDB, as the restore and its documents describe it *)

(* A log that carries another run id than the .meta is refused; without a  *)
(* .meta there is nothing to compare it with.                              *)
Mismatch == meta # 0 /\ \E s \in wal : s.run # meta

Scaled == job = NoJob /\ mindb = "stopped"

Boot ==
  /\ Scaled /\ ~Mismatch
  /\ mindb' = "up"
  /\ index' = Stored
  /\ wal' = IF \E s \in wal : s.onto = snap.number
              THEN wal
              ELSE wal \cup {[run |-> IF meta = 0 THEN snap.number ELSE meta,
                              onto |-> snap.number, vectors |-> {}]}
  /\ UNCHANGED <<bucket, documents, checkpoint, meta, snap, orphaned, saves, job, ingest, history>>

BootRefused ==
  /\ Scaled /\ Mismatch
  /\ mindb' = "refused"
  /\ UNCHANGED <<bucket, volume, index, saves, job, ingest, history>>

(* An insert is in the log before it is acknowledged. *)
Insert(batch) ==
  /\ mindb = "up"
  /\ index' = index \cup batch
  /\ \E s \in wal : /\ s.onto = snap.number
                    /\ wal' = (wal \ {s}) \cup {[s EXCEPT !.vectors = @ \cup batch]}
  /\ UNCHANGED <<bucket, documents, checkpoint, meta, snap, orphaned, mindb, saves, job, history>>

(* A snapshot has what the log had, and a log of its own. *)
Save ==
  /\ mindb = "up" /\ saves < MaxSaves
  /\ saves' = saves + 1
  /\ snap' = [number |-> Newest + 1 + saves', vectors |-> index]
  /\ meta' = Newest + 1 + saves'
  /\ wal' = {[run |-> Newest + 1 + saves', onto |-> Newest + 1 + saves', vectors |-> {}]}
  /\ UNCHANGED <<bucket, documents, checkpoint, orphaned, mindb, index, job, history>>

SaveOnTheClock == Save /\ UNCHANGED ingest

(* Scaled to 0: out of a crash loop, or for the sake of a restore. *)
Stop ==
  /\ mindb # "stopped"
  /\ mindb' = "stopped" /\ index' = {}
  /\ IF mindb = "up" THEN Failing ELSE UNCHANGED failures
  /\ UNCHANGED <<bucket, volume, saves, job, ingest, missed, torn>>

-----------------------------------------------------------------------------
(* An ingest (IngestRun has it in full): it reads the checkpoint before it *)
(* waits for MinDB, adds what has a document to its claims, and writes     *)
(* them after each batch, and after its final snapshot.                    *)

IngestLoads ==
  /\ ingest = NoIngest
  /\ ingest' = [NoIngest EXCEPT !.pc = "waiting", !.claims = checkpoint.claims]
  /\ UNCHANGED <<bucket, volume, server, job, history>>

IngestResumes ==
  /\ ingest.pc = "waiting" /\ mindb = "up"
  /\ ingest' = [ingest EXCEPT !.pc = "running", !.claims = @ \cup documents]
  /\ UNCHANGED <<bucket, volume, server, job, history>>

(* Corpus first. *)
IngestAppends(batch) ==
  /\ ingest.pc = "running"
  /\ documents' = documents \cup batch
  /\ ingest' = [ingest EXCEPT !.pc = "inserting", !.batch = batch]
  /\ UNCHANGED <<bucket, checkpoint, meta, snap, wal, orphaned, server, job, history>>

IngestInserts ==
  /\ ingest.pc = "inserting" /\ Insert(ingest.batch)
  /\ ingest' = [ingest EXCEPT !.pc = "claiming"]

(* An ingest writes the checkpoint, beside a restore if there is one.      *)
IngestWrites(status, claims) ==
  /\ checkpoint' = [of |-> 0, status |-> status, claims |-> claims]
  /\ job' = IF job = NoJob THEN job ELSE [job EXCEPT !.beside = TRUE]
  /\ UNCHANGED <<bucket, documents, meta, snap, wal, orphaned, server, history>>

IngestClaims ==
  /\ ingest.pc = "claiming" /\ IngestWrites("pending", ingest.claims \cup ingest.batch)
  /\ ingest' = [ingest EXCEPT !.pc = "running", !.claims = @ \cup ingest.batch, !.batch = {}]

(* The final snapshot. *)
IngestSaves ==
  /\ ingest.pc = "running" /\ Save
  /\ ingest' = [ingest EXCEPT !.pc = "saved"]

IngestCompletes ==
  /\ ingest.pc = "saved" /\ IngestWrites("complete", ingest.claims)
  /\ ingest' = NoIngest

(* It gives up on MinDB, or dies; a batch that is not in MinDB stays out.  *)
IngestEnds ==
  /\ ingest # NoIngest /\ ingest' = NoIngest
  /\ missed' = IF ingest.pc = "inserting" THEN missed \cup ingest.batch ELSE missed
  /\ UNCHANGED <<bucket, volume, server, job, torn, failures>>

Ingest ==
  \/ IngestLoads \/ IngestResumes \/ IngestInserts \/ IngestClaims
  \/ IngestSaves \/ IngestCompletes \/ IngestEnds
  \/ \E batch \in SUBSET Game \ {{}} : IngestAppends(batch)

-----------------------------------------------------------------------------
Next ==
  \/ \E i \in Gen, force \in BOOLEAN : Start(i, force)
  \/ Job \/ Killed
  \/ Boot \/ BootRefused \/ SaveOnTheClock \/ Stop
  \/ Ingest
  \/ PruneKey

Spec == Init /\ [][Next]_vars

(* The job runs until it exits; the operator follows restore.yaml: stop a  *)
(* MinDB that refuses, restore the newest generation with --force, start.  *)
FairSpec ==
  /\ Spec
  /\ WF_vars(Job)
  /\ SF_vars(StartNewest(TRUE))
  /\ SF_vars(Boot)
  /\ WF_vars(Stop /\ mindb = "refused")

-----------------------------------------------------------------------------
(* Properties *)

(* The snapshot is written last: when one comes onto the volume, the       *)
(* checkpoint that describes it is there, unless an ingest wrote its own   *)
(* beside the job: it is COMPLETE, and claims no more than the snapshot    *)
(* holds and failures have kept from it; and the .meta the generation has, *)
(* if it has one, is there as well (write_files, restore.py).              *)
SnapshotIsDescribed ==
  [][snap' # snap /\ snap'.number \in Gen =>
       /\ ~job.beside => /\ checkpoint.of = snap'.number
                         /\ checkpoint.status = "complete"
                         /\ checkpoint.claims \subseteq snap'.vectors \cup missed'
       /\ bucket[snap'.number].sidecar = "own" => meta = snap'.number]_vars

(* What a log holds is not lost: a segment goes on, or a snapshot has its  *)
(* vectors, or it is moved aside as it is; and the log of a snapshot MinDB *)
(* wrote only once that snapshot has been replaced (retire_wal).           *)
LogsAreKept ==
  [][\A s \in wal \ wal' :
       \/ \E t \in wal' : t.onto = s.onto /\ s.vectors \subseteq t.vectors
       \/ s.vectors \subseteq snap'.vectors
       \/ s \in orphaned' /\ (s.onto # snap.number \/ s.onto \in Gen)]_vars

(* A COMPLETE checkpoint that claims a vector MinDB has not got is what    *)
(* loses games.  It takes a restore cut short before the snapshot, or one  *)
(* beside an ingest, or else the game has a document whose vector a        *)
(* failure kept from MinDB or an older generation has not got: that an     *)
(* ingest claims by its document alone (run.py:211-212).                   *)
ClaimsAreHeldUnlessTorn ==
  mindb = "up" /\ checkpoint.status = "complete" /\ ~torn =>
    checkpoint.claims \subseteq index \cup missed

(* However often the job is killed, and whatever log it leaves, MinDB does *)
(* not stay down while the newest generation is a good one.                *)
NewestIsGood ==
  \E i \in Gen : /\ Visible(i) /\ \A j \in Gen : Visible(j) => j <= i
                 /\ bucket[i].status = "complete" /\ bucket[i].damaged = {}
MinDBComesBack == []NewestIsGood => []<>(mindb = "up")
=============================================================================
