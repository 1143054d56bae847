------------------------------ MODULE Reindex ------------------------------
(***************************************************************************)
(* The reindex (ingest/reindex.py) and the model stamp that is to keep an  *)
(* ingest from mixing vectors of two models (gamerec/stamp.py).            *)
(*                                                                         *)
(* A deployment may change the embedding model of the image.  Jobs are     *)
(* ingests or reindexes of the image they were started from; each holds    *)
(* the lease while it works, but an ingest reads the checkpoint and        *)
(* compares stamps before it has the lease.  Jobs die anywhere; MinDB      *)
(* saves on its own clock and may restart without its log.                 *)
(*                                                                         *)
(* Of an ingest there is what the stamp depends on; IngestRun has it in    *)
(* full.  There is a lease, and it lasts as long as the job that has it    *)
(* works: a lease that expires under a live job, and jobs that go ahead    *)
(* without object storage and so without a lease, are left out here.       *)
(***************************************************************************)
EXTENDS Integers, FiniteSets

CONSTANTS
  Game,        \* games, each with at most one document and one vector
  Model,       \* embedding models
  Job, Kind,   \* jobs that may run at a time, and of which kind each one is
  None,        \* no vector, no job, no stamp
  Capacity,    \* vectors MinDB has room for
  MaxDeploys,  \* bound: changes of the image
  MaxFailures  \* bound: jobs that die, failed snapshots, lossy restarts, lost leases

ASSUME NoneAssumption     == None \notin Model \cup Job
ASSUME GameAssumption     == IsFiniteSet(Game)
ASSUME KindAssumption     == Kind \in [Job -> {"ingest", "reindex"}]
ASSUME CapacityAssumption == Capacity \in Nat
ASSUME BoundAssumption    == MaxDeploys \in Nat /\ MaxFailures \in Nat

VARIABLES
  image,       \* the model in the image
  documents,   \* games with a document
  index,       \* the model of each vector in MinDB
  snapshot,    \* and of each in its snapshot
  checkpoint,  \* checkpoint.json: status, stamp and claims
  lease,       \* the job that holds the ingest lease
  job,         \* each job: its model, where it is, its batch or what is left to do,
               \* and the claims of the checkpoint in its memory
  mixing,      \* history: why the stamp need not be the model of every vector
  reverted,    \* history: games whose vector a restart took back
  deploys, failures

bounds == <<deploys, failures>>
vars   == <<image, documents, index, snapshot, checkpoint, lease, job, mixing, reverted, bounds>>

Vectors      == [Game -> Model \cup {None}]
NoCheckpoint == [status |-> "absent", stamp |-> None, claims |-> {}]
Mixtures     == {"first run died", "stamp was stale", "reindex unfinished"}
NoJob        == [model |-> None, pc |-> "idle", todo |-> {}, claims |-> {}]

(* Where a job is once it has the lease. *)
Working == {"ready", "insert", "mark", "snapshot", "renew", "final", "saved"}

TypeOK ==
  /\ image \in Model
  /\ documents \subseteq Game
  /\ index \in Vectors /\ snapshot \in Vectors
  /\ checkpoint \in [status : {"absent", "pending", "complete"}, stamp : Model \cup {None},
                     claims : SUBSET Game]
  /\ checkpoint.status = "absent" <=> checkpoint.stamp = None
  /\ lease \in Job \cup {None}
  /\ job \in [Job -> [model : Model \cup {None},
                      pc : Working \cup {"idle", "acquire"}, todo : SUBSET Game,
                      claims : SUBSET Game]]
  /\ mixing \subseteq Mixtures /\ reverted \subseteq Game
  /\ deploys \in 0..MaxDeploys /\ failures \in 0..MaxFailures

Init ==
  /\ image \in Model
  /\ documents = {}
  /\ index = [g \in Game |-> None] /\ snapshot = index
  /\ checkpoint = NoCheckpoint
  /\ lease = None /\ job = [j \in Job |-> NoJob]
  /\ mixing = {} /\ reverted = {}
  /\ deploys = 0 /\ failures = 0

Failing == failures < MaxFailures /\ failures' = failures + 1 /\ UNCHANGED deploys

At(j, kind, pc) == Kind[j] = kind /\ job[j].pc = pc
GoTo(j, pc)     == job' = [job EXCEPT ![j].pc = pc]

(* The end of a job, which gives its lease back if it has one. *)
Exit(j) ==
  /\ job' = [job EXCEPT ![j] = NoJob]
  /\ lease' = IF lease = j THEN None ELSE lease

(* Mutant: the stamp of the checkpoint on disk is kept. *)
SaveKeepingStamp(j, status, claims) ==
  checkpoint' = [status |-> status, stamp |-> checkpoint.stamp, claims |-> claims]

(* Checkpoint.save *)
Save(j, status, claims) ==
  checkpoint' = [status |-> status, stamp |-> job[j].model, claims |-> claims]

-----------------------------------------------------------------------------
(* Both jobs *)

Deploy ==
  /\ deploys < MaxDeploys /\ deploys' = deploys + 1
  /\ image' \in Model \ {image}
  /\ UNCHANGED <<documents, index, snapshot, checkpoint, lease, job, mixing, reverted, failures>>

(* Mutant: nothing is compared. *)
AssertNothing(current) == TRUE

(* assert_ingestable *)
AssertIngestable(current) == checkpoint.status = "absent" \/ checkpoint.stamp = current

(* An ingest loads the checkpoint and compares its stamp. *)
StartIngest(j) ==
  /\ At(j, "ingest", "idle")
  /\ AssertIngestable(image)
  /\ job' = [job EXCEPT ![j] = [model |-> image, pc |-> "acquire",
                                todo |-> {}, claims |-> checkpoint.claims]]
  /\ UNCHANGED <<image, documents, index, snapshot, checkpoint, lease, mixing, reverted, bounds>>

StartReindex(j) ==
  /\ At(j, "reindex", "idle")
  /\ job' = [job EXCEPT ![j] = [NoJob EXCEPT !.model = image, !.pc = "acquire"]]
  /\ UNCHANGED <<image, documents, index, snapshot, checkpoint, lease, mixing, reverted, bounds>>

(* LeaseHeld; or there is nothing to reindex from, or no room for it.      *)
Declines(j) ==
  /\ job[j].pc = "acquire"
  /\ \/ lease # None
     \/ Kind[j] = "reindex" /\ (documents = {} \/ Cardinality(documents) > Capacity)
  /\ job' = [job EXCEPT ![j] = NoJob]
  /\ UNCHANGED <<image, documents, index, snapshot, checkpoint, lease, mixing, reverted, bounds>>

(* Mutant: a lease that was not given back is held for ever. *)
LeaseOutlivesItsJob == FALSE /\ UNCHANGED vars

(* The lease of a job that died expires; that of a working job does not. *)
LeaseExpires ==
  /\ lease # None /\ job[lease].pc \notin Working
  /\ lease' = None
  /\ UNCHANGED <<image, documents, index, snapshot, checkpoint, job, mixing, reverted, bounds>>

(* Killed, or an exception on the way: then the lease is released. *)
Dies(j) ==
  /\ job[j].pc # "idle"
  /\ job' = [job EXCEPT ![j] = NoJob]
  /\ lease' \in {lease, IF lease = j THEN None ELSE lease}
  /\ mixing' = mixing \cup
       IF checkpoint.status = "absent" /\ index # [g \in Game |-> None]
         THEN {"first run died"} ELSE {}
  /\ Failing
  /\ UNCHANGED <<image, documents, index, snapshot, checkpoint, reverted>>

InsertVectors(j, batch) == index' = [g \in Game |-> IF g \in batch THEN job[j].model ELSE index[g]]

(* client.snapshot(), which may answer that it failed. *)
TakeSnapshot(ok) ==
  /\ snapshot' = IF ok THEN index ELSE snapshot
  /\ IF ok THEN UNCHANGED bounds ELSE Failing

-----------------------------------------------------------------------------
(* The ingest *)

(* Its claims are those it read, and the corpus.  Another job may have     *)
(* changed the stamp by now.                                               *)
AcquireIngest(j) ==
  /\ At(j, "ingest", "acquire") /\ lease = None
  /\ lease' = j
  /\ job' = [job EXCEPT ![j].pc = "ready", ![j].claims = @ \cup documents]
  /\ mixing' = mixing \cup
       IF AssertIngestable(job[j].model) THEN {} ELSE {"stamp was stale"}
  /\ UNCHANGED <<image, documents, index, snapshot, checkpoint, reverted, bounds>>

(* A batch is fetched: games with a document, which is appended, and games *)
(* with only a verdict.                                                    *)
Append(j) ==
  /\ At(j, "ingest", "ready")
  /\ \E g \in Game, isDocument \in BOOLEAN :
       /\ documents' = IF isDocument THEN documents \cup {g} ELSE documents
       /\ job' = [job EXCEPT ![j].pc = IF isDocument THEN "insert" ELSE "mark",
                             ![j].todo = {g}]
  /\ UNCHANGED <<image, index, snapshot, checkpoint, lease, mixing, reverted, bounds>>

IngestInserts(j) ==
  /\ At(j, "ingest", "insert")
  /\ InsertVectors(j, job[j].todo)
  /\ reverted' = reverted \ job[j].todo
  /\ GoTo(j, "mark")
  /\ UNCHANGED <<image, documents, snapshot, checkpoint, lease, mixing, bounds>>

IngestMarks(j) ==
  /\ At(j, "ingest", "mark")
  /\ LET claims == job[j].claims \cup job[j].todo IN
     /\ Save(j, "pending", claims)
     /\ job' = [job EXCEPT ![j].pc = "ready", ![j].todo = {}, ![j].claims = claims]
  /\ UNCHANGED <<image, documents, index, snapshot, lease, mixing, reverted, bounds>>

(* The final snapshot.  One in between changes no more than MinDB's clock. *)
IngestSnapshots(j) ==
  /\ At(j, "ingest", "ready")
  /\ \E ok \in BOOLEAN :
       /\ TakeSnapshot(ok)
       /\ IF ok THEN GoTo(j, "saved") /\ UNCHANGED lease ELSE Exit(j)
  /\ UNCHANGED <<image, documents, index, checkpoint, mixing, reverted>>

IngestCompletes(j) ==
  /\ At(j, "ingest", "saved")
  /\ Save(j, "complete", job[j].claims)
  /\ Exit(j)
  /\ UNCHANGED <<image, documents, index, snapshot, mixing, reverted, bounds>>

-----------------------------------------------------------------------------
(* The reindex *)

(* Mutant: a new checkpoint that inherits nothing.                         *)
AcquireReindexAfresh(j) ==
  /\ At(j, "reindex", "acquire") /\ lease = None
  /\ documents # {} /\ Cardinality(documents) <= Capacity
  /\ lease' = j
  /\ job' = [job EXCEPT ![j].pc = "ready", ![j].todo = documents]
  /\ UNCHANGED <<image, documents, index, snapshot, checkpoint, mixing, reverted, bounds>>

(* Under the lease it reads the documents, and the claims of the old       *)
(* checkpoint, which its own, of the new stamp, inherits.                  *)
AcquireReindex(j) ==
  /\ At(j, "reindex", "acquire") /\ lease = None
  /\ documents # {} /\ Cardinality(documents) <= Capacity
  /\ lease' = j
  /\ job' = [job EXCEPT ![j].pc = "ready", ![j].todo = documents,
                        ![j].claims = checkpoint.claims]
  /\ UNCHANGED <<image, documents, index, snapshot, checkpoint, mixing, reverted, bounds>>

ReindexInserts(j) ==
  /\ At(j, "reindex", "ready") /\ job[j].todo # {}
  /\ \E g \in job[j].todo :
       /\ InsertVectors(j, {g})
       /\ reverted' = reverted \ {g}
       /\ job' = [job EXCEPT ![j].pc = "mark", ![j].todo = @ \ {g}]
  /\ mixing' = mixing \cup {"reindex unfinished"}
  /\ UNCHANGED <<image, documents, snapshot, checkpoint, lease, bounds>>

(* Every snapshot_every_batches there is a mark and a snapshot, whose      *)
(* answer is logged.                                                       *)
ReindexMarks(j) ==
  /\ At(j, "reindex", "mark")
  /\ \/ GoTo(j, "renew") /\ UNCHANGED checkpoint
     \/ LET claims == job[j].claims \cup (documents \ job[j].todo) IN
        /\ Save(j, "pending", claims)
        /\ job' = [job EXCEPT ![j].pc = "snapshot", ![j].claims = claims]
  /\ UNCHANGED <<image, documents, index, snapshot, lease, mixing, reverted, bounds>>

ReindexSnapshots(j) ==
  /\ At(j, "reindex", "snapshot")
  /\ \E ok \in BOOLEAN : TakeSnapshot(ok)
  /\ GoTo(j, "renew")
  /\ UNCHANGED <<image, documents, index, checkpoint, lease, mixing, reverted>>

ReindexRenews(j) ==
  /\ At(j, "reindex", "renew")
  /\ GoTo(j, "ready")
  /\ UNCHANGED <<image, documents, index, snapshot, checkpoint, lease, mixing, reverted, bounds>>

(* "lost the ingest lease mid-reindex": exit 1 with whatever checkpoint.   *)
ReindexLosesLease(j) ==
  /\ At(j, "reindex", "renew")
  /\ Exit(j)
  /\ Failing
  /\ UNCHANGED <<image, documents, index, snapshot, checkpoint, mixing, reverted>>

ReindexMarksAll(j) ==
  /\ At(j, "reindex", "ready") /\ job[j].todo = {}
  /\ LET claims == job[j].claims \cup documents IN
     /\ Save(j, "pending", claims)
     /\ job' = [job EXCEPT ![j].pc = "final", ![j].claims = claims]
  /\ UNCHANGED <<image, documents, index, snapshot, lease, mixing, reverted, bounds>>

ReindexFinal(j) ==
  /\ At(j, "reindex", "final")
  /\ \E ok \in BOOLEAN :
       /\ TakeSnapshot(ok)
       /\ IF ok THEN GoTo(j, "saved") /\ UNCHANGED lease ELSE Exit(j)
  /\ UNCHANGED <<image, documents, index, checkpoint, mixing, reverted>>

ReindexCompletes(j) ==
  /\ At(j, "reindex", "saved")
  /\ Save(j, "complete", job[j].claims)
  /\ Exit(j)
  /\ mixing' = IF reverted = {} THEN {} ELSE mixing
  /\ UNCHANGED <<image, documents, index, snapshot, reverted, bounds>>

-----------------------------------------------------------------------------
(* MinDB *)

SaveOnTheClock ==
  /\ snapshot # index
  /\ snapshot' = index
  /\ UNCHANGED <<image, documents, index, checkpoint, lease, job, mixing, reverted, bounds>>

RestartsWithoutLog ==
  /\ index # snapshot
  /\ index' = snapshot
  /\ reverted' = reverted \cup {g \in Game : index[g] # snapshot[g]}
  /\ Failing
  /\ UNCHANGED <<image, documents, snapshot, checkpoint, lease, job, mixing>>

-----------------------------------------------------------------------------
Ingests(j) == AcquireIngest(j) \/ Append(j) \/ IngestInserts(j) \/ IngestMarks(j)
              \/ IngestSnapshots(j) \/ IngestCompletes(j)

Reindexes(j) == AcquireReindex(j) \/ ReindexInserts(j) \/ ReindexMarks(j) \/ ReindexSnapshots(j)
                \/ ReindexRenews(j) \/ ReindexMarksAll(j) \/ ReindexFinal(j) \/ ReindexCompletes(j)

Next ==
  \/ \E j \in Job : StartIngest(j) \/ StartReindex(j) \/ Declines(j) \/ Ingests(j) \/ Reindexes(j)
                    \/ ReindexLosesLease(j) \/ Dies(j)
  \/ Deploy \/ LeaseExpires \/ SaveOnTheClock \/ RestartsWithoutLog

Spec == Init /\ [][Next]_vars

(* A job that was started goes on, an ingest comes to the end of its list, *)
(* a dead job's lease runs out, and the operator starts a reindex, when no *)
(* other job holds the lease, until there has been one.                    *)
FairSpec ==
  /\ Spec
  /\ WF_vars(LeaseExpires)
  /\ \A j \in Job : /\ WF_vars(Declines(j) \/ Ingests(j)) /\ WF_vars(Reindexes(j))
                    /\ SF_vars(IngestSnapshots(j))
                    /\ SF_vars(AcquireReindex(j)) /\ SF_vars(lease = None /\ StartReindex(j))

-----------------------------------------------------------------------------
(* Properties *)

OfModel(vectors, m) == \A g \in Game : vectors[g] \in {m, None}

(* Every vector of the snapshot beside a COMPLETE checkpoint is of the     *)
(* model it is stamped with, unless a reindex has not been finished, an    *)
(* ingest got past the guard with a stamp that changed before it had the   *)
(* lease, or a first run died before it left a stamp.                      *)
CompleteIsOneModelUnlessMixing ==
  checkpoint.status = "complete" /\ mixing = {} => OfModel(snapshot, checkpoint.stamp)

(* A reindex that completes has put a vector of its model into the         *)
(* snapshot for every document, and neither it nor any of its marks drops  *)
(* a verdict that was on disk.                                             *)
ReindexIsWhole ==
  [][\A j \in Job :
       /\ At(j, "reindex", "saved") /\ checkpoint' # checkpoint =>
            /\ \A g \in documents \ reverted : snapshot[g] = checkpoint'.stamp
            /\ documents \subseteq checkpoint'.claims
       /\ Kind[j] = "reindex" /\ lease = j =>
            checkpoint.claims \subseteq checkpoint'.claims]_vars

(* Whatever died on the way, reindexing until it is done levels the index. *)
IndexIsLevelled == <>[](\A g \in documents : index[g] = image)
=============================================================================
