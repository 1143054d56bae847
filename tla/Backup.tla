------------------------------- MODULE Backup -------------------------------
(***************************************************************************)
(* The backup sidecar (ops/backup.py --watch): it watches the snapshot     *)
(* that MinDB keeps rewriting, and turns it and the checkpoint of the last *)
(* run into a Backup Generation in object storage, one put at a time.      *)
(*                                                                         *)
(* Beside it work MinDB, which saves on its own clock and when an ingest   *)
(* asks it to, and one ingest (ingest/run.py; IngestRun has it in full),   *)
(* of which only what the sidecar can see is kept: the order of append,    *)
(* insert, claim, snapshot and COMPLETE.  Games that are claimed without a *)
(* document or a vector are left out.                                      *)
(*                                                                         *)
(* A generation has a prefix of its own: two backups are more than a       *)
(* second apart.  The prefix is its place in the sequence of all of them.  *)
(***************************************************************************)
EXTENDS Integers, Sequences, FiniteSets

CONSTANTS
  Game,        \* games, each with at most one document and one vector
  Retain,      \* RETAIN_GENERATIONS
  MaxSaves,    \* bound: snapshots MinDB writes
  MaxFailures  \* bound: kills, exceptions and restarts

ASSUME GameAssumption   == IsFiniteSet(Game)
ASSUME RetainAssumption == Retain \in Nat \ {0}
ASSUME BoundAssumption  == MaxSaves \in Nat /\ MaxFailures \in Nat

VARIABLES
  \* the ingest
  documents,   \* games with a document
  batch,       \* the games of the batch in hand
  phase,       \* where the ingest is
  checkpoint,  \* checkpoint.json: status and claims
  missed,      \* history: documents whose vector a failure kept from MinDB
  \* MinDB
  index,       \* games with a vector in memory
  snap,        \* mindb.snap: its vectors, and which save wrote it (its mtime)
  meta,        \* mindb.snap.meta: which save stamped it, 0 if none
  save,        \* the save in progress: what it writes and what is renamed yet
  \* the sidecar
  pc,
  current,     \* mtime of the snapshot at this tick
  digest,      \* its digest: {vectors}, or {} for None
  lastMtime, lastDigest,
  copy,        \* the bytes of the checkpoint
  read,        \* the Snapshot that was read: vectors, save and meta
  doomed,      \* generations prune is deleting, oldest first
  \* object storage
  bucket,      \* every generation begun: its content, and the keys there are
  failures

ingest  == <<documents, batch, phase, checkpoint>>
mindb   == <<index, snap, meta, save>>
marks   == <<lastMtime, lastDigest>>
reading == <<current, digest, copy, read>>
sidecar == <<pc, reading, marks, doomed>>
vars    == <<ingest, missed, mindb, sidecar, bucket, failures>>

(* The keys of a generation; "files" stands for the two or three files of  *)
(* its manifest, of which part is no better than none.                     *)
Keys == {"files", "manifest.json", "COMPLETE"}

NoCheckpoint == [status |-> "absent", claims |-> {}]
NothingRead  == [vectors |-> {}, save |-> 0, meta |-> 0]
NoSave       == [done |-> "none", vectors |-> {}, number |-> 0]

CheckpointFile == [status : {"absent", "pending", "complete"}, claims : SUBSET Game]
Digest == {{}} \cup {{v} : v \in SUBSET Game}
Generation == [keys : SUBSET Keys, status : {"pending", "complete"}, claims : SUBSET Game,
               vectors : SUBSET Game, save : Nat, meta : Nat]

TypeOK ==
  /\ documents \subseteq Game /\ batch \subseteq Game /\ missed \subseteq Game
  /\ phase \in {"idle", "append", "insert", "claim", "batch", "saving", "saved"}
  /\ checkpoint \in CheckpointFile
  /\ index \subseteq Game
  /\ snap \in [vectors : SUBSET Game, save : 0..MaxSaves]
  /\ meta \in 0..MaxSaves
  /\ save \in [done : {"none", "begun", "snap", "meta"}, vectors : SUBSET Game,
               number : 0..MaxSaves]
  /\ pc \in {"sleep", "digest", "load", "bytes", "data", "meta", "put", "prune", "delete"}
  /\ current \in 0..MaxSaves /\ lastMtime \in 0..MaxSaves
  /\ digest \in Digest /\ lastDigest \in Digest
  /\ copy \in CheckpointFile
  /\ read \in [vectors : SUBSET Game, save : 0..MaxSaves, meta : 0..MaxSaves]
  /\ bucket \in Seq(Generation)
  /\ doomed \subseteq DOMAIN bucket
  /\ failures \in 0..MaxFailures

Init ==
  /\ documents = {} /\ batch = {} /\ phase = "idle" /\ checkpoint = NoCheckpoint /\ missed = {}
  /\ index = {} /\ snap = [vectors |-> {}, save |-> 0] /\ meta = 0 /\ save = NoSave
  /\ pc = "sleep" /\ current = 0 /\ digest = {} /\ lastMtime = 0 /\ lastDigest = {}
  /\ copy = NoCheckpoint /\ read = NothingRead /\ doomed = {}
  /\ bucket = <<>> /\ failures = 0

Failing == failures < MaxFailures /\ failures' = failures + 1

-----------------------------------------------------------------------------
(* The ingest *)

(* A batch is fetched and its documents are appended. *)
AppendBatch(b) ==
  /\ phase \in {"idle", "batch"}
  /\ documents' = documents \cup b
  /\ batch' = b
  /\ phase' = "append"
  /\ UNCHANGED <<checkpoint, missed, mindb, sidecar, bucket, failures>>

Insert ==
  /\ phase = "append"
  /\ index' = index \cup batch
  /\ phase' = "insert"
  /\ UNCHANGED <<documents, batch, checkpoint, missed, snap, meta, save, sidecar, bucket, failures>>

(* mark_pending: what the run has seen is every document, as it started    *)
(* from those that were there.                                             *)
MarkPending ==
  /\ phase = "insert"
  /\ checkpoint' = [status |-> "pending", claims |-> documents]
  /\ batch' = {}
  /\ phase' = "batch"
  /\ UNCHANGED <<documents, missed, mindb, sidecar, bucket, failures>>

MarkComplete ==
  /\ phase = "saved"
  /\ checkpoint' = [status |-> "complete", claims |-> documents]
  /\ phase' = "idle"
  /\ UNCHANGED <<documents, batch, missed, mindb, sidecar, bucket, failures>>

(* Documents on disk whose insert is not going to happen. *)
NotInserted == IF phase = "append" THEN batch \ index ELSE {}

(* The run is killed, raises, or its snapshot fails. *)
IngestDies ==
  /\ phase # "idle"
  /\ missed' = missed \cup NotInserted
  /\ batch' = {}
  /\ phase' = "idle"
  /\ Failing
  /\ UNCHANGED <<documents, checkpoint, mindb, sidecar, bucket>>

-----------------------------------------------------------------------------
(* MinDB.  A save writes two files beside the old ones and renames them    *)
(* into place, one after the other.                                        *)

BeginSave ==
  /\ save.done = "none"
  /\ snap.save < MaxSaves /\ meta < MaxSaves
  /\ save' = [done |-> "begun", vectors |-> index,
              number |-> (IF snap.save < meta THEN meta ELSE snap.save) + 1]
  /\ UNCHANGED <<index, snap, meta>>

(* On the clock, or because a run asked for a snapshot after a batch. *)
MinDBSaves ==
  /\ BeginSave
  /\ UNCHANGED <<ingest, missed, sidecar, bucket, failures>>

(* The final snapshot of a run, which waits for it. *)
FinalSnapshot ==
  /\ phase \in {"idle", "batch"}
  /\ BeginSave
  /\ phase' = "saving"
  /\ UNCHANGED <<documents, batch, checkpoint, missed, sidecar, bucket, failures>>

Saving(done) ==
  /\ save' = IF save.done = "begun" THEN [save EXCEPT !.done = done] ELSE NoSave
  /\ phase' = IF save.done # "begun" /\ phase = "saving" THEN "saved" ELSE phase
  /\ UNCHANGED <<documents, batch, checkpoint, missed, index, sidecar, bucket, failures>>

RenameSnap ==
  /\ save.done \in {"begun", "meta"}
  /\ snap' = [vectors |-> save.vectors, save |-> save.number]
  /\ Saving("snap")
  /\ UNCHANGED meta

RenameMeta ==
  /\ save.done \in {"begun", "snap"}
  /\ meta' = save.number
  /\ Saving("meta")
  /\ UNCHANGED snap

(* MinDB restarts, with its write-ahead log or without. *)
MinDBRestarts ==
  /\ index' \in {index, snap.vectors}
  /\ missed' = missed \cup (index \ index')
  /\ save' = NoSave
  /\ phase' = IF phase = "saving" THEN "idle" ELSE phase
  /\ Failing
  /\ UNCHANGED <<documents, batch, checkpoint, snap, meta, sidecar, bucket>>

-----------------------------------------------------------------------------
(* The sidecar: watch, and back_up_once *)

Visible(i) == "COMPLETE" \in bucket[i].keys

(* complete_generations, with what is in them; the id is their age. *)
Content(i) == [id |-> i, status |-> bucket[i].status, claims |-> bucket[i].claims,
               vectors |-> bucket[i].vectors]
visible == {Content(i) : i \in {j \in DOMAIN bucket : Visible(j)}}

Latest == Len(bucket)

(* The files, then the manifest, and COMPLETE last. *)
UploadOrder == <<"files", "manifest.json", "COMPLETE">>

(* Mutant: a generation is deleted in the order it was written.            *)
ListingOrderAsWritten == UploadOrder

(* list returns keys in order of their bytes: capitals come first. *)
ListingOrder == <<"COMPLETE", "files", "manifest.json">>

(* The first key of order for which P is still to be done. *)
IsNext(k, order, pending) ==
  \E i \in DOMAIN order :
    /\ order[i] = k /\ k \in pending
    /\ \A j \in 1..(i - 1) : order[j] \notin pending

Step(from, to) == pc = from /\ pc' = to

(* Back to time.sleep, with what this tick had in memory gone. *)
Sleep ==
  /\ pc' = "sleep"
  /\ current' = 0 /\ digest' = {} /\ copy' = NoCheckpoint /\ read' = NothingRead /\ doomed' = {}

(* The modification time is the trigger, and is remembered from here. *)
Tick ==
  /\ Step("sleep", "digest")
  /\ snap.save # 0 /\ snap.save # lastMtime
  /\ current' = snap.save
  /\ UNCHANGED <<ingest, missed, mindb, marks, digest, copy, read, doomed, bucket, failures>>

(* snapshot_digest: None when the snapshot moved while it was being read;  *)
(* then the digest decides nothing, and the backup is made all the same.   *)
TakeDigest ==
  /\ pc = "digest"
  /\ \E d \in {{snap.vectors}, {}} :
       /\ d = {} => snap.save # current
       /\ IF d # {} /\ d = lastDigest
            THEN lastMtime' = current /\ Sleep
            ELSE /\ pc' = "load" /\ digest' = d
                 /\ UNCHANGED <<current, copy, read, doomed, lastMtime>>
  /\ UNCHANGED <<ingest, missed, mindb, lastDigest, bucket, failures>>

(* Nothing is backed up around a checkpoint that is not COMPLETE. *)
LoadCheckpoint ==
  /\ pc = "load"
  /\ IF checkpoint.status = "complete"
       THEN pc' = "bytes" /\ UNCHANGED <<reading, doomed>>
       ELSE Sleep
  /\ UNCHANGED <<ingest, missed, mindb, marks, bucket, failures>>

(* What goes into the generation is the file as it is now. *)
ReadBytes ==
  /\ Step("bytes", "data")
  /\ copy' = checkpoint
  /\ UNCHANGED <<ingest, missed, mindb, marks, current, digest, read, doomed, bucket, failures>>

(* One instant stands for the first stat and the read: a rename between    *)
(* them makes the read be discarded, as one right after it does.           *)
ReadData ==
  /\ Step("data", "meta")
  /\ read' = [vectors |-> snap.vectors, save |-> snap.save, meta |-> 0]
  /\ UNCHANGED <<ingest, missed, mindb, marks, current, digest, copy, doomed, bucket, failures>>

(* The .meta, and stat again: the read is discarded if the snapshot moved. *)
(* If it did not, the generation is given its name.                        *)
ReadMeta ==
  /\ pc = "meta"
  /\ IF snap.save # read.save
       THEN Sleep /\ UNCHANGED bucket
       ELSE /\ pc' = "put"
            /\ read' = [read EXCEPT !.meta = meta]
            /\ bucket' = Append(bucket, [keys |-> {}, status |-> copy.status,
                                         claims |-> copy.claims, vectors |-> read.vectors,
                                         save |-> read.save, meta |-> meta])
            /\ UNCHANGED <<current, digest, copy, doomed>>
  /\ UNCHANGED <<ingest, missed, mindb, marks, failures>>

(* Mutant: the checkpoint is read when it is uploaded, after the snapshot. *)
PutCheckpointLate ==
  /\ pc = "put"
  /\ \E k \in Keys :
       /\ IsNext(k, UploadOrder, Keys \ bucket[Latest].keys)
       /\ bucket' = [bucket EXCEPT ![Latest].keys = @ \cup {k},
                                  ![Latest].status = IF k = "files" THEN checkpoint.status ELSE @,
                                  ![Latest].claims = IF k = "files" THEN checkpoint.claims ELSE @]
       /\ pc' = IF k = "COMPLETE" THEN "prune" ELSE "put"
  /\ UNCHANGED <<ingest, missed, mindb, marks, reading, doomed, failures>>

Put ==
  /\ pc = "put"
  /\ \E k \in Keys :
       /\ IsNext(k, UploadOrder, Keys \ bucket[Latest].keys)
       /\ bucket' = [bucket EXCEPT ![Latest].keys = @ \cup {k}]
       /\ pc' = IF k = "COMPLETE" THEN "prune" ELSE "put"
  /\ UNCHANGED <<ingest, missed, mindb, marks, reading, doomed, failures>>

(* The oldest complete generations beyond those to be retained. *)
Surplus ==
  {i \in DOMAIN bucket : Visible(i) /\ Cardinality({g \in visible : g.id > i}) >= Retain}

Prune ==
  /\ Step("prune", "delete")
  /\ doomed' = Surplus
  /\ UNCHANGED <<ingest, missed, mindb, marks, reading, bucket, failures>>

(* Key by key, generation by generation. *)
Delete ==
  /\ pc = "delete"
  /\ \E i \in doomed : \E k \in Keys :
       /\ \A j \in doomed : i <= j
       /\ IsNext(k, ListingOrder, bucket[i].keys)
       /\ bucket' = [bucket EXCEPT ![i].keys = @ \ {k}]
       /\ doomed' = IF bucket[i].keys = {k} THEN doomed \ {i} ELSE doomed
  /\ UNCHANGED <<ingest, missed, mindb, marks, pc, reading, failures>>

(* Mutant: the time remembered is that of the snapshot there is by now.    *)
DoneAtNewTime ==
  /\ pc = "delete" /\ doomed = {}
  /\ lastMtime' = snap.save /\ lastDigest' = digest
  /\ Sleep
  /\ UNCHANGED <<ingest, missed, mindb, bucket, failures>>

(* Only now does the sidecar remember what it has backed up. *)
Done ==
  /\ pc = "delete" /\ doomed = {}
  /\ lastMtime' = current /\ lastDigest' = digest
  /\ Sleep
  /\ UNCHANGED <<ingest, missed, mindb, bucket, failures>>

(* Mutant: a backup that failed counts as done.                            *)
BackupFailsAdvanced ==
  /\ pc # "sleep"
  /\ lastMtime' = current /\ lastDigest' = digest
  /\ Sleep
  /\ Failing
  /\ UNCHANGED <<ingest, missed, mindb, bucket>>

(* Every exception is caught, and neither marker advanced. *)
BackupFails ==
  /\ pc # "sleep"
  /\ Sleep
  /\ Failing
  /\ UNCHANGED <<ingest, missed, mindb, marks, bucket>>

(* The container is restarted and has no memory of what is backed up. *)
SidecarRestarts ==
  /\ Sleep
  /\ lastMtime' = 0 /\ lastDigest' = {}
  /\ Failing
  /\ UNCHANGED <<ingest, missed, mindb, bucket>>

-----------------------------------------------------------------------------
Ingest == (\E b \in SUBSET Game \ {{}} : AppendBatch(b)) \/ Insert \/ MarkPending \/ FinalSnapshot
          \/ MarkComplete

MinDB == MinDBSaves \/ RenameSnap \/ RenameMeta

Watch == Tick \/ TakeDigest \/ LoadCheckpoint \/ ReadBytes \/ ReadData \/ ReadMeta \/ Put
         \/ Prune \/ Delete \/ Done

Fail == IngestDies \/ MinDBRestarts \/ BackupFails \/ SidecarRestarts

Next == Ingest \/ MinDB \/ Watch \/ Fail

Spec == Init /\ [][Next]_vars

(* The sidecar never exits and polls for ever; nothing is assumed of the   *)
(* ingest or of MinDB.                                                     *)
FairSpec == Spec /\ WF_vars(Watch)

-----------------------------------------------------------------------------
(* Properties *)

(* COMPLETE lands last or not at all, and goes first when a generation is  *)
(* pruned: what a restore may look at has every file of its manifest.      *)
MarkedIsWhole ==
  \A i \in DOMAIN bucket : Visible(i) => bucket[i].keys = Keys

(* checkpoint <= snapshot in every generation a restore accepts, whole and *)
(* newest last, and no more than the surplus pruned.                       *)
G == INSTANCE Generations WITH Game <- Game, Retain <- Retain, visible <- visible, missed <- missed
BackupsAreGenerations == G!Spec

(* Once ingests leave the checkpoint COMPLETE for good, the vectors of the *)
(* snapshot get into a generation, whatever failed on the way.             *)
IsBackedUp == snap.save # 0 => \E g \in visible : g.vectors = snap.vectors
VectorsAreBackedUp == <>[](checkpoint.status = "complete") => []<>IsBackedUp

(* The sidecar takes no further interest in a snapshot only when its       *)
(* vectors are in a generation a restore can see: after the digest was     *)
(* taken of one snapshot and the data of the next, after attempts that     *)
(* failed, and while older generations go.                                 *)
QuietMeansBackedUp == snap.save = lastMtime => IsBackedUp

-----------------------------------------------------------------------------
(* The inductive invariant behind BackupsAreGenerations                    *)

(* A document without a vector is about to get one, or a failure kept it   *)
(* from it.                                                                *)
DocumentsAreExplained == documents \subseteq index \cup missed \cup NotInserted

(* The snapshot never holds what MinDB has not got, and only ever gains.   *)
SnapshotsGrow ==
  /\ snap.vectors \subseteq index
  /\ save.done # "none" => snap.vectors \subseteq save.vectors /\ save.vectors \subseteq index
  /\ save.done = "snap" => snap.vectors = save.vectors

(* The final snapshot of a run has every document, and goes on having it.  *)
FinalSnapshotIsCurrent ==
  /\ phase = "saving" => save.done # "none" /\ documents \subseteq save.vectors \cup missed
  /\ phase = "saved" => documents \subseteq snap.vectors \cup missed

CompleteIsCovered ==
  checkpoint.status = "complete" => checkpoint.claims \subseteq snap.vectors \cup missed

(* The checkpoint the sidecar has read is covered by the snapshot it is    *)
(* about to read, and then by the one it has read.                         *)
CopyIsCovered ==
  /\ pc \in {"bytes", "data", "meta"} => checkpoint.status # "absent"
  /\ pc \in {"data", "meta"} => copy.status # "absent"
  /\ pc = "data" /\ copy.status = "complete" => copy.claims \subseteq snap.vectors \cup missed
  /\ pc = "meta" /\ copy.status = "complete" => copy.claims \subseteq read.vectors \cup missed

GenerationsAreCovered ==
  \A i \in DOMAIN bucket :
    bucket[i].status = "complete" => bucket[i].claims \subseteq bucket[i].vectors \cup missed

UploadIsInOrder ==
  pc = "put" => bucket # <<>> /\ bucket[Latest].keys \in {{}, {"files"}, {"files", "manifest.json"}}

(* What is being pruned is surplus, and nothing older is kept. *)
DoomedAreOldest ==
  pc = "delete" => \A i \in doomed :
    /\ Visible(i) => Cardinality({g \in visible : g.id > i}) >= Retain
    /\ \A j \in DOMAIN bucket : Visible(j) /\ j < i => j \in doomed

BackupInv ==
  /\ TypeOK
  /\ DocumentsAreExplained
  /\ SnapshotsGrow
  /\ FinalSnapshotIsCurrent
  /\ CompleteIsCovered
  /\ CopyIsCovered
  /\ GenerationsAreCovered
  /\ UploadIsInOrder
  /\ MarkedIsWhole
  /\ DoomedAreOldest

-----------------------------------------------------------------------------
(* What QuietMeansBackedUp rests on besides                                *)

(* A save that is still to rename its snapshot is newer than the last one. *)
SavesAreNumbered == save.done \in {"begun", "meta"} => snap.save < save.number

(* Each generation has what the one before it had, and no more than the    *)
(* snapshot.                                                               *)
GenerationsGrow ==
  /\ \A i \in DOMAIN bucket : bucket[i].vectors \subseteq snap.vectors
  /\ \A i, j \in DOMAIN bucket : i < j => bucket[i].vectors \subseteq bucket[j].vectors

(* What the sidecar saw first is not newer than what it saw next.          *)
SightsAreInOrder ==
  /\ lastMtime <= snap.save /\ current <= snap.save
  /\ \A v \in digest : v \subseteq snap.vectors
  /\ pc \in {"meta", "put", "prune", "delete"} =>
       /\ current <= read.save /\ read.save <= snap.save
       /\ \A v \in digest : v \subseteq read.vectors
       /\ read.vectors \subseteq snap.vectors
       /\ \A i \in DOMAIN bucket : bucket[i].vectors \subseteq read.vectors
       /\ read.save = snap.save => read.vectors = snap.vectors

(* The newest generation is of the snapshot that was read, and there for a *)
(* restore by the time older ones go.                                      *)
LatestIsOfTheRead ==
  /\ pc \in {"put", "prune", "delete"} => bucket # <<>> /\ bucket[Latest].vectors = read.vectors
  /\ pc \in {"prune", "delete"} => Visible(Latest)

(* What the last backup had is kept: pruning leaves a newer generation,    *)
(* which has no less.                                                      *)
RememberedIsKept ==
  \A v \in lastDigest : \E i \in DOMAIN bucket : Visible(i) /\ v \subseteq bucket[i].vectors

QuietInv ==
  /\ BackupInv
  /\ SavesAreNumbered
  /\ GenerationsGrow
  /\ SightsAreInOrder
  /\ LatestIsOfTheRead
  /\ RememberedIsKept
  /\ QuietMeansBackedUp
=============================================================================
