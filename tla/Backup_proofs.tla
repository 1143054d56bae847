--------------------------- MODULE Backup_proofs ---------------------------
(***************************************************************************)
(* Proofs about Backup, for any games, retention and bounds: its types,    *)
(* that a generation with a COMPLETE marker is whole, that the backups in  *)
(* object storage implement Generations, and that the sidecar rests on a   *)
(* snapshot only when it is backed up.                                     *)
(***************************************************************************)
EXTENDS Backup, FiniteSetTheorems, SequenceTheorems, TLAPS

-----------------------------------------------------------------------------
(* Types                                                                   *)

(* The first state, with nothing ingested and nothing backed up.           *)
LEMMA InitHasType == Init => TypeOK
  BY BoundAssumption
     DEF Init, TypeOK, NoCheckpoint, NoSave, NothingRead, CheckpointFile, Digest

(* A save renames one file, then the other.                                *)
LEMMA SavingKeepsType ==
  ASSUME TypeOK, NEW done \in {"snap", "meta"}, save.done # "none", Saving(done)
  PROVE  /\ save' \in [done : {"none", "begun", "snap", "meta"}, vectors : SUBSET Game,
                       number : 0..MaxSaves]
         /\ phase' \in {"idle", "append", "insert", "claim", "batch", "saving", "saved"}
  BY BoundAssumption DEF TypeOK, Saving, NoSave

(* Going back to sleep leaves the sidecar with nothing in memory.          *)
LEMMA SleepKeepsType ==
  ASSUME TypeOK, Sleep
  PROVE  /\ pc' \in {"sleep", "digest", "load", "bytes", "data", "meta", "put", "prune", "delete"}
         /\ current' \in 0..MaxSaves /\ digest' \in Digest /\ copy' \in CheckpointFile
         /\ read' \in [vectors : SUBSET Game, save : 0..MaxSaves, meta : 0..MaxSaves]
         /\ doomed' = {}
  BY BoundAssumption DEF Sleep, NoCheckpoint, NothingRead, CheckpointFile, Digest

(* A new generation is made of the checkpoint and the snapshot just read.  *)
LEMMA NamingKeepsType ==
  ASSUME TypeOK, CopyIsCovered, ReadMeta
  PROVE  /\ bucket' \in Seq(Generation)
         /\ DOMAIN bucket \subseteq DOMAIN bucket'
         /\ \A i \in DOMAIN bucket : bucket'[i] = bucket[i]
         /\ \A i \in DOMAIN bucket' \ DOMAIN bucket :
              /\ i = Len(bucket) + 1
              /\ bucket'[i] = [keys |-> {}, status |-> copy.status, claims |-> copy.claims,
                               vectors |-> read.vectors, save |-> read.save, meta |-> meta]
  <1>1. CASE snap.save # read.save
    BY <1>1 DEF ReadMeta, TypeOK
  <1>2. CASE snap.save = read.save
    <2> DEFINE g == [keys |-> {}, status |-> copy.status, claims |-> copy.claims,
                     vectors |-> read.vectors, save |-> read.save, meta |-> meta]
    <2>1. g \in Generation
      BY BoundAssumption DEF TypeOK, CopyIsCovered, ReadMeta, CheckpointFile, Generation
    <2>2. bucket' = Append(bucket, g) /\ bucket \in Seq(Generation)
      BY <1>2 DEF ReadMeta, TypeOK
    <2> HIDE DEF g
    <2>3. /\ bucket' \in Seq(Generation)
          /\ Len(bucket') = Len(bucket) + 1
          /\ \A i \in 1..Len(bucket) : bucket'[i] = bucket[i]
          /\ bucket'[Len(bucket) + 1] = g
      BY <2>1, <2>2, AppendProperties
    <2>4. DOMAIN bucket = 1..Len(bucket) /\ DOMAIN bucket' = 1..Len(bucket') /\ Len(bucket) \in Nat
      BY <2>2, <2>3, LenProperties
    <2>5. QED
      BY <2>3, <2>4 DEF g
  <1>3. QED
    BY <1>1, <1>2

(* The generations begun are numbered from 1 on.                           *)
LEMMA BucketHasType ==
  ASSUME TypeOK
  PROVE  /\ Len(bucket) \in Nat /\ DOMAIN bucket = 1..Len(bucket)
         /\ \A i \in DOMAIN bucket : bucket[i] \in Generation /\ bucket[i].keys \in SUBSET Keys
  <1>1. bucket \in Seq(Generation)
    BY DEF TypeOK
  <1>2. Len(bucket) \in Nat /\ DOMAIN bucket = 1..Len(bucket)
    BY <1>1, LenProperties
  <1>3. \A i \in DOMAIN bucket : bucket[i] \in Generation
    BY <1>1, <1>2, ElementOfSeq
  <1>4. \A g \in Generation : g.keys \in SUBSET Keys
    BY DEF Generation
  <1>5. QED
    BY <1>2, <1>3, <1>4

(* The sidecar puts into the newest generation, which is there.            *)
LEMMA LatestIsThere ==
  ASSUME TypeOK, UploadIsInOrder, pc = "put"
  PROVE  Latest \in DOMAIN bucket
  <1>1. bucket # <<>> /\ bucket \in Seq(Generation)
    BY DEF UploadIsInOrder, TypeOK
  <1>2. Len(bucket) \in Nat \ {0}
    BY <1>1, EmptySeq
  <1>3. QED
    BY <1>2, BucketHasType DEF Latest

(* Keys come and go in a generation that is there.                         *)
LEMMA PuttingKeepsType ==
  ASSUME TypeOK, NEW i \in DOMAIN bucket, NEW keys \in SUBSET Keys,
         bucket' = [bucket EXCEPT ![i].keys = keys]
  PROVE  /\ bucket' \in Seq(Generation)
         /\ DOMAIN bucket' = DOMAIN bucket
         /\ Len(bucket') = Len(bucket)
         /\ \A j \in DOMAIN bucket : bucket'[j] = IF j = i THEN [bucket[i] EXCEPT !.keys = keys]
                                                          ELSE bucket[j]
  <1>1. bucket \in Seq(Generation)
    BY DEF TypeOK
  <1>2. bucket[i] \in Generation
    BY BucketHasType
  <1>3. [bucket[i] EXCEPT !.keys = keys] \in Generation
    BY <1>2 DEF Generation
  <1>4. bucket' = [bucket EXCEPT ![i] = [bucket[i] EXCEPT !.keys = keys]]
    OBVIOUS
  <1>5. QED
    BY <1>1, <1>3, <1>4, ExceptSeq, LenProperties

(* Every step of the ingest, MinDB, the sidecar and the failures.          *)
LEMMA StepKeepsType ==
  ASSUME TypeOK, CopyIsCovered, UploadIsInOrder, [Next]_vars
  PROVE  TypeOK'
  <1> USE DEF ingest, mindb, marks, reading, sidecar
  <1>1. ASSUME Ingest PROVE TypeOK'
    <2>1. ASSUME NEW b \in SUBSET Game, AppendBatch(b) PROVE TypeOK'
      BY <2>1 DEF TypeOK, AppendBatch
    <2>2. Insert => TypeOK'
      BY DEF TypeOK, Insert
    <2>3. MarkPending => TypeOK'
      BY DEF TypeOK, MarkPending, CheckpointFile
    <2>4. FinalSnapshot => TypeOK'
      BY BoundAssumption DEF TypeOK, FinalSnapshot, BeginSave
    <2>5. MarkComplete => TypeOK'
      BY DEF TypeOK, MarkComplete, CheckpointFile
    <2>6. QED
      BY <1>1, <2>1, <2>2, <2>3, <2>4, <2>5 DEF Ingest
  <1>2. ASSUME MinDB PROVE TypeOK'
    <2>1. MinDBSaves => TypeOK'
      BY BoundAssumption DEF TypeOK, MinDBSaves, BeginSave
    <2>2. ASSUME RenameSnap PROVE TypeOK'
      <3>1. snap' \in [vectors : SUBSET Game, save : 0..MaxSaves]
        BY <2>2 DEF TypeOK, RenameSnap
      <3>2. QED
        BY <2>2, <3>1, SavingKeepsType DEF TypeOK, RenameSnap, Saving
    <2>3. ASSUME RenameMeta PROVE TypeOK'
      BY <2>3, SavingKeepsType DEF TypeOK, RenameMeta, Saving
    <2>4. QED
      BY <1>2, <2>1, <2>2, <2>3 DEF MinDB
  <1>3. ASSUME Watch PROVE TypeOK'
    <2>1. Tick => TypeOK'
      BY DEF TypeOK, Tick, Step
    <2>2. ASSUME TakeDigest PROVE TypeOK'
      <3>1. PICK d \in {{snap.vectors}, {}} :
              IF d # {} /\ d = lastDigest
                THEN lastMtime' = current /\ Sleep
                ELSE /\ pc' = "load" /\ digest' = d
                     /\ UNCHANGED <<current, copy, read, doomed, lastMtime>>
        BY <2>2 DEF TakeDigest
      <3>2. d \in Digest
        BY DEF TypeOK, Digest
      <3>3. QED
        BY <2>2, <3>1, <3>2, SleepKeepsType DEF TypeOK, TakeDigest
    <2>3. LoadCheckpoint => TypeOK'
      BY SleepKeepsType DEF TypeOK, LoadCheckpoint
    <2>4. ReadBytes => TypeOK'
      BY DEF TypeOK, ReadBytes, Step
    <2>5. ReadData => TypeOK'
      BY BoundAssumption DEF TypeOK, ReadData, Step
    <2>6. ASSUME ReadMeta PROVE TypeOK'
      <3>1. bucket' \in Seq(Generation) /\ doomed' \subseteq DOMAIN bucket'
        BY <2>6, NamingKeepsType, SleepKeepsType DEF ReadMeta, TypeOK
      <3>2. pc' \in {"sleep", "digest", "load", "bytes", "data", "meta", "put", "prune", "delete"}
              /\ current' \in 0..MaxSaves /\ digest' \in Digest /\ copy' \in CheckpointFile
              /\ read' \in [vectors : SUBSET Game, save : 0..MaxSaves, meta : 0..MaxSaves]
        BY <2>6, SleepKeepsType DEF ReadMeta, TypeOK
      <3>3. QED
        BY <2>6, <3>1, <3>2 DEF TypeOK, ReadMeta
    <2>7. ASSUME Put PROVE TypeOK'
      <3>1. PICK k \in Keys : /\ bucket' = [bucket EXCEPT ![Latest].keys = @ \cup {k}]
                              /\ pc' = IF k = "COMPLETE" THEN "prune" ELSE "put"
        BY <2>7 DEF Put
      <3>2. PICK i \in DOMAIN bucket : i = Latest
        BY <2>7, LatestIsThere DEF Put
      <3>3. bucket' = [bucket EXCEPT ![i].keys = bucket[i].keys \cup {k}]
        BY <3>1, <3>2
      <3>4. bucket' \in Seq(Generation) /\ DOMAIN bucket' = DOMAIN bucket
        <4>1. bucket[i].keys \cup {k} \in SUBSET Keys
          BY BucketHasType
        <4>2. QED
          BY <3>3, <4>1, PuttingKeepsType
      <3>5. QED
        BY <2>7, <3>1, <3>4 DEF TypeOK, Put
    <2>8. Prune => TypeOK'
      BY DEF TypeOK, Prune, Step, Surplus
    <2>9. ASSUME Delete PROVE TypeOK'
      <3>1. PICK i \in doomed, k \in Keys :
              /\ bucket' = [bucket EXCEPT ![i].keys = @ \ {k}]
              /\ doomed' \subseteq doomed
        BY <2>9 DEF Delete
      <3>2. i \in DOMAIN bucket
        BY DEF TypeOK
      <3>3. bucket' = [bucket EXCEPT ![i].keys = bucket[i].keys \ {k}]
        BY <3>1
      <3>4. bucket' \in Seq(Generation) /\ DOMAIN bucket' = DOMAIN bucket
        <4>1. bucket[i].keys \ {k} \in SUBSET Keys
          BY <3>2, BucketHasType
        <4>2. QED
          BY <3>2, <3>3, <4>1, PuttingKeepsType
      <3>5. QED
        BY <2>9, <3>1, <3>4 DEF TypeOK, Delete
    <2>10. Done => TypeOK'
      BY SleepKeepsType DEF TypeOK, Done
    <2>11. QED
      BY <1>3, <2>1, <2>2, <2>3, <2>4, <2>5, <2>6, <2>7, <2>8, <2>9, <2>10 DEF Watch
  <1>4. ASSUME Fail PROVE TypeOK'
    <2>1. Failing => failures' \in 0..MaxFailures
      BY BoundAssumption DEF Failing, TypeOK
    <2>2. IngestDies => TypeOK'
      BY <2>1 DEF TypeOK, IngestDies, NotInserted
    <2>3. MinDBRestarts => TypeOK'
      BY <2>1, BoundAssumption DEF TypeOK, MinDBRestarts, NoSave
    <2>4. BackupFails => TypeOK'
      BY <2>1, SleepKeepsType DEF TypeOK, BackupFails
    <2>5. ASSUME SidecarRestarts PROVE TypeOK'
      <3>1. lastMtime' \in 0..MaxSaves /\ lastDigest' \in Digest
        BY <2>5, BoundAssumption DEF SidecarRestarts, Digest
      <3>2. QED
        BY <2>1, <2>5, <3>1, SleepKeepsType DEF TypeOK, SidecarRestarts
    <2>6. QED
      BY <1>4, <2>2, <2>3, <2>4, <2>5 DEF Fail
  <1>5. UNCHANGED vars => TypeOK'
    BY DEF vars, TypeOK
  <1>6. QED
    BY <1>1, <1>2, <1>3, <1>4, <1>5 DEF Next

-----------------------------------------------------------------------------
(* The ingest and MinDB                                                    *)

(* A vector that is in the snapshot stays there, a failure is not undone,  *)
(* and a checkpoint, once there, stays.                                    *)
LEMMA StepOnlyAdds ==
  ASSUME TypeOK, SnapshotsGrow, [Next]_vars
  PROVE  /\ snap.vectors \subseteq snap'.vectors
         /\ missed \subseteq missed'
         /\ checkpoint.status # "absent" => checkpoint'.status # "absent"
  <1> USE DEF ingest, mindb
  <1>1. ASSUME Ingest
        PROVE  /\ UNCHANGED <<snap, missed>>
               /\ checkpoint' # checkpoint => checkpoint'.status # "absent"
    BY <1>1 DEF Ingest, AppendBatch, Insert, MarkPending, FinalSnapshot, BeginSave, MarkComplete
  <1>2. ASSUME MinDB PROVE UNCHANGED <<checkpoint, missed>> /\ snap.vectors \subseteq snap'.vectors
    BY <1>2 DEF MinDB, MinDBSaves, BeginSave, RenameSnap, RenameMeta, Saving, SnapshotsGrow
  <1>3. Watch => UNCHANGED <<snap, checkpoint, missed>>
    BY DEF Watch, Tick, TakeDigest, LoadCheckpoint, ReadBytes, ReadData, ReadMeta, Put, Prune,
           Delete, Done
  <1>4. ASSUME Fail PROVE UNCHANGED <<snap, checkpoint>> /\ missed \subseteq missed'
    <2>1. IngestDies => UNCHANGED <<snap, checkpoint>> /\ missed \subseteq missed'
      BY DEF IngestDies
    <2>2. MinDBRestarts => UNCHANGED <<snap, checkpoint>> /\ missed \subseteq missed'
      BY DEF MinDBRestarts
    <2>3. BackupFails \/ SidecarRestarts => UNCHANGED <<snap, checkpoint, missed>>
      BY DEF BackupFails, SidecarRestarts
    <2>4. QED
      BY <1>4, <2>1, <2>2, <2>3 DEF Fail
  <1>5. UNCHANGED vars => UNCHANGED <<snap, checkpoint, missed>>
    BY DEF vars
  <1>6. QED
    BY <1>1, <1>2, <1>3, <1>4, <1>5 DEF Next

(* The sidecar touches neither the ingest nor MinDB.                       *)
LEMMA WatchOnlyReads ==
  ASSUME Watch \/ BackupFails \/ SidecarRestarts \/ UNCHANGED vars
  PROVE  UNCHANGED <<documents, batch, phase, checkpoint, missed, index, snap, meta, save>>
  BY DEF ingest, mindb, vars, Watch, Tick, TakeDigest, LoadCheckpoint, ReadBytes, ReadData,
         ReadMeta, Put, Prune, Delete, Done, BackupFails, SidecarRestarts

(* A snapshot holds what MinDB has, and each holds what the last one held. *)
LEMMA StepKeepsGrowth ==
  ASSUME TypeOK, SnapshotsGrow, [Next]_vars
  PROVE  SnapshotsGrow'
  <1> USE DEF SnapshotsGrow, ingest, mindb
  <1>1. Ingest => SnapshotsGrow'
    BY DEF Ingest, AppendBatch, Insert, MarkPending, FinalSnapshot, BeginSave, MarkComplete, TypeOK
  <1>2. MinDB => SnapshotsGrow'
    BY DEF MinDB, MinDBSaves, BeginSave, RenameSnap, RenameMeta, Saving, NoSave, TypeOK
  <1>3. IngestDies => SnapshotsGrow'
    BY DEF IngestDies
  <1>4. MinDBRestarts => SnapshotsGrow'
    BY DEF MinDBRestarts, NoSave
  <1>5. Watch \/ BackupFails \/ SidecarRestarts \/ UNCHANGED vars => SnapshotsGrow'
    BY WatchOnlyReads
  <1>6. QED
    BY <1>1, <1>2, <1>3, <1>4, <1>5 DEF Next, Fail

(* Documents are appended before their vectors are inserted; a failure     *)
(* between the two is the only thing that leaves a document without one.   *)
LEMMA StepKeepsExplanation ==
  ASSUME TypeOK, DocumentsAreExplained, [Next]_vars
  PROVE  DocumentsAreExplained'
  <1> USE DEF DocumentsAreExplained, NotInserted, ingest, mindb
  <1>1. Ingest => DocumentsAreExplained'
    BY DEF Ingest, AppendBatch, Insert, MarkPending, FinalSnapshot, BeginSave, MarkComplete
  <1>2. MinDB => DocumentsAreExplained'
    BY DEF MinDB, MinDBSaves, BeginSave, RenameSnap, RenameMeta, Saving
  <1>3. IngestDies => DocumentsAreExplained'
    BY DEF IngestDies
  <1>4. MinDBRestarts => DocumentsAreExplained'
    BY DEF MinDBRestarts
  <1>5. Watch \/ BackupFails \/ SidecarRestarts \/ UNCHANGED vars => DocumentsAreExplained'
    BY WatchOnlyReads
  <1>6. QED
    BY <1>1, <1>2, <1>3, <1>4, <1>5 DEF Next, Fail

(* The final snapshot begins with every insert of the run made, and a run  *)
(* that waits for it appends nothing.                                      *)
LEMMA StepKeepsFinalSnapshot ==
  ASSUME TypeOK, SnapshotsGrow, DocumentsAreExplained, FinalSnapshotIsCurrent, [Next]_vars
  PROVE  FinalSnapshotIsCurrent'
  <1> USE DEF FinalSnapshotIsCurrent, ingest, mindb
  <1>1. ASSUME Ingest PROVE FinalSnapshotIsCurrent'
    <2>1. (\E b \in SUBSET Game \ {{}} : AppendBatch(b)) \/ Insert \/ MarkPending \/ MarkComplete
            => phase' \notin {"saving", "saved"}
      BY DEF AppendBatch, Insert, MarkPending, MarkComplete
    <2>2. FinalSnapshot => FinalSnapshotIsCurrent'
      BY DEF FinalSnapshot, BeginSave, DocumentsAreExplained, NotInserted
    <2>3. QED
      BY <1>1, <2>1, <2>2 DEF Ingest
  <1>2. MinDBSaves => FinalSnapshotIsCurrent'
    BY DEF MinDBSaves, BeginSave
  <1>3. ASSUME RenameSnap PROVE FinalSnapshotIsCurrent'
    BY <1>3 DEF RenameSnap, Saving, SnapshotsGrow, TypeOK
  <1>4. ASSUME RenameMeta PROVE FinalSnapshotIsCurrent'
    BY <1>4 DEF RenameMeta, Saving, SnapshotsGrow, TypeOK
  <1>5. IngestDies \/ MinDBRestarts => FinalSnapshotIsCurrent'
    BY DEF IngestDies, MinDBRestarts
  <1>6. Watch \/ BackupFails \/ SidecarRestarts \/ UNCHANGED vars => FinalSnapshotIsCurrent'
    BY WatchOnlyReads
  <1>7. QED
    BY <1>1, <1>2, <1>3, <1>4, <1>5, <1>6 DEF Next, Fail, MinDB

(* COMPLETE comes after the final snapshot.                                *)
LEMMA StepKeepsCompleteCovered ==
  ASSUME TypeOK, SnapshotsGrow, FinalSnapshotIsCurrent, CompleteIsCovered, [Next]_vars
  PROVE  CompleteIsCovered'
  <1> USE DEF CompleteIsCovered, ingest, mindb
  <1>1. snap.vectors \subseteq snap'.vectors /\ missed \subseteq missed'
    BY StepOnlyAdds
  <1>2. MarkComplete => CompleteIsCovered'
    BY DEF MarkComplete, FinalSnapshotIsCurrent
  <1>3. MarkPending => CompleteIsCovered'
    BY DEF MarkPending
  <1>4. ~ MarkComplete /\ ~ MarkPending => UNCHANGED checkpoint
    BY WatchOnlyReads
       DEF Next, Ingest, AppendBatch, Insert, FinalSnapshot, MinDB, MinDBSaves, BeginSave,
           RenameSnap, RenameMeta, Saving, Fail, IngestDies, MinDBRestarts
  <1>5. QED
    BY <1>1, <1>2, <1>3, <1>4

-----------------------------------------------------------------------------
(* The sidecar                                                             *)

(* Nothing but the sidecar moves it, and only three of its steps change    *)
(* what is in object storage.                                              *)
LEMMA OnlyTheSidecarWrites ==
  ASSUME [Next]_vars
  PROVE  /\ Ingest \/ MinDB \/ IngestDies \/ MinDBRestarts \/ UNCHANGED vars
              => UNCHANGED <<pc, current, digest, copy, read, lastMtime, lastDigest, doomed, bucket>>
         /\ bucket' # bucket => ReadMeta \/ Put \/ Delete
  <1> USE DEF marks, reading, sidecar
  <1>1. Ingest => UNCHANGED <<pc, current, digest, copy, read, lastMtime, lastDigest, doomed, bucket>>
    BY DEF Ingest, AppendBatch, Insert, MarkPending, FinalSnapshot, MarkComplete
  <1>2. MinDB => UNCHANGED <<pc, current, digest, copy, read, lastMtime, lastDigest, doomed, bucket>>
    BY DEF MinDB, MinDBSaves, RenameSnap, RenameMeta, Saving
  <1>3. IngestDies \/ MinDBRestarts
          => UNCHANGED <<pc, current, digest, copy, read, lastMtime, lastDigest, doomed, bucket>>
    BY DEF IngestDies, MinDBRestarts
  <1>4. UNCHANGED vars
          => UNCHANGED <<pc, current, digest, copy, read, lastMtime, lastDigest, doomed, bucket>>
    BY DEF vars
  <1>5. Tick \/ TakeDigest \/ LoadCheckpoint \/ ReadBytes \/ ReadData \/ Prune \/ Done
          => UNCHANGED bucket
    BY DEF Tick, TakeDigest, LoadCheckpoint, ReadBytes, ReadData, Prune, Done
  <1>6. BackupFails \/ SidecarRestarts => UNCHANGED bucket
    BY DEF BackupFails, SidecarRestarts
  <1>7. QED
    BY <1>1, <1>2, <1>3, <1>4, <1>5, <1>6 DEF Next, Watch, Fail

(* What a put writes: the next key of the newest generation.               *)
LEMMA WhatPutDoes ==
  ASSUME TypeOK, UploadIsInOrder, Put
  PROVE  \E k \in Keys :
           /\ Latest \in DOMAIN bucket
           /\ bucket[Latest].keys = CASE k = "files"         -> {}
                                      [] k = "manifest.json" -> {"files"}
                                      [] k = "COMPLETE"      -> {"files", "manifest.json"}
           /\ bucket' = [bucket EXCEPT ![Latest].keys = bucket[Latest].keys \cup {k}]
           /\ pc' = IF k = "COMPLETE" THEN "prune" ELSE "put"
  <1>1. PICK k \in Keys :
          /\ IsNext(k, UploadOrder, Keys \ bucket[Latest].keys)
          /\ bucket' = [bucket EXCEPT ![Latest].keys = @ \cup {k}]
          /\ pc' = IF k = "COMPLETE" THEN "prune" ELSE "put"
    BY DEF Put
  <1>2. pc = "put"
    BY DEF Put
  <1>3. bucket[Latest].keys \in {{}, {"files"}, {"files", "manifest.json"}}
    BY <1>2 DEF UploadIsInOrder
  <1>4. PICK n \in 1..3 :
          /\ UploadOrder[n] = k /\ k \notin bucket[Latest].keys
          /\ \A j \in 1..(n - 1) : UploadOrder[j] \notin Keys \ bucket[Latest].keys
    BY <1>1 DEF IsNext, UploadOrder
  <1>5. /\ UploadOrder[1] = "files" /\ UploadOrder[2] = "manifest.json"
        /\ UploadOrder[3] = "COMPLETE"
    BY DEF UploadOrder
  <1>6. bucket[Latest].keys = CASE k = "files"         -> {}
                                [] k = "manifest.json" -> {"files"}
                                [] k = "COMPLETE"      -> {"files", "manifest.json"}
    <2>1. CASE n = 1
      BY <2>1, <1>3, <1>4, <1>5
    <2>2. CASE n = 2
      <3>1. k = "manifest.json" /\ "files" \in bucket[Latest].keys
        BY <2>2, <1>4, <1>5 DEF Keys
      <3>2. QED
        BY <3>1, <1>3, <1>4
    <2>3. CASE n = 3
      <3>1. k = "COMPLETE" /\ "files" \in bucket[Latest].keys
                           /\ "manifest.json" \in bucket[Latest].keys
        BY <2>3, <1>4, <1>5 DEF Keys
      <3>2. QED
        BY <3>1, <1>3
    <2>4. n = 1 \/ n = 2 \/ n = 3
      BY <1>4
    <2>5. QED
      BY <2>1, <2>2, <2>3, <2>4
  <1>7. Latest \in DOMAIN bucket
    BY <1>2, LatestIsThere
  <1>8. QED
    BY <1>1, <1>6, <1>7

(* What a delete removes: of the oldest doomed generation its marker, and  *)
(* another key only when that is gone.                                     *)
LEMMA WhatDeleteDoes ==
  ASSUME TypeOK, Delete
  PROVE  \E i \in DOMAIN bucket, k \in Keys :
           /\ i \in doomed /\ \A j \in doomed : i <= j
           /\ k \in bucket[i].keys
           /\ Visible(i) => k = "COMPLETE"
           /\ bucket' = [bucket EXCEPT ![i].keys = bucket[i].keys \ {k}]
           /\ doomed' = IF bucket[i].keys = {k} THEN doomed \ {i} ELSE doomed
           /\ pc' = pc
  <1>1. PICK i \in doomed, k \in Keys :
          /\ \A j \in doomed : i <= j
          /\ IsNext(k, ListingOrder, bucket[i].keys)
          /\ bucket' = [bucket EXCEPT ![i].keys = @ \ {k}]
          /\ doomed' = IF bucket[i].keys = {k} THEN doomed \ {i} ELSE doomed
    BY DEF Delete
  <1>2. PICK n \in 1..3 :
          /\ ListingOrder[n] = k /\ k \in bucket[i].keys
          /\ \A j \in 1..(n - 1) : ListingOrder[j] \notin bucket[i].keys
    BY <1>1 DEF IsNext, ListingOrder
  <1>3. ListingOrder[1] = "COMPLETE"
    BY DEF ListingOrder
  <1>4. Visible(i) => k = "COMPLETE"
    <2>1. CASE n = 1
      BY <2>1, <1>2, <1>3
    <2>2. CASE n # 1
      BY <2>2, <1>2, <1>3 DEF Visible
    <2>3. QED
      BY <2>1, <2>2
  <1>5. i \in DOMAIN bucket
    BY DEF TypeOK
  <1>6. pc' = pc
    BY DEF Delete
  <1>7. QED
    BY <1>1, <1>2, <1>4, <1>5, <1>6

(* The order the sidecar goes through, and what it has in memory where.    *)
LEMMA StepKeepsCopyCovered ==
  ASSUME TypeOK, SnapshotsGrow, CompleteIsCovered, CopyIsCovered, [Next]_vars
  PROVE  CopyIsCovered'
  <1> USE DEF CopyIsCovered, ingest, mindb, marks, reading, sidecar
  <1>1. /\ snap.vectors \subseteq snap'.vectors
        /\ missed \subseteq missed'
        /\ checkpoint.status # "absent" => checkpoint'.status # "absent"
    BY StepOnlyAdds
  <1>2. Ingest \/ MinDB \/ IngestDies \/ MinDBRestarts \/ UNCHANGED vars => CopyIsCovered'
    BY <1>1, OnlyTheSidecarWrites
  <1>3. ASSUME Watch PROVE CopyIsCovered'
    <2>1. UNCHANGED <<checkpoint, snap, missed>>
      BY <1>3, WatchOnlyReads
    <2>2. Tick \/ TakeDigest => CopyIsCovered'
      BY DEF Tick, TakeDigest, Step, Sleep
    <2>3. LoadCheckpoint => CopyIsCovered'
      BY <2>1 DEF LoadCheckpoint, Sleep
    <2>4. ReadBytes => CopyIsCovered'
      BY <2>1 DEF ReadBytes, Step, CompleteIsCovered
    <2>5. ReadData => CopyIsCovered'
      BY <2>1 DEF ReadData, Step
    <2>6. ReadMeta => CopyIsCovered'
      BY DEF ReadMeta, Sleep
    <2>7. Put \/ Prune \/ Delete \/ Done => CopyIsCovered'
      BY DEF Put, Prune, Delete, Done, Step, Sleep
    <2>8. QED
      BY <1>3, <2>2, <2>3, <2>4, <2>5, <2>6, <2>7 DEF Watch
  <1>4. BackupFails \/ SidecarRestarts => CopyIsCovered'
    BY DEF BackupFails, SidecarRestarts, Sleep
  <1>5. QED
    BY <1>2, <1>3, <1>4 DEF Next, Fail

(* Putting and deleting leave what a generation is made of alone.          *)
LEMMA KeysAreAllThatChanges ==
  ASSUME TypeOK, UploadIsInOrder, Put \/ Delete
  PROVE  /\ DOMAIN bucket' = DOMAIN bucket
         /\ Len(bucket') = Len(bucket)
         /\ \A i \in DOMAIN bucket : /\ bucket'[i].status = bucket[i].status
                                     /\ bucket'[i].claims = bucket[i].claims
                                     /\ bucket'[i].vectors = bucket[i].vectors
  <1>1. PICK i \in DOMAIN bucket, keys \in SUBSET Keys : bucket' = [bucket EXCEPT ![i].keys = keys]
    <2>1. ASSUME Put
          PROVE  \E i \in DOMAIN bucket, keys \in SUBSET Keys :
                   bucket' = [bucket EXCEPT ![i].keys = keys]
      <3>1. PICK k \in Keys :
              /\ Latest \in DOMAIN bucket
              /\ bucket' = [bucket EXCEPT ![Latest].keys = bucket[Latest].keys \cup {k}]
        BY <2>1, WhatPutDoes
      <3>2. bucket[Latest].keys \cup {k} \in SUBSET Keys
        BY <3>1, BucketHasType
      <3>3. QED
        BY <3>1, <3>2
    <2>2. ASSUME Delete
          PROVE  \E i \in DOMAIN bucket, keys \in SUBSET Keys :
                   bucket' = [bucket EXCEPT ![i].keys = keys]
      <3>1. PICK i \in DOMAIN bucket, k \in Keys :
              bucket' = [bucket EXCEPT ![i].keys = bucket[i].keys \ {k}]
        BY <2>2, WhatDeleteDoes
      <3>2. bucket[i].keys \ {k} \in SUBSET Keys
        BY <3>1, BucketHasType
      <3>3. QED
        BY <3>1, <3>2
    <2>3. QED
      BY <2>1, <2>2
  <1>2. \A j \in DOMAIN bucket : bucket'[j] = IF j = i THEN [bucket[i] EXCEPT !.keys = keys]
                                                       ELSE bucket[j]
    BY <1>1, PuttingKeepsType
  <1>3. \A j \in DOMAIN bucket : bucket[j] \in Generation
    BY BucketHasType
  <1>4. \A j \in DOMAIN bucket : /\ bucket'[j].status = bucket[j].status
                                 /\ bucket'[j].claims = bucket[j].claims
                                 /\ bucket'[j].vectors = bucket[j].vectors
    BY <1>2, <1>3 DEF Generation
  <1>5. QED
    BY <1>1, <1>4, PuttingKeepsType

(* A generation is made of a checkpoint and a snapshot that covers it.     *)
LEMMA StepKeepsGenerationsCovered ==
  ASSUME TypeOK, SnapshotsGrow, CopyIsCovered, UploadIsInOrder, GenerationsAreCovered, [Next]_vars
  PROVE  GenerationsAreCovered'
  <1> USE DEF GenerationsAreCovered
  <1>1. missed \subseteq missed'
    BY StepOnlyAdds
  <1>2. UNCHANGED bucket => GenerationsAreCovered'
    BY <1>1
  <1>3. ASSUME Put \/ Delete PROVE GenerationsAreCovered'
    BY <1>1, <1>3, KeysAreAllThatChanges
  <1>4. ASSUME ReadMeta PROVE GenerationsAreCovered'
    <2>1. pc = "meta"
      BY <1>4 DEF ReadMeta
    <2>2. copy.status = "complete" => copy.claims \subseteq read.vectors \cup missed
      BY <2>1 DEF CopyIsCovered
    <2>3. /\ DOMAIN bucket \subseteq DOMAIN bucket'
          /\ \A i \in DOMAIN bucket : bucket'[i] = bucket[i]
          /\ \A i \in DOMAIN bucket' \ DOMAIN bucket :
               bucket'[i] = [keys |-> {}, status |-> copy.status, claims |-> copy.claims,
                             vectors |-> read.vectors, save |-> read.save, meta |-> meta]
      BY <1>4, NamingKeepsType
    <2>4. ASSUME NEW i \in DOMAIN bucket', bucket'[i].status = "complete"
          PROVE  bucket'[i].claims \subseteq bucket'[i].vectors \cup missed'
      <3>1. CASE i \in DOMAIN bucket
        BY <3>1, <1>1, <2>3, <2>4
      <3>2. CASE i \notin DOMAIN bucket
        BY <3>2, <1>1, <2>2, <2>3, <2>4
      <3>3. QED
        BY <3>1, <3>2
    <2>5. QED
      BY <2>4
  <1>5. QED
    BY <1>2, <1>3, <1>4, OnlyTheSidecarWrites

(* The files come first, then the manifest, then the marker.               *)
LEMMA StepKeepsUploadOrder ==
  ASSUME TypeOK, CopyIsCovered, UploadIsInOrder, [Next]_vars
  PROVE  UploadIsInOrder'
  <1> USE DEF UploadIsInOrder
  <1>1. Ingest \/ MinDB \/ IngestDies \/ MinDBRestarts \/ UNCHANGED vars => UploadIsInOrder'
    BY OnlyTheSidecarWrites DEF Latest
  <1>2. Tick \/ TakeDigest \/ LoadCheckpoint \/ ReadBytes \/ ReadData \/ Prune \/ Delete \/ Done
          => pc' # "put"
    BY DEF Tick, TakeDigest, LoadCheckpoint, ReadBytes, ReadData, Prune, Delete, Done, Step, Sleep
  <1>3. BackupFails \/ SidecarRestarts => pc' # "put"
    BY DEF BackupFails, SidecarRestarts, Sleep
  <1>4. ASSUME ReadMeta, pc' = "put" PROVE UploadIsInOrder'
    <2> DEFINE g == [keys |-> {}, status |-> copy.status, claims |-> copy.claims,
                     vectors |-> read.vectors, save |-> read.save, meta |-> meta]
    <2>1. bucket' = Append(bucket, g)
      BY <1>4 DEF ReadMeta, Sleep
    <2>2. bucket \in Seq(Generation)
      BY DEF TypeOK
    <2>3. g \in Generation
      BY <1>4, BoundAssumption
         DEF TypeOK, CopyIsCovered, ReadMeta, Sleep, CheckpointFile, Generation
    <2>4. g.keys = {}
      OBVIOUS
    <2> HIDE DEF g
    <2>5. Len(bucket') = Len(bucket) + 1 /\ bucket'[Len(bucket) + 1] = g /\ bucket' # <<>>
      BY <2>1, <2>2, <2>3, AppendProperties
    <2>6. QED
      BY <2>4, <2>5 DEF Latest
  <1>5. ASSUME Put, pc' = "put" PROVE UploadIsInOrder'
    <2>1. PICK k \in {"files", "manifest.json"} :
            /\ Latest \in DOMAIN bucket
            /\ bucket[Latest].keys = IF k = "files" THEN {} ELSE {"files"}
            /\ bucket' = [bucket EXCEPT ![Latest].keys = bucket[Latest].keys \cup {k}]
      BY <1>5, WhatPutDoes DEF Keys
    <2>2. bucket[Latest].keys \cup {k} \in {{"files"}, {"files", "manifest.json"}}
      BY <2>1
    <2>3. bucket[Latest].keys \cup {k} \in SUBSET Keys
      BY <2>2 DEF Keys
    <2>4. PICK keys \in SUBSET Keys : keys = bucket[Latest].keys \cup {k}
      BY <2>3
    <2>5. PICK i \in DOMAIN bucket : i = Latest
      BY <2>1
    <2>6. bucket' = [bucket EXCEPT ![i].keys = keys]
      BY <2>1, <2>4, <2>5
    <2>7. Len(bucket') = Len(bucket) /\ bucket'[i] = [bucket[i] EXCEPT !.keys = keys]
          /\ DOMAIN bucket' = DOMAIN bucket
      BY <2>6, PuttingKeepsType
    <2>8. bucket[i] \in Generation
      BY BucketHasType
    <2>9. bucket'[i].keys = keys
      BY <2>7, <2>8 DEF Generation
    <2>10. bucket' # <<>>
      BY <2>5, <2>7, EmptySeq
    <2>11. QED
      BY <2>2, <2>4, <2>5, <2>7, <2>9, <2>10 DEF Latest
  <1>6. QED
    BY <1>1, <1>2, <1>3, <1>4, <1>5 DEF Next, Watch, Fail

(* The keys of each generation after a put.                                *)
LEMMA KeysAfterPut ==
  ASSUME TypeOK, UploadIsInOrder, Put
  PROVE  \E k \in Keys :
           /\ Latest \in DOMAIN bucket
           /\ k = "COMPLETE" => bucket[Latest].keys \cup {k} = Keys
           /\ k \notin bucket[Latest].keys
           /\ ~ Visible(Latest)
           /\ pc' = IF k = "COMPLETE" THEN "prune" ELSE "put"
           /\ \A j \in DOMAIN bucket :
                bucket'[j].keys = IF j = Latest THEN bucket[j].keys \cup {k} ELSE bucket[j].keys
  <1>1. PICK k \in Keys :
           /\ Latest \in DOMAIN bucket
           /\ bucket[Latest].keys = CASE k = "files"         -> {}
                                      [] k = "manifest.json" -> {"files"}
                                      [] k = "COMPLETE"      -> {"files", "manifest.json"}
           /\ bucket' = [bucket EXCEPT ![Latest].keys = bucket[Latest].keys \cup {k}]
           /\ pc' = IF k = "COMPLETE" THEN "prune" ELSE "put"
    BY WhatPutDoes
  <1>2. PICK i \in DOMAIN bucket, keys \in SUBSET Keys :
          i = Latest /\ keys = bucket[Latest].keys \cup {k}
    BY <1>1, BucketHasType
  <1>3. \A j \in DOMAIN bucket : bucket'[j] = IF j = i THEN [bucket[i] EXCEPT !.keys = keys]
                                                       ELSE bucket[j]
    BY <1>1, <1>2, PuttingKeepsType
  <1>4. \A j \in DOMAIN bucket : bucket[j] \in Generation
    BY BucketHasType
  <1>5. \A j \in DOMAIN bucket : bucket'[j].keys = IF j = i THEN keys ELSE bucket[j].keys
    BY <1>3, <1>4 DEF Generation
  <1>6. k \in {"files", "manifest.json", "COMPLETE"}
    BY DEF Keys
  <1>7. k \notin bucket[Latest].keys /\ "COMPLETE" \notin bucket[Latest].keys
    BY <1>1, <1>6
  <1>8. k = "COMPLETE" => bucket[Latest].keys \cup {k} = Keys
    BY <1>1, <1>6 DEF Keys
  <1>9. QED
    BY <1>1, <1>2, <1>5, <1>7, <1>8 DEF Visible

(* The keys of each generation after a delete.                             *)
LEMMA KeysAfterDelete ==
  ASSUME TypeOK, Delete
  PROVE  \E i \in DOMAIN bucket, k \in Keys :
           /\ i \in doomed /\ \A j \in doomed : i <= j
           /\ k \in bucket[i].keys
           /\ Visible(i) => k = "COMPLETE"
           /\ doomed' = IF bucket[i].keys = {k} THEN doomed \ {i} ELSE doomed
           /\ pc' = pc
           /\ \A j \in DOMAIN bucket :
                bucket'[j].keys = IF j = i THEN bucket[i].keys \ {k} ELSE bucket[j].keys
  <1>1. PICK i \in DOMAIN bucket, k \in Keys :
           /\ i \in doomed /\ \A j \in doomed : i <= j
           /\ k \in bucket[i].keys
           /\ Visible(i) => k = "COMPLETE"
           /\ bucket' = [bucket EXCEPT ![i].keys = bucket[i].keys \ {k}]
           /\ doomed' = IF bucket[i].keys = {k} THEN doomed \ {i} ELSE doomed
           /\ pc' = pc
    BY WhatDeleteDoes
  <1>2. PICK keys \in SUBSET Keys : keys = bucket[i].keys \ {k}
    BY BucketHasType
  <1>3. \A j \in DOMAIN bucket : bucket'[j] = IF j = i THEN [bucket[i] EXCEPT !.keys = keys]
                                                       ELSE bucket[j]
    BY <1>1, <1>2, PuttingKeepsType
  <1>4. \A j \in DOMAIN bucket : bucket[j] \in Generation
    BY BucketHasType
  <1>5. \A j \in DOMAIN bucket : bucket'[j].keys = IF j = i THEN keys ELSE bucket[j].keys
    BY <1>3, <1>4 DEF Generation
  <1>6. QED
    BY <1>1, <1>2, <1>5

(* The marker is put last and deleted first.                               *)
LEMMA StepKeepsMarkedWhole ==
  ASSUME TypeOK, CopyIsCovered, UploadIsInOrder, MarkedIsWhole, [Next]_vars
  PROVE  MarkedIsWhole'
  <1> USE DEF MarkedIsWhole, Visible
  <1>1. UNCHANGED bucket => MarkedIsWhole'
    OBVIOUS
  <1>2. ASSUME ReadMeta PROVE MarkedIsWhole'
    <2>1. /\ DOMAIN bucket \subseteq DOMAIN bucket'
          /\ \A i \in DOMAIN bucket : bucket'[i] = bucket[i]
          /\ \A i \in DOMAIN bucket' \ DOMAIN bucket : bucket'[i].keys = {}
      BY <1>2, NamingKeepsType
    <2>2. QED
      BY <2>1
  <1>3. ASSUME Put PROVE MarkedIsWhole'
    <2>1. PICK k \in Keys :
            /\ k = "COMPLETE" => bucket[Latest].keys \cup {k} = Keys
            /\ ~ Visible(Latest)
            /\ \A j \in DOMAIN bucket :
                 bucket'[j].keys = IF j = Latest THEN bucket[j].keys \cup {k} ELSE bucket[j].keys
      BY <1>3, KeysAfterPut
    <2>2. DOMAIN bucket' = DOMAIN bucket
      BY <1>3, KeysAreAllThatChanges
    <2>3. QED
      BY <2>1, <2>2
  <1>4. ASSUME Delete PROVE MarkedIsWhole'
    <2>1. PICK i \in DOMAIN bucket, k \in Keys :
            /\ Visible(i) => k = "COMPLETE"
            /\ \A j \in DOMAIN bucket :
                 bucket'[j].keys = IF j = i THEN bucket[i].keys \ {k} ELSE bucket[j].keys
      BY <1>4, KeysAfterDelete
    <2>2. QED
      BY <1>4, <2>1, KeysAreAllThatChanges
  <1>5. QED
    BY <1>1, <1>2, <1>3, <1>4, OnlyTheSidecarWrites

-----------------------------------------------------------------------------
(* Pruning                                                                 *)

LEMMA VisibleIsFinite ==
  ASSUME TypeOK
  PROVE  IsFiniteSet(visible)
  <1> DEFINE numbers == {j \in DOMAIN bucket : Visible(j)}
             content == [i \in numbers |-> Content(i)]
  <1>1. IsFiniteSet(numbers)
    <2>1. IsFiniteSet(1..Len(bucket))
      BY BucketHasType, FS_Interval
    <2>2. QED
      BY <2>1, BucketHasType, FS_Subset
  <1>2. content \in Surjection(numbers, visible)
    BY DEF Surjection, visible
  <1>3. QED
    BY <1>1, <1>2, FS_Surjection

(* Generations that are newer are fewer.                                   *)
LEMMA FewerAreNewer ==
  ASSUME TypeOK, NEW i \in Nat, NEW j \in Nat, j < i
  PROVE  /\ Cardinality({g \in visible : g.id > i}) \in Nat
         /\ Cardinality({g \in visible : g.id > j}) \in Nat
         /\ Cardinality({g \in visible : g.id > i}) <= Cardinality({g \in visible : g.id > j})
  <1> DEFINE older == {g \in visible : g.id > j}
             newer == {g \in visible : g.id > i}
  <1>1. \A g \in visible : g.id \in Nat
    BY BucketHasType DEF visible, Content
  <1>2. newer \subseteq older
    BY <1>1
  <1>3. IsFiniteSet(older)
    BY VisibleIsFinite, FS_Subset
  <1> HIDE DEF older, newer
  <1>4. IsFiniteSet(newer) /\ Cardinality(newer) <= Cardinality(older)
    BY <1>2, <1>3, FS_Subset
  <1>5. Cardinality(newer) \in Nat /\ Cardinality(older) \in Nat
    BY <1>3, <1>4, FS_CardinalityType
  <1>6. QED
    BY <1>4, <1>5 DEF older, newer

(* What is visible, by what happens to object storage.                     *)
LEMMA VisibleStays ==
  ASSUME UNCHANGED bucket
  PROVE  visible' = visible
  BY DEF visible, Content, Visible

LEMMA VisibleAfterNaming ==
  ASSUME TypeOK, CopyIsCovered, ReadMeta
  PROVE  visible' = visible
  <1>1. /\ DOMAIN bucket \subseteq DOMAIN bucket'
        /\ \A i \in DOMAIN bucket : bucket'[i] = bucket[i]
        /\ \A i \in DOMAIN bucket' \ DOMAIN bucket : bucket'[i].keys = {}
    BY NamingKeepsType
  <1>2. {j \in DOMAIN bucket' : "COMPLETE" \in bucket'[j].keys}
          = {j \in DOMAIN bucket : "COMPLETE" \in bucket[j].keys}
    BY <1>1
  <1>3. QED
    BY <1>1, <1>2 DEF visible, Content, Visible

LEMMA VisibleAfterPut ==
  ASSUME TypeOK, UploadIsInOrder, Put
  PROVE  /\ pc' = "put" => visible' = visible
         /\ pc' # "put" => /\ pc' = "prune"
                           /\ Latest \in DOMAIN bucket
                           /\ ~ Visible(Latest)
                           /\ visible' = visible \cup {Content(Latest)}
  <1>1. PICK k \in Keys :
          /\ Latest \in DOMAIN bucket
          /\ ~ Visible(Latest)
          /\ pc' = IF k = "COMPLETE" THEN "prune" ELSE "put"
          /\ \A j \in DOMAIN bucket :
               bucket'[j].keys = IF j = Latest THEN bucket[j].keys \cup {k} ELSE bucket[j].keys
    BY KeysAfterPut
  <1>2. /\ DOMAIN bucket' = DOMAIN bucket
        /\ \A i \in DOMAIN bucket : /\ bucket'[i].status = bucket[i].status
                                    /\ bucket'[i].claims = bucket[i].claims
                                    /\ bucket'[i].vectors = bucket[i].vectors
    BY KeysAreAllThatChanges
  <1> DEFINE before == {j \in DOMAIN bucket : "COMPLETE" \in bucket[j].keys}
             after  == {j \in DOMAIN bucket' : "COMPLETE" \in bucket'[j].keys}
  <1>3. after = IF k = "COMPLETE" THEN before \cup {Latest} ELSE before
    BY <1>1, <1>2
  <1>4. visible = {Content(i) : i \in before}
    BY DEF visible, Visible
  <1>5. visible' = {Content(i) : i \in after}
    BY <1>2 DEF visible, Content, Visible
  <1> HIDE DEF before, after
  <1>6. QED
    BY <1>1, <1>3, <1>4, <1>5

LEMMA VisibleAfterDelete ==
  ASSUME TypeOK, UploadIsInOrder, Delete
  PROVE  \E i \in DOMAIN bucket :
           /\ i \in doomed /\ \A j \in doomed : i <= j
           /\ pc' = pc /\ doomed' \in {doomed, doomed \ {i}}
           /\ \A j \in DOMAIN bucket' : Visible(j)' <=> Visible(j) /\ j # i
           /\ visible' = visible \ {Content(i)}
           /\ Visible(i) \/ UNCHANGED visible
  <1>1. PICK i \in DOMAIN bucket, k \in Keys :
           /\ i \in doomed /\ \A j \in doomed : i <= j
           /\ k \in bucket[i].keys
           /\ Visible(i) => k = "COMPLETE"
           /\ doomed' = IF bucket[i].keys = {k} THEN doomed \ {i} ELSE doomed
           /\ pc' = pc
           /\ \A j \in DOMAIN bucket :
                bucket'[j].keys = IF j = i THEN bucket[i].keys \ {k} ELSE bucket[j].keys
    BY KeysAfterDelete
  <1>2. /\ DOMAIN bucket' = DOMAIN bucket
        /\ \A j \in DOMAIN bucket : /\ bucket'[j].status = bucket[j].status
                                    /\ bucket'[j].claims = bucket[j].claims
                                    /\ bucket'[j].vectors = bucket[j].vectors
    BY KeysAreAllThatChanges
  <1>3. \A j \in DOMAIN bucket' : Visible(j)' <=> Visible(j) /\ j # i
    BY <1>1, <1>2 DEF Visible
  <1> DEFINE before == {j \in DOMAIN bucket : Visible(j)}
             after  == {j \in DOMAIN bucket' : Visible(j)'}
  <1>4. after = before \ {i}
    BY <1>2, <1>3
  <1>5. visible = {Content(j) : j \in before}
    BY DEF visible
  <1>6. visible' = {Content(j) : j \in after}
    BY <1>2 DEF visible, Content
  <1>7. \A j \in DOMAIN bucket : Content(j).id = j
    BY DEF Content
  <1>8. before \subseteq DOMAIN bucket
    OBVIOUS
  <1>9. i \notin before => before \ {i} = before
    OBVIOUS
  <1>10. Visible(i) <=> i \in before
    OBVIOUS
  <1> HIDE DEF before, after
  <1>11. visible' = visible \ {Content(i)}
    BY <1>4, <1>5, <1>6, <1>7, <1>8
  <1>12. Visible(i) \/ UNCHANGED visible
    BY <1>4, <1>5, <1>6, <1>9, <1>10
  <1>13. QED
    BY <1>1, <1>3, <1>11, <1>12

(* A restart aside, what prune set out to delete is still the surplus when *)
(* it comes to it, and the oldest goes first.                              *)
LEMMA StepKeepsDoomedOldest ==
  ASSUME TypeOK, UploadIsInOrder, DoomedAreOldest, [Next]_vars
  PROVE  DoomedAreOldest'
  <1> USE DEF DoomedAreOldest
  <1>1. ASSUME Ingest \/ MinDB \/ IngestDies \/ MinDBRestarts \/ UNCHANGED vars
        PROVE  DoomedAreOldest'
    <2>1. UNCHANGED <<pc, doomed, bucket>>
      BY <1>1, OnlyTheSidecarWrites
    <2>2. visible' = visible /\ \A j : Visible(j)' <=> Visible(j)
      BY <2>1, VisibleStays DEF Visible
    <2>3. QED
      BY <2>1, <2>2
  <1>2. Tick \/ TakeDigest \/ LoadCheckpoint \/ ReadBytes \/ ReadData \/ ReadMeta \/ Put \/ Done
          => pc' # "delete"
    BY DEF Tick, TakeDigest, LoadCheckpoint, ReadBytes, ReadData, ReadMeta, Put, Done, Step, Sleep
  <1>3. BackupFails \/ SidecarRestarts => pc' # "delete"
    BY DEF BackupFails, SidecarRestarts, Sleep
  <1>4. ASSUME Prune PROVE DoomedAreOldest'
    <2>1. UNCHANGED bucket /\ doomed' = Surplus
      BY <1>4 DEF Prune
    <2>2. visible' = visible /\ \A j : Visible(j)' <=> Visible(j)
      BY <2>1, VisibleStays DEF Visible
    <2>3. ASSUME NEW i \in Surplus, NEW j \in DOMAIN bucket, Visible(j), j < i
          PROVE  j \in Surplus
      <3>1. i \in Nat /\ j \in Nat
        BY BucketHasType DEF Surplus
      <3>2. /\ Cardinality({g \in visible : g.id > i}) \in Nat
            /\ Cardinality({g \in visible : g.id > j}) \in Nat
            /\ Cardinality({g \in visible : g.id > i}) <= Cardinality({g \in visible : g.id > j})
        BY <2>3, <3>1, FewerAreNewer
      <3>3. Cardinality({g \in visible : g.id > i}) >= Retain
        BY DEF Surplus
      <3>4. Cardinality({g \in visible : g.id > j}) >= Retain
        BY <3>2, <3>3, RetainAssumption
      <3>5. QED
        BY <2>3, <3>4 DEF Surplus
    <2>4. \A i \in Surplus : Cardinality({g \in visible : g.id > i}) >= Retain
      BY DEF Surplus
    <2>5. QED
      BY <2>1, <2>2, <2>3, <2>4
  <1>5. ASSUME Delete PROVE DoomedAreOldest'
    <2>1. PICK i \in DOMAIN bucket :
            /\ i \in doomed /\ \A j \in doomed : i <= j
            /\ pc' = pc /\ doomed' \in {doomed, doomed \ {i}}
            /\ \A j \in DOMAIN bucket' : Visible(j)' <=> Visible(j) /\ j # i
            /\ visible' = visible \ {Content(i)}
      BY <1>5, VisibleAfterDelete
    <2>2. DOMAIN bucket' = DOMAIN bucket
      BY <1>5, KeysAreAllThatChanges
    <2>3. pc = "delete"
      BY <1>5 DEF Delete
    <2>4. \A j \in doomed : j \in Nat /\ j \in DOMAIN bucket
      BY BucketHasType DEF TypeOK
    <2>5. ASSUME NEW d \in doomed', Visible(d)'
          PROVE  Cardinality({g \in visible : g.id > d}') >= Retain
      <3>1. d \in doomed /\ d # i /\ Visible(d)
        BY <2>1, <2>2, <2>4, <2>5
      <3>2. i < d
        BY <2>1, <2>4, <3>1
      <3>3. Content(i).id = i
        BY DEF Content
      <3>4. {g \in visible : g.id > d}' = {g \in visible : g.id > d}
        <4>1. i \in Nat /\ d \in Nat
          BY <2>1, <2>4, <3>1
        <4>2. ~ (Content(i).id > d)
          BY <3>2, <3>3, <4>1
        <4>3. QED
          BY <2>1, <4>2
      <3>5. Cardinality({g \in visible : g.id > d}) >= Retain
        BY <2>3, <3>1
      <3>6. QED
        BY <3>4, <3>5
    <2>6. ASSUME NEW d \in doomed', NEW j \in DOMAIN bucket', Visible(j)', j < d
          PROVE  j \in doomed'
      <3>1. d \in doomed /\ Visible(j) /\ j # i /\ j \in DOMAIN bucket
        BY <2>1, <2>2, <2>6
      <3>2. j \in doomed
        BY <2>3, <2>6, <3>1
      <3>3. QED
        BY <2>1, <3>1, <3>2
    <2>7. QED
      BY <2>5, <2>6
  <1>6. QED
    BY <1>1, <1>2, <1>3, <1>4, <1>5 DEF Next, Watch, Fail

-----------------------------------------------------------------------------
(* The invariant                                                           *)

LEMMA InitEstablishesBackupInv == Init => BackupInv
  <1>1. SUFFICES ASSUME Init PROVE BackupInv
    OBVIOUS
  <1>2. TypeOK
    BY <1>1, InitHasType
  <1>3. DocumentsAreExplained /\ SnapshotsGrow /\ FinalSnapshotIsCurrent
    BY <1>1 DEF Init, DocumentsAreExplained, SnapshotsGrow, NoSave,
                NoCheckpoint, FinalSnapshotIsCurrent
  <1>4. CompleteIsCovered /\ CopyIsCovered /\ UploadIsInOrder /\ DoomedAreOldest
    BY <1>1 DEF Init, CompleteIsCovered, NoCheckpoint, CopyIsCovered, UploadIsInOrder,
                DoomedAreOldest
  <1>5. DOMAIN bucket = {}
    BY <1>1 DEF Init
  <1>6. GenerationsAreCovered /\ MarkedIsWhole
    BY <1>5 DEF GenerationsAreCovered, MarkedIsWhole
  <1>7. QED
    BY <1>2, <1>3, <1>4, <1>6 DEF BackupInv

LEMMA StepKeepsBackupInv == BackupInv /\ [Next]_vars => BackupInv'
  <1>1. SUFFICES ASSUME BackupInv, [Next]_vars PROVE BackupInv'
    OBVIOUS
  <1> USE <1>1
  <1>2. /\ TypeOK /\ DocumentsAreExplained /\ SnapshotsGrow
        /\ FinalSnapshotIsCurrent /\ CompleteIsCovered /\ CopyIsCovered
        /\ GenerationsAreCovered /\ UploadIsInOrder /\ MarkedIsWhole /\ DoomedAreOldest
    BY DEF BackupInv
  <1>3. TypeOK'
    BY <1>2, StepKeepsType
  <1>4. DocumentsAreExplained' /\ SnapshotsGrow'
    BY <1>2, StepKeepsExplanation, StepKeepsGrowth
  <1>5. FinalSnapshotIsCurrent' /\ CompleteIsCovered' /\ CopyIsCovered'
    BY <1>2, StepKeepsFinalSnapshot, StepKeepsCompleteCovered, StepKeepsCopyCovered
  <1>6. GenerationsAreCovered' /\ UploadIsInOrder' /\ MarkedIsWhole'
    BY <1>2, StepKeepsGenerationsCovered, StepKeepsUploadOrder, StepKeepsMarkedWhole
  <1>7. DoomedAreOldest'
    BY <1>2, StepKeepsDoomedOldest
  <1>8. QED
    BY <1>3, <1>4, <1>5, <1>6, <1>7 DEF BackupInv

(* Snapshot, checkpoint, copy and generations agree in every state of      *)
(* every behaviour: ops/backup.py beside ingest/run.py and MinDB's saves.  *)
THEOREM BackupsKeepTheOrder == Spec => []BackupInv
  BY InitEstablishesBackupInv, StepKeepsBackupInv, PTL DEF Spec

(* No variable ever leaves its type: the sidecar has read a checkpoint     *)
(* when it names a generation, and deletes from generations that are there.*)
THEOREM BackupTypeCorrect == Spec => []TypeOK
  <1>1. BackupInv => TypeOK
    BY DEF BackupInv
  <1>2. QED
    BY <1>1, BackupsKeepTheOrder, PTL

(* A generation with a COMPLETE marker has all its files, while it is      *)
(* being written, after any failure, and while it is being pruned.         *)
THEOREM MarkedGenerationsAreWhole == Spec => []MarkedIsWhole
  <1>1. BackupInv => MarkedIsWhole
    BY DEF BackupInv
  <1>2. QED
    BY <1>1, BackupsKeepTheOrder, PTL

-----------------------------------------------------------------------------
(* The refinement                                                          *)

(* The marker of a generation is put: it is published.                     *)
LEMMA MarkingPublishes ==
  ASSUME BackupInv, Put, pc' # "put"
  PROVE  \E g \in visible' \ visible : G!Publish(g)
  <1> DEFINE g == Content(Latest)
  <1>1. TypeOK /\ UploadIsInOrder /\ GenerationsAreCovered
    BY DEF BackupInv
  <1>2. Latest \in DOMAIN bucket /\ ~ Visible(Latest) /\ visible' = visible \cup {g}
    BY <1>1, VisibleAfterPut
  <1>3. \A old \in visible : old.id < g.id
    <2>1. Latest = Len(bucket)
      BY DEF Latest
    <2>2. \A j \in DOMAIN bucket : Visible(j) => j < Latest
      BY <1>1, <1>2, <2>1, BucketHasType
    <2>3. QED
      BY <2>2 DEF visible, Content
  <1>4. g \in G!Generation
    <2>1. bucket[Latest] \in Generation /\ Latest \in Nat
      BY <1>1, <1>2, BucketHasType
    <2>2. QED
      BY <2>1 DEF Content, Generation, G!Generation, G!Status
  <1>5. G!Covered(g)
    BY <1>1, <1>2 DEF G!Covered, Content, GenerationsAreCovered
  <1>6. g \notin visible
    <2>1. g.id \in Nat
      BY <1>4 DEF G!Generation
    <2>2. QED
      BY <1>3, <2>1
  <1>7. UNCHANGED missed
    BY DEF Put
  <1>8. QED
    BY <1>2, <1>3, <1>4, <1>5, <1>6, <1>7 DEF G!Publish

(* The marker of the oldest one goes: it is withdrawn.                     *)
LEMMA DeletingWithdraws ==
  ASSUME BackupInv, Delete, visible' # visible
  PROVE  \E g \in visible : G!Withdraw(g)
  <1>1. TypeOK /\ UploadIsInOrder /\ DoomedAreOldest /\ pc = "delete"
    BY DEF BackupInv, Delete
  <1>2. PICK i \in DOMAIN bucket :
          /\ i \in doomed /\ \A j \in doomed : i <= j
          /\ visible' = visible \ {Content(i)}
          /\ Visible(i)
    BY <1>1, VisibleAfterDelete
  <1> DEFINE g == Content(i)
  <1>3. g \in visible /\ g.id = i
    BY <1>2 DEF visible, Content
  <1>4. Cardinality({h \in visible : h.id > i}) >= Retain
    BY <1>1, <1>2 DEF DoomedAreOldest
  <1>5. \A other \in visible \ {g} : g.id < other.id
    <2>1. SUFFICES ASSUME NEW j \in DOMAIN bucket, Visible(j), j # i PROVE i < j
      BY <1>3 DEF visible, Content
    <2>2. j < i => j \in doomed
      BY <1>1, <1>2, <2>1 DEF DoomedAreOldest
    <2>3. i \in Nat /\ j \in Nat
      BY <1>1, BucketHasType
    <2>4. QED
      BY <1>2, <2>1, <2>2, <2>3
  <1>6. UNCHANGED missed
    BY DEF Delete
  <1>7. G!Cardinality(G!Newer(g)) = Cardinality({h \in visible : h.id > i})
    <2>1. G!Newer(g) = {h \in visible : h.id > i}
      BY <1>3 DEF G!Newer
    <2>2. \A S : G!Cardinality(S) = Cardinality(S)
      BY DEF Cardinality, G!Cardinality
    <2>3. QED
      BY <2>1, <2>2
  <1>8. QED
    BY <1>2, <1>3, <1>4, <1>5, <1>6, <1>7 DEF G!Withdraw

(* Every other step leaves the visible generations as they are.            *)
LEMMA StepIsAGenerationsStep ==
  ASSUME BackupInv, [Next]_vars
  PROVE  [G!Next]_<<visible, missed>>
  <1>1. /\ TypeOK /\ SnapshotsGrow /\ CopyIsCovered /\ UploadIsInOrder
    BY DEF BackupInv
  <1>2. missed \subseteq missed'
    BY <1>1, StepOnlyAdds
  <1>3. ASSUME visible' = visible PROVE G!Next
    BY <1>2, <1>3 DEF G!Next, G!Miss
  <1>4. UNCHANGED bucket => visible' = visible
    BY VisibleStays
  <1>5. ReadMeta => visible' = visible
    BY <1>1, VisibleAfterNaming
  <1>6. ASSUME Put PROVE G!Next
    <2>1. pc' = "put" => visible' = visible
      BY <1>1, <1>6, VisibleAfterPut
    <2>2. pc' # "put" => \E g \in visible' \ visible : G!Publish(g)
      BY <1>6, MarkingPublishes
    <2>3. QED
      BY <1>3, <2>1, <2>2 DEF G!Next
  <1>7. ASSUME Delete PROVE G!Next
    <2>1. visible' # visible => \E g \in visible : G!Withdraw(g)
      BY <1>7, DeletingWithdraws
    <2>2. QED
      BY <1>3, <2>1 DEF G!Next
  <1>8. QED
    BY <1>3, <1>4, <1>5, <1>6, <1>7, OnlyTheSidecarWrites

(* The backups in object storage are generations as ADR-0002 promises      *)
(* them: whole, each newer than the last, covered by their snapshot, and   *)
(* never fewer for pruning than are to be retained.                        *)
THEOREM BackupImplementsGenerations == Spec => BackupsAreGenerations
  <1>1. Init => G!Init
    <2>1. SUFFICES ASSUME Init PROVE G!Init
      OBVIOUS
    <2>2. DOMAIN bucket = {} /\ missed = {}
      BY <2>1 DEF Init
    <2>3. visible = {}
      BY <2>2 DEF visible
    <2>4. QED
      BY <2>2, <2>3 DEF G!Init
  <1>2. BackupInv /\ [Next]_vars => [G!Next]_<<visible, missed>>
    BY StepIsAGenerationsStep
  <1>3. QED
    BY <1>1, <1>2, BackupsKeepTheOrder, PTL DEF Spec, BackupsAreGenerations, G!Spec

-----------------------------------------------------------------------------
(* When the sidecar rests                                                  *)

(* A snapshot that is put in place of another is newer and has no less.    *)
LEMMA SnapshotsAreNewer ==
  ASSUME TypeOK, SnapshotsGrow, SavesAreNumbered, [Next]_vars
  PROVE  /\ SavesAreNumbered'
         /\ snap.vectors \subseteq snap'.vectors
         /\ snap.save \in Nat /\ snap'.save \in Nat
         /\ snap.save <= snap'.save
         /\ snap'.save = snap.save => snap' = snap
  <1> USE DEF SavesAreNumbered, ingest, mindb
  <1> DEFINE Newer ==
               SavesAreNumbered' /\ (snap' = snap \/ (snap'.save \in Nat /\ snap.save < snap'.save))
  <1>1. /\ snap.save \in Nat /\ save.number \in Nat /\ meta \in Nat
        /\ save.done \in {"none", "begun", "snap", "meta"}
    BY BoundAssumption DEF TypeOK
  <1>2. Insert \/ MarkPending \/ MarkComplete => Newer
    BY DEF Insert, MarkPending, MarkComplete
  <1>3. ASSUME NEW b, AppendBatch(b) PROVE Newer
    BY <1>3 DEF AppendBatch
  <1>4. MinDBSaves \/ FinalSnapshot => Newer
    BY <1>1 DEF MinDBSaves, FinalSnapshot, BeginSave
  <1>5. RenameSnap => Newer
    BY <1>1 DEF RenameSnap, Saving, NoSave
  <1>6. RenameMeta => Newer
    BY <1>1 DEF RenameMeta, Saving, NoSave
  <1>7. IngestDies \/ MinDBRestarts => Newer
    BY DEF IngestDies, MinDBRestarts, NoSave
  <1>8. Watch \/ BackupFails \/ SidecarRestarts \/ UNCHANGED vars => Newer
    BY WatchOnlyReads
  <1>9. Newer
    BY <1>2, <1>3, <1>4, <1>5, <1>6, <1>7, <1>8 DEF Next, Ingest, MinDB, Fail
  <1>10. QED
    BY <1>1, <1>9, StepOnlyAdds

(* The newest generation is the last one begun.                            *)
LEMMA LatestIsLast ==
  ASSUME TypeOK, bucket # <<>>
  PROVE  Latest \in DOMAIN bucket /\ \A i \in DOMAIN bucket : i <= Latest
  <1>1. Len(bucket) \in Nat \ {0}
    BY EmptySeq DEF TypeOK
  <1>2. QED
    BY <1>1, BucketHasType DEF Latest

(* Each generation is made of a snapshot that has what the last one had.   *)
LEMMA StepKeepsGenerationsGrow ==
  ASSUME BackupInv, SavesAreNumbered, GenerationsGrow, SightsAreInOrder, [Next]_vars
  PROVE  GenerationsGrow'
  <1> USE DEF GenerationsGrow
  <1>1. TypeOK /\ SnapshotsGrow /\ CopyIsCovered /\ UploadIsInOrder
    BY DEF BackupInv
  <1>2. snap.vectors \subseteq snap'.vectors
    BY <1>1, SnapshotsAreNewer
  <1>3. UNCHANGED bucket => GenerationsGrow'
    BY <1>2
  <1>4. Put \/ Delete => GenerationsGrow'
    BY <1>1, <1>2, KeysAreAllThatChanges
  <1>5. ASSUME ReadMeta PROVE GenerationsGrow'
    <2>1. /\ DOMAIN bucket \subseteq DOMAIN bucket'
          /\ \A i \in DOMAIN bucket : bucket'[i] = bucket[i]
          /\ \A i \in DOMAIN bucket' \ DOMAIN bucket :
               i = Len(bucket) + 1 /\ bucket'[i].vectors = read.vectors
      BY <1>1, <1>5, NamingKeepsType
    <2>2. /\ read.vectors \subseteq snap.vectors
          /\ \A i \in DOMAIN bucket : bucket[i].vectors \subseteq read.vectors
      BY <1>5 DEF ReadMeta, SightsAreInOrder
    <2>3. ASSUME NEW i \in DOMAIN bucket' PROVE bucket'[i].vectors \subseteq snap'.vectors
      BY <1>2, <2>1, <2>2
    <2>4. ASSUME NEW i \in DOMAIN bucket', NEW j \in DOMAIN bucket', i < j
          PROVE  bucket'[i].vectors \subseteq bucket'[j].vectors
      <3>1. DOMAIN bucket = 1..Len(bucket) /\ Len(bucket) \in Nat
        BY <1>1, BucketHasType
      <3>2. CASE j \in DOMAIN bucket
        <4>1. i \in DOMAIN bucket
          BY <2>1, <2>4, <3>1, <3>2
        <4>2. QED
          BY <2>1, <2>4, <3>2, <4>1
      <3>3. CASE j \notin DOMAIN bucket
        <4>1. j = Len(bucket) + 1 /\ bucket'[j].vectors = read.vectors
          BY <2>1, <3>3
        <4>2. i \in DOMAIN bucket
          BY <2>1, <2>4, <3>1, <4>1
        <4>3. QED
          BY <2>1, <2>2, <4>1, <4>2
      <3>4. QED
        BY <3>2, <3>3
    <2>5. QED
      BY <2>3, <2>4
  <1>6. QED
    BY <1>3, <1>4, <1>5, OnlyTheSidecarWrites

(* What the sidecar has in memory, against a snapshot that may be replaced *)
(* at any moment.                                                          *)
LEMMA StepKeepsSights ==
  ASSUME BackupInv, SavesAreNumbered, GenerationsGrow, SightsAreInOrder, [Next]_vars
  PROVE  SightsAreInOrder'
  <1>1. TypeOK /\ SnapshotsGrow /\ CopyIsCovered /\ UploadIsInOrder
    BY DEF BackupInv
  <1>2. /\ snap.vectors \subseteq snap'.vectors
        /\ snap.save \in Nat /\ snap'.save \in Nat /\ snap.save <= snap'.save
        /\ snap'.save = snap.save => snap' = snap
    BY <1>1, SnapshotsAreNewer
  <1>3. current \in Nat /\ lastMtime \in Nat /\ read.save \in Nat
    BY <1>1, BoundAssumption DEF TypeOK
  <1>4. Ingest \/ MinDB \/ IngestDies \/ MinDBRestarts \/ UNCHANGED vars => SightsAreInOrder'
    <2>1. SUFFICES ASSUME UNCHANGED <<pc, current, digest, read, lastMtime, bucket>>
                   PROVE  SightsAreInOrder'
      BY OnlyTheSidecarWrites
    <2>2. lastMtime <= snap'.save /\ current <= snap'.save
      BY <1>2, <1>3 DEF SightsAreInOrder
    <2>3. \A v \in digest : v \subseteq snap'.vectors
      BY <1>2 DEF SightsAreInOrder
    <2>4. ASSUME pc \in {"meta", "put", "prune", "delete"}
          PROVE  /\ read.save <= snap'.save
                 /\ read.vectors \subseteq snap'.vectors
                 /\ read.save = snap'.save => read.vectors = snap'.vectors
      <3>1. /\ read.save <= snap.save /\ read.vectors \subseteq snap.vectors
            /\ read.save = snap.save => read.vectors = snap.vectors
        BY <2>4 DEF SightsAreInOrder
      <3>2. read.save = snap'.save => snap' = snap
        BY <1>2, <1>3, <3>1
      <3>3. QED
        BY <1>2, <1>3, <3>1, <3>2
    <2>5. QED
      BY <2>1, <2>2, <2>3, <2>4 DEF SightsAreInOrder
  <1>5. ASSUME Sleep, UNCHANGED snap, lastMtime' \in {0, lastMtime, current} PROVE SightsAreInOrder'
    BY <1>2, <1>3, <1>5 DEF Sleep, SightsAreInOrder
  <1>6. ASSUME Watch PROVE SightsAreInOrder'
    <2> USE DEF marks, reading
    <2>1. UNCHANGED snap
      BY <1>6, WatchOnlyReads
    <2>2. Tick => SightsAreInOrder'
      BY <1>2, <2>1 DEF Tick, Step, SightsAreInOrder
    <2>3. TakeDigest => SightsAreInOrder'
      <3>1. ASSUME TakeDigest, ~ Sleep
            PROVE  /\ digest' \in {{snap.vectors}, {}} /\ pc' = "load"
                   /\ UNCHANGED <<current, lastMtime>>
        BY <3>1 DEF TakeDigest
      <3>2. TakeDigest => lastMtime' \in {lastMtime, current}
        BY DEF TakeDigest
      <3>3. QED
        BY <1>5, <2>1, <3>1, <3>2 DEF SightsAreInOrder
    <2>4. LoadCheckpoint => SightsAreInOrder'
      BY <1>5, <2>1 DEF LoadCheckpoint, SightsAreInOrder
    <2>5. ReadBytes => SightsAreInOrder'
      BY <2>1 DEF ReadBytes, Step, SightsAreInOrder
    <2>6. ReadData => SightsAreInOrder'
      BY <1>2, <2>1 DEF ReadData, Step, SightsAreInOrder, GenerationsGrow
    <2>7. ASSUME ReadMeta, ~ Sleep PROVE SightsAreInOrder'
      <3>1. /\ pc = "meta" /\ UNCHANGED <<current, digest, lastMtime>>
            /\ read' = [read EXCEPT !.meta = meta]
        BY <2>7 DEF ReadMeta
      <3>2. read'.save = read.save /\ read'.vectors = read.vectors
        BY <1>1, <3>1 DEF TypeOK
      <3>3. \A i \in DOMAIN bucket' : bucket'[i].vectors \subseteq read.vectors
        <4>1. /\ \A i \in DOMAIN bucket : bucket'[i] = bucket[i]
              /\ \A i \in DOMAIN bucket' \ DOMAIN bucket : bucket'[i].vectors = read.vectors
          BY <1>1, <2>7, NamingKeepsType
        <4>2. QED
          BY <3>1, <4>1 DEF SightsAreInOrder
      <3>4. QED
        BY <2>1, <3>1, <3>2, <3>3 DEF SightsAreInOrder
    <2>8. ReadMeta => UNCHANGED lastMtime
      BY DEF ReadMeta
    <2>9. ASSUME Put \/ Delete PROVE SightsAreInOrder'
      <3>1. /\ pc \in {"put", "delete"} /\ UNCHANGED <<current, digest, read, lastMtime>>
            /\ pc' \in {"put", "prune", "delete"}
        BY <2>9 DEF Put, Delete
      <3>2. /\ DOMAIN bucket' = DOMAIN bucket
            /\ \A i \in DOMAIN bucket : bucket'[i].vectors = bucket[i].vectors
        BY <1>1, <2>9, KeysAreAllThatChanges
      <3>3. QED
        BY <2>1, <3>1, <3>2 DEF SightsAreInOrder
    <2>10. Prune => SightsAreInOrder'
      BY <2>1 DEF Prune, Step, SightsAreInOrder
    <2>11. Done => SightsAreInOrder'
      BY <1>5, <2>1 DEF Done
    <2>12. QED
      BY <1>5, <1>6, <2>1, <2>2, <2>3, <2>4, <2>5, <2>6, <2>7, <2>8, <2>9, <2>10, <2>11 DEF Watch
  <1>7. BackupFails \/ SidecarRestarts => SightsAreInOrder'
    BY <1>5 DEF BackupFails, SidecarRestarts, mindb, marks
  <1>8. QED
    BY <1>4, <1>6, <1>7 DEF Next, Fail

(* What is being pruned while it can still be seen leaves a newer one.     *)
LEMMA NewerIsVisible ==
  ASSUME TypeOK, DoomedAreOldest, pc = "delete", NEW i \in doomed, Visible(i)
  PROVE  \E j \in DOMAIN bucket : Visible(j) /\ i < j
  <1>1. Cardinality({g \in visible : g.id > i}) >= Retain
    BY DEF DoomedAreOldest
  <1>2. {g \in visible : g.id > i} # {}
    <2>1. Cardinality({}) = 0
      BY FS_EmptySet
    <2>2. QED
      BY <1>1, <2>1, RetainAssumption
  <1>3. PICK j \in DOMAIN bucket : Visible(j) /\ Content(j).id > i
    BY <1>2 DEF visible
  <1>4. i \in Nat /\ j \in Nat
    BY BucketHasType DEF TypeOK
  <1>5. QED
    BY <1>3, <1>4 DEF Content

(* The newest generation is named, put and kept.                           *)
LEMMA StepKeepsLatest ==
  ASSUME BackupInv, LatestIsOfTheRead, [Next]_vars
  PROVE  LatestIsOfTheRead'
  <1> USE DEF LatestIsOfTheRead
  <1>1. TypeOK /\ CopyIsCovered /\ UploadIsInOrder /\ DoomedAreOldest
    BY DEF BackupInv
  <1>2. Ingest \/ MinDB \/ IngestDies \/ MinDBRestarts \/ UNCHANGED vars => LatestIsOfTheRead'
    BY OnlyTheSidecarWrites DEF Latest, Visible
  <1>3. Tick \/ TakeDigest \/ LoadCheckpoint \/ ReadBytes \/ ReadData \/ Done \/ BackupFails
          \/ SidecarRestarts => LatestIsOfTheRead'
    BY DEF Tick, TakeDigest, LoadCheckpoint, ReadBytes, ReadData, Done, BackupFails,
           SidecarRestarts, Step, Sleep
  <1>4. ASSUME ReadMeta, ~ Sleep PROVE LatestIsOfTheRead'
    <2> DEFINE g == [keys |-> {}, status |-> copy.status, claims |-> copy.claims,
                     vectors |-> read.vectors, save |-> read.save, meta |-> meta]
    <2>1. /\ pc = "meta" /\ pc' = "put" /\ bucket' = Append(bucket, g)
          /\ read' = [read EXCEPT !.meta = meta]
      BY <1>4 DEF ReadMeta
    <2>2. read'.vectors = read.vectors
      BY <1>1, <2>1 DEF TypeOK
    <2>3. bucket \in Seq(Generation) /\ g \in Generation
      BY <1>1, <2>1, BoundAssumption DEF TypeOK, CopyIsCovered, CheckpointFile, Generation
    <2>4. g.vectors = read.vectors
      OBVIOUS
    <2> HIDE DEF g
    <2>5. /\ Len(bucket') = Len(bucket) + 1 /\ bucket'[Len(bucket) + 1] = g /\ Len(bucket) \in Nat
          /\ bucket' \in Seq(Generation)
      BY <2>1, <2>3, AppendProperties, LenProperties
    <2>6. bucket' # <<>>
      BY <2>5, EmptySeq
    <2>7. QED
      BY <2>1, <2>2, <2>4, <2>5, <2>6 DEF Latest
  <1>5. ReadMeta /\ Sleep => LatestIsOfTheRead'
    BY DEF Sleep
  <1>6. ASSUME Put \/ Delete
        PROVE  /\ bucket' # <<>> /\ Latest' = Latest /\ Latest \in DOMAIN bucket
               /\ bucket'[Latest].vectors = read'.vectors
    <2>1. /\ pc \in {"put", "delete"} /\ read' = read
      BY <1>6 DEF Put, Delete, reading
    <2>2. /\ DOMAIN bucket' = DOMAIN bucket
          /\ Len(bucket') = Len(bucket)
          /\ \A i \in DOMAIN bucket : bucket'[i].vectors = bucket[i].vectors
      BY <1>1, <1>6, KeysAreAllThatChanges
    <2>3. bucket # <<>> /\ bucket[Latest].vectors = read.vectors
      BY <2>1
    <2>4. Latest \in DOMAIN bucket
      BY <1>1, <2>3, LatestIsLast
    <2>5. bucket' # <<>>
      BY <2>2, <2>4
    <2>6. QED
      BY <2>1, <2>2, <2>3, <2>4, <2>5 DEF Latest
  <1>7. ASSUME Put PROVE LatestIsOfTheRead'
    <2>1. PICK k \in Keys :
            /\ pc' = IF k = "COMPLETE" THEN "prune" ELSE "put"
            /\ \A j \in DOMAIN bucket :
                 bucket'[j].keys = IF j = Latest THEN bucket[j].keys \cup {k} ELSE bucket[j].keys
      BY <1>1, <1>7, KeysAfterPut
    <2>2. pc' = "prune" => "COMPLETE" \in bucket'[Latest].keys
      BY <1>6, <1>7, <2>1
    <2>3. pc' \in {"put", "prune"}
      BY <2>1
    <2>4. QED
      BY <1>6, <1>7, <2>2, <2>3 DEF Visible
  <1>8. Prune => LatestIsOfTheRead'
    BY DEF Prune, Step, reading, Latest, Visible
  <1>9. ASSUME Delete PROVE LatestIsOfTheRead'
    <2>1. PICK i \in DOMAIN bucket :
            /\ i \in doomed /\ pc' = pc
            /\ \A j \in DOMAIN bucket' : Visible(j)' <=> Visible(j) /\ j # i
      BY <1>1, <1>9, VisibleAfterDelete
    <2>2. pc = "delete" /\ bucket # <<>> /\ Visible(Latest)
      BY <1>9 DEF Delete
    <2>3. Visible(i) => i # Latest
      <3>1. \A j \in DOMAIN bucket : j <= Latest
        BY <1>1, <2>2, LatestIsLast
      <3>2. Visible(i) => \E j \in DOMAIN bucket : i < j
        BY <1>1, <2>1, <2>2, NewerIsVisible
      <3>3. Latest \in Nat /\ \A j \in DOMAIN bucket : j \in Nat
        BY <1>1, BucketHasType DEF Latest
      <3>4. QED
        BY <3>1, <3>2, <3>3
    <2>4. DOMAIN bucket' = DOMAIN bucket
      BY <1>1, <1>9, KeysAreAllThatChanges
    <2>5. Visible(Latest)'
      BY <1>6, <1>9, <2>1, <2>2, <2>3, <2>4 DEF Visible
    <2>6. QED
      BY <1>6, <1>9, <2>1, <2>2, <2>5
  <1>10. QED
    BY <1>2, <1>3, <1>4, <1>5, <1>7, <1>8, <1>9 DEF Next, Watch, Fail

(* Vectors that a visible generation has are in one after any step.        *)
LEMMA VectorsStayVisible ==
  ASSUME BackupInv, GenerationsGrow, [Next]_vars, NEW v,
         NEW i \in DOMAIN bucket, Visible(i), v \subseteq bucket[i].vectors
  PROVE  \E j \in DOMAIN bucket' : Visible(j)' /\ v \subseteq bucket'[j].vectors
  <1>1. TypeOK /\ CopyIsCovered /\ UploadIsInOrder /\ DoomedAreOldest
    BY DEF BackupInv
  <1>2. CASE UNCHANGED bucket
    BY <1>2 DEF Visible
  <1>3. CASE ReadMeta
    <2>1. /\ DOMAIN bucket \subseteq DOMAIN bucket'
          /\ \A j \in DOMAIN bucket : bucket'[j] = bucket[j]
      BY <1>1, <1>3, NamingKeepsType
    <2>2. QED
      BY <2>1 DEF Visible
  <1>4. CASE Put
    <2>1. /\ DOMAIN bucket' = DOMAIN bucket
          /\ bucket'[i].vectors = bucket[i].vectors
      BY <1>1, <1>4, KeysAreAllThatChanges
    <2>2. bucket[i].keys \subseteq bucket'[i].keys
      BY <1>1, <1>4, KeysAfterPut
    <2>3. QED
      BY <2>1, <2>2 DEF Visible
  <1>5. CASE Delete
    <2>1. PICK d \in DOMAIN bucket :
            /\ d \in doomed
            /\ \A j \in DOMAIN bucket' : Visible(j)' <=> Visible(j) /\ j # d
      BY <1>1, <1>5, VisibleAfterDelete
    <2>2. /\ DOMAIN bucket' = DOMAIN bucket
          /\ \A j \in DOMAIN bucket : bucket'[j].vectors = bucket[j].vectors
      BY <1>1, <1>5, KeysAreAllThatChanges
    <2>3. CASE i # d
      BY <2>1, <2>2, <2>3
    <2>4. CASE i = d
      <3>1. pc = "delete"
        BY <1>5 DEF Delete
      <3>2. PICK j \in DOMAIN bucket : Visible(j) /\ i < j
        BY <1>1, <2>1, <2>4, <3>1, NewerIsVisible
      <3>3. bucket[i].vectors \subseteq bucket[j].vectors
        BY <3>2 DEF GenerationsGrow
      <3>4. j # d
        BY <1>1, <2>4, <3>2, BucketHasType
      <3>5. QED
        BY <2>1, <2>2, <3>2, <3>3, <3>4
    <2>5. QED
      BY <2>3, <2>4
  <1>6. QED
    BY <1>2, <1>3, <1>4, <1>5, OnlyTheSidecarWrites

(* The markers advance in three ways: when the digest says that nothing    *)
(* has changed, when a backup is done, and, to nothing, on a restart.      *)
LEMMA MarksAdvance ==
  ASSUME [Next]_vars
  PROVE  \/ UNCHANGED <<lastMtime, lastDigest>>
         \/ SidecarRestarts
         \/ Done
         \/ /\ TakeDigest /\ lastDigest = {snap.vectors}
            /\ UNCHANGED <<lastDigest, snap, bucket>>
  <1> USE DEF marks, mindb
  <1>1. Ingest \/ MinDB \/ IngestDies \/ MinDBRestarts \/ UNCHANGED vars
          => UNCHANGED <<lastMtime, lastDigest>>
    BY OnlyTheSidecarWrites
  <1>2. Tick \/ LoadCheckpoint \/ ReadBytes \/ ReadData \/ ReadMeta \/ Put \/ Prune \/ Delete
          \/ BackupFails => UNCHANGED <<lastMtime, lastDigest>>
    BY DEF Tick, LoadCheckpoint, ReadBytes, ReadData, ReadMeta, Put, Prune, Delete, BackupFails
  <1>3. TakeDigest /\ lastMtime' # lastMtime => lastDigest = {snap.vectors}
    BY DEF TakeDigest
  <1>4. TakeDigest => UNCHANGED <<lastDigest, snap, bucket>>
    BY DEF TakeDigest
  <1>5. QED
    BY <1>1, <1>2, <1>3, <1>4 DEF Next, Watch, Fail

(* When a backup is done its generation is there and has what was read.    *)
LEMMA DoneIsBackedUp ==
  ASSUME BackupInv, SightsAreInOrder, LatestIsOfTheRead, Done
  PROVE  /\ Latest \in DOMAIN bucket /\ Visible(Latest)
         /\ \A v \in digest : v \subseteq bucket[Latest].vectors
         /\ current = snap.save => bucket[Latest].vectors = snap.vectors
         /\ lastMtime' = current /\ lastDigest' = digest /\ UNCHANGED <<snap, bucket>>
  <1>1. pc = "delete"
    BY DEF Done
  <1>2. /\ bucket # <<>> /\ bucket[Latest].vectors = read.vectors /\ Visible(Latest)
    BY <1>1 DEF LatestIsOfTheRead
  <1>3. Latest \in DOMAIN bucket
    BY <1>2, LatestIsLast DEF BackupInv
  <1>4. /\ current <= read.save /\ read.save <= snap.save
        /\ \A v \in digest : v \subseteq read.vectors
        /\ read.save = snap.save => read.vectors = snap.vectors
    BY <1>1 DEF SightsAreInOrder
  <1>5. current \in Nat /\ read.save \in Nat /\ snap.save \in Nat
    BY BoundAssumption DEF BackupInv, TypeOK
  <1>6. current = snap.save => read.vectors = snap.vectors
    BY <1>4, <1>5
  <1>7. lastMtime' = current /\ lastDigest' = digest /\ UNCHANGED <<snap, bucket>>
    BY DEF Done, mindb
  <1>8. QED
    BY <1>2, <1>3, <1>4, <1>6, <1>7

(* The digest remembered is of vectors that are in a generation.           *)
LEMMA StepKeepsRemembered ==
  ASSUME BackupInv, GenerationsGrow, SightsAreInOrder, LatestIsOfTheRead, RememberedIsKept,
         [Next]_vars
  PROVE  RememberedIsKept'
  <1>1. ASSUME lastDigest' = lastDigest PROVE RememberedIsKept'
    BY <1>1, VectorsStayVisible DEF RememberedIsKept
  <1>2. SidecarRestarts => RememberedIsKept'
    BY DEF SidecarRestarts, RememberedIsKept
  <1>3. ASSUME Done PROVE RememberedIsKept'
    BY <1>3, DoneIsBackedUp DEF RememberedIsKept, Visible
  <1>4. QED
    BY <1>1, <1>2, <1>3, MarksAdvance

(* The sidecar comes to rest on a snapshot that is backed up, and does not *)
(* rest on one that was renamed into place since.                          *)
LEMMA StepKeepsQuiet ==
  ASSUME QuietInv, [Next]_vars, GenerationsGrow'
  PROVE  QuietMeansBackedUp'
  <1>1. /\ BackupInv /\ SavesAreNumbered /\ GenerationsGrow /\ SightsAreInOrder
        /\ LatestIsOfTheRead /\ RememberedIsKept /\ QuietMeansBackedUp
    BY DEF QuietInv
  <1>2. /\ snap.save \in Nat /\ snap'.save \in Nat /\ snap.save <= snap'.save
        /\ snap'.save = snap.save => snap' = snap
    BY <1>1, SnapshotsAreNewer DEF BackupInv
  <1>3. lastMtime \in Nat
    BY <1>1, BoundAssumption DEF BackupInv, TypeOK
  <1>4. SUFFICES ASSUME snap'.save = lastMtime', snap'.save # 0
                 PROVE  \E i \in DOMAIN bucket' :
                          Visible(i)' /\ snap'.vectors \subseteq bucket'[i].vectors
    <2>1. ASSUME NEW i \in DOMAIN bucket', Visible(i)', snap'.vectors \subseteq bucket'[i].vectors
          PROVE  IsBackedUp'
      <3>1. bucket'[i].vectors = snap'.vectors
        BY <2>1 DEF GenerationsGrow
      <3>2. Content(i)' \in visible' /\ Content(i)'.vectors = snap'.vectors
        BY <2>1, <3>1 DEF visible, Content
      <3>3. QED
        BY <3>2 DEF IsBackedUp
    <2>2. snap'.save = 0 => IsBackedUp'
      BY DEF IsBackedUp
    <2>3. QED
      BY <2>1, <2>2 DEF QuietMeansBackedUp
  <1>5. CASE UNCHANGED lastMtime
    <2>1. lastMtime <= snap.save
      BY <1>1 DEF SightsAreInOrder
    <2>2. snap.save = lastMtime /\ snap' = snap
      BY <1>2, <1>3, <1>4, <1>5, <2>1
    <2>3. PICK g \in visible : g.vectors = snap.vectors
      BY <1>1, <1>4, <2>2 DEF QuietMeansBackedUp, IsBackedUp
    <2>4. PICK i \in DOMAIN bucket : Visible(i) /\ bucket[i].vectors = snap.vectors
      BY <2>3 DEF visible, Content
    <2>5. QED
      BY <1>1, <2>2, <2>4, VectorsStayVisible
  <1>6. SidecarRestarts => lastMtime' = 0
    BY DEF SidecarRestarts
  <1>7. ASSUME Done
        PROVE  \E i \in DOMAIN bucket' : Visible(i)' /\ snap'.vectors \subseteq bucket'[i].vectors
    BY <1>1, <1>4, <1>7, DoneIsBackedUp DEF Visible
  <1>8. ASSUME lastDigest = {snap.vectors}, UNCHANGED <<snap, bucket>>
        PROVE  \E i \in DOMAIN bucket' : Visible(i)' /\ snap'.vectors \subseteq bucket'[i].vectors
    BY <1>1, <1>8 DEF RememberedIsKept, Visible
  <1>9. QED
    BY <1>4, <1>5, <1>6, <1>7, <1>8, MarksAdvance

LEMMA InitEstablishesQuietInv == Init => QuietInv
  <1>1. SUFFICES ASSUME Init PROVE QuietInv
    OBVIOUS
  <1>2. BackupInv
    BY <1>1, InitEstablishesBackupInv
  <1>3. DOMAIN bucket = {}
    BY <1>1 DEF Init
  <1>4. SavesAreNumbered /\ LatestIsOfTheRead /\ RememberedIsKept
    BY <1>1 DEF Init, NoSave, SavesAreNumbered, LatestIsOfTheRead, RememberedIsKept
  <1>5. GenerationsGrow
    BY <1>3 DEF GenerationsGrow
  <1>6. SightsAreInOrder
    BY <1>1 DEF Init, SightsAreInOrder
  <1>7. QuietMeansBackedUp
    BY <1>1 DEF Init, QuietMeansBackedUp, IsBackedUp
  <1>8. QED
    BY <1>2, <1>4, <1>5, <1>6, <1>7 DEF QuietInv

LEMMA StepKeepsQuietInv == QuietInv /\ [Next]_vars => QuietInv'
  <1>1. SUFFICES ASSUME QuietInv, [Next]_vars PROVE QuietInv'
    OBVIOUS
  <1>2. /\ BackupInv /\ SavesAreNumbered /\ GenerationsGrow /\ SightsAreInOrder
        /\ LatestIsOfTheRead /\ RememberedIsKept
    BY <1>1 DEF QuietInv
  <1>3. BackupInv'
    BY <1>1, <1>2, StepKeepsBackupInv
  <1>4. SavesAreNumbered'
    BY <1>1, <1>2, SnapshotsAreNewer DEF BackupInv
  <1>5. GenerationsGrow' /\ SightsAreInOrder'
    BY <1>1, <1>2, StepKeepsGenerationsGrow, StepKeepsSights
  <1>6. LatestIsOfTheRead' /\ RememberedIsKept'
    BY <1>1, <1>2, StepKeepsLatest, StepKeepsRemembered
  <1>7. QuietMeansBackedUp'
    BY <1>1, <1>5, StepKeepsQuiet
  <1>8. QED
    BY <1>3, <1>4, <1>5, <1>6, <1>7 DEF QuietInv

(* The sidecar lets a snapshot be only when its vectors are in a           *)
(* generation with a COMPLETE marker (ops/backup.py, watch): whatever is   *)
(* replaced between the stat, the digest and the read, whatever fails, and *)
(* however few generations are retained.                                   *)
THEOREM RestIsOnlyOnABackup == Spec => []QuietMeansBackedUp
  <1>1. QuietInv => QuietMeansBackedUp
    BY DEF QuietInv
  <1>2. QED
    BY <1>1, InitEstablishesQuietInv, StepKeepsQuietInv, PTL DEF Spec
=============================================================================
