--------------------------- MODULE Restore_proofs ---------------------------
(***************************************************************************)
(* Proofs about Restore: for any games, generations and failures, whatever *)
(* a restore is killed in the middle of, a snapshot comes with the         *)
(* checkpoint that describes it, and no log is lost.                       *)
(***************************************************************************)
EXTENDS Restore, FiniteSetTheorems, TLAPS

-----------------------------------------------------------------------------
(* The invariant *)

AllCovered == \A i \in Gen : Covered(bucket[i])

(* What MinDB has, or a failure or an older generation has kept from it.   *)
Held == Stored \cup missed

(* The batch that is in the corpus and not yet in MinDB.                   *)
InFlight == IF ingest.pc = "inserting" THEN ingest.batch ELSE {}

(* Once the snapshot is in place it has what there is, whatever happens to *)
(* the log beside it.                                                      *)
SnapshotHasIt ==
  /\ snap.number = job.gen
  /\ documents \subseteq snap.vectors \cup missed \cup InFlight
  /\ ~torn => /\ checkpoint.claims \subseteq snap.vectors \cup missed
              /\ ingest.claims \subseteq snap.vectors \cup missed
              /\ ingest.pc \in {"idle", "waiting"}

(* The checkpoint is the one of the generation.                            *)
OfTheGeneration ==
  /\ checkpoint.of = job.gen /\ checkpoint.status = "complete"
  /\ checkpoint.claims \subseteq bucket[job.gen].vectors \cup missed

(* The job works while MinDB is down, on one generation.                   *)
JobKnowsIt ==
  /\ job.pc # "idle" => mindb = "stopped" /\ job.gen \in Gen
  /\ job.pc \in {"marker", "manifest"} => job.files = {}
  /\ job.pc = "file" => Cardinality(job.files) < Len(Manifest(job.gen))
  /\ job.pc \in {"verify", "checkpoint", "meta", "snap"} /\ bucket[job.gen].sidecar = "own" =>
       "mindb.snap.meta" \in job.files
  /\ job.pc = "checkpoint" => bucket[job.gen].status = "complete"
  /\ job.pc \in {"meta", "snap"} /\ ~job.beside => OfTheGeneration
  /\ job.pc = "snap" /\ bucket[job.gen].sidecar = "own" => meta = job.gen
  /\ job.pc = "retire" => SnapshotHasIt

(* A MinDB that is up has its snapshot, and its log.                       *)
InMemory == mindb = "up" => Stored \subseteq index

(* A document has a vector, or one is on its way, or is known to be missed.*)
DocumentsAreHeld == documents \subseteq Held \cup InFlight

(* Where nothing is torn, so has what is claimed.                          *)
ClaimsAreSaved ==
  ~torn => /\ checkpoint.claims \subseteq Held /\ ingest.claims \subseteq Held
           /\ ingest.pc = "claiming" => ingest.batch \subseteq Held

RestoreInv ==
  TypeOK /\ AllCovered /\ JobKnowsIt /\ InMemory /\ DocumentsAreHeld /\ ClaimsAreSaved

-----------------------------------------------------------------------------
(* Types *)

Snapshots == [number : Numbers, vectors : SUBSET Game]
Ingests   == [pc : {"idle", "waiting", "running", "inserting", "claiming", "saved"},
              claims : SUBSET Game, batch : SUBSET Game]
Jobs == [pc : {"idle", "marker", "manifest", "file", "verify", "checkpoint", "meta", "snap", "retire"},
         gen : 0..Newest, force : BOOLEAN, files : SUBSET AllFiles, beside : BOOLEAN]

LEMMA Constants ==
  /\ Newest \in Nat /\ Newest > 0 /\ MaxSaves \in Nat /\ MaxFailures \in Nat
  /\ \A i \in Gen : i \in 0..Newest /\ i \in Numbers /\ i # 0
  /\ 0 \in Numbers /\ 0 \in 0..Newest
  /\ \A n \in 0..MaxSaves : Newest + 1 + n \in Numbers /\ Newest + 1 + n \notin Gen
  /\ Uploads \subseteq [Gen -> Content]
BY NewestAssumption, BoundAssumption, UploadsAssumption DEF Gen, Numbers

(* What a manifest lists are files.                                        *)
LEMMA Listed ==
  ASSUME NEW i \in Gen
  PROVE  /\ Len(Manifest(i)) \in Nat /\ Len(Manifest(i)) > 0
         /\ \A n \in 1..Len(Manifest(i)) : Manifest(i)[n] \in AllFiles
<1>1. CASE bucket[i].sidecar = "own" BY <1>1 DEF Manifest, AllFiles
<1>2. CASE bucket[i].sidecar # "own" BY <1>2 DEF Manifest, AllFiles
<1> QED BY <1>1, <1>2

(* A set of files has a size, and one more file makes it at most one more. *)
LEMMA Files ==
  ASSUME NEW files \in SUBSET AllFiles, NEW f
  PROVE  /\ Cardinality(files) \in Nat
         /\ Cardinality(files \cup {f}) \in Nat
         /\ Cardinality(files \cup {f}) <= Cardinality(files) + 1
<1>1. IsFiniteSet(AllFiles)
  <2> DEFINE one == {} \cup {"mindb.snap"}
             two == one \cup {"checkpoint.json"}
             three == two \cup {"mindb.snap.meta"}
  <2>1. IsFiniteSet({}) BY FS_EmptySet
  <2>2. IsFiniteSet(one) BY <2>1, FS_AddElement
  <2>3. IsFiniteSet(two)
    <3> HIDE DEF one
    <3> QED BY <2>2, FS_AddElement
  <2>4. IsFiniteSet(three)
    <3> HIDE DEF two
    <3> QED BY <2>3, FS_AddElement
  <2>5. AllFiles = three BY DEF AllFiles
  <2> QED BY <2>4, <2>5
<1>2. IsFiniteSet(files) BY <1>1, FS_Subset
<1>3. Cardinality(files) \in Nat BY <1>2, FS_CardinalityType
<1>4. /\ IsFiniteSet(files \cup {f})
      /\ Cardinality(files \cup {f}) = Cardinality(files)
           \/ Cardinality(files \cup {f}) = Cardinality(files) + 1
  <2>1. CASE f \in files
    <3>1. files \cup {f} = files BY <2>1
    <3> QED BY <3>1, <1>2
  <2>2. CASE f \notin files BY <2>2, <1>2, FS_AddElement
  <2> QED BY <2>1, <2>2
<1> QED BY <1>3, <1>4

LEMMA NoJobType == NoJob \in Jobs /\ NoJob.pc = "idle"
BY Constants DEF NoJob, Jobs, AllFiles

LEMMA NoIngestType ==
  NoIngest \in Ingests /\ NoIngest.pc = "idle" /\ NoIngest.claims = {} /\ NoIngest.batch = {}
BY DEF NoIngest, Ingests

(* What is stored: the vectors of the snapshot, and of each segment.       *)
StoredIs(vectors, log) ==
  \A g : g \in Stored <=> g \in vectors \/ \E s \in log : g \in s.vectors

LEMMA StoredNow == StoredIs(snap.vectors, wal)
BY DEF StoredIs, Stored

LEMMA StoredNext ==
  \A g : g \in Stored' <=> g \in snap'.vectors \/ \E s \in wal' : g \in s.vectors
BY DEF Stored

-----------------------------------------------------------------------------
(* The first states *)

LEMMA VolumeAtFirst ==
  ASSUME InitVolume
  PROVE  /\ checkpoint \in Checkpoint /\ meta \in Numbers /\ snap \in Snapshots
         /\ wal \subseteq Segment /\ torn \in BOOLEAN
         /\ ~torn => checkpoint.claims \subseteq snap.vectors
<1>0. Newest + 1 \in Numbers /\ 0 \in Numbers /\ 0 \in 0..Newest
  BY NewestAssumption, BoundAssumption DEF Numbers
<1>1. CASE \E vectors \in SUBSET Game : \E tail \in SUBSET (Game \ vectors) :
             /\ snap = [number |-> Newest + 1, vectors |-> vectors]
             /\ meta = Newest + 1
             /\ wal = {[run |-> Newest + 1, onto |-> Newest + 1, vectors |-> v] : v \in {{}, tail}}
             /\ \E status \in {"pending", "complete"} :
                  checkpoint = [of |-> 0, status |-> status, claims |-> vectors]
             /\ torn = FALSE
  <2>1. PICK vectors \in SUBSET Game, tail \in SUBSET Game :
             /\ snap = [number |-> Newest + 1, vectors |-> vectors]
             /\ meta = Newest + 1
             /\ wal = {[run |-> Newest + 1, onto |-> Newest + 1, vectors |-> v] : v \in {{}, tail}}
             /\ \E status \in {"pending", "complete"} :
                  checkpoint = [of |-> 0, status |-> status, claims |-> vectors]
             /\ torn = FALSE
    BY <1>1
  <2>2. snap \in Snapshots /\ meta \in Numbers /\ torn \in BOOLEAN
    BY <2>1, <1>0 DEF Snapshots
  <2>3. checkpoint \in Checkpoint /\ checkpoint.claims = vectors /\ snap.vectors = vectors
    BY <2>1, <1>0 DEF Checkpoint
  <2>4. wal \subseteq Segment BY <2>1, <1>0 DEF Segment
  <2> QED BY <2>2, <2>3, <2>4
<1>2. CASE /\ snap = NoSnapshot /\ meta = 0 /\ wal = {}
           /\ checkpoint \in {NoCheckpoint, [of |-> 0, status |-> "complete", claims |-> Game]}
           /\ torn = (checkpoint # NoCheckpoint)
  <2>1. snap \in Snapshots /\ meta \in Numbers /\ wal \subseteq Segment
    BY <1>2, <1>0 DEF NoSnapshot, Snapshots
  <2>2. checkpoint \in Checkpoint BY <1>2, <1>0 DEF NoCheckpoint, Checkpoint
  <2>3. torn \in BOOLEAN BY <1>2, Zenon
  <2>4. ~torn => checkpoint = NoCheckpoint BY <1>2, Zenon
  <2>5. checkpoint = NoCheckpoint => checkpoint.claims = {} BY DEF NoCheckpoint
  <2> QED BY <2>1, <2>2, <2>3, <2>4, <2>5, Zenon
<1> QED BY <1>1, <1>2, Zenon DEF InitVolume

LEMMA InvAtFirst == Init => RestoreInv
<1> SUFFICES ASSUME Init PROVE RestoreInv OBVIOUS
<1>1. bucket \in [Gen -> Content] /\ AllCovered
  BY Constants DEF Init, AllCovered
<1>2. /\ checkpoint \in Checkpoint /\ meta \in Numbers /\ snap \in Snapshots
      /\ wal \subseteq Segment /\ torn \in BOOLEAN
      /\ ~torn => checkpoint.claims \subseteq snap.vectors
  BY VolumeAtFirst DEF Init
<1>3. job \in Jobs /\ job.pc = "idle" BY NoJobType DEF Init
<1>4. ingest \in Ingests /\ ingest.pc = "idle" /\ ingest.claims = {} BY NoIngestType DEF Init
<1>5. Stored \subseteq Game BY <1>2, StoredNow DEF StoredIs, Snapshots, Segment
<1>6. missed \subseteq Game /\ documents \subseteq Stored \cup missed BY DEF Init
<1>7. TypeOK
  <2>1. 0 \in 0..MaxSaves /\ 0 \in 0..MaxFailures BY Constants
  <2>2. /\ mindb = "stopped" /\ index = {} /\ saves = 0 /\ failures = 0 /\ orphaned = {}
    BY DEF Init
  <2> QED BY <1>1, <1>2, <1>3, <1>4, <1>5, <1>6, <2>1, <2>2 DEF TypeOK, Jobs, Ingests, Snapshots
<1>8. JobKnowsIt BY <1>3 DEF JobKnowsIt
<1>9. InMemory BY DEF Init, InMemory
<1>10. DocumentsAreHeld BY <1>6 DEF DocumentsAreHeld, Held
<1>11. ClaimsAreSaved BY <1>2, <1>4, StoredNow DEF StoredIs, ClaimsAreSaved, Held
<1> QED BY <1>1, <1>7, <1>8, <1>9, <1>10, <1>11 DEF RestoreInv

-----------------------------------------------------------------------------
(* The steps of the job *)

(* Where only the job has moved, only what it knows is to be shown.        *)
LEMMA OnlyTheJob ==
  ASSUME RestoreInv, job' \in Jobs, JobKnowsIt',
         UNCHANGED <<volume, server, bucket, ingest, missed, torn>>, failures' \in 0..MaxFailures
  PROVE  RestoreInv'
<1>1. TypeOK' BY DEF RestoreInv, TypeOK, Jobs, volume, server
<1>2. AllCovered' BY DEF RestoreInv, AllCovered, Covered
<1>3. Held' = Held /\ InFlight' = InFlight /\ Stored' = Stored
  BY DEF Held, InFlight, Stored, volume
<1>4. InMemory' BY <1>3 DEF RestoreInv, InMemory, server
<1>5. DocumentsAreHeld' BY <1>3 DEF RestoreInv, DocumentsAreHeld, volume
<1>6. ClaimsAreSaved' BY <1>3 DEF RestoreInv, ClaimsAreSaved, volume
<1> QED BY <1>1, <1>2, <1>4, <1>5, <1>6 DEF RestoreInv

(* A job that ends leaves nothing that has to be known.                    *)
LEMMA JobEnds ==
  ASSUME RestoreInv, job' = NoJob,
         UNCHANGED <<volume, server, bucket, ingest, missed, torn>>, failures' \in 0..MaxFailures
  PROVE  RestoreInv'
<1>1. job' \in Jobs /\ job'.pc = "idle" BY NoJobType
<1>2. JobKnowsIt' BY <1>1 DEF JobKnowsIt
<1> QED BY <1>1, <1>2, OnlyTheJob

LEMMA Unmoved ==
  ASSUME RestoreInv, UNCHANGED Unwritten
  PROVE  /\ UNCHANGED <<volume, server, bucket, ingest, missed, torn>>
         /\ failures' \in 0..MaxFailures /\ mindb' = mindb
BY DEF RestoreInv, TypeOK, Unwritten, history, server

LEMMA Refused ==
  ASSUME RestoreInv, Refuse, UNCHANGED Unwritten
  PROVE  RestoreInv'
BY JobEnds, Unmoved DEF Refuse

LEMMA Proceeding ==
  ASSUME RestoreInv, NEW pc \in {"manifest", "file", "verify", "checkpoint", "meta", "snap", "retire"},
         Proceed(pc)
  PROVE  /\ job' \in Jobs /\ job'.pc = pc /\ job'.gen = job.gen /\ job'.files = job.files
         /\ job'.beside = job.beside
BY DEF RestoreInv, TypeOK, Jobs, Proceed

LEMMA Starting ==
  ASSUME RestoreInv, NEW i \in Gen, NEW force \in BOOLEAN, Start(i, force)
  PROVE  RestoreInv'
<1>1. /\ job' = [NoJob EXCEPT !.pc = "marker", !.gen = i, !.force = force]
      /\ mindb = "stopped" /\ UNCHANGED Unwritten
  BY DEF Start
<1>2. job' = [pc |-> "marker", gen |-> i, force |-> force, files |-> {}, beside |-> FALSE]
  BY <1>1 DEF NoJob
<1>3. job' \in Jobs BY <1>2, Constants DEF Jobs, AllFiles
<1>4. mindb' = "stopped" BY <1>1, Unmoved
<1>5. JobKnowsIt' BY <1>2, <1>4 DEF JobKnowsIt
<1> QED BY <1>1, <1>3, <1>5, Unmoved, OnlyTheJob

LEMMA MarkerIsRead == ASSUME RestoreInv, GetMarker PROVE RestoreInv'
<1>1. CASE Proceed("manifest") /\ UNCHANGED Unwritten
  <2>1. job' \in Jobs /\ job'.pc = "manifest" /\ job'.gen = job.gen /\ job'.files = job.files
    BY <1>1, Proceeding
  <2>2. job.files = {} /\ mindb = "stopped" /\ job.gen \in Gen
    BY DEF GetMarker, RestoreInv, JobKnowsIt
  <2>3. mindb' = mindb BY <1>1, Unmoved
  <2>4. JobKnowsIt' BY <2>1, <2>2, <2>3 DEF JobKnowsIt
  <2> QED BY <1>1, <2>1, <2>4, Unmoved, OnlyTheJob
<1>2. CASE Refuse /\ UNCHANGED Unwritten BY <1>2, Refused
<1> QED BY <1>1, <1>2 DEF GetMarker

LEMMA ManifestIsRead == ASSUME RestoreInv, GetManifest PROVE RestoreInv'
<1>1. CASE Proceed("file") /\ UNCHANGED Unwritten
  <2>1. job' \in Jobs /\ job'.pc = "file" /\ job'.gen = job.gen /\ job'.files = job.files
    BY <1>1, Proceeding
  <2>2. job.files = {} /\ mindb = "stopped" /\ job.gen \in Gen
    BY DEF GetManifest, RestoreInv, JobKnowsIt
  <2>3. mindb' = mindb /\ bucket' = bucket BY <1>1, Unmoved
  <2>4. Cardinality(job'.files) = 0 BY <2>1, <2>2, FS_EmptySet
  <2>5. Manifest(job.gen)' = Manifest(job.gen) BY <2>1, <2>3 DEF Manifest
  <2>6. Len(Manifest(job.gen)) > 0 BY <2>2, Listed
  <2>7. Cardinality(job'.files) < Len(Manifest(job.gen)') BY <2>4, <2>5, <2>6
  <2>8. JobKnowsIt' BY <2>1, <2>2, <2>3, <2>7 DEF JobKnowsIt
  <2> QED BY <1>1, <2>1, <2>8, Unmoved, OnlyTheJob
<1>2. CASE Refuse /\ UNCHANGED Unwritten BY <1>2, Refused
<1> QED BY <1>1, <1>2 DEF GetManifest

LEMMA FileIsFetched == ASSUME RestoreInv, GetFile PROVE RestoreInv'
<1> DEFINE n == Cardinality(job.files)
           f == Manifest(job.gen)[n + 1]
           next == IF n + 1 = Len(Manifest(job.gen)) THEN "verify" ELSE "file"
<1>0. /\ job.pc = "file" /\ job \in Jobs /\ mindb = "stopped" /\ job.gen \in Gen
      /\ n < Len(Manifest(job.gen))
  BY DEF GetFile, RestoreInv, TypeOK, Jobs, JobKnowsIt
<1>1. CASE job' = [job EXCEPT !.files = @ \cup {f}, !.pc = next] /\ UNCHANGED Unwritten
  <2>1. job.files \in SUBSET AllFiles BY <1>0 DEF Jobs
  <2>2. /\ n \in Nat /\ Cardinality(job.files \cup {f}) \in Nat
        /\ Cardinality(job.files \cup {f}) <= n + 1
    <3> HIDE DEF f
    <3> QED BY <2>1, Files
  <2>3. Len(Manifest(job.gen)) \in Nat BY <1>0, Listed
  <2>4. n + 1 \in 1..Len(Manifest(job.gen)) BY <1>0, <2>2, <2>3
  <2>5. f \in AllFiles BY <2>4, <1>0, Listed
  <2>6. /\ job' \in Jobs /\ job'.pc = next /\ job'.gen = job.gen
        /\ job'.files = job.files \cup {f}
    <3>1. job.files \cup {f} \in SUBSET AllFiles BY <2>1, <2>5
    <3>2. next \in {"verify", "file"} OBVIOUS
    <3> HIDE DEF f, next
    <3> QED BY <1>0, <1>1, <3>1, <3>2 DEF Jobs
  <2>7. mindb' = mindb /\ bucket' = bucket BY <1>1, Unmoved
  <2>8. Manifest(job.gen)' = Manifest(job.gen) BY <2>6, <2>7 DEF Manifest
  <2>9. next = "file" => Cardinality(job'.files) < Len(Manifest(job.gen)')
    <3>1. Cardinality(job'.files) \in Nat /\ Cardinality(job'.files) <= n + 1
      BY <2>6, <2>2
    <3>2. next = "file" => n + 1 < Len(Manifest(job.gen)) BY <2>4, <2>3, <2>2
    <3> HIDE DEF next, n
    <3> QED BY <3>1, <3>2, <2>8, <2>2, <2>3
  <2>11. next = "verify" /\ bucket[job.gen].sidecar = "own" => "mindb.snap.meta" \in job'.files
    <3>1. next = "verify" => n + 1 = Len(Manifest(job.gen)) OBVIOUS
    <3>2. bucket[job.gen].sidecar = "own" =>
            Len(Manifest(job.gen)) = 3 /\ Manifest(job.gen)[3] = "mindb.snap.meta"
      BY DEF Manifest
    <3> QED BY <3>1, <3>2, <2>6
  <2>10. JobKnowsIt'
    <3>1. next \in {"verify", "file"} OBVIOUS
    <3> HIDE DEF next, f, n
    <3> QED BY <1>0, <2>6, <2>7, <2>9, <2>11, <3>1 DEF JobKnowsIt
  <2> QED BY <1>1, <2>6, <2>10, Unmoved, OnlyTheJob
<1>2. CASE Refuse /\ UNCHANGED Unwritten BY <1>2, Refused
<1> QED BY <1>1, <1>2 DEF GetFile

LEMMA GenerationIsVerified == ASSUME RestoreInv, Verify PROVE RestoreInv'
<1>1. CASE Proceed("checkpoint") /\ bucket[job.gen].status = "complete" /\ UNCHANGED Unwritten
  <2>1. job' \in Jobs /\ job'.pc = "checkpoint" /\ job'.gen = job.gen /\ job'.files = job.files
    BY <1>1, Proceeding
  <2>2. /\ mindb = "stopped" /\ job.gen \in Gen
        /\ bucket[job.gen].sidecar = "own" => "mindb.snap.meta" \in job.files
    BY DEF Verify, RestoreInv, JobKnowsIt
  <2>3. mindb' = mindb /\ bucket' = bucket BY <1>1, Unmoved
  <2>4. JobKnowsIt' BY <1>1, <2>1, <2>2, <2>3 DEF JobKnowsIt
  <2> QED BY <1>1, <2>1, <2>4, Unmoved, OnlyTheJob
<1>2. CASE Refuse /\ UNCHANGED Unwritten BY <1>2, Refused
<1> QED BY <1>1, <1>2 DEF Verify

(* While the job writes, MinDB is down: only the files are to be shown.    *)
LEMMA JobWrites ==
  ASSUME RestoreInv, job.pc # "idle", job' \in Jobs,
         checkpoint' \in Checkpoint, meta' \in Numbers, snap' \in Snapshots,
         wal' \subseteq Segment, orphaned' \subseteq Segment, torn' \in BOOLEAN,
         missed' \subseteq Game, missed \subseteq missed',
         UNCHANGED <<documents, server, bucket, ingest, failures>>,
         JobKnowsIt', DocumentsAreHeld', ClaimsAreSaved'
  PROVE  RestoreInv'
<1>1. mindb' = "stopped" BY DEF RestoreInv, JobKnowsIt, server
<1>2. TypeOK' BY DEF RestoreInv, TypeOK, Jobs, Snapshots, server
<1>3. AllCovered' BY DEF RestoreInv, AllCovered, Covered
<1>4. InMemory' BY <1>1 DEF InMemory
<1> QED BY <1>2, <1>3, <1>4 DEF RestoreInv

LEMMA Generation ==
  ASSUME RestoreInv, job.gen \in Gen
  PROVE  /\ bucket[job.gen].claims \subseteq Game /\ bucket[job.gen].vectors \subseteq Game
         /\ Covered(bucket[job.gen])
BY DEF RestoreInv, TypeOK, Content, AllCovered

LEMMA FilesTyped ==
  ASSUME RestoreInv
  PROVE  /\ checkpoint \in Checkpoint /\ meta \in Numbers /\ snap \in Snapshots
         /\ wal \subseteq Segment /\ orphaned \subseteq Segment /\ torn \in BOOLEAN
         /\ missed \subseteq Game /\ documents \subseteq Game /\ job \in Jobs
         /\ ingest \in Ingests
BY DEF RestoreInv, TypeOK, Snapshots, Jobs, Ingests

LEMMA CheckpointIsWritten == ASSUME RestoreInv, WriteCheckpoint PROVE RestoreInv'
<1>1. /\ job.pc = "checkpoint" /\ torn' = TRUE
      /\ job' = [job EXCEPT !.pc = "meta", !.beside = FALSE]
      /\ checkpoint' = [of |-> job.gen, status |-> bucket[job.gen].status,
                        claims |-> bucket[job.gen].claims]
      /\ UNCHANGED <<documents, meta, snap, wal, orphaned, missed, server, bucket, ingest, failures>>
  BY DEF WriteCheckpoint, PutCheckpoint, Rest
<1>2. /\ job' \in Jobs /\ job'.pc = "meta" /\ job'.gen = job.gen /\ job'.files = job.files
  BY <1>1, FilesTyped DEF Jobs
<1>3. /\ job.gen \in Gen /\ bucket[job.gen].status = "complete" /\ mindb = "stopped"
      /\ bucket[job.gen].sidecar = "own" => "mindb.snap.meta" \in job.files
  BY <1>1 DEF RestoreInv, JobKnowsIt
<1>4. /\ bucket[job.gen].claims \subseteq Game
      /\ bucket[job.gen].claims \subseteq bucket[job.gen].vectors \cup missed
  BY <1>3, Generation DEF Covered
<1>5. checkpoint' \in Checkpoint BY <1>1, <1>3, <1>4, Constants DEF Checkpoint
<1>6. mindb' = mindb /\ bucket' = bucket /\ missed' = missed BY <1>1 DEF server
<1>a. OfTheGeneration' BY <1>1, <1>2, <1>3, <1>4, <1>6 DEF OfTheGeneration
<1>7. JobKnowsIt' BY <1>2, <1>3, <1>6, <1>a DEF JobKnowsIt
<1>8. ClaimsAreSaved' BY <1>1 DEF ClaimsAreSaved
<1>9. DocumentsAreHeld'
  BY <1>1 DEF RestoreInv, DocumentsAreHeld, Held, Stored, InFlight
<1>10. torn' \in BOOLEAN BY <1>1, Zenon
<1>11. meta' \in Numbers /\ snap' \in Snapshots /\ wal' \subseteq Segment
       /\ orphaned' \subseteq Segment /\ missed' \subseteq Game /\ missed \subseteq missed'
  BY <1>1, FilesTyped
<1> QED BY <1>1, <1>2, <1>5, <1>7, <1>8, <1>9, <1>10, <1>11, JobWrites

LEMMA MetaIsWritten == ASSUME RestoreInv, WriteMeta PROVE RestoreInv'
<1>1. /\ job.pc = "meta" /\ Proceed("snap")
      /\ UNCHANGED <<documents, checkpoint, snap, missed, torn, wal, orphaned, server, bucket,
                     ingest, failures>>
  BY DEF WriteMeta, Rest
<1>2. /\ job' \in Jobs /\ job'.pc = "snap" /\ job'.gen = job.gen /\ job'.files = job.files
      /\ job'.beside = job.beside
  BY <1>1, Proceeding
<1>3. /\ job.gen \in Gen /\ mindb = "stopped"
      /\ bucket[job.gen].sidecar = "own" => "mindb.snap.meta" \in job.files
      /\ ~job.beside => OfTheGeneration
  BY <1>1 DEF RestoreInv, JobKnowsIt
<1>4. /\ meta' \in Numbers
      /\ bucket[job.gen].sidecar = "own" => meta' = job.gen
  BY <1>3, FilesTyped, Constants DEF WriteMeta, PutMeta
<1>5. mindb' = mindb BY <1>1 DEF server
<1>a. OfTheGeneration => OfTheGeneration' BY <1>1, <1>2 DEF OfTheGeneration
<1>6. JobKnowsIt' BY <1>1, <1>2, <1>3, <1>4, <1>5, <1>a DEF JobKnowsIt
<1>7. ClaimsAreSaved' BY <1>1 DEF ClaimsAreSaved, RestoreInv, Held, Stored
<1>8. DocumentsAreHeld'
  BY <1>1 DEF RestoreInv, DocumentsAreHeld, Held, Stored, InFlight
<1>9. /\ checkpoint' \in Checkpoint /\ snap' \in Snapshots /\ wal' \subseteq Segment
      /\ orphaned' \subseteq Segment /\ torn' \in BOOLEAN /\ missed' \subseteq Game
      /\ missed \subseteq missed'
  BY <1>1, FilesTyped
<1> QED BY <1>1, <1>2, <1>4, <1>6, <1>7, <1>8, <1>9, JobWrites

LEMMA SnapIsWritten == ASSUME RestoreInv, WriteSnap PROVE RestoreInv'
<1>1. /\ job.pc = "snap" /\ Proceed("retire") /\ torn' = (ingest # NoIngest \/ job.beside)
      /\ snap' = [number |-> job.gen, vectors |-> bucket[job.gen].vectors]
      /\ missed' = missed \cup (documents \ bucket[job.gen].vectors) /\ orphaned' = {}
      /\ UNCHANGED <<documents, checkpoint, meta, wal, server, bucket, ingest, failures>>
  BY DEF WriteSnap, PutSnap, Rest
<1>2. job' \in Jobs /\ job'.pc = "retire" /\ job'.gen = job.gen BY <1>1, Proceeding
<1>3. /\ job.gen \in Gen /\ mindb = "stopped"
      /\ ~job.beside => OfTheGeneration
  BY <1>1 DEF RestoreInv, JobKnowsIt
<1>4. /\ snap' \in Snapshots /\ snap'.number = job.gen
      /\ snap'.vectors = bucket[job.gen].vectors
  BY <1>1, <1>3, Generation, Constants DEF Snapshots
<1>5. mindb' = mindb BY <1>1 DEF server
<1>6. documents \subseteq snap'.vectors \cup missed' BY <1>1, <1>4
<1>7. torn' \in BOOLEAN
  <2>1. job.beside \in BOOLEAN BY FilesTyped DEF Jobs
  <2> QED BY <2>1, <1>1, Zenon
<1>8. ASSUME ~torn'
      PROVE  /\ checkpoint'.claims \subseteq snap'.vectors \cup missed'
             /\ ingest'.claims = {} /\ ingest'.pc = "idle"
  <2>1. ingest = NoIngest /\ ~job.beside BY <1>1, <1>8, Zenon
  <2>2. OfTheGeneration BY <2>1, <1>3
  <2>3. checkpoint'.claims \subseteq snap'.vectors \cup missed'
    BY <1>1, <1>4, <2>2 DEF OfTheGeneration
  <2> QED BY <2>1, <2>3, <1>1, NoIngestType
<1>9. SnapshotHasIt' BY <1>1, <1>2, <1>4, <1>6, <1>8 DEF SnapshotHasIt
<1>10. JobKnowsIt' BY <1>2, <1>3, <1>5, <1>9 DEF JobKnowsIt
<1>11. snap'.vectors \subseteq Stored' BY StoredNext
<1>12. DocumentsAreHeld' BY <1>1, <1>6, <1>11 DEF DocumentsAreHeld, Held
<1>13. ClaimsAreSaved' BY <1>8, <1>11 DEF ClaimsAreSaved, Held
<1>14. /\ checkpoint' \in Checkpoint /\ meta' \in Numbers /\ wal' \subseteq Segment
       /\ orphaned' \subseteq Segment /\ missed' \subseteq Game /\ missed \subseteq missed'
  BY <1>1, FilesTyped
<1> QED BY <1>1, <1>2, <1>4, <1>7, <1>10, <1>12, <1>13, <1>14, JobWrites

LEMMA SegmentIsRetired == ASSUME RestoreInv, RetireSegment PROVE RestoreInv'
<1>1. PICK s \in wal : wal' = wal \ {s} /\ orphaned' = orphaned \cup {s}
  BY DEF RetireSegment
<1>2. /\ job.pc = "retire"
      /\ UNCHANGED <<documents, checkpoint, meta, snap, server, bucket, job, ingest, missed, torn,
                     failures>>
  BY DEF RetireSegment, history
<1>3. wal' \subseteq Segment /\ orphaned' \subseteq Segment
  BY <1>1, FilesTyped
<1>4. SnapshotHasIt BY <1>2 DEF RestoreInv, JobKnowsIt
<1>5. SnapshotHasIt' BY <1>2, <1>4 DEF SnapshotHasIt, InFlight
<1>6. JobKnowsIt' BY <1>2, <1>5 DEF JobKnowsIt, RestoreInv, server
<1>7. snap.vectors \subseteq Stored' BY <1>2, StoredNext
<1>8. DocumentsAreHeld' BY <1>2, <1>4, <1>7 DEF SnapshotHasIt, DocumentsAreHeld, Held, InFlight
<1>9. ClaimsAreSaved' BY <1>2, <1>4, <1>7 DEF SnapshotHasIt, ClaimsAreSaved, Held
<1>10. /\ checkpoint' \in Checkpoint /\ meta' \in Numbers /\ snap' \in Snapshots
       /\ torn' \in BOOLEAN /\ job' \in Jobs /\ missed' \subseteq Game /\ missed \subseteq missed'
  BY <1>2, FilesTyped
<1> QED BY <1>2, <1>3, <1>6, <1>8, <1>9, <1>10, JobWrites

LEMMA JobSteps == ASSUME RestoreInv, Job \/ Killed PROVE RestoreInv'
<1>1. CASE Restored BY <1>1, JobEnds, Unmoved DEF Restored
<1>2. CASE Killed
  <2>1. failures' \in 0..MaxFailures
    <3>1. failures \in 0..MaxFailures /\ failures < MaxFailures /\ failures' = failures + 1
      BY <1>2 DEF Killed, Failing, RestoreInv, TypeOK
    <3> QED BY <3>1, Constants
  <2> QED BY <1>2, <2>1, JobEnds DEF Killed
<1> QED BY <1>1, <1>2, MarkerIsRead, ManifestIsRead, FileIsFetched, GenerationIsVerified,
           CheckpointIsWritten, MetaIsWritten, SnapIsWritten, SegmentIsRetired DEF Job

-----------------------------------------------------------------------------
(* The steps of MinDB *)

(* A step of MinDB that leaves the job and the files of the restore alone, *)
(* and forgets nothing.                                                    *)
LEMMA ServerWorks ==
  ASSUME RestoreInv,
         UNCHANGED <<bucket, documents, checkpoint, meta, snap, orphaned, saves, job, ingest,
                     missed, torn>>,
         job.pc = "idle", mindb' \in {"stopped", "up", "refused"}, index' \subseteq Game,
         wal' \subseteq Segment, failures' \in 0..MaxFailures, InMemory', Stored \subseteq Stored'
  PROVE  RestoreInv'
<1>1. TypeOK' BY DEF RestoreInv, TypeOK
<1>2. AllCovered' BY DEF RestoreInv, AllCovered, Covered
<1>3. JobKnowsIt' BY DEF JobKnowsIt
<1>4. Held \subseteq Held' /\ InFlight' = InFlight BY DEF Held, InFlight
<1>5. DocumentsAreHeld' BY <1>4 DEF DocumentsAreHeld, RestoreInv
<1>6. ClaimsAreSaved' BY <1>4 DEF ClaimsAreSaved, RestoreInv
<1> QED BY <1>1, <1>2, <1>3, <1>5, <1>6 DEF RestoreInv

(* A job and a MinDB that is not down exclude one another.                 *)
LEMMA NotBoth == ASSUME RestoreInv, mindb # "stopped" PROVE job.pc = "idle"
BY DEF RestoreInv, JobKnowsIt

LEMMA Booting == ASSUME RestoreInv, Boot PROVE RestoreInv'
<1> DEFINE log == [run |-> IF meta = 0 THEN snap.number ELSE meta,
                   onto |-> snap.number, vectors |-> {}]
<1>1. /\ job = NoJob /\ mindb' = "up" /\ index' = Stored
      /\ wal' = IF \E s \in wal : s.onto = snap.number THEN wal ELSE wal \cup {log}
      /\ UNCHANGED <<bucket, documents, checkpoint, meta, snap, orphaned, saves, job, ingest,
                     missed, torn, failures>>
  BY DEF Boot, Scaled, history
<1>2. /\ meta \in Numbers /\ snap.number \in Numbers /\ snap.vectors \subseteq Game
      /\ wal \subseteq Segment /\ failures \in 0..MaxFailures
  BY DEF RestoreInv, TypeOK
<1>3. log \in Segment /\ log.vectors = {} BY <1>2 DEF Segment
<1>4. \A s \in Segment : s.vectors \subseteq Game BY DEF Segment
<1>5. /\ wal' \subseteq Segment /\ \A s \in wal' : s \in wal \/ s.vectors = {}
      /\ wal \subseteq wal'
  <2> HIDE DEF log
  <2> QED BY <1>1, <1>2, <1>3
<1>6. Stored \subseteq Game BY <1>2, <1>4, StoredNow DEF StoredIs
<1>7. Stored' = Stored BY <1>1, <1>5, StoredNow, StoredNext DEF StoredIs
<1>8. InMemory' BY <1>1, <1>7 DEF InMemory
<1>9. job.pc = "idle" BY <1>1, NoJobType
<1>10. mindb' \in {"stopped", "up", "refused"} /\ index' \subseteq Game BY <1>1, <1>6
<1> QED BY <1>1, <1>2, <1>5, <1>7, <1>8, <1>9, <1>10, ServerWorks

LEMMA BootingIsRefused == ASSUME RestoreInv, BootRefused PROVE RestoreInv'
<1>1. /\ job = NoJob /\ mindb' = "refused"
      /\ UNCHANGED <<bucket, documents, checkpoint, meta, snap, wal, orphaned, saves, index, job,
                     ingest, missed, torn, failures>>
  BY DEF BootRefused, Scaled, volume, history
<1>2. job.pc = "idle" BY <1>1, NoJobType
<1>3. /\ wal' \subseteq Segment /\ index' \subseteq Game /\ failures' \in 0..MaxFailures
      /\ mindb' \in {"stopped", "up", "refused"}
  BY <1>1 DEF RestoreInv, TypeOK
<1>4. InMemory' BY <1>1 DEF InMemory
<1>5. Stored' = Stored BY <1>1 DEF Stored
<1> QED BY <1>1, <1>2, <1>3, <1>4, <1>5, ServerWorks

LEMMA Stopping == ASSUME RestoreInv, Stop PROVE RestoreInv'
<1>1. /\ mindb # "stopped" /\ mindb' = "stopped" /\ index' = {}
      /\ UNCHANGED <<bucket, documents, checkpoint, meta, snap, wal, orphaned, saves, job, ingest,
                     missed, torn>>
  BY DEF Stop, volume
<1>2. job.pc = "idle" BY <1>1, NotBoth
<1>3. failures' \in 0..MaxFailures
  <2>1. failures \in 0..MaxFailures BY DEF RestoreInv, TypeOK
  <2>2. CASE failures < MaxFailures /\ failures' = failures + 1 BY <2>1, <2>2, Constants
  <2>3. CASE failures' = failures BY <2>1, <2>3
  <2> QED BY <2>2, <2>3 DEF Stop, Failing
<1>4. wal' \subseteq Segment /\ index' \subseteq Game /\ mindb' \in {"stopped", "up", "refused"}
  BY <1>1 DEF RestoreInv, TypeOK
<1>5. InMemory' BY <1>1 DEF InMemory
<1>6. Stored' = Stored BY <1>1 DEF Stored
<1> QED BY <1>1, <1>2, <1>3, <1>4, <1>5, <1>6, ServerWorks

(* What a save does: all that was stored is in the snapshot.               *)
LEMMA Saving ==
  ASSUME RestoreInv, Save
  PROVE  /\ mindb = "up" /\ mindb' = "up" /\ job.pc = "idle" /\ saves' \in 0..MaxSaves
         /\ UNCHANGED <<bucket, documents, checkpoint, orphaned, index, job, missed, torn, failures>>
         /\ meta' \in Numbers /\ snap' \in Snapshots /\ wal' \subseteq Segment
         /\ snap'.vectors = index /\ snap'.number \notin Gen
         /\ Stored \subseteq index /\ Stored' = index
         /\ \A s \in wal : s.vectors \subseteq index
<1>1. /\ mindb = "up" /\ saves < MaxSaves /\ saves' = saves + 1
      /\ snap' = [number |-> Newest + 1 + saves', vectors |-> index]
      /\ meta' = Newest + 1 + saves'
      /\ wal' = {[run |-> Newest + 1 + saves', onto |-> Newest + 1 + saves', vectors |-> {}]}
      /\ UNCHANGED <<bucket, documents, checkpoint, orphaned, mindb, index, job, missed, torn,
                     failures>>
  BY DEF Save, history
<1>2. saves' \in 0..MaxSaves
  <2>1. saves \in 0..MaxSaves BY DEF RestoreInv, TypeOK
  <2> QED BY <1>1, <2>1, Constants
<1> DEFINE number == Newest + 1 + saves'
<1>3. number \in Numbers /\ number \notin Gen BY <1>2, Constants
<1>4. /\ snap' = [number |-> number, vectors |-> index] /\ meta' = number
      /\ wal' = {[run |-> number, onto |-> number, vectors |-> {}]}
  BY <1>1
<1>5. index \subseteq Game BY DEF RestoreInv, TypeOK
<1>6. /\ meta' \in Numbers /\ snap' \in Snapshots /\ wal' \subseteq Segment
      /\ snap'.vectors = index /\ snap'.number \notin Gen
      /\ \A s \in wal' : s.vectors = {}
  <2> HIDE DEF number
  <2> QED BY <1>3, <1>4, <1>5 DEF Snapshots, Segment
<1>7. Stored' = index BY <1>6, StoredNext
<1>8. job.pc = "idle" BY <1>1, NotBoth
<1>9. Stored \subseteq index BY <1>1 DEF RestoreInv, InMemory
<1>10. \A s \in wal : s.vectors \subseteq index BY <1>9, StoredNow DEF StoredIs
<1> QED BY <1>1, <1>2, <1>6, <1>7, <1>8, <1>9, <1>10

(* A save on the clock, and the last one of an ingest.                     *)
LEMMA SavingIsSafe ==
  ASSUME RestoreInv, Save, ingest' \in Ingests, ingest'.claims = ingest.claims,
         InFlight \subseteq InFlight',
         ingest'.pc = "claiming" => ingest.pc = "claiming" /\ ingest'.batch = ingest.batch
  PROVE  RestoreInv'
<1>1. /\ mindb = "up" /\ mindb' = "up" /\ job.pc = "idle" /\ saves' \in 0..MaxSaves
      /\ UNCHANGED <<bucket, documents, checkpoint, orphaned, index, job, missed, torn, failures>>
      /\ meta' \in Numbers /\ snap' \in Snapshots /\ wal' \subseteq Segment
      /\ Stored \subseteq index /\ Stored' = index
  BY Saving
<1>2. TypeOK' BY <1>1 DEF RestoreInv, TypeOK, Snapshots, Ingests
<1>3. AllCovered' BY <1>1 DEF RestoreInv, AllCovered, Covered
<1>4. JobKnowsIt' BY <1>1 DEF JobKnowsIt
<1>5. InMemory' BY <1>1 DEF InMemory
<1>6. Held \subseteq Held' BY <1>1 DEF Held
<1>7. DocumentsAreHeld' BY <1>1, <1>6 DEF RestoreInv, DocumentsAreHeld
<1>8. ClaimsAreSaved' BY <1>1, <1>6 DEF RestoreInv, ClaimsAreSaved
<1> QED BY <1>2, <1>3, <1>4, <1>5, <1>7, <1>8 DEF RestoreInv

LEMMA SavingOnTheClock == ASSUME RestoreInv, SaveOnTheClock PROVE RestoreInv'
<1>1. Save /\ ingest' = ingest BY DEF SaveOnTheClock
<1>2. InFlight' = InFlight BY <1>1 DEF InFlight
<1> QED BY <1>1, <1>2, FilesTyped, SavingIsSafe

-----------------------------------------------------------------------------
(* The steps of an ingest *)

(* What an ingest does beside a job, if there is one, leaves alone what    *)
(* that knows: it writes the checkpoint only so that the job is marked.    *)
LEMMA JobIsLeftAlone ==
  ASSUME RestoreInv, UNCHANGED <<bucket, meta, mindb>>, missed \subseteq missed',
         job'.pc = job.pc, job'.gen = job.gen, job'.files = job.files,
         job.pc # "idle" /\ ~job'.beside => ~job.beside /\ checkpoint' = checkpoint,
         job.pc = "retire" => SnapshotHasIt'
  PROVE  JobKnowsIt'
<1>1. job.gen \in Gen => Manifest(job.gen)' = Manifest(job.gen) BY DEF Manifest
<1>2. job.pc \in {"meta", "snap"} /\ ~job'.beside => OfTheGeneration'
  BY DEF RestoreInv, JobKnowsIt, OfTheGeneration
<1> QED BY <1>1, <1>2 DEF RestoreInv, JobKnowsIt

(* MinDB takes no part in it.                                              *)
LEMMA IngestWorks ==
  ASSUME RestoreInv, UNCHANGED <<bucket, meta, snap, wal, orphaned, server, torn, failures>>,
         checkpoint' \in Checkpoint, documents' \subseteq Game, missed' \subseteq Game,
         missed \subseteq missed', job' \in Jobs, ingest' \in Ingests,
         JobKnowsIt', DocumentsAreHeld', ClaimsAreSaved'
  PROVE  RestoreInv'
<1>1. TypeOK' BY DEF RestoreInv, TypeOK, Ingests, Jobs, server
<1>2. AllCovered' BY DEF RestoreInv, AllCovered, Covered
<1>3. InMemory' BY DEF RestoreInv, InMemory, Stored, server
<1> QED BY <1>1, <1>2, <1>3 DEF RestoreInv

LEMMA IngestIsLoaded == ASSUME RestoreInv, IngestLoads PROVE RestoreInv'
<1>1. /\ ingest = NoIngest
      /\ ingest' = [NoIngest EXCEPT !.pc = "waiting", !.claims = checkpoint.claims]
      /\ UNCHANGED <<bucket, documents, checkpoint, meta, snap, wal, orphaned, server, job,
                     missed, torn, failures>>
  BY DEF IngestLoads, volume, history
<1>2. ingest' = [pc |-> "waiting", claims |-> checkpoint.claims, batch |-> {}]
  BY <1>1 DEF NoIngest
<1>3. ingest' \in Ingests BY <1>2, FilesTyped DEF Ingests, Checkpoint
<1>4. InFlight = {} /\ InFlight' = {} BY <1>1, <1>2, NoIngestType DEF InFlight
<1>5. Held' = Held BY <1>1 DEF Held, Stored
<1>6. SnapshotHasIt => SnapshotHasIt' BY <1>1, <1>2, <1>4 DEF SnapshotHasIt
<1>7. job.pc = "retire" => SnapshotHasIt BY DEF RestoreInv, JobKnowsIt
<1>8. JobKnowsIt' BY <1>1, <1>6, <1>7, JobIsLeftAlone DEF server
<1>9. DocumentsAreHeld' BY <1>1, <1>4, <1>5 DEF RestoreInv, DocumentsAreHeld
<1>10. ClaimsAreSaved' BY <1>1, <1>2, <1>5 DEF RestoreInv, ClaimsAreSaved
<1> QED BY <1>1, <1>3, <1>8, <1>9, <1>10, FilesTyped, IngestWorks

LEMMA IngestHasResumed == ASSUME RestoreInv, IngestResumes PROVE RestoreInv'
<1>1. /\ ingest.pc = "waiting" /\ mindb = "up"
      /\ ingest' = [ingest EXCEPT !.pc = "running", !.claims = @ \cup documents]
      /\ UNCHANGED <<bucket, documents, checkpoint, meta, snap, wal, orphaned, server, job,
                     missed, torn, failures>>
  BY DEF IngestResumes, volume, history
<1>2. /\ ingest' \in Ingests /\ ingest'.pc = "running"
      /\ ingest'.claims = ingest.claims \cup documents
  BY <1>1, FilesTyped DEF Ingests
<1>3. InFlight = {} /\ InFlight' = {} BY <1>1, <1>2 DEF InFlight
<1>4. Held' = Held BY <1>1 DEF Held, Stored
<1>5. job.pc = "idle" BY <1>1, NotBoth
<1>6. JobKnowsIt' BY <1>1, <1>5, JobIsLeftAlone DEF server
<1>7. DocumentsAreHeld /\ DocumentsAreHeld'
  BY <1>1, <1>3, <1>4 DEF RestoreInv, DocumentsAreHeld
<1>8. documents \subseteq Held BY <1>3, <1>7 DEF DocumentsAreHeld
<1>9. ClaimsAreSaved' BY <1>1, <1>2, <1>4, <1>8 DEF RestoreInv, ClaimsAreSaved
<1> QED BY <1>1, <1>2, <1>6, <1>7, <1>9, FilesTyped, IngestWorks

LEMMA IngestHasAppended ==
  ASSUME RestoreInv, NEW batch \in SUBSET Game, IngestAppends(batch) PROVE RestoreInv'
<1>1. /\ ingest.pc = "running" /\ documents' = documents \cup batch
      /\ ingest' = [ingest EXCEPT !.pc = "inserting", !.batch = batch]
      /\ UNCHANGED <<bucket, checkpoint, meta, snap, wal, orphaned, server, job, missed, torn,
                     failures>>
  BY DEF IngestAppends, history
<1>2. /\ ingest' \in Ingests /\ ingest'.pc = "inserting" /\ ingest'.batch = batch
      /\ ingest'.claims = ingest.claims
  BY <1>1, FilesTyped DEF Ingests
<1>3. InFlight = {} /\ InFlight' = batch BY <1>1, <1>2 DEF InFlight
<1>4. Held' = Held BY <1>1 DEF Held, Stored
<1>5. SnapshotHasIt => SnapshotHasIt' BY <1>1, <1>2, <1>3 DEF SnapshotHasIt
<1>6. job.pc = "retire" => SnapshotHasIt BY DEF RestoreInv, JobKnowsIt
<1>7. JobKnowsIt' BY <1>1, <1>5, <1>6, JobIsLeftAlone DEF server
<1>8. DocumentsAreHeld' BY <1>1, <1>3, <1>4 DEF RestoreInv, DocumentsAreHeld
<1>9. ClaimsAreSaved' BY <1>1, <1>2, <1>4 DEF RestoreInv, ClaimsAreSaved
<1>10. documents' \subseteq Game BY <1>1, FilesTyped
<1> QED BY <1>1, <1>2, <1>7, <1>8, <1>9, <1>10, FilesTyped, IngestWorks

(* The segment an insert goes to, before and after.                        *)
LEMMA Inserted ==
  ASSUME NEW batch, Insert(batch)
  PROVE  \E s \in wal : wal' = (wal \ {s}) \cup {[s EXCEPT !.vectors = @ \cup batch]}
BY DEF Insert

LEMMA Longer ==
  ASSUME NEW s \in Segment, NEW batch
  PROVE  LET t == [s EXCEPT !.vectors = @ \cup batch] IN
         /\ t.onto = s.onto /\ t.vectors = s.vectors \cup batch
         /\ batch \subseteq Game => t \in Segment
BY DEF Segment

LEMMA IngestHasInserted == ASSUME RestoreInv, IngestInserts PROVE RestoreInv'
<1> DEFINE batch == ingest.batch
<1>1. /\ ingest.pc = "inserting" /\ Insert(batch) /\ mindb = "up" /\ index' = index \cup batch
      /\ ingest' = [ingest EXCEPT !.pc = "claiming"]
      /\ UNCHANGED <<bucket, documents, checkpoint, meta, snap, orphaned, mindb, saves, job,
                     missed, torn, failures>>
  BY DEF IngestInserts, Insert, history
<1>2. /\ ingest' \in Ingests /\ ingest'.pc = "claiming" /\ ingest'.batch = batch
      /\ ingest'.claims = ingest.claims /\ batch \subseteq Game
  BY <1>1, FilesTyped DEF Ingests
<1>3. PICK s \in wal : wal' = (wal \ {s}) \cup {[s EXCEPT !.vectors = @ \cup batch]}
  BY <1>1, Inserted
<1> HIDE DEF batch
<1> DEFINE t == [s EXCEPT !.vectors = @ \cup batch]
<1>4. s \in Segment /\ wal \subseteq Segment BY FilesTyped
<1>5. t \in Segment /\ t.vectors = s.vectors \cup batch BY <1>2, <1>4, Longer
<1>6. wal' = (wal \ {s}) \cup {t} BY <1>3
<1> HIDE DEF t
<1>7. wal' \subseteq Segment BY <1>4, <1>5, <1>6
<1>8. Stored' = Stored \cup batch
  <2>1. ASSUME NEW g PROVE (\E u \in wal' : g \in u.vectors)
                           <=> (\E u \in wal : g \in u.vectors) \/ g \in batch
    BY <1>5, <1>6
  <2>2. snap' = snap BY <1>1
  <2> QED BY <2>1, <2>2, StoredNow, StoredNext DEF StoredIs
<1>9. Held' = Held \cup batch BY <1>1, <1>8 DEF Held
<1>10. job.pc = "idle" BY <1>1, NotBoth
<1>11. Stored \subseteq index BY <1>1 DEF RestoreInv, InMemory
<1>12. InMemory' BY <1>1, <1>8, <1>11 DEF InMemory
<1>13. TypeOK'
  <2>1. index' \subseteq Game BY <1>1, <1>2 DEF RestoreInv, TypeOK
  <2> QED BY <1>1, <1>2, <1>7, <2>1 DEF RestoreInv, TypeOK, Ingests
<1>14. AllCovered' BY <1>1 DEF RestoreInv, AllCovered, Covered
<1>15. JobKnowsIt' BY <1>1, <1>10 DEF JobKnowsIt
<1>16. DocumentsAreHeld'
  <2>1. InFlight = batch BY <1>1 DEF InFlight, batch
  <2> QED BY <1>1, <1>9, <2>1 DEF RestoreInv, DocumentsAreHeld
<1>17. ClaimsAreSaved' BY <1>1, <1>2, <1>9 DEF RestoreInv, ClaimsAreSaved
<1> QED BY <1>12, <1>13, <1>14, <1>15, <1>16, <1>17 DEF RestoreInv

(* What a write of the checkpoint leaves, whichever it is.                 *)
LEMMA IngestHasWritten ==
  ASSUME RestoreInv, NEW status \in {"pending", "complete"}, NEW claims \in SUBSET Game,
         IngestWrites(status, claims), ~torn => claims \subseteq Held,
         ingest.pc \in {"claiming", "saved"}, ingest' \in Ingests,
         ingest'.pc \in {"idle", "running"}, ingest'.claims \subseteq claims
  PROVE  RestoreInv'
<1>1. /\ checkpoint' = [of |-> 0, status |-> status, claims |-> claims]
      /\ job' = IF job = NoJob THEN job ELSE [job EXCEPT !.beside = TRUE]
      /\ UNCHANGED <<bucket, documents, meta, snap, wal, orphaned, server, missed, torn, failures>>
  BY DEF IngestWrites, history
<1>2. checkpoint' \in Checkpoint /\ checkpoint'.claims = claims
  BY <1>1, Constants DEF Checkpoint
<1>3. /\ job' \in Jobs /\ job'.pc = job.pc /\ job'.gen = job.gen /\ job'.files = job.files
      /\ job.pc # "idle" => job'.beside
  <2>1. CASE job = NoJob BY <1>1, <2>1, NoJobType
  <2>2. CASE job # NoJob BY <1>1, <2>2, FilesTyped DEF Jobs
  <2> QED BY <2>1, <2>2
<1>4. InFlight = {} /\ InFlight' = {} BY DEF InFlight
<1>5. Held' = Held BY <1>1 DEF Held, Stored
<1>6. SnapshotHasIt => SnapshotHasIt' BY <1>1, <1>3, <1>4 DEF SnapshotHasIt
<1>7. job.pc = "retire" => SnapshotHasIt BY DEF RestoreInv, JobKnowsIt
<1>8. JobKnowsIt' BY <1>1, <1>3, <1>6, <1>7, JobIsLeftAlone DEF server
<1>9. DocumentsAreHeld' BY <1>1, <1>4, <1>5 DEF RestoreInv, DocumentsAreHeld
<1>10. ClaimsAreSaved' BY <1>1, <1>2, <1>5 DEF ClaimsAreSaved
<1>11. documents' \subseteq Game /\ missed' \subseteq Game /\ missed \subseteq missed'
  BY <1>1, FilesTyped
<1> QED BY <1>1, <1>2, <1>3, <1>8, <1>9, <1>10, <1>11, IngestWorks

LEMMA IngestHasClaimed == ASSUME RestoreInv, IngestClaims PROVE RestoreInv'
<1> DEFINE claims == ingest.claims \cup ingest.batch
<1>1. /\ ingest.pc = "claiming" /\ IngestWrites("pending", claims)
      /\ ingest' = [ingest EXCEPT !.pc = "running", !.claims = claims, !.batch = {}]
  BY DEF IngestClaims
<1>2. claims \in SUBSET Game BY FilesTyped DEF Ingests
<1>3. ~torn => claims \subseteq Held BY <1>1 DEF RestoreInv, ClaimsAreSaved
<1> HIDE DEF claims
<1>4. ingest' \in Ingests /\ ingest'.pc = "running" /\ ingest'.claims = claims
  BY <1>1, <1>2, FilesTyped DEF Ingests
<1> QED BY <1>1, <1>2, <1>3, <1>4, IngestHasWritten

LEMMA IngestHasSaved == ASSUME RestoreInv, IngestSaves PROVE RestoreInv'
<1>1. ingest.pc = "running" /\ Save /\ ingest' = [ingest EXCEPT !.pc = "saved"]
  BY DEF IngestSaves
<1>2. ingest' \in Ingests /\ ingest'.pc = "saved" /\ ingest'.claims = ingest.claims
  BY <1>1, FilesTyped DEF Ingests
<1>3. InFlight = {} BY <1>1 DEF InFlight
<1> QED BY <1>1, <1>2, <1>3, SavingIsSafe

LEMMA IngestIsComplete == ASSUME RestoreInv, IngestCompletes PROVE RestoreInv'
<1> DEFINE claims == ingest.claims
<1>1. ingest.pc = "saved" /\ IngestWrites("complete", claims) /\ ingest' = NoIngest
  BY DEF IngestCompletes
<1>2. claims \in SUBSET Game BY FilesTyped DEF Ingests
<1>3. ~torn => claims \subseteq Held BY DEF RestoreInv, ClaimsAreSaved
<1> HIDE DEF claims
<1>4. ingest' \in Ingests /\ ingest'.pc = "idle" /\ ingest'.claims = {} BY <1>1, NoIngestType
<1> QED BY <1>1, <1>2, <1>3, <1>4, IngestHasWritten

LEMMA IngestHasEnded == ASSUME RestoreInv, IngestEnds PROVE RestoreInv'
<1>1. /\ ingest' = NoIngest
      /\ missed' = IF ingest.pc = "inserting" THEN missed \cup ingest.batch ELSE missed
      /\ UNCHANGED <<bucket, documents, checkpoint, meta, snap, wal, orphaned, server, job, torn,
                     failures>>
  BY DEF IngestEnds, volume
<1>2. ingest' \in Ingests /\ ingest'.pc = "idle" /\ ingest'.claims = {} BY <1>1, NoIngestType
<1>3. /\ missed' = missed \cup InFlight /\ InFlight' = {} /\ InFlight \subseteq Game
  BY <1>1, <1>2, FilesTyped DEF InFlight, Ingests
<1>4. Held' = Held \cup InFlight BY <1>1, <1>3 DEF Held, Stored
<1>5. SnapshotHasIt => SnapshotHasIt' BY <1>1, <1>2, <1>3 DEF SnapshotHasIt
<1>6. job.pc = "retire" => SnapshotHasIt BY DEF RestoreInv, JobKnowsIt
<1>7. JobKnowsIt' BY <1>1, <1>3, <1>5, <1>6, JobIsLeftAlone DEF server
<1>8. DocumentsAreHeld' BY <1>1, <1>4 DEF RestoreInv, DocumentsAreHeld
<1>9. ClaimsAreSaved' BY <1>1, <1>2, <1>4 DEF RestoreInv, ClaimsAreSaved
<1>10. missed' \subseteq Game /\ missed \subseteq missed' BY <1>3, FilesTyped
<1> QED BY <1>1, <1>2, <1>7, <1>8, <1>9, <1>10, FilesTyped, IngestWorks

LEMMA IngestSteps == ASSUME RestoreInv, Ingest PROVE RestoreInv'
BY IngestIsLoaded, IngestHasResumed, IngestHasAppended, IngestHasInserted, IngestHasClaimed,
   IngestHasSaved, IngestIsComplete, IngestHasEnded DEF Ingest

-----------------------------------------------------------------------------
(* A key is pruned: what is in the generations is as it was.               *)
LEMMA Pruning == ASSUME RestoreInv, PruneKey PROVE RestoreInv'
<1>1. PICK i \in Gen, k \in {ListingOrder[n] : n \in DOMAIN ListingOrder} :
         bucket' = [bucket EXCEPT ![i].keys = @ \ {k}]
  BY DEF PruneKey
<1>2. UNCHANGED <<documents, checkpoint, meta, snap, wal, orphaned, mindb, index, saves, job,
                  ingest, missed, torn, failures>>
  BY DEF PruneKey, volume, server, history
<1>3. bucket \in [Gen -> Content] BY DEF RestoreInv, TypeOK
<1>4. bucket' \in [Gen -> Content] BY <1>1, <1>3 DEF Content
<1>5. \A j \in Gen : /\ bucket'[j].status = bucket[j].status /\ bucket'[j].claims = bucket[j].claims
                     /\ bucket'[j].vectors = bucket[j].vectors
                     /\ bucket'[j].sidecar = bucket[j].sidecar
  BY <1>1, <1>3 DEF Content
<1>6. TypeOK' BY <1>2, <1>4 DEF RestoreInv, TypeOK
<1>7. AllCovered' BY <1>2, <1>5 DEF RestoreInv, AllCovered, Covered
<1>8. JobKnowsIt'
  <2>1. JobKnowsIt BY DEF RestoreInv
  <2>2. CASE job.pc = "idle" BY <1>2, <2>2 DEF JobKnowsIt
  <2>3. CASE job.pc # "idle"
    <3>1. job.gen \in Gen BY <2>1, <2>3 DEF JobKnowsIt
    <3>2. /\ bucket'[job.gen].status = bucket[job.gen].status
          /\ bucket'[job.gen].vectors = bucket[job.gen].vectors
          /\ bucket'[job.gen].sidecar = bucket[job.gen].sidecar
      BY <3>1, <1>5
    <3>3. Manifest(job.gen)' = Manifest(job.gen) BY <1>2, <3>2 DEF Manifest
    <3>4. OfTheGeneration => OfTheGeneration' BY <1>2, <3>2 DEF OfTheGeneration
    <3>5. SnapshotHasIt => SnapshotHasIt' BY <1>2 DEF SnapshotHasIt, InFlight
    <3> QED BY <2>1, <3>1, <3>2, <3>3, <3>4, <3>5, <1>2 DEF JobKnowsIt
  <2> QED BY <2>2, <2>3
<1>9. Held' = Held /\ Stored' = Stored /\ InFlight' = InFlight
  BY <1>2 DEF Held, Stored, InFlight
<1>10. InMemory' BY <1>2, <1>9 DEF RestoreInv, InMemory
<1>11. DocumentsAreHeld' BY <1>2, <1>9 DEF RestoreInv, DocumentsAreHeld
<1>12. ClaimsAreSaved' BY <1>2, <1>9 DEF RestoreInv, ClaimsAreSaved
<1> QED BY <1>6, <1>7, <1>8, <1>10, <1>11, <1>12 DEF RestoreInv

LEMMA InvIsKept == RestoreInv /\ [Next]_vars => RestoreInv'
<1> SUFFICES ASSUME RestoreInv, [Next]_vars PROVE RestoreInv' OBVIOUS
<1>1. CASE \E i \in Gen, force \in BOOLEAN : Start(i, force) BY <1>1, Starting
<1>2. CASE UNCHANGED vars
  <2>1. UNCHANGED Unwritten /\ job' = job /\ UNCHANGED <<volume, ingest, bucket>>
    BY <1>2 DEF vars, Unwritten
  <2>2. job' \in Jobs BY <2>1, FilesTyped
  <2>3. UNCHANGED <<meta, mindb, missed, checkpoint, torn, documents, snap>>
    BY <2>1, Unmoved DEF volume
  <2>4. SnapshotHasIt => SnapshotHasIt' BY <2>1, <2>3 DEF SnapshotHasIt, InFlight
  <2>5. job.pc = "retire" => SnapshotHasIt BY DEF RestoreInv, JobKnowsIt
  <2>6. JobKnowsIt' BY <2>1, <2>3, <2>4, <2>5, JobIsLeftAlone
  <2> QED BY <2>1, <2>2, <2>6, Unmoved, OnlyTheJob
<1> QED BY <1>1, <1>2, JobSteps, Booting, BootingIsRefused, SavingOnTheClock, Stopping,
           IngestSteps, Pruning DEF Next

-----------------------------------------------------------------------------
(* Theorems *)

THEOREM RestoreInvariant == Spec => []RestoreInv
<1>1. Init => RestoreInv BY InvAtFirst
<1>2. RestoreInv /\ [Next]_vars => RestoreInv' BY InvIsKept
<1> QED BY <1>1, <1>2, PTL DEF Spec

(* Every variable keeps its type.                                          *)
THEOREM RestoreTypeCorrect == Spec => []TypeOK
<1>1. RestoreInv => TypeOK BY DEF RestoreInv
<1> QED BY <1>1, RestoreInvariant, PTL

(* Unless a restore was cut short between the checkpoint and the snapshot, *)
(* or ran beside an ingest, a MinDB that is up has what a COMPLETE         *)
(* checkpoint claims, but for games with a document whose vector a failure *)
(* or the restore of an older generation has kept from it; those an ingest *)
(* claims by their documents alone (write_files; run.py:211-212).          *)
THEOREM ClaimsAreHeld == Spec => []ClaimsAreHeldUnlessTorn
<1>1. RestoreInv => ClaimsAreHeldUnlessTorn
  BY DEF RestoreInv, ClaimsAreSaved, InMemory, Held, ClaimsAreHeldUnlessTorn
<1> QED BY <1>1, RestoreInvariant, PTL

(* What changes the snapshot: a restore, or MinDB.                         *)
LEMMA SnapshotsChange ==
  ASSUME RestoreInv, [Next]_vars, snap' # snap
  PROVE  WriteSnap \/ snap'.number \notin Gen
<1>1. CASE SaveOnTheClock \/ IngestSaves BY <1>1, Saving DEF SaveOnTheClock, IngestSaves
<1>2. CASE GetMarker \/ GetManifest \/ GetFile \/ Verify \/ WriteCheckpoint \/ WriteMeta
           \/ RetireSegment \/ Restored
  BY <1>2 DEF GetMarker, GetManifest, GetFile, Verify, WriteCheckpoint, WriteMeta,
              RetireSegment, Restored, Unwritten, volume
<1>3. CASE Killed \/ Boot \/ BootRefused \/ Stop \/ IngestLoads \/ IngestResumes \/ IngestEnds
           \/ PruneKey
  BY <1>3 DEF Killed, Boot, BootRefused, Stop, IngestLoads, IngestResumes, IngestEnds, PruneKey,
              volume
<1>4. CASE \/ IngestInserts \/ IngestClaims \/ IngestCompletes
           \/ \E batch \in SUBSET Game \ {{}} : IngestAppends(batch)
  BY <1>4 DEF IngestInserts, Insert, IngestClaims, IngestCompletes, IngestWrites, IngestAppends
<1>5. CASE \E i \in Gen, force \in BOOLEAN : Start(i, force)
  BY <1>5 DEF Start, Unwritten, volume
<1>6. CASE UNCHANGED vars BY <1>6 DEF vars, volume
<1> QED BY <1>1, <1>2, <1>3, <1>4, <1>5, <1>6 DEF Next, Job, Ingest

(* A snapshot that is restored comes after the checkpoint that describes   *)
(* it, if no ingest has written its own over it, and that is COMPLETE; and *)
(* after the .meta of its generation (write_files, _verify_checkpoint).    *)
THEOREM RestoredSnapshotIsDescribed == Spec => SnapshotIsDescribed
<1> DEFINE A == snap' # snap /\ snap'.number \in Gen =>
                  /\ ~job.beside => /\ checkpoint.of = snap'.number
                                    /\ checkpoint.status = "complete"
                                    /\ checkpoint.claims \subseteq snap'.vectors \cup missed'
                  /\ bucket[snap'.number].sidecar = "own" => meta = snap'.number
<1>1. ASSUME RestoreInv, [Next]_vars PROVE A
  <2>1. SUFFICES ASSUME WriteSnap PROVE A BY <1>1, SnapshotsChange
  <2>2. /\ job.pc = "snap" /\ snap' = [number |-> job.gen, vectors |-> bucket[job.gen].vectors]
        /\ missed \subseteq missed'
    BY <2>1 DEF WriteSnap, PutSnap
  <2>3. /\ ~job.beside => OfTheGeneration
        /\ bucket[job.gen].sidecar = "own" => meta = job.gen
    BY <2>2, <1>1 DEF RestoreInv, JobKnowsIt
  <2> QED BY <2>2, <2>3 DEF OfTheGeneration
<1>2. RestoreInv /\ [Next]_vars => [A]_vars BY <1>1
<1> QED BY <1>2, RestoreInvariant, PTL DEF Spec, SnapshotIsDescribed

(* No vector leaves the log but into a segment, a snapshot or a file that  *)
(* is moved aside (retire_wal, restore.py).                                *)
THEOREM NoLogIsLost == Spec => LogsAreKept
<1> DEFINE Kept(s) ==
             \/ \E t \in wal' : t.onto = s.onto /\ s.vectors \subseteq t.vectors
             \/ s.vectors \subseteq snap'.vectors
             \/ s \in orphaned' /\ (s.onto # snap.number \/ s.onto \in Gen)
           A == \A s \in wal \ wal' : Kept(s)
<1>1. ASSUME RestoreInv, [Next]_vars PROVE A
  <2>1. CASE RetireSegment
    <3>1. PICK s \in wal : wal' = wal \ {s} /\ orphaned' = orphaned \cup {s}
      BY <2>1 DEF RetireSegment
    <3>2. snap.number \in Gen
      BY <2>1, <1>1 DEF RetireSegment, RestoreInv, JobKnowsIt, SnapshotHasIt
    <3> QED BY <3>1, <3>2
  <2>2. CASE SaveOnTheClock \/ IngestSaves
    <3>1. \A s \in wal : s.vectors \subseteq snap'.vectors
      BY <2>2, <1>1, Saving DEF SaveOnTheClock, IngestSaves
    <3> QED BY <3>1
  <2>3. CASE IngestInserts
    <3> DEFINE batch == ingest.batch
    <3>1. Insert(batch) BY <2>3 DEF IngestInserts
    <3> HIDE DEF batch
    <3>2. PICK s \in wal : wal' = (wal \ {s}) \cup {[s EXCEPT !.vectors = @ \cup batch]}
      BY <3>1, Inserted
    <3> DEFINE t == [s EXCEPT !.vectors = @ \cup batch]
    <3>3. s \in Segment BY <1>1, FilesTyped
    <3>4. t.onto = s.onto /\ t.vectors = s.vectors \cup batch BY <3>3, Longer
    <3>5. wal' = (wal \ {s}) \cup {t} BY <3>2
    <3> HIDE DEF t
    <3> QED BY <3>4, <3>5
  <2>4. CASE Boot BY <2>4 DEF Boot
  <2>5. CASE wal' = wal BY <2>5
  <2>6. CASE GetMarker \/ GetManifest \/ GetFile \/ Verify \/ WriteCheckpoint \/ WriteMeta
             \/ WriteSnap \/ Restored
    BY <2>6, <2>5 DEF GetMarker, GetManifest, GetFile, Verify, WriteCheckpoint, WriteMeta,
                      WriteSnap, Restored, Unwritten, volume
  <2>7. CASE Killed \/ BootRefused \/ Stop \/ IngestLoads \/ IngestResumes \/ IngestEnds
             \/ PruneKey
    BY <2>7, <2>5 DEF Killed, BootRefused, Stop, IngestLoads, IngestResumes, IngestEnds, PruneKey,
                      volume
  <2>8. CASE \/ IngestClaims \/ IngestCompletes
             \/ \E batch \in SUBSET Game \ {{}} : IngestAppends(batch)
    BY <2>8, <2>5 DEF IngestClaims, IngestCompletes, IngestWrites, IngestAppends
  <2>9. CASE \E i \in Gen, force \in BOOLEAN : Start(i, force)
    BY <2>9, <2>5 DEF Start, Unwritten, volume
  <2>10. CASE UNCHANGED vars BY <2>10, <2>5 DEF vars, volume
  <2> QED
    BY <1>1, <2>1, <2>2, <2>3, <2>4, <2>6, <2>7, <2>8, <2>9, <2>10 DEF Next, Job, Ingest
<1>2. RestoreInv /\ [Next]_vars => [A]_vars BY <1>1
<1> QED BY <1>2, RestoreInvariant, PTL DEF Spec, LogsAreKept
=============================================================================
