----------------------------- MODULE IngestRun -----------------------------
(***************************************************************************)
(* The nightly ingest (ingest/run.py) and everything it keeps in step:     *)
(* documents.jsonl, names.json, checkpoint.json, the vectors in MinDB and  *)
(* MinDB's snapshot, the copy of the corpus in object storage, the lease.  *)
(*                                                                         *)
(* A run is killed or raises between any two of its writes, MinDB may come *)
(* back with no more than its snapshot, and runs follow one another        *)
(* without end: a pod that ended is scheduled again.                       *)
(*                                                                         *)
(* A game is its appid.  The lease is what IngestLease promises while no   *)
(* write is stale; how far it is kept is the constant LeaseMode.           *)
(***************************************************************************)
EXTENDS Integers, Sequences, FiniteSets

CONSTANTS
  Appid,          \* games in Steam's catalogue
  Run,            \* pods that may run an ingest
  NoRun,          \* nobody holds the lease
  BatchSize,      \* BATCH_SIZE
  MaxUpdates,     \* config.max_updates_per_run
  SnapshotEvery,  \* config.snapshot_every_batches
  LeaseMode,      \* how far the lease keeps runs apart, see LeaseModes
  MaxFailures     \* bound: kills, exceptions and lost logs in a behaviour

(* "none":    no object storage is configured, runs go ahead without one.  *)
(* "kept":    a lease is taken over only from a run that is dead.          *)
(* "overrun": a live run may let its lease expire, and lose it.            *)
LeaseModes == {"none", "kept", "overrun"}

ASSUME AppidAssumption == Appid \subseteq Nat \ {0} /\ IsFiniteSet(Appid)
ASSUME RunAssumption   == NoRun \notin Run
ASSUME ConfigAssumption ==
  /\ BatchSize \in Nat \ {0} /\ MaxUpdates \in Nat /\ SnapshotEvery \in Nat \ {0}
  /\ LeaseMode \in LeaseModes /\ MaxFailures \in Nat

VARIABLES
  \* the corpus volume
  documents,   \* appids with a readable line in documents.jsonl
  surplus,     \* lines of documents.jsonl that are superseded or unreadable
  tornTail,    \* the file ends in a line with no newline after it
  unended,     \* the game of that line, if it can be read and has no other line
  names,       \* names.json: the status of each appid, or "unknown"
  namesTorn,   \* names.json is part of a file, and no JSON
  checkpoint,  \* checkpoint.json
  \* MinDB and object storage
  index,       \* appids with a vector in memory
  snapshot,    \* appids with a vector in mindb.snap
  offsite,     \* appids in the copy of documents.jsonl in object storage
  holder,      \* who holds the ingest lease
  \* each run
  pc,             \* where it is
  claims,         \* checkpoint.appids, as the run has it
  cursor,         \* checkpoint.refresh_after, as it was loaded
  listed,         \* the candidates of the popularity scan
  overFloor,      \* those of them with review_floor reviews or more
  targets,        \* what the plan wants fetched, in order
  start,          \* how many of the targets earlier batches took
  got,            \* the verdict on each game of the batch, Unknown for the others
  plannedCursor,  \* where the refresh rotation will have got to
  batches,        \* batches since the last periodic snapshot
  loaded,         \* what compaction read
  \* history
  glued,       \* appids whose last line ran into another, so that neither can be read
  orphans,     \* documents whose insert never happened, or whose vector MinDB lost
  failures     \* how many failures there have been

volume  == <<documents, surplus, tornTail, unended, names, namesTorn, checkpoint>>
corpus  == <<documents, surplus, tornTail, unended, glued>>
mindb   == <<index, snapshot>>
memory  == <<claims, cursor, listed, overFloor, targets, start, got, plannedCursor, batches,
             loaded>>
history == <<glued, orphans, failures>>
vars    == <<volume, mindb, offsite, holder, pc, memory, history>>

InCorpus == "in_corpus"
Filtered == "filtered_low_reviews"
NotAGame == "not_a_game"
Pending  == "pending_ingest"
Unknown  == "unknown"
Status   == {InCorpus, Filtered, NotAGame, Pending, Unknown}

(* A run inside the try block of main, from the lease to its release. *)
Ingesting == {"resume", "scan", "plan", "fetch", "append", "merge", "insert", "claim",
              "periodic", "renew", "final", "complete", "compact", "replace", "sync"}
PcState   == Ingesting \cup {"idle", "acquire", "release"}
Holding   == Ingesting \cup {"release"}

CheckpointStatus == {"absent", "pending", "complete"}

TypeOK ==
  /\ documents \subseteq Appid /\ glued \subseteq Appid /\ unended \subseteq Appid
  /\ surplus \in 0..Cardinality(Appid)
  /\ tornTail \in BOOLEAN /\ namesTorn \in BOOLEAN
  /\ names \in [Appid -> Status]
  /\ checkpoint \in [status : CheckpointStatus, appids : SUBSET Appid,
                     refreshAfter : Appid \cup {0}]
  /\ index \subseteq Appid /\ snapshot \subseteq Appid
  /\ offsite \subseteq Appid /\ orphans \subseteq Appid
  /\ holder \in Run \cup {NoRun}
  /\ pc \in [Run -> PcState]
  /\ claims \in [Run -> SUBSET Appid]
  /\ cursor \in [Run -> Appid \cup {0}] /\ plannedCursor \in [Run -> Appid \cup {0}]
  /\ listed \in [Run -> SUBSET Appid] /\ overFloor \in [Run -> SUBSET Appid]
  /\ targets \in [Run -> Seq(Appid)] /\ start \in [Run -> Nat]
  /\ got \in [Run -> [Appid -> Status]]
  /\ batches \in [Run -> 0..(SnapshotEvery - 1)]
  /\ loaded \in [Run -> SUBSET Appid]
  /\ failures \in 0..MaxFailures

NothingGot == [a \in Appid |-> Unknown]

Init ==
  /\ documents = {} /\ surplus = 0 /\ glued = {} /\ tornTail = FALSE /\ unended = {}
  /\ names = NothingGot /\ namesTorn = FALSE
  /\ checkpoint = [status |-> "absent", appids |-> {}, refreshAfter |-> 0]
  /\ index = {} /\ snapshot = {} /\ offsite = {} /\ orphans = {}
  /\ holder = NoRun /\ failures = 0
  /\ pc = [r \in Run |-> "idle"]
  /\ claims = [r \in Run |-> {}]
  /\ cursor = [r \in Run |-> 0] /\ plannedCursor = [r \in Run |-> 0]
  /\ listed = [r \in Run |-> {}] /\ overFloor = [r \in Run |-> {}]
  /\ targets = [r \in Run |-> <<>>] /\ start = [r \in Run |-> 0]
  /\ got = [r \in Run |-> NothingGot]
  /\ batches = [r \in Run |-> 0]
  /\ loaded = [r \in Run |-> {}]

Failing == failures < MaxFailures /\ failures' = failures + 1

Step(r, from, to) == pc[r] = from /\ pc' = [pc EXCEPT ![r] = to]

(* What a run has in memory is of no use to it from here on. *)
Forget(r) ==
  /\ claims' = [claims EXCEPT ![r] = {}]
  /\ cursor' = [cursor EXCEPT ![r] = 0]
  /\ plannedCursor' = [plannedCursor EXCEPT ![r] = 0]
  /\ listed' = [listed EXCEPT ![r] = {}]
  /\ overFloor' = [overFloor EXCEPT ![r] = {}]
  /\ targets' = [targets EXCEPT ![r] = <<>>]
  /\ start' = [start EXCEPT ![r] = 0]
  /\ got' = [got EXCEPT ![r] = NothingGot]
  /\ batches' = [batches EXCEPT ![r] = 0]
  /\ loaded' = [loaded EXCEPT ![r] = {}]

(* The process is gone, and its memory with it. *)
Gone(r) == pc' = [pc EXCEPT ![r] = "idle"] /\ Forget(r)

-----------------------------------------------------------------------------
(* The lease, as acquire, renew and release use it *)

(* Mutant: any lease may be taken, as if every one had expired.            *)
MayTakeAny(r) == TRUE

(* Free, ours (a dead attempt of this pod), or expired. *)
MayTake(r) ==
  \/ holder \in {NoRun, r}
  \/ \E q \in Run : holder = q /\ pc[q] \notin Holding
  \/ LeaseMode = "overrun"

(* renew fails only when another run's token is in the lease. *)
LeaseLost(r) == LeaseMode # "none" /\ holder \notin {NoRun, r}

(* A renewal that succeeds writes the lease again. *)
Renewing(r) == holder' = IF LeaseMode = "none" \/ LeaseLost(r) THEN holder ELSE r

-----------------------------------------------------------------------------
(* main, up to the plan *)

(* Mutant: a run starts from a new checkpoint and inherits nothing.        *)
LoadNothing(r) ==
  /\ Step(r, "idle", "acquire")
  /\ UNCHANGED <<volume, mindb, offsite, holder, memory, history>>

(* Checkpoint.load, before the lease: what is "recorded" may be old by the *)
(* time the run holds it.                                                  *)
LoadCheckpoint(r) ==
  /\ Step(r, "idle", "acquire")
  /\ claims' = [claims EXCEPT ![r] = checkpoint.appids]
  /\ cursor' = [cursor EXCEPT ![r] = checkpoint.refreshAfter]
  /\ UNCHANGED <<volume, mindb, offsite, holder, history,
                 listed, overFloor, targets, start, got, plannedCursor, batches, loaded>>

AcquireLease(r) ==
  /\ Step(r, "acquire", "resume")
  /\ LeaseMode # "none" => MayTake(r)
  /\ holder' = IF LeaseMode = "none" THEN holder ELSE r
  /\ UNCHANGED <<volume, mindb, offsite, memory, history>>

(* LeaseHeld: exit 0 and leave everything alone. *)
StandDown(r) ==
  /\ pc[r] = "acquire"
  /\ LeaseMode # "none" /\ holder \notin {NoRun, r}
  /\ Gone(r)
  /\ UNCHANGED <<volume, mindb, offsite, holder, history>>

(* Mutant: resumption trusts the checkpoint, and does not look at the      *)
(* corpus.                                                                 *)
ResumeFromCheckpoint(r) ==
  /\ Step(r, "resume", "scan")
  /\ UNCHANGED <<volume, mindb, offsite, holder, memory, history>>

(* Resumption trusts the union of what was claimed and what exists. *)
Resume(r) ==
  /\ Step(r, "resume", "scan")
  /\ claims' = [claims EXCEPT ![r] = @ \cup documents]
  /\ UNCHANGED <<volume, mindb, offsite, holder, history,
                 cursor, listed, overFloor, targets, start, got, plannedCursor, batches, loaded>>

(* MinDB was started with other dimensions than the model has: return 1,   *)
(* and main goes on to the sync.                                           *)
WrongDimensions(r) ==
  /\ Step(r, "resume", "sync")
  /\ Forget(r)
  /\ UNCHANGED <<volume, mindb, offsite, holder, history>>

(* fetch_popular: any part of the catalogue may be listed (--limit, a scan *)
(* stopped by a lost lease), with any review counts.                       *)
Scan(r) ==
  /\ Step(r, "scan", "plan")
  /\ \E candidates \in SUBSET Appid : \E popular \in SUBSET candidates :
       /\ listed' = [listed EXCEPT ![r] = candidates]
       /\ overFloor' = [overFloor EXCEPT ![r] = popular]
  /\ Renewing(r)
  /\ UNCHANGED <<volume, mindb, offsite, history,
                 claims, cursor, targets, start, got, plannedCursor, batches, loaded>>

-----------------------------------------------------------------------------
(* plan *)

BelowFloor == {a \in Appid : names[a] = Filtered}

(* Never seen, or filtered once and over the floor now. *)
Fresh(candidates, popular, seen) ==
  {a \in candidates : a \notin seen \/ (a \in BelowFloor /\ a \in popular)}

Stale(candidates) == {a \in candidates : a \in documents /\ a \notin BelowFloor}

(* Mutant: every night the refreshes begin with the same game.             *)
BeforeAsListed(a, b, after) == a < b

(* The rotation: appid order, starting after the cursor and wrapping. *)
Before(a, b, after) == IF (a > after) = (b > after) THEN a < b ELSE a > after

(* Who is refreshed before a game.                                         *)
Ahead(stale, a, after) == {b \in stale : Before(b, a, after)}

Refresh(candidates, after) ==
  LET stale == Stale(candidates)
  IN  {a \in stale : Cardinality(Ahead(stale, a, after)) < MaxUpdates}

(* The sequences that list S once. *)
Orderings(S) ==
  {s \in [1..Cardinality(S) -> S] : \A i, j \in DOMAIN s : i # j => s[i] # s[j]}

(* New games in popularity order, which is any order, then refreshes in    *)
(* rotation; the cursor will stand on the last one.                        *)
Plan(r) ==
  /\ Step(r, "plan", "fetch")
  /\ ~namesTorn
  /\ \E new \in Orderings(Fresh(listed[r], overFloor[r], claims[r])),
        old \in Orderings(Refresh(listed[r], cursor[r])) :
       /\ \A i, j \in DOMAIN old : i < j => Before(old[i], old[j], cursor[r])
       /\ targets' = [targets EXCEPT ![r] = new \o old]
       /\ plannedCursor' = [plannedCursor EXCEPT ![r] =
                              IF old = <<>> THEN cursor[r] ELSE old[Len(old)]]
  /\ listed' = [listed EXCEPT ![r] = {}]
  /\ UNCHANGED <<volume, mindb, offsite, holder, history,
                 claims, cursor, overFloor, start, got, batches, loaded>>

-----------------------------------------------------------------------------
(* the batch loop *)

(* targets[start : start + BATCH_SIZE] *)
Batch(r) ==
  {targets[r][i] : i \in {j \in DOMAIN targets[r] : start[r] < j /\ j <= start[r] + BatchSize}}

(* What fetch_one may answer for a game: too few reviews, a document, not  *)
(* a game, or nothing at all (FetchFailed).                                *)
Verdicts(popular, a) == IF a \in popular THEN {InCorpus, NotAGame, Pending} ELSE {Filtered}

Fetch(r) ==
  /\ Step(r, "fetch", "append")
  /\ start[r] < Len(targets[r])
  /\ \E answers \in [Appid -> Status] :
       /\ \A a \in Appid :
            answers[a] \in IF a \in Batch(r) THEN Verdicts(overFloor[r], a) ELSE {Unknown}
       /\ got' = [got EXCEPT ![r] = answers]
  /\ start' = [start EXCEPT ![r] = @ + BatchSize]
  /\ UNCHANGED <<volume, mindb, offsite, holder, history,
                 claims, cursor, listed, overFloor, targets, plannedCursor, batches, loaded>>

NoMoreTargets(r) ==
  /\ Step(r, "fetch", "final")
  /\ start[r] >= Len(targets[r])
  /\ UNCHANGED <<volume, mindb, offsite, holder, memory, history>>

Documents(r) == {a \in Appid : got[r][a] = InCorpus}

(* Whether to compact depends on no count of surplus lines above this one. *)
Capped(n) == IF n > Cardinality(Appid) THEN Cardinality(Appid) ELSE n

(* A batch is in no particular order, so the line that runs into a file    *)
(* with no newline at its end may be any of those that are whole.          *)
Spoilt(whole, cut) ==
  LET lines == IF whole # {} THEN whole ELSE cut
  IN  IF tornTail /\ lines # {} THEN {{first} : first \in lines} ELSE {{}}

(* The lines of whole are written with their newlines; then that of cut,   *)
(* which has all but its newline and can be read, or some part of one that *)
(* cannot (torn).  The first of it runs into a file with no newline at its *)
(* end, and what was there can be read no more than what ran into it.      *)
Write(whole, cut, torn) ==
  \E spoilt \in Spoilt(whole, cut) :
    LET readable == (whole \cup cut) \ spoilt
        kept     == documents \ unended
    IN  /\ documents' = kept \cup readable
        /\ surplus' = Capped(surplus + Cardinality(readable \cap kept) + Cardinality(unended)
                              + (IF torn /\ (tornTail => whole # {}) THEN 1 ELSE 0))
        /\ tornTail' = (torn \/ cut # {})
        /\ unended' = (cut \ spoilt) \ kept
        /\ glued' = (glued \cup unended \cup spoilt) \ documents'

AppendDocuments(r) ==
  /\ Step(r, "append", "merge")
  /\ IF Documents(r) = {} THEN UNCHANGED corpus ELSE Write(Documents(r), {}, FALSE)
  /\ UNCHANGED <<names, namesTorn, checkpoint, mindb, offsite, holder, memory, orphans, failures>>

(* Killed while writing: the last line written may lack its newline or     *)
(* some more of its end.                                                   *)
KilledInAppend(r) ==
  /\ pc[r] = "append"
  /\ \E whole \in SUBSET Documents(r), torn \in BOOLEAN :
     \E cut \in {{}} \cup {{a} : a \in Documents(r) \ whole} :
       /\ whole # {} \/ cut # {} \/ torn
       /\ torn => cut = {} /\ whole # Documents(r)
       /\ Write(whole, cut, torn)
       /\ orphans' = orphans \cup ((whole \cup cut) \ index)
  /\ Gone(r)
  /\ Failing
  /\ UNCHANGED <<names, namesTorn, checkpoint, mindb, offsite, holder>>

(* Mutant: a game with no document gets no entry.                          *)
MergeDocumentsOnly(r) ==
  /\ Step(r, "merge", "insert")
  /\ ~namesTorn
  /\ names' = [a \in Appid |-> IF a \in Documents(r) THEN InCorpus ELSE names[a]]
  /\ UNCHANGED <<corpus, namesTorn, checkpoint, mindb, offsite, holder, memory, orphans, failures>>

(* Mutant: every game that was looked at is entered as usable.             *)
MergeAllAsUsable(r) ==
  /\ Step(r, "merge", "insert")
  /\ ~namesTorn
  /\ names' = [a \in Appid |-> IF got[r][a] = Unknown THEN names[a] ELSE InCorpus]
  /\ UNCHANGED <<corpus, namesTorn, checkpoint, mindb, offsite, holder, memory, orphans, failures>>

(* NameIndex.merge: newest wins. *)
MergeNames(r) ==
  /\ Step(r, "merge", "insert")
  /\ ~namesTorn
  /\ names' = [a \in Appid |-> IF got[r][a] = Unknown THEN names[a] ELSE got[r][a]]
  /\ UNCHANGED <<corpus, namesTorn, checkpoint, mindb, offsite, holder, memory, orphans, failures>>

(* NameIndex.dump truncates the file and writes it again, in place. *)
KilledInMerge(r) ==
  /\ pc[r] = "merge"
  /\ namesTorn' = TRUE
  /\ orphans' = orphans \cup (Documents(r) \ index)
  /\ Gone(r)
  /\ Failing
  /\ UNCHANGED <<corpus, names, checkpoint, mindb, offsite, holder>>

(* Mutant: a vector for every game of the batch, document or not.          *)
InsertEveryEntry(r) ==
  /\ Step(r, "insert", "claim")
  /\ index' = index \cup {a \in Appid : got[r][a] # Unknown}
  /\ orphans' = orphans \ Documents(r)
  /\ UNCHANGED <<volume, snapshot, offsite, holder, memory, glued, failures>>

(* Mutant: games already claimed are taken to have their vector.           *)
InsertUnclaimed(r) ==
  /\ Step(r, "insert", "claim")
  /\ index' = index \cup (Documents(r) \ claims[r])
  /\ orphans' = orphans \ Documents(r)
  /\ UNCHANGED <<volume, snapshot, offsite, holder, memory, glued, failures>>

(* Upsert: a vector for every document of the batch. *)
Insert(r) ==
  /\ Step(r, "insert", "claim")
  /\ index' = index \cup Documents(r)
  /\ orphans' = orphans \ Documents(r)
  /\ UNCHANGED <<volume, snapshot, offsite, holder, memory, glued, failures>>

(* Everything Steam gave an answer for. *)
Settled(r) == {a \in Appid : got[r][a] \notin {Unknown, Pending}}

(* Mutant: the count of batches never wraps.                               *)
CountOn(n) == n + 1

(* batch_number, of which only its place between two snapshots matters.    *)
CountBatch(n) == (n + 1) % SnapshotEvery

(* mark_pending, then the periodic snapshot every SnapshotEvery batches. *)
MarkPending(r) ==
  /\ Step(r, "claim", IF CountBatch(batches[r]) = 0 THEN "periodic" ELSE "renew")
  /\ claims' = [claims EXCEPT ![r] = @ \cup Settled(r)]
  /\ checkpoint' = [status |-> "pending", appids |-> claims[r] \cup Settled(r),
                    refreshAfter |-> cursor[r]]
  /\ batches' = [batches EXCEPT ![r] = CountBatch(@)]
  /\ got' = [got EXCEPT ![r] = NothingGot]
  /\ UNCHANGED <<corpus, names, namesTorn, mindb, offsite, holder, orphans, failures,
                 cursor, listed, overFloor, targets, start, plannedCursor, loaded>>

(* Its result is logged and nothing else. *)
PeriodicSnapshot(r) ==
  /\ Step(r, "periodic", "renew")
  /\ snapshot' \in {index, snapshot}
  /\ UNCHANGED <<volume, index, offsite, holder, memory, history>>

(* A run that lost its lease leaves the loop with targets still to fetch. *)
Renew(r) ==
  /\ Step(r, "renew", IF LeaseLost(r) THEN "final" ELSE "fetch")
  /\ Renewing(r)
  /\ UNCHANGED <<volume, mindb, offsite, memory, history>>

-----------------------------------------------------------------------------
(* after the loop *)

FinalSnapshot(r) ==
  /\ Step(r, "final", "complete")
  /\ snapshot' = index
  /\ UNCHANGED <<volume, index, offsite, holder, memory, history>>

(* Mutant: a snapshot that failed counts as one that was taken.            *)
FinalSnapshotIgnored(r) ==
  /\ Step(r, "final", "complete")
  /\ UNCHANGED <<volume, mindb, offsite, holder, memory, history>>

(* Return 1 with the checkpoint left pending; main goes on to the sync. *)
FinalSnapshotFails(r) ==
  /\ Step(r, "final", "sync")
  /\ Forget(r)
  /\ UNCHANGED <<volume, mindb, offsite, holder, history>>

MarkComplete(r) ==
  /\ Step(r, "complete", "compact")
  /\ checkpoint' = [status |-> "complete", appids |-> claims[r], refreshAfter |-> plannedCursor[r]]
  /\ Forget(r)
  /\ UNCHANGED <<corpus, names, namesTorn, mindb, offsite, holder, orphans, failures>>

(* lines > unique * COMPACT_RATIO, with the ratio 1.5 *)
CompactionIsDue == 2 * surplus > Cardinality(documents)

NoCompaction(r) ==
  /\ Step(r, "compact", "sync")
  /\ ~CompactionIsDue
  /\ UNCHANGED <<volume, mindb, offsite, holder, memory, history>>

(* Mutant: compaction keeps only the documents that have vectors.          *)
CompactLoadIndexed(r) ==
  /\ Step(r, "compact", "replace")
  /\ CompactionIsDue
  /\ loaded' = [loaded EXCEPT ![r] = documents \cap index]
  /\ UNCHANGED <<volume, mindb, offsite, holder, history,
                 claims, cursor, listed, overFloor, targets, start, got, plannedCursor, batches>>

(* compact reads the file and replaces it by what it read, torn lines left *)
(* out.                                                                    *)
CompactLoad(r) ==
  /\ Step(r, "compact", "replace")
  /\ CompactionIsDue
  /\ loaded' = [loaded EXCEPT ![r] = documents]
  /\ UNCHANGED <<volume, mindb, offsite, holder, history,
                 claims, cursor, listed, overFloor, targets, start, got, plannedCursor, batches>>

CompactReplace(r) ==
  /\ Step(r, "replace", "sync")
  /\ documents' = loaded[r]
  /\ surplus' = 0
  /\ tornTail' = FALSE /\ unended' = {}
  /\ loaded' = [loaded EXCEPT ![r] = {}]
  /\ UNCHANGED <<names, namesTorn, checkpoint, mindb, offsite, holder, history,
                 claims, cursor, listed, overFloor, targets, start, got, plannedCursor, batches>>

(* backup.sync_documents: the whole file, where there is an object store.  *)
SyncDocuments(r) ==
  /\ Step(r, "sync", "release")
  /\ offsite' = IF LeaseMode = "none" THEN offsite ELSE documents
  /\ UNCHANGED <<volume, mindb, holder, memory, history>>

Release(r) ==
  /\ pc[r] = "release"
  /\ Gone(r)
  /\ holder' = IF LeaseMode # "none" /\ holder = r THEN NoRun ELSE holder
  /\ UNCHANGED <<volume, mindb, offsite, history>>

-----------------------------------------------------------------------------
(* failure *)

(* Documents on disk whose insert this run will not reach. *)
NotInserted(r) == IF pc[r] \in {"merge", "insert"} THEN Documents(r) \ index ELSE {}

(* An exception passes the sync by and reaches the finally clause. *)
Unwind(r) ==
  /\ pc' = [pc EXCEPT ![r] = "release"]
  /\ orphans' = orphans \cup NotInserted(r)
  /\ Forget(r)
  /\ UNCHANGED <<volume, mindb, offsite, holder, glued>>

(* Any call may raise: Steam, MinDB, R2, the disk. *)
Raise(r) == pc[r] \in Ingesting /\ Unwind(r) /\ Failing

(* names.json does not parse, and does not the next time either. *)
NamesUnreadable(r) ==
  /\ pc[r] \in {"plan", "merge"}
  /\ namesTorn
  /\ Unwind(r)
  /\ UNCHANGED failures

(* OOM kill, eviction, node loss: nothing is released. *)
Kill(r) ==
  /\ pc[r] # "idle"
  /\ orphans' = orphans \cup NotInserted(r)
  /\ Gone(r)
  /\ Failing
  /\ UNCHANGED <<volume, mindb, offsite, holder, glued>>

(* MinDB snapshots on its own clock too. *)
MinDBSnapshots ==
  /\ snapshot' = index
  /\ UNCHANGED <<volume, index, offsite, holder, pc, memory, history>>

(* MinDB comes back without its write-ahead log: with the snapshot alone.  *)
MinDBLosesLog ==
  /\ index' = snapshot
  /\ orphans' = orphans \cup (index \ snapshot)
  /\ Failing
  /\ UNCHANGED <<volume, snapshot, offsite, holder, pc, memory, glued>>

-----------------------------------------------------------------------------
Ingest(r) ==
  \/ LoadCheckpoint(r) \/ AcquireLease(r) \/ StandDown(r) \/ Resume(r) \/ WrongDimensions(r)
  \/ Scan(r) \/ Plan(r)
  \/ Fetch(r) \/ NoMoreTargets(r) \/ AppendDocuments(r) \/ MergeNames(r) \/ Insert(r)
  \/ MarkPending(r) \/ PeriodicSnapshot(r) \/ Renew(r) \/ FinalSnapshot(r) \/ FinalSnapshotFails(r)
  \/ MarkComplete(r) \/ NoCompaction(r) \/ CompactLoad(r) \/ CompactReplace(r)
  \/ SyncDocuments(r) \/ Release(r)

Fail(r) == Raise(r) \/ NamesUnreadable(r) \/ Kill(r) \/ KilledInAppend(r) \/ KilledInMerge(r)

Next ==
  \/ \E r \in Run : Ingest(r) \/ Fail(r)
  \/ MinDBSnapshots
  \/ MinDBLosesLog

Spec == Init /\ [][Next]_vars

(* A run that is not killed goes on to its end, and another follows it.    *)
FairSpec == Spec /\ \A r \in Run : WF_vars(Ingest(r))

-----------------------------------------------------------------------------
(* Properties *)

(* The corpus can run ahead of the vectors and never behind: every vector, *)
(* in memory or in the snapshot, has its document, unless that document's  *)
(* line is one of two that ran together (D13, run.py "Corpus first,        *)
(* always").                                                               *)
VectorsHaveDocuments == index \cup snapshot \subseteq documents \cup glued

(* A game the name index calls usable has a document to recommend by.      *)
UsableNamesHaveDocuments ==
  ~namesTorn => \A a \in Appid : names[a] = InCorpus => a \in documents \cup glued

(* Whatever the checkpoint claims, so that no run fetches it again, is     *)
(* either a document, one whose line ran into another, or a game whose     *)
(* absence the name index can explain.                                     *)
ClaimsAreExplained ==
  ~namesTorn => \A a \in checkpoint.appids :
    a \in documents \cup glued \/ names[a] \in {Filtered, NotAGame, Pending}

(* A document without a vector is one a run has appended and is about to   *)
(* insert, or an orphan of a run that died in between or of a lost log.    *)
DocumentsReachTheIndex ==
  documents \subseteq index \cup orphans \cup UNION {NotInserted(r) : r \in Run}

(* The one thing the document store must never do is lose a document.  It  *)
(* loses one where a line that a kill left without its newline runs into   *)
(* the next, and nowhere else; nor does the push of a run take another out *)
(* of the copy in object storage.                                          *)
DocumentsNeverLost ==
  [][documents \subseteq documents' \cup glued' /\ offsite \subseteq offsite' \cup glued']_vars

(* COMPLETE is written only over a snapshot that holds a vector for every  *)
(* document, orphans excepted (ADR-0002: checkpoint <= snapshot).          *)
CompleteIsSnapshotted ==
  [][\A r \in Run : MarkComplete(r) => documents \subseteq snapshot \cup orphans]_vars

(* What was seen stays seen: no run takes back a verdict another run left  *)
(* in the checkpoint ("what stops the next run paying for a fetch").       *)
ClaimsNeverShrink == [][checkpoint.appids \subseteq checkpoint'.appids]_vars

(* The checkpoint lags the corpus, and every write of it catches up: it    *)
(* then claims every document there is, those a run left behind that died  *)
(* between appending and checkpointing as well (run.py:208-213).           *)
CheckpointsCatchUp ==
  [][checkpoint' # checkpoint => documents \subseteq checkpoint'.appids]_vars

(* A plan fetches no game twice, though it is put together from what was   *)
(* seen when the run resumed and what is documented after the scan         *)
(* (run.py:213, 222-225).                                                  *)
PlansListEachOnce ==
  [][\A r \in Run : pc[r] = "plan" /\ pc'[r] = "fetch" =>
       \A i, j \in DOMAIN targets'[r] : targets'[r][i] = targets'[r][j] => i = j]_vars

(* A game that is due and has to wait moves up the queue every night by    *)
(* the refreshes of the night, so its turn comes in at most as many nights *)
(* as the queue is long: the rotation, a night at a time (D65).            *)
TheQueueMovesUp ==
  [][\A r \in Run : pc[r] = "plan" /\ pc'[r] = "fetch" =>
       LET stale == Stale(listed[r])
       IN  \A a \in stale \ Refresh(listed[r], cursor[r]) :
             Cardinality(Ahead(stale, a, cursor[r])) =
               Cardinality(Ahead(stale, a, plannedCursor'[r])) + MaxUpdates]_vars

(* The refreshes walk the whole corpus over successive nights (D65): a     *)
(* document that stays listed is fetched again and again, whatever is new  *)
(* and however few refreshes a night has, as long as runs complete and     *)
(* none is cut short by a lease it lost.                                   *)
CutShort == \E r \in Run : pc[r] = "renew" /\ LeaseLost(r)
RotationComesRound ==
  \A a \in Appid :
    /\ <>[](a \in documents \ BelowFloor)
    /\ <>[](\A r \in Run : pc[r] = "plan" => a \in listed[r])
    /\ <>[]~CutShort
    /\ []<>(\E r \in Run : pc[r] = "complete")
    => []<>(\E r \in Run : pc[r] = "append" /\ got[r][a] # Unknown)

-----------------------------------------------------------------------------
(* The inductive invariant behind these properties, where the lease keeps  *)
(* runs apart                                                              *)

(* Whoever is inside the try block of main has the lease. *)
HolderKnowsIt == \A r \in Run : pc[r] \in Holding => holder = r

(* Nobody appends between the two halves of a compaction. *)
CompactionIsCurrent == \A r \in Run : pc[r] = "replace" => loaded[r] = documents

(* The documents of a batch are appended before anything else is done.     *)
BatchIsAppended ==
  \A r \in Run : pc[r] \in {"merge", "insert"} => Documents(r) \subseteq documents \cup glued

(* Then names.json has their verdicts. *)
BatchIsNamed ==
  ~namesTorn => \A r \in Run : pc[r] \in {"insert", "claim"} =>
    \A a \in Appid : got[r][a] # Unknown => names[a] # Unknown

(* What a run has in memory as seen can be explained, and goes into the    *)
(* checkpoint later.                                                       *)
MemoryIsExplained ==
  ~namesTorn => \A r \in Run : \A a \in claims[r] :
    a \in documents \cup glued \/ names[a] # Unknown

(* Between the final snapshot and the COMPLETE checkpoint nothing is added *)
(* that the snapshot has not got.                                          *)
SnapshotIsCurrent ==
  \A r \in Run : pc[r] = "complete" => documents \subseteq snapshot \cup orphans

(* From the resumption to the last checkpoint, a run knows of every        *)
(* document, if only by the batch it has in hand.                          *)
Appended == {"merge", "insert", "claim"}
Seeing == Appended \cup {"scan", "plan", "fetch", "append", "periodic", "renew", "final", "complete"}
MemoryCoversTheCorpus ==
  \A r \in Run : pc[r] \in Seeing =>
    documents \subseteq claims[r] \cup (IF pc[r] \in Appended THEN Documents(r) ELSE {})

(* Object storage has no document that the volume has lost in any other    *)
(* way.                                                                    *)
CopyIsNoNewer == offsite \subseteq documents \cup glued

IngestInv ==
  /\ TypeOK
  /\ HolderKnowsIt
  /\ CompactionIsCurrent
  /\ VectorsHaveDocuments
  /\ BatchIsAppended
  /\ UsableNamesHaveDocuments
  /\ BatchIsNamed
  /\ MemoryIsExplained
  /\ ClaimsAreExplained
  /\ DocumentsReachTheIndex
  /\ SnapshotIsCurrent
  /\ MemoryCoversTheCorpus
  /\ CopyIsNoNewer

(* Lease or no lease: what compaction has read and is going to write back  *)
(* has reached the index as well, whoever has written to the file since.   *)
Reached(a) == a \in index \cup orphans \/ \E q \in Run : a \in NotInserted(q)

ReachInv ==
  /\ TypeOK
  /\ DocumentsReachTheIndex
  /\ \A r \in Run : pc[r] = "replace" => \A a \in loaded[r] : Reached(a)

(* Where no two runs are alive at a time, lease or no lease: what a run    *)
(* remembers of the checkpoint is all there is in it.                      *)
OneAtATime == \A q, r \in Run : pc[q] # "idle" /\ pc[r] # "idle" => q = r

MemoryIsCurrent ==
  \A r \in Run : pc[r] \in Seeing \cup {"acquire", "resume"} => checkpoint.appids \subseteq claims[r]

-----------------------------------------------------------------------------
(* What a comment says and the code does not do *)

(* An outage is never a permanent verdict: what the checkpoint claims has  *)
(* a document or a verdict, and a game Steam did not answer for has        *)
(* neither.                                                                *)
OutageIsNoVerdict ==
  \A a \in checkpoint.appids : a \in documents \/ names[a] # Pending
=============================================================================
