-------------------------- MODULE IngestRun_proofs --------------------------
(***************************************************************************)
(* For every catalogue, every set of pods and every batch size: where the  *)
(* lease keeps runs apart, kills, exceptions and lost logs never leave a   *)
(* vector or a claim without its document, and never lose a document.      *)
(***************************************************************************)
EXTENDS IngestRun, FiniteSetTheorems, FunctionTheorems, WellFoundedInduction, TLAPS

USE AppidAssumption, RunAssumption, ConfigAssumption

(* Taking the remainder by a positive number stays below it.               *)
LEMMA RemainderIsBelow ==
  ASSUME NEW n \in Nat, NEW k \in Nat \ {0}
  PROVE  n % k \in 0..(k - 1)
  OBVIOUS

(* A part of the catalogue has at most as many games as the catalogue.     *)
LEMMA PartsAreSmaller ==
  ASSUME NEW S \in SUBSET Appid
  PROVE  Cardinality(S) \in Nat /\ Cardinality(Appid) \in Nat
  <1>1. IsFiniteSet(S)
    BY FS_Subset
  <1>2. QED
    BY <1>1, FS_CardinalityType

(* An ordering of a part of the catalogue is a sequence of games.          *)
LEMMA OrderingsAreSequences ==
  ASSUME NEW S \in SUBSET Appid, NEW s \in Orderings(S)
  PROVE  s \in Seq(Appid)
  <1>1. Cardinality(S) \in Nat
    BY PartsAreSmaller
  <1>2. s \in [1..Cardinality(S) -> Appid]
    BY DEF Orderings
  <1>3. QED
    BY <1>1, <1>2

(* The first state is typed.                                               *)
LEMMA InitHasType == Init => TypeOK
  <1> SUFFICES ASSUME Init PROVE TypeOK
    OBVIOUS
  <1> USE DEF Init
  <1>1. surplus \in 0..Cardinality(Appid)
    BY PartsAreSmaller
  <1>2. NothingGot \in [Appid -> Status]
    BY DEF NothingGot, Status
  <1>3. checkpoint \in [status : CheckpointStatus, appids : SUBSET Appid,
                        refreshAfter : Appid \cup {0}]
    BY DEF CheckpointStatus
  <1>4. targets \in [Run -> Seq(Appid)] /\ start \in [Run -> Nat]
    OBVIOUS
  <1>5. pc \in [Run -> PcState] /\ got \in [Run -> [Appid -> Status]]
    BY <1>2 DEF PcState
  <1>6. /\ claims \in [Run -> SUBSET Appid] /\ loaded \in [Run -> SUBSET Appid]
        /\ listed \in [Run -> SUBSET Appid] /\ overFloor \in [Run -> SUBSET Appid]
        /\ cursor \in [Run -> Appid \cup {0}] /\ plannedCursor \in [Run -> Appid \cup {0}]
    OBVIOUS
  <1>7. failures \in 0..MaxFailures /\ batches \in [Run -> 0..(SnapshotEvery - 1)]
    OBVIOUS
  <1>8. QED
    BY <1>1, <1>2, <1>3, <1>4, <1>5, <1>6, <1>7 DEF TypeOK

(* What a run forgets was typed and is typed.                              *)
LEMMA ForgettingKeepsType ==
  ASSUME TypeOK, NEW r \in Run, Forget(r)
  PROVE  /\ claims' \in [Run -> SUBSET Appid]
         /\ cursor' \in [Run -> Appid \cup {0}] /\ plannedCursor' \in [Run -> Appid \cup {0}]
         /\ listed' \in [Run -> SUBSET Appid] /\ overFloor' \in [Run -> SUBSET Appid]
         /\ targets' \in [Run -> Seq(Appid)] /\ start' \in [Run -> Nat]
         /\ got' \in [Run -> [Appid -> Status]]
         /\ batches' \in [Run -> 0..(SnapshotEvery - 1)]
         /\ loaded' \in [Run -> SUBSET Appid]
  <1>1. NothingGot \in [Appid -> Status]
    BY DEF NothingGot, Status
  <1>2. got' \in [Run -> [Appid -> Status]]
    BY <1>1 DEF Forget, TypeOK
  <1>3. targets' \in [Run -> Seq(Appid)]
    BY DEF Forget, TypeOK
  <1>4. QED
    BY <1>2, <1>3 DEF Forget, TypeOK

(* The line that runs into another is one of those written.                *)
LEMMA SpoiltIsWritten ==
  ASSUME NEW whole, NEW cut, NEW spoilt \in Spoilt(whole, cut)
  PROVE  spoilt \subseteq whole \cup cut
  BY DEF Spoilt

(* Writing lines keeps the corpus typed.                                   *)
LEMMA WritingKeepsType ==
  ASSUME TypeOK, NEW whole \in SUBSET Appid, NEW cut \in SUBSET Appid, NEW torn \in BOOLEAN,
         Write(whole, cut, torn)
  PROVE  /\ documents' \in SUBSET Appid /\ glued' \in SUBSET Appid /\ unended' \in SUBSET Appid
         /\ surplus' \in 0..Cardinality(Appid) /\ tornTail' \in BOOLEAN
  <1> DEFINE shadows(spoilt) == ((whole \cup cut) \ spoilt) \cap (documents \ unended)
             one == IF torn /\ (tornTail => whole # {}) THEN 1 ELSE 0
  <1>1. PICK spoilt \in Spoilt(whole, cut) :
          /\ documents' = (documents \ unended) \cup ((whole \cup cut) \ spoilt)
          /\ surplus' = Capped(surplus + Cardinality(shadows(spoilt)) + Cardinality(unended) + one)
          /\ tornTail' = (torn \/ cut # {})
          /\ unended' = (cut \ spoilt) \ (documents \ unended)
          /\ glued' = (glued \cup unended \cup spoilt) \ documents'
    BY DEF Write
  <1>2. /\ documents \in SUBSET Appid /\ unended \in SUBSET Appid /\ glued \in SUBSET Appid
        /\ surplus \in 0..Cardinality(Appid)
    BY DEF TypeOK
  <1>3. documents' \in SUBSET Appid /\ glued' \in SUBSET Appid /\ unended' \in SUBSET Appid
    BY <1>1, <1>2, SpoiltIsWritten
  <1>4. surplus' \in 0..Cardinality(Appid)
    <2>1. shadows(spoilt) \in SUBSET Appid
      BY <1>2
    <2>2. /\ Cardinality(shadows(spoilt)) \in Nat /\ Cardinality(unended) \in Nat
          /\ Cardinality(Appid) \in Nat
      BY <1>2, <2>1, PartsAreSmaller
    <2> HIDE DEF shadows
    <2>3. one \in {0, 1}
      OBVIOUS
    <2> HIDE DEF one
    <2>4. QED
      BY <1>1, <1>2, <2>2, <2>3 DEF Capped
  <1>5. tornTail' \in BOOLEAN
    BY <1>1
  <1>6. QED
    BY <1>3, <1>4, <1>5

(* Every line is readable or has run into another, and so is every line    *)
(* that was; nothing else becomes readable.                                *)
LEMMA WritingAdds ==
  ASSUME NEW whole, NEW cut, NEW torn \in BOOLEAN, Write(whole, cut, torn)
  PROVE  /\ documents' \subseteq documents \cup whole \cup cut
         /\ whole \cup cut \subseteq documents' \cup glued'
         /\ documents \cup glued \subseteq documents' \cup glued'
  <1>1. PICK spoilt \in Spoilt(whole, cut) :
          /\ documents' = (documents \ unended) \cup ((whole \cup cut) \ spoilt)
          /\ glued' = (glued \cup unended \cup spoilt) \ documents'
    BY DEF Write
  <1>2. QED
    BY <1>1, SpoiltIsWritten

(* What an append does to the corpus.                                      *)
LEMMA AppendingAdds ==
  ASSUME NEW r \in Run, AppendDocuments(r)
  PROVE  /\ documents' \subseteq documents \cup Documents(r)
         /\ Documents(r) \subseteq documents' \cup glued'
         /\ documents \cup glued \subseteq documents' \cup glued'
  <1>1. CASE Documents(r) = {} /\ UNCHANGED corpus
    BY <1>1 DEF corpus
  <1>2. CASE Write(Documents(r), {}, FALSE)
    <2>1. PICK torn \in BOOLEAN : Write(Documents(r), {}, torn)
      BY <1>2
    <2>2. PICK cut : cut = {} /\ Write(Documents(r), cut, torn)
      BY <2>1
    <2>3. QED
      BY <2>2, WritingAdds
  <1>3. QED
    BY <1>1, <1>2 DEF AppendDocuments

(* The bound on failures is kept, and documents not inserted are games.    *)
LEMMA FailingKeepsType ==
  ASSUME TypeOK
  PROVE  /\ Failing => failures' \in 0..MaxFailures
         /\ \A r \in Run : Documents(r) \in SUBSET Appid /\ NotInserted(r) \in SUBSET Appid
  BY DEF TypeOK, Failing, Documents, NotInserted

(* How a run is killed in the middle of an append.                         *)
LEMMA KilledWhileWriting ==
  ASSUME NEW r \in Run, KilledInAppend(r)
  PROVE  \E whole \in SUBSET Documents(r), cut \in SUBSET Documents(r), torn \in BOOLEAN :
           Write(whole, cut, torn) /\ orphans' = orphans \cup ((whole \cup cut) \ index)
  BY DEF KilledInAppend

(* A kill in the middle of an append leaves the corpus typed.              *)
LEMMA KilledAppendKeepsType ==
  ASSUME TypeOK, NEW r \in Run, KilledInAppend(r)
  PROVE  /\ documents' \in SUBSET Appid /\ glued' \in SUBSET Appid /\ unended' \in SUBSET Appid
         /\ surplus' \in 0..Cardinality(Appid) /\ tornTail' \in BOOLEAN
         /\ orphans' \in SUBSET Appid
  <1>1. PICK whole \in SUBSET Documents(r), cut \in SUBSET Documents(r), torn \in BOOLEAN :
          Write(whole, cut, torn) /\ orphans' = orphans \cup ((whole \cup cut) \ index)
    BY KilledWhileWriting
  <1>2. whole \in SUBSET Appid /\ cut \in SUBSET Appid
    BY FailingKeepsType
  <1>3. orphans' \in SUBSET Appid
    BY <1>1, <1>2 DEF TypeOK
  <1>4. QED
    BY <1>1, <1>2, <1>3, WritingKeepsType

(* Every action keeps every variable in its set. *)
LEMMA StepKeepsType == TypeOK /\ [Next]_vars => TypeOK'
  <1> SUFFICES ASSUME TypeOK, [Next]_vars PROVE TypeOK'
    OBVIOUS
  <1> USE DEF TypeOK, PcState, Ingesting, Step,
              volume, corpus, mindb, memory, history
  <1>1. ASSUME NEW r \in Run, LoadCheckpoint(r) PROVE TypeOK'
    BY <1>1 DEF LoadCheckpoint
  <1>2. ASSUME NEW r \in Run, AcquireLease(r) PROVE TypeOK'
    BY <1>2 DEF AcquireLease
  <1>3. ASSUME NEW r \in Run, StandDown(r) PROVE TypeOK'
    BY <1>3, ForgettingKeepsType DEF StandDown, Gone
  <1>4. ASSUME NEW r \in Run, Resume(r) PROVE TypeOK'
    BY <1>4 DEF Resume
  <1>5. ASSUME NEW r \in Run, WrongDimensions(r) PROVE TypeOK'
    BY <1>5, ForgettingKeepsType DEF WrongDimensions
  <1>6. ASSUME NEW r \in Run, Scan(r) PROVE TypeOK'
    BY <1>6 DEF Scan, Renewing
  <1>7. ASSUME NEW r \in Run, Plan(r) PROVE TypeOK'
    <2>1. PICK new \in Orderings(Fresh(listed[r], overFloor[r], claims[r])),
               old \in Orderings(Refresh(listed[r], cursor[r])) :
            /\ targets' = [targets EXCEPT ![r] = new \o old]
            /\ plannedCursor' = [plannedCursor EXCEPT ![r] =
                                   IF old = <<>> THEN cursor[r] ELSE old[Len(old)]]
      BY <1>7 DEF Plan
    <2>2. new \in Seq(Appid)
      BY OrderingsAreSequences DEF Fresh
    <2>3. old \in Seq(Appid)
      BY OrderingsAreSequences DEF Refresh, Stale
    <2>4. new \o old \in Seq(Appid)
      BY <2>2, <2>3
    <2>5. old # <<>> => old[Len(old)] \in Appid
      BY <2>3
    <2>6. targets' \in [Run -> Seq(Appid)] /\ plannedCursor' \in [Run -> Appid \cup {0}]
      BY <2>1, <2>4, <2>5
    <2>7. QED
      BY <1>7, <2>6 DEF Plan
  <1>8. ASSUME NEW r \in Run, Fetch(r) PROVE TypeOK'
    <2>1. got' \in [Run -> [Appid -> Status]]
      BY <1>8 DEF Fetch
    <2>2. start' \in [Run -> Nat]
      BY <1>8 DEF Fetch
    <2>3. QED
      BY <1>8, <2>1, <2>2 DEF Fetch
  <1>9. ASSUME NEW r \in Run, NoMoreTargets(r) PROVE TypeOK'
    BY <1>9 DEF NoMoreTargets
  <1>10. ASSUME NEW r \in Run, AppendDocuments(r) PROVE TypeOK'
    <2>1. Documents(r) \in SUBSET Appid /\ {} \in SUBSET Appid
      BY DEF Documents
    <2>2. /\ documents' \in SUBSET Appid /\ glued' \in SUBSET Appid
          /\ unended' \in SUBSET Appid
          /\ surplus' \in 0..Cardinality(Appid) /\ tornTail' \in BOOLEAN
      BY <1>10, <2>1, WritingKeepsType DEF AppendDocuments
    <2>3. QED
      BY <1>10, <2>2 DEF AppendDocuments
  <1>11. ASSUME NEW r \in Run, MergeNames(r) PROVE TypeOK'
    BY <1>11 DEF MergeNames
  <1>12. ASSUME NEW r \in Run, Insert(r) PROVE TypeOK'
    BY <1>12 DEF Insert, Documents
  <1>13. ASSUME NEW r \in Run, MarkPending(r) PROVE TypeOK'
    <2>1. CountBatch(batches[r]) \in 0..(SnapshotEvery - 1)
      BY RemainderIsBelow, batches[r] + 1 \in Nat DEF CountBatch
    <2>2. NothingGot \in [Appid -> Status] /\ Settled(r) \in SUBSET Appid
      BY DEF NothingGot, Status, Settled
    <2>3. checkpoint' \in [status : CheckpointStatus, appids : SUBSET Appid,
                           refreshAfter : Appid \cup {0}]
      BY <1>13, <2>2 DEF MarkPending, CheckpointStatus
    <2>4. batches' \in [Run -> 0..(SnapshotEvery - 1)]
      BY <1>13, <2>1 DEF MarkPending
    <2>5. QED
      BY <1>13, <2>2, <2>3, <2>4 DEF MarkPending
  <1>14. ASSUME NEW r \in Run, PeriodicSnapshot(r) PROVE TypeOK'
    BY <1>14 DEF PeriodicSnapshot
  <1>15. ASSUME NEW r \in Run, Renew(r) PROVE TypeOK'
    BY <1>15 DEF Renew, Renewing
  <1>16. ASSUME NEW r \in Run, FinalSnapshot(r) PROVE TypeOK'
    BY <1>16 DEF FinalSnapshot
  <1>17. ASSUME NEW r \in Run, FinalSnapshotFails(r) PROVE TypeOK'
    BY <1>17, ForgettingKeepsType DEF FinalSnapshotFails
  <1>18. ASSUME NEW r \in Run, MarkComplete(r) PROVE TypeOK'
    <2>1. checkpoint' \in [status : CheckpointStatus, appids : SUBSET Appid,
                           refreshAfter : Appid \cup {0}]
      BY <1>18 DEF MarkComplete, CheckpointStatus
    <2>2. QED
      BY <1>18, <2>1, ForgettingKeepsType DEF MarkComplete
  <1>19. ASSUME NEW r \in Run, NoCompaction(r) PROVE TypeOK'
    BY <1>19 DEF NoCompaction
  <1>20. ASSUME NEW r \in Run, CompactLoad(r) PROVE TypeOK'
    BY <1>20 DEF CompactLoad
  <1>21. ASSUME NEW r \in Run, CompactReplace(r) PROVE TypeOK'
    <2>1. Cardinality(Appid) \in Nat /\ surplus' = 0
      BY <1>21, FS_CardinalityType DEF CompactReplace
    <2>2. surplus' \in 0..Cardinality(Appid)
      BY <2>1
    <2>3. QED
      BY <1>21, <2>2 DEF CompactReplace
  <1>22. ASSUME NEW r \in Run, SyncDocuments(r) PROVE TypeOK'
    BY <1>22 DEF SyncDocuments
  <1>23. ASSUME NEW r \in Run, Release(r) PROVE TypeOK'
    BY <1>23, ForgettingKeepsType DEF Release, Gone
  <1>24. ASSUME NEW r \in Run, Raise(r) \/ NamesUnreadable(r) PROVE TypeOK'
    <2>1. failures' \in 0..MaxFailures /\ NotInserted(r) \in SUBSET Appid
      BY <1>24, FailingKeepsType DEF Raise, NamesUnreadable
    <2>2. QED
      BY <1>24, <2>1, ForgettingKeepsType DEF Raise, NamesUnreadable, Unwind
  <1>25. ASSUME NEW r \in Run, Kill(r) PROVE TypeOK'
    <2>1. failures' \in 0..MaxFailures /\ NotInserted(r) \in SUBSET Appid
      BY <1>25, FailingKeepsType DEF Kill
    <2>2. QED
      BY <1>25, <2>1, ForgettingKeepsType DEF Kill, Gone
  <1>26. ASSUME NEW r \in Run, KilledInAppend(r) PROVE TypeOK'
    <2>1. failures' \in 0..MaxFailures
      BY <1>26, FailingKeepsType DEF KilledInAppend
    <2>2. QED
      BY <1>26, <2>1, KilledAppendKeepsType, ForgettingKeepsType DEF KilledInAppend, Gone
  <1>27. ASSUME NEW r \in Run, KilledInMerge(r) PROVE TypeOK'
    <2>1. failures' \in 0..MaxFailures /\ Documents(r) \in SUBSET Appid
      BY <1>27, FailingKeepsType DEF KilledInMerge
    <2>2. QED
      BY <1>27, <2>1, ForgettingKeepsType DEF KilledInMerge, Gone
  <1>28. CASE MinDBSnapshots
    BY <1>28 DEF MinDBSnapshots
  <1>29. CASE MinDBLosesLog
    BY <1>29 DEF MinDBLosesLog, Failing
  <1>30. CASE UNCHANGED vars
    BY <1>30 DEF vars
  <1>31. QED
    BY <1>1, <1>2, <1>3, <1>4, <1>5, <1>6, <1>7, <1>8, <1>9, <1>10, <1>11, <1>12, <1>13, <1>14,
       <1>15, <1>16, <1>17, <1>18, <1>19, <1>20, <1>21, <1>22, <1>23, <1>24, <1>25, <1>26, <1>27,
       <1>28, <1>29, <1>30 DEF Next, Ingest, Fail

-----------------------------------------------------------------------------
(* Who changes what                                                        *)

(* Only one run moves at a time, and MinDB moves none.                     *)
LEMMA OneRunMoves ==
  ASSUME TypeOK, [Next]_vars
  PROVE  \/ \E r \in Run :
              /\ Ingest(r) \/ Fail(r)
              /\ \A q \in Run \ {r} :
                   /\ pc'[q] = pc[q] /\ got'[q] = got[q]
                   /\ claims'[q] = claims[q] /\ loaded'[q] = loaded[q]
         \/ UNCHANGED <<pc, got, claims, loaded>>
  <1> USE DEF memory
  <1>1. /\ DOMAIN pc = Run /\ DOMAIN got = Run /\ DOMAIN claims = Run /\ DOMAIN loaded = Run
    BY DEF TypeOK
  <1>2. ASSUME NEW r \in Run, Ingest(r) \/ Fail(r), NEW q \in Run \ {r}
        PROVE  /\ pc'[q] = pc[q] /\ got'[q] = got[q]
               /\ claims'[q] = claims[q] /\ loaded'[q] = loaded[q]
    BY <1>1, <1>2
       DEF Ingest, Fail, LoadCheckpoint, AcquireLease, StandDown, Resume, WrongDimensions, Scan,
           Plan, Fetch, NoMoreTargets, AppendDocuments, MergeNames, Insert, MarkPending,
           PeriodicSnapshot, Renew, FinalSnapshot, FinalSnapshotFails, MarkComplete, NoCompaction,
           CompactLoad, CompactReplace, SyncDocuments, Release, Raise, NamesUnreadable, Kill,
           KilledInAppend, KilledInMerge, Step, Gone, Unwind, Forget
  <1>3. MinDBSnapshots \/ MinDBLosesLog \/ UNCHANGED vars => UNCHANGED <<pc, got, claims, loaded>>
    BY DEF MinDBSnapshots, MinDBLosesLog, vars
  <1>4. QED
    BY <1>2, <1>3 DEF Next

(* The corpus and the history of glued lines: appends and compactions.     *)
LEMMA WhoTouchesTheCorpus ==
  ASSUME [Next]_vars
  PROVE  \/ UNCHANGED <<documents, glued>>
         \/ \E r \in Run : AppendDocuments(r) \/ KilledInAppend(r) \/ CompactReplace(r)
  <1> USE DEF volume, corpus, history
  <1>1. ASSUME NEW r \in Run, Ingest(r)
        PROVE  UNCHANGED <<documents, glued>> \/ AppendDocuments(r) \/ CompactReplace(r)
    BY <1>1 DEF Ingest, LoadCheckpoint, AcquireLease, StandDown, Resume, WrongDimensions, Scan,
                Plan, Fetch, NoMoreTargets, MergeNames, Insert, MarkPending, PeriodicSnapshot,
                Renew, FinalSnapshot, FinalSnapshotFails, MarkComplete, NoCompaction, CompactLoad,
                SyncDocuments, Release
  <1>2. ASSUME NEW r \in Run, Fail(r)
        PROVE  UNCHANGED <<documents, glued>> \/ KilledInAppend(r)
    BY <1>2 DEF Fail, Raise, NamesUnreadable, Unwind, Kill, KilledInMerge
  <1>3. MinDBSnapshots \/ MinDBLosesLog \/ UNCHANGED vars => UNCHANGED <<documents, glued>>
    BY DEF MinDBSnapshots, MinDBLosesLog, vars
  <1>4. QED
    BY <1>1, <1>2, <1>3 DEF Next

(* The name index: merges, whole or cut short.                             *)
LEMMA WhoTouchesNames ==
  ASSUME [Next]_vars
  PROVE  \/ UNCHANGED <<names, namesTorn>>
         \/ \E r \in Run : MergeNames(r) \/ KilledInMerge(r)
  <1> USE DEF volume
  <1>1. ASSUME NEW r \in Run, Ingest(r)
        PROVE  UNCHANGED <<names, namesTorn>> \/ MergeNames(r)
    BY <1>1 DEF Ingest, LoadCheckpoint, AcquireLease, StandDown, Resume, WrongDimensions, Scan,
                Plan, Fetch, NoMoreTargets, AppendDocuments, Insert, MarkPending,
                PeriodicSnapshot, Renew, FinalSnapshot, FinalSnapshotFails, MarkComplete,
                NoCompaction, CompactLoad, CompactReplace, SyncDocuments, Release
  <1>2. ASSUME NEW r \in Run, Fail(r)
        PROVE  UNCHANGED <<names, namesTorn>> \/ KilledInMerge(r)
    BY <1>2 DEF Fail, Raise, NamesUnreadable, Unwind, Kill, KilledInAppend
  <1>3. MinDBSnapshots \/ MinDBLosesLog \/ UNCHANGED vars => UNCHANGED <<names, namesTorn>>
    BY DEF MinDBSnapshots, MinDBLosesLog, vars
  <1>4. QED
    BY <1>1, <1>2, <1>3 DEF Next

(* The vectors: the insert of a batch, snapshots, and the loss of the log. *)
LEMMA WhoTouchesVectors ==
  ASSUME [Next]_vars
  PROVE  \/ UNCHANGED <<index, snapshot>>
         \/ index' = index /\ snapshot' = index
         \/ MinDBLosesLog
         \/ \E r \in Run : Insert(r)
  <1> USE DEF mindb
  <1>1. ASSUME NEW r \in Run, Ingest(r)
        PROVE  \/ UNCHANGED <<index, snapshot>>
               \/ index' = index /\ snapshot' = index
               \/ Insert(r)
    BY <1>1 DEF Ingest, LoadCheckpoint, AcquireLease, StandDown, Resume, WrongDimensions, Scan,
                Plan, Fetch, NoMoreTargets, AppendDocuments, MergeNames, MarkPending,
                PeriodicSnapshot, Renew, FinalSnapshot, FinalSnapshotFails, MarkComplete,
                NoCompaction, CompactLoad, CompactReplace, SyncDocuments, Release
  <1>2. ASSUME NEW r \in Run, Fail(r)
        PROVE  UNCHANGED <<index, snapshot>>
    BY <1>2 DEF Fail, Raise, NamesUnreadable, Unwind, Kill, KilledInAppend, KilledInMerge
  <1>3. MinDBSnapshots => index' = index /\ snapshot' = index
    BY DEF MinDBSnapshots
  <1>4. UNCHANGED vars => UNCHANGED <<index, snapshot>>
    BY DEF vars
  <1>5. QED
    BY <1>1, <1>2, <1>3, <1>4 DEF Next

(* The checkpoint: one claim per batch, and one at the end.                *)
LEMMA WhoTouchesTheCheckpoint ==
  ASSUME [Next]_vars
  PROVE  \/ UNCHANGED checkpoint
         \/ \E r \in Run : MarkPending(r) \/ MarkComplete(r)
  <1> USE DEF volume
  <1>1. ASSUME NEW r \in Run, Ingest(r)
        PROVE  UNCHANGED checkpoint \/ MarkPending(r) \/ MarkComplete(r)
    BY <1>1 DEF Ingest, LoadCheckpoint, AcquireLease, StandDown, Resume, WrongDimensions, Scan,
                Plan, Fetch, NoMoreTargets, AppendDocuments, MergeNames, Insert, PeriodicSnapshot,
                Renew, FinalSnapshot, FinalSnapshotFails, NoCompaction, CompactLoad,
                CompactReplace, SyncDocuments, Release
  <1>2. ASSUME NEW r \in Run, Fail(r)
        PROVE  UNCHANGED checkpoint
    BY <1>2 DEF Fail, Raise, NamesUnreadable, Unwind, Kill, KilledInAppend, KilledInMerge
  <1>3. MinDBSnapshots \/ MinDBLosesLog \/ UNCHANGED vars => UNCHANGED checkpoint
    BY DEF MinDBSnapshots, MinDBLosesLog, vars
  <1>4. QED
    BY <1>1, <1>2, <1>3 DEF Next

(* How a run comes to each of the places the invariant speaks of.          *)
LEMMA HowRunsGetThere ==
  ASSUME TypeOK, [Next]_vars, NEW q \in Run
  PROVE  /\ pc'[q] = "replace" =>
              CompactLoad(q) \/ (pc[q] = "replace" /\ loaded'[q] = loaded[q])
         /\ pc'[q] \in {"merge", "insert"} =>
              AppendDocuments(q) \/ (pc[q] \in {"merge", "insert"} /\ got'[q] = got[q])
         /\ pc'[q] \in {"insert", "claim"} =>
              MergeNames(q) \/ (pc[q] \in {"insert", "claim"} /\ got'[q] = got[q])
         /\ pc'[q] = "complete" => FinalSnapshot(q) \/ pc[q] = "complete"
         /\ claims'[q] \in {claims[q], {}} \/ LoadCheckpoint(q) \/ Resume(q) \/ MarkPending(q)
  <1> USE DEF memory, history
  <1>1. /\ DOMAIN pc = Run /\ DOMAIN got = Run /\ DOMAIN claims = Run /\ DOMAIN loaded = Run
    BY DEF TypeOK
  <1>2. CASE pc'[q] = pc[q] /\ got'[q] = got[q] /\ claims'[q] = claims[q] /\ loaded'[q] = loaded[q]
    BY <1>2
  <1>3. CASE LoadCheckpoint(q) \/ AcquireLease(q) \/ StandDown(q) \/ Resume(q) \/ WrongDimensions(q)
             \/ Scan(q) \/ Plan(q) \/ Fetch(q) \/ NoMoreTargets(q)
    BY <1>1, <1>3 DEF LoadCheckpoint, AcquireLease, StandDown, Resume, WrongDimensions, Scan, Plan,
                      Fetch, NoMoreTargets, Step, Gone, Forget
  <1>4. CASE AppendDocuments(q) \/ MergeNames(q) \/ Insert(q) \/ PeriodicSnapshot(q)
    BY <1>1, <1>4 DEF AppendDocuments, MergeNames, Insert, PeriodicSnapshot, Step
  <1>5. CASE MarkPending(q) \/ Renew(q) \/ FinalSnapshot(q) \/ NoCompaction(q)
    BY <1>1, <1>5 DEF MarkPending, Renew, FinalSnapshot, NoCompaction, Step
  <1>6. CASE FinalSnapshotFails(q) \/ MarkComplete(q) \/ Release(q)
    BY <1>1, <1>6 DEF FinalSnapshotFails, MarkComplete, Release, Step, Gone, Forget
  <1>7. CASE CompactLoad(q)
    <2>1. pc'[q] = "replace" /\ claims'[q] = claims[q]
      BY <1>1, <1>7 DEF CompactLoad, Step
    <2>2. QED
      BY <1>7, <2>1
  <1>8. CASE CompactReplace(q) \/ SyncDocuments(q)
    BY <1>1, <1>8 DEF CompactReplace, SyncDocuments, Step
  <1>9. CASE Fail(q)
    BY <1>1, <1>9 DEF Fail, Raise, NamesUnreadable, Unwind, Kill, KilledInAppend, KilledInMerge,
                      Gone, Forget
  <1>10. QED
    BY <1>2, <1>3, <1>4, <1>5, <1>6, <1>7, <1>8, <1>9, OneRunMoves DEF Ingest

-----------------------------------------------------------------------------
(* The lease                                                               *)

(* A run takes the lease from nobody who is still inside, and none but the *)
(* holder lets it go.                                                      *)
LEMMA StepKeepsHolder ==
  ASSUME LeaseMode = "kept", TypeOK, HolderKnowsIt, [Next]_vars
  PROVE  HolderKnowsIt'
  <1> USE DEF HolderKnowsIt, Holding, Ingesting
  <1>1. pc \in [Run -> PcState]
    BY DEF TypeOK
  <1>2. ASSUME NEW r \in Run, pc[r] \in Holding, NEW l, pc' = [pc EXCEPT ![r] = l],
               holder' = holder
        PROVE  HolderKnowsIt'
    BY <1>1, <1>2
  <1>3. ASSUME NEW r \in Run, NEW l, l \notin Holding, pc' = [pc EXCEPT ![r] = l], holder' = holder
        PROVE  HolderKnowsIt'
    BY <1>1, <1>3
  <1>4. CASE UNCHANGED <<pc, holder>>
    BY <1>4
  <1>5. ASSUME NEW r \in Run, AcquireLease(r) PROVE HolderKnowsIt'
    BY <1>1, <1>5 DEF AcquireLease, MayTake, Step
  <1>6. ASSUME NEW r \in Run, Scan(r) \/ Renew(r) PROVE HolderKnowsIt'
    <2>1. pc[r] \in Holding /\ holder = r /\ holder' = holder
      BY <1>6 DEF Scan, Renew, Step, Renewing
    <2>2. QED
      BY <1>2, <1>6, <2>1 DEF Scan, Renew, Step
  <1>7. ASSUME NEW r \in Run, Release(r) PROVE HolderKnowsIt'
    BY <1>1, <1>7, RunAssumption DEF Release, Gone
  <1>8. ASSUME NEW r \in Run, LoadCheckpoint(r) \/ StandDown(r) \/ Kill(r)
                                \/ KilledInAppend(r) \/ KilledInMerge(r)
        PROVE  HolderKnowsIt'
    BY <1>3, <1>8 DEF LoadCheckpoint, StandDown, Kill, KilledInAppend, KilledInMerge, Step, Gone
  <1>9. ASSUME NEW r \in Run, Raise(r) \/ NamesUnreadable(r) PROVE HolderKnowsIt'
    BY <1>2, <1>9 DEF Raise, NamesUnreadable, Unwind
  <1>10. ASSUME NEW r \in Run, Resume(r) \/ WrongDimensions(r) \/ Plan(r) \/ Fetch(r)
                                 \/ NoMoreTargets(r) \/ AppendDocuments(r) \/ MergeNames(r)
         PROVE  HolderKnowsIt'
    BY <1>2, <1>10 DEF Resume, WrongDimensions, Plan, Fetch, NoMoreTargets, AppendDocuments,
                       MergeNames, Step
  <1>11. ASSUME NEW r \in Run, Insert(r) \/ MarkPending(r) \/ PeriodicSnapshot(r)
                                 \/ FinalSnapshot(r) \/ FinalSnapshotFails(r) \/ MarkComplete(r)
         PROVE  HolderKnowsIt'
    BY <1>2, <1>11 DEF Insert, MarkPending, PeriodicSnapshot, FinalSnapshot, FinalSnapshotFails,
                       MarkComplete, Step
  <1>12. ASSUME NEW r \in Run, NoCompaction(r) \/ CompactLoad(r) \/ CompactReplace(r)
                                 \/ SyncDocuments(r)
         PROVE  HolderKnowsIt'
    BY <1>2, <1>12 DEF NoCompaction, CompactLoad, CompactReplace, SyncDocuments, Step
  <1>13. MinDBSnapshots \/ MinDBLosesLog \/ UNCHANGED vars => UNCHANGED <<pc, holder>>
    BY DEF MinDBSnapshots, MinDBLosesLog, vars
  <1>14. QED
    BY <1>4, <1>5, <1>6, <1>7, <1>8, <1>9, <1>10, <1>11, <1>12, <1>13 DEF Next, Ingest, Fail

-----------------------------------------------------------------------------
(* The corpus                                                              *)

(* With the lease kept, a compaction puts back all it read and nothing has *)
(* been appended in between: what was ever appended has a readable line,   *)
(* or its last line ran into another.                                      *)
LEMMA CorpusOnlyGrows ==
  ASSUME CompactionIsCurrent, [Next]_vars
  PROVE  documents \cup glued \subseteq documents' \cup glued'
  <1>1. ASSUME NEW r \in Run, AppendDocuments(r)
        PROVE  documents \cup glued \subseteq documents' \cup glued'
    BY <1>1, AppendingAdds
  <1>2. ASSUME NEW r \in Run, KilledInAppend(r)
        PROVE  documents \cup glued \subseteq documents' \cup glued'
    BY <1>2, KilledWhileWriting, WritingAdds
  <1>3. ASSUME NEW r \in Run, CompactReplace(r)
        PROVE  documents \cup glued \subseteq documents' \cup glued'
    BY <1>3 DEF CompactReplace, CompactionIsCurrent, Step, history
  <1>4. QED
    BY <1>1, <1>2, <1>3, WhoTouchesTheCorpus

(* Appended is appended: a whole batch is on disk, or in a glued line.     *)
LEMMA AppendingIsDone ==
  ASSUME NEW r \in Run, AppendDocuments(r)
  PROVE  Documents(r) \subseteq documents' \cup glued' /\ got'[r] = got[r]
  BY AppendingAdds DEF AppendDocuments, memory

(* No other run is inside while one is.                                    *)
LEMMA HoldersAreAlone ==
  ASSUME HolderKnowsIt, NEW q \in Run, NEW r \in Run, pc[q] \in Holding, pc[r] \in Holding
  PROVE  q = r
  BY DEF HolderKnowsIt

(* Nobody else is inside between the two halves of a compaction.           *)
LEMMA StepKeepsCompaction ==
  ASSUME TypeOK, HolderKnowsIt, CompactionIsCurrent, [Next]_vars
  PROVE  CompactionIsCurrent'
  <1> SUFFICES ASSUME NEW q \in Run, pc'[q] = "replace"
               PROVE  loaded'[q] = documents'
    BY DEF CompactionIsCurrent
  <1>1. DOMAIN loaded = Run /\ DOMAIN pc = Run
    BY DEF TypeOK
  <1>2. CASE CompactLoad(q)
    BY <1>1, <1>2 DEF CompactLoad, volume
  <1>3. CASE pc[q] = "replace" /\ loaded'[q] = loaded[q]
    <2>1. ~AppendDocuments(q) /\ ~KilledInAppend(q) /\ ~CompactReplace(q)
      BY <1>1, <1>3 DEF AppendDocuments, KilledInAppend, CompactReplace, Step
    <2>2. ASSUME NEW r \in Run, AppendDocuments(r) \/ KilledInAppend(r) \/ CompactReplace(r)
          PROVE  r = q
      BY <1>3, <2>2, HoldersAreAlone
         DEF AppendDocuments, KilledInAppend, CompactReplace, Step, Holding, Ingesting
    <2>3. documents' = documents
      BY <2>1, <2>2, WhoTouchesTheCorpus
    <2>4. QED
      BY <1>3, <2>3 DEF CompactionIsCurrent
  <1>4. QED
    BY <1>2, <1>3, HowRunsGetThere

(* A run goes on to names and vectors only with its batch on disk.         *)
LEMMA StepKeepsBatchAppended ==
  ASSUME TypeOK, CompactionIsCurrent, BatchIsAppended, [Next]_vars
  PROVE  BatchIsAppended'
  <1> SUFFICES ASSUME NEW q \in Run, pc'[q] \in {"merge", "insert"}
               PROVE  Documents(q)' \subseteq documents' \cup glued'
    BY DEF BatchIsAppended
  <1>1. CASE AppendDocuments(q)
    BY <1>1, AppendingIsDone DEF Documents
  <1>2. CASE pc[q] \in {"merge", "insert"} /\ got'[q] = got[q]
    BY <1>2, CorpusOnlyGrows DEF BatchIsAppended, Documents
  <1>3. QED
    BY <1>1, <1>2, HowRunsGetThere

-----------------------------------------------------------------------------
(* Vectors, names and claims                                               *)

(* An insert adds vectors of appended documents; a lost log adds none.     *)
LEMMA StepKeepsVectors ==
  ASSUME CompactionIsCurrent, BatchIsAppended, VectorsHaveDocuments, [Next]_vars
  PROVE  VectorsHaveDocuments'
  <1> USE DEF VectorsHaveDocuments
  <1>1. documents \cup glued \subseteq documents' \cup glued'
    BY CorpusOnlyGrows
  <1>2. CASE UNCHANGED <<index, snapshot>> \/ (index' = index /\ snapshot' = index)
    BY <1>1, <1>2
  <1>3. CASE MinDBLosesLog
    BY <1>1, <1>3 DEF MinDBLosesLog
  <1>4. ASSUME NEW r \in Run, Insert(r) PROVE VectorsHaveDocuments'
    BY <1>1, <1>4 DEF Insert, Step, BatchIsAppended
  <1>5. QED
    BY <1>2, <1>3, <1>4, WhoTouchesVectors

(* Names are entered and changed, never taken out.                         *)
LEMMA NamesOnlyGrow ==
  ASSUME TypeOK, [Next]_vars, ~namesTorn'
  PROVE  ~namesTorn /\ \A a \in Appid : names[a] # Unknown => names'[a] # Unknown
  <1>1. ASSUME NEW r \in Run, MergeNames(r)
        PROVE  ~namesTorn /\ \A a \in Appid : names[a] # Unknown => names'[a] # Unknown
    BY <1>1 DEF MergeNames
  <1>2. \A r \in Run : ~KilledInMerge(r)
    BY DEF KilledInMerge
  <1>3. QED
    BY <1>1, <1>2, WhoTouchesNames DEF TypeOK

(* A merge enters as usable only what was appended before.                 *)
LEMMA StepKeepsUsableNames ==
  ASSUME TypeOK, CompactionIsCurrent, BatchIsAppended, UsableNamesHaveDocuments, [Next]_vars
  PROVE  UsableNamesHaveDocuments'
  <1> SUFFICES ASSUME ~namesTorn', NEW a \in Appid, names'[a] = InCorpus
               PROVE  a \in documents' \cup glued'
    BY DEF UsableNamesHaveDocuments
  <1>1. ~namesTorn /\ documents \cup glued \subseteq documents' \cup glued'
    BY NamesOnlyGrow, CorpusOnlyGrows
  <1>2. CASE names' = names
    BY <1>1, <1>2 DEF UsableNamesHaveDocuments
  <1>3. ASSUME NEW r \in Run, MergeNames(r) PROVE a \in documents' \cup glued'
    <2>1. names[a] = InCorpus \/ a \in Documents(r)
      BY <1>3 DEF MergeNames, Documents
    <2>2. Documents(r) \subseteq documents \cup glued
      BY <1>3 DEF MergeNames, Step, BatchIsAppended
    <2>3. QED
      BY <1>1, <2>1, <2>2 DEF UsableNamesHaveDocuments
  <1>4. ASSUME NEW r \in Run, KilledInMerge(r) PROVE FALSE
    BY <1>4 DEF KilledInMerge
  <1>5. QED
    BY <1>2, <1>3, <1>4, WhoTouchesNames

(* A run goes on to insert and claim only with its batch in the index.     *)
LEMMA StepKeepsBatchNamed ==
  ASSUME TypeOK, BatchIsNamed, [Next]_vars
  PROVE  BatchIsNamed'
  <1> SUFFICES ASSUME ~namesTorn', NEW q \in Run, pc'[q] \in {"insert", "claim"},
                      NEW a \in Appid, got'[q][a] # Unknown
               PROVE  names'[a] # Unknown
    BY DEF BatchIsNamed
  <1>1. CASE MergeNames(q)
    BY <1>1 DEF MergeNames, memory
  <1>2. CASE pc[q] \in {"insert", "claim"} /\ got'[q] = got[q]
    BY <1>2, NamesOnlyGrow DEF BatchIsNamed
  <1>3. QED
    BY <1>1, <1>2, HowRunsGetThere

(* What the runs and the checkpoint call seen has a document or an entry.  *)
Known(a) == a \in documents \cup glued \/ names[a] # Unknown

LEMMA KnownStaysKnown ==
  ASSUME TypeOK, CompactionIsCurrent, [Next]_vars, ~namesTorn',
         NEW a \in Appid, Known(a)
  PROVE  Known(a)'
  BY CorpusOnlyGrows, NamesOnlyGrow DEF Known

(* Everything a run claims at the end of a batch is known by then.         *)
LEMMA SettledIsKnown ==
  ASSUME ~namesTorn, BatchIsNamed, NEW r \in Run, pc[r] = "claim", NEW a \in Settled(r)
  PROVE  a \in Appid /\ Known(a)
  BY DEF BatchIsNamed, Settled, Known

(* The checkpoint's claims are known: an explanation is an entry.          *)
LEMMA ExplainedIsKnown ==
  ASSUME TypeOK, ~namesTorn, ClaimsAreExplained, NEW a \in checkpoint.appids
  PROVE  a \in Appid /\ Known(a)
  BY DEF TypeOK, ClaimsAreExplained, Known, Unknown, Filtered, NotAGame, Pending

(* A run takes over only claims that are known, and adds such.             *)
LEMMA StepKeepsMemoryExplained ==
  ASSUME TypeOK, CompactionIsCurrent, BatchIsNamed, MemoryIsExplained, ClaimsAreExplained,
         [Next]_vars
  PROVE  MemoryIsExplained'
  <1> SUFFICES ASSUME ~namesTorn', NEW q \in Run, NEW a \in claims'[q]
               PROVE  Known(a)'
    BY DEF MemoryIsExplained, Known
  <1>1. ~namesTorn /\ DOMAIN claims = Run
    BY NamesOnlyGrow DEF TypeOK
  <1>2. a \in Appid /\ Known(a) => Known(a)'
    BY KnownStaysKnown
  <1>3. a \in claims[q] => a \in Appid /\ Known(a)
    BY <1>1 DEF TypeOK, MemoryIsExplained, Known
  <1>4. CASE claims'[q] \in {claims[q], {}}
    BY <1>2, <1>3, <1>4
  <1>5. CASE LoadCheckpoint(q)
    <2>1. a \in checkpoint.appids
      BY <1>1, <1>5 DEF LoadCheckpoint
    <2>2. QED
      BY <1>1, <1>2, <2>1, ExplainedIsKnown
  <1>6. CASE Resume(q)
    <2>1. a \in claims[q] \/ a \in documents
      BY <1>1, <1>6 DEF Resume
    <2>2. a \in documents => a \in Appid /\ Known(a)
      BY DEF TypeOK, Known
    <2>3. QED
      BY <1>2, <1>3, <2>1, <2>2
  <1>7. CASE MarkPending(q)
    <2>1. a \in claims[q] \/ a \in Settled(q)
      BY <1>1, <1>7 DEF MarkPending
    <2>2. pc[q] = "claim"
      BY <1>7 DEF MarkPending, Step
    <2>3. QED
      BY <1>1, <1>2, <1>3, <2>1, <2>2, SettledIsKnown
  <1>8. QED
    BY <1>4, <1>5, <1>6, <1>7, HowRunsGetThere

(* A checkpoint is written from claims that are known.                     *)
LEMMA StepKeepsClaimsExplained ==
  ASSUME TypeOK, TypeOK', CompactionIsCurrent, BatchIsNamed, MemoryIsExplained,
         ClaimsAreExplained, UsableNamesHaveDocuments', [Next]_vars
  PROVE  ClaimsAreExplained'
  <1> SUFFICES ASSUME ~namesTorn', NEW a \in checkpoint'.appids
               PROVE  a \in documents' \cup glued' \/ names'[a] \in {Filtered, NotAGame, Pending}
    BY DEF ClaimsAreExplained
  <1>1. ~namesTorn
    BY NamesOnlyGrow
  <1>2. a \in Appid
    BY DEF TypeOK
  <1>3. \A q \in Run : a \in claims[q] => Known(a)
    BY <1>1 DEF MemoryIsExplained, Known
  <1>4. Known(a)
    <2>1. CASE checkpoint' = checkpoint
      BY <1>1, <2>1, ExplainedIsKnown
    <2>2. ASSUME NEW r \in Run, MarkPending(r) PROVE Known(a)
      <3>1. (a \in claims[r] \/ a \in Settled(r)) /\ pc[r] = "claim"
        BY <2>2 DEF MarkPending, Step
      <3>2. QED
        BY <1>1, <1>3, <3>1, SettledIsKnown
    <2>3. ASSUME NEW r \in Run, MarkComplete(r) PROVE Known(a)
      BY <1>3, <2>3 DEF MarkComplete
    <2>4. QED
      BY <2>1, <2>2, <2>3, WhoTouchesTheCheckpoint
  <1>5. a \in documents' \cup glued' \/ names'[a] # Unknown
    BY <1>2, <1>4, KnownStaysKnown DEF Known
  <1>6. names'[a] \in Status
    BY <1>2 DEF TypeOK
  <1>7. names'[a] = InCorpus => a \in documents' \cup glued'
    BY <1>2 DEF UsableNamesHaveDocuments
  <1>8. QED
    BY <1>5, <1>6, <1>7 DEF Status

-----------------------------------------------------------------------------
(* Documents, vectors and the snapshot                                     *)

(* A document waiting for its insert keeps waiting, is inserted, or is     *)
(* counted as an orphan; and so is a vector MinDB had or an orphan.        *)
LEMMA NothingSlipsAway ==
  ASSUME TypeOK, [Next]_vars
  PROVE  /\ index \subseteq index' \cup orphans'
         /\ orphans \subseteq index' \cup orphans'
         /\ \A q \in Run : NotInserted(q) \subseteq NotInserted(q)' \cup index' \cup orphans'
  <1>0. DOMAIN pc = Run
    BY DEF TypeOK
  <1>1. CASE UNCHANGED <<index, orphans, pc, got>>
    BY <1>1 DEF NotInserted, Documents
  <1>2. CASE MinDBLosesLog
    BY <1>2 DEF MinDBLosesLog, memory, NotInserted, Documents
  <1>3. ASSUME NEW r \in Run, Ingest(r), ~Insert(r)
        PROVE  UNCHANGED <<index, orphans>>
    BY <1>3 DEF Ingest, LoadCheckpoint, AcquireLease, StandDown, Resume, WrongDimensions, Scan,
                Plan, Fetch, NoMoreTargets, AppendDocuments, MergeNames, MarkPending,
                PeriodicSnapshot, Renew, FinalSnapshot, FinalSnapshotFails, MarkComplete,
                NoCompaction, CompactLoad, CompactReplace, SyncDocuments, Release,
                mindb, history
  <1>4. ASSUME NEW r \in Run, Insert(r)
        PROVE  /\ index' = index \cup Documents(r) /\ orphans' = orphans \ Documents(r)
               /\ NotInserted(r) \subseteq index'
    BY <1>4 DEF Insert, NotInserted
  <1>5. ASSUME NEW r \in Run, Fail(r)
        PROVE  index' = index /\ orphans \subseteq orphans' /\ NotInserted(r) \subseteq orphans'
    BY <1>5 DEF Fail, Raise, NamesUnreadable, Unwind, Kill, KilledInAppend, KilledInMerge,
                NotInserted, mindb
  <1>6. ASSUME NEW r \in Run, Ingest(r), ~Insert(r)
        PROVE  NotInserted(r) \subseteq NotInserted(r)' \cup index'
    <2>1. pc[r] \in {"merge", "insert"} => MergeNames(r)
      BY <1>6 DEF Ingest, LoadCheckpoint, AcquireLease, StandDown, Resume, WrongDimensions, Scan,
                  Plan, Fetch, NoMoreTargets, AppendDocuments, MarkPending, PeriodicSnapshot,
                  Renew, FinalSnapshot, FinalSnapshotFails, MarkComplete, NoCompaction,
                  CompactLoad, CompactReplace, SyncDocuments, Release, Step
    <2>2. MergeNames(r) => pc'[r] = "insert" /\ got' = got /\ index' = index
      BY <1>0 DEF MergeNames, Step, memory, mindb
    <2>3. QED
      BY <2>1, <2>2 DEF NotInserted, Documents
  <1>7. ASSUME NEW r \in Run, Ingest(r) \/ Fail(r), NEW q \in Run,
               q # r, pc'[q] = pc[q], got'[q] = got[q]
        PROVE  NotInserted(q) \subseteq NotInserted(q)' \cup index' \cup orphans'
    BY <1>7 DEF NotInserted, Documents
  <1>8. MinDBSnapshots \/ UNCHANGED vars => UNCHANGED <<index, orphans, pc, got>>
    BY DEF MinDBSnapshots, vars, mindb, memory, history
  <1>9. ASSUME NEW r \in Run, Ingest(r) \/ Fail(r)
        PROVE  /\ index \subseteq index' \cup orphans'
               /\ orphans \subseteq index' \cup orphans'
               /\ NotInserted(r) \subseteq NotInserted(r)' \cup index' \cup orphans'
    BY <1>3, <1>4, <1>5, <1>6, <1>9
  <1>10. QED
    BY <1>1, <1>2, <1>7, <1>8, <1>9, OneRunMoves DEF Next

(* So a game that has reached the index has reached it for good.           *)
LEMMA ReachedStaysReached ==
  ASSUME TypeOK, [Next]_vars, NEW a, Reached(a)
  PROVE  Reached(a)'
  BY NothingSlipsAway DEF Reached

(* A new document is one waiting for its insert, an orphan at once, or one *)
(* that compaction brings back.                                            *)
LEMMA StepKeepsReach ==
  ASSUME ReachInv, [Next]_vars
  PROVE  DocumentsReachTheIndex'
  <1> SUFFICES ASSUME NEW a \in documents' PROVE Reached(a)'
    BY DEF DocumentsReachTheIndex, Reached
  <1>1. CASE Reached(a)
    BY <1>1, ReachedStaysReached DEF ReachInv
  <1>2. CASE ~Reached(a)
    <2>1. a \notin documents
      BY <1>2 DEF ReachInv, DocumentsReachTheIndex, Reached
    <2>2. ASSUME NEW r \in Run, AppendDocuments(r) PROVE Reached(a)'
      <3>1. a \in Documents(r)
        BY <2>1, <2>2, AppendingAdds
      <3>2. pc'[r] = "merge" /\ got' = got
        BY <2>2 DEF AppendDocuments, Step, memory, ReachInv, TypeOK
      <3>3. QED
        BY <3>1, <3>2 DEF Reached, NotInserted, Documents
    <2>3. ASSUME NEW r \in Run, KilledInAppend(r) PROVE Reached(a)'
      <3>1. PICK whole \in SUBSET Documents(r), cut \in SUBSET Documents(r), torn \in BOOLEAN :
              Write(whole, cut, torn) /\ orphans' = orphans \cup ((whole \cup cut) \ index)
        BY <2>3, KilledWhileWriting
      <3>2. a \in whole \cup cut
        BY <2>1, <3>1, WritingAdds
      <3>3. index' = index
        BY <2>3 DEF KilledInAppend, mindb
      <3>4. QED
        BY <3>1, <3>2, <3>3 DEF Reached
    <2>4. ASSUME NEW r \in Run, CompactReplace(r) PROVE FALSE
      BY <1>2, <2>4 DEF CompactReplace, ReachInv, Step
    <2>5. QED
      BY <2>1, <2>2, <2>3, <2>4, WhoTouchesTheCorpus DEF ReachInv
  <1>3. QED
    BY <1>1, <1>2

(* What compaction reads are documents, and others may only help.          *)
LEMMA StepKeepsLoadedReached ==
  ASSUME ReachInv, [Next]_vars, NEW q \in Run, pc'[q] = "replace", NEW a \in loaded'[q]
  PROVE  Reached(a)'
  <1>1. TypeOK /\ DOMAIN loaded = Run
    BY DEF ReachInv, TypeOK
  <1>2. CASE CompactLoad(q)
    BY <1>1, <1>2, ReachedStaysReached DEF CompactLoad, ReachInv, DocumentsReachTheIndex, Reached
  <1>3. CASE pc[q] = "replace" /\ loaded'[q] = loaded[q]
    BY <1>1, <1>3, ReachedStaysReached DEF ReachInv
  <1>4. QED
    BY <1>1, <1>2, <1>3, HowRunsGetThere

(* While a run is between its last insert and its end, every document has  *)
(* a vector or is an orphan.                                               *)
LEMMA DocumentsAreIndexed ==
  ASSUME HolderKnowsIt, DocumentsReachTheIndex, NEW q \in Run, pc[q] \in {"final", "complete"}
  PROVE  documents \subseteq index \cup orphans
  <1>1. \A r \in Run : pc[r] \in {"merge", "insert"} => r = q
    BY HoldersAreAlone DEF Holding, Ingesting
  <1>2. \A r \in Run : NotInserted(r) = {}
    BY <1>1 DEF NotInserted
  <1>3. QED
    BY <1>2 DEF DocumentsReachTheIndex

(* The final snapshot stays current until COMPLETE is written.             *)
LEMMA StepKeepsSnapshot ==
  ASSUME TypeOK, HolderKnowsIt, DocumentsReachTheIndex, SnapshotIsCurrent, [Next]_vars
  PROVE  SnapshotIsCurrent'
  <1> SUFFICES ASSUME NEW q \in Run, pc'[q] = "complete"
               PROVE  documents' \subseteq snapshot' \cup orphans'
    BY DEF SnapshotIsCurrent
  <1>1. CASE FinalSnapshot(q)
    <2>1. documents' = documents /\ snapshot' = index /\ orphans' = orphans /\ pc[q] = "final"
      BY <1>1 DEF FinalSnapshot, Step, volume, history
    <2>2. QED
      BY <2>1, DocumentsAreIndexed
  <1>2. CASE pc[q] = "complete"
    <2>1. \A r \in Run : pc[r] \in Holding => r = q
      BY <1>2, HoldersAreAlone DEF Holding, Ingesting
    <2>2. ASSUME NEW r \in Run
          PROVE  ~AppendDocuments(r) /\ ~KilledInAppend(r) /\ ~CompactReplace(r) /\ ~Insert(r)
      BY <1>2, <2>1 DEF AppendDocuments, KilledInAppend, CompactReplace, Insert, Step,
                        Holding, Ingesting
    <2>3. documents' = documents
      BY <2>2, WhoTouchesTheCorpus
    <2>4. index' = index => orphans \subseteq orphans'
      BY <2>2 DEF Next, Ingest, Fail, LoadCheckpoint, AcquireLease, StandDown, Resume,
                  WrongDimensions, Scan, Plan, Fetch, NoMoreTargets, MergeNames, MarkPending,
                  PeriodicSnapshot, Renew, FinalSnapshot, FinalSnapshotFails, MarkComplete,
                  NoCompaction, CompactLoad, SyncDocuments, Release, Raise, NamesUnreadable,
                  Unwind, Kill, KilledInMerge, MinDBSnapshots, MinDBLosesLog, history, vars
    <2>5. CASE index' = index /\ snapshot' \in {index, snapshot}
      BY <1>2, <2>3, <2>4, <2>5, DocumentsAreIndexed DEF SnapshotIsCurrent
    <2>6. CASE MinDBLosesLog
      BY <1>2, <2>3, <2>6 DEF MinDBLosesLog, SnapshotIsCurrent
    <2>7. QED
      BY <2>2, <2>5, <2>6, WhoTouchesVectors
  <1>3. QED
    BY <1>1, <1>2, HowRunsGetThere

-----------------------------------------------------------------------------
(* What a run remembers                                                    *)

(* How a run comes to where it still has a checkpoint to write: by the     *)
(* resumption, or from there, with the batch it has in hand.               *)
LEMMA HowRunsRemember ==
  ASSUME TypeOK, [Next]_vars, NEW q \in Run, pc'[q] \in Seeing
  PROVE  \/ Resume(q) \/ AppendDocuments(q) \/ MarkPending(q)
         \/ /\ pc[q] \in Seeing /\ claims'[q] = claims[q]
            /\ pc[q] \in Appended => pc'[q] \in Appended /\ got'[q] = got[q]
  <1> USE DEF memory, history, Seeing, Appended
  <1>1. DOMAIN pc = Run
    BY DEF TypeOK
  <1>2. CASE pc'[q] = pc[q] /\ got'[q] = got[q] /\ claims'[q] = claims[q]
    BY <1>2
  <1>3. CASE LoadCheckpoint(q) \/ AcquireLease(q) \/ StandDown(q) \/ WrongDimensions(q) \/ Scan(q)
             \/ Plan(q) \/ Fetch(q) \/ NoMoreTargets(q)
    BY <1>1, <1>3 DEF LoadCheckpoint, AcquireLease, StandDown, WrongDimensions, Scan, Plan,
                      Fetch, NoMoreTargets, Step, Gone
  <1>4. CASE MergeNames(q) \/ Insert(q) \/ PeriodicSnapshot(q) \/ Renew(q) \/ FinalSnapshot(q)
    BY <1>1, <1>4 DEF MergeNames, Insert, PeriodicSnapshot, Renew, FinalSnapshot, Step
  <1>5. CASE FinalSnapshotFails(q) \/ MarkComplete(q) \/ NoCompaction(q) \/ CompactLoad(q)
             \/ CompactReplace(q) \/ SyncDocuments(q) \/ Release(q)
    BY <1>1, <1>5 DEF FinalSnapshotFails, MarkComplete, NoCompaction, CompactLoad, CompactReplace,
                      SyncDocuments, Release, Step, Gone
  <1>6. CASE Fail(q)
    BY <1>1, <1>6 DEF Fail, Raise, NamesUnreadable, Unwind, Kill, KilledInAppend, KilledInMerge, Gone
  <1>7. QED
    BY <1>2, <1>3, <1>4, <1>5, <1>6, OneRunMoves DEF Ingest

(* While a run is inside, no other adds to the corpus.                     *)
LEMMA CorpusIsOnesOwn ==
  ASSUME HolderKnowsIt, CompactionIsCurrent, [Next]_vars, NEW q \in Run, pc[q] \in Holding,
         ~AppendDocuments(q), ~KilledInAppend(q)
  PROVE  documents' = documents
  <1>1. ASSUME NEW r \in Run, AppendDocuments(r) \/ KilledInAppend(r) PROVE FALSE
    <2>1. pc[r] \in Holding
      BY <1>1 DEF AppendDocuments, KilledInAppend, Step, Holding, Ingesting
    <2>2. QED
      BY <1>1, <2>1, HoldersAreAlone
  <1>2. ASSUME NEW r \in Run, CompactReplace(r) PROVE documents' = documents
    BY <1>2 DEF CompactReplace, CompactionIsCurrent, Step
  <1>3. QED
    BY <1>1, <1>2, WhoTouchesTheCorpus

(* A run resumes with every document, and adds to its claims what it adds  *)
(* to the corpus.                                                          *)
LEMMA StepKeepsMemoryCovering ==
  ASSUME TypeOK, HolderKnowsIt, CompactionIsCurrent, MemoryCoversTheCorpus, [Next]_vars
  PROVE  MemoryCoversTheCorpus'
  <1> DEFINE InHand(q) == IF pc[q] \in Appended THEN Documents(q) ELSE {}
  <1> SUFFICES ASSUME NEW q \in Run, pc'[q] \in Seeing
               PROVE  documents' \subseteq claims'[q] \cup InHand(q)'
    BY DEF MemoryCoversTheCorpus
  <1>1. DOMAIN pc = Run /\ DOMAIN claims = Run /\ DOMAIN got = Run
    BY DEF TypeOK
  <1>2. CASE Resume(q)
    BY <1>1, <1>2 DEF Resume, volume
  <1>3. CASE AppendDocuments(q)
    <2>1. pc[q] = "append" /\ pc'[q] = "merge" /\ claims' = claims /\ got' = got
      BY <1>1, <1>3 DEF AppendDocuments, Step, memory
    <2>2. documents' \subseteq documents \cup Documents(q)
      BY <1>3, AppendingAdds
    <2>3. documents \subseteq claims[q]
      BY <2>1 DEF MemoryCoversTheCorpus, Seeing, Appended
    <2>4. InHand(q)' = Documents(q)
      BY <2>1 DEF Appended, Documents
    <2>5. QED
      BY <2>1, <2>2, <2>3, <2>4
  <1>4. CASE MarkPending(q)
    <2>1. pc[q] = "claim" /\ documents' = documents /\ claims'[q] = claims[q] \cup Settled(q)
      BY <1>1, <1>4 DEF MarkPending, Step, corpus
    <2>2. Documents(q) \subseteq Settled(q)
      BY DEF Documents, Settled, InCorpus, Unknown, Pending
    <2>3. documents \subseteq claims[q] \cup Documents(q)
      BY <2>1 DEF MemoryCoversTheCorpus, Seeing, Appended
    <2>4. QED
      BY <2>1, <2>2, <2>3
  <1>5. CASE /\ pc[q] \in Seeing /\ claims'[q] = claims[q]
             /\ pc[q] \in Appended => pc'[q] \in Appended /\ got'[q] = got[q]
             /\ ~AppendDocuments(q)
    <2>1. pc[q] \in Holding
      BY <1>5 DEF Seeing, Appended, Holding, Ingesting
    <2>2. ~KilledInAppend(q)
      BY <1>1 DEF KilledInAppend, Gone, Seeing, Appended
    <2>3. documents' = documents
      BY <1>5, <2>1, <2>2, CorpusIsOnesOwn
    <2>4. InHand(q) \subseteq InHand(q)'
      BY <1>5 DEF Documents
    <2>5. QED
      BY <1>5, <2>3, <2>4 DEF MemoryCoversTheCorpus
  <1>6. QED
    BY <1>2, <1>3, <1>4, <1>5, HowRunsRemember

(* Where no two runs are alive at a time, nobody writes the checkpoint     *)
(* that a run has loaded.                                                  *)
LEMMA StepKeepsMemoryCurrent ==
  ASSUME TypeOK, OneAtATime, MemoryIsCurrent, [Next]_vars
  PROVE  MemoryIsCurrent'
  <1> DEFINE Loaded == Seeing \cup {"acquire", "resume"}
  <1> SUFFICES ASSUME NEW q \in Run, pc'[q] \in Loaded
               PROVE  checkpoint'.appids \subseteq claims'[q]
    BY DEF MemoryIsCurrent
  <1>1. DOMAIN pc = Run /\ DOMAIN claims = Run
    BY DEF TypeOK
  <1>2. CASE LoadCheckpoint(q)
    BY <1>1, <1>2 DEF LoadCheckpoint, volume
  <1>3. CASE Resume(q)
    <2>1. pc[q] = "resume" /\ checkpoint' = checkpoint /\ claims[q] \subseteq claims'[q]
      BY <1>1, <1>3 DEF Resume, Step, volume
    <2>2. QED
      BY <2>1 DEF MemoryIsCurrent
  <1>4. CASE MarkPending(q)
    BY <1>1, <1>4 DEF MarkPending
  <1>5. CASE /\ pc[q] \in Loaded /\ claims'[q] = claims[q]
             /\ ~MarkPending(q)
    <2>1. ~MarkComplete(q)
      BY <1>1 DEF MarkComplete, Step, Seeing, Appended
    <2>2. \A r \in Run \ {q} : pc[r] = "idle"
      BY <1>5 DEF OneAtATime, Seeing, Appended
    <2>3. \A r \in Run \ {q} : ~MarkPending(r) /\ ~MarkComplete(r)
      BY <2>2 DEF MarkPending, MarkComplete, Step
    <2>4. checkpoint' = checkpoint
      BY <1>5, <2>1, <2>3, WhoTouchesTheCheckpoint
    <2>5. QED
      BY <1>5, <2>4 DEF MemoryIsCurrent
  <1>6. LoadCheckpoint(q) \/ Resume(q) \/ MarkPending(q) \/ (pc[q] \in Loaded /\ claims'[q] = claims[q])
    <2>1. CASE pc'[q] \in Seeing
      <3>1. AppendDocuments(q) => pc[q] \in Loaded /\ claims'[q] = claims[q]
        BY DEF AppendDocuments, Step, Seeing, memory
      <3>2. QED
        BY <2>1, <3>1, HowRunsRemember
    <2>2. CASE pc'[q] \in {"acquire", "resume"}
      <3>1. LoadCheckpoint(q) \/ AcquireLease(q) \/ (pc'[q] = pc[q] /\ claims'[q] = claims[q])
        <4>1. ~Fail(q)
          BY <1>1, <2>2 DEF Fail, Raise, NamesUnreadable, Unwind, Kill, KilledInAppend,
                            KilledInMerge, Gone
        <4>2. ~(StandDown(q) \/ Resume(q) \/ WrongDimensions(q) \/ Scan(q) \/ Plan(q) \/ Fetch(q)
                \/ NoMoreTargets(q) \/ AppendDocuments(q) \/ MergeNames(q))
          BY <1>1, <2>2 DEF StandDown, Resume, WrongDimensions, Scan, Plan, Fetch, NoMoreTargets,
                            AppendDocuments, MergeNames, Step, Gone
        <4>3. ~(Insert(q) \/ MarkPending(q) \/ PeriodicSnapshot(q) \/ Renew(q) \/ FinalSnapshot(q)
                \/ FinalSnapshotFails(q) \/ MarkComplete(q))
          BY <1>1, <2>2 DEF Insert, MarkPending, PeriodicSnapshot, Renew, FinalSnapshot,
                            FinalSnapshotFails, MarkComplete, Step
        <4>4. ~(NoCompaction(q) \/ CompactLoad(q) \/ CompactReplace(q) \/ SyncDocuments(q)
                \/ Release(q))
          BY <1>1, <2>2 DEF NoCompaction, CompactLoad, CompactReplace, SyncDocuments, Release,
                            Step, Gone
        <4>5. QED
          BY <4>1, <4>2, <4>3, <4>4, OneRunMoves DEF Ingest
      <3>2. AcquireLease(q) => pc[q] = "acquire" /\ claims'[q] = claims[q]
        BY DEF AcquireLease, Step, memory
      <3>3. QED
        BY <2>2, <3>1, <3>2
    <2>3. QED
      BY <2>1, <2>2
  <1>7. QED
    BY <1>2, <1>3, <1>4, <1>5, <1>6

-----------------------------------------------------------------------------
(* The rotation of the refreshes                                           *)

(* From any cursor on, the games are in line: no two at the same place.    *)
LEMMA BeforeIsAnOrder ==
  ASSUME NEW a \in Nat, NEW b \in Nat, NEW c \in Nat, NEW after \in Nat
  PROVE  /\ ~Before(a, a, after)
         /\ a # b => Before(a, b, after) \/ Before(b, a, after)
         /\ Before(a, b, after) /\ Before(b, c, after) => Before(a, c, after)
  BY DEF Before

(* Starting after a game instead puts those up to it at the end of the     *)
(* line and leaves the others as they were.                                *)
LEMMA BeforeTurns ==
  ASSUME NEW a \in Nat, NEW b \in Nat, NEW c \in Nat, NEW after \in Nat, Before(c, a, after)
  PROVE  /\ Before(c, b, after) => (Before(b, a, c) <=> Before(b, a, after))
         /\ b = c \/ Before(b, c, after) => ~Before(b, a, c)
  BY DEF Before

LEMMA AheadIsFinite ==
  ASSUME NEW S \in SUBSET Appid, NEW a, NEW after
  PROVE  /\ Ahead(S, a, after) \in SUBSET S
         /\ IsFiniteSet(S) /\ Cardinality(S) \in Nat
         /\ IsFiniteSet(Ahead(S, a, after)) /\ Cardinality(Ahead(S, a, after)) \in Nat
  <1>1. Ahead(S, a, after) \in SUBSET S
    BY DEF Ahead
  <1>2. IsFiniteSet(S)
    BY FS_Subset
  <1>3. IsFiniteSet(Ahead(S, a, after))
    BY <1>1, <1>2, FS_Subset
  <1>4. QED
    BY <1>1, <1>2, <1>3, FS_CardinalityType

(* Whoever is before a game has fewer before it.                           *)
LEMMA AheadIsFewer ==
  ASSUME NEW S \in SUBSET Appid, NEW a \in S, NEW b \in S, NEW after \in Nat, Before(a, b, after)
  PROVE  Cardinality(Ahead(S, a, after)) < Cardinality(Ahead(S, b, after))
  <1>1. a \notin Ahead(S, a, after) /\ Ahead(S, a, after) \cup {a} \in SUBSET Ahead(S, b, after)
    BY BeforeIsAnOrder DEF Ahead
  <1>2. /\ IsFiniteSet(Ahead(S, a, after)) /\ Cardinality(Ahead(S, a, after)) \in Nat
        /\ IsFiniteSet(Ahead(S, b, after)) /\ Cardinality(Ahead(S, b, after)) \in Nat
    BY AheadIsFinite
  <1>3. Cardinality(Ahead(S, a, after) \cup {a}) = Cardinality(Ahead(S, a, after)) + 1
    BY <1>1, <1>2, FS_AddElement
  <1>4. Cardinality(Ahead(S, a, after) \cup {a}) <= Cardinality(Ahead(S, b, after))
    BY <1>1, <1>2, FS_Subset
  <1>5. QED
    BY <1>2, <1>3, <1>4

(* What a night refreshes of the games that are due.                       *)
FirstInLine(S, after) == {a \in S : Cardinality(Ahead(S, a, after)) < MaxUpdates}

LEMMA RefreshesAreFirstInLine ==
  ASSUME NEW candidates, NEW after
  PROVE  Refresh(candidates, after) = FirstInLine(Stale(candidates), after)
  BY DEF Refresh, FirstInLine

(* Those that have to wait come after all that are refreshed.              *)
LEMMA WaitingComesAfter ==
  ASSUME NEW S \in SUBSET Appid, NEW after \in Nat,
         NEW b \in FirstInLine(S, after), NEW a \in S \ FirstInLine(S, after)
  PROVE  Before(b, a, after)
  <1>1. CASE Before(a, b, after)
    <2>1. Cardinality(Ahead(S, a, after)) < Cardinality(Ahead(S, b, after))
      BY <1>1, AheadIsFewer DEF FirstInLine
    <2>2. Cardinality(Ahead(S, a, after)) \in Nat /\ Cardinality(Ahead(S, b, after)) \in Nat
      BY AheadIsFinite
    <2>3. QED
      BY <2>1, <2>2 DEF FirstInLine
  <1>2. QED
    BY <1>1, BeforeIsAnOrder DEF FirstInLine

(* A night refreshes no more than are allowed, and if a game has to wait,  *)
(* no fewer.                                                               *)
LEMMA NightsAreFull ==
  ASSUME NEW S \in SUBSET Appid, NEW after \in Nat
  PROVE  LET first == FirstInLine(S, after)
         IN  /\ IsFiniteSet(first) /\ Cardinality(first) \in Nat
             /\ Cardinality(first) <= MaxUpdates
             /\ S \ first # {} => Cardinality(first) = MaxUpdates
  <1> DEFINE first == FirstInLine(S, after)
             Place(a) == Cardinality(Ahead(S, a, after))
  <1>1. \A a : /\ Ahead(S, a, after) \in SUBSET S /\ IsFiniteSet(Ahead(S, a, after))
              /\ Place(a) \in Nat
    BY AheadIsFinite
  <1>2. first \in SUBSET S /\ IsFiniteSet(first) /\ Cardinality(first) \in Nat
    <2>1. first \in SUBSET S /\ IsFiniteSet(S)
      BY AheadIsFinite DEF FirstInLine
    <2>2. QED
      BY <2>1, FS_Subset, FS_CardinalityType
  <1>3. Cardinality(first) <= MaxUpdates
    <2> DEFINE f == [a \in first |-> Place(a)]
               places == 0..(MaxUpdates - 1)
    <2>1. \A a \in first : Place(a) \in places
      BY <1>1 DEF FirstInLine
    <2>2. \A a, b \in first : Place(a) = Place(b) => a = b
      <3> SUFFICES ASSUME NEW a \in first, NEW b \in first, a # b PROVE Place(a) # Place(b)
        OBVIOUS
      <3>1. a \in S /\ b \in S /\ a \in Nat /\ b \in Nat
        BY <1>2
      <3>2. Before(a, b, after) \/ Before(b, a, after)
        BY <3>1, BeforeIsAnOrder
      <3>3. Place(a) < Place(b) \/ Place(b) < Place(a)
        BY <3>1, <3>2, AheadIsFewer
      <3>4. QED
        BY <1>1, <3>3
    <2>3. f \in Injection(first, places)
      BY <2>1, <2>2 DEF Injection, IsInjective
    <2>4. IsFiniteSet(places) /\ Cardinality(places) = MaxUpdates
      <3>1. Cardinality(places) = IF 0 > MaxUpdates - 1 THEN 0 ELSE MaxUpdates - 1 - 0 + 1
        BY FS_Interval
      <3>2. QED
        BY <3>1, FS_Interval
    <2>5. QED
      BY <2>3, <2>4, FS_Injection
  <1>4. ASSUME S \ first # {} PROVE Cardinality(first) >= MaxUpdates
    <2> DEFINE places == {n \in Nat : \E a \in S \ first : n = Place(a)}
    <2>1. places # {}
      BY <1>1, <1>4
    <2>2. PICK n \in places : \A m \in places : <<m, n>> \notin OpToRel(<, Nat)
      <3> HIDE DEF places
      <3>1. places \subseteq Nat
        BY DEF places
      <3>2. QED
        BY <2>1, <3>1, WFMin, NatLessThanWellFounded, Zenon
    <2>3. PICK a \in S \ first : n = Place(a)
      OBVIOUS
    <2>4. ASSUME NEW b \in S, Before(b, a, after) PROVE b \in first
      <3> SUFFICES ASSUME b \notin first PROVE FALSE
        OBVIOUS
      <3>1. Place(b) < n /\ Place(b) \in places /\ n \in Nat
        BY <1>1, <2>3, <2>4, AheadIsFewer
      <3>2. <<Place(b), n>> \in OpToRel(<, Nat)
        BY <3>1 DEF OpToRel
      <3>3. QED
        BY <2>2, <3>1, <3>2
    <2>5. Ahead(S, a, after) \in SUBSET first
      BY <2>4 DEF Ahead
    <2>6. Place(a) <= Cardinality(first)
      BY <1>2, <2>5, FS_Subset
    <2>7. Place(a) >= MaxUpdates
      BY <1>1, <2>3 DEF FirstInLine
    <2>8. QED
      BY <1>1, <1>2, <2>6, <2>7
  <1>5. QED
    BY <1>2, <1>3, <1>4

(* The last game of a list in order is the last in line, and the list has  *)
(* them all.                                                               *)
LEMMA ListsEndWithTheLast ==
  ASSUME NEW R \in SUBSET Appid, R # {}, NEW after \in Nat, NEW s \in Orderings(R),
         \A i, j \in DOMAIN s : i < j => Before(s[i], s[j], after)
  PROVE  /\ s # <<>> /\ s[Len(s)] \in R
         /\ \A b \in R \ {s[Len(s)]} : Before(b, s[Len(s)], after)
  <1> DEFINE n == Cardinality(R)
  <1>1. IsFiniteSet(R) /\ n \in Nat /\ n # 0
    BY AheadIsFinite, FS_EmptySet
  <1>2. IsFiniteSet(1..n) /\ Cardinality(1..n) = n
    <2>1. Cardinality(1..n) = IF 1 > n THEN 0 ELSE n - 1 + 1
      BY <1>1, FS_Interval
    <2>2. QED
      BY <1>1, <2>1, FS_Interval
  <1>3. s \in [1..n -> R] /\ \A i, j \in 1..n : s[i] = s[j] => i = j
    BY DEF Orderings
  <1>4. s \in Injection(1..n, R)
    BY <1>3 DEF Injection, IsInjective
  <1>5. s \in Surjection(1..n, R)
    BY <1>1, <1>2, <1>4, FS_Injection
  <1>6. Len(s) = n /\ DOMAIN s = 1..n
    BY <1>1, <1>3
  <1>7. s # <<>>
    BY <1>1, <1>6
  <1> HIDE DEF n
  <1>8. ASSUME NEW b \in R, b # s[n] PROVE Before(b, s[n], after)
    <2>1. PICK i \in 1..n : s[i] = b
      BY <1>5 DEF Surjection
    <2>2. i < n /\ n \in 1..n
      BY <1>1, <1>8, <2>1
    <2>3. QED
      BY <1>6, <2>1, <2>2
  <1>9. QED
    BY <1>1, <1>3, <1>6, <1>7, <1>8

(* With the cursor on the last game refreshed, all of the night's are out  *)
(* of the way of a game that waits, and no other is new before it.         *)
LEMMA WaitingMovesUp ==
  ASSUME NEW S \in SUBSET Appid, NEW after \in Nat, NEW c \in FirstInLine(S, after),
         \A b \in FirstInLine(S, after) \ {c} : Before(b, c, after),
         NEW a \in S \ FirstInLine(S, after)
  PROVE  Cardinality(Ahead(S, a, after)) = Cardinality(Ahead(S, a, c)) + MaxUpdates
  <1> DEFINE first == FirstInLine(S, after)
  <1>0. first \subseteq S /\ S \subseteq Nat
    BY DEF FirstInLine
  <1>1. first \subseteq Ahead(S, a, after)
    BY <1>0, WaitingComesAfter DEF Ahead
  <1>2. ASSUME NEW b \in S PROVE Before(b, a, c) <=> b \notin first /\ Before(b, a, after)
    <2>1. a \in Nat /\ b \in Nat /\ c \in Nat /\ Before(c, a, after)
      BY <1>0, WaitingComesAfter
    <2>2. CASE b \in first
      BY <2>1, <2>2, BeforeTurns
    <2>3. CASE b \notin first
      <3>1. Before(c, b, after)
        BY <2>3, WaitingComesAfter
      <3>2. QED
        BY <2>1, <2>3, <3>1, BeforeTurns
    <2>4. QED
      BY <2>2, <2>3
  <1>3. Ahead(S, a, c) = Ahead(S, a, after) \ first /\ Ahead(S, a, after) \cap first = first
    <2> HIDE DEF first
    <2>1. QED
      BY <1>1, <1>2 DEF Ahead
  <1>4. /\ IsFiniteSet(Ahead(S, a, after)) /\ Cardinality(Ahead(S, a, after)) \in Nat
        /\ Cardinality(Ahead(S, a, c)) \in Nat
    BY AheadIsFinite
  <1>5. Cardinality(first) = MaxUpdates
    BY NightsAreFull
  <1> HIDE DEF first
  <1>6. Cardinality(Ahead(S, a, after) \ first)
          = Cardinality(Ahead(S, a, after)) - Cardinality(Ahead(S, a, after) \cap first)
    BY <1>4, FS_Difference
  <1>7. Cardinality(Ahead(S, a, c)) = Cardinality(Ahead(S, a, after)) - Cardinality(first)
    BY <1>3, <1>6, Zenon
  <1>8. QED
    BY <1>4, <1>5, <1>7

(* From the plan to the first batch there is only Plan.                    *)
LEMMA PlanIsHowToFetch ==
  ASSUME TypeOK, [Next]_vars, NEW q \in Run, pc[q] = "plan", pc'[q] = "fetch"
  PROVE  Plan(q)
  <1>1. DOMAIN pc = Run
    BY DEF TypeOK
  <1>2. ~Fail(q)
    BY <1>1 DEF Fail, Raise, NamesUnreadable, Unwind, Kill, KilledInAppend, KilledInMerge, Gone
  <1>3. Ingest(q)
    BY <1>2, OneRunMoves
  <1>4. QED
    BY <1>1, <1>3
       DEF Ingest, LoadCheckpoint, AcquireLease, StandDown, Resume, WrongDimensions, Scan, Fetch,
           NoMoreTargets, AppendDocuments, MergeNames, Insert, MarkPending, PeriodicSnapshot,
           Renew, FinalSnapshot, FinalSnapshotFails, MarkComplete, NoCompaction, CompactLoad,
           CompactReplace, SyncDocuments, Release, Step

LEMMA CursorsAreNatural == ASSUME TypeOK, NEW r \in Run PROVE cursor[r] \in Nat
  <1>1. cursor[r] \in Appid \cup {0}
    BY DEF TypeOK
  <1>2. \A n \in Appid \cup {0} : n \in Nat
    OBVIOUS
  <1>3. QED
    BY <1>1, <1>2

(* A night of the rotation, of any length and over any corpus.             *)
LEMMA PlanMovesTheQueueUp ==
  ASSUME TypeOK, NEW r \in Run, Plan(r),
         NEW a \in Stale(listed[r]) \ Refresh(listed[r], cursor[r])
  PROVE  Cardinality(Ahead(Stale(listed[r]), a, cursor[r]))
           = Cardinality(Ahead(Stale(listed[r]), a, plannedCursor'[r])) + MaxUpdates
  <1> DEFINE S == Stale(listed[r])
             R == Refresh(listed[r], cursor[r])
             after == cursor[r]
  <1>1. S \in SUBSET Appid /\ after \in Nat /\ R = FirstInLine(S, after)
    <2>a. listed[r] \in SUBSET Appid /\ cursor[r] \in Appid \cup {0}
      BY DEF TypeOK
    <2>b. S \in SUBSET Appid
      BY <2>a DEF Stale
    <2>c. after \in Nat
      BY CursorsAreNatural
    <2>2. R = FirstInLine(S, after)
      BY RefreshesAreFirstInLine
    <2>3. QED
      BY <2>b, <2>c, <2>2
  <1>2. PICK old \in Orderings(R) :
          /\ \A i, j \in DOMAIN old : i < j => Before(old[i], old[j], after)
          /\ plannedCursor' = [plannedCursor EXCEPT ![r] = IF old = <<>> THEN after ELSE old[Len(old)]]
    BY DEF Plan
  <1>3. plannedCursor'[r] = IF old = <<>> THEN after ELSE old[Len(old)]
    BY <1>2 DEF TypeOK
  <1> HIDE DEF S, R, after
  <1>4. R \in SUBSET Appid
    BY <1>1 DEF FirstInLine
  <1>5. CASE R = {}
    <2>1. MaxUpdates = 0
      BY <1>1, <1>5, NightsAreFull, FS_EmptySet DEF S, R, after
    <2>2. old = <<>>
      BY <1>2, <1>5, FS_EmptySet DEF Orderings
    <2>3. Cardinality(Ahead(S, a, after)) \in Nat
      BY <1>1, AheadIsFinite
    <2>4. QED
      BY <1>3, <2>1, <2>2, <2>3 DEF S, after
  <1>6. CASE R # {}
    <2>1. /\ old # <<>> /\ old[Len(old)] \in R
          /\ \A b \in R \ {old[Len(old)]} : Before(b, old[Len(old)], after)
      BY <1>1, <1>2, <1>4, <1>6, ListsEndWithTheLast
    <2>2. a \in S \ R
      BY DEF S, R
    <2>3. Cardinality(Ahead(S, a, after)) = Cardinality(Ahead(S, a, old[Len(old)])) + MaxUpdates
      BY <1>1, <2>1, <2>2, WaitingMovesUp
    <2>4. QED
      BY <1>3, <2>1, <2>3 DEF S, after
  <1>7. QED
    BY <1>5, <1>6

(* What is new has no document yet, so a plan lists each game once.        *)
LEMMA PlanListsEachOnce ==
  ASSUME TypeOK, MemoryCoversTheCorpus, NEW r \in Run, Plan(r),
         NEW i \in DOMAIN targets'[r], NEW j \in DOMAIN targets'[r], targets'[r][i] = targets'[r][j]
  PROVE  i = j
  <1> DEFINE New == Fresh(listed[r], overFloor[r], claims[r])
             Old == Refresh(listed[r], cursor[r])
  <1>1. PICK new \in Orderings(New), old \in Orderings(Old) :
          targets' = [targets EXCEPT ![r] = new \o old]
    BY DEF Plan
  <1>2. targets'[r] = new \o old
    BY <1>1 DEF TypeOK
  <1>3. New \in SUBSET Appid /\ Old \in SUBSET Appid
    BY DEF TypeOK, Fresh, Refresh, Stale
  <1>4. New \cap Old = {}
    <2>1. documents \subseteq claims[r]
      BY DEF MemoryCoversTheCorpus, Plan, Step, Seeing, Appended
    <2>2. QED
      BY <2>1 DEF Fresh, Refresh, Stale
  <1> HIDE DEF New, Old
  <1>5. Cardinality(New) \in Nat /\ Cardinality(Old) \in Nat
    BY <1>3, PartsAreSmaller
  <1>6. /\ new \in [1..Cardinality(New) -> New] /\ old \in [1..Cardinality(Old) -> Old]
        /\ \A m, n \in 1..Cardinality(New) : new[m] = new[n] => m = n
        /\ \A m, n \in 1..Cardinality(Old) : old[m] = old[n] => m = n
    BY DEF Orderings
  <1>7. /\ new \in Seq(New) /\ old \in Seq(Old)
        /\ Len(new) = Cardinality(New) /\ Len(old) = Cardinality(Old)
    BY <1>5, <1>6
  <1>8. /\ i \in 1..(Len(new) + Len(old)) /\ j \in 1..(Len(new) + Len(old))
        /\ (new \o old)[i] = (new \o old)[j]
        /\ \A k \in 1..(Len(new) + Len(old)) :
              (new \o old)[k] = IF k <= Len(new) THEN new[k] ELSE old[k - Len(new)]
    BY <1>2, <1>7
  <1>9. QED
    BY <1>4, <1>5, <1>6, <1>7, <1>8

-----------------------------------------------------------------------------
(* The copy in object storage                                              *)

(* A push copies the whole file; nothing else touches the copy.            *)
LEMMA PushCopiesAll ==
  ASSUME [Next]_vars
  PROVE  offsite' = offsite \/ (offsite' = documents /\ UNCHANGED <<documents, glued>>)
  <1>1. ASSUME NEW r \in Run, Ingest(r)
        PROVE  offsite' = offsite \/ (offsite' = documents /\ UNCHANGED <<documents, glued>>)
    BY <1>1 DEF Ingest, LoadCheckpoint, AcquireLease, StandDown, Resume, WrongDimensions, Scan,
                Plan, Fetch, NoMoreTargets, AppendDocuments, MergeNames, Insert, MarkPending,
                PeriodicSnapshot, Renew, FinalSnapshot, FinalSnapshotFails, MarkComplete,
                NoCompaction, CompactLoad, CompactReplace, SyncDocuments, Release, volume, corpus,
                history
  <1>2. ASSUME NEW r \in Run, Fail(r) PROVE offsite' = offsite
    BY <1>2 DEF Fail, Raise, NamesUnreadable, Unwind, Kill, KilledInAppend, KilledInMerge
  <1>3. MinDBSnapshots \/ MinDBLosesLog \/ UNCHANGED vars => offsite' = offsite
    BY DEF MinDBSnapshots, MinDBLosesLog, vars
  <1>4. QED
    BY <1>1, <1>2, <1>3 DEF Next

(* The volume keeps every document the copy has.                           *)
LEMMA StepKeepsCopy ==
  ASSUME TypeOK, CompactionIsCurrent, CopyIsNoNewer, [Next]_vars
  PROVE  CopyIsNoNewer'
  BY CorpusOnlyGrows, PushCopiesAll DEF CopyIsNoNewer

-----------------------------------------------------------------------------
(* The theorems                                                            *)

(* The first run finds nothing, claims nothing and has broken nothing.     *)
LEMMA InitEstablishesIngestInv == Init => IngestInv
  <1> SUFFICES ASSUME Init PROVE IngestInv
    OBVIOUS
  <1>1. HolderKnowsIt /\ CompactionIsCurrent /\ BatchIsAppended /\ BatchIsNamed
          /\ SnapshotIsCurrent
    BY DEF Init, HolderKnowsIt, CompactionIsCurrent, BatchIsAppended, BatchIsNamed,
           SnapshotIsCurrent, Holding, Ingesting
  <1>2. VectorsHaveDocuments /\ MemoryIsExplained /\ ClaimsAreExplained /\ DocumentsReachTheIndex
    BY DEF Init, VectorsHaveDocuments, MemoryIsExplained, ClaimsAreExplained,
           DocumentsReachTheIndex
  <1>3. UsableNamesHaveDocuments /\ CopyIsNoNewer /\ MemoryCoversTheCorpus
    BY DEF Init, UsableNamesHaveDocuments, CopyIsNoNewer, MemoryCoversTheCorpus, NothingGot,
           Unknown, InCorpus
  <1>4. QED
    BY <1>1, <1>2, <1>3, InitHasType DEF IngestInv

(* One step keeps the whole invariant, where the lease is kept.            *)
LEMMA StepKeepsIngestInv ==
  ASSUME LeaseMode = "kept", IngestInv, [Next]_vars
  PROVE  IngestInv'
  <1> USE DEF IngestInv
  <1>1. TypeOK' /\ HolderKnowsIt' /\ CompactionIsCurrent'
    BY StepKeepsType, StepKeepsHolder, StepKeepsCompaction
  <1>2. VectorsHaveDocuments' /\ BatchIsAppended' /\ UsableNamesHaveDocuments' /\ BatchIsNamed'
    BY StepKeepsVectors, StepKeepsBatchAppended, StepKeepsUsableNames, StepKeepsBatchNamed
  <1>3. MemoryIsExplained' /\ ClaimsAreExplained'
    BY <1>1, <1>2, StepKeepsMemoryExplained, StepKeepsClaimsExplained
  <1>4. ReachInv
    BY DEF ReachInv, CompactionIsCurrent, DocumentsReachTheIndex, Reached
  <1>5. /\ DocumentsReachTheIndex' /\ SnapshotIsCurrent'
        /\ CopyIsNoNewer' /\ MemoryCoversTheCorpus'
    BY <1>4, StepKeepsReach, StepKeepsSnapshot, StepKeepsCopy, StepKeepsMemoryCovering
  <1>6. QED
    BY <1>1, <1>2, <1>3, <1>5

(* The type invariant, with or without a lease that is kept.               *)
THEOREM IngestTypeCorrect == Spec => []TypeOK
  BY InitHasType, StepKeepsType, PTL DEF Spec

(* The whole inductive invariant of the nightly ingest: the lease, the     *)
(* corpus, the vectors, the name index, the checkpoint and the snapshot    *)
(* agree at every step, whatever fails and however often.                  *)
THEOREM IngestIsConsistent ==
  ASSUME LeaseMode = "kept"
  PROVE  Spec => []IngestInv
  BY InitEstablishesIngestInv, StepKeepsIngestInv, PTL DEF Spec

(* "Corpus first, always": no vector, in memory or in the snapshot, is     *)
(* without its document, unless that document's line ran into another.     *)
THEOREM CorpusFirst ==
  ASSUME LeaseMode = "kept"
  PROVE  Spec => []VectorsHaveDocuments
  BY IngestIsConsistent, PTL DEF IngestInv

(* A game no run will fetch again has a document or an explanation.        *)
THEOREM EveryClaimIsExplained ==
  ASSUME LeaseMode = "kept"
  PROVE  Spec => []ClaimsAreExplained
  BY IngestIsConsistent, PTL DEF IngestInv

(* A game the name index offers can be recommended by.                     *)
THEOREM EveryUsableNameHasADocument ==
  ASSUME LeaseMode = "kept"
  PROVE  Spec => []UsableNamesHaveDocuments
  BY IngestIsConsistent, PTL DEF IngestInv

(* A document without a vector is about to get one, or its run died or     *)
(* MinDB's log was lost: the orphans are all there is for a reindex to do. *)
(* This needs no lease: it holds of runs that overlap, too, and of the     *)
(* documents that the compaction of one takes from or gives back to        *)
(* another (failure-modes.md on concurrent ingests, run.py:267).           *)
THEOREM EveryDocumentReachesTheIndex == Spec => []DocumentsReachTheIndex
  <1>1. Init => ReachInv
    BY InitHasType DEF Init, ReachInv, DocumentsReachTheIndex
  <1>2. ReachInv /\ [Next]_vars => ReachInv'
    <2> SUFFICES ASSUME ReachInv, [Next]_vars PROVE ReachInv'
      OBVIOUS
    <2>1. TypeOK'
      BY StepKeepsType DEF ReachInv
    <2>2. QED
      BY <2>1, StepKeepsReach, StepKeepsLoadedReached DEF ReachInv
  <1>3. ReachInv => DocumentsReachTheIndex
    BY DEF ReachInv
  <1>4. QED
    BY <1>1, <1>2, <1>3, PTL DEF Spec

(* The document store, compaction included, and its copy lose no document  *)
(* but one whose line a kill left without its newline and the next append  *)
(* ran into.                                                               *)
THEOREM NoDocumentIsEverLost ==
  ASSUME LeaseMode = "kept"
  PROVE  Spec => DocumentsNeverLost
  <1>1. IngestInv /\ [Next]_vars
          => [documents \subseteq documents' \cup glued' /\ offsite \subseteq offsite' \cup glued']_vars
    BY CorpusOnlyGrows, PushCopiesAll DEF IngestInv, CopyIsNoNewer
  <1>2. QED
    BY IngestIsConsistent, <1>1, PTL DEF Spec, DocumentsNeverLost

(* COMPLETE is written only over a snapshot that holds a vector for every  *)
(* document, orphans excepted.                                             *)
THEOREM CompleteMeansSnapshotted ==
  ASSUME LeaseMode = "kept"
  PROVE  Spec => CompleteIsSnapshotted
  <1>1. IngestInv => (\A r \in Run : MarkComplete(r) => documents \subseteq snapshot \cup orphans)
    BY DEF IngestInv, SnapshotIsCurrent, MarkComplete, Step
  <1>2. QED
    BY IngestIsConsistent, <1>1, PTL DEF CompleteIsSnapshotted

(* Whatever a run that died left behind, and whatever another run did      *)
(* between the load of the checkpoint and the lease: each checkpoint       *)
(* written claims every document there is.                                 *)
THEOREM EveryCheckpointCatchesUp ==
  ASSUME LeaseMode = "kept"
  PROVE  Spec => CheckpointsCatchUp
  <1>1. ASSUME IngestInv, [Next]_vars, checkpoint' # checkpoint
        PROVE  documents \subseteq checkpoint'.appids
    <2>1. ASSUME NEW r \in Run, MarkPending(r) PROVE documents \subseteq checkpoint'.appids
      <3>1. documents \subseteq claims[r] \cup Documents(r)
        BY <1>1, <2>1 DEF IngestInv, MemoryCoversTheCorpus, MarkPending, Step, Seeing, Appended
      <3>2. Documents(r) \subseteq Settled(r)
        BY DEF Documents, Settled, InCorpus, Unknown, Pending
      <3>3. QED
        BY <2>1, <3>1, <3>2 DEF MarkPending
    <2>2. ASSUME NEW r \in Run, MarkComplete(r) PROVE documents \subseteq checkpoint'.appids
      BY <1>1, <2>2 DEF IngestInv, MemoryCoversTheCorpus, MarkComplete, Step, Seeing, Appended
    <2>3. QED
      BY <1>1, <2>1, <2>2, WhoTouchesTheCheckpoint
  <1>2. IngestInv /\ [Next]_vars => [checkpoint' # checkpoint => documents \subseteq checkpoint'.appids]_vars
    BY <1>1
  <1>3. QED
    BY IngestIsConsistent, <1>2, PTL DEF Spec, CheckpointsCatchUp

(* Where no two runs are alive at a time, no verdict is ever taken back:   *)
(* the lease is not needed for it, and alone does not bring it about,      *)
(* since a run loads the checkpoint before it has the lease.               *)
THEOREM NoVerdictIsTakenBack == Spec /\ []OneAtATime => ClaimsNeverShrink
  <1>1. Init => MemoryIsCurrent
    BY DEF Init, MemoryIsCurrent, Seeing, Appended
  <1>2. TypeOK /\ OneAtATime /\ MemoryIsCurrent /\ [Next]_vars => MemoryIsCurrent'
    BY StepKeepsMemoryCurrent
  <1>3. MemoryIsCurrent /\ [Next]_vars => [checkpoint.appids \subseteq checkpoint'.appids]_vars
    <2> SUFFICES ASSUME MemoryIsCurrent, [Next]_vars
                 PROVE  checkpoint.appids \subseteq checkpoint'.appids
      OBVIOUS
    <2>1. ASSUME NEW r \in Run, MarkPending(r) \/ MarkComplete(r)
          PROVE  claims[r] \subseteq checkpoint'.appids /\ checkpoint.appids \subseteq claims[r]
      BY <2>1 DEF MarkPending, MarkComplete, Step, MemoryIsCurrent, Seeing, Appended
    <2>2. QED
      BY <2>1, WhoTouchesTheCheckpoint
  <1>4. QED
    BY IngestTypeCorrect, <1>1, <1>2, <1>3, PTL DEF Spec, ClaimsNeverShrink

(* A single pod that is scheduled again and again is alone.                *)
COROLLARY OnePodTakesNoVerdictBack ==
  ASSUME \A q, r \in Run : q = r
  PROVE  Spec => ClaimsNeverShrink
  <1>1. OneAtATime
    BY DEF OneAtATime
  <1>2. QED
    BY <1>1, NoVerdictIsTakenBack, PTL

(* No plan fetches a game twice in one run (run.py:213, 222-225).          *)
THEOREM NoGameIsPlannedTwice ==
  ASSUME LeaseMode = "kept"
  PROVE  Spec => PlansListEachOnce
  <1>1. ASSUME TypeOK, MemoryCoversTheCorpus, [Next]_vars,
               NEW r \in Run, pc[r] = "plan", pc'[r] = "fetch"
        PROVE  \A i, j \in DOMAIN targets'[r] : targets'[r][i] = targets'[r][j] => i = j
    <2>1. Plan(r)
      BY <1>1, PlanIsHowToFetch
    <2>2. QED
      BY <1>1, <2>1, PlanListsEachOnce
  <1>2. IngestInv /\ [Next]_vars =>
          [\A r \in Run : pc[r] = "plan" /\ pc'[r] = "fetch" =>
             \A i, j \in DOMAIN targets'[r] : targets'[r][i] = targets'[r][j] => i = j]_vars
    BY <1>1 DEF IngestInv
  <1>3. QED
    BY IngestIsConsistent, <1>2, PTL DEF Spec, PlansListEachOnce

(* The safety half of the rotation (D65), lease or no lease: a document    *)
(* that is due and has to wait comes nearer every night, by as many places *)
(* as a night has refreshes.                                               *)
THEOREM WaitingDocumentsMoveUp == Spec => TheQueueMovesUp
  <1>1. ASSUME TypeOK, [Next]_vars, NEW r \in Run, pc[r] = "plan", pc'[r] = "fetch",
               NEW a \in Stale(listed[r]) \ Refresh(listed[r], cursor[r])
        PROVE  Cardinality(Ahead(Stale(listed[r]), a, cursor[r]))
                 = Cardinality(Ahead(Stale(listed[r]), a, plannedCursor'[r])) + MaxUpdates
    <2>1. Plan(r)
      BY <1>1, PlanIsHowToFetch
    <2>2. QED
      BY <1>1, <2>1, PlanMovesTheQueueUp
  <1>2. TypeOK /\ [Next]_vars =>
          [\A r \in Run : pc[r] = "plan" /\ pc'[r] = "fetch" =>
             LET stale == Stale(listed[r])
             IN  \A a \in stale \ Refresh(listed[r], cursor[r]) :
                   Cardinality(Ahead(stale, a, cursor[r])) =
                     Cardinality(Ahead(stale, a, plannedCursor'[r])) + MaxUpdates]_vars
    BY <1>1
  <1>3. QED
    BY IngestTypeCorrect, <1>2, PTL DEF Spec, TheQueueMovesUp
=============================================================================
