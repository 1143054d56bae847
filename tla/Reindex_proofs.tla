--------------------------- MODULE Reindex_proofs ---------------------------
(***************************************************************************)
(* Proofs about Reindex: for any games, models, jobs, deployments and      *)
(* failures, what a COMPLETE checkpoint says of the snapshot is so unless  *)
(* one of three things has happened, and a reindex that completes is whole. *)
(***************************************************************************)
EXTENDS Reindex, TLAPS

-----------------------------------------------------------------------------
(* The invariant *)

Types ==
  /\ image \in Model
  /\ documents \subseteq Game
  /\ index \in Vectors /\ snapshot \in Vectors
  /\ checkpoint \in [status : {"absent", "pending", "complete"}, stamp : Model \cup {None},
                     claims : SUBSET Game]
  /\ lease \in Job \cup {None}
  /\ job \in [Job -> [model : Model \cup {None},
                      pc : Working \cup {"idle", "acquire"}, todo : SUBSET Game,
                      claims : SUBSET Game]]
  /\ mixing \subseteq Mixtures /\ reverted \subseteq Game
  /\ deploys \in 0..MaxDeploys /\ failures \in 0..MaxFailures

Stamped == checkpoint.status = "absent" <=> checkpoint.stamp = None

(* What each job does, it does with a model and under the lease.           *)
Jobs ==
  \A j \in Job :
    /\ job[j].pc # "idle" => job[j].model \in Model
    /\ job[j].pc \in Working => lease = j
    /\ job[j].pc = "insert" => Kind[j] = "ingest"
    /\ job[j].pc \in {"renew", "final", "snapshot"} => Kind[j] = "reindex"
    /\ At(j, "ingest", "insert") => job[j].todo \subseteq documents

(* A vector has a document; what is in the snapshot is in MinDB, maybe of  *)
(* another model.                                                          *)
Vectored ==
  \A g \in Game : /\ index[g] # None => g \in documents
                  /\ snapshot[g] # None => index[g] # None

(* A working reindex: what it has done, and what it has said.              *)
OnCourse(j) ==
  /\ \/ "reindex unfinished" \in mixing
     \/ job[j].pc = "ready" /\ job[j].todo = documents
  /\ documents # {} /\ job[j].todo \subseteq documents
  /\ \A g \in documents : g \notin job[j].todo /\ g \notin reverted => index[g] = job[j].model
  /\ checkpoint.claims \subseteq job[j].claims
  /\ job[j].pc \in {"final", "saved"} => job[j].todo = {} /\ documents \subseteq job[j].claims
  /\ job[j].pc = "saved" => snapshot = index

Reindexing == \A j \in Job : Kind[j] = "reindex" /\ job[j].pc \in Working => OnCourse(j)

(* With nothing mixed, the vectors are of the model of the stamp; before   *)
(* there is one, of the model of the ingest that is about to write it.     *)
OfOneModel(m) == OfModel(index, m) /\ OfModel(snapshot, m)

FirstRun(j) == At(j, "ingest", "mark") /\ OfOneModel(job[j].model)

Unmixed ==
  mixing = {} =>
    /\ checkpoint.status # "absent" => OfOneModel(checkpoint.stamp)
    /\ checkpoint.status = "absent" => OfOneModel(None) \/ \E j \in Job : FirstRun(j)
    /\ \A j \in Job : Kind[j] = "ingest" /\ job[j].pc \in Working => AssertIngestable(job[j].model)

ReindexInv == Types /\ Stamped /\ Jobs /\ Vectored /\ Reindexing /\ Unmixed

-----------------------------------------------------------------------------
(* Types *)

LEMMA InvAtFirst == Init => ReindexInv
BY NoneAssumption, BoundAssumption
   DEF Init, ReindexInv, Types, Stamped, Jobs, Vectored, Reindexing, OnCourse, Unmixed, OfOneModel, OfModel,
       NoCheckpoint, NoJob, Working, Vectors, At, Mixtures

JobState == [model : Model \cup {None}, pc : Working \cup {"idle", "acquire"},
             todo : SUBSET Game, claims : SUBSET Game]

(* How steps change a job.                                                 *)
LEMMA JobSteps ==
  ASSUME Types, NEW j \in Job
  PROVE  /\ job[j] \in JobState /\ NoJob \in JobState
         /\ \A new \in JobState : [job EXCEPT ![j] = new] \in [Job -> JobState]
         /\ \A pc \in Working : [job EXCEPT ![j].pc = pc] \in [Job -> JobState]
         /\ \A pc \in Working, todo \in SUBSET Game, claims \in SUBSET Game :
              /\ [job EXCEPT ![j].pc = pc, ![j].todo = todo] \in [Job -> JobState]
              /\ [job EXCEPT ![j].pc = pc, ![j].claims = claims] \in [Job -> JobState]
              /\ [job EXCEPT ![j].pc = pc, ![j].todo = todo, ![j].claims = claims]
                   \in [Job -> JobState]
<1>1. job \in [Job -> JobState] BY DEF Types, JobState
<1>2. NoJob \in JobState BY DEF NoJob, JobState
<1>3. \A new \in JobState : [job EXCEPT ![j] = new] \in [Job -> JobState] BY <1>1
<1>4. \A pc \in Working : [job EXCEPT ![j].pc = pc] \in [Job -> JobState]
  BY <1>1 DEF JobState
<1>5. ASSUME NEW pc \in Working, NEW todo \in SUBSET Game, NEW claims \in SUBSET Game
      PROVE  /\ [job EXCEPT ![j].pc = pc, ![j].todo = todo] \in [Job -> JobState]
             /\ [job EXCEPT ![j].pc = pc, ![j].claims = claims] \in [Job -> JobState]
             /\ [job EXCEPT ![j].pc = pc, ![j].todo = todo, ![j].claims = claims]
                   \in [Job -> JobState]
  BY <1>1 DEF JobState
<1> QED BY <1>1, <1>2, <1>3, <1>4, <1>5

(* The other variables, one by one.                                        *)
OtherTypes ==
  /\ image \in Model
  /\ documents \subseteq Game
  /\ index \in Vectors /\ snapshot \in Vectors
  /\ checkpoint \in [status : {"absent", "pending", "complete"}, stamp : Model \cup {None},
                     claims : SUBSET Game]
  /\ lease \in Job \cup {None}
  /\ mixing \subseteq Mixtures /\ reverted \subseteq Game
  /\ deploys \in 0..MaxDeploys /\ failures \in 0..MaxFailures

LEMMA JobsTyped ==
  ASSUME Types, [Next]_vars
  PROVE  job' \in [Job -> JobState]
<1>0. job \in [Job -> JobState] /\ documents \subseteq Game BY DEF Types, JobState
<1>a. ASSUME NEW j \in Job, job' = [job EXCEPT ![j] = NoJob] PROVE job' \in [Job -> JobState]
  BY <1>a, JobSteps
<1>b. ASSUME NEW j \in Job, NEW pc \in Working, job' = [job EXCEPT ![j].pc = pc]
      PROVE  job' \in [Job -> JobState]
  BY <1>b, JobSteps
<1>c. \A j \in Job : job[j] \in JobState BY <1>0
<1>1. ASSUME NEW j \in Job, StartIngest(j) PROVE job' \in [Job -> JobState]
  <2>1. [model |-> image, pc |-> "acquire", todo |-> {}, claims |-> checkpoint.claims] \in JobState
    BY DEF Types, JobState
  <2> QED BY <1>1, <2>1, JobSteps DEF StartIngest
<1>2. ASSUME NEW j \in Job, StartReindex(j) PROVE job' \in [Job -> JobState]
  <2>1. [NoJob EXCEPT !.model = image, !.pc = "acquire"] \in JobState
    BY DEF Types, JobState, NoJob
  <2> QED BY <1>2, <2>1, JobSteps DEF StartReindex
<1>3. ASSUME NEW j \in Job, Declines(j) \/ Dies(j) \/ ReindexLosesLease(j) \/ IngestCompletes(j)
                            \/ ReindexCompletes(j)
      PROVE job' \in [Job -> JobState]
  BY <1>3, <1>a DEF Declines, Dies, ReindexLosesLease, IngestCompletes, ReindexCompletes, Exit
<1>4. ASSUME NEW j \in Job, AcquireIngest(j) PROVE job' \in [Job -> JobState]
  <2>1. job' = [job EXCEPT ![j].pc = "ready", ![j].claims = job[j].claims \cup documents]
    BY <1>4 DEF AcquireIngest
  <2>2. job[j].claims \cup documents \in SUBSET Game BY <1>0, <1>c DEF JobState
  <2> QED BY <2>1, <2>2, JobSteps DEF Working
<1>5. ASSUME NEW j \in Job, AcquireReindex(j) PROVE job' \in [Job -> JobState]
  <2>1. checkpoint.claims \in SUBSET Game BY DEF Types
  <2> QED BY <1>5, <1>0, <2>1, JobSteps DEF Working, AcquireReindex
<1>6. ASSUME NEW j \in Job, Append(j) PROVE job' \in [Job -> JobState]
  <2>1. PICK g \in Game, isDocument \in BOOLEAN :
          job' = [job EXCEPT ![j].pc = IF isDocument THEN "insert" ELSE "mark", ![j].todo = {g}]
    BY <1>6 DEF Append
  <2> DEFINE pc == IF isDocument THEN "insert" ELSE "mark"
  <2>2. pc \in Working /\ {g} \in SUBSET Game BY DEF Working
  <2>3. job' = [job EXCEPT ![j].pc = pc, ![j].todo = {g}] BY <2>1
  <2> HIDE DEF pc
  <2> QED BY <2>2, <2>3, JobSteps
<1>7. ASSUME NEW j \in Job, IngestInserts(j) \/ ReindexRenews(j) \/ ReindexSnapshots(j)
      PROVE job' \in [Job -> JobState]
  BY <1>7, <1>b DEF IngestInserts, ReindexRenews, ReindexSnapshots, GoTo, Working
<1>8. ASSUME NEW j \in Job, ReindexInserts(j) PROVE job' \in [Job -> JobState]
  <2>1. PICK g \in Game : job' = [job EXCEPT ![j].pc = "mark", ![j].todo = job[j].todo \ {g}]
    BY <1>8, <1>c DEF ReindexInserts, JobState
  <2> DEFINE todo == job[j].todo \ {g}
  <2>2. todo \in SUBSET Game /\ "mark" \in Working BY <1>c DEF JobState, Working
  <2>3. job' = [job EXCEPT ![j].pc = "mark", ![j].todo = todo] BY <2>1
  <2> HIDE DEF todo
  <2> QED BY <2>2, <2>3, JobSteps
<1>9. ASSUME NEW j \in Job, IngestMarks(j) PROVE job' \in [Job -> JobState]
  <2>1. job[j].claims \cup job[j].todo \in SUBSET Game BY <1>c DEF JobState
  <2> QED BY <1>9, <2>1, JobSteps DEF Working, IngestMarks
<1>10. ASSUME NEW j \in Job, ReindexMarks(j) PROVE job' \in [Job -> JobState]
  <2> DEFINE claims == job[j].claims \cup (documents \ job[j].todo)
  <2>1. claims \in SUBSET Game BY <1>0, <1>c DEF JobState
  <2>2. \/ job' = [job EXCEPT ![j].pc = "renew"]
        \/ job' = [job EXCEPT ![j].pc = "snapshot", ![j].claims = claims]
    BY <1>10 DEF ReindexMarks, GoTo
  <2>3. "renew" \in Working /\ "snapshot" \in Working BY DEF Working
  <2> HIDE DEF claims
  <2>4. CASE job' = [job EXCEPT ![j].pc = "renew"] BY <2>3, <2>4, JobSteps
  <2>5. CASE job' = [job EXCEPT ![j].pc = "snapshot", ![j].claims = claims]
    BY <2>1, <2>3, <2>5, JobSteps
  <2> QED BY <2>2, <2>4, <2>5
<1>11. ASSUME NEW j \in Job, ReindexMarksAll(j) PROVE job' \in [Job -> JobState]
  <2> DEFINE claims == job[j].claims \cup documents
  <2>1. claims \in SUBSET Game /\ "final" \in Working BY <1>0, <1>c DEF JobState, Working
  <2>2. job' = [job EXCEPT ![j].pc = "final", ![j].claims = claims]
    BY <1>11 DEF ReindexMarksAll
  <2> HIDE DEF claims
  <2> QED BY <2>1, <2>2, JobSteps
<1>12. ASSUME NEW j \in Job, IngestSnapshots(j) \/ ReindexFinal(j) PROVE job' \in [Job -> JobState]
  BY <1>12, <1>a, <1>b DEF IngestSnapshots, ReindexFinal, GoTo, Exit, Working
<1>13. CASE Deploy \/ LeaseExpires \/ SaveOnTheClock \/ RestartsWithoutLog \/ UNCHANGED vars
  BY <1>0, <1>13 DEF Deploy, LeaseExpires, SaveOnTheClock, RestartsWithoutLog, vars
<1> QED
  BY <1>1, <1>2, <1>3, <1>4, <1>5, <1>6, <1>7, <1>8, <1>9, <1>10, <1>11, <1>12, <1>13
     DEF Next, Ingests, Reindexes

LEMMA OthersTyped ==
  ASSUME Types, Jobs, [Next]_vars
  PROVE  OtherTypes'
<1>0. OtherTypes BY DEF Types, OtherTypes
<1>a. \A j \in Job : /\ job[j].claims \subseteq Game /\ job[j].todo \subseteq Game
                     /\ job[j].pc # "idle" => job[j].model \in Model
  BY DEF Types, Jobs
<1>1. CASE Deploy \/ LeaseExpires \/ SaveOnTheClock \/ RestartsWithoutLog \/ UNCHANGED vars
  BY <1>0, <1>1, BoundAssumption
     DEF Deploy, LeaseExpires, SaveOnTheClock, RestartsWithoutLog, Failing, OtherTypes, bounds, vars
<1>2. ASSUME NEW j \in Job, StartIngest(j) \/ StartReindex(j) \/ Declines(j) \/ ReindexRenews(j)
      PROVE  OtherTypes'
  BY <1>0, <1>2 DEF StartIngest, StartReindex, Declines, ReindexRenews, OtherTypes, bounds
<1>3. ASSUME NEW j \in Job, Dies(j) PROVE OtherTypes'
  <2>1. lease' \in Job \cup {None} BY <1>0, <1>3 DEF Dies, OtherTypes
  <2>2. mixing' \subseteq Mixtures
    <3>1. mixing' \subseteq mixing \cup {"first run died"} BY <1>3 DEF Dies
    <3> QED BY <1>0, <3>1 DEF OtherTypes, Mixtures
  <2>3. failures' \in 0..MaxFailures /\ deploys' = deploys
    <3>1. failures < MaxFailures /\ failures' = failures + 1 /\ deploys' = deploys
      BY <1>3 DEF Dies, Failing
    <3> QED BY <1>0, <3>1, BoundAssumption DEF OtherTypes
  <2> QED BY <1>0, <1>3, <2>1, <2>2, <2>3 DEF Dies, OtherTypes
<1>4. ASSUME NEW j \in Job, ReindexLosesLease(j) PROVE OtherTypes'
  BY <1>0, <1>4, BoundAssumption DEF ReindexLosesLease, Exit, Failing, OtherTypes, bounds
<1>5. ASSUME NEW j \in Job, AcquireIngest(j) \/ AcquireReindex(j) PROVE OtherTypes'
  BY <1>0, <1>5 DEF AcquireIngest, AcquireReindex, OtherTypes, bounds, Mixtures
<1>6. ASSUME NEW j \in Job, Append(j) PROVE OtherTypes'
  BY <1>0, <1>6 DEF Append, OtherTypes, bounds
<1>7. ASSUME NEW j \in Job, IngestInserts(j) PROVE OtherTypes'
  <2>1. job[j].model \in Model BY <1>7, <1>a DEF IngestInserts, At
  <2>2. index' \in Vectors
    BY <1>0, <1>7, <2>1 DEF IngestInserts, InsertVectors, OtherTypes, Vectors
  <2> QED BY <1>0, <1>7, <2>2 DEF IngestInserts, OtherTypes, bounds
<1>8. ASSUME NEW j \in Job, ReindexInserts(j) PROVE OtherTypes'
  <2>1. job[j].model \in Model BY <1>8, <1>a DEF ReindexInserts, At
  <2>2. index' \in Vectors
    BY <1>0, <1>8, <2>1 DEF ReindexInserts, InsertVectors, OtherTypes, Vectors
  <2> QED BY <1>0, <1>8, <2>2 DEF ReindexInserts, OtherTypes, bounds, Mixtures
<1>b. ASSUME NEW j \in Job, NEW claims, Save(j, "pending", claims) \/ Save(j, "complete", claims),
             claims \subseteq Game, job[j].pc # "idle"
      PROVE  checkpoint' \in [status : {"absent", "pending", "complete"}, stamp : Model \cup {None},
                              claims : SUBSET Game]
  BY <1>a, <1>b DEF Save
<1>9. ASSUME NEW j \in Job, IngestMarks(j) PROVE OtherTypes'
  BY <1>0, <1>9, <1>a, <1>b DEF IngestMarks, OtherTypes, bounds, At
<1>10. ASSUME NEW j \in Job, ReindexMarks(j) PROVE OtherTypes'
  <2>1. CASE UNCHANGED checkpoint BY <1>0, <1>10, <2>1 DEF ReindexMarks, OtherTypes, bounds
  <2>2. CASE Save(j, "pending", job[j].claims \cup (documents \ job[j].todo))
    <3>1. job[j].claims \cup (documents \ job[j].todo) \subseteq Game
      BY <1>0, <1>a DEF OtherTypes
    <3>2. job[j].pc # "idle" BY <1>10 DEF ReindexMarks, At
    <3> QED BY <1>0, <1>10, <1>b, <2>2, <3>1, <3>2 DEF ReindexMarks, OtherTypes, bounds
  <2> QED BY <1>10, <2>1, <2>2 DEF ReindexMarks
<1>11. ASSUME NEW j \in Job, ReindexMarksAll(j) PROVE OtherTypes'
  <2>1. job[j].claims \cup documents \subseteq Game BY <1>0, <1>a DEF OtherTypes
  <2>2. job[j].pc # "idle" BY <1>11 DEF ReindexMarksAll, At
  <2> QED BY <1>0, <1>11, <1>b, <2>1, <2>2 DEF ReindexMarksAll, OtherTypes, bounds
<1>12. ASSUME NEW j \in Job, IngestSnapshots(j) \/ ReindexSnapshots(j) \/ ReindexFinal(j)
       PROVE  OtherTypes'
  BY <1>0, <1>12, BoundAssumption
     DEF IngestSnapshots, ReindexSnapshots, ReindexFinal, TakeSnapshot, Failing, Exit, OtherTypes,
         bounds
<1>13. ASSUME NEW j \in Job, IngestCompletes(j) \/ ReindexCompletes(j) PROVE OtherTypes'
  <2>1. job[j].pc # "idle" BY <1>13 DEF IngestCompletes, ReindexCompletes, At
  <2>2. checkpoint' \in [status : {"absent", "pending", "complete"}, stamp : Model \cup {None},
                         claims : SUBSET Game]
    BY <1>13, <1>a, <1>b, <2>1 DEF IngestCompletes, ReindexCompletes
  <2> QED
    BY <1>0, <1>13, <2>2 DEF IngestCompletes, ReindexCompletes, Exit, OtherTypes, bounds
<1> QED
  BY <1>1, <1>2, <1>3, <1>4, <1>5, <1>6, <1>7, <1>8, <1>9, <1>10, <1>11, <1>12, <1>13
     DEF Next, Ingests, Reindexes

LEMMA TypesAreKept == ReindexInv /\ [Next]_vars => Types'
BY JobsTyped, OthersTyped DEF ReindexInv, Types, OtherTypes, JobState

-----------------------------------------------------------------------------
(* The other conjuncts *)

(* A job's fields after a step that sets some of them; other jobs stay.    *)
Moved(j, model, pc, todo, claims) ==
  /\ job'[j].model = model /\ job'[j].pc = pc /\ job'[j].todo = todo /\ job'[j].claims = claims
  /\ \A i \in Job : i # j => job'[i] = job[i]

LEMMA Moves ==
  ASSUME Types, NEW j \in Job
  PROVE  /\ StartIngest(j) => Moved(j, image, "acquire", {}, checkpoint.claims)
         /\ StartReindex(j) => Moved(j, image, "acquire", {}, {})
         /\ Declines(j) \/ Dies(j) \/ ReindexLosesLease(j) \/ IngestCompletes(j)
              \/ ReindexCompletes(j) => Moved(j, None, "idle", {}, {})
         /\ AcquireIngest(j) => Moved(j, job[j].model, "ready", job[j].todo, job[j].claims \cup documents)
         /\ AcquireReindex(j) => Moved(j, job[j].model, "ready", documents, checkpoint.claims)
         /\ IngestInserts(j) => Moved(j, job[j].model, "mark", job[j].todo, job[j].claims)
         /\ IngestMarks(j) => Moved(j, job[j].model, "ready", {}, job[j].claims \cup job[j].todo)
         /\ IngestSnapshots(j) \/ ReindexFinal(j) =>
              \/ /\ Moved(j, job[j].model, "saved", job[j].todo, job[j].claims)
                 /\ snapshot' = index /\ lease' = lease
              \/ /\ Moved(j, None, "idle", {}, {})
                 /\ snapshot' = snapshot /\ lease' = IF lease = j THEN None ELSE lease
         /\ ReindexRenews(j) => Moved(j, job[j].model, "ready", job[j].todo, job[j].claims)
         /\ ReindexSnapshots(j) => Moved(j, job[j].model, "renew", job[j].todo, job[j].claims)
         /\ ReindexMarksAll(j) => Moved(j, job[j].model, "final", job[j].todo, job[j].claims \cup documents)
<1>0. job \in [Job -> JobState] BY DEF Types, JobState
<1>1. StartIngest(j) => Moved(j, image, "acquire", {}, checkpoint.claims)
  BY <1>0 DEF StartIngest, Moved
<1>2. StartReindex(j) => Moved(j, image, "acquire", {}, {})
  BY <1>0 DEF StartReindex, Moved, NoJob
<1>3. Declines(j) \/ Dies(j) \/ ReindexLosesLease(j) \/ IngestCompletes(j)
        \/ ReindexCompletes(j) => Moved(j, None, "idle", {}, {})
  <2>1. job' = [job EXCEPT ![j] = NoJob] => Moved(j, None, "idle", {}, {})
    BY <1>0 DEF Moved, NoJob
  <2> QED BY <2>1 DEF Declines, Dies, ReindexLosesLease, IngestCompletes, ReindexCompletes, Exit
<1>4. AcquireIngest(j) =>
        Moved(j, job[j].model, "ready", job[j].todo, job[j].claims \cup documents)
  <2>1. job' = [job EXCEPT ![j].pc = "ready", ![j].claims = job[j].claims \cup documents]
        => Moved(j, job[j].model, "ready", job[j].todo, job[j].claims \cup documents)
    BY <1>0 DEF Moved, JobState
  <2> QED BY <2>1 DEF AcquireIngest
<1>5. AcquireReindex(j) => Moved(j, job[j].model, "ready", documents, checkpoint.claims)
  BY <1>0 DEF AcquireReindex, Moved, JobState
<1>6. IngestInserts(j) => Moved(j, job[j].model, "mark", job[j].todo, job[j].claims)
  BY <1>0 DEF IngestInserts, GoTo, Moved, JobState
<1>7. IngestMarks(j) => Moved(j, job[j].model, "ready", {}, job[j].claims \cup job[j].todo)
  BY <1>0 DEF IngestMarks, Moved, JobState
<1>8. IngestSnapshots(j) \/ ReindexFinal(j) =>
        \/ /\ Moved(j, job[j].model, "saved", job[j].todo, job[j].claims)
           /\ snapshot' = index /\ lease' = lease
        \/ /\ Moved(j, None, "idle", {}, {})
           /\ snapshot' = snapshot /\ lease' = IF lease = j THEN None ELSE lease
  BY <1>0 DEF IngestSnapshots, ReindexFinal, TakeSnapshot, GoTo, Exit, Moved, NoJob, JobState
<1>9. ReindexRenews(j) => Moved(j, job[j].model, "ready", job[j].todo, job[j].claims)
  BY <1>0 DEF ReindexRenews, GoTo, Moved, JobState
<1>10. ReindexSnapshots(j) => Moved(j, job[j].model, "renew", job[j].todo, job[j].claims)
  BY <1>0 DEF ReindexSnapshots, GoTo, Moved, JobState
<1>11. ReindexMarksAll(j) =>
         Moved(j, job[j].model, "final", job[j].todo, job[j].claims \cup documents)
  BY <1>0 DEF ReindexMarksAll, Moved, JobState
<1> QED BY <1>1, <1>2, <1>3, <1>4, <1>5, <1>6, <1>7, <1>8, <1>9, <1>10, <1>11

LEMMA MovesOfGames ==
  ASSUME Types, NEW j \in Job
  PROVE  /\ Append(j) => \E g \in Game :
              \/ Moved(j, job[j].model, "insert", {g}, job[j].claims) /\ documents' = documents \cup {g}
              \/ Moved(j, job[j].model, "mark", {g}, job[j].claims) /\ documents' = documents
         /\ ReindexInserts(j) => \E g \in job[j].todo :
              /\ Moved(j, job[j].model, "mark", job[j].todo \ {g}, job[j].claims)
              /\ InsertVectors(j, {g}) /\ reverted' = reverted \ {g}
         /\ ReindexMarks(j) =>
              \/ /\ Moved(j, job[j].model, "renew", job[j].todo, job[j].claims)
                 /\ checkpoint' = checkpoint
              \/ /\ Moved(j, job[j].model, "snapshot", job[j].todo,
                          job[j].claims \cup (documents \ job[j].todo))
                 /\ Save(j, "pending", job[j].claims \cup (documents \ job[j].todo))
<1>0. job \in [Job -> JobState] BY DEF Types, JobState
<1>1. ASSUME Append(j)
      PROVE  \E g \in Game :
        \/ Moved(j, job[j].model, "insert", {g}, job[j].claims) /\ documents' = documents \cup {g}
        \/ Moved(j, job[j].model, "mark", {g}, job[j].claims) /\ documents' = documents
  <2>1. PICK g \in Game, isDocument \in BOOLEAN :
          /\ documents' = IF isDocument THEN documents \cup {g} ELSE documents
          /\ job' = [job EXCEPT ![j].pc = IF isDocument THEN "insert" ELSE "mark", ![j].todo = {g}]
    BY <1>1 DEF Append
  <2>2. CASE isDocument
    <3>1. Moved(j, job[j].model, "insert", {g}, job[j].claims)
      BY <1>0, <2>1, <2>2 DEF Moved, JobState
    <3> QED BY <2>1, <2>2, <3>1
  <2>3. CASE ~isDocument
    <3>1. Moved(j, job[j].model, "mark", {g}, job[j].claims)
      BY <1>0, <2>1, <2>3 DEF Moved, JobState
    <3> QED BY <2>1, <2>3, <3>1
  <2> QED BY <2>2, <2>3
<1>2. ASSUME ReindexInserts(j)
      PROVE  \E g \in job[j].todo :
              /\ Moved(j, job[j].model, "mark", job[j].todo \ {g}, job[j].claims)
              /\ InsertVectors(j, {g}) /\ reverted' = reverted \ {g}
  <2>1. PICK g \in job[j].todo :
          /\ InsertVectors(j, {g}) /\ reverted' = reverted \ {g}
          /\ job' = [job EXCEPT ![j].pc = "mark", ![j].todo = job[j].todo \ {g}]
    BY <1>0, <1>2 DEF ReindexInserts, JobState
  <2>2. Moved(j, job[j].model, "mark", job[j].todo \ {g}, job[j].claims)
    BY <1>0, <2>1 DEF Moved, JobState
  <2> QED BY <2>1, <2>2
<1>3. ASSUME ReindexMarks(j)
      PROVE  \/ /\ Moved(j, job[j].model, "renew", job[j].todo, job[j].claims)
                /\ checkpoint' = checkpoint
             \/ /\ Moved(j, job[j].model, "snapshot", job[j].todo,
                         job[j].claims \cup (documents \ job[j].todo))
                /\ Save(j, "pending", job[j].claims \cup (documents \ job[j].todo))
  BY <1>0, <1>3 DEF ReindexMarks, GoTo, Moved, JobState
<1> QED BY <1>1, <1>2, <1>3

(* Whom a step belongs to.                                                 *)
Outside == Deploy \/ SaveOnTheClock \/ RestartsWithoutLog \/ UNCHANGED vars

Leaves(j) == Declines(j) \/ Dies(j) \/ ReindexLosesLease(j) \/ IngestCompletes(j) \/ ReindexCompletes(j)

LEMMA JobsAreKept ==
  ASSUME ReindexInv, [Next]_vars
  PROVE  Jobs'
<1> USE DEF ReindexInv
<1>0. Types /\ Jobs OBVIOUS
<1>a. \A j \in Job : job[j].model \in Model \cup {None} /\ j # None
  BY NoneAssumption DEF Types
<1>b. image \in Model BY DEF Types
<1>1. CASE Outside
  BY <1>0, <1>1 DEF Outside, Deploy, SaveOnTheClock, RestartsWithoutLog, vars, Jobs, At
<1>2. CASE LeaseExpires BY <1>0, <1>2 DEF LeaseExpires, Jobs, At
<1>3. ASSUME NEW j \in Job, StartIngest(j) \/ StartReindex(j) PROVE Jobs'
  <2>1. job'[j].model = image /\ job'[j].pc = "acquire" /\ \A i \in Job : i # j => job'[i] = job[i]
    BY <1>3, Moves DEF Moved
  <2>2. lease' = lease /\ documents' = documents BY <1>3 DEF StartIngest, StartReindex
  <2> QED BY <1>0, <1>b, <2>1, <2>2 DEF Jobs, At, Working
<1>4. ASSUME NEW j \in Job, Leaves(j) PROVE Jobs'
  <2>1. job'[j].pc = "idle" /\ \A i \in Job : i # j => job'[i] = job[i]
    BY <1>4, Moves DEF Moved, Leaves
  <2>2. /\ documents' = documents
        /\ lease' = lease \/ lease = j
    BY <1>4 DEF Leaves, Declines, Dies, ReindexLosesLease, IngestCompletes, ReindexCompletes, Exit
  <2> QED BY <1>0, <2>1, <2>2 DEF Jobs, At, Working
<1>5. ASSUME NEW j \in Job, AcquireIngest(j) \/ AcquireReindex(j) PROVE Jobs'
  <2>1. job'[j].model = job[j].model /\ job'[j].pc = "ready" /\ \A i \in Job : i # j => job'[i] = job[i]
    BY <1>5, Moves DEF Moved
  <2>2. lease = None /\ lease' = j /\ documents' = documents /\ job[j].pc = "acquire"
    BY <1>5 DEF AcquireIngest, AcquireReindex, At
  <2> QED BY <1>0, <1>a, <2>1, <2>2 DEF Jobs, At, Working
<1>6. ASSUME NEW j \in Job, Append(j) PROVE Jobs'
  <2>1. PICK g \in Game :
          \/ Moved(j, job[j].model, "insert", {g}, job[j].claims) /\ documents' = documents \cup {g}
          \/ Moved(j, job[j].model, "mark", {g}, job[j].claims) /\ documents' = documents
    BY <1>6, MovesOfGames
  <2>2. lease' = lease /\ job[j].pc = "ready" /\ Kind[j] = "ingest" BY <1>6 DEF Append, At
  <2> QED BY <1>0, <2>1, <2>2 DEF Jobs, At, Working, Moved
<1>7. ASSUME NEW j \in Job, IngestInserts(j) \/ IngestMarks(j) \/ ReindexRenews(j) PROVE Jobs'
  <2>1. job'[j].model = job[j].model /\ job'[j].pc \in {"mark", "ready"}
        /\ \A i \in Job : i # j => job'[i] = job[i]
    BY <1>7, Moves DEF Moved
  <2>2. lease' = lease /\ documents' = documents /\ job[j].pc \in Working
    BY <1>7 DEF IngestInserts, IngestMarks, ReindexRenews, At, Working
  <2> QED BY <1>0, <2>1, <2>2 DEF Jobs, At, Working
<1>8. ASSUME NEW j \in Job,
             ReindexInserts(j) \/ ReindexMarks(j) \/ ReindexSnapshots(j) \/ ReindexMarksAll(j)
      PROVE  Jobs'
  <2>1. job'[j].model = job[j].model /\ job'[j].pc \in {"mark", "snapshot", "renew", "final"}
        /\ \A i \in Job : i # j => job'[i] = job[i]
    BY <1>8, Moves, MovesOfGames DEF Moved
  <2>2. lease' = lease /\ documents' = documents /\ job[j].pc \in Working /\ Kind[j] = "reindex"
    BY <1>8 DEF ReindexInserts, ReindexMarks, ReindexSnapshots, ReindexMarksAll, At, Working
  <2> QED BY <1>0, <2>1, <2>2 DEF Jobs, At, Working
<1>9. ASSUME NEW j \in Job, IngestSnapshots(j) \/ ReindexFinal(j) PROVE Jobs'
  <2>1. /\ \A i \in Job : i # j => job'[i] = job[i]
        /\ \/ job'[j].model = job[j].model /\ job'[j].pc = "saved" /\ lease' = lease
           \/ job'[j].pc = "idle" /\ lease' = IF lease = j THEN None ELSE lease
    BY <1>9, Moves DEF Moved
  <2>2. documents' = documents /\ job[j].pc \in Working
    BY <1>9 DEF IngestSnapshots, ReindexFinal, At, Working
  <2> QED BY <1>0, <2>1, <2>2 DEF Jobs, At, Working
<1> QED
  BY <1>1, <1>2, <1>3, <1>4, <1>5, <1>6, <1>7, <1>8, <1>9
     DEF Next, Ingests, Reindexes, Outside, Leaves

(* Only Save and those who call it change the checkpoint.                  *)
LEMMA StampedIsKept ==
  ASSUME ReindexInv, [Next]_vars
  PROVE  Stamped'
<1> USE DEF ReindexInv
<1>0. Stamped /\ \A j \in Job : job[j].pc # "idle" => job[j].model \in Model BY DEF Jobs
<1>1. CASE UNCHANGED checkpoint BY <1>0, <1>1 DEF Stamped
<1>2. ASSUME NEW j \in Job, IngestMarks(j) \/ IngestCompletes(j) \/ ReindexMarks(j)
                            \/ ReindexMarksAll(j) \/ ReindexCompletes(j),
             ~UNCHANGED checkpoint
      PROVE  Stamped'
  <2>1. /\ job[j].pc # "idle"
        /\ checkpoint'.status \in {"pending", "complete"} /\ checkpoint'.stamp = job[j].model
    BY <1>2 DEF IngestMarks, IngestCompletes, ReindexMarks, ReindexMarksAll, ReindexCompletes, Save, At
  <2> QED BY <1>0, <2>1, NoneAssumption DEF Stamped
<1>3. \/ UNCHANGED checkpoint
      \/ \E j \in Job : IngestMarks(j) \/ IngestCompletes(j) \/ ReindexMarks(j)
                        \/ ReindexMarksAll(j) \/ ReindexCompletes(j)
  BY DEF Next, Ingests, Reindexes, Deploy, SaveOnTheClock, RestartsWithoutLog, LeaseExpires, vars,
         StartIngest, StartReindex, Declines, Dies, ReindexLosesLease, AcquireIngest, AcquireReindex,
         Append, IngestInserts, ReindexInserts, ReindexRenews, IngestSnapshots, ReindexSnapshots,
         ReindexFinal
<1> QED BY <1>1, <1>2, <1>3

LEMMA VectoredIsKept ==
  ASSUME ReindexInv, [Next]_vars
  PROVE  Vectored'
<1> USE DEF ReindexInv
<1>0. Vectored /\ index \in Vectors /\ snapshot \in Vectors /\ Jobs BY DEF Types
<1>1. CASE UNCHANGED <<index, snapshot>> /\ documents \subseteq documents'
  BY <1>0, <1>1 DEF Vectored
<1>2. CASE UNCHANGED <<index, documents>> /\ snapshot' = index BY <1>0, <1>2 DEF Vectored
<1>3. CASE RestartsWithoutLog BY <1>0, <1>3 DEF RestartsWithoutLog, Vectored
<1>4. ASSUME NEW j \in Job, IngestInserts(j) PROVE Vectored'
  <2>1. job[j].todo \subseteq documents /\ job[j].model # None
    BY <1>0, <1>4, NoneAssumption DEF IngestInserts, Jobs, At
  <2> QED BY <1>0, <1>4, <2>1 DEF IngestInserts, InsertVectors, Vectored
<1>5. ASSUME NEW j \in Job, ReindexInserts(j) PROVE Vectored'
  <2>1. job[j].model # None BY <1>0, <1>5, NoneAssumption DEF ReindexInserts, Jobs, At
  <2>2. job[j].todo \subseteq documents BY <1>5 DEF ReindexInserts, Reindexing, OnCourse, At, Working
  <2>3. PICK g \in job[j].todo : InsertVectors(j, {g})
    BY <1>5 DEF ReindexInserts
  <2> QED BY <1>0, <1>5, <2>1, <2>2, <2>3 DEF ReindexInserts, InsertVectors, Vectored
<1>6. \/ UNCHANGED <<index, snapshot>> /\ documents \subseteq documents'
      \/ UNCHANGED <<index, documents>> /\ snapshot' = index
      \/ RestartsWithoutLog \/ \E j \in Job : IngestInserts(j) \/ ReindexInserts(j)
  <2>1. CASE Deploy \/ SaveOnTheClock \/ LeaseExpires \/ RestartsWithoutLog \/ UNCHANGED vars
    BY <2>1 DEF Deploy, SaveOnTheClock, LeaseExpires, vars
  <2>2. ASSUME NEW j \in Job,
               StartIngest(j) \/ StartReindex(j) \/ Leaves(j) \/ AcquireIngest(j)
               \/ AcquireReindex(j) \/ Append(j)
        PROVE  UNCHANGED <<index, snapshot>> /\ documents \subseteq documents'
    BY <2>2 DEF StartIngest, StartReindex, Leaves, Declines, Dies, ReindexLosesLease, IngestCompletes,
                ReindexCompletes, AcquireIngest, AcquireReindex, Append
  <2>3. ASSUME NEW j \in Job, IngestMarks(j) \/ ReindexMarks(j) \/ ReindexMarksAll(j) \/ ReindexRenews(j)
        PROVE  UNCHANGED <<index, snapshot, documents>>
    BY <2>3 DEF IngestMarks, ReindexMarks, ReindexMarksAll, ReindexRenews
  <2>4. ASSUME NEW j \in Job, IngestSnapshots(j) \/ ReindexSnapshots(j) \/ ReindexFinal(j)
        PROVE  UNCHANGED <<index, documents>> /\ snapshot' \in {snapshot, index}
    BY <2>4 DEF IngestSnapshots, ReindexSnapshots, ReindexFinal, TakeSnapshot
  <2> QED BY <2>1, <2>2, <2>3, <2>4 DEF Next, Ingests, Reindexes, Leaves
<1> QED BY <1>1, <1>2, <1>3, <1>4, <1>5, <1>6

(* The lease is one job's.                                                 *)
LEMMA OneAtWork ==
  ASSUME Jobs
  PROVE  /\ \A i, j \in Job : job[i].pc \in Working /\ job[j].pc \in Working => i = j
         /\ lease = None => \A j \in Job : job[j].pc \notin Working
BY NoneAssumption DEF Jobs

LEMMA ReindexingIsKept ==
  ASSUME ReindexInv, [Next]_vars
  PROVE  Reindexing'
<1> USE DEF ReindexInv
<1>0. Types /\ Jobs /\ Reindexing OBVIOUS
<1> DEFINE NobodyAfter == \A i \in Job : ~(Kind[i] = "reindex" /\ job'[i].pc \in Working)
<1>a. NobodyAfter => Reindexing' BY DEF Reindexing
<1>1. CASE Deploy \/ LeaseExpires \/ SaveOnTheClock \/ UNCHANGED vars
  BY <1>0, <1>1 DEF Deploy, LeaseExpires, SaveOnTheClock, vars, Reindexing, OnCourse
<1>2. CASE RestartsWithoutLog
  <2>1. /\ index # snapshot /\ index' = snapshot
        /\ reverted' = reverted \cup {g \in Game : index[g] # snapshot[g]}
        /\ UNCHANGED <<documents, snapshot, checkpoint, job, mixing>> /\ documents \subseteq Game
    BY <1>2 DEF RestartsWithoutLog, Types
  <2>2. \A g \in documents : g \notin reverted' => g \notin reverted /\ index'[g] = index[g]
    BY <2>1
  <2> QED BY <1>0, <2>1, <2>2 DEF Reindexing, OnCourse
<1>3. ASSUME NEW j \in Job,
             StartIngest(j) \/ StartReindex(j) \/ Declines(j) \/ Dies(j) \/ ReindexLosesLease(j)
      PROVE  Reindexing'
  <2>1. job'[j].pc \notin Working /\ \A i \in Job : i # j => job'[i] = job[i]
    BY <1>3, Moves DEF Moved, Working
  <2>2. /\ UNCHANGED <<documents, index, snapshot, checkpoint, reverted>>
        /\ mixing \subseteq mixing'
    BY <1>3 DEF StartIngest, StartReindex, Declines, Dies, ReindexLosesLease
  <2>3. "reindex unfinished" \in mixing => "reindex unfinished" \in mixing' BY <2>2
  <2>4. ASSUME NEW i \in Job, job'[i] = job[i], OnCourse(i) PROVE OnCourse(i)'
    BY <2>2, <2>3, <2>4 DEF OnCourse
  <2> QED BY <1>0, <2>1, <2>4 DEF Reindexing
<1>4. ASSUME NEW j \in Job, IngestCompletes(j) \/ ReindexCompletes(j) PROVE Reindexing'
  <2>1. job'[j].pc \notin Working /\ \A i \in Job : i # j => job'[i] = job[i]
    BY <1>4, Moves DEF Moved, Working
  <2>2. job[j].pc \in Working BY <1>4 DEF IngestCompletes, ReindexCompletes, At, Working
  <2>3. NobodyAfter BY <1>0, <2>1, <2>2, OneAtWork
  <2> QED BY <1>a, <2>3
<1>5. ASSUME NEW j \in Job,
             AcquireIngest(j) \/ Append(j) \/ IngestInserts(j) \/ IngestMarks(j) \/ IngestSnapshots(j)
      PROVE  Reindexing'
  <2>1. Kind[j] = "ingest" /\ (job[j].pc \in Working \/ lease = None)
    BY <1>5 DEF AcquireIngest, Append, IngestInserts, IngestMarks, IngestSnapshots, At, Working
  <2>2. \A i \in Job : i # j => job'[i] = job[i] BY <1>5, Moves, MovesOfGames DEF Moved
  <2>3. NobodyAfter BY <1>0, <2>1, <2>2, OneAtWork
  <2> QED BY <1>a, <2>3
<1>6. ASSUME NEW j \in Job, Kind[j] = "reindex", \A i \in Job : i # j => job'[i].pc \notin Working,
             \/ "reindex unfinished" \in mixing'
             \/ job'[j].pc = "ready" /\ job'[j].todo = documents',
             documents' # {} /\ job'[j].todo \subseteq documents',
             \A g \in documents' : g \notin job'[j].todo /\ g \notin reverted' => index'[g] = job'[j].model,
             checkpoint'.claims \subseteq job'[j].claims,
             job'[j].pc \in {"final", "saved"} => job'[j].todo = {} /\ documents' \subseteq job'[j].claims,
             job'[j].pc = "saved" => snapshot' = index'
      PROVE  Reindexing'
  BY <1>6 DEF Reindexing, OnCourse
<1>b. ASSUME NEW j \in Job, job[j].pc \in Working, \A i \in Job : i # j => job'[i] = job[i]
      PROVE  \A i \in Job : i # j => job'[i].pc \notin Working
  BY <1>0, <1>b, OneAtWork
<1>7. ASSUME NEW j \in Job, AcquireReindex(j) PROVE Reindexing'
  <2>1. /\ Kind[j] = "reindex" /\ lease = None /\ documents # {}
        /\ UNCHANGED <<documents, index, snapshot, checkpoint, mixing, reverted>>
    BY <1>7 DEF AcquireReindex, At
  <2>2. Moved(j, job[j].model, "ready", documents, checkpoint.claims) BY <1>7, Moves
  <2>3. \A i \in Job : i # j => job'[i].pc \notin Working BY <1>0, <2>1, <2>2, OneAtWork DEF Moved
  <2> QED BY <1>6, <2>1, <2>2, <2>3 DEF Moved
<1>8. ASSUME NEW j \in Job, ReindexInserts(j) PROVE Reindexing'
  <2>1. /\ Kind[j] = "reindex" /\ job[j].pc = "ready" /\ "reindex unfinished" \in mixing'
        /\ UNCHANGED <<documents, snapshot, checkpoint>> /\ documents \subseteq Game
    BY <1>8 DEF ReindexInserts, At, Types
  <2>2. PICK g \in job[j].todo :
          /\ Moved(j, job[j].model, "mark", job[j].todo \ {g}, job[j].claims)
          /\ InsertVectors(j, {g}) /\ reverted' = reverted \ {g}
    BY <1>8, MovesOfGames
  <2>3. \A i \in Job : i # j => job'[i].pc \notin Working BY <1>b, <2>1, <2>2 DEF Moved, Working
  <2>4. \A h \in documents : index'[h] = IF h = g THEN job[j].model ELSE index[h]
    BY <2>1, <2>2 DEF InsertVectors
  <2>5. /\ documents # {} /\ job[j].todo \subseteq documents
        /\ \A h \in documents : h \notin job[j].todo /\ h \notin reverted => index[h] = job[j].model
        /\ checkpoint.claims \subseteq job[j].claims
    BY <2>1 DEF Reindexing, OnCourse, Working
  <2> QED BY <1>6, <2>1, <2>2, <2>3, <2>4, <2>5 DEF Moved
<1>9. ASSUME NEW j \in Job, ReindexMarks(j) PROVE Reindexing'
  <2>1. /\ Kind[j] = "reindex" /\ job[j].pc = "mark"
        /\ UNCHANGED <<documents, index, snapshot, mixing, reverted>>
    BY <1>9 DEF ReindexMarks, At
  <2>2. \/ /\ Moved(j, job[j].model, "renew", job[j].todo, job[j].claims)
           /\ checkpoint' = checkpoint
        \/ /\ Moved(j, job[j].model, "snapshot", job[j].todo,
                    job[j].claims \cup (documents \ job[j].todo))
           /\ Save(j, "pending", job[j].claims \cup (documents \ job[j].todo))
    BY <1>9, MovesOfGames
  <2>3. \A i \in Job : i # j => job'[i].pc \notin Working BY <1>b, <2>1, <2>2 DEF Moved, Working
  <2>4. checkpoint'.claims \subseteq job'[j].claims
    <3>1. checkpoint.claims \subseteq job[j].claims BY <2>1 DEF Reindexing, OnCourse, Working
    <3>2. \A claims : Save(j, "pending", claims) => checkpoint'.claims = claims BY DEF Save
    <3> QED BY <2>2, <3>1, <3>2 DEF Moved
  <2>5. /\ documents # {} /\ job[j].todo \subseteq documents /\ "reindex unfinished" \in mixing
        /\ \A h \in documents : h \notin job[j].todo /\ h \notin reverted => index[h] = job[j].model
    BY <2>1 DEF Reindexing, OnCourse, Working
  <2>6. job'[j].model = job[j].model /\ job'[j].todo = job[j].todo /\ job'[j].pc \in {"renew", "snapshot"}
    BY <2>2 DEF Moved
  <2> QED BY <1>6, <2>1, <2>3, <2>4, <2>5, <2>6
<1>10. ASSUME NEW j \in Job, ReindexSnapshots(j) \/ ReindexRenews(j) PROVE Reindexing'
  <2>1. /\ Kind[j] = "reindex" /\ job[j].pc \in {"snapshot", "renew"}
        /\ UNCHANGED <<documents, index, checkpoint, mixing, reverted>>
    BY <1>10 DEF ReindexSnapshots, ReindexRenews, At
  <2>2. \/ Moved(j, job[j].model, "renew", job[j].todo, job[j].claims)
        \/ Moved(j, job[j].model, "ready", job[j].todo, job[j].claims)
    BY <1>10, Moves
  <2>3. \A i \in Job : i # j => job'[i].pc \notin Working BY <1>b, <2>1, <2>2 DEF Moved, Working
  <2>4. /\ job'[j].model = job[j].model /\ job'[j].todo = job[j].todo /\ job'[j].claims = job[j].claims
        /\ job'[j].pc \in {"renew", "ready"}
    BY <2>2 DEF Moved
  <2>5. /\ documents # {} /\ job[j].todo \subseteq documents /\ "reindex unfinished" \in mixing
        /\ \A h \in documents : h \notin job[j].todo /\ h \notin reverted => index[h] = job[j].model
        /\ checkpoint.claims \subseteq job[j].claims
    BY <2>1 DEF Reindexing, OnCourse, Working
  <2> QED BY <1>6, <2>1, <2>3, <2>4, <2>5
<1>11. ASSUME NEW j \in Job, ReindexMarksAll(j) PROVE Reindexing'
  <2>1. /\ Kind[j] = "reindex" /\ job[j].pc = "ready" /\ job[j].todo = {}
        /\ UNCHANGED <<documents, index, snapshot, mixing, reverted>>
        /\ checkpoint'.claims = job[j].claims \cup documents
    BY <1>11 DEF ReindexMarksAll, At, Save
  <2>2. Moved(j, job[j].model, "final", job[j].todo, job[j].claims \cup documents)
    BY <1>11, Moves
  <2>3. \A i \in Job : i # j => job'[i].pc \notin Working BY <1>b, <2>1, <2>2 DEF Moved, Working
  <2>4. /\ documents # {} /\ "reindex unfinished" \in mixing
        /\ \A h \in documents : h \notin job[j].todo /\ h \notin reverted => index[h] = job[j].model
    BY <2>1 DEF Reindexing, OnCourse, Working
  <2>5. /\ job'[j].model = job[j].model /\ job'[j].todo = {} /\ job'[j].pc = "final"
        /\ job'[j].claims = job[j].claims \cup documents
    BY <2>1, <2>2 DEF Moved
  <2> QED BY <1>6, <2>1, <2>3, <2>4, <2>5
<1>12. ASSUME NEW j \in Job, ReindexFinal(j) PROVE Reindexing'
  <2>1. /\ Kind[j] = "reindex" /\ job[j].pc = "final"
        /\ UNCHANGED <<documents, index, checkpoint, mixing, reverted>>
    BY <1>12 DEF ReindexFinal, At
  <2>2. CASE Moved(j, job[j].model, "saved", job[j].todo, job[j].claims) /\ snapshot' = index
    <3>1. \A i \in Job : i # j => job'[i].pc \notin Working BY <1>b, <2>1, <2>2 DEF Moved, Working
    <3>2. /\ documents # {} /\ "reindex unfinished" \in mixing /\ job[j].todo = {}
          /\ \A h \in documents : h \notin job[j].todo /\ h \notin reverted => index[h] = job[j].model
          /\ checkpoint.claims \subseteq job[j].claims /\ documents \subseteq job[j].claims
      BY <2>1 DEF Reindexing, OnCourse, Working
    <3>3. /\ job'[j].model = job[j].model /\ job'[j].todo = {} /\ job'[j].pc = "saved"
          /\ job'[j].claims = job[j].claims
      BY <2>2, <3>2 DEF Moved
    <3> QED BY <1>6, <2>1, <2>2, <3>1, <3>2, <3>3
  <2>3. CASE Moved(j, None, "idle", {}, {})
    <3>1. NobodyAfter BY <1>0, <2>1, <2>3, OneAtWork DEF Moved, Working
    <3> QED BY <1>a, <3>1
  <2> QED BY <1>12, <2>2, <2>3, Moves
<1> QED
  BY <1>1, <1>2, <1>3, <1>4, <1>5, <1>7, <1>8, <1>9, <1>10, <1>11, <1>12
     DEF Next, Ingests, Reindexes

(* Before there is a checkpoint, only an ingest at its first mark has put  *)
(* vectors into MinDB.                                                     *)
LEMMA EmptyBeforeTheFirstMark ==
  ASSUME Jobs, Unmixed, mixing = {}, checkpoint.status = "absent", NEW j \in Job,
         lease = None \/ job[j].pc \in Working, ~At(j, "ingest", "mark")
  PROVE  OfOneModel(None)
<1>1. ASSUME NEW i \in Job, FirstRun(i) PROVE FALSE
  BY <1>1, OneAtWork DEF FirstRun, At, Working
<1> QED BY <1>1 DEF Unmixed

(* Nothing is of every model.                                              *)
LEMMA NothingIsOfEveryModel == ASSUME NEW m, OfOneModel(None) PROVE OfOneModel(m)
BY DEF OfOneModel, OfModel

(* A reindex in the middle of its work is in the history.                  *)
LEMMA UnfinishedIsMixing ==
  ASSUME Reindexing, NEW j \in Job, Kind[j] = "reindex", job[j].pc \in Working,
         job[j].pc # "ready" \/ job[j].todo = {}
  PROVE  mixing # {}
BY DEF Reindexing, OnCourse

LEMMA UnmixedIsKept ==
  ASSUME ReindexInv, [Next]_vars
  PROVE  Unmixed'
<1> USE DEF ReindexInv
<1>0. Types /\ Jobs /\ Unmixed /\ Vectored /\ Reindexing OBVIOUS
<1>a. ASSUME NEW m, OfOneModel(m), snapshot' \in {snapshot, index}, index' \in {index, snapshot}
      PROVE  OfOneModel(m)'
  BY <1>a DEF OfOneModel, OfModel
<1>1. CASE Deploy \/ LeaseExpires \/ SaveOnTheClock \/ RestartsWithoutLog \/ UNCHANGED vars
  <2>1. /\ UNCHANGED <<checkpoint, job, mixing>>
        /\ snapshot' \in {snapshot, index} /\ index' \in {index, snapshot}
    BY <1>1 DEF Deploy, LeaseExpires, SaveOnTheClock, RestartsWithoutLog, vars
  <2>2. \A m : OfOneModel(m) => OfOneModel(m)' BY <1>a, <2>1
  <2>3. \A j \in Job : FirstRun(j) => FirstRun(j)' BY <2>1, <2>2 DEF FirstRun, At
  <2>4. \A m : AssertIngestable(m)' = AssertIngestable(m) BY <2>1 DEF AssertIngestable
  <2> QED BY <1>0, <2>1, <2>2, <2>3, <2>4 DEF Unmixed
<1>2. ASSUME NEW j \in Job, StartIngest(j) \/ StartReindex(j) \/ Declines(j) PROVE Unmixed'
  <2>1. /\ UNCHANGED <<checkpoint, mixing, snapshot, index>> /\ job[j].pc \in {"idle", "acquire"}
        /\ job'[j].pc \in {"idle", "acquire"} /\ \A i \in Job : i # j => job'[i] = job[i]
    BY <1>2, Moves DEF StartIngest, StartReindex, Declines, At, Moved
  <2>2. \A m : OfOneModel(m) => OfOneModel(m)' BY <1>a, <2>1
  <2>3. \A i \in Job : FirstRun(i) => FirstRun(i)' BY <2>1, <2>2 DEF FirstRun, At
  <2>4. \A m : AssertIngestable(m)' = AssertIngestable(m) BY <2>1 DEF AssertIngestable
  <2> QED BY <1>0, <2>1, <2>2, <2>3, <2>4 DEF Unmixed, Working
<1>3. ASSUME NEW j \in Job, Dies(j) PROVE Unmixed'
  <2>1. /\ UNCHANGED <<checkpoint, snapshot, index>>
        /\ job'[j].pc = "idle" /\ \A i \in Job : i # j => job'[i] = job[i]
    BY <1>3, Moves DEF Dies, Moved
  <2>2. \A m : AssertIngestable(m)' = AssertIngestable(m) BY <2>1 DEF AssertIngestable
  <2>3. \A m : OfOneModel(m) => OfOneModel(m)' BY <1>a, <2>1
  <2>4. mixing' = {} => mixing = {} BY <1>3 DEF Dies
  <2>5. ASSUME mixing' = {}, checkpoint.status = "absent" PROVE OfOneModel(None)
    <3>1. index = [g \in Game |-> None]
      <4>1. mixing' = mixing \cup (IF checkpoint.status = "absent" /\ index # [g \in Game |-> None]
                                     THEN {"first run died"} ELSE {})
        BY <1>3 DEF Dies
      <4> QED BY <2>5, <4>1
    <3> QED BY <1>0, <3>1 DEF Vectored, OfOneModel, OfModel
  <2> QED BY <1>0, <2>1, <2>2, <2>3, <2>4, <2>5 DEF Unmixed, Working
<1>4. ASSUME NEW j \in Job, ReindexLosesLease(j) \/ ReindexMarks(j) \/ ReindexSnapshots(j)
                            \/ ReindexRenews(j) \/ ReindexMarksAll(j) \/ ReindexFinal(j)
      PROVE  Unmixed'
  <2>1. /\ Kind[j] = "reindex" /\ job[j].pc \in Working /\ mixing' = mixing
        /\ job[j].pc # "ready" \/ job[j].todo = {}
    BY <1>4 DEF ReindexLosesLease, ReindexMarks, ReindexSnapshots, ReindexRenews, ReindexMarksAll,
                ReindexFinal, At, Working
  <2> QED BY <1>0, <2>1, UnfinishedIsMixing DEF Unmixed
<1>5. ASSUME NEW j \in Job, ReindexInserts(j) PROVE Unmixed'
  BY <1>5 DEF ReindexInserts, Unmixed
<1>b. ASSUME NEW j \in Job, lease = None \/ job[j].pc \in Working, \A i \in Job : i # j => job'[i] = job[i]
      PROVE  \A i \in Job : i # j => job'[i].pc \notin Working
  BY <1>0, <1>b, OneAtWork
<1>6. ASSUME NEW j \in Job, AcquireReindex(j) PROVE Unmixed'
  <2>1. /\ UNCHANGED <<checkpoint, mixing, snapshot, index>> /\ lease = None /\ Kind[j] = "reindex"
        /\ \A i \in Job : i # j => job'[i] = job[i]
    BY <1>6, Moves DEF AcquireReindex, At, Moved
  <2>2. \A i \in Job : i # j => job'[i].pc \notin Working BY <1>b, <2>1
  <2>3. mixing = {} /\ checkpoint.status = "absent" => OfOneModel(None)
    BY <1>0, <2>1, EmptyBeforeTheFirstMark DEF At
  <2>4. \A m : OfOneModel(m) => OfOneModel(m)' BY <1>a, <2>1
  <2> QED BY <1>0, <2>1, <2>2, <2>3, <2>4 DEF Unmixed
<1>7. ASSUME NEW j \in Job, ReindexCompletes(j) PROVE Unmixed'
  <2>1. /\ Kind[j] = "reindex" /\ job[j].pc = "saved" /\ UNCHANGED <<snapshot, index>>
        /\ checkpoint'.status = "complete" /\ checkpoint'.stamp = job[j].model
        /\ mixing' = IF reverted = {} THEN {} ELSE mixing
        /\ job'[j].pc = "idle" /\ \A i \in Job : i # j => job'[i] = job[i]
    BY <1>7, Moves DEF ReindexCompletes, Save, At, Moved
  <2>2. \A i \in Job : job'[i].pc \notin Working BY <1>b, <2>1 DEF Working
  <2>3. mixing # {} BY <1>0, <2>1, UnfinishedIsMixing DEF Working
  <2>4. ASSUME reverted = {} PROVE OfOneModel(job[j].model)
    <3>1. OnCourse(j) BY <1>0, <2>1 DEF Reindexing, Working
    <3>2. \A g \in documents : index[g] = job[j].model BY <2>1, <2>4, <3>1 DEF OnCourse
    <3>3. snapshot = index BY <2>1, <3>1 DEF OnCourse
    <3> QED BY <1>0, <3>2, <3>3 DEF Vectored, OfOneModel, OfModel
  <2>5. OfOneModel(job[j].model) => OfOneModel(checkpoint.stamp)' BY <2>1 DEF OfOneModel, OfModel
  <2> QED BY <2>1, <2>2, <2>3, <2>4, <2>5 DEF Unmixed
<1>8. ASSUME NEW j \in Job, AcquireIngest(j) PROVE Unmixed'
  <2>1. /\ UNCHANGED <<checkpoint, snapshot, index>> /\ lease = None /\ job[j].pc = "acquire"
        /\ job'[j].model = job[j].model /\ \A i \in Job : i # j => job'[i] = job[i]
    BY <1>8, Moves DEF AcquireIngest, At, Moved
  <2>2. \A i \in Job : i # j => job'[i].pc \notin Working BY <1>b, <2>1
  <2>3. mixing' = {} => mixing = {} /\ AssertIngestable(job[j].model)
    BY <1>8 DEF AcquireIngest
  <2>4. mixing = {} /\ checkpoint.status = "absent" => OfOneModel(None)
    BY <1>0, <2>1, EmptyBeforeTheFirstMark DEF At
  <2>5. \A m : OfOneModel(m) => OfOneModel(m)' BY <1>a, <2>1
  <2>6. \A m : AssertIngestable(m)' = AssertIngestable(m) BY <2>1 DEF AssertIngestable
  <2> QED BY <1>0, <2>1, <2>2, <2>3, <2>4, <2>5, <2>6 DEF Unmixed
<1>9. ASSUME NEW j \in Job, Append(j) \/ IngestSnapshots(j) PROVE Unmixed'
  <2>1. /\ UNCHANGED <<checkpoint, index, mixing>> /\ job[j].pc = "ready" /\ Kind[j] = "ingest"
        /\ job'[j].pc \in Working => job'[j].model = job[j].model
        /\ \A i \in Job : i # j => job'[i] = job[i]
        /\ snapshot' \in {snapshot, index}
    BY <1>9, Moves, MovesOfGames DEF Append, IngestSnapshots, At, Moved, Working
  <2>2. \A i \in Job : i # j => job'[i].pc \notin Working BY <1>b, <2>1 DEF Working
  <2>4. mixing = {} /\ checkpoint.status = "absent" => OfOneModel(None)
    BY <1>0, <2>1, EmptyBeforeTheFirstMark DEF At, Working
  <2>5. \A m : OfOneModel(m) => OfOneModel(m)' BY <1>a, <2>1
  <2>6. \A m : AssertIngestable(m)' = AssertIngestable(m) BY <2>1 DEF AssertIngestable
  <2>7. mixing = {} => AssertIngestable(job[j].model) BY <1>0, <2>1 DEF Unmixed, Working
  <2> QED BY <1>0, <2>1, <2>2, <2>4, <2>5, <2>6, <2>7 DEF Unmixed
<1>10. ASSUME NEW j \in Job, IngestInserts(j) PROVE Unmixed'
  <2> DEFINE m == job[j].model
  <2>1. /\ UNCHANGED <<checkpoint, snapshot, mixing>> /\ job[j].pc = "insert" /\ Kind[j] = "ingest"
        /\ job'[j].model = m /\ job'[j].pc = "mark" /\ \A i \in Job : i # j => job'[i] = job[i]
        /\ InsertVectors(j, job[j].todo)
    BY <1>10, Moves DEF IngestInserts, At, Moved
  <2>2. \A i \in Job : i # j => job'[i].pc \notin Working BY <1>b, <2>1 DEF Working
  <2>3. mixing = {} /\ checkpoint.status = "absent" => OfOneModel(None)
    BY <1>0, <2>1, EmptyBeforeTheFirstMark DEF At, Working
  <2>4. mixing = {} => AssertIngestable(m) BY <1>0, <2>1 DEF Unmixed, Working
  <2>5. OfOneModel(m) => OfOneModel(m)' BY <2>1 DEF OfOneModel, OfModel, InsertVectors
  <2>6. mixing = {} => OfOneModel(m)
    BY <1>0, <2>3, <2>4, NothingIsOfEveryModel DEF Unmixed, AssertIngestable
  <2>7. mixing = {} => OfOneModel(m)' BY <2>5, <2>6
  <2>8. mixing = {} => FirstRun(j)'
    BY <2>1, <2>7 DEF FirstRun, At, OfOneModel, OfModel
  <2>9. \A n : AssertIngestable(n)' = AssertIngestable(n) BY <2>1 DEF AssertIngestable
  <2>10. ASSUME mixing = {}, checkpoint.status # "absent" PROVE OfOneModel(checkpoint.stamp)'
    BY <2>1, <2>4, <2>7, <2>10 DEF AssertIngestable, OfOneModel, OfModel
  <2> QED BY <2>1, <2>2, <2>4, <2>8, <2>9, <2>10 DEF Unmixed
<1>11. ASSUME NEW j \in Job, IngestMarks(j) \/ IngestCompletes(j) PROVE Unmixed'
  <2> DEFINE m == job[j].model
  <2>1. /\ UNCHANGED <<index, snapshot, mixing>> /\ job[j].pc \in {"mark", "saved"} /\ Kind[j] = "ingest"
        /\ job'[j].pc \in Working => job'[j].model = m
        /\ \A i \in Job : i # j => job'[i] = job[i]
        /\ checkpoint'.stamp = m /\ checkpoint'.status # "absent"
    <3>1. CASE IngestMarks(j)
      BY <1>0, <3>1, Moves DEF IngestMarks, Save, At, Moved
    <3>2. CASE IngestCompletes(j)
      BY <1>0, <3>2, Moves DEF IngestCompletes, Save, At, Moved, Working
    <3> QED BY <1>11, <3>1, <3>2
  <2>2. \A i \in Job : i # j => job'[i].pc \notin Working BY <1>b, <2>1 DEF Working
  <2>3. mixing = {} => AssertIngestable(m) BY <1>0, <2>1 DEF Unmixed, Working
  <2>4. ASSUME mixing = {}, checkpoint.status = "absent" PROVE OfOneModel(m)
    <3>1. CASE OfOneModel(None) BY <3>1, NothingIsOfEveryModel
    <3>2. ASSUME NEW i \in Job, FirstRun(i) PROVE OfOneModel(m)
      <4>1. i = j BY <1>0, <2>1, <3>2, OneAtWork DEF FirstRun, At, Working
      <4> QED BY <3>2, <4>1 DEF FirstRun
    <3> QED BY <1>0, <2>4, <3>1, <3>2 DEF Unmixed
  <2>5. mixing = {} => OfOneModel(m)
    BY <1>0, <2>3, <2>4 DEF Unmixed, AssertIngestable
  <2>6. OfOneModel(m) => OfOneModel(checkpoint.stamp)' BY <2>1 DEF OfOneModel, OfModel
  <2>7. job'[j].pc \in Working => AssertIngestable(job[j].model)' BY <2>1 DEF AssertIngestable
  <2> QED BY <2>1, <2>2, <2>5, <2>6, <2>7 DEF Unmixed
<1> QED
  BY <1>1, <1>2, <1>3, <1>4, <1>5, <1>6, <1>7, <1>8, <1>9, <1>10, <1>11
     DEF Next, Ingests, Reindexes

LEMMA InvIsKept == ReindexInv /\ [Next]_vars => ReindexInv'
BY TypesAreKept, StampedIsKept, JobsAreKept, VectoredIsKept, ReindexingIsKept, UnmixedIsKept
   DEF ReindexInv

LEMMA ReindexIsConsistent == Spec => []ReindexInv
BY InvAtFirst, InvIsKept, PTL DEF Spec

-----------------------------------------------------------------------------
(* The results *)

(* Jobs, checkpoint, index and snapshot stay of their types, and a         *)
(* checkpoint that exists has a stamp (checkpoint.py:76-109).              *)
THEOREM ReindexTypeCorrect == Spec => []TypeOK
<1>1. ReindexInv => TypeOK BY DEF ReindexInv, Types, Stamped, TypeOK
<1> QED BY <1>1, ReindexIsConsistent, PTL

(* A COMPLETE checkpoint whose stamp is not the model of every vector      *)
(* beside it has one of three causes, whatever jobs, deployments and       *)
(* restarts there were (stamp.py:28-64, reindex.py:91-135).                *)
THEOREM CompleteIsOneModel == Spec => []CompleteIsOneModelUnlessMixing
<1>1. ReindexInv => CompleteIsOneModelUnlessMixing
  BY DEF ReindexInv, Unmixed, OfOneModel, CompleteIsOneModelUnlessMixing
<1> QED BY <1>1, ReindexIsConsistent, PTL

(* Only a job at work writes the checkpoint.                               *)
LEMMA WritersWork ==
  ASSUME [Next]_vars, checkpoint' # checkpoint
  PROVE  \E j \in Job :
           /\ job[j].pc \in Working
           /\ IngestMarks(j) \/ IngestCompletes(j) \/ ReindexMarks(j) \/ ReindexMarksAll(j)
                \/ ReindexCompletes(j)
<1>1. \E j \in Job : IngestMarks(j) \/ IngestCompletes(j) \/ ReindexMarks(j)
                     \/ ReindexMarksAll(j) \/ ReindexCompletes(j)
  BY DEF Next, Ingests, Reindexes, Deploy, SaveOnTheClock, RestartsWithoutLog, LeaseExpires, vars,
         StartIngest, StartReindex, Declines, Dies, ReindexLosesLease, AcquireIngest, AcquireReindex,
         Append, IngestInserts, ReindexInserts, ReindexRenews, IngestSnapshots, ReindexSnapshots,
         ReindexFinal
<1> QED
  BY <1>1 DEF IngestMarks, IngestCompletes, ReindexMarks, ReindexMarksAll, ReindexCompletes, At, Working

LEMMA StepIsWhole ==
  ASSUME ReindexInv, [Next]_vars, NEW j \in Job
  PROVE  /\ At(j, "reindex", "saved") /\ checkpoint' # checkpoint =>
              /\ \A g \in documents \ reverted : snapshot[g] = checkpoint'.stamp
              /\ documents \subseteq checkpoint'.claims
         /\ Kind[j] = "reindex" /\ lease = j => checkpoint.claims \subseteq checkpoint'.claims
<1> USE DEF ReindexInv
<1>1. ASSUME checkpoint' # checkpoint, Kind[j] = "reindex", lease = j \/ job[j].pc \in Working
      PROVE  /\ job[j].pc \in Working
             /\ ReindexMarks(j) \/ ReindexMarksAll(j) \/ ReindexCompletes(j)
  <2>1. PICK i \in Job :
          /\ job[i].pc \in Working
          /\ IngestMarks(i) \/ IngestCompletes(i) \/ ReindexMarks(i) \/ ReindexMarksAll(i)
               \/ ReindexCompletes(i)
    BY <1>1, WritersWork
  <2>2. i = j BY <1>1, <2>1 DEF Jobs
  <2> QED BY <1>1, <2>1, <2>2 DEF IngestMarks, IngestCompletes, At
<1>2. ASSUME Kind[j] = "reindex", job[j].pc \in Working PROVE OnCourse(j)
  BY <1>2 DEF Reindexing
<1>3. ASSUME At(j, "reindex", "saved"), checkpoint' # checkpoint
      PROVE  /\ \A g \in documents \ reverted : snapshot[g] = checkpoint'.stamp
             /\ documents \subseteq checkpoint'.claims
  <2>1. ReindexCompletes(j) /\ OnCourse(j)
    BY <1>1, <1>2, <1>3 DEF At, Working, ReindexMarks, ReindexMarksAll
  <2> QED BY <1>3, <2>1 DEF ReindexCompletes, Save, At, OnCourse
<1>4. ASSUME Kind[j] = "reindex", lease = j, checkpoint' # checkpoint
      PROVE  checkpoint.claims \subseteq checkpoint'.claims
  <2>1. OnCourse(j) /\ (ReindexMarks(j) \/ ReindexMarksAll(j) \/ ReindexCompletes(j))
    BY <1>1, <1>2, <1>4
  <2>2. checkpoint.claims \subseteq job[j].claims BY <2>1 DEF OnCourse
  <2>3. job[j].claims \subseteq checkpoint'.claims
    BY <1>4, <2>1 DEF ReindexMarks, ReindexMarksAll, ReindexCompletes, Save
  <2> QED BY <2>2, <2>3
<1> QED BY <1>3, <1>4

(* A reindex that completes has a vector of its model in the snapshot for  *)
(* every document MinDB has not since lost, claims them all, and takes     *)
(* over every claim it found (reindex.py:91-135).                          *)
THEOREM FinishedReindexIsWhole == Spec => ReindexIsWhole
<1>1. ReindexInv /\ [Next]_vars =>
        \A j \in Job :
          /\ At(j, "reindex", "saved") /\ checkpoint' # checkpoint =>
               /\ \A g \in documents \ reverted : snapshot[g] = checkpoint'.stamp
               /\ documents \subseteq checkpoint'.claims
          /\ Kind[j] = "reindex" /\ lease = j => checkpoint.claims \subseteq checkpoint'.claims
  BY StepIsWhole
<1> QED BY <1>1, ReindexIsConsistent, PTL DEF Spec, ReindexIsWhole
=============================================================================
