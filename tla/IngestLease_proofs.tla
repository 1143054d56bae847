------------------------- MODULE IngestLease_proofs -------------------------
(***************************************************************************)
(* For every set of runs, every assignment of owners and every ttl, two    *)
(* runs are entitled to work at once only after a write landed on a lease  *)
(* that had changed since it was read.                                     *)
(***************************************************************************)
EXTENDS IngestLease, TLAPS

USE OwnerAssumption, TimeAssumption, TokenAssumption

(* Before any run starts there is at most an unreadable lease.             *)
LEMMA InitEstablishesLeaseInv == Init => LeaseInv
  <1> SUFFICES ASSUME Init PROVE LeaseInv
    OBVIOUS
  <1> USE DEF Init, Stopped
  <1>1. TypeOK
    <2>1. lease \in Reading /\ seen \in [Run -> Reading]
      BY DEF Reading
    <2>2. now \in 0..MaxTime /\ moment \in [Run -> 0..MaxTime] /\ expiresAt \in [Run -> Nat]
      OBVIOUS
    <2>3. pc \in [Run -> PcState]
      BY DEF PcState
    <2>4. QED
      BY <2>1, <2>2, <2>3 DEF TypeOK
  <1>2. OneProcessPerOwner
    BY DEF OneProcessPerOwner
  <1>3. MomentsArePast
    BY DEF MomentsArePast
  <1>4. ReadingsJustifyWrites
    BY DEF ReadingsJustifyWrites
  <1>5. LeaseRecordsHolder
    BY DEF LeaseRecordsHolder, Entitled, Working
  <1>6. QED
    BY <1>1, <1>2, <1>3, <1>4, <1>5 DEF LeaseInv

(* Every action keeps every variable in its set. *)
LEMMA StepKeepsType == TypeOK /\ [Next]_vars => TypeOK'
  <1> SUFFICES ASSUME TypeOK, [Next]_vars PROVE TypeOK'
    OBVIOUS
  <1> USE DEF TypeOK, PcState, Stopped, Working, Reading, Body, LeaseBody, locals
  <1>1. ASSUME NEW r \in Run, Begin(r) PROVE TypeOK'
    BY <1>1 DEF Begin, Goto
  <1>2. ASSUME NEW r \in Run, PutIfAbsent(r) PROVE TypeOK'
    BY <1>2 DEF PutIfAbsent, Goto
  <1>3. ASSUME NEW r \in Run, Create(r) PROVE TypeOK'
    BY <1>2, <1>3 DEF Create, Conflict, Goto
  <1>4. ASSUME NEW r \in Run, Recreate(r) PROVE TypeOK'
    BY <1>2, <1>4 DEF Recreate, Conflict, Goto
  <1>5. ASSUME NEW r \in Run, Read(r) PROVE TypeOK'
    BY <1>5 DEF Read, ReadThen, StandDown, Exit, Goto
  <1>6. ASSUME NEW r \in Run, Reread(r) PROVE TypeOK'
    BY <1>6 DEF Reread, ReadThen, StandDown, Exit, Goto
  <1>7. ASSUME NEW r \in Run, Delete(r) PROVE TypeOK'
    BY <1>7 DEF Delete, Forget, NoteStale, Goto
  <1>8. ASSUME NEW r \in Run, Steal(r) PROVE TypeOK'
    BY <1>2, <1>8 DEF Steal, Exit, Goto
  <1>9. ASSUME NEW r \in Run, RenewRead(r) PROVE TypeOK'
    BY <1>9 DEF RenewRead, ReadThen, Goto
  <1>10. ASSUME NEW r \in Run, RenewPut(r) PROVE TypeOK'
    BY <1>10 DEF RenewPut, NoteStale, Goto
  <1>11. ASSUME NEW r \in Run, ReleaseRead(r) PROVE TypeOK'
    BY <1>11 DEF ReleaseRead, ReadThen, Exit, Goto
  <1>12. ASSUME NEW r \in Run, ReleaseDelete(r) PROVE TypeOK'
    BY <1>12 DEF ReleaseDelete, NoteStale, Exit, Goto
  <1>13. ASSUME NEW r \in Run, Crash(r) PROVE TypeOK'
    BY <1>13 DEF Crash, Exit, Goto
  <1>14. CASE Tick
    BY <1>14 DEF Tick
  <1>15. CASE UNCHANGED vars
    BY <1>15 DEF vars
  <1>16. QED
    BY <1>1, <1>3, <1>4, <1>5, <1>6, <1>7, <1>8, <1>9, <1>10, <1>11, <1>12, <1>13, <1>14, <1>15
       DEF Next, Acquire, Renew, Release

(* A run starts only when no attempt of the same identity is alive.        *)
LEMMA StepKeepsOneProcess ==
  ASSUME TypeOK, OneProcessPerOwner, [Next]_vars
  PROVE  OneProcessPerOwner'
  <1> USE DEF TypeOK, Stopped, Goto
  <1>1. ASSUME NEW r \in Run, Begin(r) PROVE OneProcessPerOwner'
    BY <1>1 DEF Begin, OneProcessPerOwner
  <1>2. ASSUME NEW r \in Run, pc[r] \notin Stopped, NEW l, Goto(r, l)
        PROVE  OneProcessPerOwner'
    BY <1>2 DEF OneProcessPerOwner
  <1>3. ASSUME NEW r \in Run, Acquire(r) PROVE OneProcessPerOwner'
    BY <1>2, <1>3 DEF Acquire, Create, Recreate, Read, Reread, Delete, Steal,
                      PutIfAbsent, Conflict, StandDown, ReadThen, Exit
  <1>4. ASSUME NEW r \in Run, Renew(r) \/ Release(r) \/ Crash(r) PROVE OneProcessPerOwner'
    BY <1>2, <1>4 DEF Renew, RenewRead, RenewPut, Release, ReleaseRead, ReleaseDelete, Crash,
                      ReadThen, Exit, Working
  <1>5. CASE Tick
    BY <1>5 DEF Tick, OneProcessPerOwner
  <1>6. CASE UNCHANGED vars
    BY <1>6 DEF vars, OneProcessPerOwner
  <1>7. QED
    BY <1>1, <1>3, <1>4, <1>5, <1>6 DEF Next

(* The clock never runs back, so a time sampled stays in the past.         *)
LEMMA StepKeepsMoments ==
  ASSUME TypeOK, MomentsArePast, [Next]_vars
  PROVE  MomentsArePast'
  <1> USE DEF TypeOK, MomentsArePast
  <1>1. ASSUME NEW r \in Run, Begin(r) PROVE MomentsArePast'
    BY <1>1 DEF Begin
  <1>2. CASE moment' = moment /\ now' = now
    BY <1>2
  <1>3. ASSUME NEW r \in Run, NEW l, Exit(r, l), now' = now PROVE MomentsArePast'
    BY <1>3 DEF Exit
  <1>4. ASSUME NEW r \in Run, Acquire(r) PROVE MomentsArePast'
    BY <1>2, <1>3, <1>4 DEF Acquire, Create, Recreate, Read, Reread, Delete, Steal,
                            PutIfAbsent, Conflict, StandDown, ReadThen, Forget, locals
  <1>5. ASSUME NEW r \in Run, Renew(r) \/ Release(r) \/ Crash(r) PROVE MomentsArePast'
    BY <1>2, <1>3, <1>5 DEF Renew, RenewRead, RenewPut, Release, ReleaseRead, ReleaseDelete,
                            Crash, ReadThen
  <1>6. CASE Tick
    BY <1>6 DEF Tick, locals
  <1>7. CASE UNCHANGED vars
    BY <1>2, <1>7 DEF vars
  <1>8. QED
    BY <1>1, <1>4, <1>5, <1>6, <1>7 DEF Next

(* A run goes on to a write only over a reading that justifies it.         *)
LEMMA StepKeepsReadings ==
  ASSUME TypeOK, MomentsArePast, ReadingsJustifyWrites, [Next]_vars
  PROVE  ReadingsJustifyWrites'
  <1> USE DEF TypeOK, ReadingsJustifyWrites, Expiry, SameOwner, locals
  <1>1. ASSUME NEW r \in Run, Begin(r) PROVE ReadingsJustifyWrites'
    BY <1>1 DEF Begin, Goto
  <1>2. ASSUME NEW r \in Run, NEW l \in {"working", "read", "reread", "steal"}, Goto(r, l),
               moment' = moment,
               seen' = seen \/ seen' = [seen EXCEPT ![r] = Absent]
        PROVE  ReadingsJustifyWrites'
    BY <1>2 DEF Goto
  <1>3. ASSUME NEW r \in Run, NEW l \in Stopped, Exit(r, l) PROVE ReadingsJustifyWrites'
    BY <1>3 DEF Exit, Goto, Stopped
  <1>4. ASSUME NEW r \in Run, Read(r) \/ Reread(r) PROVE ReadingsJustifyWrites'
    <2>1. CASE StandDown(r)
      BY <1>3, <2>1 DEF StandDown, Stopped
    <2>2. CASE ReadThen(r, "recreate")
      BY <2>2 DEF ReadThen, Goto
    <2>3. CASE ~HeldByAnother(r, lease) /\ ReadThen(r, "delete")
      BY <2>3 DEF ReadThen, Goto, HeldByAnother, Reading, Body, Unreadable
    <2>4. QED
      BY <1>4, <2>1, <2>2, <2>3 DEF Read, Reread
  <1>5. ASSUME NEW r \in Run, Acquire(r) PROVE ReadingsJustifyWrites'
    BY <1>2, <1>3, <1>4, <1>5
       DEF Acquire, Create, Recreate, Delete, Steal, PutIfAbsent, Conflict, Forget, Stopped
  <1>6. ASSUME NEW r \in Run, RenewRead(r) PROVE ReadingsJustifyWrites'
    BY <1>6 DEF RenewRead, ReadThen, Goto
  <1>7. ASSUME NEW r \in Run, RenewPut(r) PROVE ReadingsJustifyWrites'
    BY <1>2, <1>7 DEF RenewPut
  <1>8. ASSUME NEW r \in Run, ReleaseRead(r) PROVE ReadingsJustifyWrites'
    <2>1. CASE Exit(r, "done")
      BY <1>3, <2>1 DEF Stopped
    <2>2. CASE ~(lease = Absent \/ lease.token # r) /\ ReadThen(r, "releaseDelete")
      BY <2>2 DEF ReadThen, Goto
    <2>3. QED
      BY <1>8, <2>1, <2>2 DEF ReleaseRead
  <1>9. ASSUME NEW r \in Run, ReleaseDelete(r) \/ Crash(r) PROVE ReadingsJustifyWrites'
    BY <1>3, <1>9 DEF ReleaseDelete, Crash, Stopped
  <1>10. CASE Tick
    BY <1>10 DEF Tick
  <1>11. CASE UNCHANGED vars
    BY <1>11 DEF vars
  <1>12. QED
    BY <1>1, <1>5, <1>6, <1>7, <1>8, <1>9, <1>10, <1>11 DEF Next, Renew, Release

(* Where a write is not stale, nobody else can be entitled: the object the *)
(* writer read would have recorded the other run.                          *)
LEMMA FreshWritersAreAlone ==
  ASSUME LeaseInv, ~staleWrite,
         NEW r \in Run, pc[r] \in {"delete", "renewPut", "releaseDelete"}, lease = seen[r],
         NEW q \in Run, Entitled(q)
  PROVE  q = r
  <1>1. lease = LeaseBody(q, expiresAt[q]) /\ lease # Absent
    BY DEF LeaseInv, LeaseRecordsHolder, TypeOK, LeaseBody, Body
  <1>2. lease.token = q /\ lease.exp = expiresAt[q]
    BY <1>1 DEF LeaseBody
  <1>3. CASE pc[r] = "delete"
    <2>1. Expiry(lease) \in Nat /\ moment[r] \in Nat /\ Expiry(lease) > moment[r]
      BY <1>1, <1>2 DEF LeaseInv, TypeOK, MomentsArePast, Entitled, Expiry
    <2>2. SameOwner(lease, r)
      BY <1>3, <2>1 DEF LeaseInv, ReadingsJustifyWrites
    <2>3. Owner[q] = Owner[r] /\ pc[q] \notin Stopped /\ pc[r] \notin Stopped
      BY <1>2, <1>3, <2>2 DEF SameOwner, Entitled, Working, Stopped
    <2>4. QED
      BY <2>3 DEF LeaseInv, OneProcessPerOwner
  <1>4. CASE pc[r] \in {"renewPut", "releaseDelete"}
    BY <1>1, <1>2, <1>4 DEF LeaseInv, ReadingsJustifyWrites
  <1>5. QED
    BY <1>3, <1>4

(* While no write is stale, the object says of an entitled run that it is  *)
(* entitled, and until when.                                               *)
LEMMA StepKeepsRecord ==
  ASSUME LeaseInv, TypeOK', [Next]_vars
  PROVE  LeaseRecordsHolder'
  <1> SUFFICES ASSUME ~staleWrite', NEW q \in Run, Entitled(q)'
               PROVE  lease' = LeaseBody(q, expiresAt'[q])
    BY DEF LeaseRecordsHolder, LeaseBody
  <1> USE DEF LeaseInv, TypeOK
  <1>1. staleWrite' = staleWrite \/ staleWrite' = TRUE \/ \E r \in Run : NoteStale(r)
    BY DEF Next, Acquire, Renew, Release, Begin, Create, Recreate, Read, Reread, Delete, Steal,
           PutIfAbsent, Conflict, RenewRead, RenewPut, ReleaseRead, ReleaseDelete, Crash, Tick,
           vars
  <1>2. ~staleWrite
    BY <1>1 DEF NoteStale
  <1>3. \A p \in Run : Entitled(p) => lease = LeaseBody(p, expiresAt[p]) /\ lease # Absent
    BY <1>2 DEF LeaseRecordsHolder, LeaseBody, Body
  \* Steps that touch neither the object nor what q believes.
  <1>4. CASE lease' = lease /\ expiresAt'[q] = expiresAt[q] /\ now' >= now
             /\ (pc'[q] \in Working => pc[q] \in Working)
    BY <1>3, <1>4 DEF Entitled
  <1>5. ASSUME NEW r \in Run, PutIfAbsent(r)
        PROVE  lease' = LeaseBody(q, expiresAt'[q])
    <2>1. q = r
      BY <1>3, <1>5 DEF PutIfAbsent, locals, Entitled, Goto
    <2>2. QED
      BY <1>5, <2>1 DEF PutIfAbsent, locals
  <1>6. ASSUME NEW r \in Run, NEW l \in PcState \ Working, Exit(r, l), now' = now, lease' = lease
        PROVE  lease' = LeaseBody(q, expiresAt'[q])
    BY <1>4, <1>6 DEF Exit, Goto, Entitled
  <1>7. ASSUME NEW r \in Run, NEW l \in PcState, ReadThen(r, l), now' = now, lease' = lease,
               l \in Working => pc[r] \in Working
        PROVE  lease' = LeaseBody(q, expiresAt'[q])
    BY <1>4, <1>7 DEF ReadThen, Goto
  <1>8. ASSUME NEW r \in Run, Begin(r) PROVE lease' = LeaseBody(q, expiresAt'[q])
    BY <1>4, <1>8 DEF Begin, Goto, Entitled, Working
  <1>9. ASSUME NEW r \in Run, NEW l \in PcState \ Working, Conflict(r, l)
        PROVE  lease' = LeaseBody(q, expiresAt'[q])
    BY <1>4, <1>9 DEF Conflict, Goto, locals
  <1>10. ASSUME NEW r \in Run, Delete(r) PROVE lease' = LeaseBody(q, expiresAt'[q])
    <2>1. lease = seen[r] /\ Entitled(q) /\ pc[q] # "delete"
      BY <1>10 DEF Delete, NoteStale, Goto, Forget, Entitled, Working
    <2>2. q = r
      BY <1>2, <1>10, <2>1, FreshWritersAreAlone DEF Delete
    <2>3. QED
      BY <1>10, <2>1, <2>2 DEF Delete
  <1>11. ASSUME NEW r \in Run, RenewPut(r) PROVE lease' = LeaseBody(q, expiresAt'[q])
    <2>1. CASE q = r
      BY <1>11, <2>1 DEF RenewPut
    <2>2. CASE q # r
      <3>1. lease = seen[r] /\ Entitled(q)
        BY <1>11, <2>2 DEF RenewPut, NoteStale, Goto, Entitled
      <3>2. QED
        BY <1>2, <1>11, <2>2, <3>1, FreshWritersAreAlone DEF RenewPut
    <2>3. QED
      BY <2>1, <2>2
  <1>12. ASSUME NEW r \in Run, ReleaseDelete(r) PROVE lease' = LeaseBody(q, expiresAt'[q])
    <2>1. q # r
      BY <1>12 DEF ReleaseDelete, Exit, Goto, Entitled, Working
    <2>2. lease = seen[r] /\ Entitled(q)
      BY <1>12, <2>1 DEF ReleaseDelete, NoteStale, Exit, Goto, Entitled
    <2>3. QED
      BY <1>2, <1>12, <2>1, <2>2, FreshWritersAreAlone DEF ReleaseDelete
  <1>13. ASSUME NEW r \in Run, Acquire(r) PROVE lease' = LeaseBody(q, expiresAt'[q])
    BY <1>5, <1>6, <1>7, <1>9, <1>10, <1>13
       DEF Acquire, Create, Recreate, Read, Reread, Steal, StandDown, PcState, Stopped, Working
  <1>14. ASSUME NEW r \in Run, RenewRead(r) \/ ReleaseRead(r) \/ Crash(r)
         PROVE  lease' = LeaseBody(q, expiresAt'[q])
    BY <1>6, <1>7, <1>14 DEF RenewRead, ReleaseRead, Crash, PcState, Stopped, Working
  <1>15. CASE Tick
    BY <1>4, <1>15 DEF Tick, locals
  <1>16. CASE UNCHANGED vars
    BY <1>4, <1>16 DEF vars
  <1>17. QED
    BY <1>8, <1>11, <1>12, <1>13, <1>14, <1>15, <1>16 DEF Next, Renew, Release

(* The invariant is inductive.                                             *)
LEMMA LeaseInvHolds == Spec => []LeaseInv
  <1>1. LeaseInv /\ [Next]_vars => LeaseInv'
    BY StepKeepsType, StepKeepsOneProcess, StepKeepsMoments, StepKeepsReadings, StepKeepsRecord
       DEF LeaseInv
  <1>2. QED
    BY InitEstablishesLeaseInv, <1>1, PTL DEF Spec

-----------------------------------------------------------------------------
(* The type invariant, for every instance.                                 *)
THEOREM LeaseTypeCorrect == Spec => []TypeOK
  BY LeaseInvHolds, PTL DEF LeaseInv

(* Two runs entitled at once are always the work of a stale write: the     *)
(* race is confined to the window between a read and the put or delete it  *)
(* justifies, whatever the clock, the owners and the crashes do.           *)
THEOREM MutualExclusionUnlessStaleWrite == Spec => []OneHolderUnlessStaleWrite
  <1>1. LeaseInv => OneHolderUnlessStaleWrite
    BY DEF LeaseInv, LeaseRecordsHolder, OneHolderUnlessStaleWrite, OneHolder, LeaseBody
  <1>2. QED
    BY LeaseInvHolds, <1>1, PTL

-----------------------------------------------------------------------------
(* Who makes a run stand down                                              *)

LEMMA InitHasNoRivals == Init => RivalInv
  BY InitEstablishesLeaseInv DEF LeaseInv, Init, RivalInv, LosersHaveRivals

(* What a step does to the lease and to where the runs are, and nothing    *)
(* else of it, decides whether the lease a takeover meets is a rival's.    *)
LEMMA MovesKeepRivals ==
  ASSUME RivalInv, TypeOK', OneProcessPerOwner',
         NEW r \in Run, NEW l \in PcState, Goto(r, l),
         \/ lease' = lease /\ l # "steal"
         \/ lease' = Absent
         \/ \E e \in Nat : lease' = LeaseBody(r, e) /\ l = "working" /\ pc[r] \notin Stopped
  PROVE  RivalInv'
  <1>1. /\ pc' = [pc EXCEPT ![r] = l] /\ pc'[r] = l
        /\ \A q \in Run \ {r} : pc'[q] = pc[q]
    BY DEF RivalInv, TypeOK, Goto
  <1>2. CASE lease' = lease /\ l # "steal"
    BY <1>1, <1>2 DEF RivalInv, LosersHaveRivals
  <1>3. CASE lease' = Absent
    BY <1>3 DEF RivalInv, LosersHaveRivals
  <1>4. CASE \E e \in Nat : lease' = LeaseBody(r, e) /\ l = "working" /\ pc[r] \notin Stopped
    <2>1. lease' \in Body /\ lease'.token = r
      BY <1>4 DEF LeaseBody, Body
    <2>2. ASSUME NEW q \in Run, pc'[q] = "steal" PROVE Owner[r] # Owner[q]
      BY <1>1, <1>4, <2>2 DEF RivalInv, OneProcessPerOwner, Stopped
    <2>3. QED
      BY <2>1, <2>2 DEF RivalInv, LosersHaveRivals
  <1>5. QED
    BY <1>2, <1>3, <1>4

LEMMA StepKeepsRivals == ASSUME RivalInv, [Next]_vars PROVE RivalInv'
  <1>1. TypeOK' /\ OneProcessPerOwner'
    BY StepKeepsType, StepKeepsOneProcess DEF RivalInv
  <1> USE DEF PcState, Stopped, Working
  <1>2. ASSUME NEW r \in Run, Begin(r) PROVE RivalInv'
    BY <1>1, <1>2, MovesKeepRivals DEF Begin
  <1>3. ASSUME NEW r \in Run, PutIfAbsent(r), pc[r] \notin Stopped PROVE RivalInv'
    <2>1. expiresAt[r] \in Nat
      BY DEF RivalInv, TypeOK
    <2>2. QED
      BY <1>1, <1>3, <2>1, MovesKeepRivals DEF PutIfAbsent
  <1>4. ASSUME NEW r \in Run, Create(r) \/ Recreate(r) PROVE RivalInv'
    <2>1. pc[r] \in {"create", "recreate"}
      BY <1>4 DEF Create, Recreate
    <2>2. CASE PutIfAbsent(r)
      BY <1>3, <2>1, <2>2
    <2>3. CASE Conflict(r, "read") \/ Conflict(r, "reread")
      BY <1>1, <2>3, MovesKeepRivals DEF Conflict
    <2>4. QED
      BY <1>4, <2>2, <2>3 DEF Create, Recreate
  <1>5. ASSUME NEW r \in Run, Read(r) \/ Reread(r) PROVE RivalInv'
    <2>1. lease' = lease
      BY <1>5 DEF Read, Reread
    <2>2. CASE StandDown(r)
      BY <1>1, <2>1, <2>2, MovesKeepRivals DEF StandDown, Exit
    <2>3. CASE ReadThen(r, "recreate") \/ ReadThen(r, "delete")
      BY <1>1, <2>1, <2>3, MovesKeepRivals DEF ReadThen
    <2>4. QED
      BY <1>5, <2>2, <2>3 DEF Read, Reread
  <1>6. ASSUME NEW r \in Run, Delete(r) PROVE RivalInv'
    BY <1>1, <1>6, MovesKeepRivals DEF Delete
  <1>7. ASSUME NEW r \in Run, Steal(r) PROVE RivalInv'
    <2>1. CASE PutIfAbsent(r)
      BY <1>3, <1>7, <2>1 DEF Steal
    <2>2. CASE lease' = lease /\ Exit(r, "standDown")
      BY <1>1, <2>2, MovesKeepRivals DEF Exit
    <2>3. QED
      BY <1>7, <2>1, <2>2 DEF Steal
  <1>8. ASSUME NEW r \in Run, RenewRead(r) PROVE RivalInv'
    BY <1>1, <1>8, MovesKeepRivals DEF RenewRead, ReadThen
  <1>9. ASSUME NEW r \in Run, RenewPut(r) PROVE RivalInv'
    <2>1. now + Ttl \in Nat
      BY DEF RivalInv, TypeOK
    <2>2. QED
      BY <1>1, <1>9, <2>1, MovesKeepRivals DEF RenewPut
  <1>10. ASSUME NEW r \in Run, ReleaseRead(r) PROVE RivalInv'
    BY <1>1, <1>10, MovesKeepRivals DEF ReleaseRead, ReadThen, Exit
  <1>11. ASSUME NEW r \in Run, ReleaseDelete(r) \/ Crash(r) PROVE RivalInv'
    BY <1>1, <1>11, MovesKeepRivals DEF ReleaseDelete, Crash, Exit
  <1>12. CASE Tick \/ UNCHANGED vars
    BY <1>1, <1>12 DEF Tick, vars, RivalInv, LosersHaveRivals
  <1>13. QED
    BY <1>2, <1>4, <1>5, <1>6, <1>7, <1>8, <1>9, <1>10, <1>11, <1>12
       DEF Next, Acquire, Renew, Release

(* What holds a run up is the lease of a rival that has not expired, never *)
(* an unreadable one, nor one of an attempt of its own container.          *)
LEMMA HoldersAreRivals ==
  ASSUME RivalInv, NEW r \in Run, HeldByAnother(r, lease)
  PROVE  lease \in Body /\ Owner[lease.token] # Owner[r] /\ lease.exp > moment[r]
  <1>1. moment[r] \in Nat
    BY DEF RivalInv, TypeOK
  <1>2. lease \in Body /\ lease # Absent
    BY <1>1 DEF RivalInv, TypeOK, Reading, Unreadable, HeldByAnother, Expiry
  <1>3. QED
    BY <1>2 DEF HeldByAnother, SameOwner, Body, Expiry

(* Only the two readings and the create of a takeover make a run stand     *)
(* down.                                                                   *)
LEMMA HowRunsStandDown ==
  ASSUME TypeOK, [Next]_vars, NEW r \in Run, pc[r] # "standDown", pc'[r] = "standDown"
  PROVE  StandDown(r) \/ (pc[r] = "steal" /\ lease # Absent)
  <1> USE DEF Goto, Exit, ReadThen
  <1>1. pc \in [Run -> PcState]
    BY DEF TypeOK
  <1>2. ASSUME NEW q \in Run, Begin(q) \/ Create(q) \/ Recreate(q) \/ Delete(q) PROVE FALSE
    BY <1>1, <1>2 DEF Begin, Create, Recreate, PutIfAbsent, Conflict, Delete
  <1>3. ASSUME NEW q \in Run, Read(q) \/ Reread(q) PROVE StandDown(r)
    BY <1>1, <1>3 DEF Read, Reread, StandDown
  <1>4. ASSUME NEW q \in Run, Steal(q) PROVE pc[r] = "steal" /\ lease # Absent
    BY <1>1, <1>4 DEF Steal, PutIfAbsent
  <1>5. ASSUME NEW q \in Run, Renew(q) \/ Release(q) \/ Crash(q) PROVE FALSE
    BY <1>1, <1>5 DEF Renew, RenewRead, RenewPut, Release, ReleaseRead, ReleaseDelete, Crash
  <1>6. CASE Tick \/ UNCHANGED vars
    BY <1>6 DEF Tick, vars
  <1>7. QED
    BY <1>2, <1>3, <1>4, <1>5, <1>6 DEF Next, Acquire

(* A run stands down only before a lease that a run of another identity    *)
(* wrote, unexpired when this one began or put in the place of the one it  *)
(* deleted (D55).                                                          *)
THEOREM StandingDownTakesARival == Spec => OnlyCompetitorsBlock
  <1>1. RivalInv /\ [Next]_vars => RivalInv'
    BY StepKeepsRivals
  <1>2. ASSUME RivalInv, [Next]_vars, NEW r \in Run, pc[r] # "standDown", pc'[r] = "standDown"
        PROVE  /\ lease \in Body /\ Owner[lease.token] # Owner[r]
               /\ pc[r] = "steal" \/ lease.exp > moment[r]
    <2>1. CASE StandDown(r)
      BY <1>2, <2>1, HoldersAreRivals DEF StandDown
    <2>2. CASE pc[r] = "steal" /\ lease # Absent
      BY <1>2, <2>2 DEF RivalInv, LosersHaveRivals
    <2>3. QED
      BY <1>2, <2>1, <2>2, HowRunsStandDown DEF RivalInv
  <1>3. RivalInv /\ [Next]_vars =>
          [\A r \in Run : pc[r] # "standDown" /\ pc'[r] = "standDown" =>
             /\ lease \in Body /\ Owner[lease.token] # Owner[r]
             /\ pc[r] = "steal" \/ lease.exp > moment[r]]_vars
    BY <1>2
  <1>4. QED
    BY InitHasNoRivals, <1>1, <1>3, PTL DEF Spec, OnlyCompetitorsBlock

-----------------------------------------------------------------------------
(* The lease is a lock                                                     *)

(* The note of a stale write is never taken back.                         *)
LEMMA StaleWritesAreNoted ==
  ASSUME [Next]_vars, staleWrite PROVE staleWrite'
  <1>1. staleWrite' = staleWrite \/ \E r \in Run : NoteStale(r)
    BY DEF Next, Acquire, Renew, Release, Begin, Create, Recreate, Read, Reread, Delete, Steal,
           PutIfAbsent, Conflict, RenewRead, RenewPut, ReleaseRead, ReleaseDelete, Crash, Tick,
           vars
  <1>2. QED
    BY <1>1 DEF NoteStale

(* A lease that is there after a step is the one there was, or was put.    *)
LEMMA WhoPutsALease ==
  ASSUME [Next]_vars, lease' # lease, lease' # Absent
  PROVE  \E p \in Run : PutIfAbsent(p) \/ RenewPut(p)
  BY DEF Next, Acquire, Renew, Release, Begin, Create, Recreate, Read, Reread, Delete, Steal,
         Conflict, RenewRead, ReleaseRead, ReleaseDelete, Crash, Tick, vars

(* No step takes a run's place before the run has lost it.                 *)
LEMMA NobodyIsReplaced ==
  ASSUME LeaseInv, LeaseInv', [Next]_vars, ~staleWrite',
         NEW q \in Run, Entitled(q), NEW r \in Run, Entitled(r)'
  PROVE  q = r
  <1>1. ~staleWrite
    BY StaleWritesAreNoted
  <1>2. lease = LeaseBody(q, expiresAt[q]) /\ lease # Absent
    BY <1>1 DEF LeaseInv, LeaseRecordsHolder, TypeOK, LeaseBody, Body
  <1>3. lease' = LeaseBody(r, expiresAt'[r]) /\ lease' # Absent
    BY DEF LeaseInv, LeaseRecordsHolder, TypeOK, LeaseBody, Body
  <1>4. CASE lease' = lease
    BY <1>2, <1>3, <1>4 DEF LeaseBody
  <1>5. CASE lease' # lease
    <2>1. PICK p \in Run : RenewPut(p)
      BY <1>2, <1>3, <1>5, WhoPutsALease DEF PutIfAbsent
    <2>2. p = r
      BY <1>3, <2>1 DEF RenewPut, LeaseBody
    <2>3. pc[p] = "renewPut" /\ lease = seen[p]
      BY <2>1 DEF RenewPut, NoteStale
    <2>4. QED
      BY <1>1, <2>2, <2>3, FreshWritersAreAlone
  <1>6. QED
    BY <1>4, <1>5

(* So a step takes the lock, lets it go, leaves it alone, or is one after  *)
(* a write that came too late.                                             *)
LEMMA StepIsALockStep ==
  ASSUME LeaseInv, LeaseInv', [Next]_vars
  PROVE  [Exclusive!Next]_<<Holders, staleWrite>>
  <1>1. CASE staleWrite'
    <2>1. Holders' \in SUBSET Run /\ staleWrite' = TRUE
      BY <1>1 DEF Holders, LeaseInv, TypeOK
    <2>2. QED
      BY <2>1 DEF Exclusive!Next, Exclusive!StaleWrite
  <1>2. CASE ~staleWrite'
    <2>1. staleWrite' = staleWrite
      BY <1>2, StaleWritesAreNoted DEF LeaseInv, TypeOK
    <2>2. ASSUME NEW q \in Holders, NEW r \in Holders' PROVE q = r
      BY <1>2, <2>2, NobodyIsReplaced DEF Holders
    <2>3. ASSUME NEW q \in Holders', NEW r \in Holders' PROVE q = r
      BY <1>2, <2>3 DEF Holders, LeaseInv, TypeOK, LeaseRecordsHolder, LeaseBody
    <2>4. CASE Holders' = {}
      BY <2>1, <2>4 DEF Exclusive!Next, Exclusive!LetGo
    <2>5. CASE Holders = {} /\ Holders' # {}
      <3>1. PICK r \in Holders' : Holders' = {r}
        BY <2>3, <2>5
      <3>2. r \in Run /\ Exclusive!Take(r)
        BY <2>1, <2>5, <3>1 DEF Holders, Exclusive!Take
      <3>3. QED
        BY <3>2 DEF Exclusive!Next
    <2>6. CASE Holders # {} /\ Holders' # {}
      BY <2>1, <2>2, <2>6
    <2>7. QED
      BY <2>4, <2>5, <2>6
  <1>3. QED
    BY <1>1, <1>2

(* For any number of runs, owners and any ttl: the lease goes from one run *)
(* to another only by being free in between, up to the first stale write   *)
(* (CONTEXT.md, Ingest Lease; lease.py module docstring).                  *)
THEOREM LeaseImplementsALock == Spec => LeaseIsALock
  <1>1. Init => Exclusive!Init
    BY DEF Init, Holders, Entitled, Working, Exclusive!Init
  <1>2. LeaseInv /\ LeaseInv' /\ [Next]_vars => [Exclusive!Next]_<<Holders, staleWrite>>
    BY StepIsALockStep
  <1>3. QED
    BY <1>1, <1>2, LeaseInvHolds, PTL DEF Spec, LeaseIsALock, Exclusive!Spec
=============================================================================
