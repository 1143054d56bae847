---------------------------- MODULE IngestLease ----------------------------
(***************************************************************************)
(* The ingest lease (gamerec/lease.py): one object in object storage that  *)
(* a run creates, renews, deletes, and may steal once it has expired.      *)
(*                                                                         *)
(* Object storage offers an atomic create-if-absent and otherwise plain    *)
(* get, put and delete, so every call is a step of its own and everything  *)
(* the code read before a call may be stale when the call lands.           *)
(*                                                                         *)
(* A run is one process.  Its token is fresh (uuid4), so the run itself    *)
(* stands for it.  Its owner is pod name plus pid, which a container that  *)
(* is restarted in place shares with the attempt that died before it.      *)
(***************************************************************************)
EXTENDS Integers, FiniteSets

CONSTANTS
  Run,        \* processes that want the lease
  OwnerName,  \* identities a human reads in the lease
  Owner,      \* Owner[r]: the identity of run r
  Absent,     \* "there is no lease object"
  NoRun,      \* the empty token an unreadable lease is given
  Ttl,        \* config.ingest_lease_ttl
  MaxTime     \* bound: the clock stops here

ASSUME OwnerAssumption == Owner \in [Run -> OwnerName]
ASSUME TimeAssumption  == Ttl \in Nat \ {0} /\ MaxTime \in Nat

(***************************************************************************)
(* What the object says: whose it is and when it expires.  A body that is  *)
(* not JSON reads as an expired lease that nobody owns.                    *)
(***************************************************************************)
Body       == [token : Run, exp : Nat]
Unreadable == [token |-> NoRun, exp |-> 0]
Reading    == Body \cup {Unreadable, Absent}

ASSUME TokenAssumption == NoRun \notin Run /\ Absent \notin Body \cup {Unreadable}

VARIABLES
  lease,      \* the object at locks/ingest.json
  now,        \* the clock every pod reads
  pc,         \* where each run is
  moment,     \* acquire: the time sampled once, on entry
  seen,       \* the last reading of the lease by each run
  expiresAt,  \* Lease.expires_at, the run's own idea of its expiry
  staleWrite  \* history: some put or delete hit a lease other than the one read

vars == <<lease, now, pc, moment, seen, expiresAt, staleWrite>>
locals == <<moment, seen, expiresAt>>

Stopped == {"idle", "standDown", "done", "dead"}
Working == {"working", "renewPut"}
PcState == Stopped \cup Working \cup
           {"create", "read", "recreate", "reread", "delete", "steal",
            "lost", "releaseDelete"}

TypeOK ==
  /\ lease \in Reading
  /\ now \in 0..MaxTime
  /\ pc \in [Run -> PcState]
  /\ moment \in [Run -> 0..MaxTime]
  /\ seen \in [Run -> Reading]
  /\ expiresAt \in [Run -> Nat]
  /\ staleWrite \in BOOLEAN

Init ==
  /\ lease \in {Absent, Unreadable}
  /\ now = 0
  /\ pc = [r \in Run |-> "idle"]
  /\ moment = [r \in Run |-> 0]
  /\ seen = [r \in Run |-> Absent]
  /\ expiresAt = [r \in Run |-> 0]
  /\ staleWrite = FALSE

Goto(r, l) == pc' = [pc EXCEPT ![r] = l]

(* The process is over, and its memory with it. *)
Exit(r, l) ==
  /\ Goto(r, l)
  /\ moment' = [moment EXCEPT ![r] = 0]
  /\ seen' = [seen EXCEPT ![r] = Absent]
  /\ expiresAt' = [expiresAt EXCEPT ![r] = 0]

(* Mutant: the lease is written without a token.                           *)
LeaseBodyNoToken(r, e) == [token |-> NoRun, exp |-> e]

(* Lease._body: what a run that holds the lease until e writes. *)
LeaseBody(r, e) == [token |-> r, exp |-> e]

(* holder.get("owner") is ours: a token of a run with the same identity. *)
SameOwner(l, r) == l # Absent /\ l.token \in Run /\ Owner[l.token] = Owner[r]

(* holder.get("expires_at", 0) *)
Expiry(l) == IF l = Absent THEN 0 ELSE l.exp

(* A write that follows a read is stale when the object changed in between. *)
NoteStale(r) == staleWrite' = (staleWrite \/ lease # seen[r])

(* A reading is used by one write only. *)
Forget(r) == seen' = [seen EXCEPT ![r] = Absent] /\ UNCHANGED <<moment, expiresAt>>

-----------------------------------------------------------------------------
(* acquire *)

(* A container starts once its previous attempt is gone: same owner, one   *)
(* process at a time.  The clock is sampled and the body built on entry.   *)
Begin(r) ==
  /\ pc[r] = "idle"
  /\ \A q \in Run \ {r} : Owner[q] = Owner[r] => pc[q] \in Stopped
  /\ moment' = [moment EXCEPT ![r] = now]
  /\ expiresAt' = [expiresAt EXCEPT ![r] = now + Ttl]
  /\ Goto(r, "create")
  /\ UNCHANGED <<lease, now, seen, staleWrite>>

(* put_if_absent: creates the object, or reports a conflict and changes nothing. *)
PutIfAbsent(r) ==
  /\ lease = Absent
  /\ lease' = LeaseBody(r, expiresAt[r])
  /\ Goto(r, "working")
  /\ UNCHANGED <<now, locals, staleWrite>>

Conflict(r, l) ==
  /\ lease # Absent
  /\ Goto(r, l)
  /\ UNCHANGED <<lease, now, locals, staleWrite>>

Create(r) == pc[r] = "create" /\ (PutIfAbsent(r) \/ Conflict(r, "read"))

Recreate(r) == pc[r] = "recreate" /\ (PutIfAbsent(r) \/ Conflict(r, "reread"))

(* Mutant: any lease that is there is taken over, expired or not.          *)
HeldByAnotherNever(r, l) == FALSE

(* Mutant: a dead attempt of ours counts as a rival.                       *)
HeldByAnotherIgnoringOwner(r, l) == Expiry(l) > moment[r]

(* LeaseHeld unless the reading is expired, or names our own owner. *)
HeldByAnother(r, l) == Expiry(l) > moment[r] /\ ~SameOwner(l, r)

(* _read: the reading is kept, and decides where the run goes on. *)
ReadThen(r, l) ==
  /\ seen' = [seen EXCEPT ![r] = lease]
  /\ Goto(r, l)
  /\ UNCHANGED <<moment, expiresAt>>

StandDown(r) == HeldByAnother(r, lease) /\ Exit(r, "standDown")

Read(r) ==
  /\ pc[r] = "read"
  /\ \/ lease = Absent /\ ReadThen(r, "recreate")
     \/ lease # Absent /\ StandDown(r)
     \/ lease # Absent /\ ~HeldByAnother(r, lease) /\ ReadThen(r, "delete")
  /\ UNCHANGED <<lease, now, staleWrite>>

(* The second read falls back to {}, which reads as expired and unowned. *)
Reread(r) ==
  /\ pc[r] = "reread"
  /\ \/ StandDown(r)
     \/ ~HeldByAnother(r, lease) /\ ReadThen(r, "delete")
  /\ UNCHANGED <<lease, now, staleWrite>>

(* Mutant: the takeover goes on to create without having deleted.          *)
DeleteForgotten(r) ==
  /\ pc[r] = "delete"
  /\ Goto(r, "steal")
  /\ Forget(r)
  /\ NoteStale(r)
  /\ UNCHANGED <<lease, now>>

(* The takeover: an unconditional delete, then create-if-absent. *)
Delete(r) ==
  /\ pc[r] = "delete"
  /\ lease' = Absent
  /\ Goto(r, "steal")
  /\ Forget(r)
  /\ NoteStale(r)
  /\ UNCHANGED now

(* Losing the create means another run took the lease over first. *)
Steal(r) ==
  /\ pc[r] = "steal"
  /\ \/ PutIfAbsent(r)
     \/ lease # Absent /\ Exit(r, "standDown") /\ UNCHANGED <<lease, now, staleWrite>>

-----------------------------------------------------------------------------
(* renew *)

(* Only a reading that carries another token says the lease is lost; no    *)
(* lease at all does not.                                                  *)
RenewRead(r) ==
  /\ pc[r] = "working"
  /\ ReadThen(r, IF lease # Absent /\ lease.token # r THEN "lost" ELSE "renewPut")
  /\ UNCHANGED <<lease, now, staleWrite>>

RenewPut(r) ==
  /\ pc[r] = "renewPut"
  /\ expiresAt' = [expiresAt EXCEPT ![r] = now + Ttl]
  /\ lease' = LeaseBody(r, now + Ttl)
  /\ Goto(r, "working")
  /\ NoteStale(r)
  /\ seen' = [seen EXCEPT ![r] = Absent]
  /\ UNCHANGED <<now, moment>>

-----------------------------------------------------------------------------
(* release *)

(* The run ends, by returning or by raising (a put that fails in renew     *)
(* raises too): the finally clause reads the lease back.                   *)
ReleaseRead(r) ==
  /\ pc[r] \in Working \cup {"lost"}
  /\ IF lease = Absent \/ lease.token # r THEN Exit(r, "done")
                                          ELSE ReadThen(r, "releaseDelete")
  /\ UNCHANGED <<lease, now, staleWrite>>

ReleaseDelete(r) ==
  /\ pc[r] = "releaseDelete"
  /\ lease' = Absent
  /\ Exit(r, "done")
  /\ NoteStale(r)
  /\ UNCHANGED now

-----------------------------------------------------------------------------
(* environment *)

(* OOM kill, node loss, an exception during acquire: nothing is released. *)
Crash(r) ==
  /\ pc[r] \notin Stopped
  /\ Exit(r, "dead")
  /\ UNCHANGED <<lease, now, staleWrite>>

Tick ==
  /\ now < MaxTime
  /\ now' = now + 1
  /\ UNCHANGED <<lease, pc, locals, staleWrite>>

Acquire(r) == Create(r) \/ Read(r) \/ Recreate(r) \/ Reread(r) \/ Delete(r) \/ Steal(r)
Renew(r)   == RenewRead(r) \/ RenewPut(r)
Release(r) == ReleaseRead(r) \/ ReleaseDelete(r)

Next ==
  \/ \E r \in Run : Begin(r) \/ Acquire(r) \/ Renew(r) \/ Release(r) \/ Crash(r)
  \/ Tick

Spec == Init /\ [][Next]_vars

(* A process that is not killed keeps running, and every run ends: the     *)
(* Job's activeDeadlineSeconds sees to it.  Nothing makes a run start, and *)
(* nothing makes one crash.                                                *)
Fairness == \A r \in Run : WF_vars(Acquire(r)) /\ WF_vars(Renew(r)) /\ WF_vars(Release(r))

FairSpec == Spec /\ Fairness

-----------------------------------------------------------------------------
(* Properties *)

(* A run may work: it believes it holds the lease, and by its own record   *)
(* the lease has not expired.                                              *)
Entitled(r) == pc[r] \in Working /\ now < expiresAt[r]

(* "Held by exactly one job at a time": no two runs are entitled to work   *)
(* at once (CONTEXT.md, Ingest Lease; lease.py module docstring).          *)
OneHolder == \A q, r \in Run : Entitled(q) /\ Entitled(r) => q = r

(* What the calls the object store offers do give: two runs are entitled   *)
(* at once only after a put or a delete landed on a lease that had changed *)
(* since it was read.  Create-if-absent, the expiry test and the owner     *)
(* test are never the cause.                                               *)
OneHolderUnlessStaleWrite == ~staleWrite => OneHolder

(* As a whole the protocol is a lock: besides, no step hands the lease     *)
(* from one run to another while the first is still entitled.  It is free  *)
(* in between, by a release, an expiry, or the end of its holder.          *)
Holders == {r \in Run : Entitled(r)}

Exclusive == INSTANCE Lock WITH holders <- Holders, broken <- staleWrite

LeaseIsALock == Exclusive!Spec

(* A run stands down before the lease of a run with another identity, and  *)
(* one that had not expired when this run began or that took the place of  *)
(* the one it deleted: never before a lease that an attempt of the same    *)
(* container left, one that cannot be read, or none (D55).                 *)
OnlyCompetitorsBlock ==
  [][\A r \in Run : pc[r] # "standDown" /\ pc'[r] = "standDown" =>
       /\ lease \in Body /\ Owner[lease.token] # Owner[r]
       /\ pc[r] = "steal" \/ lease.exp > moment[r]]_vars

(* An abandoned lease cannot stop ingest for good: once a run has decided  *)
(* to take it over, some run gets to work, unless the contender is killed. *)
AbandonedLeaseIsTaken ==
  \A r \in Run : (pc[r] = "delete") ~> (pc[r] = "dead" \/ \E q \in Run : pc[q] \in Working)

-----------------------------------------------------------------------------
(* The inductive invariant behind OneHolderUnlessStaleWrite *)

(* An identity has at most one live process. *)
OneProcessPerOwner ==
  \A q, r \in Run : q # r /\ Owner[q] = Owner[r] => pc[q] \in Stopped \/ pc[r] \in Stopped

(* The time a run sampled on entry is in the past. *)
MomentsArePast == \A r \in Run : moment[r] <= now

(* A run about to write holds the reading that justifies the write. *)
ReadingsJustifyWrites ==
  \A r \in Run :
    /\ pc[r] = "delete" => Expiry(seen[r]) <= moment[r] \/ SameOwner(seen[r], r)
    /\ pc[r] = "renewPut" => seen[r] = Absent \/ seen[r].token = r
    /\ pc[r] = "releaseDelete" => seen[r] # Absent /\ seen[r].token = r

(* The object records every entitled run, with the expiry it believes in. *)
LeaseRecordsHolder ==
  ~staleWrite =>
    \A r \in Run : Entitled(r) => lease = LeaseBody(r, expiresAt[r])

LeaseInv ==
  /\ TypeOK
  /\ OneProcessPerOwner
  /\ MomentsArePast
  /\ ReadingsJustifyWrites
  /\ LeaseRecordsHolder

-----------------------------------------------------------------------------
(* The inductive invariant behind OnlyCompetitorsBlock *)

(* Between the delete and the create of a takeover, the lease that appears *)
(* is a rival's: no attempt of the same identity is alive to write one.    *)
LosersHaveRivals ==
  \A r \in Run : pc[r] = "steal" /\ lease # Absent =>
    lease \in Body /\ Owner[lease.token] # Owner[r]

RivalInv == TypeOK /\ OneProcessPerOwner /\ LosersHaveRivals
=============================================================================
