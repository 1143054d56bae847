--------------------------- MODULE LibraryService ---------------------------
(***************************************************************************)
(* library-service (LibraryService.java and what it runs on): each request *)
(* is a transaction of its own at READ COMMITTED, which reads its entry    *)
(* and then acts on what it read.  The table has a unique constraint on    *)
(* the user and the app, and no version column: Hibernate's UPDATE and     *)
(* DELETE name the row's id, and fail when no such row is left.            *)
(*                                                                         *)
(* One user: requests of different users touch different rows.  A row's    *)
(* generated id is the request that created it.                            *)
(***************************************************************************)
EXTENDS FiniteSets

CONSTANTS
  App,        \* the games
  Request,    \* the requests, each made once
  NoRequest,  \* no request
  Absent      \* the status of a game with no row

ASSUME ServiceAssumption ==
  /\ NoRequest \notin Request /\ Absent \notin {"OWNED", "WISHLIST"}

VARIABLES
  row,        \* the committed row of each game: its status, and its id
  inserting,  \* the request whose INSERT of the game is not committed yet
  pc,         \* where each request is
  found,      \* the id of the row it read
  op,         \* what it asks for
  outcome,    \* its answer
  \* history
  met         \* the requests about the same game it was under way with

vars == <<row, inserting, pc, found, op, outcome, met>>

(* The requests whose transactions are over.                               *)
Ended == {r \in Request : pc[r] = "done"}

L == INSTANCE Library WITH library <- [a \in App |-> row[a].status], ended <- Ended

NoRow == [status |-> Absent, id |-> NoRequest]

(* A transaction that is open.                                             *)
Open == {"begun", "insert", "inserted", "update", "delete"}

(* One that has a COMMIT to send.                                          *)
Writing == {"inserted", "update", "delete"}

TypeOK ==
  /\ row \in [App -> [status : L!Status, id : Request] \cup {NoRow}]
  /\ inserting \in [App -> Request \cup {NoRequest}]
  /\ pc \in [Request -> Open \cup {"new", "done"}]
  /\ found \in [Request -> Request \cup {NoRequest}]
  /\ op \in [Request -> L!Ops] /\ outcome \in [Request -> L!Outcomes]
  /\ met \in [Request -> SUBSET Request]
  /\ \A r \in Request :
       pc[r] = "inserted" <=> \E a \in App : inserting[a] = r

Init ==
  /\ row = [a \in App |-> NoRow] /\ inserting = [a \in App |-> NoRequest]
  /\ pc = [r \in Request |-> "new"] /\ found = [r \in Request |-> NoRequest]
  /\ op \in [Request -> L!Ops] /\ outcome = [r \in Request |-> L!Pending]
  /\ met = [r \in Request |-> {}]

Goto(r, from, to) == pc[r] = from /\ pc' = [pc EXCEPT ![r] = to]

Finish(r, from, result) ==
  /\ Goto(r, from, "done")
  /\ outcome' = IF outcome[r] = L!Pending THEN [outcome EXCEPT ![r] = result] ELSE outcome
  /\ UNCHANGED <<op, met>>

Asks(r, kind) == op[r].kind = kind
Game(r)       == op[r].app

SameGame(r, s) ==
  /\ r # s /\ op[r].kind # "ids" /\ op[s].kind # "ids" /\ Game(r) = Game(s)

(* The request comes in, is valid, and its transaction begins.             *)
Begin(r) ==
  LET others == {s \in Request : pc[s] \in Open /\ SameGame(r, s)} IN
  /\ Goto(r, "new", "begun")
  /\ met' = [s \in Request |-> IF s = r THEN others
                               ELSE IF s \in others THEN met[s] \cup {r} ELSE met[s]]
  /\ UNCHANGED <<row, inserting, found, op, outcome>>

(* Mutant: whatever was found, the entry is created.                       *)
NextOfPutCreates(r) == "insert"

(* upsert, once it has looked: create, change, or nothing to write.        *)
NextOfPut(r) ==
  IF row[Game(r)] = NoRow THEN "insert"
  ELSE IF row[Game(r)].status = op[r].status THEN "done" ELSE "update"

FindForPut(r) ==
  /\ Asks(r, "put") /\ Goto(r, "begun", NextOfPut(r))
  /\ found' = [found EXCEPT ![r] = row[Game(r)].id]
  /\ outcome' = IF NextOfPut(r) = "done" THEN [outcome EXCEPT ![r] = L!Plain("ok")]
                                         ELSE outcome
  /\ UNCHANGED <<row, inserting, op, met>>

(* save: an id the database generates, so the INSERT goes out at once.  It *)
(* waits for another that is not committed, and then the unique constraint *)
(* has its say.                                                            *)
Insert(r) ==
  /\ Goto(r, "insert", "inserted")
  /\ inserting[Game(r)] = NoRequest /\ row[Game(r)] = NoRow
  /\ inserting' = [inserting EXCEPT ![Game(r)] = r]
  /\ UNCHANGED <<row, found, op, outcome, met>>

Conflict(r) ==
  /\ Finish(r, "insert", L!Plain("conflict"))
  /\ inserting[Game(r)] = NoRequest /\ row[Game(r)] # NoRow
  /\ UNCHANGED <<row, inserting, found>>

CommitInsert(r) ==
  /\ Finish(r, "inserted", L!Plain("created"))
  /\ row' = [row EXCEPT ![Game(r)] = [status |-> op[r].status, id |-> r]]
  /\ inserting' = [inserting EXCEPT ![Game(r)] = NoRequest]
  /\ UNCHANGED found

(* Mutant: rows that are gone are not missed.                              *)
AnyRowWillDo(r) == TRUE

(* The row the request read is still there.                                *)
StillThere(r) == row[Game(r)].id = found[r]

(* The dirty entity is written at the commit, by the row's id.             *)
Update(r) ==
  /\ Finish(r, "update", L!Plain("ok")) /\ StillThere(r)
  /\ row' = [row EXCEPT ![Game(r)] = IF @ = NoRow THEN @ ELSE [@ EXCEPT !.status = op[r].status]]
  /\ UNCHANGED <<inserting, found>>

FindForDelete(r) ==
  /\ Asks(r, "delete")
  /\ IF row[Game(r)] = NoRow
       THEN Finish(r, "begun", L!Plain("missing"))
       ELSE Goto(r, "begun", "delete") /\ UNCHANGED <<op, outcome, met>>
  /\ found' = [found EXCEPT ![r] = row[Game(r)].id]
  /\ UNCHANGED <<row, inserting>>

Delete(r) ==
  /\ Finish(r, "delete", L!Plain("gone")) /\ StillThere(r)
  /\ row' = [row EXCEPT ![Game(r)] = NoRow]
  /\ UNCHANGED <<inserting, found>>

(* No row with that id any more: the handler of everything else, a 500.    *)
Stale(r) ==
  /\ \E from \in {"update", "delete"} : Finish(r, from, L!Plain("error"))
  /\ ~StillThere(r)
  /\ UNCHANGED <<row, inserting, found>>

(* appIds with a status: one query, of what is committed.                  *)
Ids(r) ==
  /\ Asks(r, "ids")
  /\ Finish(r, "begun", [code |-> "ok", ids |-> {a \in App : row[a].status = op[r].status}])
  /\ UNCHANGED <<row, inserting, found>>

(* Mutant: an INSERT outlives the transaction it belongs to.               *)
NothingRolledBack(r) == inserting

RolledBack(r) == [a \in App |-> IF inserting[a] = r THEN NoRequest ELSE inserting[a]]

(* The database's connection is lost, a 500 as any exception that has no   *)
(* handler of its own; or the pod is, and answers nothing.  There was no   *)
(* COMMIT yet, and what was begun is rolled back.                          *)
Lose(r) ==
  /\ \E from \in Open \ Writing, code \in L!Failures : Finish(r, from, L!Plain(code))
  /\ UNCHANGED <<row, inserting, found>>

(* The same around the COMMIT: it may not have been sent, may be on its    *)
(* way still, or may have lost only its acknowledgement.                   *)
LoseCommit(r) ==
  /\ pc[r] \in Writing /\ outcome[r] = L!Pending
  /\ \E code \in L!Failures : outcome' = [outcome EXCEPT ![r] = L!Plain(code)]
  /\ UNCHANGED <<row, inserting, pc, found, op, met>>

(* The database finds that the client of a transaction is gone.            *)
RollBack(r) ==
  /\ outcome[r] # L!Pending
  /\ \E from \in Writing : Goto(r, from, "done")
  /\ inserting' = RolledBack(r)
  /\ UNCHANGED <<row, found, op, outcome, met>>

Step(r) ==
  \/ Begin(r) \/ FindForPut(r) \/ Insert(r) \/ Conflict(r) \/ CommitInsert(r)
  \/ Update(r) \/ FindForDelete(r) \/ Delete(r) \/ Stale(r) \/ Ids(r)
  \/ Lose(r) \/ LoseCommit(r) \/ RollBack(r)

Next == \E r \in Request : Step(r)

Spec == Init /\ [][Next]_vars

-----------------------------------------------------------------------------

(* Transactions that read before they write, with no version to compare,   *)
(* still make a map on which every answered request acts at one moment: no *)
(* change is answered that was not made, none is made that was refused,    *)
(* and one whose database failed (the same 500) is made once or not at all *)
(* (LibraryService.java:35-41, ApiExceptionHandler.java:67-88).            *)
LibraryIsAMap == L!Spec

(* A 409, or the 500 of a row that is gone, is answered only when another  *)
(* transaction about the same entry was open at the same time; it may be   *)
(* one whose own request has failed, and that is not rolled back yet.  The *)
(* only other 500 is that of a database that fails.                        *)
RefusedOnlyInARace ==
  \A r \in Request : outcome[r].code \in {"conflict", "error"} => met[r] # {}
=============================================================================
