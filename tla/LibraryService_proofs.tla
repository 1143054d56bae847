----------------------- MODULE LibraryService_proofs -----------------------
(***************************************************************************)
(* Proofs about LibraryService: for any games and any number of requests   *)
(* it implements Library, and refuses a request only in a race.            *)
(***************************************************************************)
EXTENDS LibraryService, TLAPS

-----------------------------------------------------------------------------
(* The invariant *)

(* What a request is at, by what it asks for; and it is not answered       *)
(* before it has something to commit.                                      *)
Stages ==
  \A r \in Request :
    /\ pc[r] \in {"insert", "inserted", "update"} => Asks(r, "put")
    /\ pc[r] = "delete" => Asks(r, "delete")
    /\ pc[r] \in {"update", "delete"} => found[r] \in Request
    /\ pc[r] \in {"new", "begun", "insert"} => outcome[r] = L!Pending

(* The INSERT that is not committed is of a request that waits to commit   *)
(* it, and there is no row yet.                                            *)
Insertions ==
  \A r \in Request :
    /\ \A a \in App : inserting[a] = r =>
         pc[r] = "inserted" /\ Game(r) = a /\ row[a] = NoRow
    /\ pc[r] = "inserted" => inserting[Game(r)] = r

(* Transactions open at the same time about the same game have met.        *)
Meetings ==
  \A r, s \in Request :
    pc[r] \in Open /\ pc[s] \in Open /\ SameGame(r, s) => s \in met[r]

(* What a request has found stays so unless it has met another.            *)
Raced ==
  \A r \in Request : met[r] = {} =>
    /\ pc[r] = "insert" => row[Game(r)] = NoRow
    /\ pc[r] \in {"update", "delete"} => StillThere(r)
    /\ outcome[r].code \notin {"conflict", "error"}

ServiceInv == TypeOK /\ Stages /\ Insertions /\ Meetings /\ Raced

-----------------------------------------------------------------------------
(* Data *)

(* A row that is there is not NoRow, by its id and by its status.          *)
LEMMA Rows ==
  ASSUME TypeOK, NEW a \in App
  PROVE  /\ row[a] = NoRow => row[a].status = Absent /\ row[a].id = NoRequest
         /\ row[a] # NoRow => /\ row[a].status \in L!Status /\ row[a].id \in Request
                              /\ row[a].status # Absent
                              /\ row[a] = [status |-> row[a].status, id |-> row[a].id]
BY ServiceAssumption DEF TypeOK, NoRow, L!Status

(* A request that changes the library names a game, a PUT a status too.    *)
LEMMA Asked ==
  ASSUME TypeOK, NEW r \in Request
  PROVE  /\ Asks(r, "put") => Game(r) \in App /\ op[r].status \in L!Status
         /\ Asks(r, "delete") => Game(r) \in App
         /\ op[r].kind \in {"put", "delete", "ids"}
         /\ Asks(r, "ids") => op[r].status \in L!Status
BY DEF TypeOK, L!Ops, L!Status, Asks, Game

LEMMA Answers ==
  ASSUME NEW code \in L!Codes
  PROVE  /\ L!Plain(code) \in L!Outcomes /\ L!Plain(code).code = code
         /\ L!Pending \in L!Outcomes /\ L!Pending.code = "pending"
BY DEF L!Plain, L!Pending, L!Outcomes, L!Codes

-----------------------------------------------------------------------------
(* Types *)

LEMMA TypeOKAtFirst == Init => TypeOK
BY ServiceAssumption, Answers
   DEF Init, TypeOK, NoRow, Open, L!Ops, L!Outcomes, L!Pending, L!Codes

(* TypeOK less its last conjunct, and that conjunct.                       *)
Types ==
  /\ row \in [App -> [status : L!Status, id : Request] \cup {NoRow}]
  /\ inserting \in [App -> Request \cup {NoRequest}]
  /\ pc \in [Request -> Open \cup {"new", "done"}]
  /\ found \in [Request -> Request \cup {NoRequest}]
  /\ op \in [Request -> L!Ops] /\ outcome \in [Request -> L!Outcomes]
  /\ met \in [Request -> SUBSET Request]

Inserters == \A r \in Request : pc[r] = "inserted" <=> \E a \in App : inserting[a] = r

LEMMA TypesAreKept ==
  ASSUME ServiceInv, NEW r \in Request, Step(r)
  PROVE  Types'
<1> USE DEF ServiceInv
<1>1. CASE Begin(r)
  BY <1>1 DEF Begin, Goto, TypeOK, Types, Open, SameGame
<1>2. CASE FindForPut(r)
  BY <1>2, Asked, Rows, Answers DEF FindForPut, Goto, NextOfPut, TypeOK, Types, Open, L!Codes, NoRow
<1>3. CASE Insert(r)
  BY <1>3, Asked DEF Insert, Goto, TypeOK, Types, Open, Stages
<1>4. CASE Conflict(r)
  BY <1>4, Answers DEF Conflict, Finish, Goto, TypeOK, Types, Open, L!Codes
<1>5. CASE CommitInsert(r)
  BY <1>5, Asked, Answers DEF CommitInsert, Finish, Goto, TypeOK, Types, Open, L!Codes, Stages
<1>6. CASE Update(r)
  BY <1>6, Asked, Rows, Answers DEF Update, Finish, Goto, TypeOK, Types, Open, L!Codes, Stages
<1>7. CASE FindForDelete(r)
  <2>1. L!Plain("missing") \in L!Outcomes BY Answers DEF L!Codes
  <2>2. row[Game(r)].id \in Request \cup {NoRequest}
    BY <1>7, Asked, Rows DEF FindForDelete
  <2> QED BY <1>7, <2>1, <2>2 DEF FindForDelete, Finish, Goto, TypeOK, Types, Open
<1>8. CASE Delete(r)
  BY <1>8, Answers DEF Delete, Finish, Goto, TypeOK, Types, Open, L!Codes
<1>9. CASE Stale(r)
  BY <1>9, Answers DEF Stale, Finish, Goto, TypeOK, Types, Open, L!Codes
<1>10. CASE Ids(r)
  BY <1>10 DEF Ids, Finish, Goto, TypeOK, Types, Open, L!Codes, L!Outcomes
<1>11. CASE Lose(r)
  BY <1>11, Answers DEF Lose, Finish, Goto, TypeOK, Types, Open, L!Codes, L!Failures
<1>12. CASE LoseCommit(r)
  BY <1>12, Answers DEF LoseCommit, TypeOK, Types, L!Codes, L!Failures
<1>13. CASE RollBack(r)
  BY <1>13 DEF RollBack, Goto, TypeOK, Types, RolledBack
<1> QED
  BY <1>1, <1>2, <1>3, <1>4, <1>5, <1>6, <1>7, <1>8, <1>9, <1>10, <1>11, <1>12, <1>13
     DEF Step

(* A step that leaves inserting alone moves no request from or to          *)
(* "inserted".                                                             *)
LEMMA InsertersAreKept ==
  ASSUME ServiceInv, NEW r \in Request, Step(r)
  PROVE  Inserters'
<1> USE DEF ServiceInv
<1>0. pc \in [Request -> Open \cup {"new", "done"}] /\ Inserters
  BY DEF TypeOK, Inserters
<1>1. CASE Begin(r) BY <1>0, <1>1 DEF Begin, Goto, Inserters
<1>2. CASE FindForPut(r) BY <1>0, <1>2 DEF FindForPut, Goto, NextOfPut, Inserters
<1>3. CASE Insert(r)
  <2>1. Game(r) \in App BY <1>3, Asked DEF Insert, Goto, Stages
  <2>2. /\ inserting[Game(r)] = NoRequest
        /\ inserting' = [inserting EXCEPT ![Game(r)] = r]
        /\ pc' = [pc EXCEPT ![r] = "inserted"]
        /\ inserting \in [App -> Request \cup {NoRequest}]
    BY <1>3 DEF Insert, Goto, TypeOK
  <2> QED BY <1>0, <2>1, <2>2, ServiceAssumption DEF Inserters
<1>4. CASE Conflict(r) BY <1>0, <1>4 DEF Conflict, Finish, Goto, Inserters
<1>5. CASE CommitInsert(r)
  <2>1. Game(r) \in App /\ inserting[Game(r)] = r
    BY <1>5, Asked DEF CommitInsert, Finish, Goto, Stages, Insertions
  <2>2. /\ inserting' = [inserting EXCEPT ![Game(r)] = NoRequest]
        /\ pc' = [pc EXCEPT ![r] = "done"]
        /\ inserting \in [App -> Request \cup {NoRequest}]
    BY <1>5 DEF CommitInsert, Finish, Goto, TypeOK
  <2>3. \A a \in App : inserting[a] = r => a = Game(r) BY DEF Insertions
  <2> QED BY <1>0, <2>1, <2>2, <2>3, ServiceAssumption DEF Inserters
<1>6. CASE Update(r) BY <1>0, <1>6 DEF Update, Finish, Goto, Inserters
<1>7. CASE FindForDelete(r) BY <1>0, <1>7 DEF FindForDelete, Finish, Goto, Inserters
<1>8. CASE Delete(r) BY <1>0, <1>8 DEF Delete, Finish, Goto, Inserters
<1>9. CASE Stale(r) BY <1>0, <1>9 DEF Stale, Finish, Goto, Inserters
<1>10. CASE Ids(r) BY <1>0, <1>10 DEF Ids, Finish, Goto, Inserters
<1>11. CASE Lose(r) BY <1>0, <1>11 DEF Lose, Finish, Goto, Inserters, Writing
<1>12. CASE LoseCommit(r) BY <1>0, <1>12 DEF LoseCommit, Inserters
<1>13. CASE RollBack(r)
  <2>1. /\ pc' = [pc EXCEPT ![r] = "done"]
        /\ inserting' = [a \in App |-> IF inserting[a] = r THEN NoRequest ELSE inserting[a]]
    BY <1>13 DEF RollBack, Goto, RolledBack
  <2> QED BY <1>0, <2>1, ServiceAssumption DEF Inserters
<1> QED
  BY <1>1, <1>2, <1>3, <1>4, <1>5, <1>6, <1>7, <1>8, <1>9, <1>10, <1>11, <1>12, <1>13
     DEF Step

LEMMA TypeOKIsKept ==
  ASSUME ServiceInv, NEW r \in Request, Step(r)
  PROVE  TypeOK'
BY TypesAreKept, InsertersAreKept DEF Types, Inserters, TypeOK

-----------------------------------------------------------------------------
(* The other conjuncts *)

LEMMA OthersAtFirst == Init => Stages /\ Insertions /\ Meetings /\ Raced
BY ServiceAssumption, Answers
   DEF Init, Stages, Insertions, Meetings, Raced, Open, NoRow, L!Pending

LEMMA StagesAreKept ==
  ASSUME ServiceInv, NEW r \in Request, Step(r)
  PROVE  Stages'
<1> USE DEF ServiceInv
<1>0. pc \in [Request -> Open \cup {"new", "done"}] /\ Stages
  BY DEF TypeOK
<1>1. CASE Begin(r) BY <1>0, <1>1 DEF Begin, Goto, Stages, Asks
<1>2. CASE FindForPut(r)
  <2>1. Game(r) \in App /\ Asks(r, "put") BY <1>2, Asked DEF FindForPut
  <2>2. NextOfPut(r) = "update" => row[Game(r)].id \in Request
    BY <2>1, Rows DEF NextOfPut
  <2>3. NextOfPut(r) \in {"insert", "done", "update"} BY DEF NextOfPut
  <2>4. /\ pc' = [pc EXCEPT ![r] = NextOfPut(r)] /\ op' = op /\ pc[r] = "begun"
        /\ found' = [found EXCEPT ![r] = row[Game(r)].id]
        /\ outcome' = IF NextOfPut(r) = "done" THEN [outcome EXCEPT ![r] = L!Plain("ok")]
                                               ELSE outcome
        /\ found \in [Request -> Request \cup {NoRequest}]
        /\ outcome \in [Request -> L!Outcomes]
    BY <1>2 DEF FindForPut, Goto, TypeOK
  <2> QED BY <1>0, <2>1, <2>2, <2>3, <2>4 DEF Stages, Asks
<1>3. CASE Insert(r) BY <1>0, <1>3 DEF Insert, Goto, Stages, Asks
<1>4. CASE Conflict(r) BY <1>0, <1>4 DEF Conflict, Finish, Goto, Stages, Asks, TypeOK
<1>5. CASE CommitInsert(r) BY <1>0, <1>5 DEF CommitInsert, Finish, Goto, Stages, Asks, TypeOK
<1>6. CASE Update(r) BY <1>0, <1>6 DEF Update, Finish, Goto, Stages, Asks, TypeOK
<1>7. CASE FindForDelete(r)
  <2>1. Game(r) \in App /\ Asks(r, "delete") BY <1>7, Asked DEF FindForDelete
  <2>2. row[Game(r)] # NoRow => row[Game(r)].id \in Request BY <2>1, Rows
  <2>3. /\ found' = [found EXCEPT ![r] = row[Game(r)].id] /\ op' = op /\ pc[r] = "begun"
        /\ found \in [Request -> Request \cup {NoRequest}]
        /\ outcome \in [Request -> L!Outcomes]
        /\ IF row[Game(r)] = NoRow
             THEN /\ pc' = [pc EXCEPT ![r] = "done"]
                  /\ outcome' = [outcome EXCEPT ![r] = L!Plain("missing")]
             ELSE pc' = [pc EXCEPT ![r] = "delete"] /\ outcome' = outcome
    BY <1>7, <1>0 DEF FindForDelete, Finish, Goto, TypeOK, Stages
  <2> QED BY <1>0, <2>1, <2>2, <2>3 DEF Stages, Asks
<1>8. CASE Delete(r) BY <1>0, <1>8 DEF Delete, Finish, Goto, Stages, Asks, TypeOK
<1>9. CASE Stale(r) BY <1>0, <1>9 DEF Stale, Finish, Goto, Stages, Asks, TypeOK
<1>10. CASE Ids(r) BY <1>0, <1>10 DEF Ids, Finish, Goto, Stages, Asks, TypeOK
<1>11. CASE Lose(r) BY <1>0, <1>11 DEF Lose, Finish, Goto, Stages, Asks, TypeOK
<1>12. CASE LoseCommit(r) BY <1>0, <1>12 DEF LoseCommit, Writing, Stages, Asks, TypeOK
<1>13. CASE RollBack(r) BY <1>0, <1>13 DEF RollBack, Goto, Stages, Asks, TypeOK
<1> QED
  BY <1>1, <1>2, <1>3, <1>4, <1>5, <1>6, <1>7, <1>8, <1>9, <1>10, <1>11, <1>12, <1>13
     DEF Step

LEMMA InsertionsAreKept ==
  ASSUME ServiceInv, NEW r \in Request, Step(r)
  PROVE  Insertions'
<1> USE DEF ServiceInv
<1>0. pc \in [Request -> Open \cup {"new", "done"}] /\ Insertions
      /\ inserting \in [App -> Request \cup {NoRequest}]
  BY DEF TypeOK
<1>1. CASE Begin(r) BY <1>0, <1>1 DEF Begin, Goto, Insertions, Game
<1>2. CASE FindForPut(r) BY <1>0, <1>2 DEF FindForPut, Goto, NextOfPut, Insertions, Game
<1>3. CASE Insert(r)
  <2>1. Game(r) \in App BY <1>3, Asked DEF Insert, Goto, Stages
  <2> QED BY <1>0, <1>3, <2>1, ServiceAssumption DEF Insert, Goto, Insertions, Game
<1>4. CASE Conflict(r) BY <1>0, <1>4 DEF Conflict, Finish, Goto, Insertions, Game
<1>5. CASE CommitInsert(r)
  <2>1. Game(r) \in App /\ inserting[Game(r)] = r
    BY <1>5, Asked DEF CommitInsert, Finish, Goto, Stages, Insertions
  <2>2. /\ inserting' = [inserting EXCEPT ![Game(r)] = NoRequest]
        /\ pc' = [pc EXCEPT ![r] = "done"] /\ op' = op
        /\ \A a \in App : a # Game(r) => row'[a] = row[a]
    BY <1>5 DEF CommitInsert, Finish, Goto, TypeOK
  <2>3. \A a \in App : inserting[a] = r => a = Game(r) BY DEF Insertions
  <2>4. \A s \in Request : Game(s)' = Game(s) BY <2>2 DEF Game
  <2> QED BY <1>0, <2>1, <2>2, <2>3, <2>4, ServiceAssumption DEF Insertions
<1>6. CASE Update(r)
  <2>1. \A a \in App : row[a] = NoRow => row'[a] = NoRow BY <1>6 DEF Update, TypeOK
  <2> QED BY <1>0, <1>6, <2>1 DEF Update, Finish, Goto, Insertions, Game
<1>7. CASE FindForDelete(r) BY <1>0, <1>7 DEF FindForDelete, Finish, Goto, Insertions, Game
<1>8. CASE Delete(r)
  <2>1. \A a \in App : row[a] = NoRow => row'[a] = NoRow BY <1>8 DEF Delete, TypeOK
  <2> QED BY <1>0, <1>8, <2>1 DEF Delete, Finish, Goto, Insertions, Game
<1>9. CASE Stale(r) BY <1>0, <1>9 DEF Stale, Finish, Goto, Insertions, Game
<1>10. CASE Ids(r) BY <1>0, <1>10 DEF Ids, Finish, Goto, Insertions, Game
<1>11. CASE Lose(r) BY <1>0, <1>11 DEF Lose, Finish, Goto, Insertions, Game, Writing
<1>12. CASE LoseCommit(r) BY <1>0, <1>12 DEF LoseCommit, Insertions, Game
<1>13. CASE RollBack(r)
  <2>1. /\ pc' = [pc EXCEPT ![r] = "done"] /\ op' = op /\ row' = row
        /\ inserting' = [a \in App |-> IF inserting[a] = r THEN NoRequest ELSE inserting[a]]
    BY <1>13 DEF RollBack, Goto, RolledBack
  <2>2. \A s \in Request : Game(s)' = Game(s) BY <2>1 DEF Game
  <2>3. \A s \in Request : pc[s] = "inserted" => Game(s) \in App BY Asked DEF Stages
  <2> QED BY <1>0, <2>1, <2>2, <2>3, ServiceAssumption DEF Insertions
<1> QED
  BY <1>1, <1>2, <1>3, <1>4, <1>5, <1>6, <1>7, <1>8, <1>9, <1>10, <1>11, <1>12, <1>13
     DEF Step

(* A transaction only opens at Begin, and meets those that are open.       *)
LEMMA MeetingsAreKept ==
  ASSUME ServiceInv, NEW r \in Request, Step(r)
  PROVE  Meetings'
<1> USE DEF ServiceInv
<1>0. /\ pc \in [Request -> Open \cup {"new", "done"}] /\ Meetings
      /\ met \in [Request -> SUBSET Request]
  BY DEF TypeOK
<1>1. CASE Begin(r)
  <2>1. /\ pc' = [pc EXCEPT ![r] = "begun"] /\ op' = op
        /\ met' = [s \in Request |->
             IF s = r THEN {t \in Request : pc[t] \in Open /\ SameGame(r, t)}
             ELSE IF s \in {t \in Request : pc[t] \in Open /\ SameGame(r, t)}
                    THEN met[s] \cup {r} ELSE met[s]]
    BY <1>1 DEF Begin, Goto
  <2>2. \A s, t \in Request : SameGame(s, t)' = SameGame(s, t) BY <2>1 DEF SameGame, Game
  <2>3. \A s, t \in Request : SameGame(s, t) => s # t /\ SameGame(t, s) BY DEF SameGame
  <2> QED BY <1>0, <2>1, <2>2, <2>3 DEF Meetings
<1>2. CASE ~Begin(r)
  <2>1. /\ op' = op /\ met' = met /\ pc[r] \in Open
        /\ \A s \in Request : s # r => pc'[s] = pc[s]
    BY <1>0, <1>2
       DEF Step, FindForPut, Insert, Conflict, CommitInsert, Update, FindForDelete, Delete,
           Stale, Ids, Lose, LoseCommit, RollBack, Finish, Goto, Open, Writing
  <2>2. \A s, t \in Request : SameGame(s, t)' = SameGame(s, t) BY <2>1 DEF SameGame, Game
  <2> QED BY <1>0, <2>1, <2>2 DEF Meetings
<1> QED BY <1>1, <1>2

(* Who changes a row has met everyone who has read it.                     *)
LEMMA Changes ==
  ASSUME ServiceInv, NEW r \in Request, NEW s \in Request, s # r,
         pc[r] \in Open, pc[s] \in Open, Game(s) = Game(r),
         op[r].kind # "ids", op[s].kind # "ids"
  PROVE  met[s] # {}
BY DEF ServiceInv, Meetings, SameGame

LEMMA RacedIsKept ==
  ASSUME ServiceInv, NEW r \in Request, Step(r)
  PROVE  Raced'
<1> USE DEF ServiceInv
<1>0. /\ pc \in [Request -> Open \cup {"new", "done"}] /\ Raced
      /\ met \in [Request -> SUBSET Request] /\ outcome \in [Request -> L!Outcomes]
      /\ found \in [Request -> Request \cup {NoRequest}]
  BY DEF TypeOK
<1>a. L!Pending.code \notin {"conflict", "error"}
  BY Answers DEF L!Codes
<1>b. \A code \in L!Codes : L!Plain(code).code = code BY Answers
<1>1. CASE Begin(r)
  <2>1. /\ row' = row /\ op' = op /\ found' = found /\ outcome' = outcome
        /\ pc' = [pc EXCEPT ![r] = "begun"]
        /\ \A s \in Request : met'[s] = {} /\ s # r => met[s] = {}
        /\ pc[r] = "new"
    BY <1>1, <1>0 DEF Begin, Goto
  <2>2. \A s \in Request : Game(s)' = Game(s) /\ StillThere(s)' = StillThere(s)
    BY <2>1 DEF Game, StillThere
  <2>3. outcome[r] = L!Pending BY <2>1 DEF Stages
  <2> QED BY <1>0, <1>a, <2>1, <2>2, <2>3 DEF Raced
<1>2. CASE FindForPut(r)
  <2>1. /\ row' = row /\ op' = op /\ met' = met /\ pc' = [pc EXCEPT ![r] = NextOfPut(r)]
        /\ found' = [found EXCEPT ![r] = row[Game(r)].id]
        /\ \/ outcome' = outcome
           \/ outcome' = [outcome EXCEPT ![r] = L!Plain("ok")]
    BY <1>2 DEF FindForPut, Goto
  <2>2. \A s \in Request : Game(s)' = Game(s) BY <2>1 DEF Game
  <2>3. \A s \in Request : StillThere(s)' = IF s = r THEN TRUE ELSE StillThere(s)
    BY <1>0, <2>1, <2>2 DEF StillThere
  <2>4. NextOfPut(r) = "insert" => row[Game(r)] = NoRow BY DEF NextOfPut
  <2>5. L!Plain("ok").code = "ok" BY <1>b DEF L!Codes
  <2> QED BY <1>0, <2>1, <2>2, <2>3, <2>4, <2>5 DEF Raced
<1>3. CASE Insert(r)
  <2>1. /\ row' = row /\ op' = op /\ met' = met /\ pc' = [pc EXCEPT ![r] = "inserted"]
        /\ found' = found /\ outcome' = outcome
    BY <1>3 DEF Insert, Goto
  <2>2. \A s \in Request : Game(s)' = Game(s) /\ StillThere(s)' = StillThere(s)
    BY <2>1 DEF Game, StillThere
  <2> QED BY <1>0, <2>1, <2>2 DEF Raced
<1>4. CASE Conflict(r)
  <2>1. /\ row' = row /\ op' = op /\ met' = met /\ pc' = [pc EXCEPT ![r] = "done"]
        /\ found' = found /\ \A s \in Request : s # r => outcome'[s] = outcome[s]
        /\ pc[r] = "insert" /\ row[Game(r)] # NoRow
    BY <1>4, <1>0 DEF Conflict, Finish, Goto
  <2>2. \A s \in Request : Game(s)' = Game(s) /\ StillThere(s)' = StillThere(s)
    BY <2>1 DEF Game, StillThere
  <2> QED BY <1>0, <2>1, <2>2 DEF Raced
<1>5. CASE CommitInsert(r)
  <2>1. /\ op' = op /\ met' = met /\ pc' = [pc EXCEPT ![r] = "done"] /\ pc[r] = "inserted"
        /\ found' = found
        /\ \A s \in Request : outcome'[s] \in {outcome[s], L!Plain("created")}
        /\ \A a \in App : a # Game(r) => row'[a] = row[a]
    BY <1>5, <1>0 DEF CommitInsert, Finish, Goto, TypeOK
  <2>2. \A s \in Request : Game(s)' = Game(s) BY <2>1 DEF Game
  <2>3. L!Plain("created").code = "created" BY <1>b DEF L!Codes
  <2>4. Asks(r, "put") BY <2>1 DEF Stages
  <2>5. ASSUME NEW s \in Request, s # r, met[s] = {}, pc[s] \in {"insert", "update", "delete"}
        PROVE  Game(s) \in App /\ Game(s) # Game(r)
    BY <2>1, <2>4, <2>5, Changes, Asked DEF Stages, Open, Asks
  <2>6. ASSUME NEW s \in Request, s # r, met[s] = {}, pc[s] \in {"insert", "update", "delete"}
        PROVE  row'[Game(s)] = row[Game(s)] /\ StillThere(s)' = StillThere(s)
    BY <2>1, <2>2, <2>5, <2>6 DEF StillThere
  <2> QED BY <1>0, <2>1, <2>2, <2>3, <2>6 DEF Raced
<1>6. CASE Update(r)
  <2>1. /\ op' = op /\ met' = met /\ pc' = [pc EXCEPT ![r] = "done"]
        /\ found' = found
        /\ \A s \in Request : outcome'[s] \in {outcome[s], L!Plain("ok")}
        /\ \A a \in App : /\ row[a] = NoRow => row'[a] = NoRow
                          /\ row'[a].id = row[a].id
    BY <1>6, Rows DEF Update, Finish, Goto, TypeOK
  <2>2. \A s \in Request : Game(s)' = Game(s) BY <2>1 DEF Game
  <2>3. L!Plain("ok").code = "ok" BY <1>b DEF L!Codes
  <2>4. \A s \in Request : pc[s] \in {"insert", "update", "delete"} => Game(s) \in App
    BY Asked DEF Stages
  <2>5. \A s \in Request : pc[s] \in {"update", "delete"} => StillThere(s)' = StillThere(s)
    BY <2>1, <2>2, <2>4 DEF StillThere
  <2> QED BY <1>0, <2>1, <2>2, <2>3, <2>4, <2>5 DEF Raced
<1>7. CASE FindForDelete(r)
  <2>1. /\ row' = row /\ op' = op /\ met' = met
        /\ found' = [found EXCEPT ![r] = row[Game(r)].id]
        /\ \A s \in Request : outcome'[s] \in {outcome[s], L!Plain("missing")}
        /\ pc' = [pc EXCEPT ![r] = "delete"] \/ pc' = [pc EXCEPT ![r] = "done"]
    BY <1>7, <1>0 DEF FindForDelete, Finish, Goto
  <2>2. \A s \in Request : Game(s)' = Game(s) BY <2>1 DEF Game
  <2>3. \A s \in Request : StillThere(s)' = IF s = r THEN TRUE ELSE StillThere(s)
    BY <1>0, <2>1, <2>2 DEF StillThere
  <2>5. L!Plain("missing").code = "missing" BY <1>b DEF L!Codes
  <2> QED BY <1>0, <2>1, <2>2, <2>3, <2>5 DEF Raced
<1>8. CASE Delete(r)
  <2>1. /\ op' = op /\ met' = met /\ pc' = [pc EXCEPT ![r] = "done"] /\ pc[r] = "delete"
        /\ found' = found
        /\ \A s \in Request : outcome'[s] \in {outcome[s], L!Plain("gone")}
        /\ \A a \in App : a # Game(r) => row'[a] = row[a]
    BY <1>8, <1>0 DEF Delete, Finish, Goto, TypeOK
  <2>2. \A s \in Request : Game(s)' = Game(s) BY <2>1 DEF Game
  <2>3. L!Plain("gone").code = "gone" BY <1>b DEF L!Codes
  <2>4. Asks(r, "delete") BY <2>1 DEF Stages
  <2>5. ASSUME NEW s \in Request, s # r, met[s] = {}, pc[s] \in {"insert", "update", "delete"}
        PROVE  Game(s) \in App /\ Game(s) # Game(r)
    BY <2>1, <2>4, <2>5, Changes, Asked DEF Stages, Open, Asks
  <2>6. ASSUME NEW s \in Request, s # r, met[s] = {}, pc[s] \in {"insert", "update", "delete"}
        PROVE  row'[Game(s)] = row[Game(s)] /\ StillThere(s)' = StillThere(s)
    BY <2>1, <2>2, <2>5, <2>6 DEF StillThere
  <2> QED BY <1>0, <2>1, <2>2, <2>3, <2>6 DEF Raced
<1>9. CASE Stale(r)
  <2>1. /\ row' = row /\ op' = op /\ met' = met /\ pc' = [pc EXCEPT ![r] = "done"]
        /\ found' = found /\ \A s \in Request : s # r => outcome'[s] = outcome[s]
        /\ pc[r] \in {"update", "delete"} /\ ~StillThere(r)
    BY <1>9, <1>0 DEF Stale, Finish, Goto
  <2>2. \A s \in Request : Game(s)' = Game(s) /\ StillThere(s)' = StillThere(s)
    BY <2>1 DEF Game, StillThere
  <2> QED BY <1>0, <2>1, <2>2 DEF Raced
<1>10. CASE Ids(r)
  <2>1. /\ row' = row /\ op' = op /\ met' = met /\ pc' = [pc EXCEPT ![r] = "done"]
        /\ found' = found /\ \A s \in Request : s # r => outcome'[s] = outcome[s]
        /\ outcome'[r] = outcome[r] \/ outcome'[r].code = "ok"
    BY <1>10, <1>0 DEF Ids, Finish, Goto
  <2>2. \A s \in Request : Game(s)' = Game(s) /\ StillThere(s)' = StillThere(s)
    BY <2>1 DEF Game, StillThere
  <2> QED BY <1>0, <2>1, <2>2 DEF Raced
<1>c. \A code \in L!Failures : L!Plain(code).code \notin {"conflict", "error"}
  BY <1>b DEF L!Failures, L!Codes
<1>11. CASE Lose(r)
  <2>1. /\ row' = row /\ op' = op /\ met' = met /\ pc' = [pc EXCEPT ![r] = "done"]
        /\ found' = found
        /\ \E code \in L!Failures : \A s \in Request : outcome'[s] \in {outcome[s], L!Plain(code)}
    BY <1>11, <1>0 DEF Lose, Finish, Goto
  <2>2. \A s \in Request : Game(s)' = Game(s) /\ StillThere(s)' = StillThere(s)
    BY <2>1 DEF Game, StillThere
  <2> QED BY <1>0, <1>c, <2>1, <2>2 DEF Raced
<1>12. CASE LoseCommit(r)
  <2>1. /\ row' = row /\ op' = op /\ met' = met /\ pc' = pc /\ found' = found
        /\ \E code \in L!Failures : \A s \in Request : outcome'[s] \in {outcome[s], L!Plain(code)}
    BY <1>12, <1>0 DEF LoseCommit
  <2>2. \A s \in Request : Game(s)' = Game(s) /\ StillThere(s)' = StillThere(s)
    BY <2>1 DEF Game, StillThere
  <2> QED BY <1>0, <1>c, <2>1, <2>2 DEF Raced
<1>13. CASE RollBack(r)
  <2>1. /\ row' = row /\ op' = op /\ met' = met /\ pc' = [pc EXCEPT ![r] = "done"]
        /\ found' = found /\ outcome' = outcome
    BY <1>13 DEF RollBack, Goto
  <2>2. \A s \in Request : Game(s)' = Game(s) /\ StillThere(s)' = StillThere(s)
    BY <2>1 DEF Game, StillThere
  <2> QED BY <1>0, <2>1, <2>2 DEF Raced
<1> QED
  BY <1>1, <1>2, <1>3, <1>4, <1>5, <1>6, <1>7, <1>8, <1>9, <1>10, <1>11, <1>12, <1>13
     DEF Step

LEMMA ServiceInvIsKept == ServiceInv /\ [Next]_vars => ServiceInv'
<1>1. ASSUME ServiceInv, NEW r \in Request, Step(r) PROVE ServiceInv'
  BY <1>1, TypeOKIsKept, StagesAreKept, InsertionsAreKept, MeetingsAreKept, RacedIsKept
     DEF ServiceInv
<1>2. ASSUME ServiceInv, UNCHANGED vars PROVE ServiceInv'
  BY <1>2 DEF vars, ServiceInv, TypeOK, Stages, Insertions, Meetings, Raced, Asks, Game,
              SameGame, StillThere
<1> QED BY <1>1, <1>2 DEF Next

LEMMA ServiceIsConsistent == Spec => []ServiceInv
<1>1. Init => ServiceInv BY TypeOKAtFirst, OthersAtFirst DEF ServiceInv
<1> QED BY <1>1, ServiceInvIsKept, PTL DEF Spec

-----------------------------------------------------------------------------
(* The results *)

(* Rows, transactions and answers stay of their types, and an INSERT that  *)
(* is not committed belongs to an open transaction                         *)
(* (LibraryService.java:34-52).                                            *)
THEOREM LibraryTypeCorrect == Spec => []TypeOK
BY ServiceIsConsistent, PTL DEF ServiceInv

(* A 409, or the 500 of a row that is gone, goes only to a request whose   *)
(* transaction was open together with another about the same entry, be it  *)
(* one whose database failed (ApiExceptionHandler.java:67-88).             *)
THEOREM RefusalsAreRaces == Spec => []RefusedOnlyInARace
<1>1. ServiceInv => RefusedOnlyInARace BY DEF ServiceInv, Raced, RefusedOnlyInARace
<1> QED BY <1>1, ServiceIsConsistent, PTL

(* What the abstract library is while the row of a game changes.           *)
LEMMA Entries ==
  ASSUME TypeOK, NEW a \in App, NEW new, row' = [row EXCEPT ![a] = new]
  PROVE  [b \in App |-> row'[b].status]
           = [[b \in App |-> row[b].status] EXCEPT ![a] = new.status]
BY DEF TypeOK

(* A transaction that is over will not act any more.                       *)
LEMMA Ending ==
  ASSUME TypeOK, NEW r \in Request, NEW from \in Open \cup {"new"},
         NEW to \in Open \cup {"done"}, Goto(r, from, to)
  PROVE  r \notin Ended /\ Ended' = IF to = "done" THEN Ended \cup {r} ELSE Ended
BY DEF TypeOK, Goto, Ended, Open

LEMMA Finishing ==
  ASSUME TypeOK, NEW r \in Request, NEW from \in Open, NEW result, Finish(r, from, result)
  PROVE  /\ r \notin Ended /\ Ended' = Ended \cup {r} /\ op' = op
         /\ outcome' = IF outcome[r] = L!Pending THEN [outcome EXCEPT ![r] = result] ELSE outcome
BY Ending DEF Finish

(* The end of a transaction is the moment at which the library answers.    *)
LEMMA Answering ==
  ASSUME TypeOK, NEW r \in Request, NEW from \in Open, NEW result, Finish(r, from, result)
  PROVE  L!Answer(r, op[r].kind, result)
BY Finishing DEF L!Answer

LEMMA Refusing ==
  ASSUME NEW r \in Request, NEW code \in {"conflict", "error"} \cup L!Failures,
         L!Answer(r, op[r].kind, L!Plain(code)), row' = row
  PROVE  L!Next
<1>1. [a \in App |-> row'[a].status] = [a \in App |-> row[a].status] OBVIOUS
<1>2. L!Refuse(r) BY <1>1 DEF L!Refuse
<1> QED BY <1>2 DEF L!Next

LEMMA InitIsAMap == Init => L!Init
BY DEF Init, L!Init, NoRow, Ended

(* Each transaction acts on the library where it commits, or where it has  *)
(* found that it need not; it finds, inserts and begins unnoticed.         *)
LEMMA StepIsAMapStep ==
  ASSUME ServiceInv, NEW r \in Request, Step(r)
  PROVE  [L!Next]_<<[a \in App |-> row[a].status], op, outcome, Ended>>
<1> USE DEF ServiceInv
<1> DEFINE library == [a \in App |-> row[a].status]
<1>0. row' = row => library' = library OBVIOUS
<1>a. pc[r] \in {"new", "begun", "insert"} => outcome[r] = L!Pending BY DEF Stages
<1>1. CASE Begin(r)
  <2>1. Ended' = Ended BY <1>1, Ending DEF Begin, Open
  <2> QED BY <1>1, <1>0, <2>1 DEF Begin
<1>2. CASE FindForPut(r)
  <2>1. Asks(r, "put") /\ Game(r) \in App /\ op[r].status \in L!Status
    BY <1>2, Asked DEF FindForPut
  <2>2. CASE NextOfPut(r) # "done"
    <3>1. Goto(r, "begun", NextOfPut(r)) /\ NextOfPut(r) \in Open
      BY <1>2, <2>2 DEF FindForPut, NextOfPut, Open
    <3>2. Ended' = Ended BY <2>2, <3>1, Ending DEF Open
    <3> QED BY <1>2, <1>0, <2>2, <3>2 DEF FindForPut
  <2>3. CASE NextOfPut(r) = "done"
    <3>1. library[Game(r)] = op[r].status /\ op[r].status # Absent
      BY <2>1, <2>3, ServiceAssumption DEF NextOfPut, L!Status
    <3>2. library' = [library EXCEPT ![Game(r)] = op[r].status]
      BY <1>2, <1>0, <3>1, <2>1 DEF FindForPut
    <3>3. outcome[r] = L!Pending /\ Goto(r, "begun", "done")
      BY <1>2, <1>a, <2>3 DEF FindForPut, Goto
    <3>4. r \notin Ended /\ Ended' = Ended \cup {r} BY <3>3, Ending DEF Open
    <3>5. L!Put(r)
      BY <1>2, <2>1, <2>3, <3>1, <3>2, <3>3, <3>4
         DEF FindForPut, L!Put, L!Answer, Asks, Game
    <3> QED BY <3>5 DEF L!Next
  <2> QED BY <2>2, <2>3
<1>3. CASE Insert(r)
  <2>1. Ended' = Ended BY <1>3, Ending DEF Insert, Open
  <2> QED BY <1>3, <1>0, <2>1 DEF Insert
<1>4. CASE Conflict(r)
  <2>1. Finish(r, "insert", L!Plain("conflict")) /\ row' = row BY <1>4 DEF Conflict
  <2>2. L!Answer(r, op[r].kind, L!Plain("conflict"))
    BY <2>1, Answering DEF Open
  <2> QED BY <2>1, <2>2, Refusing
<1>5. CASE CommitInsert(r)
  <2>1. Asks(r, "put") /\ Game(r) \in App /\ op[r].status \in L!Status
    BY <1>5, Asked DEF CommitInsert, Finish, Goto, Stages
  <2>2. row[Game(r)] = NoRow BY <1>5, <2>1 DEF CommitInsert, Finish, Goto, Insertions
  <2>3. library[Game(r)] = Absent BY <2>1, <2>2 DEF NoRow
  <2>4. library' = [library EXCEPT ![Game(r)] = op[r].status]
    BY <1>5, <2>1, Entries DEF CommitInsert
  <2>5. Finish(r, "inserted", L!Plain("created")) BY <1>5 DEF CommitInsert
  <2>6. /\ r \notin Ended /\ Ended' = Ended \cup {r} /\ op' = op
        /\ outcome' = IF outcome[r] = L!Pending THEN [outcome EXCEPT ![r] = L!Plain("created")]
                                                ELSE outcome
    BY <2>5, Finishing DEF Open
  <2>7. L!Put(r) BY <2>1, <2>3, <2>4, <2>6 DEF L!Put, L!Answer, Asks, Game
  <2> QED BY <2>7 DEF L!Next
<1>6. CASE Update(r)
  <2>1. Asks(r, "put") /\ Game(r) \in App /\ op[r].status \in L!Status
    BY <1>6, Asked DEF Update, Finish, Goto, Stages
  <2>2. row[Game(r)].id \in Request BY <1>6 DEF Update, Finish, Goto, StillThere, Stages
  <2>3. row[Game(r)] # NoRow BY <2>2, ServiceAssumption DEF NoRow
  <2>4. library[Game(r)] # Absent BY <2>1, <2>3, Rows
  <2>5. row' = [row EXCEPT ![Game(r)] = [row[Game(r)] EXCEPT !.status = op[r].status]]
    BY <1>6, <2>1, <2>3 DEF Update, TypeOK
  <2>6. [row[Game(r)] EXCEPT !.status = op[r].status].status = op[r].status
    BY <2>1, <2>3, Rows
  <2>7. library' = [library EXCEPT ![Game(r)] = op[r].status]
    BY <2>1, <2>5, <2>6, Entries
  <2>8. Finish(r, "update", L!Plain("ok")) BY <1>6 DEF Update
  <2>9. /\ r \notin Ended /\ Ended' = Ended \cup {r} /\ op' = op
        /\ outcome' = IF outcome[r] = L!Pending THEN [outcome EXCEPT ![r] = L!Plain("ok")]
                                                ELSE outcome
    BY <2>8, Finishing DEF Open
  <2>10. L!Put(r) BY <2>1, <2>4, <2>7, <2>9 DEF L!Put, L!Answer, Asks, Game
  <2> QED BY <2>10 DEF L!Next
<1>7. CASE FindForDelete(r)
  <2>1. Asks(r, "delete") /\ Game(r) \in App BY <1>7, Asked DEF FindForDelete
  <2>2. CASE row[Game(r)] # NoRow
    <3>1. Goto(r, "begun", "delete") BY <1>7, <2>2 DEF FindForDelete
    <3>2. Ended' = Ended BY <3>1, Ending DEF Open
    <3> QED BY <1>7, <1>0, <2>2, <3>2 DEF FindForDelete
  <2>3. CASE row[Game(r)] = NoRow
    <3>1. library[Game(r)] = Absent BY <2>1, <2>3 DEF NoRow
    <3>2. library' = [library EXCEPT ![Game(r)] = Absent]
      BY <1>7, <1>0, <3>1, <2>1 DEF FindForDelete
    <3>3. Finish(r, "begun", L!Plain("missing")) BY <1>7, <2>3 DEF FindForDelete
    <3>4. /\ r \notin Ended /\ Ended' = Ended \cup {r} /\ op' = op
          /\ outcome' = IF outcome[r] = L!Pending THEN [outcome EXCEPT ![r] = L!Plain("missing")]
                                                  ELSE outcome
      BY <3>3, Finishing DEF Open
    <3>5. L!Delete(r) BY <2>1, <3>1, <3>2, <3>4 DEF L!Delete, L!Answer, Asks, Game
    <3> QED BY <3>5 DEF L!Next
  <2> QED BY <2>2, <2>3
<1>8. CASE Delete(r)
  <2>1. Asks(r, "delete") /\ Game(r) \in App
    BY <1>8, Asked DEF Delete, Finish, Goto, Stages
  <2>2. row[Game(r)].id \in Request BY <1>8 DEF Delete, Finish, Goto, StillThere, Stages
  <2>3. library[Game(r)] # Absent BY <2>1, <2>2, Rows, ServiceAssumption DEF NoRow
  <2>4. row' = [row EXCEPT ![Game(r)] = NoRow] BY <1>8 DEF Delete
  <2>5. library' = [library EXCEPT ![Game(r)] = NoRow.status] BY <2>1, <2>4, Entries
  <2>6. library' = [library EXCEPT ![Game(r)] = Absent] BY <2>5 DEF NoRow
  <2>7. Finish(r, "delete", L!Plain("gone")) BY <1>8 DEF Delete
  <2>8. /\ r \notin Ended /\ Ended' = Ended \cup {r} /\ op' = op
        /\ outcome' = IF outcome[r] = L!Pending THEN [outcome EXCEPT ![r] = L!Plain("gone")]
                                                ELSE outcome
    BY <2>7, Finishing DEF Open
  <2>9. L!Delete(r) BY <2>1, <2>3, <2>6, <2>8 DEF L!Delete, L!Answer, Asks, Game
  <2> QED BY <2>9 DEF L!Next
<1>9. CASE Stale(r)
  <2>1. PICK from \in {"update", "delete"} : Finish(r, from, L!Plain("error"))
    BY <1>9 DEF Stale
  <2>2. L!Answer(r, op[r].kind, L!Plain("error"))
    BY <2>1, Answering DEF Open
  <2> QED BY <1>9, <2>2, Refusing DEF Stale
<1>10. CASE Ids(r)
  <2>1. {a \in App : row[a].status = op[r].status} = {a \in App : library[a] = op[r].status}
    OBVIOUS
  <2> DEFINE result == [code |-> "ok", ids |-> {a \in App : row[a].status = op[r].status}]
  <2>2. Finish(r, "begun", result) /\ Asks(r, "ids") BY <1>10 DEF Ids
  <2>3. /\ r \notin Ended /\ Ended' = Ended \cup {r} /\ op' = op
        /\ outcome' = IF outcome[r] = L!Pending THEN [outcome EXCEPT ![r] = result] ELSE outcome
    <3> HIDE DEF result
    <3> QED BY <2>2, Finishing DEF Open
  <2>4. L!Ids(r) BY <1>10, <1>0, <2>1, <2>2, <2>3 DEF Ids, L!Ids, L!Answer, Asks
  <2> QED BY <2>4 DEF L!Next
<1>11. CASE Lose(r)
  <2>1. PICK from \in Open, code \in L!Failures : Finish(r, from, L!Plain(code))
    BY <1>11 DEF Lose
  <2>2. L!Answer(r, op[r].kind, L!Plain(code)) BY <2>1, Answering
  <2> QED BY <1>11, <2>2, Refusing DEF Lose
<1>12. CASE LoseCommit(r)
  <2>1. r \notin Ended /\ Ended' = Ended BY <1>12 DEF LoseCommit, Writing, Ended
  <2>2. L!Fail(r) BY <1>12, <1>0, <2>1 DEF LoseCommit, L!Fail
  <2> QED BY <2>2 DEF L!Next
<1>13. CASE RollBack(r)
  <2>1. PICK from \in Open : Goto(r, from, "done") BY <1>13 DEF RollBack, Writing, Open
  <2>2. r \notin Ended /\ Ended' = Ended \cup {r} BY <2>1, Ending
  <2>3. outcome[r] # L!Pending /\ outcome' = outcome /\ op' = op BY <1>13 DEF RollBack
  <2>4. L!Answer(r, op[r].kind, L!Plain("conflict")) BY <2>2, <2>3 DEF L!Answer
  <2> QED BY <1>13, <2>4, Refusing DEF RollBack
<1> QED
  BY <1>1, <1>2, <1>3, <1>4, <1>5, <1>6, <1>7, <1>8, <1>9, <1>10, <1>11, <1>12, <1>13
     DEF Step

(* library-service implements the map of its API, for any games and any    *)
(* number of requests: a change answered acted at one moment, a refused    *)
(* one never did, and one whose database or pod failed acted once or never *)
(* (LibraryService.java:34-75, ApiExceptionHandler.java:67-88).            *)
THEOREM ServiceImplementsTheMap == Spec => LibraryIsAMap
<1>1. ServiceInv /\ [Next]_vars => [L!Next]_<<[a \in App |-> row[a].status], op, outcome, Ended>>
  <2>1. ASSUME UNCHANGED vars
        PROVE  UNCHANGED <<[a \in App |-> row[a].status], op, outcome, Ended>>
    BY <2>1 DEF vars, Ended
  <2> QED BY <2>1, StepIsAMapStep DEF Next
<1> QED BY <1>1, InitIsAMap, ServiceIsConsistent, PTL DEF Spec, LibraryIsAMap, L!Spec
=============================================================================
