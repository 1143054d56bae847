------------------------------ MODULE Library ------------------------------
(***************************************************************************)
(* What library-service promises of one user's library: a map from games   *)
(* to OWNED or WISHLIST, on which every request that succeeds acts at one  *)
(* moment between its arrival and its answer, and one that is refused does *)
(* nothing at all.  A request whose database or pod fails under it acts at *)
(* one moment, even after its client was told, or not at all.              *)
(***************************************************************************)
CONSTANTS
  App,      \* the games
  Request,  \* the requests, each made once
  Absent    \* not in the library

VARIABLES
  library,  \* the status of each game, or Absent
  op,       \* what each request asks for
  outcome,  \* what it will be answered, from the moment that is certain
  ended     \* the requests that will not act any more

Status == {"OWNED", "WISHLIST"}

Ops ==
  [kind : {"put"}, app : App, status : Status]
    \cup [kind : {"delete"}, app : App]
    \cup [kind : {"ids"}, status : Status]

(* The 500 of a database that fails; no answer from a pod that is gone.    *)
Failures == {"failed", "lost"}

Codes == {"pending", "created", "ok", "gone", "missing", "conflict", "error"} \cup Failures

Outcomes == [code : Codes, ids : SUBSET App]

Pending   == [code |-> "pending", ids |-> {}]
Plain(code) == [code |-> code, ids |-> {}]

Init ==
  /\ library = [a \in App |-> Absent]
  /\ op \in [Request -> Ops]
  /\ outcome = [r \in Request |-> Pending]
  /\ ended = {}

(* The one moment of a request, and its answer, if it has none by then.    *)
Answer(r, kind, result) ==
  /\ op[r].kind = kind /\ r \notin ended
  /\ ended' = ended \cup {r}
  /\ outcome' = IF outcome[r] = Pending THEN [outcome EXCEPT ![r] = result] ELSE outcome
  /\ UNCHANGED op

(* A PUT creates the entry, or leaves it with the status it was given.     *)
Put(r) ==
  /\ Answer(r, "put", Plain(IF library[op[r].app] = Absent THEN "created" ELSE "ok"))
  /\ library' = [library EXCEPT ![op[r].app] = op[r].status]

Delete(r) ==
  /\ Answer(r, "delete", Plain(IF library[op[r].app] = Absent THEN "missing" ELSE "gone"))
  /\ library' = [library EXCEPT ![op[r].app] = Absent]

Ids(r) ==
  /\ Answer(r, "ids", [code |-> "ok", ids |-> {a \in App : library[a] = op[r].status}])
  /\ UNCHANGED library

(* Nothing is done, and nothing will be.                                   *)
Refuse(r) ==
  /\ \E code \in {"conflict", "error"} \cup Failures : Answer(r, op[r].kind, Plain(code))
  /\ UNCHANGED library

(* The database or the pod fails while the change may be on its way.       *)
Fail(r) ==
  /\ r \notin ended /\ outcome[r] = Pending
  /\ \E code \in Failures : outcome' = [outcome EXCEPT ![r] = Plain(code)]
  /\ UNCHANGED <<library, op, ended>>

Next == \E r \in Request : Put(r) \/ Delete(r) \/ Ids(r) \/ Refuse(r) \/ Fail(r)

Spec == Init /\ [][Next]_<<library, op, outcome, ended>>
=============================================================================
