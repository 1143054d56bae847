------------------------------ MODULE WebPage ------------------------------
(***************************************************************************)
(* The page (web/app.js) in front of Recommend.  A submit disables the     *)
(* button, but Ctrl+Enter in the mood box submits all the same: asks may   *)
(* overlap, and their answers come in any order.  An ask is answered 503   *)
(* at most twice before it gives up; anything else settles it.             *)
(*                                                                         *)
(* Each ask is a call of Recommend, repeated after a pause.                *)
(***************************************************************************)
EXTENDS Recommend

CONSTANT
  MaxRetries  \* MAX_RETRIES

ASSUME PageAssumption == MaxRetries \in Nat /\ Call \subseteq Nat

VARIABLES
  url,       \* what each ask asks for
  ask,       \* each submit: "new", "asking", "pausing" or "settled"
  attempt,   \* its attempt
  disabled,  \* submit.disabled
  status     \* what the status line says

page == <<url, ask, attempt, disabled, status>>
vars == <<service, page>>

TypeOK ==
  /\ ServiceTypeOK
  /\ url \in [Call -> Queries \cup {Mood}]
  /\ ask \in [Call -> {"new", "asking", "pausing", "settled"}]
  /\ attempt \in [Call -> 0..MaxRetries]
  /\ disabled \in BOOLEAN
  /\ status \in {"", "searching", "restarting", "results", "error"}

Init ==
  /\ ServiceInit
  /\ url = [c \in Call |-> Mood]
  /\ ask = [c \in Call |-> "new"] /\ attempt = [c \in Call |-> 0]
  /\ disabled = FALSE /\ status = ""

(* The submit handler up to the fetch.  Asks are numbered as they come; a  *)
(* submit of two empty fields asks nothing, and is left out.               *)
Submit(c, asked) ==
  /\ ask[c] = "new" /\ (\A d \in Call : d < c => ask[d] # "new")
  /\ Receive(c, asked) /\ url' = [url EXCEPT ![c] = asked]
  /\ ask' = [ask EXCEPT ![c] = "asking"]
  /\ disabled' = TRUE /\ status' = "searching"
  /\ UNCHANGED attempt

Answered(c) == ask[c] = "asking" /\ pc[c] = "answered"

(* Mutant: one retry more.                                                 *)
MayRetryOnceMore(c) == answer[c].code = 503 /\ attempt[c] <= MaxRetries

(* ask: a 503 is worth a pause, MaxRetries times.                          *)
MayRetry(c) == answer[c].code = 503 /\ attempt[c] < MaxRetries

Pause(c) ==
  /\ Answered(c) /\ MayRetry(c)
  /\ ask' = [ask EXCEPT ![c] = "pausing"] /\ status' = "restarting"
  /\ Deliver(c)
  /\ UNCHANGED <<url, attempt, disabled>>

(* Mutant: the retries are not counted.                                    *)
RetryForEver(c) ==
  /\ ask[c] = "pausing" /\ Receive(c, url[c])
  /\ ask' = [ask EXCEPT ![c] = "asking"]
  /\ UNCHANGED <<url, attempt, disabled, status>>

Retry(c) ==
  /\ ask[c] = "pausing" /\ Receive(c, url[c])
  /\ ask' = [ask EXCEPT ![c] = "asking"] /\ attempt' = [attempt EXCEPT ![c] = @ + 1]
  /\ UNCHANGED <<url, disabled, status>>

Settle(c) ==
  /\ Deliver(c)
  /\ ask' = [ask EXCEPT ![c] = "settled"] /\ disabled' = FALSE
  /\ url' = [url EXCEPT ![c] = Mood] /\ attempt' = [attempt EXCEPT ![c] = 0]

(* render: the results, or that there are none.                            *)
Render(c) ==
  /\ Answered(c) /\ answer[c].code = 200
  /\ Settle(c) /\ status' = "results"

(* The catch of the handler: the status line says why, and no more.        *)
Fail(c) ==
  /\ Answered(c) /\ answer[c].code # 200 /\ ~MayRetry(c)
  /\ Settle(c) /\ status' = "error"

(* The connection breaks before the answer is there: fetch rejects, which  *)
(* the same catch shows.  The call ends all the same, and answers nobody.  *)
FetchRejects(c) ==
  /\ Answered(c)
  /\ Settle(c) /\ status' = "error"

PageStep(c) == Pause(c) \/ Retry(c) \/ Render(c) \/ Fail(c) \/ FetchRejects(c)

Next ==
  \/ (World \/ \E c \in Call : CallStep(c)) /\ UNCHANGED page
  \/ \E c \in Call : PageStep(c) \/ \E asked \in Queries : Submit(c, asked)

(* What a call and the page do on their own: read the name index, ask a    *)
(* library service that has a time-out, come to the end of a pause.        *)
OnItsOwn(c) ==
  \/ (Stat(c) \/ Load(c) \/ Keep(c) \/ Stamp(c) \/ AskLibrary(c)) /\ UNCHANGED page
  \/ Retry(c)

(* Threads run, time-outs and pauses end.  Nothing makes MinDB answer: its *)
(* calls have no deadline, and neither has the fetch of the page.          *)
Spec == Init /\ [][Next]_vars /\ \A c \in Call : WF_vars(OnItsOwn(c))

-----------------------------------------------------------------------------

(* MinDB answers each of its calls or fails it, and each response gets     *)
(* back to the page or is found to be lost.                                *)
NobodyHangs == \A c \in Call : []<>(pc[c] \notin {"seed", "search", "negated", "answered"})

(* The button comes back: where nobody hangs, whatever the services answer *)
(* or fail to, every submit ends, and leaves neither a dead button nor a   *)
(* status line that still says it is searching.                            *)
EverySubmitSettles ==
  NobodyHangs =>
    ((\E c \in Call : ask[c] \in {"asking", "pausing"}) ~>
       /\ \A c \in Call : ask[c] \in {"new", "settled"}
       /\ ~disabled /\ status \in {"results", "error"})

-----------------------------------------------------------------------------
(* What of it is safety                                                    *)

UnderWay(c) == ask[c] \in {"asking", "pausing"}

(* The button is dead, and the status line says it is searching, only      *)
(* while some ask has not settled.                                         *)
BusyOnlyWhileAsking ==
  disabled \/ status \in {"searching", "restarting"} => \E c \in Call : UnderWay(c)

(* An ask that is retried asks for the same, and has a retry left.         *)
AsksMayBeRetried ==
  \A c \in Call :
    /\ UnderWay(c) => url[c] \in Queries
    /\ ask[c] = "pausing" => attempt[c] < MaxRetries

PageInv == TypeOK /\ AsksMayBeRetried /\ BusyOnlyWhileAsking
=============================================================================
