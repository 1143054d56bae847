------------------------------- MODULE Steam -------------------------------
(***************************************************************************)
(* What the nightly run asks of SteamSpy and of Steam (ingest/steam.py,    *)
(* fetch_one of ingest/run.py): the popularity scan page by page over a    *)
(* catalogue that shifts meanwhile, then each candidate's details, within  *)
(* a budget of failures and a budget of rate limits, paced by Throttle.    *)
(*                                                                         *)
(* Of an answer there is what the code tells apart: details under the      *)
(* right appid, nothing for this appid, somebody else's details or no body *)
(* at all (_unwrap makes nothing of either), a 429, and a failure.  The    *)
(* pacer of the scan is a second bucket with a thread of its own to wait   *)
(* for: Throttle says what it does, and it is not repeated here.           *)
(***************************************************************************)
EXTENDS Throttle, Sequences, FiniteSets

CONSTANTS
  Appid,       \* what SteamSpy lists
  RealGame,    \* those of them that are games in Steam's own catalogue
  Reviews,     \* the review count of each
  ReviewFloor, \* config.review_floor
  PageSize,    \* STEAMSPY_PAGE_SIZE
  Limit,       \* --limit
  Attempts     \* attempts, of failures and of rate limits each

ASSUME SteamAssumption ==
  /\ IsFiniteSet(Appid) /\ RealGame \subseteq Appid /\ Reviews \in [Appid -> Nat]
  /\ ReviewFloor \in Nat /\ PageSize \in Nat \ {0}
  /\ Limit \in Nat /\ Attempts \in Nat \ {0}

VARIABLES
  pc,         \* where the run is
  page,       \* the page of SteamSpy's catalogue to ask for next
  rows,       \* rows: what the scan has met, each under its key
  targets,    \* the candidates, in order
  at,         \* the candidate in hand
  failures,   \* of fetch_details
  throttles,  \* of fetch_details
  verdict,    \* what fetch_one said of each candidate
  \* history, of the candidate in hand but for the last
  broken,     \* how many of its requests failed
  refused,    \* how many were answered 429
  answered    \* the candidates Steam has answered for

scan   == <<page, rows>>
budget == <<failures, throttles, broken, refused>>
vars   == <<limiter, meter, pc, scan, targets, at, budget, verdict, answered>>

Document == "document"
NotAGame == "not_a_game"
Filtered == "filtered_low_reviews"
Pending  == "pending_ingest"
Unknown  == "unknown"

TypeOK ==
  /\ LimiterTypeOK
  /\ pc \in {"scan", "fetch", "asking", "sent", "done", "raised"}
  /\ page \in Nat /\ {r.appid : r \in rows} \subseteq Appid /\ targets \in Seq(Appid)
  /\ at \in Nat \ {0} /\ (pc \in {"asking", "sent"} => at \in DOMAIN targets)
  /\ failures \in 0..Attempts /\ throttles \in 0..Attempts
  /\ broken \in Nat /\ refused \in Nat
  /\ verdict \in [Appid -> {Document, NotAGame, Filtered, Pending, Unknown}]
  /\ answered \subseteq Appid

Init ==
  /\ LimiterInit
  /\ pc = "scan" /\ page = 0 /\ rows = {}
  /\ targets = <<>> /\ at = 1
  /\ failures = 0 /\ throttles = 0 /\ broken = 0 /\ refused = 0
  /\ verdict = [a \in Appid |-> Unknown] /\ answered = {}

-----------------------------------------------------------------------------
(* fetch_popular.                                                          *)

(* External: page `number` of SteamSpy's listing.  Its order is the order  *)
(* at the time of the request, and has shifted since the last.             *)
Listings(number) ==
  LET left == Cardinality(Appid) - number * PageSize
      size == IF left < 0 THEN 0 ELSE Least(left, PageSize)
  IN  {s \in [1..size -> Appid] : \A i, j \in 1..size : s[i] = s[j] => i = j}

(* Mutant: the rows of a page are collected into a list.                   *)
RowPosition(number, listed, i) == <<number, i>>

(* rows is keyed by appid: a game met again takes its own place.           *)
RowKey(number, listed, i) == listed[i]

RowsWith(number, listed) ==
  rows \cup {[key |-> RowKey(number, listed, i), appid |-> listed[i]] : i \in DOMAIN listed}

(* ceil(max(limit, 1) / STEAMSPY_PAGE_SIZE).                               *)
Pages == ((IF Limit = 0 THEN 1 ELSE Limit) + PageSize - 1) \div PageSize

(* Most reviews first, and no more than the limit; those with as many      *)
(* reviews as another stay as they were met, and here in any order.        *)
Orderings(all) ==
  {s \in [1..Least(Limit, Cardinality(all)) -> all] :
     /\ \A i, j \in DOMAIN s : s[i] = s[j] => i = j
     /\ \A i, j \in DOMAIN s : i < j => Reviews[s[i].appid] >= Reviews[s[j].appid]
     /\ \A i \in DOMAIN s : \A r \in all \ {s[j] : j \in DOMAIN s} :
          Reviews[s[i].appid] >= Reviews[r.appid]}

(* One page.  A short one is the end of the catalogue, and the scan also   *)
(* stops when on_page does not renew the lease.                            *)
ScanPage ==
  /\ pc = "scan"
  /\ \E listed \in Listings(page), renewed \in BOOLEAN :
       LET met == RowsWith(page, listed) IN
          IF Len(listed) < PageSize \/ ~renewed \/ page + 1 = Pages
            THEN /\ pc' = "fetch" /\ rows' = {} /\ page' = 0
                 /\ \E s \in Orderings(met) : targets' = [i \in DOMAIN s |-> s[i].appid]
            ELSE rows' = met /\ page' = page + 1 /\ UNCHANGED <<pc, targets>>
  /\ UNCHANGED <<limiter, meter, at, budget, verdict, answered>>

(* The request for a page, its .json() or on_page raises: nothing is tried *)
(* again, what was met is dropped, and the run ends.                       *)
ScanFails ==
  /\ pc = "scan"
  /\ pc' = "raised" /\ rows' = {} /\ page' = 0
  /\ UNCHANGED <<limiter, meter, targets, at, budget, verdict, answered>>

-----------------------------------------------------------------------------
(* fetch_one and fetch_details.                                            *)

Candidate == targets[at]

Fetching == pc = "fetch" /\ asleep = 0 /\ at <= Len(targets)

(* fetch_one has its result, and the run goes on to the next candidate.    *)
Conclude(status) ==
  /\ verdict' = [verdict EXCEPT ![Candidate] = status]
  /\ at' = at + 1 /\ pc' = "fetch"
  /\ failures' = 0 /\ throttles' = 0 /\ broken' = 0 /\ refused' = 0

(* The floor is applied before the fetch, and saves the request.           *)
FilterGame ==
  /\ Fetching /\ Reviews[Candidate] < ReviewFloor
  /\ Conclude(Filtered)
  /\ UNCHANGED <<limiter, meter, scan, targets, answered>>

(* Around the loop while neither budget is spent: limiter.acquire().       *)
AcquireToken ==
  /\ Fetching /\ Reviews[Candidate] >= ReviewFloor
  /\ failures < Attempts /\ throttles < Attempts
  /\ Acquire /\ pc' = "asking"
  /\ UNCHANGED <<scan, targets, at, budget, verdict, answered>>

SendRequest ==
  /\ pc = "asking" /\ Send /\ pc' = "sent"
  /\ UNCHANGED <<scan, targets, at, budget, verdict, answered>>

(* FetchFailed: a retry for the next run, not a verdict.                   *)
FetchFailed == Conclude(Pending)

(* Mutant: a 429 spends the retry allowance.                               *)
ThrottledIsAFailure ==
  /\ pc = "sent" /\ Penalise
  /\ failures' = failures + 1 /\ refused' = refused + 1
  /\ pc' = "fetch"
  /\ UNCHANGED <<scan, targets, at, throttles, broken, verdict, answered>>

(* Mutant: a 429 spends nothing at all.                                    *)
ThrottledForEver ==
  /\ pc = "sent" /\ Penalise
  /\ refused' = Least(refused + 1, Attempts) /\ pc' = "fetch"
  /\ UNCHANGED <<scan, targets, at, failures, throttles, broken, verdict, answered>>

(* A 429: the budget of its own, and the penalty, also after the last.     *)
Throttled ==
  /\ pc = "sent" /\ Penalise
  /\ throttles' = throttles + 1 /\ refused' = refused + 1
  /\ pc' = "fetch"
  /\ UNCHANGED <<scan, targets, at, failures, broken, verdict, answered>>

(* Out of the loop after the last rate limit.                              *)
GiveUp ==
  /\ Fetching /\ throttles = Attempts
  /\ FetchFailed
  /\ UNCHANGED <<limiter, meter, scan, targets, answered>>

(* A status, a time-out or a body that is no answer: again after a backoff *)
(* that doubles and is jittered, or, at the last attempt, no more.         *)
FailedOnce ==
  /\ pc = "sent" /\ failures + 1 < Attempts
  /\ failures' = failures + 1 /\ broken' = broken + 1
  /\ \E jitter \in 0..1 : Rest(2 ^ failures + jitter)
  /\ pc' = "fetch"
  /\ UNCHANGED <<scan, targets, at, throttles, refused, verdict, answered>>

FailedLast ==
  /\ pc = "sent" /\ failures + 1 >= Attempts
  /\ FetchFailed
  /\ UNCHANGED <<limiter, meter, scan, targets, answered>>

(* Details under the candidate's own appid: a document, if it is a game.   *)
AnsweredWithDetails ==
  /\ pc = "sent"
  /\ Conclude(IF Candidate \in RealGame THEN Document ELSE NotAGame)
  /\ answered' = answered \cup {Candidate}
  /\ UNCHANGED <<limiter, meter, scan, targets>>

(* success is false, the details are another appid's, or there is no body: *)
(* _unwrap returns None, and None is a verdict.                            *)
AnsweredWithNothing ==
  /\ pc = "sent"
  /\ Conclude(NotAGame)
  /\ answered' = answered \cup {Candidate}
  /\ UNCHANGED <<limiter, meter, scan, targets>>

Finish ==
  /\ pc = "fetch" /\ asleep = 0 /\ at > Len(targets)
  /\ pc' = "done"
  /\ UNCHANGED <<limiter, meter, scan, targets, at, budget, verdict, answered>>

Time == (Tick \/ StartMeter)
        /\ UNCHANGED <<pc, scan, targets, at, budget, verdict, answered>>

RunStep ==
  \/ ScanPage \/ ScanFails \/ FilterGame \/ AcquireToken \/ SendRequest
  \/ Throttled \/ GiveUp \/ FailedOnce \/ FailedLast
  \/ AnsweredWithDetails \/ AnsweredWithNothing \/ Finish

Next == RunStep \/ Time

Passing == Tick /\ UNCHANGED <<pc, scan, targets, at, budget, verdict, answered>>

(* The thread runs, and time passes.                                       *)
Spec == Init /\ [][Next]_vars /\ WF_vars(RunStep) /\ WF_vars(Passing)

-----------------------------------------------------------------------------

(* The requests for details keep to the budget although the code that      *)
(* sends them sleeps, backs off, is refused and begins again; and nobody   *)
(* waits longer for a token than it takes to earn one.                     *)
RequestsArePaced == RateBound /\ DebtIsSleptOff

(* However the catalogue shifts under the scan, no game is fetched twice   *)
(* in a run (steam.py:65-66).                                              *)
NoGameTwice == \A i, j \in DOMAIN targets : targets[i] = targets[j] => i = j

(* Only an answer settles a game: one Steam never answered for is left to  *)
(* the next run, and that only when one of the two budgets was spent on it *)
(* alone: a rate limit costs no retries (steam.py:107-109).                *)
OnlyAnswersSettle ==
  [][\A a \in Appid :
       verdict'[a] # verdict[a] /\ verdict'[a] # Filtered =>
         /\ verdict'[a] = Pending <=> a \notin answered'
         /\ verdict'[a] = Pending => broken + 1 = Attempts \/ refused = Attempts]_vars

(* Whatever Steam answers, and however often it does not, the run comes to *)
(* the end of its candidates, unless the scan raised: the budgets are      *)
(* finite, and every sleep ends.                                           *)
RunEnds == <>(pc \in {"done", "raised"})
=============================================================================
