---------------------------- MODULE Steam_proofs ----------------------------
(***************************************************************************)
(* Proofs about Steam and the token bucket under it: whatever Steam does,  *)
(* the requests keep to the budget, and only answers settle games.         *)
(***************************************************************************)
EXTENDS Steam, FiniteSetTheorems, TLAPS

-----------------------------------------------------------------------------
(* The token bucket *)

(* What the bucket would give out now, and what it was paid for a request  *)
(* that is not sent yet.                                                   *)
Owed == IF charged THEN Period ELSE 0

(* The constants enter the proofs as numbers of ticks and no more.         *)
LEMMA Ticks == /\ Full \in Nat /\ Period \in Nat /\ Period > 0
               /\ Low \in Nat /\ High \in Nat /\ Window \in Nat
BY BucketAssumption DEF Full

LimiterTypes ==
  /\ balance \in Int /\ balance >= -Period /\ balance <= Full
  /\ idle \in Nat /\ idle <= Full + Period
  /\ asleep \in Nat /\ charged \in BOOLEAN
  /\ spent \in Nat /\ elapsed \in Nat /\ elapsed <= Window

(* While the meter runs, what was sent, what is owed and what the bucket   *)
(* would give out is never more than the bound; when it has run out, the   *)
(* bound stands for what was sent.                                         *)
MeterInv ==
  /\ elapsed < Window => spent + Owed + Refilled <= Full + Period + elapsed
  /\ spent <= Full + Period + elapsed

LimiterInv == LimiterTypes /\ DebtIsSleptOff /\ MeterInv

(* The bucket starts full, with the meter at nothing.                      *)
LEMMA LimiterInvHoldsAtFirst == LimiterInit => LimiterInv
<1> SUFFICES ASSUME LimiterInit PROVE LimiterInv OBVIOUS
<1>1. charged \in BOOLEAN /\ ~charged BY DEF LimiterInit
<1>2. balance = Full /\ idle = 0 /\ asleep = 0 /\ spent = 0 /\ elapsed = 0 BY DEF LimiterInit
<1> QED
  BY <1>1, <1>2, Ticks
     DEF LimiterInv, LimiterTypes, DebtIsSleptOff, MeterInv, Owed, Refilled, Least

(* acquire, which moves a token from the bucket to what is owed.           *)
LEMMA AcquireKeepsLimiterInv == LimiterInv /\ Acquire => LimiterInv'
BY Ticks
   DEF LimiterInv, LimiterTypes, DebtIsSleptOff, MeterInv, Owed, Refilled, Least, Acquire, Reserve, meter

(* The request, which moves it from what is owed to what was sent.         *)
LEMMA SendKeepsLimiterInv == LimiterInv /\ Send => LimiterInv'
<1> SUFFICES ASSUME LimiterInv, Send PROVE LimiterInv' OBVIOUS
<1>1. charged /\ charged' \in BOOLEAN /\ ~charged' BY DEF Send
<1>2. /\ asleep = 0 /\ spent' = (IF elapsed < Window THEN spent + Period ELSE spent)
      /\ UNCHANGED <<balance, idle, asleep, elapsed>>
  BY DEF Send
<1> QED
  BY <1>1, <1>2, Ticks
     DEF LimiterInv, LimiterTypes, DebtIsSleptOff, MeterInv, Owed, Refilled, Least

(* penalise, which can only take away what the bucket had.                 *)
LEMMA PenaliseKeepsLimiterInv == LimiterInv /\ Penalise => LimiterInv'
<1> SUFFICES ASSUME LimiterInv, Penalise PROVE LimiterInv' OBVIOUS
<1>1. ~charged /\ charged' \in BOOLEAN /\ ~charged' BY DEF Penalise, LimiterInv, LimiterTypes
<1>2. /\ asleep = 0 /\ balance' = 0 /\ idle' = 0 /\ asleep' \in Nat
      /\ spent' = spent /\ elapsed' = elapsed
  BY Ticks DEF Penalise, meter
<1>3. Owed = 0 /\ Owed' = 0 /\ Refilled >= 0 /\ Refilled' = 0
  BY <1>1, <1>2, Ticks DEF LimiterInv, LimiterTypes, DebtIsSleptOff, Owed, Refilled, Least
<1>4. LimiterTypes' BY <1>1, <1>2, Ticks DEF LimiterInv, LimiterTypes
<1>5. DebtIsSleptOff'
  <2>1. \A b, i, a \in Int : b = 0 /\ i = 0 /\ a >= 0 => b + i + a >= 0 /\ b + i >= 0
    OBVIOUS
  <2>2. balance' \in Int /\ idle' \in Int /\ asleep' \in Int /\ asleep' >= 0 BY <1>2
  <2>3. balance' + idle' + asleep' >= 0 /\ balance' + idle' >= 0 BY <1>2, <2>1, <2>2, Zenon
  <2> QED BY <1>1, <2>3, Zenon DEF DebtIsSleptOff
<1>6. Refilled \in Int BY Ticks DEF LimiterInv, LimiterTypes, Refilled, Least
<1>7. MeterInv'
  BY <1>2, <1>3, <1>6, Ticks DEF LimiterInv, LimiterTypes, MeterInv
<1> QED BY <1>4, <1>5, <1>7 DEF LimiterInv

(* A sleep of the caller's own.                                            *)
LEMMA RestKeepsLimiterInv ==
  ASSUME NEW ticks \in Nat, LimiterInv, Rest(ticks)
  PROVE  LimiterInv'
BY Ticks
   DEF LimiterInv, LimiterTypes, DebtIsSleptOff, MeterInv, Owed, Refilled, Least, Rest, meter

(* Time, which earns one tick for the bucket and one for the bound.        *)
LEMMA TickKeepsLimiterInv == LimiterInv /\ Tick => LimiterInv'
BY Ticks
   DEF LimiterInv, LimiterTypes, DebtIsSleptOff, MeterInv, Owed, Refilled, Least, Tick

(* A meter that starts anew finds no more than a full bucket and a token.  *)
LEMMA StartMeterKeepsLimiterInv == LimiterInv /\ StartMeter => LimiterInv'
BY Ticks
   DEF LimiterInv, LimiterTypes, DebtIsSleptOff, MeterInv, Owed, Refilled, Least, StartMeter, limiter

LEMMA LimiterInvIsKept == LimiterInv /\ [LimiterNext]_<<limiter, meter>> => LimiterInv'
<1> SUFFICES ASSUME LimiterInv, [LimiterNext]_<<limiter, meter>> PROVE LimiterInv'
  OBVIOUS
<1>1. CASE Acquire BY <1>1, AcquireKeepsLimiterInv
<1>2. CASE Send BY <1>2, SendKeepsLimiterInv
<1>3. CASE Penalise BY <1>3, PenaliseKeepsLimiterInv
<1>4. CASE Tick BY <1>4, TickKeepsLimiterInv
<1>5. CASE StartMeter BY <1>5, StartMeterKeepsLimiterInv
<1>6. CASE \E ticks \in Nat : Rest(ticks) BY <1>6, RestKeepsLimiterInv
<1>7. CASE UNCHANGED <<limiter, meter>>
  BY <1>7 DEF LimiterInv, LimiterTypes, DebtIsSleptOff, RateBound, MeterInv, Owed, Refilled, Least,
              limiter, meter
<1> QED BY <1>1, <1>2, <1>3, <1>4, <1>5, <1>6, <1>7 DEF LimiterNext

(* The limiter alone, with a caller that sleeps, sends and is refused as   *)
(* it likes, keeps its requests to the budget.                             *)
THEOREM LimiterPaces == LimiterSpec => []RequestsArePaced
<1>1. LimiterInv => RequestsArePaced BY DEF LimiterInv, MeterInv, RequestsArePaced, RateBound
<1> QED BY <1>1, LimiterInvHoldsAtFirst, LimiterInvIsKept, PTL DEF LimiterSpec

-----------------------------------------------------------------------------
(* The run *)

(* A backoff is a number of ticks: there are as many subsets of n things.  *)
LEMMA BackoffIsANumber == ASSUME NEW n \in Nat PROVE 2 ^ n \in Nat
<1>1. IsFiniteSet(1..n) /\ Cardinality(1..n) = n BY FS_Interval
<1>2. IsFiniteSet(SUBSET (1..n)) /\ Cardinality(SUBSET (1..n)) = 2 ^ n BY <1>1, FS_SUBSET
<1> QED BY <1>2, FS_CardinalityType

(* Every row is under its own appid. *)
Rows == {[key |-> a, appid |-> a] : a \in Appid}

RunTypes ==
  /\ pc \in {"scan", "fetch", "asking", "sent", "done", "raised"}
  /\ page \in Nat /\ rows \subseteq Rows /\ targets \in Seq(Appid)
  /\ at \in Nat \ {0}
  /\ failures \in Nat /\ failures <= Attempts
  /\ throttles \in Nat /\ throttles <= Attempts
  /\ verdict \in [Appid -> {Document, NotAGame, Filtered, Pending, Unknown}]
  /\ answered \subseteq Appid

(* A request is out for a candidate of the list, within both its budgets,  *)
(* and the budgets are what really happened to it.                         *)
AskedWithinBudget ==
  /\ pc \in {"asking", "sent"} =>
       at \in DOMAIN targets /\ failures < Attempts /\ throttles < Attempts
  /\ broken = failures /\ refused = throttles

(* Who was answered comes before the candidate in hand. *)
AnsweredBefore ==
  /\ pc = "scan" => answered = {}
  /\ \A a \in answered : \E i \in DOMAIN targets : i < at /\ targets[i] = a

RunInv == RunTypes /\ NoGameTwice /\ AskedWithinBudget /\ AnsweredBefore

LEMMA RunInvHoldsAtFirst == Init => RunInv
BY SteamAssumption
   DEF Init, RunInv, RunTypes, NoGameTwice, AskedWithinBudget, AnsweredBefore, Unknown

(* What the scan hands on is a list of appids, each of them once.          *)
LEMMA OrderingsAreLists ==
  ASSUME NEW met \in SUBSET Rows, NEW s \in Orderings(met)
  PROVE  LET list == [i \in DOMAIN s |-> s[i].appid]
         IN  /\ list \in Seq(Appid)
             /\ \A i, j \in DOMAIN list : list[i] = list[j] => i = j
<1>1. IsFiniteSet(met)
  <2> DEFINE f == [a \in Appid |-> [key |-> a, appid |-> a]]
  <2>1. f \in Surjection(Appid, Rows) BY DEF Surjection, Rows
  <2>2. IsFiniteSet(Rows) BY <2>1, FS_Surjection, SteamAssumption
  <2> QED BY <2>2, FS_Subset
<1>2. Least(Limit, Cardinality(met)) \in Nat BY <1>1, FS_CardinalityType, SteamAssumption DEF Least
<1>3. PICK n \in Nat : s \in [1..n -> met] BY <1>2 DEF Orderings
<1>4. \A i \in 1..n : s[i].appid \in Appid /\ s[i] = [key |-> s[i].appid, appid |-> s[i].appid]
  BY <1>3 DEF Rows
<1>5. \A i, j \in 1..n : s[i] = s[j] => i = j BY <1>3 DEF Orderings
<1>6. DOMAIN s = 1..n BY <1>3
<1> QED BY <1>4, <1>5, <1>6

(* A page of the scan, and the order it ends with.                         *)
LEMMA ScanPageKeepsRunInv == RunInv /\ ScanPage => RunInv'
<1> SUFFICES ASSUME RunInv, ScanPage PROVE RunInv' OBVIOUS
<1>1. PICK listed \in Listings(page), renewed \in BOOLEAN :
        LET met == RowsWith(page, listed) IN
           IF Len(listed) < PageSize \/ ~renewed \/ page + 1 = Pages
             THEN /\ pc' = "fetch" /\ rows' = {} /\ page' = 0
                  /\ \E s \in Orderings(met) : targets' = [i \in DOMAIN s |-> s[i].appid]
             ELSE rows' = met /\ page' = page + 1 /\ UNCHANGED <<pc, targets>>
  BY DEF ScanPage
<1>2. pc = "scan" /\ UNCHANGED <<at, budget, verdict, answered>> BY DEF ScanPage
<1>3. RowsWith(page, listed) \subseteq Rows
  <2>1. \A i \in DOMAIN listed : listed[i] \in Appid BY DEF Listings
  <2> QED BY <2>1 DEF RowsWith, RowKey, Rows, RunInv, RunTypes
<1>4. RunTypes' /\ NoGameTwice' /\ pc' \in {"scan", "fetch"}
  <2>1. CASE Len(listed) < PageSize \/ ~renewed \/ page + 1 = Pages
    <3>1. PICK s \in Orderings(RowsWith(page, listed)) : targets' = [i \in DOMAIN s |-> s[i].appid]
      BY <1>1, <2>1
    <3>2. /\ targets' \in Seq(Appid)
          /\ \A i, j \in DOMAIN targets' : targets'[i] = targets'[j] => i = j
      BY <3>1, <1>3, OrderingsAreLists
    <3>3. pc' = "fetch" /\ rows' = {} /\ page' = 0 BY <1>1, <2>1
    <3> QED BY <1>2, <3>2, <3>3 DEF RunInv, RunTypes, NoGameTwice, budget
  <2>2. CASE ~(Len(listed) < PageSize \/ ~renewed \/ page + 1 = Pages)
    <3>1. rows' = RowsWith(page, listed) /\ page' = page + 1 /\ UNCHANGED <<pc, targets>>
      BY <1>1, <2>2
    <3> QED BY <1>2, <1>3, <3>1 DEF RunInv, RunTypes, NoGameTwice, budget
  <2> QED BY <2>1, <2>2
<1>5. AskedWithinBudget' /\ AnsweredBefore'
  BY <1>2, <1>4 DEF RunInv, AskedWithinBudget, AnsweredBefore, budget
<1> QED BY <1>4, <1>5 DEF RunInv

(* A result for the candidate in hand, who is answered for or is not.      *)
LEMMA ConcludeKeepsRunInv ==
  ASSUME RunInv, at \in DOMAIN targets, pc # "scan", UNCHANGED <<page, rows, targets>>,
         NEW status \in {Document, NotAGame, Filtered, Pending}, Conclude(status),
         answered' \in {answered, answered \cup {Candidate}}
  PROVE  RunInv'
<1>1. /\ pc' = "fetch" /\ at' = at + 1 /\ failures' = 0 /\ throttles' = 0
      /\ broken' = 0 /\ refused' = 0
      /\ verdict' = [verdict EXCEPT ![Candidate] = status]
  BY DEF Conclude
<1>2. targets[at] \in Appid /\ at \in Nat BY DEF RunInv, RunTypes
<1>3. RunTypes'
  <2>1. verdict' \in [Appid -> {Document, NotAGame, Filtered, Pending, Unknown}]
    BY <1>1, <1>2 DEF RunInv, RunTypes
  <2>2. answered' \subseteq Appid BY <1>2 DEF RunInv, RunTypes, Candidate
  <2> QED BY <1>1, <2>1, <2>2, SteamAssumption DEF RunInv, RunTypes
<1>4. NoGameTwice' BY DEF RunInv, NoGameTwice
<1>5. AskedWithinBudget' BY <1>1 DEF AskedWithinBudget
<1>6. AnsweredBefore'
  <2>1. \A a \in answered' : \E i \in DOMAIN targets : i < at + 1 /\ targets[i] = a
    BY <1>2 DEF RunInv, RunTypes, AnsweredBefore, Candidate
  <2> QED BY <1>1, <2>1 DEF AnsweredBefore
<1> QED BY <1>3, <1>4, <1>5, <1>6 DEF RunInv

(* The steps between a candidate and its result.                           *)
LEMMA OtherStepsKeepRunInv ==
  ASSUME RunInv, UNCHANGED <<page, rows, targets, at, verdict, answered>>,
         \/ AcquireToken \/ SendRequest \/ Throttled \/ FailedOnce \/ Finish
         \/ UNCHANGED <<pc, failures, throttles, broken, refused>>
  PROVE  RunInv'
<1>1. CASE AcquireToken
  BY <1>1, SteamAssumption
     DEF AcquireToken, Fetching, budget, RunInv, RunTypes, NoGameTwice, AskedWithinBudget, AnsweredBefore
<1>2. CASE SendRequest
  BY <1>2 DEF SendRequest, budget, RunInv, RunTypes, NoGameTwice, AskedWithinBudget, AnsweredBefore
<1>3. CASE Throttled
  BY <1>3, SteamAssumption
     DEF Throttled, RunInv, RunTypes, NoGameTwice, AskedWithinBudget, AnsweredBefore
<1>4. CASE FailedOnce
  BY <1>4, SteamAssumption
     DEF FailedOnce, RunInv, RunTypes, NoGameTwice, AskedWithinBudget, AnsweredBefore
<1>5. CASE Finish
  BY <1>5 DEF Finish, budget, RunInv, RunTypes, NoGameTwice, AskedWithinBudget, AnsweredBefore
<1>6. CASE UNCHANGED <<pc, failures, throttles, broken, refused>>
  BY <1>6 DEF RunInv, RunTypes, NoGameTwice, AskedWithinBudget, AnsweredBefore
<1> QED BY <1>1, <1>2, <1>3, <1>4, <1>5, <1>6

(* The results fetch_one comes to, each for a candidate of the list.       *)
Concludes ==
  FilterGame \/ GiveUp \/ FailedLast \/ AnsweredWithDetails \/ AnsweredWithNothing

LEMMA InHand == RunInv /\ Concludes => at \in DOMAIN targets /\ pc # "scan"
BY DEF Concludes, FilterGame, GiveUp, FailedLast, AnsweredWithDetails, AnsweredWithNothing,
       Fetching, RunInv, RunTypes, AskedWithinBudget

LEMMA ConcludesKeepRunInv == RunInv /\ Concludes => RunInv'
<1> SUFFICES ASSUME RunInv, Concludes PROVE RunInv' OBVIOUS
<1>1. at \in DOMAIN targets /\ pc # "scan" BY InHand
<1>2. UNCHANGED <<page, rows, targets>> /\ answered' \in {answered, answered \cup {Candidate}}
  BY DEF Concludes, FilterGame, GiveUp, FailedLast, AnsweredWithDetails, AnsweredWithNothing, scan
<1>3. \E status \in {Document, NotAGame, Filtered, Pending} : Conclude(status)
  BY DEF Concludes, FilterGame, GiveUp, FailedLast, FetchFailed, AnsweredWithDetails,
         AnsweredWithNothing
<1> QED BY <1>1, <1>2, <1>3, ConcludeKeepsRunInv

LEMMA RunInvIsKept == RunInv /\ [Next]_vars => RunInv'
<1> SUFFICES ASSUME RunInv, [Next]_vars PROVE RunInv' OBVIOUS
<1>1. CASE ScanPage BY <1>1, ScanPageKeepsRunInv
<1>2. CASE Concludes BY <1>2, ConcludesKeepRunInv
<1>3. CASE AcquireToken \/ SendRequest \/ Throttled \/ FailedOnce \/ Finish
  BY <1>3, OtherStepsKeepRunInv
     DEF AcquireToken, SendRequest, Throttled, FailedOnce, Finish, scan
<1>4. CASE Time \/ UNCHANGED vars
  BY <1>4, OtherStepsKeepRunInv DEF Time, vars, scan, budget
<1>5. CASE ScanFails
  BY <1>5 DEF ScanFails, RunInv, RunTypes, NoGameTwice, AskedWithinBudget, AnsweredBefore, budget
<1> QED BY <1>1, <1>2, <1>3, <1>4, <1>5 DEF Next, RunStep, Concludes

-----------------------------------------------------------------------------
(* The theorems *)

(* Every step of the run is one the limiter knows, or none of its business.*)
LEMMA RunStepsAreLimiterSteps == RunInv /\ [Next]_vars => [LimiterNext]_<<limiter, meter>>
<1> SUFFICES ASSUME RunInv, [Next]_vars PROVE [LimiterNext]_<<limiter, meter>> OBVIOUS
<1>1. CASE AcquireToken BY <1>1 DEF AcquireToken, LimiterNext
<1>2. CASE SendRequest BY <1>2 DEF SendRequest, LimiterNext
<1>3. CASE Throttled BY <1>3 DEF Throttled, LimiterNext
<1>4. CASE FailedOnce
  <2>1. PICK jitter \in 0..1 : Rest(2 ^ failures + jitter) BY <1>4 DEF FailedOnce
  <2>2. 2 ^ failures + jitter \in Nat BY BackoffIsANumber DEF RunInv, RunTypes
  <2> QED BY <2>1, <2>2 DEF LimiterNext
<1>5. CASE ScanPage \/ ScanFails \/ Concludes \/ Finish
  BY <1>5 DEF ScanPage, ScanFails, Concludes, FilterGame, GiveUp, FailedLast, AnsweredWithDetails,
              AnsweredWithNothing, Finish
<1>6. CASE Time BY <1>6 DEF Time, LimiterNext
<1>7. CASE UNCHANGED vars BY <1>7 DEF vars
<1> QED BY <1>1, <1>2, <1>3, <1>4, <1>5, <1>6, <1>7 DEF Next, RunStep, Concludes

(* A run, with whatever Steam answers and however often it asks again, is  *)
(* a caller of the limiter: it implements LimiterSpec.                     *)
THEOREM RunUsesTheLimiter == Spec => LimiterSpec
<1>1. Init => LimiterInit BY DEF Init
<1> QED BY <1>1, RunInvHoldsAtFirst, RunInvIsKept, RunStepsAreLimiterSteps, PTL DEF Spec, LimiterSpec

(* The requests for details keep to the budget in any stretch of time, for *)
(* any rate, burst, penalty and catalogue (throttle.py, fetch_details).    *)
THEOREM RequestsKeepToTheBudget == Spec => []RequestsArePaced
BY RunUsesTheLimiter, LimiterPaces, PTL

(* Every reachable state of a run is of its types.                         *)
THEOREM SteamTypeCorrect == Spec => []TypeOK
<1>1. LimiterInv /\ RunInv => TypeOK
  <2> SUFFICES ASSUME LimiterInv, RunInv PROVE TypeOK OBVIOUS
  <2>1. LimiterTypeOK BY Ticks DEF LimiterInv, LimiterTypes, LimiterTypeOK
  <2>2. {r.appid : r \in rows} \subseteq Appid BY DEF RunInv, RunTypes, Rows
  <2> QED BY <2>1, <2>2, SteamAssumption DEF TypeOK, RunInv, RunTypes, AskedWithinBudget
<1>2. Spec => []LimiterInv
  BY RunUsesTheLimiter, LimiterInvHoldsAtFirst, LimiterInvIsKept, PTL DEF LimiterSpec
<1> QED BY <1>1, <1>2, RunInvHoldsAtFirst, RunInvIsKept, PTL DEF Spec

(* No game is fetched twice in a run, whatever the pages of the scan show  *)
(* (fetch_popular).                                                        *)
THEOREM NoGameIsFetchedTwice == Spec => []NoGameTwice
<1>1. RunInv => NoGameTwice BY DEF RunInv
<1> QED BY <1>1, RunInvHoldsAtFirst, RunInvIsKept, PTL DEF Spec

(* A game Steam never answered for is left to the next run, and that only  *)
(* with one of its two budgets spent (fetch_details, fetch_one).           *)
THEOREM AnswersSettleGames == Spec => OnlyAnswersSettle
<1> DEFINE Settles ==
      \A a \in Appid :
        verdict'[a] # verdict[a] /\ verdict'[a] # Filtered =>
          /\ verdict'[a] = Pending <=> a \notin answered'
          /\ verdict'[a] = Pending => broken + 1 = Attempts \/ refused = Attempts
<1>1. RunInv /\ [Next]_vars => [Settles]_vars
  <2> SUFFICES ASSUME RunInv, Next, NEW a \in Appid,
                      verdict'[a] # verdict[a], verdict'[a] # Filtered
               PROVE  /\ verdict'[a] = Pending <=> a \notin answered'
                      /\ verdict'[a] = Pending => broken + 1 = Attempts \/ refused = Attempts
    OBVIOUS
  <2>1. Concludes
    BY DEF Next, RunStep, Time, Concludes, ScanPage, ScanFails, AcquireToken, SendRequest, Throttled,
           FailedOnce, Finish
  <2>2. at \in DOMAIN targets /\ at \in Nat BY <2>1, InHand DEF RunInv, RunTypes
  <2>3. Candidate \notin answered
    BY <2>2 DEF Candidate, RunInv, AnsweredBefore, NoGameTwice
  <2>4. \A status : Conclude(status) => a = Candidate /\ verdict'[a] = status
    BY DEF Conclude, RunInv, RunTypes
  <2>5. CASE FilterGame BY <2>5, <2>4 DEF FilterGame
  <2>6. CASE GiveUp
    BY <2>6, <2>4, <2>3 DEF GiveUp, FetchFailed, RunInv, AskedWithinBudget
  <2>7. CASE FailedLast
    <3>1. broken + 1 = Attempts
      BY <2>7, SteamAssumption DEF FailedLast, RunInv, RunTypes, AskedWithinBudget
    <3> QED BY <2>7, <2>4, <2>3, <3>1 DEF FailedLast, FetchFailed
  <2>8. CASE AnsweredWithDetails
    BY <2>8, <2>4 DEF AnsweredWithDetails, Document, NotAGame, Pending
  <2>9. CASE AnsweredWithNothing
    BY <2>9, <2>4 DEF AnsweredWithNothing, NotAGame, Pending
  <2> QED BY <2>1, <2>5, <2>6, <2>7, <2>8, <2>9 DEF Concludes
<1> QED BY <1>1, RunInvHoldsAtFirst, RunInvIsKept, PTL DEF Spec, OnlyAnswersSettle
=============================================================================
