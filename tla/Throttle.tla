------------------------------ MODULE Throttle ------------------------------
(***************************************************************************)
(* The token bucket that paces the requests to Steam (ingest/throttle.py), *)
(* and the one thread that uses it: the nightly run is a single thread, so *)
(* the lock of the class has nobody to keep out and is not modelled.       *)
(*                                                                         *)
(* Time passes in ticks, Period of them to a token.  The balance is kept   *)
(* in ticks too, so that nothing is a fraction.  A sleep ends after no     *)
(* less than was asked for, and maybe later.                               *)
(***************************************************************************)
EXTENDS Integers

CONSTANTS
  Burst,      \* self.burst, in tokens
  Period,     \* 1 / self.per_second, in ticks
  Low, High,  \* RATE_LIMIT_BACKOFF
  Window      \* bound: how long a stretch of time the meter looks at

ASSUME BucketAssumption ==
  /\ Burst \in Nat \ {0} /\ Period \in Nat \ {0} /\ Burst * Period \in Nat
  /\ Low \in Nat /\ High \in Nat /\ Low <= High /\ Window \in Nat

VARIABLES
  balance,  \* self._tokens, in ticks: less than 0 is a debt
  idle,     \* ticks since self._updated, as far as they matter
  asleep,   \* ticks the caller still sleeps, at the least
  charged,  \* the caller has a token it was charged for, and has not sent yet
  \* history: a meter that starts anew at any moment
  spent,    \* what the requests since then cost, in ticks
  elapsed   \* the ticks since then

limiter == <<balance, idle, asleep, charged>>
meter   == <<spent, elapsed>>

Full == Burst * Period

LimiterTypeOK ==
  /\ balance \in (-Period)..Full /\ idle \in 0..(Full + Period)
  /\ asleep \in Nat /\ charged \in BOOLEAN
  /\ spent \in Nat /\ elapsed \in 0..Window

LimiterInit ==
  /\ balance = Full /\ idle = 0 /\ asleep = 0 /\ charged = FALSE
  /\ spent = 0 /\ elapsed = 0

Least(a, b) == IF a <= b THEN a ELSE b

(* The tokens there are now: the bucket refills to Burst and no further.   *)
Refilled == Least(Full, balance + idle)

(* Mutant: a debt is forgotten, and the caller gets the next token free.   *)
ReserveWithoutDebt ==
  /\ balance' = IF Refilled >= Period THEN Refilled - Period ELSE 0
  /\ idle' = 0
  /\ asleep' = IF Refilled >= Period THEN 0 ELSE Period - Refilled

(* Mutant: the bucket holds whatever time has put into it.                 *)
ReserveUncapped ==
  /\ balance' = balance + idle - Period /\ idle' = 0
  /\ asleep' = IF balance' >= 0 THEN 0 ELSE -balance'

(* _reserve: the token is charged whether or not there is one, and the     *)
(* debt is what the caller sleeps off.                                     *)
Reserve ==
  /\ balance' = Refilled - Period /\ idle' = 0
  /\ asleep' = IF balance' >= 0 THEN 0 ELSE -balance'

Acquire ==
  /\ asleep = 0 /\ ~charged
  /\ Reserve /\ charged' = TRUE
  /\ UNCHANGED meter

(* The request acquire was called for.                                     *)
Send ==
  /\ asleep = 0 /\ charged
  /\ charged' = FALSE
  /\ spent' = IF elapsed < Window THEN spent + Period ELSE spent
  /\ UNCHANGED <<balance, idle, asleep, elapsed>>

(* penalise: Steam said no.  The bucket is emptied, then the caller sleeps *)
(* - and the bucket fills while it does.                                   *)
Penalise ==
  /\ asleep = 0 /\ ~charged
  /\ balance' = 0 /\ idle' = 0
  /\ asleep' \in Low..High
  /\ UNCHANGED <<charged, meter>>

(* A sleep of the caller's own that the bucket has no part in.             *)
Rest(ticks) ==
  /\ asleep = 0 /\ ~charged
  /\ asleep' = ticks
  /\ UNCHANGED <<balance, idle, charged, meter>>

Tick ==
  /\ idle' = Least(idle + 1, Full + Period)
  /\ asleep' = IF asleep > 0 THEN asleep - 1 ELSE 0
  /\ elapsed' = Least(elapsed + 1, Window)
  /\ UNCHANGED <<balance, charged, spent>>

(* The meter looks at the stretch of time that starts here.                *)
StartMeter == spent' = 0 /\ elapsed' = 0 /\ UNCHANGED limiter

LimiterNext ==
  \/ Acquire \/ Send \/ Penalise \/ Tick \/ StartMeter
  \/ \E ticks \in Nat : Rest(ticks)

LimiterSpec == LimiterInit /\ [][LimiterNext]_<<limiter, meter>>

-----------------------------------------------------------------------------

(* In no stretch of time do more requests leave than the burst, one, and   *)
(* what the rate earns in it: slow answers, penalties and sleeps that end  *)
(* late never add up to more than the budget (throttle.py:1-16).           *)
RateBound == spent <= Full + Period + elapsed

(* Between requests nobody is in debt: the wait acquire asks for pays off  *)
(* all of it, and is never longer than one token takes.                    *)
DebtIsSleptOff ==
  /\ balance + idle + asleep >= 0
  /\ ~charged => balance + idle >= 0
  /\ charged => asleep <= Period
=============================================================================
