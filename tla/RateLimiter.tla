---------------------------- MODULE RateLimiter ----------------------------
(***************************************************************************)
(* The client-side limiter of one model (app/llm/limiter.py) under callers *)
(* on several threads: each reserves under the lock, sleeps outside it,    *)
(* sends its request, and then reports the provider's answer, a 429, or    *)
(* (after any other failure) nothing.  Every critical section is one       *)
(* action; between two of them anything may happen.  Models share nothing  *)
(* but the lock, so one is enough.                                         *)
(*                                                                         *)
(* Time is counted in ticks.  A minute is Minute ticks, and both bucket    *)
(* levels are in units of 1/Minute, so that the refill of one tick is the  *)
(* integer Rpm or Tpm and nothing is rounded but the end of a sleep, which *)
(* falls on the first tick at or after the exact moment.                   *)
(***************************************************************************)
EXTENDS Integers, FiniteSetsExt

CONSTANTS
  Threads,
  Rpm, Tpm, Rpd, Tpd,   \* the limits, already scaled by the safety margin
  ReserveTokens,        \* the part of the provider's tpm the margin keeps back
  MaxWait,              \* LLM_MAX_WAIT_S
  Minute, DayLength,    \* in ticks
  Estimates,            \* est_tokens of a call
  Actuals,              \* tokens a call may turn out to cost
  RetryAfters,          \* retry-after of a 429, or None
  RemainingTokens,      \* x-ratelimit-remaining-tokens, or None
  UsedRequests,         \* the requests of today its headers report, or None
  Horizon,              \* (bound) the last tick of a behaviour
  None

ASSUME LimitsAssumption == {Rpm, Tpm, Rpd, Tpd, Minute, DayLength} \subseteq Nat \ {0}
ASSUME WaitAssumption == MaxWait \in Nat /\ ReserveTokens \in Nat /\ Horizon \in Nat
ASSUME ThreadsAssumption == IsFiniteSet(Threads)
ASSUME TokensAssumption ==
  /\ Estimates \subseteq Nat /\ Actuals \subseteq Nat
  /\ IsFiniteSet(Estimates) /\ IsFiniteSet(Actuals)
ASSUME HeadersAssumption ==
  /\ RetryAfters \subseteq Nat \cup {None} /\ RemainingTokens \subseteq Nat \cup {None}
  /\ UsedRequests \subseteq Nat \cup {None} /\ None \notin Nat

VARIABLES
  now,
  \* _ModelState
  request_level, token_level, updated, day, requests_today, tokens_today, blocked_until,
  \* each caller: where it is, what it reserved and on which day, when its sleep ends
  pc, est, born, until,
  \* history: how many sends were scheduled for a tick or an earlier one; the callers
  \* asleep since whose reservation no estimate was refunded; the latest end of a block
  \* the provider asked for; what today's reservations number and cost; whether a call of
  \* an earlier day was recorded today
  scheduled, queue, asked, granted, spent, crossed

state == <<request_level, token_level, updated, day, requests_today, tokens_today, blocked_until>>
callers == <<pc, est, born, until>>
daily == <<granted, spent, crossed>>
vars == <<now, state, callers, scheduled, queue, asked, daily>>

Today == now \div DayLength

CeilDiv(a, b) == -((-a) \div b)

Init ==
  /\ now = 0
  /\ request_level = Rpm * Minute /\ token_level = Tpm * Minute /\ updated = 0
  /\ day = 0 /\ requests_today = 0 /\ tokens_today = 0 /\ blocked_until = 0
  /\ pc = [t \in Threads |-> "idle"] /\ est = [t \in Threads |-> 0]
  /\ born = [t \in Threads |-> 0] /\ until = [t \in Threads |-> 0]
  /\ scheduled = [tick \in 0..Horizon |-> 0]
  /\ queue = {}
  /\ asked = 0 /\ granted = 0 /\ spent = 0 /\ crossed = FALSE

-----------------------------------------------------------------------------
(* _refresh: what each critical section finds first. *)

Refilled == Min({Rpm * Minute, request_level + (now - updated) * Rpm})

TokensRefilled == Min({Tpm * Minute, token_level + (now - updated) * Tpm})

RequestsToday == IF day = Today THEN requests_today ELSE 0
TokensToday == IF day = Today THEN tokens_today ELSE 0

Stamp == updated' = now /\ day' = Today

-----------------------------------------------------------------------------
(* acquire *)

\* (mutant) tokens are reserved but never waited for.
WaitForRequest(e) == Max({0, CeilDiv(Minute - Refilled, Rpm), blocked_until - now})

Wait(e) ==
  Max({0, CeilDiv(Minute - Refilled, Rpm), CeilDiv(e * Minute - TokensRefilled, Tpm),
       blocked_until - now})

\* (mutant) the day's tokens are not looked at.
FitsRequests(e) == RequestsToday + 1 <= Rpd

FitsDay(e) == RequestsToday + 1 <= Rpd /\ TokensToday + e <= Tpd

\* (mutant) what a caller waits for is not reserved before it sleeps.
ReserveWhenFree(e) ==
  /\ request_level' = IF Wait(e) = 0 THEN Refilled - Minute ELSE Refilled
  /\ token_level' = IF Wait(e) = 0 THEN TokensRefilled - e * Minute ELSE TokensRefilled

\* (mutant) the bucket is emptied, never overdrawn.
ReserveToEmpty(e) ==
  /\ request_level' = Max({0, Refilled - Minute})
  /\ token_level' = TokensRefilled - e * Minute

\* A level may go negative: the debt is what later callers wait for.
Reserve(e) ==
  /\ request_level' = Refilled - Minute
  /\ token_level' = TokensRefilled - e * Minute

\* (history) One more send at tick `at'.
Schedule(at) ==
  scheduled' = [tick \in 0..Horizon |-> scheduled[tick] + IF tick >= at THEN 1 ELSE 0]

Acquire(t) ==
  /\ pc[t] = "idle"
  /\ \E e \in Estimates :
       LET wait == Wait(e) IN
         /\ e <= Tpm /\ FitsDay(e) /\ wait <= MaxWait
         /\ now + wait <= Horizon                                     \* (bound)
         /\ Reserve(e) /\ Stamp
         /\ requests_today' = RequestsToday + 1 /\ tokens_today' = TokensToday + e
         /\ pc' = [pc EXCEPT ![t] = IF wait > 0 THEN "sleeping" ELSE "sending"]
         /\ est' = [est EXCEPT ![t] = e]
         /\ born' = [born EXCEPT ![t] = Today]
         /\ until' = [until EXCEPT ![t] = IF wait > 0 THEN now + wait ELSE 0]
         /\ Schedule(now + wait)
         /\ queue' = IF wait > 0 THEN queue \cup {t} ELSE queue
         /\ granted' = granted + 1 /\ spent' = spent + e
  /\ UNCHANGED <<now, blocked_until, asked, crossed>>

\* RequestError or RateLimitedError: nothing is reserved, but the state is refreshed.
Refuse(t) ==
  /\ pc[t] = "idle"
  /\ \E e \in Estimates : e > Tpm \/ ~FitsDay(e) \/ Wait(e) > MaxWait
  /\ Stamp
  /\ request_level' = Refilled /\ token_level' = TokensRefilled
  /\ requests_today' = RequestsToday /\ tokens_today' = TokensToday
  /\ UNCHANGED <<now, blocked_until, callers, scheduled, queue, asked, daily>>

\* The sleep ends, at or after its deadline, and the request goes out.
Send(t) ==
  /\ pc[t] = "sleeping" /\ now >= until[t]
  /\ pc' = [pc EXCEPT ![t] = "sending"]
  /\ until' = [until EXCEPT ![t] = 0]
  /\ queue' = queue \ {t}
  /\ UNCHANGED <<now, state, est, born, scheduled, asked, daily>>

-----------------------------------------------------------------------------
(* What the caller reports when the request is over. *)

Finish(t) ==
  /\ pc[t] = "sending"
  /\ pc' = [pc EXCEPT ![t] = "idle"]
  /\ est' = [est EXCEPT ![t] = 0] /\ born' = [born EXCEPT ![t] = 0]
  /\ UNCHANGED until

\* (mutants) the day's count keeps the estimate; the header's count of today's requests
\* replaces the limiter's own.
KeepEstimate(e, actual) == tokens_today' = TokensToday
AdoptCount(used) == requests_today' = IF used = None THEN RequestsToday ELSE used

CorrectDay(e, actual) == tokens_today' = TokensToday + actual - e

RaiseCount(used) ==
  requests_today' = IF used = None THEN RequestsToday ELSE Max({RequestsToday, used})

Record(t) ==
  /\ Finish(t) /\ Stamp
  /\ request_level' = Refilled
  /\ \E actual \in Actuals, remaining \in RemainingTokens, used \in UsedRequests :
       LET corrected == TokensRefilled + (est[t] - actual) * Minute IN
         /\ token_level' = IF remaining = None THEN corrected
                           ELSE Min({corrected, (remaining - ReserveTokens) * Minute})
         /\ CorrectDay(est[t], actual)
         /\ RaiseCount(used)
         /\ queue' = IF actual < est[t] THEN {} ELSE queue
         /\ spent' = IF born[t] < Today THEN spent ELSE spent + actual - est[t]
  /\ crossed' = (crossed \/ born[t] < Today)
  /\ UNCHANGED <<now, blocked_until, scheduled, asked, granted>>

\* (mutant) the last 429 to arrive sets the end of the block.
BlockUntilLast(retry_after) ==
  blocked_until' = IF retry_after = None THEN blocked_until ELSE now + retry_after

BlockUntil(retry_after) ==
  blocked_until' = IF retry_after = None THEN blocked_until
                   ELSE Max({blocked_until, now + retry_after})

OnRateLimited(t) ==
  /\ Finish(t) /\ Stamp
  /\ request_level' = Refilled
  /\ token_level' = Min({TokensRefilled, 0})
  /\ requests_today' = RequestsToday /\ tokens_today' = TokensToday
  /\ \E retry_after \in RetryAfters :
       /\ BlockUntil(retry_after)
       /\ asked' = IF retry_after = None THEN asked ELSE Max({asked, now + retry_after})
  /\ UNCHANGED <<now, scheduled, queue, daily>>

\* Any other failure of the call: the limiter is told nothing, the reservation stays.
Fail(t) ==
  /\ Finish(t)
  /\ UNCHANGED <<now, state, scheduled, queue, asked, daily>>

-----------------------------------------------------------------------------

\* The clock; at midnight UTC the history of the day starts afresh.
Tick ==
  /\ now < Horizon
  /\ now' = now + 1
  /\ IF (now + 1) % DayLength = 0
     THEN /\ granted' = 0 /\ spent' = 0 /\ crossed' = FALSE
     ELSE UNCHANGED daily
  /\ UNCHANGED <<state, callers, scheduled, queue, asked>>

\* (bound) The examined time is over and no call is under way.
Over == now = Horizon /\ (\A t \in Threads : pc[t] = "idle") /\ UNCHANGED vars

Next ==
  \/ Tick \/ Over
  \/ \E t \in Threads :
       Acquire(t) \/ Refuse(t) \/ Send(t) \/ Record(t) \/ OnRateLimited(t) \/ Fail(t)

Spec == Init /\ [][Next]_vars

-----------------------------------------------------------------------------
(* Properties. *)

Overshoot == Max({0} \cup {a - e : a \in Actuals, e \in Estimates})

TypeOK ==
  /\ now \in 0..Horizon /\ updated \in 0..now /\ day \in 0..Today
  /\ request_level \in Int /\ request_level <= Rpm * Minute /\ token_level \in Int
  /\ requests_today \in Nat /\ tokens_today \in Int /\ blocked_until \in Nat
  /\ pc \in [Threads -> {"idle", "sleeping", "sending"}]
  /\ est \in [Threads -> Estimates \cup {0}] /\ born \in [Threads -> 0..Today]
  /\ until \in [Threads -> 0..Horizon]
  /\ scheduled \in [0..Horizon -> Nat]
  /\ queue \in SUBSET Threads
  /\ asked \in Nat /\ granted \in Nat /\ spent \in Int /\ crossed \in BOOLEAN

\* limiter.py:3-9, the bucket's law under concurrent reservations, refunds and blocks: in
\* any span of time, the requests scheduled to go out number at most the bucket's capacity
\* plus its refill over that span and the longest wait (a block holds back, and releases
\* together, what was granted over MaxWait).
ScheduledIn(from, to) == scheduled[to] - (IF from = 0 THEN 0 ELSE scheduled[from - 1])

RequestsPaced ==
  \A from \in 0..Horizon : \A to \in from..Horizon :
    ScheduledIn(from, to) * Minute <= Rpm * (Minute + to - from + MaxWait)

\* The debt of the token bucket stays one a caller can wait out: below what a reservation
\* may leave, only the calls in flight (one per thread) can still push it, each by what its
\* cost exceeds its estimate, or a header that reports less than the reserve.
DebtBounded ==
  token_level >= -(MaxWait * Tpm + Minute * (Cardinality(Threads) * Overshoot + ReserveTokens))

\* limiter.py:9 "so concurrent requests queue fairly": of two callers asleep, the one that
\* reserved first is released first, unless a call's unused estimate was given back between.
Reserves(t) == pc[t] = "idle" /\ pc'[t] # "idle"
SlotOf(t) == IF pc'[t] = "sleeping" THEN until'[t] ELSE now     \* when t may send

QueueFairly ==
  [][\A t \in Threads, p \in queue : Reserves(t) => until[p] <= SlotOf(t)]_vars

\* The limiter grants at most rpd requests on a UTC day, with reservations made before
\* midnight, headers that lag behind, and refreshes that come late.
DayRequestsKept == granted <= Rpd

\* The day's reservations cost at most tpd, but for what the calls in flight cost beyond
\* their estimates, on a day on which no call reserved the day before was recorded.
DayTokensKept == ~crossed => spent <= Tpd + Cardinality(Threads) * Overshoot

\* limiter.py:143 for callers that come after a 429: none reserves a moment earlier than the
\* latest end any 429 so far asked for, in whatever order the 429s of several calls arrive.
BlockHonoured ==
  [][\A t \in Threads : Reserves(t) => SlotOf(t) >= asked]_vars

=============================================================================
