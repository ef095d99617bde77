----------------------------- MODULE LlmClient -----------------------------
(***************************************************************************)
(* One call of LlmClient.complete (app/llm/client.py): the primary model   *)
(* with tenacity's retries, then the fallback if the role has one.  Every  *)
(* attempt asks the limiter, which sleeps or refuses, and then the         *)
(* provider.  The limiter and the provider are the environment: they do    *)
(* anything their interfaces allow.  Times are in ticks and are added up   *)
(* where the code sleeps.                                                  *)
(***************************************************************************)
EXTENDS Integers, FiniteSets

CONSTANTS
  MaxAttempts,    \* settings.llm_max_attempts, per model
  MaxWait,        \* settings.llm_max_wait_s
  MaxBackoff,     \* max_backoff_s
  RetryAfters,    \* (bound) what a retry-after header or the limiter may ask for
  None

ASSUME AttemptsAssumption == MaxAttempts \in Nat \ {0}
ASSUME WaitsAssumption == MaxWait \in Nat \ {0} /\ MaxBackoff \in Nat \ {0}
ASSUME RetryAftersAssumption == RetryAfters \subseteq Nat

Models == {"primary", "fallback"}

\* The transport's errors, and any exception that is none of them (a body without choices).
Retryable == {"rate_limited", "server", "timeout"}
Kinds == Retryable \cup {"gone", "request", "other"}
RateLimited(after) == [kind |-> "rate_limited", after |-> after]
Failure(kind) == [kind |-> kind, after |-> None]
TransportFailures ==
  {RateLimited(w) : w \in RetryAfters \cup {None}}
  \cup {Failure(k) : k \in Kinds \ {"rate_limited"}}
\* acquire raises only when the estimate, the day's budget or the wait is too large.
LimiterRefusals == {RateLimited(w) : w \in RetryAfters} \cup {Failure("request")}

\* LlmErrorCode, and any other exception.
Errors == {"LLM_RATE_LIMITED", "LLM_MODEL_UNAVAILABLE", "LLM_TIMEOUT", "LLM_UNAVAILABLE",
           "LLM_BAD_REQUEST", "raised"}

ASSUME NoneAssumption == None \notin Int /\ None \notin Errors

VARIABLES
  pc,            \* attempt, calling, backoff, returned
  has_fallback,  \* registry.fallback_for(role) is not None
  model, tries, counter, attempts,   \* tries: tenacity's attempt_number
  pause,         \* what tenacity is about to sleep
  outcome,
  \* history: what was asked of a model, acquired or refused; network calls; sleeps in the
  \* limiter and in tenacity; what is left of the last retry-after; how each model ended
  asked, sent, limited, slept, owed, ended

locals == <<has_fallback, model, tries, counter, attempts, pause>>
ghost == <<asked, sent, limited, slept, owed, ended>>
vars == <<pc, locals, outcome, ghost>>

Init ==
  /\ pc = "attempt" /\ has_fallback \in BOOLEAN
  /\ model = "primary" /\ tries = 1 /\ counter = 0 /\ attempts = 0 /\ pause = 0
  /\ outcome = None
  /\ asked = [m \in Models |-> 0] /\ sent = 0 /\ limited = 0 /\ slept = 0 /\ owed = 0
  /\ ended = [m \in Models |-> None]

-----------------------------------------------------------------------------
(* What follows a failed attempt. *)

\* (mutant) the wait the provider asks for is not looked at.
NeverTooLong(exc) == FALSE

\* _stop_if_wait_too_long
TooLong(exc) == exc.after # None /\ exc.after > MaxWait

Again(exc) == exc.kind \in Retryable /\ tries < MaxAttempts /\ ~TooLong(exc)

\* (mutant) the backoff's ceiling holds for retry-after too.
CappedPauses(exc) == 1..MaxBackoff

\* _wait: retry-after, or else jitter up to the ceiling.
Pauses(exc) == IF exc.after # None THEN {exc.after} ELSE 1..MaxBackoff

\* _final_error
FinalError(kind) ==
  CASE kind = "rate_limited" -> "LLM_RATE_LIMITED"
    [] kind = "gone"         -> "LLM_MODEL_UNAVAILABLE"
    [] kind = "timeout"      -> "LLM_TIMEOUT"
    [] kind = "server"       -> "LLM_UNAVAILABLE"
    [] kind = "request"      -> "LLM_BAD_REQUEST"

\* The `except (RateLimitedError, ModelGoneError)' of complete.
MayFallBack(exc) == exc.kind \in {"rate_limited", "gone"}

Retry(exc) ==
  /\ Again(exc)
  /\ pc' = "backoff" /\ pause' \in Pauses(exc)
  /\ UNCHANGED <<has_fallback, model, tries, counter, attempts, outcome, ended>>

GiveUpModel(exc) ==
  /\ ~Again(exc)
  /\ ended' = [ended EXCEPT ![model] = exc]

\* (mutant) the fallback's loop goes on from the primary's attempt number.
TriesSoFar == tries

\* Each model has a Retrying and a counter of its own.
FirstTry == 1
FreshCounter == 0

\* The next turn of complete's loop.
FallBack(exc) ==
  /\ GiveUpModel(exc)
  /\ MayFallBack(exc) /\ model = "primary" /\ has_fallback
  /\ model' = "fallback" /\ tries' = FirstTry /\ counter' = FreshCounter
  /\ attempts' = attempts + counter
  /\ pc' = "attempt"
  /\ UNCHANGED <<has_fallback, pause, outcome>>

\* An LlmError; an exception the loop does not know goes through it.
GiveUp(exc) ==
  /\ GiveUpModel(exc)
  /\ ~(MayFallBack(exc) /\ model = "primary" /\ has_fallback)
  /\ outcome' = [error |-> IF exc.kind = "other" THEN "raised" ELSE FinalError(exc.kind),
                 model |-> model, attempts |-> 0]
  /\ attempts' = IF exc.kind = "other" THEN attempts ELSE attempts + counter
  /\ pc' = "returned"
  /\ UNCHANGED <<has_fallback, model, tries, counter, pause>>

Fails(exc) == Retry(exc) \/ FallBack(exc) \/ GiveUp(exc)

-----------------------------------------------------------------------------
(* The steps of an attempt. *)

\* limiter.acquire raises; no network call is counted.
Refused ==
  /\ pc = "attempt"
  /\ asked' = [asked EXCEPT ![model] = @ + 1]
  /\ \E exc \in LimiterRefusals : Fails(exc)
  /\ UNCHANGED <<sent, limited, slept, owed>>

Less(time, d) == IF time > d THEN time - d ELSE 0

\* limiter.acquire sleeps and returns; the call is sent.
Acquired ==
  /\ pc = "attempt"
  /\ asked' = [asked EXCEPT ![model] = @ + 1]
  /\ \E wait \in 0..MaxWait : limited' = limited + wait /\ owed' = Less(owed, wait)
  /\ counter' = counter + 1 /\ sent' = sent + 1
  /\ pc' = "calling"
  /\ UNCHANGED <<has_fallback, model, tries, attempts, pause, outcome, slept, ended>>

\* The transport returns, and complete with it.
Answered ==
  /\ pc = "calling"
  /\ attempts' = attempts + counter
  /\ outcome' = [error |-> None, model |-> model, attempts |-> attempts']
  /\ pc' = "returned"
  /\ UNCHANGED <<has_fallback, model, tries, counter, pause, ghost>>

\* The transport raises; the limiter is told of a 429 (RateLimiter!OnRateLimited).
CallFails ==
  /\ pc = "calling"
  /\ \E exc \in TransportFailures :
       /\ Fails(exc)
       /\ owed' = IF pc' = "backoff" /\ exc.after # None THEN exc.after ELSE 0
  /\ UNCHANGED <<asked, sent, limited, slept>>

\* tenacity sleeps, and tries again.
Backoff ==
  /\ pc = "backoff"
  /\ slept' = slept + pause /\ owed' = Less(owed, pause)
  /\ tries' = tries + 1
  /\ pc' = "attempt"
  /\ UNCHANGED <<has_fallback, model, counter, attempts, pause, outcome,
                 asked, sent, limited, ended>>

\* (bound) The caller has its answer.
Over == pc = "returned" /\ UNCHANGED vars

Next == Refused \/ Acquired \/ Answered \/ CallFails \/ Backoff \/ Over

Spec == Init /\ [][Next]_vars

-----------------------------------------------------------------------------
(* Properties. *)

TypeOK ==
  /\ pc \in {"attempt", "calling", "backoff", "returned"}
  /\ has_fallback \in BOOLEAN /\ model \in Models
  /\ tries \in 1..MaxAttempts /\ counter \in 0..MaxAttempts /\ attempts \in Nat
  /\ pause \in Nat
  /\ outcome \in {None} \cup [error : Errors \cup {None}, model : Models, attempts : Nat]
  /\ asked \in [Models -> Nat] /\ sent \in Nat /\ limited \in Nat /\ slept \in Nat /\ owed \in Nat
  /\ ended \in [Models -> {None} \cup TransportFailures \cup LimiterRefusals]

ModelsTried == IF model = "primary" THEN 1 ELSE 2
LongestPause == IF MaxWait > MaxBackoff THEN MaxWait ELSE MaxBackoff

\* client.py:4-8, config.py:65: whatever the provider and the limiter answer, a call sends
\* at most MaxAttempts requests per model, and waits a bounded time for them: MaxWait before
\* each request, and one pause less than attempts of each model.
WorkBounded ==
  /\ sent <= ModelsTried * MaxAttempts
  /\ limited <= sent * MaxWait
  /\ slept <= ModelsTried * (MaxAttempts - 1) * LongestPause

\* client.py:6 "retries on 429/5xx/timeouts": a model is given up for a failure a retry may
\* help only after all its attempts, the fallback's counted from its own first, or for a
\* wait that is too long.
GivesUpForAReason ==
  \A m \in Models :
    ended[m] # None /\ ended[m].kind \in Retryable =>
      asked[m] = MaxAttempts \/ (ended[m].after # None /\ ended[m].after > MaxWait)

\* client.py:214 "across all models tried", client.py:309 "counts network calls only".
AttemptsCounted ==
  pc = "returned" /\ outcome.error = None => outcome.attempts = sent

\* client.py:7 "retry-after honoured": no request is sent to a model before the time that
\* its last 429 asked for has been slept.
RetryAfterHonoured == pc = "calling" => owed = 0
=============================================================================
