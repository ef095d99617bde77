-------------------------- MODULE LlmClientProofs --------------------------
(***************************************************************************)
(* Proofs about one call of the client (LlmClient) for any number of       *)
(* attempts, any waits, and anything the limiter and the provider answer.  *)
(***************************************************************************)
EXTENDS LlmClient, TLAPS

-----------------------------------------------------------------------------
(* The inductive invariant. *)

Exceptions == TransportFailures \cup LimiterRefusals

\* A model has been asked once per attempt; one that was not reached, never.
Attempts ==
  /\ asked[model] = IF pc = "attempt" THEN tries - 1 ELSE tries
  /\ model = "primary" => asked["fallback"] = 0 /\ ended["fallback"] = None
  /\ model = "fallback" => asked["primary"] <= MaxAttempts
  /\ pc # "returned" => ended[model] = None

\* The network calls are those that were counted, and no more than were asked for.
Calls ==
  /\ counter <= asked[model] /\ sent <= asked["primary"] + asked["fallback"]
  /\ pc # "returned" => attempts + counter = sent
  /\ pc = "returned" /\ outcome.error = None => outcome.attempts = sent

\* A pause is as long as the last 429 asked for, and none is under way elsewhere.
Pause ==
  /\ pc = "backoff" => /\ tries < MaxAttempts
                       /\ pause <= LongestPause /\ owed <= pause
  /\ pc \in {"attempt", "calling"} => owed = 0

\* A pause per attempt after the first of each model.
Waits ==
  /\ limited <= sent * MaxWait
  /\ slept <= ((ModelsTried - 1) * (MaxAttempts - 1) + (tries - 1)) * LongestPause

IInv == TypeOK /\ Attempts /\ Calls /\ Pause /\ Waits /\ GivesUpForAReason

\* The shapes of the exceptions.
LEMMA ExceptionShape ==
  ASSUME NEW exc \in Exceptions
  PROVE  /\ exc.kind \in Kinds /\ exc.after \in RetryAfters \cup {None}
         /\ exc.after # None => exc.after \in Nat
         /\ exc \in {None} \cup TransportFailures \cup LimiterRefusals
  BY RetryAftersAssumption
  DEF Exceptions, TransportFailures, LimiterRefusals, RateLimited, Failure, Kinds, Retryable

LEMMA ConstantFacts ==
  /\ MaxAttempts \in Nat /\ MaxAttempts >= 1 /\ MaxWait \in Nat /\ MaxBackoff \in Nat
  /\ LongestPause \in Nat /\ MaxWait <= LongestPause /\ MaxBackoff <= LongestPause
  /\ ModelsTried \in {1, 2}
  BY AttemptsAssumption, WaitsAssumption DEF LongestPause, ModelsTried

\* Nothing was asked or sent.
LEMMA InitHolds == Init => IInv
<1>. SUFFICES ASSUME Init PROVE IInv
  OBVIOUS
<1>. USE DEF Init, Models
<1>1. TypeOK
  BY AttemptsAssumption DEF TypeOK
<1>2. Attempts /\ Calls /\ Pause /\ GivesUpForAReason
  BY NoneAssumption DEF Attempts, Calls, Pause, GivesUpForAReason
<1>3. Waits
  <2>1. 0 <= 0 * MaxWait /\ 0 <= ((1 - 1) * (MaxAttempts - 1) + (1 - 1)) * LongestPause
    BY ConstantFacts
  <2>. QED BY <2>1 DEF Waits, ModelsTried
<1>. QED BY <1>1, <1>2, <1>3 DEF IInv

-----------------------------------------------------------------------------
(* A failed attempt: what Refused and CallFails have in common. *)

\* The attempt was asked for, and no call or sleep is added by its failure.
AttemptFailed(exc) ==
  /\ pc \in {"attempt", "calling"}
  /\ Fails(exc)
  /\ asked' = IF pc = "attempt" THEN [asked EXCEPT ![model] = @ + 1] ELSE asked
  /\ UNCHANGED <<sent, limited, slept>>
  /\ owed' \in Nat
  /\ owed' # 0 => pc' = "backoff" /\ exc.after # None /\ owed' <= exc.after

LEMMA AskedOnce ==
  ASSUME IInv, NEW exc \in Exceptions, AttemptFailed(exc)
  PROVE  /\ asked' \in [Models -> Nat] /\ asked'[model] = tries
         /\ \A m \in Models : m # model => asked'[m] = asked[m]
         /\ counter <= asked'[model] /\ sent <= asked'["primary"] + asked'["fallback"]
<1>1. /\ asked \in [Models -> Nat] /\ model \in Models /\ tries \in Nat /\ tries >= 1
      /\ counter \in Nat /\ sent \in Nat
  BY AttemptsAssumption DEF IInv, TypeOK
<1>2. /\ asked[model] = IF pc = "attempt" THEN tries - 1 ELSE tries
      /\ counter <= asked[model] /\ sent <= asked["primary"] + asked["fallback"]
  BY DEF IInv, Attempts, Calls
<1>3. /\ pc = "attempt" => asked' = [asked EXCEPT ![model] = asked[model] + 1]
      /\ pc # "attempt" => asked' = asked
  BY DEF AttemptFailed
<1>4. /\ asked'["primary"] \in Nat /\ asked'["primary"] >= asked["primary"]
      /\ asked'["fallback"] \in Nat /\ asked'["fallback"] >= asked["fallback"]
      /\ asked["primary"] \in Nat /\ asked["fallback"] \in Nat
  BY <1>1, <1>3 DEF Models
<1>5. asked' \in [Models -> Nat] /\ asked'[model] = tries
  BY <1>1, <1>2, <1>3
<1>6. \A m \in Models : m # model => asked'[m] = asked[m]
  BY <1>1, <1>3
<1>7. counter <= asked'[model]
  BY <1>1, <1>2, <1>5
<1>8. sent <= asked'["primary"] + asked'["fallback"]
  BY <1>1, <1>2, <1>4
<1>. QED BY <1>5, <1>6, <1>7, <1>8

LEMMA RetryHolds ==
  ASSUME IInv, NEW exc \in Exceptions, AttemptFailed(exc), Retry(exc)
  PROVE  IInv'
<1>1. /\ pc' = "backoff" /\ pause' \in Pauses(exc) /\ tries < MaxAttempts
      /\ ~TooLong(exc)
      /\ UNCHANGED <<has_fallback, model, tries, counter, attempts, outcome, ended>>
      /\ UNCHANGED <<sent, limited, slept>>
  BY DEF Retry, Again, AttemptFailed
<1>2. pause' \in Nat /\ pause' <= LongestPause /\ (exc.after # None => pause' = exc.after)
  <2>1. CASE exc.after # None
    BY <1>1, <2>1, ExceptionShape, ConstantFacts DEF Pauses, TooLong
  <2>2. CASE exc.after = None
    BY <1>1, <2>2, ConstantFacts DEF Pauses
  <2>. QED BY <2>1, <2>2
<1>3. owed' \in Nat /\ owed' <= pause'
  BY <1>2 DEF AttemptFailed
<1>4. TypeOK'
  BY <1>1, <1>2, <1>3, AskedOnce DEF IInv, TypeOK
<1>5. pc \in {"attempt", "calling"}
  BY DEF AttemptFailed
<1>6. Attempts'
  BY <1>1, <1>5, AskedOnce DEF IInv, TypeOK, Attempts, Models
<1>7. Calls'
  BY <1>1, <1>5, AskedOnce DEF IInv, Calls
<1>8. Pause'
  BY <1>1, <1>2, <1>3 DEF Pause, LongestPause
<1>9. Waits'
  BY <1>1 DEF IInv, Waits, ModelsTried, LongestPause
<1>10. GivesUpForAReason'
  <2>1. ASSUME NEW m \in Models, ended[m] # None PROVE asked'[m] = asked[m]
    BY <1>5, <2>1, AskedOnce DEF IInv, Attempts
  <2>. QED BY <1>1, <2>1 DEF IInv, GivesUpForAReason
<1>. QED BY <1>4, <1>6, <1>7, <1>8, <1>9, <1>10 DEF IInv

\* What giving a model up records is a reason.
LEMMA GiveUpModelHolds ==
  ASSUME IInv, NEW exc \in Exceptions, AttemptFailed(exc), GiveUpModel(exc)
  PROVE  GivesUpForAReason' /\ ended' \in [Models -> {None} \cup TransportFailures \cup LimiterRefusals]
<1>1. ended' = [ended EXCEPT ![model] = exc] /\ ~Again(exc)
  BY DEF GiveUpModel
<1>2. /\ ended \in [Models -> {None} \cup TransportFailures \cup LimiterRefusals]
      /\ model \in Models /\ tries \in 1..MaxAttempts
  BY DEF IInv, TypeOK
<1>3. ended' \in [Models -> {None} \cup TransportFailures \cup LimiterRefusals]
  BY <1>1, <1>2, ExceptionShape
<1>4. ASSUME NEW m \in Models, ended'[m] # None, ended'[m].kind \in Retryable
      PROVE  asked'[m] = MaxAttempts \/ (ended'[m].after # None /\ ended'[m].after > MaxWait)
  <2>1. CASE m = model
    <3>1. ended'[m] = exc
      BY <1>1, <1>2, <2>1
    <3>2. tries >= MaxAttempts \/ TooLong(exc)
      BY <1>1, <1>2, <1>4, <3>1, ConstantFacts DEF Again
    <3>. QED BY <1>2, <2>1, <3>1, <3>2, AskedOnce, ConstantFacts DEF TooLong
  <2>2. CASE m # model
    <3>1. ended'[m] = ended[m] /\ asked'[m] = asked[m]
      BY <1>1, <1>2, <2>2, AskedOnce
    <3>. QED BY <1>4, <3>1 DEF IInv, GivesUpForAReason
  <2>. QED BY <2>1, <2>2
<1>. QED BY <1>3, <1>4 DEF GivesUpForAReason

LEMMA FallBackHolds ==
  ASSUME IInv, NEW exc \in Exceptions, AttemptFailed(exc), FallBack(exc)
  PROVE  IInv'
<1>1. /\ model = "primary" /\ model' = "fallback" /\ tries' = 1 /\ counter' = 0
      /\ attempts' = attempts + counter /\ pc' = "attempt"
      /\ ended' = [ended EXCEPT ![model] = exc]
      /\ UNCHANGED <<has_fallback, pause, outcome>> /\ UNCHANGED <<sent, limited, slept>>
  BY DEF FallBack, GiveUpModel, FirstTry, FreshCounter, AttemptFailed
<1>2. GivesUpForAReason' /\ ended' \in [Models -> {None} \cup TransportFailures \cup LimiterRefusals]
  BY GiveUpModelHolds DEF FallBack
<1>3. owed' = 0
  BY <1>1 DEF AttemptFailed
<1>4. pc \in {"attempt", "calling"}
  BY DEF AttemptFailed
<1>5. TypeOK'
  BY <1>1, <1>2, <1>3, AskedOnce, ConstantFacts DEF IInv, TypeOK, Models
<1>6. Attempts'
  <2>1. asked["fallback"] = 0 /\ ended["fallback"] = None /\ tries <= MaxAttempts /\ tries \in Nat
    BY <1>1, ConstantFacts DEF IInv, Attempts, TypeOK
  <2>2. asked'["fallback"] = 0 /\ asked'["primary"] = tries /\ ended'["fallback"] = None
    BY <1>1, <2>1, AskedOnce DEF Models, IInv, TypeOK
  <2>. QED BY <1>1, <2>1, <2>2 DEF Attempts
<1>7. Calls'
  <2>1. attempts' + counter' = sent' /\ 0 <= asked'["fallback"]
    BY <1>1, <1>4, AskedOnce DEF IInv, TypeOK, Calls, Models
  <2>. QED BY <1>1, <2>1, AskedOnce DEF Calls
<1>8. Pause'
  BY <1>1, <1>3 DEF Pause
<1>9. Waits'
  <2>1. limited <= sent * MaxWait /\ slept <= ((1 - 1) * (MaxAttempts - 1) + (tries - 1)) * LongestPause
    BY <1>1 DEF IInv, Waits, ModelsTried
  <2>2. ((1 - 1) * (MaxAttempts - 1) + (tries - 1)) * LongestPause
          <= ((2 - 1) * (MaxAttempts - 1) + (1 - 1)) * LongestPause
    <3>1. /\ (1 - 1) * (MaxAttempts - 1) + (tries - 1) = tries - 1
          /\ (2 - 1) * (MaxAttempts - 1) + (1 - 1) = MaxAttempts - 1
          /\ tries - 1 \in Nat /\ MaxAttempts - 1 \in Nat /\ tries - 1 <= MaxAttempts - 1
      BY ConstantFacts DEF IInv, TypeOK
    <3>2. \A a, b, c \in Nat : a <= b => a * c <= b * c
      OBVIOUS
    <3>. QED BY <3>1, <3>2, ConstantFacts
  <2>3. slept <= ((2 - 1) * (MaxAttempts - 1) + (1 - 1)) * LongestPause
    BY <2>1, <2>2, ConstantFacts DEF IInv, TypeOK
  <2>. QED BY <1>1, <2>1, <2>3 DEF Waits, ModelsTried, LongestPause
<1>. QED BY <1>2, <1>5, <1>6, <1>7, <1>8, <1>9 DEF IInv

LEMMA GiveUpHolds ==
  ASSUME IInv, NEW exc \in Exceptions, AttemptFailed(exc), GiveUp(exc)
  PROVE  IInv'
<1>1. /\ pc' = "returned" /\ ended' = [ended EXCEPT ![model] = exc]
      /\ outcome' = [error |-> IF exc.kind = "other" THEN "raised" ELSE FinalError(exc.kind),
                     model |-> model, attempts |-> 0]
      /\ attempts' = IF exc.kind = "other" THEN attempts ELSE attempts + counter
      /\ UNCHANGED <<has_fallback, model, tries, counter, pause>>
      /\ UNCHANGED <<sent, limited, slept>>
  BY DEF GiveUp, GiveUpModel, AttemptFailed
<1>2. GivesUpForAReason' /\ ended' \in [Models -> {None} \cup TransportFailures \cup LimiterRefusals]
  BY GiveUpModelHolds DEF GiveUp
<1>3. outcome'.error \in Errors /\ outcome' \in [error : Errors \cup {None}, model : Models, attempts : Nat]
  BY <1>1, ExceptionShape DEF FinalError, Errors, Kinds, Retryable, IInv, TypeOK
<1>4. attempts' \in Nat
  BY <1>1 DEF IInv, TypeOK
<1>5. TypeOK'
  BY <1>1, <1>2, <1>3, <1>4, AskedOnce DEF IInv, TypeOK, AttemptFailed
<1>6. pc \in {"attempt", "calling"}
  BY DEF AttemptFailed
<1>7. Attempts'
  BY <1>1, <1>6, AskedOnce DEF IInv, TypeOK, Attempts, Models
<1>8. Calls'
  <2>1. outcome'.error # None
    BY <1>3, NoneAssumption
  <2>. QED BY <1>1, <2>1, AskedOnce DEF Calls
<1>9. Pause'
  BY <1>1 DEF Pause
<1>10. Waits'
  BY <1>1 DEF IInv, Waits, ModelsTried, LongestPause
<1>. QED BY <1>2, <1>5, <1>7, <1>8, <1>9, <1>10 DEF IInv

LEMMA FailsHolds ==
  ASSUME IInv, NEW exc \in Exceptions, AttemptFailed(exc)
  PROVE  IInv'
  BY RetryHolds, FallBackHolds, GiveUpHolds DEF AttemptFailed, Fails

-----------------------------------------------------------------------------
(* The other steps. *)

LEMMA RefusedHolds == IInv /\ Refused => IInv'
<1>. SUFFICES ASSUME IInv, Refused PROVE IInv'
  OBVIOUS
<1>1. PICK exc \in LimiterRefusals : Fails(exc)
  BY DEF Refused
<1>2. owed' = 0
  BY DEF Refused, IInv, Pause
<1>3. AttemptFailed(exc)
  BY <1>1, <1>2 DEF Refused, AttemptFailed
<1>. QED BY <1>3, FailsHolds DEF Exceptions

LEMMA CallFailsHolds == IInv /\ CallFails => IInv'
<1>. SUFFICES ASSUME IInv, CallFails PROVE IInv'
  OBVIOUS
<1>1. PICK exc \in TransportFailures :
        /\ Fails(exc)
        /\ owed' = IF pc' = "backoff" /\ exc.after # None THEN exc.after ELSE 0
  BY DEF CallFails
<1>2. owed' \in Nat /\ (owed' # 0 => pc' = "backoff" /\ exc.after # None /\ owed' <= exc.after)
  BY <1>1, ExceptionShape DEF Exceptions
<1>3. AttemptFailed(exc)
  BY <1>1, <1>2 DEF CallFails, AttemptFailed
<1>. QED BY <1>3, FailsHolds DEF Exceptions

LEMMA AcquiredHolds == IInv /\ Acquired => IInv'
<1>. SUFFICES ASSUME IInv, Acquired PROVE IInv'
  OBVIOUS
<1>1. /\ pc = "attempt" /\ pc' = "calling"
      /\ asked' = [asked EXCEPT ![model] = @ + 1] /\ counter' = counter + 1 /\ sent' = sent + 1
      /\ UNCHANGED <<has_fallback, model, tries, attempts, pause, outcome, slept, ended>>
  BY DEF Acquired
<1>2. PICK wait \in 0..MaxWait : limited' = limited + wait /\ owed' = Less(owed, wait)
  BY DEF Acquired
<1>3. owed' = 0
  BY <1>1, <1>2, ConstantFacts DEF IInv, Pause, Less
<1>4. /\ asked[model] = tries - 1 /\ tries \in 1..MaxAttempts /\ counter \in Nat /\ counter <= asked[model]
      /\ asked \in [Models -> Nat] /\ model \in Models /\ sent \in Nat /\ limited \in Nat
  BY <1>1 DEF IInv, TypeOK, Attempts, Calls
<1>5. /\ asked' \in [Models -> Nat] /\ asked'[model] = tries
      /\ \A m \in Models : m # model => asked'[m] = asked[m]
  BY <1>1, <1>4, ConstantFacts
<1>6. counter' \in 0..MaxAttempts /\ counter' <= tries
  BY <1>1, <1>4, ConstantFacts
<1>7. limited' \in Nat /\ sent' \in Nat
  BY <1>1, <1>2, <1>4, ConstantFacts
<1>8. TypeOK'
  BY <1>1, <1>3, <1>5, <1>6, <1>7 DEF IInv, TypeOK
<1>9. Attempts'
  BY <1>1, <1>5 DEF IInv, Attempts, Models
<1>10. Calls'
  <2>1. asked'["primary"] + asked'["fallback"] = asked["primary"] + asked["fallback"] + 1
    BY <1>1, <1>4 DEF Models
  <2>2. attempts + counter = sent /\ sent <= asked["primary"] + asked["fallback"]
    BY <1>1 DEF IInv, Calls
  <2>3. attempts' + counter' = sent'
    BY <1>1, <1>4, <2>2 DEF IInv, TypeOK
  <2>4. sent' <= asked'["primary"] + asked'["fallback"]
    BY <1>1, <1>4, <2>1, <2>2 DEF Models
  <2>. QED BY <1>1, <1>5, <1>6, <2>3, <2>4 DEF Calls
<1>11. Pause'
  BY <1>1, <1>3 DEF Pause
<1>12. Waits'
  <2>1. limited' <= sent' * MaxWait
    <3>1. (sent + 1) * MaxWait = sent * MaxWait + MaxWait
      BY <1>4, ConstantFacts
    <3>2. limited <= sent * MaxWait /\ sent * MaxWait \in Nat
      BY <1>4, ConstantFacts DEF IInv, Waits
    <3>. QED BY <1>1, <1>2, <1>4, <3>1, <3>2, ConstantFacts
  <2>. QED BY <1>1, <2>1 DEF IInv, Waits, ModelsTried, LongestPause
<1>13. GivesUpForAReason'
  <2>1. ASSUME NEW m \in Models, ended[m] # None PROVE asked'[m] = asked[m]
    BY <1>1, <1>5, <2>1 DEF IInv, Attempts
  <2>. QED BY <1>1, <2>1 DEF IInv, GivesUpForAReason
<1>. QED BY <1>8, <1>9, <1>10, <1>11, <1>12, <1>13 DEF IInv

LEMMA AnsweredHolds == IInv /\ Answered => IInv'
<1>. SUFFICES ASSUME IInv, Answered PROVE IInv'
  OBVIOUS
<1>1. /\ pc = "calling" /\ pc' = "returned" /\ attempts' = attempts + counter
      /\ outcome' = [error |-> None, model |-> model, attempts |-> attempts']
      /\ UNCHANGED <<has_fallback, model, tries, counter, pause>>
      /\ UNCHANGED <<asked, sent, limited, slept, owed, ended>>
  BY DEF Answered, ghost
<1>2. attempts' = sent /\ sent \in Nat
  BY <1>1 DEF IInv, Calls, TypeOK
<1>3. TypeOK'
  BY <1>1, <1>2 DEF IInv, TypeOK
<1>4. Attempts' /\ Pause'
  BY <1>1 DEF IInv, Attempts, Pause
<1>5. Calls'
  BY <1>1, <1>2 DEF IInv, Calls
<1>6. Waits' /\ GivesUpForAReason'
  BY <1>1 DEF IInv, Waits, ModelsTried, LongestPause, GivesUpForAReason
<1>. QED BY <1>3, <1>4, <1>5, <1>6 DEF IInv

LEMMA BackoffHolds == IInv /\ Backoff => IInv'
<1>. SUFFICES ASSUME IInv, Backoff PROVE IInv'
  OBVIOUS
<1>1. /\ pc = "backoff" /\ pc' = "attempt" /\ tries' = tries + 1
      /\ slept' = slept + pause /\ owed' = Less(owed, pause)
      /\ UNCHANGED <<has_fallback, model, counter, attempts, pause, outcome,
                     asked, sent, limited, ended>>
  BY DEF Backoff
<1>2. /\ tries \in Nat /\ tries >= 1 /\ tries < MaxAttempts /\ pause \in Nat
      /\ pause <= LongestPause /\ owed <= pause /\ owed \in Nat /\ slept \in Nat
  BY <1>1, ConstantFacts DEF IInv, Pause, TypeOK
<1>3. owed' = 0
  BY <1>1, <1>2 DEF Less
<1>4. tries' \in 1..MaxAttempts /\ slept' \in Nat
  BY <1>1, <1>2, ConstantFacts
<1>5. TypeOK'
  BY <1>1, <1>3, <1>4 DEF IInv, TypeOK
<1>6. Attempts'
  BY <1>1, <1>2 DEF IInv, Attempts
<1>7. Calls'
  BY <1>1 DEF IInv, Calls
<1>8. Pause'
  BY <1>1, <1>3 DEF Pause
<1>9. Waits'
  <2>. DEFINE before == (ModelsTried - 1) * (MaxAttempts - 1)
  <2>1. before \in Nat
    BY ConstantFacts
  <2>2. slept <= (before + (tries - 1)) * LongestPause
    BY DEF IInv, Waits
  <2>. HIDE DEF before
  <2>3. /\ (before + (tries + 1 - 1)) * LongestPause = (before + (tries - 1)) * LongestPause + LongestPause
        /\ (before + (tries - 1)) * LongestPause \in Nat
    BY <1>2, <2>1, ConstantFacts
  <2>4. slept' <= (before + (tries' - 1)) * LongestPause
    BY <1>1, <1>2, <2>2, <2>3, ConstantFacts
  <2>. QED BY <1>1, <2>4 DEF IInv, Waits, before, ModelsTried, LongestPause
<1>10. GivesUpForAReason'
  BY <1>1 DEF IInv, GivesUpForAReason
<1>. QED BY <1>5, <1>6, <1>7, <1>8, <1>9, <1>10 DEF IInv

LEMMA StepHolds == IInv /\ [Next]_vars => IInv'
<1>. SUFFICES ASSUME IInv, [Next]_vars PROVE IInv'
  OBVIOUS
<1>1. CASE UNCHANGED vars
  BY <1>1 DEF vars, locals, ghost, IInv, TypeOK, Attempts, Calls, Pause, Waits, GivesUpForAReason,
              ModelsTried, LongestPause
<1>. QED BY <1>1, RefusedHolds, CallFailsHolds, AcquiredHolds, AnsweredHolds, BackoffHolds DEF Next, Over

-----------------------------------------------------------------------------
(* The theorems. *)

\* Every variable of the call keeps its type; tenacity's attempt number stays within
\* LLM_MAX_ATTEMPTS.
THEOREM ClientTypeCorrect == Spec => []TypeOK
<1>1. IInv => TypeOK
  BY DEF IInv
<1>. QED BY <1>1, InitHolds, StepHolds, PTL DEF Spec

\* client.py:4-8, config.py:65: the requests a call sends and the time it waits for them are
\* bounded by the settings, whatever the limiter and the provider answer.
THEOREM CallIsBounded == Spec => []WorkBounded
<1>1. ASSUME IInv PROVE WorkBounded
  <2>1. /\ tries \in Nat /\ tries >= 1 /\ tries <= MaxAttempts /\ sent \in Nat /\ slept \in Nat
        /\ asked \in [Models -> Nat] /\ model \in Models
    BY <1>1, ConstantFacts DEF IInv, TypeOK
  <2>2. sent <= ModelsTried * MaxAttempts
    <3>1. asked[model] <= MaxAttempts /\ sent <= asked["primary"] + asked["fallback"]
      BY <1>1, <2>1, ConstantFacts DEF IInv, Attempts, Calls
    <3>2. CASE model = "primary"
      <4>1. sent <= MaxAttempts
        BY <1>1, <2>1, <3>1, <3>2, ConstantFacts DEF IInv, Attempts, Models
      <4>. QED BY <3>2, <4>1, ConstantFacts DEF ModelsTried
    <3>3. CASE model = "fallback"
      <4>1. sent <= 2 * MaxAttempts
        BY <1>1, <2>1, <3>1, <3>3, ConstantFacts DEF IInv, Attempts, Models
      <4>. QED BY <3>3, <4>1, ConstantFacts DEF ModelsTried
    <3>. QED BY <2>1, <3>2, <3>3 DEF Models
  <2>3. slept <= ModelsTried * (MaxAttempts - 1) * LongestPause
    <3>. DEFINE now == (ModelsTried - 1) * (MaxAttempts - 1) + (tries - 1)
    <3>1. now \in Nat /\ now <= ModelsTried * (MaxAttempts - 1) /\ ModelsTried * (MaxAttempts - 1) \in Nat
      BY <2>1, ConstantFacts
    <3>2. slept <= now * LongestPause
      BY <1>1 DEF IInv, Waits
    <3>3. \A a, b, c \in Nat : a <= b => a * c <= b * c
      OBVIOUS
    <3>. HIDE DEF now
    <3>4. now * LongestPause <= ModelsTried * (MaxAttempts - 1) * LongestPause
      BY <3>1, <3>3, ConstantFacts
    <3>. QED BY <2>1, <3>1, <3>2, <3>4, ConstantFacts
  <2>. QED BY <1>1, <2>2, <2>3 DEF IInv, Waits, WorkBounded
<1>. QED BY <1>1, InitHolds, StepHolds, PTL DEF Spec

\* client.py:6: no model is given up early for a failure that a retry may help.
THEOREM RetriesAreSpent == Spec => []GivesUpForAReason
<1>1. IInv => GivesUpForAReason
  BY DEF IInv
<1>. QED BY <1>1, InitHolds, StepHolds, PTL DEF Spec

\* client.py:214: a result's `attempts' is the number of requests sent for it, to both models.
THEOREM AttemptsAreCounted == Spec => []AttemptsCounted
<1>1. IInv => AttemptsCounted
  BY DEF IInv, Calls, AttemptsCounted
<1>. QED BY <1>1, InitHolds, StepHolds, PTL DEF Spec

\* client.py:7: no request is sent before the last retry-after of its model has been slept.
THEOREM RetryAfterIsHonoured == Spec => []RetryAfterHonoured
<1>1. IInv => RetryAfterHonoured
  BY DEF IInv, Pause, RetryAfterHonoured
<1>. QED BY <1>1, InitHolds, StepHolds, PTL DEF Spec
=============================================================================
