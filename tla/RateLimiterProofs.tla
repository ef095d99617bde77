------------------------- MODULE RateLimiterProofs -------------------------
(***************************************************************************)
(* Proofs about the rate limiter (RateLimiter), for any finite number of   *)
(* threads, any limits, margins and waits, and any length of time.         *)
(***************************************************************************)
EXTENDS RateLimiter, FiniteSetTheorems, TLAPS

-----------------------------------------------------------------------------
(* The inductive invariant. *)

\* The callers between their reservation and their report.
InFlight == {t \in Threads : pc[t] # "idle"}
Flying == Cardinality(InFlight)
N == Cardinality(Threads)

Charged == \A t \in InFlight : est[t] \in Estimates

\* The block in force is the longest that was asked for.
Asked == asked = blocked_until

DayCount == granted <= RequestsToday /\ granted <= Rpd

\* The day's cost is what the limiter counts, and leaves room for what each call in flight may
\* cost beyond its estimate.
DayCost ==
  ~crossed => /\ spent = TokensToday
              /\ spent + Flying * Overshoot <= Tpd + N * Overshoot

\* So does the debt.
Debt ==
  token_level >= -(MaxWait * Tpm + Minute * ReserveTokens + Minute * (Overshoot * (N - Flying)))

\* A caller may be asleep until u only because of a level that has not recovered by then, or of
\* the block, or because it has not woken up yet.
Due(u) ==
  \/ u <= now
  \/ Rpm * (u - updated - 1) < -request_level
  \/ Tpm * (u - updated - 1) < -token_level
  \/ u <= blocked_until

Queued == \A p \in queue : Due(until[p])

IInv == TypeOK /\ Charged /\ Asked /\ DayCount /\ DayCost /\ Debt /\ Queued

-----------------------------------------------------------------------------
(* Numbers. *)

LEMMA DayOf ==
  ASSUME NEW d \in Nat \ {0}, NEW n \in Nat
  PROVE  /\ n \div d \in Nat
         /\ (n + 1) \div d = n \div d \/ (n + 1) \div d = n \div d + 1
         /\ (n + 1) % d # 0 => (n + 1) \div d = n \div d
         /\ (n + 1) % d = 0 => (n + 1) \div d = n \div d + 1
  OBVIOUS

LEMMA Rounded ==
  ASSUME NEW a \in Int, NEW b \in Nat \ {0}
  PROVE  /\ CeilDiv(a, b) \in Int
         /\ b * (CeilDiv(a, b) - 1) < a
         /\ \A w \in Int : w >= CeilDiv(a, b) => b * w >= a
<1>1. CeilDiv(a, b) \in Int /\ b * CeilDiv(a, b) >= a /\ b * CeilDiv(a, b) < a + b
  BY DEF CeilDiv
<1>2. \A v \in Int : b * (v - 1) = b * v - b
  OBVIOUS
<1>3. \A v, w \in Int : w >= v => b * w >= b * v
  OBVIOUS
<1>. HIDE DEF CeilDiv
<1>4. b * (CeilDiv(a, b) - 1) < a
  BY <1>1, <1>2
<1>. QED
  BY <1>1, <1>3, <1>4

LEMMA Lesser ==
  ASSUME NEW a \in Int, NEW b \in Int
  PROVE  /\ Min({a, b}) \in Int /\ Min({a, b}) <= a /\ Min({a, b}) <= b
         /\ (Min({a, b}) = a \/ Min({a, b}) = b)
  BY DEF Min

LEMMA Greater ==
  ASSUME NEW a \in Int, NEW b \in Int
  PROVE  /\ Max({a, b}) \in Int /\ Max({a, b}) >= a /\ Max({a, b}) >= b
         /\ (Max({a, b}) = a \/ Max({a, b}) = b)
  BY DEF Max

LEMMA GreatestOfFour ==
  ASSUME NEW a \in Int, NEW b \in Int, NEW c \in Int, NEW d \in Int
  PROVE  /\ Max({a, b, c, d}) \in Int /\ Max({a, b, c, d}) \in {a, b, c, d}
         /\ Max({a, b, c, d}) >= a /\ Max({a, b, c, d}) >= b
         /\ Max({a, b, c, d}) >= c /\ Max({a, b, c, d}) >= d
  BY DEF Max

LEMMA Products ==
  ASSUME NEW a \in Nat, NEW b \in Int, NEW c \in Int
  PROVE  /\ a * b \in Int /\ a * (b + c) = a * b + a * c /\ a * (b - c) = a * b - a * c
         /\ a * b = b * a
         /\ b <= c => a * b <= a * c
         /\ b >= 0 => a * b >= 0
  OBVIOUS

LEMMA LeastNat ==
  ASSUME NEW T \in SUBSET Nat, T # {}
  PROVE  \E x \in T : \A y \in T : x <= y
<1>1. PICK x \in T : \A y \in T : ~(<<y, x>> \in OpToRel(<, Nat))
  BY NatLessThanWellFounded, WFMin
<1>2. \A y \in T : ~(y < x)
  BY <1>1 DEF OpToRel
<1>. QED
  BY <1>2

LEMMA GreatestNat ==
  ASSUME NEW n \in Nat, NEW I \in SUBSET (0..n), I # {}
  PROVE  \E i \in I : \A j \in I : j <= i
<1>. DEFINE T == {m \in Nat : n - m \in I}
<1>1. T # {}
  <2>1. PICK i \in I : TRUE
    OBVIOUS
  <2>2. n - i \in T
    BY <2>1
  <2>. QED
    BY <2>2
<1>2. PICK x \in T : \A y \in T : x <= y
  BY <1>1, LeastNat
<1>3. \A j \in I : n - j \in T
  OBVIOUS
<1>. QED
  BY <1>2, <1>3

\* A finite set of numbers has a bound: the least number of elements of a subset without one
\* is that of a subset from which an element may be taken away.
LEMMA FiniteIsBounded ==
  ASSUME NEW S \in SUBSET Nat, IsFiniteSet(S)
  PROVE  \E n \in Nat : \A x \in S : x <= n
<1>. DEFINE Bounded(U) == \E n \in Nat : \A x \in U : x <= n
            Bad == {n \in Nat : \E U \in SUBSET S : Cardinality(U) = n /\ ~Bounded(U)}
<1>1. SUFFICES ASSUME ~Bounded(S) PROVE FALSE
  OBVIOUS
<1>2. Cardinality(S) \in Bad
  BY <1>1, FS_CardinalityType
<1>3. PICK n \in Bad : \A m \in Bad : n <= m
  BY <1>2, LeastNat
<1>4. PICK U \in SUBSET S : Cardinality(U) = n /\ ~Bounded(U)
  BY <1>3
<1>5. IsFiniteSet(U)
  BY FS_Subset
<1>6. PICK x \in U : TRUE
  BY <1>4
<1>7. Cardinality(U \ {x}) = n - 1 /\ n - 1 \in Nat
  <2>1. IsFiniteSet(U \ {x}) /\ Cardinality(U \ {x}) = n - 1
    BY <1>4, <1>5, <1>6, FS_RemoveElement
  <2>. QED
    BY <2>1, FS_CardinalityType
<1>8. ~Bounded(U \ {x})
  <2>. SUFFICES ASSUME NEW b \in Nat, \A y \in U \ {x} : y <= b
                PROVE  Bounded(U)
    BY <1>4
  <2>1. b + x \in Nat /\ \A y \in U : y <= b + x
    OBVIOUS
  <2>. QED
    BY <2>1
<1>9. n - 1 \in Bad
  BY <1>7, <1>8
<1>. QED
  BY <1>3, <1>9

LEMMA OvershootBounds ==
  /\ Overshoot \in Nat
  /\ \A a \in Actuals, e \in Estimates : a - e <= Overshoot
<1>. DEFINE D == {0} \cup {a - e : a \in Actuals, e \in Estimates}
            P == {d \in D : d >= 0}
<1>1. PICK n \in Nat : \A a \in Actuals : a <= n
  BY TokensAssumption, FiniteIsBounded
<1>2. D \subseteq Int /\ \A d \in D : d <= n
  BY <1>1, TokensAssumption
<1>3. P \in SUBSET (0..n) /\ P # {}
  BY <1>2
<1>4. PICK m \in P : \A j \in P : j <= m
  <2>. HIDE DEF P
  <2>. QED
    BY <1>1, <1>3, GreatestNat
<1>5. m \in D /\ \A d \in D : m >= d
  BY <1>2, <1>3, <1>4
<1>6. Max(D) \in D /\ \A d \in D : Max(D) >= d
  <2>. HIDE DEF D
  <2>. QED
    BY <1>5 DEF Max
<1>7. Overshoot = Max(D)
  BY DEF Overshoot
<1>. HIDE DEF Max, Overshoot
<1>8. Overshoot \in Int /\ Overshoot >= 0
  BY <1>2, <1>6, <1>7
<1>9. \A a \in Actuals, e \in Estimates : a - e <= Overshoot
  BY <1>2, <1>6, <1>7
<1>. QED
  BY <1>8, <1>9

-----------------------------------------------------------------------------
(* What a critical section finds. *)

LEMMA Limits ==
  /\ Rpm \in Nat \ {0} /\ Tpm \in Nat \ {0} /\ Rpd \in Nat /\ Tpd \in Nat
  /\ Minute \in Nat \ {0} /\ DayLength \in Nat \ {0}
  /\ MaxWait \in Nat /\ ReserveTokens \in Nat /\ Horizon \in Nat
  BY LimitsAssumption, WaitAssumption

LEMMA Refresh ==
  ASSUME TypeOK
  PROVE  /\ now - updated \in Nat /\ Today \in Nat
         /\ Refilled \in Int /\ Refilled <= Rpm * Minute
         /\ Refilled <= request_level + Rpm * (now - updated)
         /\ TokensRefilled \in Int
         /\ TokensRefilled <= token_level + Tpm * (now - updated)
         /\ TokensRefilled >= token_level \/ TokensRefilled >= 0
         /\ RequestsToday \in Nat /\ TokensToday \in Int
<1>1. now - updated \in Nat /\ request_level \in Int /\ token_level \in Int /\ now \in Nat
  BY Limits DEF TypeOK
<1>2. /\ (now - updated) * Rpm = Rpm * (now - updated) /\ Rpm * (now - updated) \in Int
      /\ (now - updated) * Tpm = Tpm * (now - updated) /\ Tpm * (now - updated) \in Int
      /\ Tpm * (now - updated) >= 0
      /\ Rpm * Minute \in Int /\ Tpm * Minute \in Int /\ Tpm * Minute >= 0
  BY <1>1, Limits, Products
<1>. DEFINE full == Rpm * Minute
            grown == request_level + (now - updated) * Rpm
            tokensFull == Tpm * Minute
            tokensGrown == token_level + (now - updated) * Tpm
<1>a. /\ full \in Int /\ grown \in Int /\ tokensFull \in Int /\ tokensGrown \in Int
      /\ grown = request_level + Rpm * (now - updated) /\ full = Rpm * Minute
      /\ tokensGrown = token_level + Tpm * (now - updated)
      /\ tokensFull >= 0 /\ tokensGrown >= token_level
  BY <1>1, <1>2
<1>b. Refilled = Min({full, grown}) /\ TokensRefilled = Min({tokensFull, tokensGrown})
  BY DEF Refilled, TokensRefilled
<1>. HIDE DEF full, grown, tokensFull, tokensGrown
<1>3. /\ Refilled \in Int /\ Refilled <= Rpm * Minute
      /\ Refilled <= request_level + Rpm * (now - updated)
  <2>1. /\ Min({full, grown}) \in Int /\ Min({full, grown}) <= full /\ Min({full, grown}) <= grown
    BY <1>a, Lesser
  <2>. QED
    BY <1>a, <1>b, <2>1
<1>4. /\ TokensRefilled \in Int
      /\ TokensRefilled <= token_level + Tpm * (now - updated)
      /\ TokensRefilled >= token_level \/ TokensRefilled >= 0
  <2>. DEFINE m == Min({tokensFull, tokensGrown})
  <2>1. /\ m \in Int /\ m <= tokensGrown /\ (m = tokensFull \/ m = tokensGrown)
    BY <1>a, Lesser
  <2>. QED
    BY <1>1, <1>a, <1>b, <2>1
<1>5. Today \in Nat
  BY <1>1, Limits, DayOf DEF Today
<1>6. RequestsToday \in Nat /\ TokensToday \in Int
  BY DEF TypeOK, RequestsToday, TokensToday
<1>. QED
  BY <1>1, <1>3, <1>4, <1>5, <1>6

\* A wait is long enough for both levels and the block, and one tick less is not.
LEMMA WaitIsNeeded ==
  ASSUME TypeOK, NEW e \in Nat
  PROVE  /\ Wait(e) \in Nat
         /\ Rpm * Wait(e) >= Minute - Refilled
         /\ Tpm * Wait(e) >= e * Minute - TokensRefilled
         /\ now + Wait(e) >= blocked_until
         /\ \/ Wait(e) = 0
            \/ Rpm * (Wait(e) - 1) < Minute - Refilled
            \/ Tpm * (Wait(e) - 1) < e * Minute - TokensRefilled
            \/ now + Wait(e) = blocked_until
<1>. DEFINE w == Wait(e)
            r == CeilDiv(Minute - Refilled, Rpm)
            t == CeilDiv(e * Minute - TokensRefilled, Tpm)
            b == blocked_until - now
<1>1. /\ Minute - Refilled \in Int /\ e * Minute - TokensRefilled \in Int
      /\ blocked_until \in Int /\ now \in Int
  <2>1. e * Minute \in Int
    BY Limits, Products
  <2>. QED
    BY <2>1, Refresh, Limits DEF TypeOK
<1>2. /\ r \in Int /\ Rpm * (r - 1) < Minute - Refilled
      /\ \A v \in Int : v >= r => Rpm * v >= Minute - Refilled
  BY <1>1, Limits, Rounded
<1>3. /\ t \in Int /\ Tpm * (t - 1) < e * Minute - TokensRefilled
      /\ \A v \in Int : v >= t => Tpm * v >= e * Minute - TokensRefilled
  BY <1>1, Limits, Rounded
<1>4. w = Max({0, r, t, b}) /\ b \in Int /\ b = blocked_until - now
  BY <1>1 DEF Wait
<1>. HIDE DEF r, t, w, b
<1>5. /\ w \in Int /\ w >= 0 /\ w >= r /\ w >= t /\ w >= b /\ w \in {0, r, t, b}
  <2>1. 0 \in Int /\ r \in Int /\ t \in Int /\ b \in Int
    BY <1>2, <1>3, <1>4
  <2>. DEFINE m == Max({0, r, t, b})
  <2>2. m \in Int /\ m \in {0, r, t, b} /\ m >= 0 /\ m >= r /\ m >= t /\ m >= b
    BY <2>1, GreatestOfFour, Zenon
  <2>. QED
    BY <1>4, <2>2
<1>6. w \in Nat /\ Rpm * w >= Minute - Refilled /\ Tpm * w >= e * Minute - TokensRefilled
      /\ now + w >= blocked_until
  BY <1>1, <1>2, <1>3, <1>4, <1>5
<1>7. \/ w = 0 \/ Rpm * (w - 1) < Minute - Refilled
      \/ Tpm * (w - 1) < e * Minute - TokensRefilled \/ now + w = blocked_until
  BY <1>1, <1>2, <1>3, <1>4, <1>5
<1>. QED
  BY <1>6, <1>7 DEF w

\* The day a section stamps is the day the counters are read for.
LEMMA Stamped ==
  ASSUME TypeOK, Stamp, now' = now
  PROVE  /\ Today' = Today /\ RequestsToday' = requests_today' /\ TokensToday' = tokens_today'
         /\ updated' \in 0..now' /\ day' \in 0..Today'
  BY Refresh DEF Stamp, Today, RequestsToday, TokensToday, TypeOK

-----------------------------------------------------------------------------
(* The calls in flight. *)

LEMMA FlyingIsBounded ==
  IsFiniteSet(InFlight) /\ Flying \in Nat /\ N \in Nat /\ Flying <= N
  BY ThreadsAssumption, FS_Subset, FS_CardinalityType DEF InFlight, Flying, N

LEMMA Departs ==
  ASSUME TypeOK, NEW t \in Threads, pc[t] = "idle", NEW at \in {"sleeping", "sending"},
         pc' = [pc EXCEPT ![t] = at]
  PROVE  InFlight' = InFlight \cup {t} /\ Flying' = Flying + 1 /\ Flying' <= N
<1>1. InFlight' = InFlight \cup {t} /\ t \notin InFlight
  BY DEF InFlight, TypeOK
<1>2. Cardinality(InFlight \cup {t}) = Cardinality(InFlight) + 1
  BY <1>1, FlyingIsBounded, FS_AddElement
<1>3. InFlight \cup {t} \in SUBSET Threads
  BY DEF InFlight
<1>4. Cardinality(InFlight \cup {t}) <= Cardinality(Threads)
  BY <1>3, ThreadsAssumption, FS_Subset
<1>. QED
  BY <1>1, <1>2, <1>4 DEF Flying, N

LEMMA Lands ==
  ASSUME TypeOK, NEW t \in Threads, Finish(t)
  PROVE  t \in InFlight /\ InFlight' = InFlight \ {t} /\ Flying' = Flying - 1 /\ Flying >= 1
<1>1. t \in InFlight /\ InFlight' = InFlight \ {t}
  BY DEF InFlight, Finish, TypeOK
<1>2. Cardinality(InFlight \ {t}) = Cardinality(InFlight) - 1 /\ IsFiniteSet(InFlight \ {t})
  BY <1>1, FlyingIsBounded, FS_RemoveElement
<1>3. Cardinality(InFlight \ {t}) \in Nat
  BY <1>2, FS_CardinalityType
<1>. QED
  BY <1>1, <1>2, <1>3, FlyingIsBounded DEF Flying

LEMMA StaysInFlight ==
  ASSUME TypeOK, NEW t \in Threads, Send(t)
  PROVE  InFlight' = InFlight /\ Flying' = Flying
  BY DEF InFlight, Flying, Send, TypeOK

-----------------------------------------------------------------------------
(* What the actions do to the counters. *)

LEMMA Reserved ==
  ASSUME TypeOK, NEW t \in Threads, Acquire(t)
  PROVE  \E e \in Estimates :
           /\ e \in Nat /\ FitsDay(e)
           /\ Wait(e) \in Nat /\ Wait(e) <= MaxWait /\ now + Wait(e) <= Horizon
           /\ pc[t] = "idle" /\ Stamp /\ now' = now
           /\ request_level' = Refilled - Minute
           /\ token_level' \in Int /\ token_level' = TokensRefilled - e * Minute
           /\ requests_today' = RequestsToday + 1 /\ tokens_today' = TokensToday + e
           /\ pc' = [pc EXCEPT ![t] = IF Wait(e) > 0 THEN "sleeping" ELSE "sending"]
           /\ est' = [est EXCEPT ![t] = e] /\ born' = [born EXCEPT ![t] = Today]
           /\ until' = [until EXCEPT ![t] = IF Wait(e) > 0 THEN now + Wait(e) ELSE 0]
           /\ Schedule(now + Wait(e))
           /\ queue' = (IF Wait(e) > 0 THEN queue \cup {t} ELSE queue)
           /\ granted' = granted + 1 /\ spent' = spent + e
           /\ blocked_until' = blocked_until /\ asked' = asked /\ crossed' = crossed
<1>1. PICK e \in Estimates :
        /\ FitsDay(e) /\ Wait(e) <= MaxWait /\ now + Wait(e) <= Horizon
        /\ Reserve(e) /\ Stamp
        /\ requests_today' = RequestsToday + 1 /\ tokens_today' = TokensToday + e
        /\ pc' = [pc EXCEPT ![t] = IF Wait(e) > 0 THEN "sleeping" ELSE "sending"]
        /\ est' = [est EXCEPT ![t] = e] /\ born' = [born EXCEPT ![t] = Today]
        /\ until' = [until EXCEPT ![t] = IF Wait(e) > 0 THEN now + Wait(e) ELSE 0]
        /\ Schedule(now + Wait(e))
        /\ queue' = (IF Wait(e) > 0 THEN queue \cup {t} ELSE queue)
        /\ granted' = granted + 1 /\ spent' = spent + e
  BY Zenon DEF Acquire
<1>2. /\ pc[t] = "idle" /\ now' = now /\ blocked_until' = blocked_until /\ asked' = asked
      /\ crossed' = crossed
  BY DEF Acquire
<1>3. e \in Nat /\ Wait(e) \in Nat
  BY TokensAssumption, WaitIsNeeded
<1>4. /\ request_level' = Refilled - Minute /\ token_level' = TokensRefilled - e * Minute
  BY <1>1 DEF Reserve
<1>5. token_level' \in Int
  <2>1. e * Minute \in Int
    BY <1>3, Limits, Products
  <2>. QED
    BY <1>4, <2>1, Refresh
<1>. QED
  BY <1>1, <1>2, <1>3, <1>4, <1>5

LEMMA Reported ==
  ASSUME TypeOK, NEW t \in Threads, Record(t)
  PROVE  \E actual \in Actuals :
           /\ actual \in Nat /\ est[t] \in Nat
           /\ tokens_today' = TokensToday + actual - est[t]
           /\ requests_today' \in Nat /\ requests_today' >= RequestsToday
           /\ token_level' \in Int
           /\ token_level' <= TokensRefilled + (est[t] - actual) * Minute
           /\ \/ token_level' = TokensRefilled + (est[t] - actual) * Minute
              \/ token_level' >= -(Minute * ReserveTokens)
           /\ queue' = (IF actual < est[t] THEN {} ELSE queue)
           /\ spent' = (IF born[t] < Today THEN spent ELSE spent + actual - est[t])
<1>1. PICK actual \in Actuals, remaining \in RemainingTokens, used \in UsedRequests :
        /\ token_level' = IF remaining = None THEN TokensRefilled + (est[t] - actual) * Minute
                          ELSE Min({TokensRefilled + (est[t] - actual) * Minute,
                                    (remaining - ReserveTokens) * Minute})
        /\ CorrectDay(est[t], actual)
        /\ RaiseCount(used)
        /\ queue' = (IF actual < est[t] THEN {} ELSE queue)
        /\ spent' = (IF born[t] < Today THEN spent ELSE spent + actual - est[t])
  BY Zenon DEF Record
<1>2. actual \in Nat /\ est[t] \in Nat
  <2>1. actual \in Nat
    BY TokensAssumption
  <2>2. est[t] \in Estimates \cup {0}
    BY DEF TypeOK
  <2>3. \A x \in Estimates \cup {0} : x \in Nat
    BY TokensAssumption
  <2>. QED
    BY <2>1, <2>2, <2>3, Zenon
<1>3. tokens_today' = TokensToday + actual - est[t]
  BY <1>1 DEF CorrectDay
<1>4. requests_today' \in Nat /\ requests_today' >= RequestsToday
  <2>1. RequestsToday \in Nat
    BY Refresh
  <2>2. CASE used = None
    BY <1>1, <2>1, <2>2 DEF RaiseCount
  <2>3. CASE used # None
    <3>1. used \in Nat
      BY <2>3, HeadersAssumption
    <3>2. requests_today' = Max({RequestsToday, used})
      BY <1>1, <2>3 DEF RaiseCount
    <3>3. /\ Max({RequestsToday, used}) \in Int /\ Max({RequestsToday, used}) >= RequestsToday
      <4>1. RequestsToday \in Int /\ used \in Int
        BY <2>1, <3>1
      <4>. QED
        BY <4>1, Greater, Zenon
    <3>. QED
      BY <2>1, <3>2, <3>3
  <2>. QED
    BY <2>2, <2>3
<1>. DEFINE corrected == TokensRefilled + (est[t] - actual) * Minute
            reported == (remaining - ReserveTokens) * Minute
<1>5. corrected \in Int
  <2>1. (est[t] - actual) * Minute \in Int
    BY <1>2, Limits
  <2>. QED
    BY <2>1, Refresh
<1>6. ASSUME remaining # None PROVE reported \in Int /\ reported >= -(Minute * ReserveTokens)
  <2>1. remaining \in Nat
    BY <1>6, HeadersAssumption
  <2>2. (remaining - ReserveTokens) * Minute = Minute * (remaining - ReserveTokens)
    BY <2>1, Limits, Products
  <2>3. Minute * (remaining - ReserveTokens) = Minute * remaining - Minute * ReserveTokens
    BY <2>1, Limits, Products
  <2>4. Minute * remaining \in Int /\ Minute * remaining >= 0 /\ Minute * ReserveTokens \in Int
    BY <2>1, Limits, Products
  <2>. QED
    BY <2>2, <2>3, <2>4
<1>7. token_level' = IF remaining = None THEN corrected ELSE Min({corrected, reported})
  BY <1>1
<1>8. /\ token_level' \in Int /\ token_level' <= corrected
      /\ token_level' = corrected \/ token_level' >= -(Minute * ReserveTokens)
  <2>. HIDE DEF corrected, reported
  <2>1. CASE remaining = None
    BY <1>5, <1>7, <2>1
  <2>2. CASE remaining # None
    <3>. DEFINE m == Min({corrected, reported})
    <3>1. m \in Int /\ m <= corrected /\ (m = corrected \/ m = reported)
      BY <1>5, <1>6, <2>2, Lesser
    <3>. QED
      BY <1>6, <1>7, <2>2, <3>1
  <2>. QED
    BY <2>1, <2>2
<1>. QED
  BY <1>1, <1>2, <1>3, <1>4, <1>8

LEMMA Blocked ==
  ASSUME TypeOK, NEW t \in Threads, OnRateLimited(t)
  PROVE  /\ \E retry_after \in RetryAfters :
              /\ BlockUntil(retry_after)
              /\ asked' = (IF retry_after = None THEN asked ELSE Max({asked, now + retry_after}))
         /\ blocked_until' \in Nat /\ blocked_until' >= blocked_until
         /\ Asked => Asked'
         /\ token_level' \in Int /\ token_level' <= TokensRefilled
         /\ token_level' = TokensRefilled \/ token_level' = 0
<1>1. PICK retry_after \in RetryAfters :
        /\ BlockUntil(retry_after)
        /\ asked' = (IF retry_after = None THEN asked ELSE Max({asked, now + retry_after}))
  BY DEF OnRateLimited
<1>2. blocked_until' \in Nat /\ blocked_until' >= blocked_until
  <2>1. CASE retry_after = None
    BY <1>1, <2>1 DEF BlockUntil, TypeOK
  <2>2. CASE retry_after # None
    <3>1. now + retry_after \in Int /\ blocked_until \in Nat
      BY <2>2, HeadersAssumption, Limits DEF TypeOK
    <3>2. blocked_until' = Max({blocked_until, now + retry_after})
      BY <1>1, <2>2 DEF BlockUntil
    <3>. DEFINE b == now + retry_after
    <3>. HIDE DEF b
    <3>3. Max({blocked_until, b}) \in Int /\ Max({blocked_until, b}) >= blocked_until
      <4>1. blocked_until \in Int /\ b \in Int
        BY <3>1 DEF b
      <4>. QED
        BY <4>1, Greater, Zenon
    <3>. QED
      BY <3>1, <3>2, <3>3 DEF b
  <2>. QED
    BY <2>1, <2>2
<1>3. Asked => Asked'
  BY <1>1 DEF Asked, BlockUntil
<1>4. /\ token_level' \in Int /\ token_level' <= TokensRefilled
      /\ token_level' = TokensRefilled \/ token_level' = 0
  <2>1. token_level' = Min({TokensRefilled, 0})
    BY DEF OnRateLimited
  <2>2. TokensRefilled \in Int
    BY Refresh
  <2>. DEFINE m == Min({TokensRefilled, 0})
  <2>3. m \in Int /\ m <= TokensRefilled /\ (m = TokensRefilled \/ m = 0)
    <3>1. 0 \in Int
      OBVIOUS
    <3>. QED
      BY <2>2, <3>1, Lesser, Zenon
  <2>. QED
    BY <2>1, <2>3
<1>. QED
  BY <1>1, <1>2, <1>3, <1>4

-----------------------------------------------------------------------------
(* The invariant is inductive: types. *)

\* What the steps that refresh and leave the counters alone do to the types.
LEMMA StateTypes ==
  ASSUME TypeOK, Stamp, now' = now,
         request_level' \in Int, request_level' <= Rpm * Minute, token_level' \in Int,
         requests_today' \in Nat, tokens_today' \in Int, blocked_until' \in Nat
  PROVE  /\ now' \in 0..Horizon /\ updated' \in 0..now' /\ day' \in 0..Today' /\ Today' = Today
         /\ request_level' \in Int /\ request_level' <= Rpm * Minute /\ token_level' \in Int
         /\ requests_today' \in Nat /\ tokens_today' \in Int /\ blocked_until' \in Nat
  BY Stamped DEF TypeOK

LEMMA CallersLand ==
  ASSUME TypeOK, NEW t \in Threads, Finish(t), now' = now
  PROVE  /\ pc' \in [Threads -> {"idle", "sleeping", "sending"}]
         /\ est' \in [Threads -> Estimates \cup {0}] /\ born' \in [Threads -> 0..Today']
         /\ until' \in [Threads -> 0..Horizon]
<1>1. Today' = Today /\ 0 \in 0..Today
  BY Refresh DEF Today
<1>2. /\ pc' = [pc EXCEPT ![t] = "idle"] /\ est' = [est EXCEPT ![t] = 0]
      /\ born' = [born EXCEPT ![t] = 0] /\ until' = until
  BY DEF Finish
<1>. QED
  BY <1>1, <1>2 DEF TypeOK

LEMMA AcquireTypes ==
  ASSUME TypeOK, NEW t \in Threads, Acquire(t)
  PROVE  TypeOK'
<1>1. PICK e \in Estimates :
        /\ e \in Nat /\ Wait(e) \in Nat /\ now + Wait(e) <= Horizon
        /\ Stamp /\ now' = now /\ request_level' = Refilled - Minute /\ token_level' \in Int
        /\ requests_today' = RequestsToday + 1 /\ tokens_today' = TokensToday + e
        /\ pc' = [pc EXCEPT ![t] = IF Wait(e) > 0 THEN "sleeping" ELSE "sending"]
        /\ est' = [est EXCEPT ![t] = e] /\ born' = [born EXCEPT ![t] = Today]
        /\ until' = [until EXCEPT ![t] = IF Wait(e) > 0 THEN now + Wait(e) ELSE 0]
        /\ Schedule(now + Wait(e))
        /\ queue' = (IF Wait(e) > 0 THEN queue \cup {t} ELSE queue)
        /\ granted' = granted + 1 /\ spent' = spent + e
        /\ blocked_until' = blocked_until /\ asked' = asked /\ crossed' = crossed
  BY Reserved, Zenon
<1>. DEFINE at == now + Wait(e)
<1>2. at \in 0..Horizon /\ 0 \in 0..Horizon /\ Today \in 0..Today /\ at = now + Wait(e)
  <2>1. now \in Nat
    BY Limits DEF TypeOK
  <2>2. at \in Nat /\ at <= Horizon
    BY <1>1, <2>1
  <2>3. 0 \in 0..Horizon /\ \A x \in Nat : x <= Horizon => x \in 0..Horizon
    BY Limits
  <2>4. Today \in 0..Today
    BY Refresh
  <2>. QED
    BY <2>2, <2>3, <2>4
<1>3. /\ request_level' \in Int /\ request_level' <= Rpm * Minute
      /\ requests_today' \in Nat /\ tokens_today' \in Int /\ blocked_until' \in Nat
  <2>1. Rpm * Minute \in Int
    BY Limits, Products
  <2>. DEFINE full == Rpm * Minute
  <2>2. /\ full \in Int /\ Refilled \in Int /\ Refilled <= full /\ Minute \in Nat
        /\ RequestsToday \in Nat /\ TokensToday \in Int
    BY <2>1, Refresh, Limits
  <2>. HIDE DEF full
  <2>3. request_level' \in Int /\ request_level' <= full
    BY <1>1, <2>2
  <2>4. requests_today' \in Nat /\ tokens_today' \in Int
    BY <1>1, <2>2
  <2>5. blocked_until' \in Nat
    BY <1>1 DEF TypeOK
  <2>. QED
    BY <2>3, <2>4, <2>5 DEF full
<1>4. /\ now' \in 0..Horizon /\ updated' \in 0..now' /\ day' \in 0..Today' /\ Today' = Today
  BY <1>1, <1>3, StateTypes
<1>5. /\ pc' \in [Threads -> {"idle", "sleeping", "sending"}]
      /\ est' \in [Threads -> Estimates \cup {0}]
      /\ born' \in [Threads -> 0..Today'] /\ queue' \in SUBSET Threads
  BY <1>1, <1>2, <1>4 DEF TypeOK
<1>6. until' \in [Threads -> 0..Horizon]
  <2>. HIDE DEF at
  <2>. QED
    BY <1>1, <1>2 DEF TypeOK
<1>7. scheduled' \in [0..Horizon -> Nat]
  BY <1>1 DEF TypeOK, Schedule
<1>8. asked' \in Nat /\ granted' \in Nat /\ spent' \in Int /\ crossed' \in BOOLEAN
  BY <1>1 DEF TypeOK
<1>. QED
  BY <1>1, <1>3, <1>4, <1>5, <1>6, <1>7, <1>8 DEF TypeOK

LEMMA RefuseTypes ==
  ASSUME TypeOK, NEW t \in Threads, Refuse(t)
  PROVE  TypeOK'
<1>1. /\ Stamp /\ now' = now /\ request_level' = Refilled /\ token_level' = TokensRefilled
      /\ requests_today' = RequestsToday /\ tokens_today' = TokensToday
      /\ blocked_until' = blocked_until /\ pc' = pc /\ est' = est /\ born' = born /\ until' = until
      /\ scheduled' = scheduled /\ queue' = queue /\ asked' = asked /\ granted' = granted
      /\ spent' = spent /\ crossed' = crossed
  BY DEF Refuse, callers, daily
<1>2. /\ now' \in 0..Horizon /\ updated' \in 0..now' /\ day' \in 0..Today' /\ Today' = Today
      /\ request_level' \in Int /\ request_level' <= Rpm * Minute /\ token_level' \in Int
      /\ requests_today' \in Nat /\ tokens_today' \in Int /\ blocked_until' \in Nat
  <2>1. /\ request_level' \in Int /\ request_level' <= Rpm * Minute /\ token_level' \in Int
        /\ requests_today' \in Nat /\ tokens_today' \in Int /\ blocked_until' \in Nat
    BY <1>1, Refresh DEF TypeOK
  <2>. QED
    BY <1>1, <2>1, StateTypes
<1>. QED
  BY <1>1, <1>2 DEF TypeOK

LEMMA RecordTypes ==
  ASSUME TypeOK, NEW t \in Threads, Record(t)
  PROVE  TypeOK'
<1>1. /\ Finish(t) /\ Stamp /\ now' = now /\ request_level' = Refilled
      /\ crossed' = (crossed \/ born[t] < Today)
      /\ blocked_until' = blocked_until /\ scheduled' = scheduled /\ asked' = asked /\ granted' = granted
  BY DEF Record
<1>2. PICK actual \in Actuals :
        /\ actual \in Nat /\ est[t] \in Nat /\ tokens_today' = TokensToday + actual - est[t]
        /\ requests_today' \in Nat /\ token_level' \in Int
        /\ queue' = (IF actual < est[t] THEN {} ELSE queue)
        /\ spent' = (IF born[t] < Today THEN spent ELSE spent + actual - est[t])
  BY Reported, Zenon
<1>3. request_level' \in Int /\ request_level' <= Rpm * Minute /\ tokens_today' \in Int
      /\ blocked_until' \in Nat
  <2>1. request_level' \in Int /\ request_level' <= Rpm * Minute
    BY <1>1, Refresh
  <2>2. TokensToday \in Int
    BY Refresh
  <2>3. tokens_today' \in Int
    BY <1>2, <2>2
  <2>4. blocked_until' \in Nat
    BY <1>1 DEF TypeOK
  <2>. QED
    BY <2>1, <2>3, <2>4
<1>4. /\ now' \in 0..Horizon /\ updated' \in 0..now' /\ day' \in 0..Today' /\ Today' = Today
  BY <1>1, <1>2, <1>3, StateTypes
<1>5. /\ pc' \in [Threads -> {"idle", "sleeping", "sending"}]
      /\ est' \in [Threads -> Estimates \cup {0}] /\ born' \in [Threads -> 0..Today']
      /\ until' \in [Threads -> 0..Horizon]
  BY <1>1, CallersLand
<1>6. queue' \in SUBSET Threads /\ spent' \in Int /\ crossed' \in BOOLEAN
  <2>1. spent' \in Int /\ queue' \in SUBSET Threads
    BY <1>2 DEF TypeOK
  <2>2. crossed' \in BOOLEAN
    BY <1>1
  <2>. QED
    BY <2>1, <2>2
<1>. QED
  BY <1>1, <1>2, <1>3, <1>4, <1>5, <1>6 DEF TypeOK

LEMMA RateLimitedTypes ==
  ASSUME TypeOK, NEW t \in Threads, OnRateLimited(t)
  PROVE  TypeOK'
<1>1. /\ Finish(t) /\ Stamp /\ now' = now /\ request_level' = Refilled
      /\ requests_today' = RequestsToday /\ tokens_today' = TokensToday
      /\ scheduled' = scheduled /\ queue' = queue /\ granted' = granted /\ spent' = spent
      /\ crossed' = crossed
  BY DEF OnRateLimited, daily
<1>2. blocked_until' \in Nat /\ token_level' \in Int
  BY Blocked
<1>3. request_level' \in Int /\ request_level' <= Rpm * Minute /\ tokens_today' \in Int
      /\ requests_today' \in Nat
  BY <1>1, Refresh
<1>4. /\ now' \in 0..Horizon /\ updated' \in 0..now' /\ day' \in 0..Today' /\ Today' = Today
  BY <1>1, <1>2, <1>3, StateTypes
<1>5. /\ pc' \in [Threads -> {"idle", "sleeping", "sending"}]
      /\ est' \in [Threads -> Estimates \cup {0}] /\ born' \in [Threads -> 0..Today']
      /\ until' \in [Threads -> 0..Horizon]
  BY <1>1, CallersLand
<1>6. asked' \in Nat
  <2>1. PICK retry_after \in RetryAfters :
          asked' = (IF retry_after = None THEN asked ELSE Max({asked, now + retry_after}))
    BY Blocked
  <2>2. CASE retry_after = None
    BY <2>1, <2>2 DEF TypeOK
  <2>3. CASE retry_after # None
    <3>. DEFINE b == now + retry_after
    <3>1. asked \in Int /\ b \in Int /\ asked \in Nat
      BY <2>3, HeadersAssumption, Limits DEF TypeOK
    <3>2. asked' = Max({asked, b})
      BY <2>1, <2>3
    <3>. HIDE DEF b
    <3>3. Max({asked, b}) \in Int /\ Max({asked, b}) >= asked
      BY <3>1, Greater, Zenon
    <3>. QED
      BY <3>1, <3>2, <3>3
  <2>. QED
    BY <2>2, <2>3
<1>. QED
  BY <1>1, <1>2, <1>3, <1>4, <1>5, <1>6 DEF TypeOK

LEMMA TickTypes ==
  ASSUME TypeOK, Tick
  PROVE  /\ TypeOK' /\ now' = now + 1 /\ now \in Nat
         /\ \/ Today' = Today /\ granted' = granted /\ spent' = spent /\ crossed' = crossed
            \/ Today' = Today + 1 /\ granted' = 0 /\ spent' = 0 /\ crossed' = FALSE
<1>1. /\ now < Horizon /\ now' = now + 1
      /\ IF (now + 1) % DayLength = 0
         THEN granted' = 0 /\ spent' = 0 /\ crossed' = FALSE
         ELSE granted' = granted /\ spent' = spent /\ crossed' = crossed
      /\ request_level' = request_level /\ token_level' = token_level /\ updated' = updated
      /\ day' = day /\ requests_today' = requests_today /\ tokens_today' = tokens_today
      /\ blocked_until' = blocked_until /\ pc' = pc /\ est' = est /\ born' = born
      /\ until' = until /\ scheduled' = scheduled /\ queue' = queue /\ asked' = asked
  BY DEF Tick, state, callers, daily
<1>2. now \in Nat /\ Today \in Nat
  BY Limits, Refresh DEF TypeOK
<1>3. /\ Today' = Today \/ Today' = Today + 1
      /\ (now + 1) % DayLength # 0 => Today' = Today
      /\ (now + 1) % DayLength = 0 => Today' = Today + 1
  BY <1>1, <1>2, Limits, DayOf DEF Today
<1>4. /\ now' \in 0..Horizon /\ updated' \in 0..now' /\ day' \in 0..Today'
      /\ granted' \in Nat /\ spent' \in Int /\ crossed' \in BOOLEAN
  <2>1. now' \in 0..Horizon /\ updated' \in 0..now' /\ day' \in 0..Today'
    BY <1>1, <1>2, <1>3, Limits DEF TypeOK
  <2>2. granted' \in Nat /\ spent' \in Int
    BY <1>1 DEF TypeOK
  <2>3. crossed' \in BOOLEAN
    BY <1>1 DEF TypeOK
  <2>. QED
    BY <2>1, <2>2, <2>3
<1>5. born' \in [Threads -> 0..Today']
  <2>1. \A n \in 0..Today : n \in 0..Today'
    BY <1>2, <1>3
  <2>. QED
    BY <1>1, <2>1 DEF TypeOK
<1>6. TypeOK'
  BY <1>1, <1>4, <1>5 DEF TypeOK
<1>. QED
  BY <1>1, <1>2, <1>3, <1>6

LEMMA SendTypes ==
  ASSUME TypeOK, NEW t \in Threads, Send(t)
  PROVE  /\ TypeOK' /\ now' = now /\ state' = state /\ Today' = Today
         /\ asked' = asked /\ daily' = daily /\ est' = est /\ born' = born
         /\ queue' = queue \ {t} /\ until' = [until EXCEPT ![t] = 0]
<1>1. /\ now' = now /\ request_level' = request_level /\ token_level' = token_level
      /\ updated' = updated /\ day' = day /\ requests_today' = requests_today
      /\ tokens_today' = tokens_today /\ blocked_until' = blocked_until
      /\ pc' = [pc EXCEPT ![t] = "sending"] /\ est' = est /\ born' = born
      /\ until' = [until EXCEPT ![t] = 0] /\ scheduled' = scheduled /\ queue' = queue \ {t}
      /\ asked' = asked /\ granted' = granted /\ spent' = spent /\ crossed' = crossed
  BY DEF Send, state, daily
<1>2. Today' = Today /\ 0 \in 0..Horizon
  BY <1>1, Limits DEF Today
<1>. QED
  BY <1>1, <1>2 DEF TypeOK, state, daily

LEMMA FailTypes ==
  ASSUME TypeOK, NEW t \in Threads, Fail(t)
  PROVE  /\ TypeOK' /\ now' = now /\ state' = state /\ Today' = Today
         /\ asked' = asked /\ daily' = daily /\ queue' = queue /\ until' = until
<1>1. /\ Finish(t) /\ now' = now /\ request_level' = request_level
      /\ token_level' = token_level
      /\ updated' = updated /\ day' = day /\ requests_today' = requests_today
      /\ tokens_today' = tokens_today /\ blocked_until' = blocked_until
      /\ until' = until /\ scheduled' = scheduled /\ queue' = queue
      /\ asked' = asked /\ granted' = granted /\ spent' = spent /\ crossed' = crossed
  BY DEF Fail, Finish, state, daily
<1>2. Today' = Today
  BY <1>1 DEF Today
<1>3. /\ pc' \in [Threads -> {"idle", "sleeping", "sending"}]
      /\ est' \in [Threads -> Estimates \cup {0}] /\ born' \in [Threads -> 0..Today']
      /\ until' \in [Threads -> 0..Horizon]
  BY <1>1, CallersLand
<1>. QED
  BY <1>1, <1>2, <1>3 DEF TypeOK, state, daily

-----------------------------------------------------------------------------
(* The invariant is inductive: its other parts. *)

\* What k calls in flight may cost beyond their estimates, in tokens and in units of the level.
LEMMA Rooms ==
  ASSUME NEW k \in Nat
  PROVE  /\ k * Overshoot \in Nat /\ (k + 1) * Overshoot = k * Overshoot + Overshoot
         /\ Minute * (Overshoot * k) \in Nat /\ Minute * Overshoot \in Nat
         /\ Minute * (Overshoot * (k + 1)) = Minute * (Overshoot * k) + Minute * Overshoot
<1>1. Overshoot \in Nat /\ Minute \in Nat
  BY OvershootBounds, Limits
<1>2. \A o \in Nat : /\ k * o \in Nat /\ (k + 1) * o = k * o + o
                     /\ o * k \in Nat /\ o * (k + 1) = o * k + o
  OBVIOUS
<1>3. \A m, a, b \in Nat : m * a \in Nat /\ m * (a + b) = m * a + m * b
  OBVIOUS
<1>4. /\ k * Overshoot \in Nat /\ (k + 1) * Overshoot = k * Overshoot + Overshoot
      /\ Overshoot * k \in Nat /\ Overshoot * (k + 1) = Overshoot * k + Overshoot
  BY <1>1, <1>2
<1>5. /\ Minute * (Overshoot * k) \in Nat /\ Minute * Overshoot \in Nat
      /\ Minute * (Overshoot * k + Overshoot) = Minute * (Overshoot * k) + Minute * Overshoot
  BY <1>1, <1>3, <1>4
<1>. QED
  BY <1>4, <1>5

\* Both products grow with the number of calls.
LEMMA RoomsGrow ==
  ASSUME NEW k \in Nat, NEW m \in Nat, k <= m
  PROVE  k * Overshoot <= m * Overshoot
<1>1. \A o \in Nat : k * o <= m * o
  OBVIOUS
<1>. QED
  BY <1>1, OvershootBounds

\* The floor of the debt that is no call's in flight.
LEMMA Floor == MaxWait * Tpm \in Nat /\ Minute * ReserveTokens \in Nat
<1>1. \A a, b \in Nat : a * b \in Nat
  OBVIOUS
<1>. QED
  BY <1>1, Limits

\* A section that adds nothing to a level keeps every sleeper's reason.
LEMMA DueAfterRefresh ==
  ASSUME TypeOK, NEW u \in Nat, Due(u), Stamp, now' = now,
         request_level' \in Int, request_level' <= Refilled,
         token_level' \in Int, token_level' <= TokensRefilled,
         blocked_until' \in Nat, blocked_until' >= blocked_until
  PROVE  \/ u <= now'
         \/ Rpm * (u - updated' - 1) < -request_level'
         \/ Tpm * (u - updated' - 1) < -token_level'
         \/ u <= blocked_until'
<1>. DEFINE p == now - updated
            q == u - updated - 1
<1>1. /\ now \in Nat /\ updated \in Nat /\ request_level \in Int /\ token_level \in Int
      /\ blocked_until \in Nat /\ updated' = now /\ p \in Int /\ q \in Int
      /\ u - updated' - 1 = q - p
  BY Limits DEF TypeOK, Stamp
<1>2. /\ Refilled \in Int /\ Refilled <= request_level + Rpm * p
      /\ TokensRefilled \in Int /\ TokensRefilled <= token_level + Tpm * p
  BY Refresh
<1>3. Due(u) => \/ u <= now \/ Rpm * q < -request_level \/ Tpm * q < -token_level
                \/ u <= blocked_until
  BY DEF Due
<1>. HIDE DEF p, q
<1>4. /\ Rpm * (q - p) = Rpm * q - Rpm * p /\ Rpm * q \in Int /\ Rpm * p \in Int
      /\ Tpm * (q - p) = Tpm * q - Tpm * p /\ Tpm * q \in Int /\ Tpm * p \in Int
  BY <1>1, Limits, Products
<1>5. CASE u <= now
  BY <1>5
<1>6. CASE Rpm * q < -request_level
  <2>1. Rpm * q - Rpm * p < -request_level'
    BY <1>1, <1>2, <1>4, <1>6
  <2>. QED
    BY <1>1, <1>4, <2>1
<1>7. CASE Tpm * q < -token_level
  <2>1. Tpm * q - Tpm * p < -token_level'
    BY <1>1, <1>2, <1>4, <1>7
  <2>. QED
    BY <1>1, <1>4, <2>1
<1>8. CASE u <= blocked_until
  BY <1>1, <1>8
<1>. QED
  BY <1>3, <1>5, <1>6, <1>7, <1>8

\* So it keeps the queue's, when it lets nobody in.
LEMMA QueuedAfterRefresh ==
  ASSUME TypeOK, Queued, Stamp, now' = now,
         request_level' \in Int, request_level' <= Refilled,
         token_level' \in Int, token_level' <= TokensRefilled,
         blocked_until' \in Nat, blocked_until' >= blocked_until,
         queue' \in SUBSET queue, until' = until
  PROVE  Queued'
<1>. SUFFICES ASSUME NEW p \in queue'
              PROVE  \/ until[p] <= now'
                     \/ Rpm * (until[p] - updated' - 1) < -request_level'
                     \/ Tpm * (until[p] - updated' - 1) < -token_level'
                     \/ until[p] <= blocked_until'
  BY DEF Queued, Due
<1>1. until[p] \in Nat /\ Due(until[p])
  BY Limits DEF Queued, TypeOK
<1>. QED
  BY <1>1, DueAfterRefresh, Zenon

LEMMA LevelsUnchanged ==
  ASSUME TypeOK, Queued, state' = state, now' = now,
         queue' \in SUBSET queue, \A p \in queue' : until'[p] = until[p]
  PROVE  Queued'
  BY DEF Queued, Due, state

LEMMA AcquireKeeps ==
  ASSUME IInv, NEW t \in Threads, Acquire(t)
  PROVE  Charged' /\ Asked' /\ DayCount' /\ DayCost'
<1>. USE DEF IInv
<1>1. PICK e \in Estimates :
        /\ e \in Nat /\ FitsDay(e) /\ Wait(e) \in Nat /\ pc[t] = "idle" /\ Stamp /\ now' = now
        /\ requests_today' = RequestsToday + 1 /\ tokens_today' = TokensToday + e
        /\ pc' = [pc EXCEPT ![t] = IF Wait(e) > 0 THEN "sleeping" ELSE "sending"]
        /\ est' = [est EXCEPT ![t] = e]
        /\ granted' = granted + 1 /\ spent' = spent + e
        /\ blocked_until' = blocked_until /\ asked' = asked /\ crossed' = crossed
  BY Reserved, Zenon
<1>. DEFINE at == IF Wait(e) > 0 THEN "sleeping" ELSE "sending"
<1>2. InFlight' = InFlight \cup {t} /\ Flying' = Flying + 1 /\ Flying' <= N
  <2>1. at \in {"sleeping", "sending"} /\ pc' = [pc EXCEPT ![t] = at]
    BY <1>1
  <2>. HIDE DEF at
  <2>. QED
    BY <1>1, <2>1, Departs
<1>3. Today' = Today /\ RequestsToday' = requests_today' /\ TokensToday' = tokens_today'
  BY <1>1, Stamped
<1>4. RequestsToday \in Nat /\ TokensToday \in Int /\ granted \in Nat /\ spent \in Int
  BY Refresh DEF TypeOK
<1>5. Charged'
  <2>1. \A p \in InFlight : p \in Threads
    BY DEF InFlight
  <2>. QED
    BY <1>1, <1>2, <2>1 DEF Charged, TypeOK
<1>6. Asked'
  BY <1>1 DEF Asked
<1>7. DayCount'
  BY <1>1, <1>3, <1>4, Limits DEF DayCount, FitsDay
<1>8. DayCost'
  <2>. SUFFICES ASSUME ~crossed'
                PROVE  spent' = TokensToday' /\ spent' + Flying' * Overshoot <= Tpd + N * Overshoot
    BY DEF DayCost, N
  <2>1. spent' = TokensToday'
    BY <1>1, <1>3, <1>4 DEF DayCost
  <2>2. spent' <= Tpd
    BY <1>1, <1>3, <2>1 DEF FitsDay
  <2>3. Flying' \in Nat /\ N \in Nat
    BY <1>2, FlyingIsBounded
  <2>4. Flying' * Overshoot <= N * Overshoot
    BY <1>2, <2>3, RoomsGrow
  <2>5. Flying' * Overshoot \in Nat /\ N * Overshoot \in Nat /\ Tpd \in Nat /\ spent' \in Int
    BY <1>1, <1>4, <2>3, Rooms, Limits
  <2>. QED
    BY <2>1, <2>2, <2>4, <2>5
<1>. QED
  BY <1>5, <1>6, <1>7, <1>8

\* The wait bounds the debt a reservation leaves, and it is the reason to sleep until its end.
LEMMA AcquireOwes ==
  ASSUME IInv, NEW t \in Threads, Acquire(t)
  PROVE  Debt' /\ Queued'
<1>. USE DEF IInv
<1>1. PICK e \in Estimates :
        /\ e \in Nat /\ Wait(e) \in Nat /\ Wait(e) <= MaxWait /\ pc[t] = "idle"
        /\ Stamp /\ now' = now /\ request_level' = Refilled - Minute
        /\ token_level' \in Int /\ token_level' = TokensRefilled - e * Minute
        /\ pc' = [pc EXCEPT ![t] = IF Wait(e) > 0 THEN "sleeping" ELSE "sending"]
        /\ until' = [until EXCEPT ![t] = IF Wait(e) > 0 THEN now + Wait(e) ELSE 0]
        /\ queue' = (IF Wait(e) > 0 THEN queue \cup {t} ELSE queue)
        /\ blocked_until' = blocked_until
  BY Reserved, Zenon
<1>. DEFINE at == IF Wait(e) > 0 THEN "sleeping" ELSE "sending"
<1>2. Flying' <= N /\ Flying' \in Nat /\ N \in Nat
  <2>1. at \in {"sleeping", "sending"} /\ pc' = [pc EXCEPT ![t] = at]
    BY <1>1
  <2>. HIDE DEF at
  <2>2. Flying' = Flying + 1 /\ Flying' <= N
    BY <1>1, <2>1, Departs
  <2>. QED
    BY <2>2, FlyingIsBounded
<1>. DEFINE w == Wait(e)
            cost == e * Minute
<1>3. /\ w \in Nat /\ w <= MaxWait /\ cost \in Nat /\ Minute \in Nat \ {0}
      /\ Tpm * w >= cost - TokensRefilled
      /\ \/ w = 0 \/ Rpm * (w - 1) < Minute - Refilled \/ Tpm * (w - 1) < cost - TokensRefilled
         \/ now + w = blocked_until
  <2>1. cost \in Nat
    <3>1. \A a, b \in Nat : a * b \in Nat
      OBVIOUS
    <3>. QED
      BY <1>1, <3>1, Limits
  <2>. QED
    BY <1>1, <2>1, WaitIsNeeded, Limits
<1>4. /\ request_level' = Refilled - Minute /\ token_level' = TokensRefilled - cost
      /\ Refilled \in Int /\ TokensRefilled \in Int /\ token_level' \in Int
      /\ updated' = now /\ now \in Nat /\ blocked_until \in Nat
  BY <1>1, Refresh, Limits DEF Stamp, TypeOK
<1>5. /\ until' = [until EXCEPT ![t] = IF w > 0 THEN now + w ELSE 0]
      /\ queue' = (IF w > 0 THEN queue \cup {t} ELSE queue)
  BY <1>1
<1>. HIDE DEF w, cost
<1>6. Debt'
  <2>1. Tpm * w <= Tpm * MaxWait /\ Tpm * MaxWait = MaxWait * Tpm /\ Tpm * w \in Int
    BY <1>3, Limits, Products
  <2>2. token_level' >= -(MaxWait * Tpm)
    BY <1>3, <1>4, <2>1, Floor
  <2>3. Minute * (Overshoot * (N - Flying')) \in Nat
    <3>1. \A a, b \in Nat : a <= b => b - a \in Nat
      OBVIOUS
    <3>2. N - Flying' \in Nat
      BY <1>2, <3>1, Zenon
    <3>. QED
      BY <3>2, Rooms
  <2>4. token_level' >= -(MaxWait * Tpm + Minute * ReserveTokens
                          + Minute * (Overshoot * (N - Flying')))
    BY <1>4, <2>2, <2>3, Floor
  <2>. QED
    BY <2>4 DEF Debt, N
<1>7. Queued'
  <2>. SUFFICES ASSUME NEW p \in queue'
                PROVE  \/ until'[p] <= now'
                       \/ Rpm * (until'[p] - updated' - 1) < -request_level'
                       \/ Tpm * (until'[p] - updated' - 1) < -token_level'
                       \/ until'[p] <= blocked_until'
    BY DEF Queued, Due
  <2>1. CASE p = t
    <3>1. CASE w > 0
      <4>1. until'[p] = now + w
        BY <1>5, <2>1, <3>1 DEF TypeOK
      <4>2. until'[p] - updated' - 1 = w - 1
        BY <1>3, <1>4, <4>1
      <4>3. \/ Rpm * (w - 1) < -request_level' \/ Tpm * (w - 1) < -token_level'
            \/ now + w = blocked_until
        BY <1>3, <1>4, <3>1
      <4>. QED
        BY <1>1, <1>3, <1>4, <4>1, <4>2, <4>3
    <3>2. CASE ~(w > 0)
      <4>1. until'[p] = 0
        BY <1>5, <2>1, <3>2 DEF TypeOK
      <4>. QED
        BY <1>1, <1>4, <4>1
    <3>. QED
      BY <3>1, <3>2
  <2>2. CASE p # t
    <3>1. p \in queue /\ until'[p] = until[p]
      BY <1>5, <2>2 DEF TypeOK
    <3>2. until[p] \in Nat /\ Due(until[p])
      BY <3>1, Limits DEF Queued, TypeOK
    <3>3. /\ request_level' \in Int /\ request_level' <= Refilled
          /\ token_level' \in Int /\ token_level' <= TokensRefilled
          /\ blocked_until' \in Nat /\ blocked_until' >= blocked_until
      BY <1>1, <1>3, <1>4
    <3>4. \/ until[p] <= now'
          \/ Rpm * (until[p] - updated' - 1) < -request_level'
          \/ Tpm * (until[p] - updated' - 1) < -token_level'
          \/ until[p] <= blocked_until'
      BY <1>1, <3>2, <3>3, DueAfterRefresh, Zenon
    <3>. QED
      BY <3>1, <3>4
  <2>. QED
    BY <2>1, <2>2
<1>. QED
  BY <1>6, <1>7

LEMMA RefuseKeeps ==
  ASSUME IInv, NEW t \in Threads, Refuse(t)
  PROVE  Charged' /\ Asked' /\ DayCount' /\ DayCost' /\ Debt' /\ Queued'
<1>. USE DEF IInv
<1>1. /\ Stamp /\ now' = now /\ request_level' = Refilled /\ token_level' = TokensRefilled
      /\ requests_today' = RequestsToday /\ tokens_today' = TokensToday
      /\ blocked_until' = blocked_until /\ pc' = pc /\ est' = est /\ until' = until
      /\ queue' = queue /\ asked' = asked /\ granted' = granted
      /\ spent' = spent /\ crossed' = crossed
  BY DEF Refuse, callers, daily
<1>2. InFlight' = InFlight /\ Flying' = Flying /\ N' = N
  BY <1>1 DEF InFlight, Flying, N
<1>3. Today' = Today /\ RequestsToday' = RequestsToday /\ TokensToday' = TokensToday
  BY <1>1, Stamped
<1>4. Charged' /\ Asked'
  BY <1>1, <1>2 DEF Charged, Asked
<1>5. DayCount' /\ DayCost'
  BY <1>1, <1>2, <1>3 DEF DayCount, DayCost
<1>6. Debt'
  <2>. DEFINE floor == MaxWait * Tpm + Minute * ReserveTokens + Minute * (Overshoot * (N - Flying))
  <2>1. floor \in Nat
    <3>1. N - Flying \in Nat
      BY FlyingIsBounded
    <3>. QED
      BY <3>1, Rooms, Floor
  <2>2. token_level >= -floor /\ token_level \in Int
    BY DEF Debt, TypeOK
  <2>. HIDE DEF floor
  <2>3. TokensRefilled >= -floor
    BY <2>1, <2>2, Refresh
  <2>. QED
    BY <1>1, <1>2, <2>3 DEF Debt, floor
<1>7. Queued'
  <2>1. /\ request_level' \in Int /\ request_level' <= Refilled
        /\ token_level' \in Int /\ token_level' <= TokensRefilled
        /\ blocked_until' \in Nat /\ blocked_until' >= blocked_until
        /\ queue' \in SUBSET queue
    BY <1>1, Refresh DEF TypeOK
  <2>. QED
    BY <1>1, <2>1, QueuedAfterRefresh
<1>. QED
  BY <1>4, <1>5, <1>6, <1>7

\* A call that lands frees the room it had.
LEMMA RoomLeft ==
  ASSUME TypeOK, NEW t \in Threads, Finish(t)
  PROVE  /\ Flying' \in Nat /\ Flying * Overshoot = Flying' * Overshoot + Overshoot
         /\ Flying' * Overshoot \in Nat
         /\ N - Flying \in Nat
         /\ Minute * (Overshoot * (N - Flying)) \in Nat
         /\ Minute * (Overshoot * (N - Flying'))
              = Minute * (Overshoot * (N - Flying)) + Minute * Overshoot
         /\ Minute * Overshoot \in Nat /\ Overshoot \in Nat
<1>1. Flying \in Nat /\ N \in Nat /\ Flying <= N /\ Flying' = Flying - 1 /\ Flying >= 1
  BY Lands, FlyingIsBounded
<1>. DEFINE f == Flying'
            k == N - Flying
<1>2. f \in Nat /\ Flying = f + 1 /\ k \in Nat /\ N - Flying' = k + 1
  BY <1>1
<1>. HIDE DEF f, k
<1>3. (f + 1) * Overshoot = f * Overshoot + Overshoot /\ f * Overshoot \in Nat
  BY <1>2, Rooms
<1>4. /\ Minute * (Overshoot * (k + 1)) = Minute * (Overshoot * k) + Minute * Overshoot
      /\ Minute * (Overshoot * k) \in Nat /\ Minute * Overshoot \in Nat
  BY <1>2, Rooms
<1>. QED
  BY <1>2, <1>3, <1>4, OvershootBounds DEF f, k

LEMMA LandsCharged ==
  ASSUME TypeOK, Charged, NEW t \in Threads, Finish(t)
  PROVE  Charged' /\ est[t] \in Estimates
<1>1. t \in InFlight /\ InFlight' = InFlight \ {t} /\ InFlight \in SUBSET Threads
  BY Lands DEF InFlight
<1>. QED
  BY <1>1 DEF Charged, Finish, TypeOK

LEMMA RecordKeeps ==
  ASSUME IInv, NEW t \in Threads, Record(t)
  PROVE  Charged' /\ Asked' /\ DayCount' /\ DayCost' /\ Debt' /\ Queued'
<1>. USE DEF IInv
<1>1. /\ Finish(t) /\ Stamp /\ now' = now /\ request_level' = Refilled
      /\ crossed' = (crossed \/ born[t] < Today) /\ until' = until
      /\ blocked_until' = blocked_until /\ asked' = asked /\ granted' = granted
  BY DEF Record, Finish
<1>2. PICK actual \in Actuals :
        /\ actual \in Nat /\ est[t] \in Nat
        /\ tokens_today' = TokensToday + actual - est[t]
        /\ requests_today' \in Nat /\ requests_today' >= RequestsToday
        /\ token_level' \in Int
        /\ token_level' <= TokensRefilled + (est[t] - actual) * Minute
        /\ \/ token_level' = TokensRefilled + (est[t] - actual) * Minute
           \/ token_level' >= -(Minute * ReserveTokens)
        /\ queue' = (IF actual < est[t] THEN {} ELSE queue)
        /\ spent' = (IF born[t] < Today THEN spent ELSE spent + actual - est[t])
  BY Reported, Zenon
<1>3. Charged' /\ est[t] \in Estimates
  BY <1>1, LandsCharged
<1>4. actual - est[t] <= Overshoot
  BY <1>3, OvershootBounds
<1>5. Today' = Today /\ RequestsToday' = requests_today' /\ TokensToday' = tokens_today'
  BY <1>1, Stamped
<1>6. /\ RequestsToday \in Nat /\ TokensToday \in Int /\ granted \in Nat /\ spent \in Int
      /\ TokensRefilled \in Int /\ token_level \in Int
      /\ TokensRefilled >= token_level \/ TokensRefilled >= 0
  BY Refresh DEF TypeOK
<1>7. Asked'
  BY <1>1 DEF Asked
<1>8. DayCount'
  BY <1>1, <1>2, <1>5, <1>6 DEF DayCount
<1>. DEFINE over == actual - est[t]
<1>9. over \in Int /\ over <= Overshoot
  BY <1>2, <1>4
<1>10. DayCost'
  <2>. SUFFICES ASSUME ~crossed'
                PROVE  spent' = TokensToday' /\ spent' + Flying' * Overshoot <= Tpd + N * Overshoot
    BY DEF DayCost, N
  <2>1. ~crossed /\ ~(born[t] < Today)
    BY <1>1
  <2>2. spent = TokensToday /\ spent + Flying * Overshoot <= Tpd + N * Overshoot
    BY <2>1 DEF DayCost
  <2>3. spent' = spent + over /\ TokensToday' = TokensToday + over
    BY <1>2, <1>5, <1>6, <2>1
  <2>4. /\ Flying * Overshoot = Flying' * Overshoot + Overshoot /\ Flying' * Overshoot \in Nat
        /\ Overshoot \in Nat /\ N * Overshoot \in Nat /\ Tpd \in Nat
    BY <1>1, RoomLeft, FlyingIsBounded, Rooms, Limits
  <2>. HIDE DEF over
  <2>5. spent' = TokensToday'
    BY <2>2, <2>3
  <2>6. spent' + Flying' * Overshoot <= Tpd + N * Overshoot
    <3>. DEFINE room == Flying' * Overshoot
                all == N * Overshoot
    <3>1. /\ spent + (room + Overshoot) <= Tpd + all /\ room \in Nat /\ all \in Nat
          /\ spent' = spent + over
      BY <2>2, <2>3, <2>4
    <3>. HIDE DEF room, all
    <3>2. spent' + room <= Tpd + all
      BY <1>6, <1>9, <2>4, <3>1
    <3>. QED
      BY <3>2 DEF room, all
  <2>. QED
    BY <2>5, <2>6
<1>. DEFINE cost == (est[t] - actual) * Minute
<1>11. cost \in Int /\ cost >= -(Minute * Overshoot)
  <2>1. Minute * over <= Minute * Overshoot /\ Minute * over \in Int
    BY <1>9, Limits, OvershootBounds, Products
  <2>2. cost = -(Minute * over)
    <3>1. \A m \in Nat : \A x, y \in Int : (x - y) * m = -(m * (y - x))
      OBVIOUS
    <3>. QED
      BY <1>2, <3>1, Limits
  <2>3. Minute * Overshoot \in Nat
    BY <1>1, RoomLeft
  <2>. HIDE DEF cost, over
  <2>. QED
    BY <2>1, <2>2, <2>3
<1>12. Debt'
  <2>. DEFINE common == MaxWait * Tpm + Minute * ReserveTokens
              room == Minute * (Overshoot * (N - Flying))
              extra == Minute * Overshoot
              reserve == Minute * ReserveTokens
  <2>1. common \in Nat /\ room \in Nat /\ extra \in Nat /\ reserve \in Nat /\ common >= reserve
    BY <1>1, RoomLeft, Floor
  <2>2. Minute * (Overshoot * (N - Flying')) = room + extra
    BY <1>1, RoomLeft
  <2>3. token_level >= -(common + room)
    BY DEF Debt
  <2>4. token_level' \in Int /\ (token_level' = TokensRefilled + cost \/ token_level' >= -reserve)
    BY <1>2
  <2>5. cost >= -extra
    BY <1>11
  <2>. HIDE DEF common, room, extra, reserve, cost
  <2>6. token_level' >= -(common + (room + extra))
    BY <1>6, <1>11, <2>1, <2>3, <2>4, <2>5
  <2>7. token_level' >= -(common + Minute * (Overshoot * (N - Flying')))
    BY <2>2, <2>6
  <2>. QED
    BY <2>7 DEF Debt, N, common
<1>13. Queued'
  <2>1. CASE actual < est[t]
    BY <1>2, <2>1 DEF Queued
  <2>2. CASE ~(actual < est[t])
    <3>1. cost <= 0
      <4>1. \A m \in Nat : \A x, y \in Nat : ~(y < x) => (x - y) * m <= 0
        OBVIOUS
      <4>. QED
        BY <1>2, <2>2, <4>1, Limits
    <3>2. token_level' \in Int /\ token_level' <= TokensRefilled + cost
      BY <1>2
    <3>. HIDE DEF cost
    <3>3. token_level' <= TokensRefilled
      BY <1>6, <1>11, <3>1, <3>2
    <3>4. request_level' \in Int /\ request_level' <= Refilled
      BY <1>1, Refresh
    <3>5. blocked_until' \in Nat /\ blocked_until' >= blocked_until /\ queue' \in SUBSET queue
      BY <1>1, <1>2, <2>2 DEF TypeOK
    <3>. QED
      BY <1>1, <3>2, <3>3, <3>4, <3>5, QueuedAfterRefresh
  <2>. QED
    BY <2>1, <2>2
<1>. QED
  BY <1>3, <1>7, <1>8, <1>10, <1>12, <1>13

\* A call that lands and costs nothing more leaves more room than it found.
LEMMA LandsFree ==
  ASSUME IInv, NEW t \in Threads, Finish(t), spent' = spent, crossed' = crossed,
         TokensToday' = TokensToday,
         token_level' \in Int,
         token_level' >= token_level \/ token_level' >= 0
  PROVE  DayCost' /\ Debt'
<1>. USE DEF IInv
<1>1. DayCost'
  <2>. SUFFICES ASSUME ~crossed'
                PROVE  spent' = TokensToday' /\ spent' + Flying' * Overshoot <= Tpd + N * Overshoot
    BY DEF DayCost, N
  <2>1. spent = TokensToday /\ spent + Flying * Overshoot <= Tpd + N * Overshoot
    BY DEF DayCost
  <2>. DEFINE room == Flying' * Overshoot
              all == N * Overshoot
              before == Flying * Overshoot
  <2>2. /\ before = room + Overshoot /\ room \in Nat /\ Overshoot \in Nat /\ all \in Nat
        /\ Tpd \in Nat /\ spent \in Int /\ spent + before <= Tpd + all
    BY <2>1, RoomLeft, FlyingIsBounded, Rooms, Limits DEF TypeOK
  <2>. HIDE DEF room, all, before
  <2>3. spent' + room <= Tpd + all
    BY <2>2
  <2>. QED
    BY <2>1, <2>3 DEF room, all
<1>2. Debt'
  <2>. DEFINE common == MaxWait * Tpm + Minute * ReserveTokens
              room == Minute * (Overshoot * (N - Flying))
              extra == Minute * Overshoot
  <2>1. common \in Nat /\ room \in Nat /\ extra \in Nat
    BY RoomLeft, Floor
  <2>2. Minute * (Overshoot * (N - Flying')) = room + extra
    BY RoomLeft
  <2>3. token_level >= -(common + room) /\ token_level \in Int
    BY DEF Debt, TypeOK
  <2>. HIDE DEF common, room, extra
  <2>4. token_level' >= -(common + (room + extra))
    BY <2>1, <2>3
  <2>5. token_level' >= -(common + Minute * (Overshoot * (N - Flying')))
    BY <2>2, <2>4
  <2>. QED
    BY <2>5 DEF Debt, N, common
<1>. QED
  BY <1>1, <1>2

LEMMA RateLimitedKeeps ==
  ASSUME IInv, NEW t \in Threads, OnRateLimited(t)
  PROVE  Charged' /\ Asked' /\ DayCount' /\ DayCost' /\ Debt' /\ Queued'
<1>. USE DEF IInv
<1>1. /\ Finish(t) /\ Stamp /\ now' = now /\ request_level' = Refilled
      /\ requests_today' = RequestsToday /\ tokens_today' = TokensToday /\ until' = until
      /\ queue' = queue /\ granted' = granted /\ spent' = spent /\ crossed' = crossed
  BY DEF OnRateLimited, Finish, daily
<1>2. /\ blocked_until' \in Nat /\ blocked_until' >= blocked_until /\ Asked'
      /\ token_level' \in Int /\ token_level' <= TokensRefilled
      /\ token_level' = TokensRefilled \/ token_level' = 0
  BY Blocked
<1>3. RequestsToday' = RequestsToday /\ TokensToday' = TokensToday
  BY <1>1, Stamped
<1>4. Charged'
  BY <1>1, LandsCharged
<1>5. DayCount'
  BY <1>1, <1>3 DEF DayCount
<1>6. DayCost' /\ Debt'
  <2>1. token_level' >= token_level \/ token_level' >= 0
    BY <1>2, Refresh
  <2>. QED
    BY <1>1, <1>2, <1>3, <2>1, LandsFree
<1>7. Queued'
  <2>1. request_level' \in Int /\ request_level' <= Refilled /\ queue' \in SUBSET queue
    BY <1>1, Refresh
  <2>. QED
    BY <1>1, <1>2, <2>1, QueuedAfterRefresh
<1>. QED
  BY <1>2, <1>4, <1>5, <1>6, <1>7

LEMMA FailKeeps ==
  ASSUME IInv, NEW t \in Threads, Fail(t)
  PROVE  Charged' /\ Asked' /\ DayCount' /\ DayCost' /\ Debt' /\ Queued'
<1>. USE DEF IInv
<1>1. /\ Finish(t) /\ now' = now /\ state' = state /\ Today' = Today /\ asked' = asked
      /\ daily' = daily /\ queue' = queue /\ until' = until
  BY FailTypes DEF Fail
<1>2. RequestsToday' = RequestsToday /\ TokensToday' = TokensToday
  BY <1>1 DEF RequestsToday, TokensToday, state
<1>3. Charged'
  BY <1>1, LandsCharged
<1>4. Asked' /\ DayCount'
  BY <1>1, <1>2 DEF Asked, DayCount, state, daily
<1>5. DayCost' /\ Debt'
  <2>1. /\ spent' = spent /\ crossed' = crossed
        /\ token_level' \in Int /\ token_level' >= token_level
    BY <1>1 DEF daily, state, TypeOK
  <2>. QED
    BY <1>1, <1>2, <2>1, LandsFree
<1>6. Queued'
  BY <1>1, LevelsUnchanged
<1>. QED
  BY <1>3, <1>4, <1>5, <1>6

LEMMA SendKeeps ==
  ASSUME IInv, NEW t \in Threads, Send(t)
  PROVE  Charged' /\ Asked' /\ DayCount' /\ DayCost' /\ Debt' /\ Queued'
<1>. USE DEF IInv
<1>1. /\ now' = now /\ state' = state /\ Today' = Today /\ asked' = asked /\ daily' = daily
      /\ est' = est /\ queue' = queue \ {t} /\ until' = [until EXCEPT ![t] = 0]
  BY SendTypes
<1>2. RequestsToday' = RequestsToday /\ TokensToday' = TokensToday
  BY <1>1 DEF RequestsToday, TokensToday, state
<1>3. InFlight' = InFlight /\ Flying' = Flying /\ N' = N
  BY StaysInFlight DEF N
<1>4. Charged' /\ Asked' /\ DayCount' /\ DayCost'
  BY <1>1, <1>2, <1>3 DEF Charged, Asked, DayCount, DayCost, state, daily
<1>5. Debt'
  BY <1>1, <1>3 DEF Debt, state
<1>6. Queued'
  <2>1. queue' \in SUBSET queue /\ \A p \in queue' : until'[p] = until[p]
    BY <1>1 DEF TypeOK
  <2>. QED
    BY <1>1, <2>1, LevelsUnchanged
<1>. QED
  BY <1>4, <1>5, <1>6

\* At midnight the day's counters read zero, whenever they are next refreshed.
LEMMA TickKeeps ==
  ASSUME IInv, Tick
  PROVE  Charged' /\ Asked' /\ DayCount' /\ DayCost' /\ Debt' /\ Queued'
<1>. USE DEF IInv
<1>1. /\ now' = now + 1 /\ now \in Nat
      /\ \/ Today' = Today /\ granted' = granted /\ spent' = spent /\ crossed' = crossed
         \/ Today' = Today + 1 /\ granted' = 0 /\ spent' = 0 /\ crossed' = FALSE
  BY TickTypes
<1>2. /\ request_level' = request_level /\ token_level' = token_level /\ updated' = updated
      /\ day' = day /\ requests_today' = requests_today /\ tokens_today' = tokens_today
      /\ blocked_until' = blocked_until /\ pc' = pc /\ est' = est /\ until' = until
      /\ queue' = queue /\ asked' = asked
  BY DEF Tick, state, callers
<1>3. InFlight' = InFlight /\ Flying' = Flying /\ N' = N
  BY <1>2 DEF InFlight, Flying, N
<1>4. Charged' /\ Asked' /\ Debt'
  BY <1>2, <1>3 DEF Charged, Asked, Debt
<1>5. DayCount' /\ DayCost'
  <2>1. CASE Today' = Today /\ granted' = granted /\ spent' = spent /\ crossed' = crossed
    <3>1. RequestsToday' = RequestsToday /\ TokensToday' = TokensToday
      BY <1>2, <2>1 DEF RequestsToday, TokensToday
    <3>. QED
      BY <1>3, <2>1, <3>1 DEF DayCount, DayCost
  <2>2. CASE Today' = Today + 1 /\ granted' = 0 /\ spent' = 0 /\ crossed' = FALSE
    <3>1. day' # Today'
      BY <1>2, <2>2, Refresh DEF TypeOK
    <3>2. RequestsToday' = 0 /\ TokensToday' = 0
      BY <3>1 DEF RequestsToday, TokensToday
    <3>3. DayCount'
      BY <2>2, <3>2, Limits DEF DayCount
    <3>4. 0 + Flying * Overshoot <= Tpd + N * Overshoot
      <4>1. Flying * Overshoot <= N * Overshoot
        BY FlyingIsBounded, RoomsGrow
      <4>2. Flying * Overshoot \in Nat /\ N * Overshoot \in Nat /\ Tpd \in Nat
        BY FlyingIsBounded, Rooms, Limits
      <4>. QED
        BY <4>1, <4>2
    <3>5. DayCost'
      BY <1>3, <2>2, <3>2, <3>4 DEF DayCost
    <3>. QED
      BY <3>3, <3>5
  <2>. QED
    BY <1>1, <2>1, <2>2
<1>6. Queued'
  <2>. SUFFICES ASSUME NEW p \in queue, Due(until[p])
                PROVE  \/ until[p] <= now'
                       \/ Rpm * (until[p] - updated - 1) < -request_level
                       \/ Tpm * (until[p] - updated - 1) < -token_level
                       \/ until[p] <= blocked_until
    BY <1>2 DEF Queued, Due
  <2>1. until[p] \in Nat
    BY Limits DEF TypeOK
  <2>2. until[p] <= now => until[p] <= now'
    BY <1>1, <2>1
  <2>. QED
    BY <2>2 DEF Due
<1>. QED
  BY <1>4, <1>5, <1>6

LEMMA StutterKeeps ==
  ASSUME IInv, UNCHANGED vars
  PROVE  IInv'
<1>. USE DEF vars, state, callers, daily
<1>1. TypeOK'
  BY DEF IInv, TypeOK, Today
<1>2. InFlight' = InFlight /\ Flying' = Flying /\ N' = N
  BY DEF InFlight, Flying, N
<1>3. RequestsToday' = RequestsToday /\ TokensToday' = TokensToday
  BY DEF RequestsToday, TokensToday, Today
<1>4. Charged' /\ Asked' /\ DayCount' /\ DayCost' /\ Debt'
  BY <1>2, <1>3 DEF IInv, Charged, Asked, DayCount, DayCost, Debt
<1>5. Queued'
  BY DEF IInv, Queued, Due
<1>. QED
  BY <1>1, <1>4, <1>5 DEF IInv

LEMMA InitHolds == Init => IInv
<1>. SUFFICES ASSUME Init PROVE IInv
  OBVIOUS
<1>. USE DEF Init
<1>1. Rpm * Minute \in Nat /\ Tpm * Minute \in Nat
  <2>1. \A a, b \in Nat : a * b \in Nat
    OBVIOUS
  <2>. QED
    BY <2>1, Limits
<1>2. Today = 0
  <2>1. \A d \in Nat \ {0} : 0 \div d = 0
    OBVIOUS
  <2>. QED
    BY <2>1, Limits DEF Today
<1>3. TypeOK
  <2>1. 0 \in 0..Horizon /\ 0 \in 0..0
    BY Limits
  <2>2. /\ now \in 0..Horizon /\ updated \in 0..now /\ day \in 0..Today
        /\ request_level \in Int /\ request_level <= Rpm * Minute /\ token_level \in Int
        /\ requests_today \in Nat /\ tokens_today \in Int /\ blocked_until \in Nat
    BY <1>1, <1>2, <2>1
  <2>3. /\ pc \in [Threads -> {"idle", "sleeping", "sending"}]
        /\ est \in [Threads -> Estimates \cup {0}] /\ born \in [Threads -> 0..Today]
        /\ until \in [Threads -> 0..Horizon]
    BY <1>2, <2>1
  <2>4. scheduled \in [0..Horizon -> Nat] /\ queue \in SUBSET Threads
    <3>1. scheduled = [tick \in 0..Horizon |-> 0] /\ queue = {}
      BY Zenon
    <3>. HIDE DEF Init
    <3>. QED
      BY <3>1
  <2>5. asked \in Nat /\ granted \in Nat /\ spent \in Int /\ crossed \in BOOLEAN
    <3>1. asked = 0 /\ granted = 0 /\ spent = 0 /\ crossed \in BOOLEAN
      BY Zenon
    <3>2. 0 \in Nat /\ 0 \in Int
      OBVIOUS
    <3>. QED
      BY <3>1, <3>2, Zenon
  <2>. QED
    BY <2>2, <2>3, <2>4, <2>5 DEF TypeOK
<1>4. InFlight = {} /\ Flying = 0
  BY FS_EmptySet DEF InFlight, Flying
<1>5. Charged /\ Asked /\ Queued
  BY <1>4 DEF Charged, Asked, Queued
<1>6. RequestsToday = 0 /\ TokensToday = 0
  BY <1>2 DEF RequestsToday, TokensToday
<1>7. DayCount
  BY <1>6, Limits DEF DayCount
<1>8. DayCost
  <2>1. 0 * Overshoot \in Nat /\ 0 * Overshoot <= N * Overshoot /\ N * Overshoot \in Nat
    BY FlyingIsBounded, Rooms, <1>4, RoomsGrow
  <2>2. 0 * Overshoot = 0 \/ 0 * Overshoot \in Nat
    BY <2>1
  <2>3. spent + Flying * Overshoot <= Tpd + N * Overshoot
    BY <1>4, <2>1, Limits
  <2>. QED
    BY <1>6, <2>3 DEF DayCost
<1>9. Debt
  <2>1. Minute * (Overshoot * (N - Flying)) \in Nat
    <3>1. N - Flying \in Nat
      BY FlyingIsBounded
    <3>. QED
      BY <3>1, Rooms
  <2>. DEFINE room == Minute * (Overshoot * (N - Flying))
              full == Tpm * Minute
              wait == MaxWait * Tpm
              reserve == Minute * ReserveTokens
  <2>2. /\ room \in Nat /\ full \in Nat /\ wait \in Nat /\ reserve \in Nat /\ token_level = full
    BY <1>1, <2>1, Floor
  <2>. HIDE DEF room, full, wait, reserve
  <2>3. token_level >= -(wait + reserve + room)
    BY <2>2
  <2>. QED
    BY <2>3 DEF Debt, room, full, wait, reserve
<1>. QED
  BY <1>3, <1>5, <1>7, <1>8, <1>9 DEF IInv

LEMMA StepHolds == IInv /\ [Next]_vars => IInv'
<1>. SUFFICES ASSUME IInv, [Next]_vars PROVE IInv'
  OBVIOUS
<1>1. TypeOK
  BY DEF IInv
<1>2. CASE Tick
  BY <1>1, <1>2, TickTypes, TickKeeps DEF IInv
<1>3. CASE Over
  BY <1>3, StutterKeeps DEF Over
<1>4. ASSUME NEW t \in Threads, Acquire(t) PROVE IInv'
  BY <1>1, <1>4, AcquireTypes, AcquireKeeps, AcquireOwes DEF IInv
<1>5. ASSUME NEW t \in Threads, Refuse(t) PROVE IInv'
  BY <1>1, <1>5, RefuseTypes, RefuseKeeps DEF IInv
<1>6. ASSUME NEW t \in Threads, Send(t) PROVE IInv'
  BY <1>1, <1>6, SendTypes, SendKeeps DEF IInv
<1>7. ASSUME NEW t \in Threads, Record(t) PROVE IInv'
  BY <1>1, <1>7, RecordTypes, RecordKeeps DEF IInv
<1>8. ASSUME NEW t \in Threads, OnRateLimited(t) PROVE IInv'
  BY <1>1, <1>8, RateLimitedTypes, RateLimitedKeeps DEF IInv
<1>9. ASSUME NEW t \in Threads, Fail(t) PROVE IInv'
  BY <1>1, <1>9, FailTypes, FailKeeps DEF IInv
<1>10. CASE UNCHANGED vars
  BY <1>10, StutterKeeps
<1>. QED
  BY <1>2, <1>3, <1>4, <1>5, <1>6, <1>7, <1>8, <1>9, <1>10 DEF Next

LEMMA Inductive == Spec => []IInv
  BY InitHolds, StepHolds, PTL DEF Spec

-----------------------------------------------------------------------------
(* What follows. *)

\* The limiter's state stays well-formed (limiter.py:48-57, _ModelState): no level above its
\* capacity, no reading of a clock or a day still to come.
THEOREM LimiterTypes == Spec => []TypeOK
<1>1. IInv => TypeOK
  BY DEF IInv
<1>. QED
  BY <1>1, Inductive, PTL

\* No more than rpd requests are granted on one UTC day (limiter.py:105), whatever calls of
\* the day before land in it and whatever count the provider's headers give.
THEOREM DayIsCounted == Spec => []DayRequestsKept
<1>1. IInv => DayRequestsKept
  BY DEF IInv, DayCount, DayRequestsKept
<1>. QED
  BY <1>1, Inductive, PTL

\* The reservations of a day cost no more than tpd and what the calls in flight overshoot
\* (limiter.py:105 and 133), unless one of the day before was recorded.
THEOREM DayIsPaid == Spec => []DayTokensKept
<1>1. IInv => DayTokensKept
  <2>. SUFFICES ASSUME IInv, ~crossed PROVE spent <= Tpd + N * Overshoot
    BY DEF DayTokensKept, N
  <2>. DEFINE room == Flying * Overshoot
              all == Tpd + N * Overshoot
  <2>1. spent + room <= all /\ spent \in Int
    BY DEF IInv, DayCost, TypeOK
  <2>2. room \in Nat /\ N * Overshoot \in Nat
    BY FlyingIsBounded, Rooms
  <2>3. all \in Int
    BY <2>2, Limits
  <2>. HIDE DEF room, all
  <2>4. spent <= all
    BY <2>1, <2>2, <2>3
  <2>. QED
    BY <2>4 DEF all
<1>. QED
  BY <1>1, Inductive, PTL

\* The token bucket is never in a debt that the longest wait, the reserve and the overshoot of the
\* calls in flight do not explain (limiter.py:116-119, acquire, and 132, record).
THEOREM DebtIsBounded == Spec => []DebtBounded
<1>1. IInv => DebtBounded
  <2>. SUFFICES ASSUME IInv
                PROVE  token_level >= -(MaxWait * Tpm + Minute * (N * Overshoot + ReserveTokens))
    BY DEF DebtBounded, N
  <2>1. Flying \in Nat /\ N \in Nat /\ Flying <= N /\ Overshoot \in Nat
    BY FlyingIsBounded, OvershootBounds
  <2>2. Overshoot * (N - Flying) <= N * Overshoot /\ Overshoot * (N - Flying) \in Nat
        /\ N * Overshoot \in Nat
    <3>1. \A o, n, f \in Nat : f <= n => /\ o * (n - f) <= n * o /\ o * (n - f) \in Nat
                                         /\ n * o \in Nat
      <4>1. \A o, n, f \in Nat : f <= n => o * (n - f) <= o * n
        OBVIOUS
      <4>2. \A o, n \in Nat : o * n = n * o /\ n * o \in Nat
        OBVIOUS
      <4>3. \A o, n, f \in Nat : f <= n => o * (n - f) \in Nat
        OBVIOUS
      <4>. QED
        BY <4>1, <4>2, <4>3
    <3>. QED
      BY <2>1, <3>1
  <2>3. \A m, a, b, r \in Nat : a <= b => m * r + m * a <= m * (b + r)
    OBVIOUS
  <2>4. Minute * ReserveTokens + Minute * (Overshoot * (N - Flying))
          <= Minute * (N * Overshoot + ReserveTokens)
    BY <2>2, <2>3, Limits
  <2>. DEFINE wait == MaxWait * Tpm
              reserve == Minute * ReserveTokens
              room == Minute * (Overshoot * (N - Flying))
              bound == Minute * (N * Overshoot + ReserveTokens)
  <2>5. /\ wait \in Nat /\ reserve \in Nat /\ room \in Nat /\ reserve + room <= bound
        /\ bound \in Int /\ token_level \in Int /\ token_level >= -(wait + reserve + room)
    <3>1. room \in Nat
      <4>1. N - Flying \in Nat
        BY <2>1
      <4>. QED
        BY <4>1, Rooms
    <3>2. bound \in Int
      <4>1. N * Overshoot + ReserveTokens \in Int
        BY <2>2, Limits
      <4>. QED
        BY <4>1, Limits, Products
    <3>. QED
      BY <2>4, <3>1, <3>2, Floor DEF IInv, Debt, TypeOK
  <2>. HIDE DEF wait, reserve, room, bound
  <2>6. token_level >= -(wait + bound)
    BY <2>5
  <2>. QED
    BY <2>6 DEF wait, bound
<1>. QED
  BY <1>1, Inductive, PTL

\* Only acquire takes a caller from idle, and what it waits for bounds when it may send.
LEMMA OnlyAcquireReserves ==
  ASSUME IInv, [Next]_vars, NEW t \in Threads, Reserves(t)
  PROVE  /\ SlotOf(t) >= asked
         /\ \A u \in Nat : Due(u) => u <= SlotOf(t)
<1>1. TypeOK /\ Asked
  BY DEF IInv
<1>2. Acquire(t)
  <2>1. ~Tick /\ ~Over /\ ~UNCHANGED vars
    BY DEF Tick, Over, vars, callers, Reserves
  <2>2. ASSUME NEW s \in Threads, Acquire(s) PROVE s = t
    <3>1. pc' = [pc EXCEPT ![s] = pc'[s]]
      BY <1>1, <2>2 DEF Acquire, TypeOK
    <3>. QED
      BY <1>1, <3>1 DEF Reserves, TypeOK
  <2>3. ASSUME NEW s \in Threads PROVE ~Refuse(s)
    BY DEF Refuse, callers, Reserves
  <2>4. ASSUME NEW s \in Threads PROVE ~Send(s)
    BY <1>1 DEF Send, Reserves, TypeOK
  <2>5. ASSUME NEW s \in Threads PROVE ~Finish(s)
    BY <1>1 DEF Finish, Reserves, TypeOK
  <2>. QED
    BY <2>1, <2>2, <2>3, <2>4, <2>5 DEF Next, Record, OnRateLimited, Fail
<1>3. PICK e \in Estimates :
        /\ e \in Nat /\ Wait(e) \in Nat
        /\ pc' = [pc EXCEPT ![t] = IF Wait(e) > 0 THEN "sleeping" ELSE "sending"]
        /\ until' = [until EXCEPT ![t] = IF Wait(e) > 0 THEN now + Wait(e) ELSE 0]
  BY <1>1, <1>2, Reserved, Zenon
<1>. DEFINE w == Wait(e)
            cost == e * Minute
            p == now - updated
<1>4. /\ w \in Nat /\ Rpm * w >= Minute - Refilled /\ Tpm * w >= cost - TokensRefilled
      /\ now + w >= blocked_until /\ cost \in Nat
  <2>1. cost \in Nat
    <3>1. \A a, b \in Nat : a * b \in Nat
      OBVIOUS
    <3>. QED
      BY <1>3, <3>1, Limits
  <2>. QED
    BY <1>1, <1>3, <2>1, WaitIsNeeded
<1>5. SlotOf(t) = now + w
  <2>1. now \in Nat
    BY <1>1, Limits DEF TypeOK
  <2>. HIDE DEF w
  <2>2. /\ pc' = [pc EXCEPT ![t] = IF w > 0 THEN "sleeping" ELSE "sending"]
        /\ until' = [until EXCEPT ![t] = IF w > 0 THEN now + w ELSE 0]
    BY <1>3 DEF w
  <2>3. CASE w > 0
    BY <1>1, <2>2, <2>3 DEF SlotOf, TypeOK
  <2>4. CASE ~(w > 0)
    BY <1>1, <1>4, <2>1, <2>2, <2>4 DEF SlotOf, TypeOK
  <2>. QED
    BY <2>3, <2>4
<1>6. /\ now \in Nat /\ updated \in Nat /\ p \in Nat /\ request_level \in Int
      /\ token_level \in Int /\ blocked_until \in Nat /\ Minute \in Nat \ {0}
      /\ Refilled \in Int /\ Refilled <= request_level + Rpm * p
      /\ TokensRefilled \in Int /\ TokensRefilled <= token_level + Tpm * p
  BY <1>1, Refresh, Limits DEF TypeOK
<1>. HIDE DEF w, cost
<1>7. SlotOf(t) >= asked
  BY <1>1, <1>4, <1>5 DEF Asked
<1>8. ASSUME NEW u \in Nat, Due(u), ~(u <= now + w) PROVE FALSE
  <2>. DEFINE q == u - updated - 1
  <2>1. q \in Int /\ p + w <= q /\ p + w \in Int
    BY <1>4, <1>6, <1>8
  <2>2. \/ u <= now \/ Rpm * q < -request_level \/ Tpm * q < -token_level \/ u <= blocked_until
    BY <1>8 DEF Due
  <2>. HIDE DEF p, q
  <2>3. /\ Rpm * (p + w) <= Rpm * q /\ Rpm * (p + w) = Rpm * p + Rpm * w
        /\ Tpm * (p + w) <= Tpm * q /\ Tpm * (p + w) = Tpm * p + Tpm * w
        /\ Rpm * p \in Int /\ Rpm * w \in Int /\ Rpm * q \in Int
        /\ Tpm * p \in Int /\ Tpm * w \in Int /\ Tpm * q \in Int
    BY <1>4, <1>6, <2>1, Limits, Products
  <2>4. ~(Rpm * q < -request_level)
    BY <1>4, <1>6, <2>3
  <2>5. ~(Tpm * q < -token_level)
    BY <1>4, <1>6, <2>3
  <2>6. ~(u <= now) /\ ~(u <= blocked_until)
    BY <1>4, <1>6, <1>8
  <2>. QED
    BY <2>2, <2>4, <2>5, <2>6
<1>. QED
  BY <1>5, <1>7, <1>8

\* Concurrent requests queue fairly (limiter.py:9): a caller never sends before one that reserved
\* earlier and still sleeps, unless an estimate was refunded meanwhile.
THEOREM SleepersKeepTheirOrder == Spec => QueueFairly
<1>1. IInv /\ [Next]_vars
        => [\A t \in Threads, p \in queue : Reserves(t) => until[p] <= SlotOf(t)]_vars
  <2>. SUFFICES ASSUME IInv, [Next]_vars, NEW t \in Threads, NEW p \in queue, Reserves(t)
                PROVE  until[p] <= SlotOf(t)
    BY Zenon
  <2>1. until[p] \in Nat /\ Due(until[p])
    BY Limits DEF IInv, TypeOK, Queued
  <2>. QED
    BY <2>1, OnlyAcquireReserves, Zenon
<1>. QED
  BY <1>1, Inductive, PTL DEF Spec, QueueFairly

\* A caller that comes after a 429 sends no earlier than the latest end any 429 asked for
\* (limiter.py:113, acquire, and 148, on_rate_limited).
THEOREM BlocksAreWaitedFor == Spec => BlockHonoured
<1>1. IInv /\ [Next]_vars => [\A t \in Threads : Reserves(t) => SlotOf(t) >= asked]_vars
  BY OnlyAcquireReserves, Zenon
<1>. QED
  BY <1>1, Inductive, PTL DEF Spec, BlockHonoured

-----------------------------------------------------------------------------
(* The requests of a span. *)

\* What a span has scheduled was taken from the level: what is left of it after W requests is at
\* most what a full bucket and the refill since the first of them, granted at most MaxWait
\* before its tick, leave.  The debt of the last one is refilled by the time it goes out.
Paced ==
  \A from \in 0..Horizon : \A to \in from..Horizon :
    \/ ScheduledIn(from, to) = 0
    \/ ScheduledIn(from, to) * Minute + request_level <= Rpm * (Minute + updated - from + MaxWait)

PacedInv == IInv /\ Paced /\ RequestsPaced

LEMMA SpanTypes ==
  ASSUME TypeOK, NEW from \in 0..Horizon, NEW to \in from..Horizon
  PROVE  ScheduledIn(from, to) \in Int /\ from \in Nat /\ to \in Nat /\ to <= Horizon /\ from <= to
<1>1. from \in Nat /\ to \in Nat /\ to \in 0..Horizon /\ from <= to /\ to <= Horizon
  BY Limits
<1>2. from # 0 => from - 1 \in 0..Horizon
  BY Limits
<1>3. scheduled[to] \in Nat /\ (from # 0 => scheduled[from - 1] \in Nat)
  BY <1>1, <1>2 DEF TypeOK
<1>. QED
  BY <1>1, <1>3 DEF ScheduledIn

LEMMA SpanGrows ==
  ASSUME TypeOK, NEW at \in 0..Horizon, Schedule(at),
         NEW from \in 0..Horizon, NEW to \in from..Horizon
  PROVE  ScheduledIn(from, to)'
           = ScheduledIn(from, to) + (IF from <= at /\ at <= to THEN 1 ELSE 0)
<1>1. from \in Nat /\ at \in Nat /\ to \in 0..Horizon /\ to \in Nat /\ from <= to
  BY Limits
<1>2. scheduled[to] \in Nat /\ scheduled'[to] = scheduled[to] + IF to >= at THEN 1 ELSE 0
  BY <1>1 DEF TypeOK, Schedule
<1>3. CASE from = 0
  BY <1>1, <1>2, <1>3 DEF ScheduledIn
<1>4. CASE from # 0
  <2>1. from - 1 \in 0..Horizon
    BY <1>4, Limits
  <2>2. /\ scheduled[from - 1] \in Nat
        /\ scheduled'[from - 1] = scheduled[from - 1] + IF from - 1 >= at THEN 1 ELSE 0
    BY <2>1 DEF TypeOK, Schedule
  <2>. QED
    BY <1>1, <1>2, <1>4, <2>2 DEF ScheduledIn
<1>. QED
  BY <1>3, <1>4

\* A section that schedules nothing refills the level by what the time since the last one adds.
LEMMA RefillKeepsPace ==
  ASSUME TypeOK, Paced, RequestsPaced, scheduled' = scheduled,
         (request_level' = Refilled /\ updated' = now) \/ UNCHANGED <<request_level, updated>>
  PROVE  Paced' /\ RequestsPaced'
<1>1. \A from, to : ScheduledIn(from, to)' = ScheduledIn(from, to)
  BY DEF ScheduledIn
<1>2. RequestsPaced'
  BY <1>1 DEF RequestsPaced
<1>3. Paced'
  <2>. SUFFICES ASSUME NEW from \in 0..Horizon, NEW to \in from..Horizon, ScheduledIn(from, to) # 0
                PROVE  ScheduledIn(from, to) * Minute + request_level'
                         <= Rpm * (Minute + updated' - from + MaxWait)
    BY <1>1 DEF Paced
  <2>. DEFINE taken == ScheduledIn(from, to) * Minute
              before == Minute + updated - from + MaxWait
              p == now - updated
  <2>1. taken \in Int /\ before \in Int /\ p \in Nat /\ request_level \in Int
    <3>1. ScheduledIn(from, to) \in Int /\ from \in Nat
      BY SpanTypes
    <3>2. taken \in Int
      BY <3>1, Limits, Products
    <3>. QED
      BY <3>1, <3>2, Limits, Refresh DEF TypeOK
  <2>2. taken + request_level <= Rpm * before
    BY DEF Paced
  <2>3. CASE UNCHANGED <<request_level, updated>>
    BY <2>2, <2>3
  <2>4. CASE request_level' = Refilled /\ updated' = now
    <3>1. Minute + now - from + MaxWait = before + p
      BY <2>1, SpanTypes, Limits DEF TypeOK
    <3>2. Refilled \in Int /\ Refilled <= request_level + Rpm * p
      BY Refresh
    <3>. HIDE DEF taken, before, p
    <3>3. Rpm * (before + p) = Rpm * before + Rpm * p /\ Rpm * before \in Int /\ Rpm * p \in Int
      BY <2>1, Limits, Products
    <3>4. taken + Refilled <= Rpm * (before + p)
      BY <2>1, <2>2, <3>2, <3>3
    <3>. QED
      BY <2>4, <3>1, <3>4 DEF taken
  <2>. QED
    BY <2>3, <2>4
<1>. QED
  BY <1>2, <1>3

LEMMA AcquireKeepsPace ==
  ASSUME TypeOK, Paced, RequestsPaced, NEW t \in Threads, Acquire(t)
  PROVE  Paced' /\ RequestsPaced'
<1>1. PICK e \in Estimates :
        /\ e \in Nat /\ Wait(e) \in Nat /\ Wait(e) <= MaxWait /\ now + Wait(e) <= Horizon
        /\ Stamp /\ request_level' = Refilled - Minute /\ Schedule(now + Wait(e))
  BY Reserved, Zenon
<1>. DEFINE w == Wait(e)
            at == now + w
            p == now - updated
<1>2. /\ now \in Nat /\ at \in 0..Horizon /\ p \in Nat /\ request_level \in Int /\ updated \in Nat
      /\ Refilled \in Int /\ Refilled <= request_level + Rpm * p /\ Refilled <= Rpm * Minute
      /\ updated' = now
  <2>1. now \in Nat /\ updated \in Nat /\ request_level \in Int /\ updated' = now
    BY <1>1, Limits DEF TypeOK, Stamp
  <2>2. at \in 0..Horizon
    BY <1>1, <2>1, Limits
  <2>. HIDE DEF at
  <2>. QED
    BY <2>1, <2>2, Refresh
<1>3. w \in Nat /\ w <= MaxWait /\ Rpm * w >= Minute - Refilled
  BY <1>1, WaitIsNeeded
<1>4. Schedule(at)
  BY <1>1
<1>. HIDE DEF w
<1>5. ASSUME NEW from \in 0..Horizon, NEW to \in from..Horizon
      PROVE  /\ \/ ScheduledIn(from, to)' = 0
                \/ ScheduledIn(from, to)' * Minute + request_level'
                     <= Rpm * (Minute + updated' - from + MaxWait)
             /\ ScheduledIn(from, to)' * Minute <= Rpm * (Minute + to - from + MaxWait)
  <2>. DEFINE n == ScheduledIn(from, to)
              before == Minute + updated - from + MaxWait
              late == Minute + now - from + MaxWait
              end == Minute + to - from + MaxWait
  <2>1. n \in Int /\ from \in Nat /\ to \in Nat
    BY SpanTypes
  <2>2. n' = n + (IF from <= at /\ at <= to THEN 1 ELSE 0)
    <3>. HIDE DEF at
    <3>. QED
      BY <1>2, <1>4, SpanGrows
  <2>3. n = 0 \/ n * Minute + request_level <= Rpm * before
    BY DEF Paced
  <2>4. n * Minute <= Rpm * end
    BY DEF RequestsPaced
  <2>5. before \in Int /\ late \in Int /\ end \in Int /\ late = before + p
    BY <1>2, <2>1, Limits
  <2>6. /\ n * Minute \in Int /\ (n + 1) * Minute = n * Minute + Minute
        /\ Rpm * before \in Int /\ Rpm * p \in Int /\ Rpm * late = Rpm * before + Rpm * p
        /\ Rpm * late \in Int /\ Rpm * end \in Int /\ Rpm * w \in Int /\ Rpm * Minute \in Int
        /\ Rpm * (late + w) = Rpm * late + Rpm * w
    <3>1. \A x \in Int, m \in Nat : x * m \in Int /\ (x + 1) * m = x * m + m
      OBVIOUS
    <3>. HIDE DEF n, before, late, end, p
    <3>. QED
      BY <1>2, <1>3, <2>1, <2>5, <3>1, Limits, Products
  <2>7. CASE from <= at /\ at <= to
    <3>1. n' = n + 1
      BY <2>1, <2>2, <2>7
    <3>2. Minute <= late /\ late + w <= end
      BY <1>2, <1>3, <2>1, <2>7, Limits
    <3>3. Rpm * Minute <= Rpm * late /\ Rpm * (late + w) <= Rpm * end
      <4>. HIDE DEF n, late, end
      <4>. QED
        BY <1>3, <2>5, <3>2, Limits, Products
    <3>. HIDE DEF n, before, late, end, p, at
    <3>4. (n + 1) * Minute + (Refilled - Minute) <= Rpm * late
      <4>1. CASE n = 0
        <5>1. (n + 1) * Minute = Minute
          BY <4>1, Limits
        <5>. QED
          BY <1>2, <2>6, <3>3, <5>1, Limits
      <4>2. CASE n * Minute + request_level <= Rpm * before
        BY <1>2, <2>6, <4>2, Limits
      <4>. QED
        BY <2>3, <4>1, <4>2
    <3>5. (n + 1) * Minute <= Rpm * end
      BY <1>2, <1>3, <2>6, <3>3, <3>4, Limits
    <3>. QED
      BY <1>1, <1>2, <3>1, <3>4, <3>5 DEF n, late, end
  <2>8. CASE ~(from <= at /\ at <= to)
    <3>1. n' = n
      BY <2>1, <2>2, <2>8
    <3>. HIDE DEF n, before, late, end, p, at
    <3>2. n = 0 \/ n * Minute + (Refilled - Minute) <= Rpm * late
      BY <1>2, <2>3, <2>6, Limits
    <3>. QED
      BY <1>1, <1>2, <2>4, <3>1, <3>2 DEF n, late, end
  <2>. QED
    BY <2>7, <2>8
<1>. HIDE DEF at, p
<1>6. Paced'
  BY <1>5 DEF Paced
<1>7. RequestsPaced'
  BY <1>5 DEF RequestsPaced
<1>. QED
  BY <1>6, <1>7

LEMMA InitPaced == Init => Paced /\ RequestsPaced
<1>. SUFFICES ASSUME Init PROVE Paced /\ RequestsPaced
  OBVIOUS
<1>1. scheduled = [tick \in 0..Horizon |-> 0]
  BY Zenon DEF Init
<1>2. ASSUME NEW from \in 0..Horizon, NEW to \in from..Horizon
      PROVE  /\ ScheduledIn(from, to) = 0
             /\ ScheduledIn(from, to) * Minute <= Rpm * (Minute + to - from + MaxWait)
  <2>1. from \in Nat /\ to \in Nat /\ to \in 0..Horizon /\ (from # 0 => from - 1 \in 0..Horizon)
        /\ Minute + to - from + MaxWait \in Int /\ Minute + to - from + MaxWait >= 0
    BY Limits
  <2>2. ScheduledIn(from, to) = 0
    BY <1>1, <2>1 DEF ScheduledIn
  <2>3. 0 <= Rpm * (Minute + to - from + MaxWait)
    BY <2>1, Limits, Products
  <2>. QED
    BY <2>2, <2>3, Limits
<1>. QED
  BY <1>2 DEF Paced, RequestsPaced

LEMMA StepPaced == PacedInv /\ [Next]_vars => PacedInv'
<1>. SUFFICES ASSUME PacedInv, [Next]_vars PROVE PacedInv'
  OBVIOUS
<1>1. IInv /\ IInv' /\ TypeOK /\ Paced /\ RequestsPaced
  BY StepHolds DEF PacedInv, IInv
<1>2. \/ Tick \/ UNCHANGED vars
      \/ \E t \in Threads :
           Acquire(t) \/ Refuse(t) \/ Send(t) \/ Record(t) \/ OnRateLimited(t) \/ Fail(t)
  BY Zenon DEF Next, Over
<1>3. CASE Tick \/ UNCHANGED vars
  BY <1>1, <1>3, RefillKeepsPace DEF PacedInv, Tick, vars, state
<1>4. ASSUME NEW t \in Threads, Acquire(t) PROVE PacedInv'
  BY <1>1, <1>4, AcquireKeepsPace DEF PacedInv
<1>5. ASSUME NEW t \in Threads, Refuse(t) \/ Record(t) \/ OnRateLimited(t) PROVE PacedInv'
  <2>1. scheduled' = scheduled /\ request_level' = Refilled /\ updated' = now
    BY <1>5 DEF Refuse, Record, OnRateLimited, Stamp
  <2>. QED
    BY <1>1, <2>1, RefillKeepsPace DEF PacedInv
<1>6. ASSUME NEW t \in Threads, Send(t) \/ Fail(t) PROVE PacedInv'
  BY <1>1, <1>6, RefillKeepsPace DEF PacedInv, Send, Fail, state
<1>. QED
  BY <1>2, <1>3, <1>4, <1>5, <1>6

\* The bucket's law (limiter.py:3-9): however reservations, refunds, blocks and refreshes
\* interleave, the requests scheduled within any span of time number at most the bucket's
\* capacity plus the refill over the span and the longest wait.
THEOREM RequestsArePaced == Spec => []RequestsPaced
<1>1. Init => PacedInv
  BY InitHolds, InitPaced DEF PacedInv
<1>2. PacedInv => RequestsPaced
  BY DEF PacedInv
<1>. QED
  BY <1>1, <1>2, StepPaced, PTL DEF Spec
=============================================================================
