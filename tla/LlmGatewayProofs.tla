------------------------- MODULE LlmGatewayProofs -------------------------
(***************************************************************************)
(* Proofs about the gateway and its cache (LlmGateway) for any number of   *)
(* concurrent calls and questions, and any number of restarts.             *)
(***************************************************************************)
EXTENDS LlmGateway, TLAPS

-----------------------------------------------------------------------------
(* The inductive invariant. *)

\* The call that gave an answer, by m to q: it will not be asked anything else.
Source(s, m, q) ==
  /\ s \in Calls /\ question[s] = q /\ answered[s] = m /\ ~sampled[s]
  /\ pc[s] \notin {"idle", "asking"}

\* A row of the cache is an answer of its model to its question, at temperature 0.
CacheGenuine ==
  \A m \in Models, q \in Questions : cache[m][q] # None => Source(cache[m][q], m, q)

Holding(c) == pc[c] \in {"storing", "logging"} \/ outcome[c] = "result"

OwnAnswer(c) ==
  /\ answered[c] \in Models /\ question[c] \in Questions
  /\ result[c] = [model |-> answered[c], answer |-> c, hit |-> FALSE]

CachedAnswer(c) ==
  /\ result[c] \in Results /\ result[c].hit /\ result[c].answer # c
  /\ ~sampled[c] /\ answered[c] = None
  /\ Source(result[c].answer, result[c].model, question[c])

\* A call: what it holds is its own answer, or a row of the cache; while it is open it has
\* neither an outcome nor a record.
Good(c) ==
  /\ Holding(c) => OwnAnswer(c) \/ CachedAnswer(c)
  /\ pc[c] = "storing" => OwnAnswer(c) /\ ~sampled[c]
  /\ pc[c] \in {"idle", "asking"} => answered[c] = None
  /\ pc[c] = "asking" => question[c] \in Questions
  /\ pc[c] # "done" => outcome[c] = None /\ log[c] = <<>>
  /\ Len(log[c]) <= 1
  /\ outcome[c] = "result" =>
       log[c] = <<[failed |-> FALSE, model |-> answered[result[c].answer], hit |-> answered[c] = None]>>
  /\ outcome[c] = "error" => Len(log[c]) = 1 /\ log[c][1].failed

StoredIsCached == \A q \in stored : cache["primary"][q] # None

IInv == TypeOK /\ CacheGenuine /\ StoredIsCached /\ \A c \in Calls : Good(c)

LEMMA NoneIsNothing ==
  /\ None # "result" /\ None # "error" /\ None # "raised" /\ None \notin Models
  /\ None \notin Calls /\ None \notin Questions
  BY NoneAssumption DEF Outcomes

LEMMA InitHolds == Init => IInv
<1>. SUFFICES ASSUME Init PROVE IInv
  OBVIOUS
<1>. USE DEF Init
<1>1. TypeOK
  BY RestartsAssumption DEF TypeOK, Models
<1>2. CacheGenuine /\ StoredIsCached
  BY DEF CacheGenuine, StoredIsCached
<1>3. Len(<<>>) = 0
  OBVIOUS
<1>4. ASSUME NEW c \in Calls PROVE Good(c)
  <2>1. /\ pc[c] = "idle" /\ question[c] = None /\ outcome[c] = None /\ log[c] = <<>>
        /\ answered[c] = None
    OBVIOUS
  <2>. QED BY <1>3, <2>1, NoneIsNothing DEF Good, Holding
<1>. QED BY <1>1, <1>2, <1>4 DEF IInv

\* A call that was answered keeps its question, its model and its temperature.
LEMMA SourceStays ==
  ASSUME TypeOK, [Next]_vars, NEW s \in Calls, pc[s] \notin {"idle", "asking"}
  PROVE  /\ question'[s] = question[s] /\ answered'[s] = answered[s] /\ sampled'[s] = sampled[s]
         /\ pc'[s] \notin {"idle", "asking"}
<1>. DEFINE Kept == /\ question'[s] = question[s] /\ answered'[s] = answered[s]
                    /\ sampled'[s] = sampled[s] /\ pc'[s] \notin {"idle", "asking"}
<1>2. ASSUME NEW c \in Calls, Lookup(c) PROVE Kept
  <2>1. c # s
    BY <1>2 DEF Lookup
  <2>2. PICK q0 \in Questions, hot \in BOOLEAN :
          question' = [question EXCEPT ![c] = q0] /\ sampled' = [sampled EXCEPT ![c] = hot]
    BY <1>2 DEF Lookup
  <2>3. question'[s] = question[s] /\ sampled'[s] = sampled[s]
    BY <2>1, <2>2 DEF TypeOK
  <2>4. pc'[s] = pc[s] /\ answered' = answered
    BY <1>2, <2>1 DEF Lookup, Leave, TypeOK
  <2>. QED BY <2>3, <2>4
<1>3. ASSUME NEW c \in Calls, ClientAnswers(c) PROVE Kept
  <2>1. c # s
    BY <1>3 DEF ClientAnswers
  <2>. QED BY <1>3, <2>1 DEF ClientAnswers, TypeOK
<1>4. ASSUME NEW c \in Calls, ClientFails(c) PROVE Kept
  BY <1>4 DEF ClientFails, Leave, TypeOK, locals
<1>5. ASSUME NEW c \in Calls, Put(c) PROVE Kept
  BY <1>5 DEF Put, Leave, TypeOK, locals
<1>6. ASSUME NEW c \in Calls, Done(c) PROVE Kept
  BY <1>6 DEF Done, Leave, TypeOK, locals
<1>7. CASE Restart
  BY <1>7 DEF Restart, TypeOK, locals
<1>8. CASE UNCHANGED vars
  BY <1>8 DEF vars, locals
<1>. QED BY <1>2, <1>3, <1>4, <1>5, <1>6, <1>7, <1>8 DEF Next, Over

-----------------------------------------------------------------------------
(* What a step leaves alone. *)

\* Nothing of the call changes.
Unmoved(d) ==
  /\ pc'[d] = pc[d] /\ question'[d] = question[d] /\ sampled'[d] = sampled[d]
  /\ result'[d] = result[d] /\ outcome'[d] = outcome[d] /\ log'[d] = log[d]
  /\ answered'[d] = answered[d]

LEMMA UnmovedStays ==
  ASSUME TypeOK, [Next]_vars, NEW d \in Calls, Good(d), Unmoved(d)
  PROVE  Good(d)'
<1>1. OwnAnswer(d) => OwnAnswer(d)'
  BY DEF Unmoved, OwnAnswer
<1>2. CachedAnswer(d) => CachedAnswer(d)' /\ answered'[result[d].answer] = answered[result[d].answer]
  BY SourceStays DEF Unmoved, CachedAnswer, Source
<1>3. OwnAnswer(d) => answered'[result[d].answer] = answered[result[d].answer]
  BY DEF Unmoved, OwnAnswer
<1>4. Holding(d)' <=> Holding(d)
  BY DEF Unmoved, Holding
<1>5. Holding(d)' => OwnAnswer(d)' \/ CachedAnswer(d)'
  BY <1>1, <1>2, <1>4 DEF Good
<1>6. pc'[d] = "storing" => OwnAnswer(d)' /\ ~sampled'[d]
  BY <1>1 DEF Good, Unmoved
<1>7. outcome[d] = "result" => answered'[result[d].answer] = answered[result[d].answer]
  BY <1>2, <1>3 DEF Good, Holding
<1>8. outcome'[d] = "result" =>
        log'[d] = <<[failed |-> FALSE, model |-> answered'[result'[d].answer], hit |-> answered'[d] = None]>>
  BY <1>7 DEF Good, Unmoved
<1>9. /\ pc'[d] \in {"idle", "asking"} => answered'[d] = None
      /\ pc'[d] = "asking" => question'[d] \in Questions
      /\ pc'[d] # "done" => outcome'[d] = None /\ log'[d] = <<>>
      /\ Len(log'[d]) <= 1
      /\ outcome'[d] = "error" => Len(log'[d]) = 1 /\ log'[d][1].failed
  BY DEF Good, Unmoved
<1>. QED BY <1>5, <1>6, <1>8, <1>9 DEF Good

\* A row stays one: the call it came from keeps its fields.
LEMMA RowsStay ==
  ASSUME TypeOK, CacheGenuine, [Next]_vars, NEW m \in Models, NEW q \in Questions,
         cache[m][q] # None
  PROVE  /\ cache[m][q] \in Calls
         /\ question'[cache[m][q]] = q /\ answered'[cache[m][q]] = m /\ ~sampled'[cache[m][q]]
         /\ pc'[cache[m][q]] \notin {"idle", "asking"}
<1>. DEFINE s == cache[m][q]
<1>1. Source(s, m, q)
  BY DEF CacheGenuine
<1>. HIDE DEF s
<1>2. s \in Calls /\ question[s] = q /\ answered[s] = m /\ ~sampled[s] /\ pc[s] \notin {"idle", "asking"}
  BY <1>1 DEF Source
<1>3. question'[s] = q /\ answered'[s] = m /\ ~sampled'[s] /\ pc'[s] \notin {"idle", "asking"}
  BY <1>2, SourceStays
<1>. QED BY <1>2, <1>3 DEF s

LEMMA CacheStays ==
  ASSUME TypeOK, CacheGenuine, StoredIsCached, [Next]_vars, UNCHANGED <<cache, stored>>
  PROVE  CacheGenuine' /\ StoredIsCached'
<1>1. ASSUME NEW m \in Models, NEW q \in Questions, cache'[m][q] # None
      PROVE  Source(cache[m][q], m, q)'
  <2>1. cache'[m][q] = cache[m][q] /\ Source(cache[m][q], m, q)
    BY <1>1 DEF CacheGenuine
  <2>. DEFINE s == cache'[m][q]
  <2>2. Source(s, m, q)
    BY <2>1
  <2>. HIDE DEF s
  <2>3. s \in Calls /\ question[s] = q /\ answered[s] = m /\ ~sampled[s] /\ pc[s] \notin {"idle", "asking"}
    BY <2>2 DEF Source
  <2>4. s \in Calls /\ question'[s] = q /\ answered'[s] = m /\ ~sampled'[s] /\ pc'[s] \notin {"idle", "asking"}
    BY <2>3, SourceStays
  <2>. QED BY <2>4 DEF Source, s
<1>2. CacheGenuine'
  BY <1>1 DEF CacheGenuine
<1>3. StoredIsCached'
  BY DEF StoredIsCached
<1>. QED BY <1>2, <1>3

\* The step of one call leaves the others as they were.
LEMMA OthersStay ==
  ASSUME IInv, [Next]_vars, NEW c \in Calls, Good(c)',
         \A d \in Calls \ {c} : Unmoved(d)
  PROVE  \A d \in Calls : Good(d)'
  BY UnmovedStays DEF IInv

-----------------------------------------------------------------------------
(* The steps. *)

LEMMA LookupHolds ==
  ASSUME IInv, NEW c \in Calls, Lookup(c)
  PROVE  IInv'
<1>1. PICK q \in Questions, hot \in BOOLEAN :
        /\ question' = [question EXCEPT ![c] = q] /\ sampled' = [sampled EXCEPT ![c] = hot]
        /\ \/ /\ Cacheable(hot) /\ cache["primary"][q] # None
              /\ result' = [result EXCEPT ![c] =
                              [model |-> "primary", answer |-> cache["primary"][q], hit |-> TRUE]]
              /\ pc' = [pc EXCEPT ![c] = "logging"]
              /\ UNCHANGED outcome
           \/ /\ pc' = [pc EXCEPT ![c] = "asking"]
              /\ UNCHANGED <<result, outcome>>
           \/ Leave(c, "raised") /\ UNCHANGED result
  BY DEF Lookup
<1>2. pc[c] = "idle" /\ UNCHANGED <<cache, log, restarts, answered, stored>> /\ [Next]_vars
  BY DEF Lookup, Next
<1>3. TypeOK /\ CacheGenuine /\ StoredIsCached /\ Good(c)
  BY DEF IInv
<1>4. CacheGenuine' /\ StoredIsCached'
  BY <1>2, <1>3, CacheStays
<1>5. question' \in [Calls -> Questions \cup {None}] /\ sampled' \in [Calls -> BOOLEAN]
  BY <1>1, <1>3 DEF TypeOK
<1>6. answered[c] = None /\ outcome[c] = None /\ log[c] = <<>> /\ Len(<<>>) = 0
  BY <1>2, <1>3 DEF Good
<1>7. CASE /\ Cacheable(hot) /\ cache["primary"][q] # None
           /\ result' = [result EXCEPT ![c] =
                           [model |-> "primary", answer |-> cache["primary"][q], hit |-> TRUE]]
           /\ pc' = [pc EXCEPT ![c] = "logging"]
           /\ UNCHANGED outcome
  <2>. DEFINE s == cache["primary"][q]
  <2>1. Source(s, "primary", q)
    BY <1>3, <1>7 DEF CacheGenuine, Models
  <2>. HIDE DEF s
  <2>2. s \in Calls /\ s # c /\ pc[s] \notin {"idle", "asking"}
    BY <1>2, <2>1 DEF Source
  <2>3. /\ question'[s] = q /\ answered'[s] = "primary" /\ ~sampled'[s]
        /\ pc'[s] \notin {"idle", "asking"}
    BY <1>2, <1>3, <2>1, <2>2, SourceStays DEF Source
  <2>4. /\ result'[c] = [model |-> "primary", answer |-> s, hit |-> TRUE] /\ pc'[c] = "logging"
        /\ question'[c] = q /\ ~sampled'[c] /\ outcome'[c] = None
    BY <1>1, <1>3, <1>6, <1>7 DEF TypeOK, Cacheable, s
  <2>5. result'[c] \in Results
    BY <2>2, <2>4 DEF Results, Models
  <2>6. CachedAnswer(c)'
    BY <1>2, <1>6, <2>2, <2>3, <2>4, <2>5 DEF CachedAnswer, Source
  <2>7. Good(c)'
    BY <1>2, <1>6, <2>4, <2>6, NoneIsNothing DEF Good
  <2>8. TypeOK'
    <3>1. result' \in [Calls -> Results \cup {None}]
      BY <1>3, <1>7, <2>4, <2>5 DEF TypeOK
    <3>. QED BY <1>2, <1>3, <1>5, <1>7, <3>1 DEF TypeOK
  <2>9. \A d \in Calls \ {c} : Unmoved(d)
    BY <1>1, <1>2, <1>3, <1>7 DEF TypeOK, Unmoved
  <2>. QED BY <1>2, <1>4, <2>7, <2>8, <2>9, OthersStay DEF IInv
<1>8. CASE pc' = [pc EXCEPT ![c] = "asking"] /\ UNCHANGED <<result, outcome>>
  <2>1. TypeOK'
    BY <1>2, <1>3, <1>5, <1>8 DEF TypeOK
  <2>2. pc'[c] = "asking" /\ question'[c] = q
    BY <1>1, <1>3, <1>8 DEF TypeOK
  <2>3. Good(c)'
    BY <1>2, <1>6, <1>8, <2>2, NoneIsNothing DEF Good, Holding
  <2>4. \A d \in Calls \ {c} : Unmoved(d)
    BY <1>1, <1>2, <1>3, <1>8 DEF TypeOK, Unmoved
  <2>. QED BY <1>2, <1>4, <2>1, <2>3, <2>4, OthersStay DEF IInv
<1>9. CASE Leave(c, "raised") /\ UNCHANGED result
  <2>1. TypeOK'
    BY <1>2, <1>3, <1>5, <1>9 DEF TypeOK, Leave, Outcomes
  <2>2. pc'[c] = "done" /\ outcome'[c] = "raised"
    BY <1>3, <1>9 DEF TypeOK, Leave
  <2>3. Good(c)'
    BY <1>2, <1>6, <2>2 DEF Good, Holding
  <2>4. \A d \in Calls \ {c} : Unmoved(d)
    BY <1>1, <1>2, <1>3, <1>9 DEF TypeOK, Unmoved, Leave
  <2>. QED BY <1>2, <1>4, <2>1, <2>3, <2>4, OthersStay DEF IInv
<1>. QED BY <1>1, <1>7, <1>8, <1>9

LEMMA ClientAnswersHolds ==
  ASSUME IInv, NEW c \in Calls, ClientAnswers(c)
  PROVE  IInv'
<1>1. PICK m \in Models :
        /\ result' = [result EXCEPT ![c] = [model |-> m, answer |-> c, hit |-> FALSE]]
        /\ answered' = [answered EXCEPT ![c] = m]
  BY DEF ClientAnswers
<1>2. /\ pc[c] = "asking" /\ [Next]_vars
      /\ pc' = [pc EXCEPT ![c] = IF ~sampled[c] THEN "storing" ELSE "logging"]
      /\ UNCHANGED <<cache, question, sampled, outcome, log, restarts, stored>>
  BY DEF ClientAnswers, Next, Cacheable
<1>3. TypeOK /\ CacheGenuine /\ StoredIsCached /\ Good(c)
  BY DEF IInv
<1>4. CacheGenuine' /\ StoredIsCached'
  BY <1>2, <1>3, CacheStays
<1>5. question[c] \in Questions /\ outcome[c] = None /\ log[c] = <<>> /\ Len(<<>>) = 0
  BY <1>2, <1>3 DEF Good
<1>6. [model |-> m, answer |-> c, hit |-> FALSE] \in Results
  BY DEF Results
<1>7. TypeOK'
  BY <1>1, <1>2, <1>3, <1>6 DEF TypeOK
<1>8. OwnAnswer(c)'
  BY <1>1, <1>2, <1>3, <1>5 DEF TypeOK, OwnAnswer
<1>9. Good(c)'
  <2>1. pc'[c] \in {"storing", "logging"} /\ (pc'[c] = "storing" => ~sampled'[c])
    BY <1>2, <1>3 DEF TypeOK
  <2>. QED BY <1>2, <1>5, <1>8, <2>1, NoneIsNothing DEF Good
<1>10. \A d \in Calls \ {c} : Unmoved(d)
  BY <1>1, <1>2, <1>3 DEF TypeOK, Unmoved
<1>. QED BY <1>2, <1>4, <1>7, <1>9, <1>10, OthersStay DEF IInv

LEMMA ClientFailsHolds ==
  ASSUME IInv, NEW c \in Calls, ClientFails(c)
  PROVE  IInv'
<1>. DEFINE failure == [failed |-> TRUE, model |-> None, hit |-> FALSE]
<1>1. PICK how \in {"error", "raised"} :
        /\ Leave(c, how)
        /\ \/ log' = [log EXCEPT ![c] = Append(@, failure)]
           \/ how = "raised" /\ UNCHANGED log
  BY DEF ClientFails
<1>2. pc[c] = "asking" /\ [Next]_vars /\ UNCHANGED <<cache, question, sampled, result, restarts, answered, stored>>
  BY DEF ClientFails, Next, locals
<1>3. TypeOK /\ CacheGenuine /\ StoredIsCached /\ Good(c)
  BY DEF IInv
<1>4. CacheGenuine' /\ StoredIsCached'
  BY <1>2, <1>3, CacheStays
<1>5. log[c] = <<>> /\ failure \in Records
  BY <1>2, <1>3 DEF Good, Records
<1>6. pc'[c] = "done" /\ outcome'[c] = how
  BY <1>1, <1>3 DEF Leave, TypeOK
<1>. HIDE DEF failure
<1>7. Append(<<>>, failure) \in Seq(Records) /\ Append(<<>>, failure) = <<failure>>
  BY <1>5
<1>8. /\ log' \in [Calls -> Seq(Records)]
      /\ log'[c] = <<failure>> \/ (how = "raised" /\ log'[c] = <<>>)
  <2>1. CASE log' = [log EXCEPT ![c] = Append(log[c], failure)]
    BY <1>3, <1>5, <1>7, <2>1 DEF TypeOK
  <2>2. CASE how = "raised" /\ UNCHANGED log
    BY <1>3, <1>5, <2>2 DEF TypeOK
  <2>. QED BY <1>1, <2>1, <2>2
<1>9. TypeOK'
  BY <1>1, <1>2, <1>3, <1>8 DEF TypeOK, Leave, Outcomes
<1>10. Good(c)'
  <2>1. Len(<<failure>>) = 1 /\ <<failure>>[1].failed /\ Len(<<>>) = 0
    BY DEF failure
  <2>2. CASE log'[c] = <<failure>>
    BY <1>6, <2>1, <2>2 DEF Good, Holding
  <2>3. CASE how = "raised" /\ log'[c] = <<>>
    BY <1>6, <2>1, <2>3 DEF Good, Holding
  <2>. QED BY <1>8, <2>2, <2>3
<1>11. \A d \in Calls \ {c} : Unmoved(d)
  BY <1>1, <1>2, <1>3 DEF TypeOK, Unmoved, Leave
<1>. QED BY <1>2, <1>4, <1>9, <1>10, <1>11, OthersStay DEF IInv

LEMMA PutHolds ==
  ASSUME IInv, NEW c \in Calls, Put(c)
  PROVE  IInv'
<1>1. /\ pc[c] = "storing" /\ [Next]_vars
      /\ UNCHANGED <<question, sampled, result, log, restarts, answered>>
  BY DEF Put, Next, locals
<1>2. TypeOK /\ CacheGenuine /\ StoredIsCached /\ Good(c)
  BY DEF IInv
<1>3. OwnAnswer(c) /\ ~sampled[c] /\ outcome[c] = None /\ log[c] = <<>> /\ Len(<<>>) = 0
  BY <1>1, <1>2 DEF Good
<1>4. CASE /\ cache' = Written(result[c], question[c])
           /\ stored' = IF result[c].model = "primary" THEN stored \cup {question[c]} ELSE stored
           /\ pc' = [pc EXCEPT ![c] = "logging"]
           /\ UNCHANGED outcome
  <2>. DEFINE m0 == answered[c]  q0 == question[c]
  <2>1. /\ m0 \in Models /\ q0 \in Questions
        /\ result[c].model = m0 /\ result[c].answer = c
    BY <1>3 DEF OwnAnswer
  <2>2. cache' = [cache EXCEPT ![m0][q0] = c]
    BY <1>4, <2>1 DEF Written, StoreKey, Completion
  <2>3. stored' = IF m0 = "primary" THEN stored \cup {q0} ELSE stored
    BY <1>4, <2>1
  <2>4. /\ question'[c] = q0 /\ answered'[c] = m0 /\ ~sampled'[c]
        /\ pc'[c] \notin {"idle", "asking"}
    BY <1>1, <1>2, <1>3, <1>4 DEF TypeOK
  <2>. HIDE DEF m0, q0
  <2>5. ASSUME NEW m \in Models, NEW q \in Questions
        PROVE  \/ m = m0 /\ q = q0 /\ cache'[m][q] = c
               \/ ~(m = m0 /\ q = q0) /\ cache'[m][q] = cache[m][q]
    BY <1>2, <2>1, <2>2 DEF TypeOK
  <2>6. ASSUME NEW m \in Models, NEW q \in Questions, cache'[m][q] # None
        PROVE  Source(cache[m][q], m, q)'
    <3>1. CASE m = m0 /\ q = q0 /\ cache'[m][q] = c
      <4>1. cache[m][q]' = c
        BY <3>1
      <4>. QED BY <2>4, <3>1, <4>1 DEF Source
    <3>2. CASE cache'[m][q] = cache[m][q]
      BY <1>1, <1>2, <2>6, <3>2, RowsStay DEF Source
    <3>. QED BY <2>5, <3>1, <3>2
  <2>7. CacheGenuine'
    BY <2>6 DEF CacheGenuine
  <2>8. StoredIsCached'
    <3>1. ASSUME NEW q \in stored' PROVE cache'["primary"][q] # None
      <4>1. q \in Questions /\ "primary" \in Models /\ c # None
        BY <1>2, <2>1, <2>3, NoneIsNothing DEF TypeOK, Models
      <4>2. CASE q \in stored
        BY <1>2, <2>5, <4>1, <4>2 DEF StoredIsCached
      <4>3. CASE q = q0 /\ m0 = "primary"
        BY <2>5, <4>1, <4>3
      <4>. QED BY <2>3, <4>2, <4>3
    <3>. QED BY <3>1 DEF StoredIsCached
  <2>9. TypeOK'
    <3>1. cache' \in [Models -> [Questions -> Calls \cup {None}]]
      BY <1>2, <2>1, <2>2 DEF TypeOK
    <3>2. stored' \in SUBSET Questions
      BY <1>2, <2>1, <2>3 DEF TypeOK
    <3>. QED BY <1>1, <1>2, <1>4, <3>1, <3>2 DEF TypeOK
  <2>10. Good(c)'
    <3>1. pc'[c] = "logging"
      BY <1>2, <1>4 DEF TypeOK
    <3>2. OwnAnswer(c)'
      BY <1>1, <1>3 DEF OwnAnswer
    <3>. QED BY <1>1, <1>3, <1>4, <3>1, <3>2, NoneIsNothing DEF Good
  <2>11. \A d \in Calls \ {c} : Unmoved(d)
    BY <1>1, <1>2, <1>4 DEF TypeOK, Unmoved
  <2>. QED BY <1>1, <2>7, <2>8, <2>9, <2>10, <2>11, OthersStay DEF IInv
<1>5. CASE Leave(c, "raised") /\ UNCHANGED <<cache, stored>>
  <2>1. CacheGenuine' /\ StoredIsCached'
    BY <1>1, <1>2, <1>5, CacheStays
  <2>2. TypeOK'
    BY <1>1, <1>2, <1>5 DEF TypeOK, Leave, Outcomes
  <2>3. pc'[c] = "done" /\ outcome'[c] = "raised"
    BY <1>2, <1>5 DEF TypeOK, Leave
  <2>4. Good(c)'
    BY <1>1, <1>3, <2>3 DEF Good, Holding
  <2>5. \A d \in Calls \ {c} : Unmoved(d)
    BY <1>1, <1>2, <1>5 DEF TypeOK, Unmoved, Leave
  <2>. QED BY <1>1, <2>1, <2>2, <2>4, <2>5, OthersStay DEF IInv
<1>. QED BY <1>4, <1>5 DEF Put

LEMMA DoneHolds ==
  ASSUME IInv, NEW c \in Calls, Done(c)
  PROVE  IInv'
<1>. DEFINE record == RecordOf(result[c])
<1>1. /\ pc[c] = "logging" /\ [Next]_vars
      /\ UNCHANGED <<cache, question, sampled, result, restarts, answered, stored>>
  BY DEF Done, Next, locals
<1>2. TypeOK /\ CacheGenuine /\ StoredIsCached /\ Good(c)
  BY DEF IInv
<1>3. CacheGenuine' /\ StoredIsCached'
  BY <1>1, <1>2, CacheStays
<1>4. log[c] = <<>> /\ Len(<<>>) = 0 /\ (OwnAnswer(c) \/ CachedAnswer(c))
  BY <1>1, <1>2 DEF Good, Holding
<1>5. result[c] \in Results /\ (OwnAnswer(c)' \/ CachedAnswer(c)')
  <2>1. CASE OwnAnswer(c)
    <3>1. [model |-> answered[c], answer |-> c, hit |-> FALSE] \in Results
      BY <2>1 DEF OwnAnswer, Results
    <3>. QED BY <1>1, <2>1, <3>1 DEF OwnAnswer
  <2>2. CASE CachedAnswer(c)
    BY <1>1, <1>2, <2>2, SourceStays DEF CachedAnswer, Source
  <2>. QED BY <1>4, <2>1, <2>2
<1>6. record = [failed |-> FALSE, model |-> answered[result[c].answer], hit |-> answered[c] = None]
  <2>1. CASE OwnAnswer(c)
    <3>1. answered[c] # None /\ (answered[c] = None) = FALSE
      BY <2>1, NoneIsNothing DEF OwnAnswer
    <3>2. result[c].model = answered[c] /\ result[c].answer = c /\ result[c].hit = FALSE
      BY <2>1 DEF OwnAnswer
    <3>. QED BY <3>1, <3>2 DEF RecordOf
  <2>2. CASE CachedAnswer(c)
    <3>1. (answered[c] = None) = TRUE /\ result[c].hit = TRUE
      BY <2>2 DEF CachedAnswer, Results
    <3>2. answered[result[c].answer] = result[c].model
      BY <2>2 DEF CachedAnswer, Source
    <3>. QED BY <3>1, <3>2 DEF RecordOf
  <2>. QED BY <1>4, <2>1, <2>2
<1>7. record \in Records
  <2>1. result[c].model \in Models \cup {None} /\ result[c].hit \in BOOLEAN
    BY <1>5 DEF Results
  <2>2. record = [failed |-> FALSE, model |-> result[c].model, hit |-> result[c].hit]
    BY DEF RecordOf
  <2>. HIDE DEF record
  <2>. QED BY <2>1, <2>2 DEF Records
<1>8. ASSUME NEW how \in Outcomes, Leave(c, how)
      PROVE  pc'[c] = "done" /\ outcome'[c] = how
  BY <1>2, <1>8 DEF TypeOK, Leave
<1>9. CASE log' = [log EXCEPT ![c] = Append(log[c], record)] /\ Leave(c, "result")
  <2>. HIDE DEF record
  <2>1. Append(<<>>, record) \in Seq(Records) /\ Append(<<>>, record) = <<record>> /\ Len(<<record>>) = 1
    BY <1>7
  <2>2. log' \in [Calls -> Seq(Records)] /\ log'[c] = <<record>>
    BY <1>2, <1>4, <1>9, <2>1 DEF TypeOK
  <2>3. TypeOK'
    BY <1>1, <1>2, <1>9, <2>2 DEF TypeOK, Leave, Outcomes
  <2>4. pc'[c] = "done" /\ outcome'[c] = "result"
    BY <1>8, <1>9 DEF Outcomes
  <2>5. log'[c] = <<[failed |-> FALSE, model |-> answered'[result'[c].answer], hit |-> answered'[c] = None]>>
    BY <1>1, <1>6, <2>2
  <2>6. Good(c)'
    BY <1>5, <2>1, <2>2, <2>4, <2>5 DEF Good
  <2>7. \A d \in Calls \ {c} : Unmoved(d)
    BY <1>1, <1>2, <1>9 DEF TypeOK, Unmoved, Leave
  <2>. QED BY <1>1, <1>3, <2>3, <2>6, <2>7, OthersStay DEF IInv
<1>10. CASE Leave(c, "raised") /\ UNCHANGED log
  <2>1. TypeOK'
    BY <1>1, <1>2, <1>10 DEF TypeOK, Leave, Outcomes
  <2>2. pc'[c] = "done" /\ outcome'[c] = "raised"
    BY <1>8, <1>10 DEF Outcomes
  <2>3. Good(c)'
    BY <1>4, <1>10, <2>2 DEF Good, Holding
  <2>4. \A d \in Calls \ {c} : Unmoved(d)
    BY <1>1, <1>2, <1>10 DEF TypeOK, Unmoved, Leave
  <2>. QED BY <1>1, <1>3, <2>1, <2>3, <2>4, OthersStay DEF IInv
<1>. QED BY <1>9, <1>10 DEF Done

LEMMA RestartHolds ==
  ASSUME IInv, Restart
  PROVE  IInv'
<1>1. PICK dead \in SUBSET {c \in Calls : pc[c] \notin {"idle", "done"}} :
        pc' = [c \in Calls |-> IF c \in dead THEN "done" ELSE pc[c]]
  BY DEF Restart
<1>2. /\ restarts < MaxRestarts /\ restarts' = restarts + 1 /\ [Next]_vars
      /\ UNCHANGED <<cache, question, sampled, result, outcome, log, answered, stored>>
  BY DEF Restart, Next, locals
<1>3. TypeOK /\ CacheGenuine /\ StoredIsCached
  BY DEF IInv
<1>4. CacheGenuine' /\ StoredIsCached'
  BY <1>2, <1>3, CacheStays
<1>5. TypeOK'
  <2>1. restarts' \in 0..MaxRestarts
    BY <1>2, <1>3, RestartsAssumption DEF TypeOK
  <2>2. pc' \in [Calls -> {"idle", "asking", "storing", "logging", "done"}]
    BY <1>1, <1>3 DEF TypeOK
  <2>. QED BY <1>2, <1>3, <2>1, <2>2 DEF TypeOK
<1>6. ASSUME NEW c \in Calls PROVE Good(c)'
  <2>1. Good(c)
    BY DEF IInv
  <2>2. CASE c \in dead
    <3>1. pc'[c] = "done" /\ pc[c] # "done"
      BY <1>1, <2>2
    <3>2. outcome[c] = None /\ log[c] = <<>> /\ Len(<<>>) = 0
      BY <2>1, <3>1 DEF Good
    <3>. QED BY <1>2, <3>1, <3>2, NoneIsNothing DEF Good, Holding
  <2>3. CASE c \notin dead
    <3>1. Unmoved(c)
      BY <1>1, <1>2, <2>3 DEF Unmoved
    <3>. QED BY <1>2, <1>3, <2>1, <3>1, UnmovedStays
  <2>. QED BY <2>2, <2>3
<1>. QED BY <1>4, <1>5, <1>6 DEF IInv

LEMMA StepHolds == IInv /\ [Next]_vars => IInv'
<1>. SUFFICES ASSUME IInv, [Next]_vars PROVE IInv'
  OBVIOUS
<1>1. CASE UNCHANGED vars
  <2>1. TypeOK /\ CacheGenuine /\ StoredIsCached
    BY DEF IInv
  <2>2. TypeOK'
    BY <1>1, <2>1 DEF TypeOK, vars, locals
  <2>3. CacheGenuine' /\ StoredIsCached'
    BY <1>1, <2>1, CacheStays DEF vars
  <2>4. \A c \in Calls : Good(c)'
    BY <1>1, <2>1, UnmovedStays DEF IInv, Unmoved, vars, locals
  <2>. QED BY <2>2, <2>3, <2>4 DEF IInv
<1>. QED BY <1>1, LookupHolds, ClientAnswersHolds, ClientFailsHolds, PutHolds, DoneHolds, RestartHolds
         DEF Next, Over

LEMMA Inductive == Spec => []IInv
<1>. QED BY InitHolds, StepHolds, PTL DEF Spec

-----------------------------------------------------------------------------
(* The theorems. *)

\* gateway.py and cache.py: the table, the calls' locals and the log keep their types.
THEOREM GatewayTypeCorrect == Spec => []TypeOK
<1>1. IInv => TypeOK
  BY DEF IInv
<1>. QED BY <1>1, Inductive, PTL

\* gateway.py:99: what a result says of itself is so, whichever model answered, whichever
\* calls ran beside it and whatever was stored before.
THEOREM ResultsAreAlwaysGenuine == Spec => []ResultsAreGenuine
<1>1. ASSUME IInv PROVE ResultsAreGenuine
  <2>1. ASSUME NEW c \in Calls, pc[c] \in {"storing", "logging"} \/ outcome[c] = "result"
        PROVE  /\ question[result[c].answer] = question[c]
               /\ answered[result[c].answer] = result[c].model
               /\ result[c].hit <=> result[c].answer # c
               /\ result[c].hit => ~sampled[c] /\ ~sampled[result[c].answer]
    <3>1. OwnAnswer(c) \/ CachedAnswer(c)
      BY <1>1, <2>1 DEF IInv, Good, Holding
    <3>2. CASE OwnAnswer(c)
      <4>1. result[c].model = answered[c] /\ result[c].answer = c /\ ~result[c].hit
        BY <3>2 DEF OwnAnswer
      <4>. QED BY <4>1
    <3>3. CASE CachedAnswer(c)
      BY <3>3 DEF CachedAnswer, Source
    <3>. QED BY <3>1, <3>2, <3>3
  <2>. QED BY <2>1 DEF ResultsAreGenuine
<1>. QED BY <1>1, Inductive, PTL

\* calllog.py:1: a call has at most one record, a result its own, an LlmError a failure.
THEOREM OneRecordPerOutcome == Spec => []RecordsMatchOutcomes
<1>1. IInv => RecordsMatchOutcomes
  BY DEF IInv, Good, RecordsMatchOutcomes
<1>. QED BY <1>1, Inductive, PTL

\* cache.py:6: a question whose primary answer is stored is never sent again, through any
\* number of failures, fallbacks and restarts.
THEOREM QuotaIsSpentOnce == Spec => StoredIsReused
<1>. DEFINE Reused == \A c \in Calls :
                       pc[c] = "idle" /\ pc'[c] = "asking" /\ ~sampled'[c] => question'[c] \notin stored
<1>1. ASSUME IInv, [Next]_vars PROVE Reused
  <2>. SUFFICES ASSUME NEW c \in Calls, pc[c] = "idle", pc'[c] = "asking", ~sampled'[c]
                PROVE  question'[c] \notin stored
    OBVIOUS
  <2>1. TypeOK /\ StoredIsCached
    BY <1>1 DEF IInv
  <2>2. Lookup(c)
    <3>1. ASSUME NEW d \in Calls, d # c, Lookup(d) PROVE pc'[c] = pc[c]
      BY <2>1, <3>1 DEF Lookup, Leave, TypeOK
    <3>2. ASSUME NEW d \in Calls, ClientAnswers(d) \/ ClientFails(d) \/ Put(d) \/ Done(d)
          PROVE  pc'[c] = pc[c]
      BY <2>1, <3>2 DEF ClientAnswers, ClientFails, Put, Done, Leave, TypeOK
    <3>3. ASSUME Restart \/ UNCHANGED vars PROVE pc'[c] = pc[c]
      BY <2>1, <3>3 DEF Restart, vars, TypeOK
    <3>. QED BY <1>1, <3>1, <3>2, <3>3 DEF Next, Over
  <2>3. PICK q \in Questions, hot \in BOOLEAN :
          /\ question' = [question EXCEPT ![c] = q] /\ sampled' = [sampled EXCEPT ![c] = hot]
          /\ \/ pc' = [pc EXCEPT ![c] = "logging"]
             \/ ~(Cacheable(hot) /\ cache["primary"][q] # None)
             \/ Leave(c, "raised")
    BY <2>2 DEF Lookup
  <2>4. question'[c] = q /\ ~hot
    BY <2>1, <2>3 DEF TypeOK
  <2>5. cache["primary"][q] = None
    BY <2>1, <2>3, <2>4 DEF TypeOK, Leave, Cacheable
  <2>. QED BY <2>1, <2>4, <2>5 DEF StoredIsCached
<1>2. IInv /\ [Next]_vars => [Reused]_vars
  BY <1>1
<1>. QED BY <1>2, Inductive, PTL DEF Spec, StoredIsReused
=============================================================================
