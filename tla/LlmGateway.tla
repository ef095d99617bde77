---------------------------- MODULE LlmGateway ----------------------------
(***************************************************************************)
(* LlmGateway.complete (app/llm/gateway.py) over the response cache        *)
(* (cache.py), the client and the call log (calllog.py), for any number of *)
(* concurrent calls: the requests of the pool's threads, and of other      *)
(* processes that share the cache's file.  Each cache operation is one     *)
(* SQLite transaction and each log record one write under a lock; between  *)
(* them the calls interleave freely.  A process may die between any two.   *)
(*                                                                         *)
(* A question is all that cache_key hashes besides the model.  The answer  *)
(* of a network call stands for itself: it is named by the call.           *)
(***************************************************************************)
EXTENDS Naturals, Sequences

CONSTANTS
  Calls,          \* (bound) the calls of a behaviour, each made once
  Questions,
  MaxRestarts,    \* (bound)
  None

ASSUME RestartsAssumption == MaxRestarts \in Nat
Models == {"primary", "fallback"}

\* What complete ends with: a result, an LlmError, or any other exception.
Outcomes == {"result", "error", "raised"}

ASSUME NoneAssumption == None \notin Calls \cup Questions \cup Models \cup Outcomes

VARIABLES
  cache,                           \* the table: an answer by model and question
  pc, question, sampled, result,   \* each call's locals; sampled: temperature > 0
  outcome,
  log,                             \* each call's records, in order
  restarts,
  \* history: who answered a call over the network; the primary answers that were stored
  answered, stored

locals == <<question, sampled, result>>
vars == <<cache, pc, locals, outcome, log, restarts, answered, stored>>

Init ==
  /\ cache = [m \in Models |-> [q \in Questions |-> None]]
  /\ pc = [c \in Calls |-> "idle"] /\ question = [c \in Calls |-> None]
  /\ sampled = [c \in Calls |-> FALSE] /\ result = [c \in Calls |-> None]
  /\ outcome = [c \in Calls |-> None] /\ log = [c \in Calls |-> <<>>] /\ restarts = 0
  /\ answered = [c \in Calls |-> None] /\ stored = {}

-----------------------------------------------------------------------------
(* A call. *)

\* gateway.py:54
Cacheable(hot) == ~hot

\* An exception leaves complete: what is open, and the outcome of it.
Leave(c, how) == pc' = [pc EXCEPT ![c] = "done"] /\ outcome' = [outcome EXCEPT ![c] = how]

\* The call begins: cache.get of the primary's key, which may hit, miss or raise.
Lookup(c) ==
  /\ pc[c] = "idle"
  /\ \E q \in Questions, hot \in BOOLEAN :
       /\ question' = [question EXCEPT ![c] = q] /\ sampled' = [sampled EXCEPT ![c] = hot]
       /\ \/ /\ Cacheable(hot) /\ cache["primary"][q] # None
             /\ result' = [result EXCEPT ![c] =
                             [model |-> "primary", answer |-> cache["primary"][q], hit |-> TRUE]]
             /\ pc' = [pc EXCEPT ![c] = "logging"]
             /\ UNCHANGED outcome
          \/ /\ ~(Cacheable(hot) /\ cache["primary"][q] # None)
             /\ pc' = [pc EXCEPT ![c] = "asking"]
             /\ UNCHANGED <<result, outcome>>
          \/ /\ Cacheable(hot) /\ Leave(c, "raised")
             /\ UNCHANGED result
  /\ UNCHANGED <<cache, log, restarts, answered, stored>>

\* client.complete returns (LlmClient!Answered), from either model.
ClientAnswers(c) ==
  /\ pc[c] = "asking"
  /\ \E m \in Models :
       /\ result' = [result EXCEPT ![c] = [model |-> m, answer |-> c, hit |-> FALSE]]
       /\ answered' = [answered EXCEPT ![c] = m]
  /\ pc' = [pc EXCEPT ![c] = IF Cacheable(sampled[c]) THEN "storing" ELSE "logging"]
  /\ UNCHANGED <<cache, question, sampled, outcome, log, restarts, stored>>

\* client.complete raises (LlmClient!GiveUp): one failure record, unless the log raises too.
ClientFails(c) ==
  /\ pc[c] = "asking"
  /\ \/ /\ \E how \in {"error", "raised"} : Leave(c, how)
        /\ log' = [log EXCEPT ![c] = Append(@, [failed |-> TRUE, model |-> None, hit |-> FALSE])]
     \/ Leave(c, "raised") /\ UNCHANGED log
  /\ UNCHANGED <<cache, locals, restarts, answered, stored>>

\* (mutant) the key of the lookup is used again.
PrimaryKey(r) == "primary"

\* "Keyed to the model that answered".
StoreKey(r) == r.model

\* CachedCompletion
Completion(r) == r.answer

\* (mutant) a row per question, whichever model it is of.
OneRowPerQuestion(r, q) ==
  [m \in Models |-> [cache[m] EXCEPT ![q] = IF m = r.model THEN r.answer ELSE None]]

\* INSERT OR REPLACE
Written(r, q) == [cache EXCEPT ![StoreKey(r)][q] = Completion(r)]

\* cache.put, which commits or raises.
Put(c) ==
  /\ pc[c] = "storing"
  /\ \/ /\ cache' = Written(result[c], question[c])
        /\ stored' = IF result[c].model = "primary" THEN stored \cup {question[c]} ELSE stored
        /\ pc' = [pc EXCEPT ![c] = "logging"]
        /\ UNCHANGED outcome
     \/ Leave(c, "raised") /\ UNCHANGED <<cache, stored>>
  /\ UNCHANGED <<locals, log, restarts, answered>>

\* (mutant) what is logged is what was asked for.
RecordOfRequest(r) == [failed |-> FALSE, model |-> "primary", hit |-> r.hit]

RecordOf(r) == [failed |-> FALSE, model |-> r.model, hit |-> r.hit]

\* _done: the record is written, or raises in place of the result.
Done(c) ==
  /\ pc[c] = "logging"
  /\ \/ /\ log' = [log EXCEPT ![c] = Append(@, RecordOf(result[c]))]
        /\ Leave(c, "result")
     \/ Leave(c, "raised") /\ UNCHANGED log
  /\ UNCHANGED <<cache, locals, restarts, answered, stored>>

\* The process of some of the calls dies; the cache and the log are files.
Restart ==
  /\ restarts < MaxRestarts
  /\ restarts' = restarts + 1
  /\ \E dead \in SUBSET {c \in Calls : pc[c] \notin {"idle", "done"}} :
       pc' = [c \in Calls |-> IF c \in dead THEN "done" ELSE pc[c]]
  /\ UNCHANGED <<cache, locals, outcome, log, answered, stored>>

\* (bound) Every call was made and is over.
Over == (\A c \in Calls : pc[c] = "done") /\ UNCHANGED vars

Next ==
  \/ Over
  \/ \E c \in Calls : Lookup(c) \/ ClientAnswers(c) \/ ClientFails(c) \/ Put(c) \/ Done(c)
  \/ Restart

Spec == Init /\ [][Next]_vars

-----------------------------------------------------------------------------
(* Properties. *)

Results == [model : Models, answer : Calls, hit : BOOLEAN]
Records == [failed : BOOLEAN, model : Models \cup {None}, hit : BOOLEAN]

TypeOK ==
  /\ cache \in [Models -> [Questions -> Calls \cup {None}]]
  /\ pc \in [Calls -> {"idle", "asking", "storing", "logging", "done"}]
  /\ question \in [Calls -> Questions \cup {None}] /\ sampled \in [Calls -> BOOLEAN]
  /\ result \in [Calls -> Results \cup {None}]
  /\ outcome \in [Calls -> Outcomes \cup {None}]
  /\ log \in [Calls -> Seq(Records)] /\ restarts \in 0..MaxRestarts
  /\ answered \in [Calls -> Models \cup {None}] /\ stored \in SUBSET Questions

\* gateway.py:99 "a fallback answer never masks the primary", gateway.py:50 "at higher
\* temperatures a stored answer would defeat the sampling": what a result says of itself is
\* so.  Its answer was given over the network to the same question, by the model the result
\* names, and a hit to and from calls at temperature 0 only.
ResultsAreGenuine ==
  \A c \in Calls : pc[c] \in {"storing", "logging"} \/ outcome[c] = "result" =>
    LET source == result[c].answer IN
      /\ question[source] = question[c]
      /\ answered[source] = result[c].model
      /\ result[c].hit <=> source # c
      /\ result[c].hit => ~sampled[c] /\ ~sampled[source]

\* cache.py:6 "never spend quota twice on the same call": once an answer of the primary to a
\* question is stored, no call at temperature 0 that begins later sends it again, whatever
\* restarts, failures and fallback answers come between.  (A fallback's answer is stored
\* under a key that no lookup reads.)
StoredIsReused ==
  [][\A c \in Calls :
       pc[c] = "idle" /\ pc'[c] = "asking" /\ ~sampled'[c] => question'[c] \notin stored]_vars

\* calllog.py:1 "one JSON line per call, success or failure": never two of a call; a result
\* has its record, with its model and whether it was a hit; an LlmError has its failure.
RecordsMatchOutcomes ==
  \A c \in Calls :
    /\ Len(log[c]) <= 1
    /\ outcome[c] = "result" =>
         log[c] = <<[failed |-> FALSE, model |-> answered[result[c].answer], hit |-> answered[c] = None]>>
    /\ outcome[c] = "error" => Len(log[c]) = 1 /\ log[c][1].failed
    /\ pc[c] # "done" => log[c] = <<>>

=============================================================================
