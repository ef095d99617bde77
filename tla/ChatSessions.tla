---------------------------- MODULE ChatSessions ----------------------------
(***************************************************************************)
(* POST /chat and its SessionStore (app/main.py).  FastAPI runs the        *)
(* handler of each request on a thread of its pool: it reads the session's *)
(* history under the store's lock, asks the agent for as long as that      *)
(* takes, and appends the turn under the lock before it responds.  Any     *)
(* number of requests may be under way, for one session or for several.    *)
(* The store is a process-local OrderedDict: a restart empties it and      *)
(* drops the requests under way.                                           *)
(*                                                                         *)
(* A request stands for its question and its turn; a request without a     *)
(* session_id is one that names a session no other request has named.      *)
(***************************************************************************)
EXTENDS Naturals, Sequences, SequencesExt, FiniteSets

CONSTANTS
  Requests,       \* (bound) the requests of a behaviour, each made once
  Sessions,       \* the session ids they may name
  MaxSessions,    \* MAX_SESSIONS
  MaxTurns,       \* settings.max_history_turns, a PositiveInt
  MaxRestarts,    \* (bound)
  None

ASSUME SizesAssumption == MaxSessions \in Nat \ {0} /\ MaxTurns \in Nat \ {0}
ASSUME RestartsAssumption == MaxRestarts \in Nat
ASSUME NoneAssumption == None \notin Sessions

\* What ask() returned: a query that ran, a clarifying question, anything else (an error or
\* a refusal, with or without a query), or an exception.
Outcomes == {"answered", "clarify", "failed", "raised"}

VARIABLES
  order, turns,            \* the OrderedDict: its keys in order of insertion, their values
  pc, session, history, outcome,   \* each request's handler: its locals
  restarts,
  \* history: the turns handed to a session's list since it was created; how many sessions
  \* were created, and which in turn each was; the requests whose turn was dropped with
  \* their session
  log, births, birth, forgotten

store == <<order, turns>>
handlers == <<pc, session, history, outcome>>
ghost == <<log, births, birth, forgotten>>
vars == <<store, handlers, restarts, ghost>>

Init ==
  /\ order = <<>> /\ turns = [s \in Sessions |-> <<>>]
  /\ pc = [r \in Requests |-> "idle"] /\ session = [r \in Requests |-> None]
  /\ history = [r \in Requests |-> <<>>] /\ outcome = [r \in Requests |-> None]
  /\ restarts = 0
  /\ log = [s \in Sessions |-> <<>>] /\ births = 0
  /\ birth = [s \in Sessions |-> 0] /\ forgotten = {}

LastTurns(seq) == SubSeq(seq, 1 + (IF Len(seq) > MaxTurns THEN Len(seq) - MaxTurns ELSE 0), Len(seq))

-----------------------------------------------------------------------------
(* The handler. *)

\* sessions.get, and the call of agent.ask, which takes the last turns of it.
Start(r) ==
  /\ pc[r] = "idle"
  /\ \E s \in Sessions :
       /\ session' = [session EXCEPT ![r] = s]
       /\ history' = [history EXCEPT ![r] = LastTurns(turns[s])]
  /\ pc' = [pc EXCEPT ![r] = "asking"]
  /\ UNCHANGED <<store, outcome, restarts, ghost>>

\* (mutants) a turn is kept for a failed query too; or only for a query that ran.
KeepFailed(result) == result # "raised"
KeepAnswered(result) == result = "answered"

\* `result["sql"] and not result["error"]', or else `needs_clarification'.
Keep(result) == result \in {"answered", "clarify"}

AskReturns(r) ==
  /\ pc[r] = "asking"
  /\ \E result \in Outcomes :
       /\ outcome' = [outcome EXCEPT ![r] = result]
       /\ pc' = [pc EXCEPT ![r] = IF Keep(result) THEN "storing" ELSE "responding"]
  /\ UNCHANGED <<store, session, history, restarts, ghost>>

\* (mutant) the list written is the one read when the request began.
AppendedToRead(r) == LastTurns(Append(history[r], r))

Appended(r) == LastTurns(Append(turns[session[r]], r))

\* A key assigned again keeps its place in an OrderedDict.
Inserted(s) == IF s \in ToSet(order) THEN order ELSE Append(order, s)

\* (mutant) popitem() without last=False.
EvictNewest(keys) == Front(keys)

\* popitem(last=False)
Evict(keys) == Tail(keys)

\* SessionStore.append, one critical section: the turn, then at most one eviction.
Store(r) ==
  /\ pc[r] = "storing"
  /\ LET s == session[r]
         keys == Inserted(s)
         kept == IF Len(keys) > MaxSessions THEN Evict(keys) ELSE keys
     IN /\ order' = kept
        /\ turns' = [t \in Sessions |-> IF t \notin ToSet(kept) THEN <<>>
                                        ELSE IF t = s THEN Appended(r) ELSE turns[t]]
        /\ log' = [t \in Sessions |-> IF t \notin ToSet(kept) THEN <<>>
                                      ELSE IF t = s THEN Append(log[t], r) ELSE log[t]]
        /\ IF s \in ToSet(order) THEN UNCHANGED <<births, birth>>
           ELSE births' = births + 1 /\ birth' = [birth EXCEPT ![s] = births + 1]
        /\ forgotten' = forgotten \cup
             {q \in Requests : /\ pc[q] \in {"responding", "done"}
                               /\ session[q] \in ToSet(keys) \ ToSet(kept)}
  /\ pc' = [pc EXCEPT ![r] = "responding"]
  /\ UNCHANGED <<session, history, outcome, restarts>>

\* The response is sent.
Respond(r) ==
  /\ pc[r] = "responding"
  /\ pc' = [pc EXCEPT ![r] = "done"]
  /\ UNCHANGED <<store, session, history, outcome, restarts, ghost>>

\* The process restarts: the store is empty and the requests under way have no response.
Restart ==
  /\ restarts < MaxRestarts
  /\ restarts' = restarts + 1
  /\ order' = <<>> /\ turns' = [s \in Sessions |-> <<>>]
  /\ pc' = [r \in Requests |-> IF pc[r] = "idle" THEN "idle" ELSE "done"]
  /\ log' = [s \in Sessions |-> <<>>]
  /\ forgotten' = {r \in Requests : pc[r] # "idle"}
  /\ UNCHANGED <<session, history, outcome, births, birth>>

\* (bound) Every request was made and is over.
Over == (\A r \in Requests : pc[r] = "done") /\ UNCHANGED vars

Next ==
  \/ Over
  \/ \E r \in Requests : Start(r) \/ AskReturns(r) \/ Store(r) \/ Respond(r)
  \/ Restart

Spec == Init /\ [][Next]_vars

-----------------------------------------------------------------------------
(* Properties. *)

Turns == UNION {[1..n -> Requests] : n \in 0..MaxTurns}

TypeOK ==
  /\ order \in Seq(Sessions) /\ IsInjective(order) /\ Len(order) <= MaxSessions
  /\ turns \in [Sessions -> Turns]
  /\ \A s \in Sessions : turns[s] # <<>> <=> s \in ToSet(order)
  /\ pc \in [Requests -> {"idle", "asking", "storing", "responding", "done"}]
  /\ session \in [Requests -> Sessions \cup {None}]
  /\ history \in [Requests -> Turns]
  /\ outcome \in [Requests -> Outcomes \cup {None}]
  /\ restarts \in 0..MaxRestarts
  /\ log \in [Sessions -> Seq(Requests)] /\ births \in Nat /\ birth \in [Sessions -> Nat]
  /\ forgotten \in SUBSET Requests

\* main.py:69-73: however many requests of a session overlap, no turn is lost or reordered:
\* the session holds the last MaxTurns of those appended to it since it was created.
NoTurnLost == \A s \in Sessions : turns[s] = LastTurns(log[s])

\* main.py:148 "Only successful queries are worth replaying as context": what a request was
\* shown is of its own session, of requests that got an answer or a question back, each once.
ContextIsOwn ==
  \A r \in Requests :
    /\ IsInjective(history[r])
    /\ \A q \in ToSet(history[r]) :
         session[q] = session[r] /\ outcome[q] \in {"answered", "clarify"}

\* main.py:152 "so the follow-up answer has its context": a request made after a client got
\* an answer, or a question back, is shown that exchange, unless the session was dropped
\* or MaxTurns other exchanges of it have pushed it out.
Exchanges(s) ==
  {q \in Requests : session[q] = s /\ pc[q] \in {"responding", "done"}
                    /\ outcome[q] \in {"answered", "clarify"}}

FollowUpHasContext ==
  [][\A r, q \in Requests :
       /\ pc[r] = "idle" /\ pc'[r] = "asking"
       /\ pc[q] = "done" /\ q \in Exchanges(session'[r]) \ forgotten
       => \/ q \in ToSet(history'[r])
          \/ Cardinality(Exchanges(session'[r]) \ {q}) >= MaxTurns]_vars

\* main.py:72 "Oldest session is evicted first once MAX_SESSIONS is exceeded": one at a time,
\* only to make room, and never while an older one is kept; the session written stays.
EvictsOldest ==
  [][restarts' = restarts =>
       LET gone == ToSet(order) \ ToSet(order') IN
         /\ Cardinality(gone) <= 1
         /\ gone # {} => Len(order) = MaxSessions /\ Len(order') = MaxSessions
         /\ \A s \in gone, t \in ToSet(order') : birth'[s] < birth'[t]
         /\ \A r \in Requests :
              pc[r] = "storing" /\ pc'[r] = "responding" => session[r] \in ToSet(order')]_vars
=============================================================================
