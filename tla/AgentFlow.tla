------------------------------ MODULE AgentFlow ------------------------------
(***************************************************************************)
(* One question through the agent's graph (app/agent/graph.py).  Each node *)
(* of the graph is one action: what the node returns, merged into the      *)
(* AgentState, and the edge the router then takes.  The state's keys are   *)
(* the variables of the same names; a key the run has not set yet reads as *)
(* its `state.get' default (None, or Absent for the rows).                 *)
(*                                                                         *)
(* The model's replies, the provider's failures, the database's outcome    *)
(* and the number of rows it holds are the environment.                    *)
(***************************************************************************)
EXTENDS RowCap, FiniteSets

CONSTANTS
  Replies,          \* the replies a SQL-writing model call may give
  Matching,         \* how many rows a query may match
  RepairSettings,   \* the values max_repair_attempts may have
  RecursionLimit,   \* LangGraph stops a run that takes more supersteps
  None,             \* Python's None
  Raised            \* ask() let an exception other than LlmError through

Tokens == {"READ_ONLY", "OUT_OF_SCOPE"}     \* looked for anywhere in a reply

ValidatorCodes ==
  {"EMPTY_QUERY", "TOO_LONG", "PARSE_ERROR", "MULTIPLE_STATEMENTS",
   "FORBIDDEN_WRITE", "FORBIDDEN_STATEMENT", "NOT_A_SELECT", "UNKNOWN_TABLE",
   "FORBIDDEN_FUNCTION", "INVALID_LIMIT"}
ExecutorCodes == {"TIMEOUT", "EXECUTION_ERROR", "DB_DENIED"}
RepairableCodes == {"PARSE_ERROR", "UNKNOWN_TABLE", "EXECUTION_ERROR", "INVALID_LIMIT"}
LlmCodes == {"LLM_RATE_LIMITED", "LLM_TIMEOUT", "LLM_UNAVAILABLE",
             "LLM_MODEL_UNAVAILABLE", "LLM_BAD_REQUEST"}
InputCodes == {"INPUT_EMPTY", "INPUT_TOO_LONG", "INPUT_NO_TEXT"}
SqlCodes == ValidatorCodes \cup ExecutorCodes
NoError == "none"
Errors == SqlCodes \cup LlmCodes \cup InputCodes \cup {NoError}

(***************************************************************************)
(* A text is what a model wrote in reply to an SQL prompt, reduced to what *)
(* the code tells apart: the tokens in it, whether it opens with CLARIFY,  *)
(* what validate_sql's checks before the row cap say of it ("passes" or a  *)
(* code), its outermost LIMIT, and whether it is still the model's own     *)
(* wording (raw) or was regenerated from the checked syntax tree.          *)
(***************************************************************************)
Text == [raw : BOOLEAN, tokens : SUBSET Tokens, clarify : BOOLEAN,
         check : (ValidatorCodes \ {"INVALID_LIMIT"}) \cup {"passes"}, limit : Limits]

Verdict(text) ==
  IF text.check = "passes" /\ text.limit = InvalidLimit THEN "INVALID_LIMIT" ELSE text.check

\* What may reach the database: regenerated text whose LIMIT was enforced.
Statement == {t \in Text : ~t.raw /\ t.limit \in 0..(MaxRows + 1)}

ValidatedQuery == [sql : Statement, query_limit : Limits]

Validated(text) ==
  [sql |-> [text EXCEPT !.raw = FALSE, !.limit = SqlLimit(text.limit)],
   query_limit |-> QueryLimit(text.limit)]

ASSUME ReplyAssumption == Replies \subseteq {t \in Text : t.raw}
ASSUME MatchingAssumption == Matching \subseteq Nat
ASSUME RepairAssumption == RepairSettings \subseteq 0..3     \* config.py: ge=0, le=3
ASSUME RecursionAssumption == RecursionLimit \in Nat /\ RecursionLimit >= 17
Rowset == [rows : Nat, truncated : BOOLEAN, limit_reached : BOOLEAN]

ASSUME NoneAssumption == None \notin Text \cup ValidatedQuery \cup Rowset

(***************************************************************************)
(* An answer is a fixed reply of the code or the synthesizer's own text,   *)
(* which may be blank, may or may not say that the result is empty or      *)
(* partial, and may hold a number found in neither rows nor question.      *)
(* `notes' are the disclosure sentences check_answer appends.              *)
(***************************************************************************)
Notes == {"EMPTY_UNDISCLOSED", "TRUNCATION_UNDISCLOSED", "LIMIT_UNDISCLOSED"}
Findings == Notes \cup {"UNSUPPORTED_NUMBERS"}
AnswerKinds == {"absent", "rejection", "read_only", "out_of_scope", "clarify", "sql_error",
                "llm_error", "summary_unavailable", "summary"}
Answer == [kind : AnswerKinds, blank : BOOLEAN, saysEmpty : BOOLEAN, saysPartial : BOOLEAN,
           unsupported : BOOLEAN, notes : SUBSET Notes]
Fixed(kind) == [kind |-> kind, blank |-> kind = "absent", saysEmpty |-> FALSE,
                saysPartial |-> FALSE, unsupported |-> FALSE, notes |-> {}]
Summaries == {a \in Answer : /\ a.kind = "summary" /\ a.notes = {}
                             /\ a.blank => ~(a.saysEmpty \/ a.saysPartial \/ a.unsupported)}

Absent == -1          \* state["rows"] before execute has set it
Usage == [calls : Nat, cache_hits : Nat]
NoUsage == [calls |-> 0, cache_hits |-> 0]
AddUsage(usage, hit) ==
  IF hit THEN [usage EXCEPT !.cache_hits = @ + 1] ELSE [usage EXCEPT !.calls = @ + 1]

VARIABLES
  \* the graph's control point and the AgentState's keys
  pc, question, reply, sql, validated, rows, truncated, limit_reached, error, repairable,
  retry_count, max_repairs, out_of_scope, needs_clarification, answer, answer_checks, usage,
  \* what ask() returned: None while the graph runs
  result,
  \* history: supersteps taken, completed model calls, statements the database was
  \* given, the last of them, and the rows that one matches without a LIMIT
  steps, made, attempts, last_run, matching

data == <<sql, validated, rows, truncated, limit_reached>>
flags == <<error, repairable, retry_count, out_of_scope, needs_clarification>>
replyVars == <<answer, answer_checks>>
runs == <<attempts, last_run, matching>>
inputs == <<question, max_repairs>>
vars == <<pc, inputs, reply, data, flags, replyVars, usage, result, steps, made, runs>>

Nodes == {"guard_input", "generate_sql", "classify_intent", "validate", "execute", "retry",
          "format_answer", "check_answer"}

Results == [answer : Answer, sql : Statement \cup {None}, rows : Nat, truncated : BOOLEAN,
            limit_reached : BOOLEAN, error : Errors, out_of_scope : BOOLEAN,
            needs_clarification : BOOLEAN, checks : SUBSET Findings, usage : Usage]

ASSUME ResultAssumption == None # Raised /\ {None, Raised} \cap Results = {}
-----------------------------------------------------------------------------
(* What ask() does around the graph. *)

Init ==
  /\ question \in InputCodes \cup {"ok"}        \* what guard_input finds in the question
  /\ max_repairs \in RepairSettings
  /\ pc = "guard_input"
  /\ reply = None /\ sql = None /\ validated = None
  /\ rows = Absent /\ truncated = FALSE /\ limit_reached = FALSE
  /\ error = NoError /\ repairable = FALSE /\ retry_count = 0
  /\ out_of_scope = FALSE /\ needs_clarification = FALSE
  /\ answer = Fixed("absent") /\ answer_checks = {}
  /\ usage = NoUsage /\ made = NoUsage /\ steps = 0
  /\ attempts = 0 /\ last_run = None /\ matching = 0
  /\ result = None

\* A node runs: one superstep of LangGraph.
Step(node) == pc = node /\ steps' = steps + 1

\* The run ended at END: the plain dict made of the final state.
Return ==
  /\ pc = "end"
  /\ result' = [answer |-> answer,
                 sql |-> IF validated = None THEN None ELSE validated.sql,
                 rows |-> IF rows = Absent THEN 0 ELSE rows,
                 truncated |-> truncated, limit_reached |-> limit_reached,
                 error |-> error, out_of_scope |-> out_of_scope,
                 needs_clarification |-> needs_clarification,
                 checks |-> answer_checks, usage |-> usage]
  /\ pc' = "done"
  /\ UNCHANGED <<inputs, reply, data, flags, replyVars, usage, steps, made, runs>>

\* (mutant) the handler logs the failure and returns nothing.
LlmFailureDropped(code) ==
  pc' = "failed" /\ UNCHANGED <<inputs, reply, data, flags, replyVars, usage, made, result>>

\* `except LlmError': generation or repair failed.
LlmFailure(code) ==
  /\ result' = [answer |-> Fixed("llm_error"), sql |-> None, rows |-> 0,
                 truncated |-> FALSE, limit_reached |-> FALSE, error |-> code,
                 out_of_scope |-> FALSE, needs_clarification |-> FALSE,
                 checks |-> {}, usage |-> NoUsage]
  /\ pc' = "done"
  /\ UNCHANGED <<inputs, reply, data, flags, replyVars, usage, made>>

\* Any other exception (the cache's or the database file's) leaves ask() as it is.
Raise ==
  /\ result' = Raised
  /\ pc' = "done"
  /\ UNCHANGED <<inputs, reply, data, flags, replyVars, usage, made>>

-----------------------------------------------------------------------------
(* The nodes. *)

\* _complete: one model call that succeeded, from the cache or the provider.
Completed ==
  \E hit \in BOOLEAN : usage' = AddUsage(usage, hit) /\ made' = AddUsage(made, hit)

GuardInput ==
  /\ Step("guard_input")
  /\ \/ /\ question = "ok"
        /\ pc' = "generate_sql"
        /\ UNCHANGED <<error, answer, sql>>
     \/ /\ question # "ok"                                   \* blocked
        /\ error' = question /\ answer' = Fixed("rejection") /\ sql' = None
        /\ pc' = "end"
  /\ UNCHANGED <<inputs, reply, validated, rows, truncated, limit_reached, repairable,
                 retry_count, out_of_scope, needs_clarification, answer_checks, usage,
                 result, made, runs>>

GenerateSql ==
  /\ Step("generate_sql")
  /\ \/ /\ Completed
        /\ reply' \in Replies
        /\ pc' = "classify_intent"
        /\ UNCHANGED <<inputs, data, flags, replyVars, result>>
     \/ (\E code \in LlmCodes : LlmFailure(code)) \/ Raise
  /\ UNCHANGED runs

\* classify_reply: READ_ONLY anywhere, then an opening CLARIFY, then OUT_OF_SCOPE anywhere.
Intent(text) ==
  IF "READ_ONLY" \in text.tokens THEN "read_only"
  ELSE IF text.clarify THEN "clarify"
  ELSE IF "OUT_OF_SCOPE" \in text.tokens THEN "out_of_scope"
  ELSE "sql"

ClassifyIntent ==
  /\ Step("classify_intent")
  /\ LET intent == Intent(reply) IN
       \/ /\ intent \in {"read_only", "out_of_scope"}
          /\ out_of_scope' = TRUE /\ sql' = None /\ answer' = Fixed(intent)
          /\ pc' = "end"
          /\ UNCHANGED <<needs_clarification, error>>
       \/ /\ intent = "clarify"
          /\ needs_clarification' = TRUE /\ sql' = None /\ answer' = Fixed("clarify")
          /\ pc' = "end"
          /\ UNCHANGED <<out_of_scope, error>>
       \/ /\ intent = "sql"
          /\ sql' = reply /\ out_of_scope' = FALSE /\ error' = NoError
          /\ pc' = "validate"
          /\ UNCHANGED <<needs_clarification, answer>>
  /\ UNCHANGED <<inputs, reply, validated, rows, truncated, limit_reached, repairable,
                 retry_count, answer_checks, usage, result, made, runs>>

Accept ==
  /\ validated' = Validated(sql) /\ sql' = Validated(sql).sql
  /\ error' = NoError /\ repairable' = FALSE

Reject ==
  /\ error' = Verdict(sql) /\ repairable' = (Verdict(sql) \in RepairableCodes)
  /\ validated' = None
  /\ UNCHANGED sql

Validate ==
  /\ Step("validate")
  /\ pc' = "execute"
  /\ \/ out_of_scope /\ UNCHANGED <<sql, validated, error, repairable>>
     \/ ~out_of_scope /\ Verdict(sql) = "passes" /\ Accept
     \/ ~out_of_scope /\ Verdict(sql) # "passes" /\ Reject
  /\ UNCHANGED <<inputs, reply, rows, truncated, limit_reached, retry_count, out_of_scope,
                 needs_clarification, replyVars, usage, result, made, runs>>

\* (mutants) one repair too many; an empty result is retried.
RouteOneMore ==
  pc' = IF error' # NoError /\ repairable' /\ retry_count <= max_repairs
        THEN "retry" ELSE "format_answer"
RouteEmptyToo ==
  pc' = IF (repairable' \/ rows' = 0) /\ retry_count < max_repairs
        THEN "retry" ELSE "format_answer"

\* route_after_execute, on the state the node left.
RouteAfterExecute ==
  pc' = IF error' # NoError /\ repairable' /\ retry_count < max_repairs
        THEN "retry" ELSE "format_answer"

\* The database is given the validated statement.
Query ==
  /\ attempts' = attempts + 1 /\ last_run' = validated /\ matching' \in Matching

QueryAnswers ==
  /\ rows' = ShownRows(validated.sql.limit, matching')
  /\ truncated' = Truncated(validated.sql.limit, matching')
  /\ limit_reached' = LimitReached(validated.sql.limit, validated.query_limit, matching')
  /\ UNCHANGED <<error, repairable>>

QueryFails ==
  /\ error' \in ExecutorCodes /\ repairable' = (error' \in RepairableCodes)
  /\ UNCHANGED <<rows, truncated, limit_reached>>

Execute ==
  /\ Step("execute")
  /\ \/ /\ out_of_scope \/ error # NoError
        /\ UNCHANGED <<rows, truncated, limit_reached, error, repairable, runs>>
     \/ ~out_of_scope /\ error = NoError /\ Query /\ (QueryAnswers \/ QueryFails)
  /\ RouteAfterExecute
  /\ UNCHANGED <<inputs, reply, sql, validated, retry_count, out_of_scope,
                 needs_clarification, replyVars, usage, result, made>>

\* _connect fails before the statement is given to the database.
ExecuteRaises ==
  /\ Step("execute") /\ ~out_of_scope /\ error = NoError
  /\ Raise /\ UNCHANGED runs

\* (mutants) the validated query, or the error, of the failed attempt is kept.
ClearErrorOnly == error' = NoError /\ repairable' = FALSE /\ UNCHANGED validated
ClearQueryOnly == validated' = None /\ UNCHANGED <<error, repairable>>

\* `cleared': what a repair forgets of the attempt before it.
Cleared == error' = NoError /\ repairable' = FALSE /\ validated' = None

Retry ==
  /\ Step("retry")
  /\ \/ /\ Completed
        /\ Cleared
        /\ retry_count' = retry_count + 1
        /\ \E text \in Replies :
             \/ /\ "OUT_OF_SCOPE" \in text.tokens
                /\ out_of_scope' = TRUE /\ sql' = None /\ answer' = Fixed("out_of_scope")
             \/ /\ "OUT_OF_SCOPE" \notin text.tokens
                /\ sql' = text
                /\ UNCHANGED <<out_of_scope, answer>>
        /\ pc' = "validate"                       \* retried SQL is re-validated
        /\ UNCHANGED <<inputs, reply, rows, truncated, limit_reached, needs_clarification,
                       answer_checks, result>>
     \/ (\E code \in LlmCodes : LlmFailure(code)) \/ Raise
  /\ UNCHANGED runs

FormatAnswer ==
  /\ Step("format_answer")
  /\ \/ /\ pc' = "check_answer"
        /\ \/ /\ out_of_scope                       \* keeps the reply retry wrote
              /\ UNCHANGED <<answer, error, usage, made>>
           \/ /\ ~out_of_scope /\ error # NoError
              /\ answer' = Fixed("sql_error")
              /\ UNCHANGED <<error, usage, made>>
           \/ /\ ~out_of_scope /\ error = NoError
              /\ Completed /\ answer' \in Summaries
              /\ UNCHANGED error
           \/ /\ ~out_of_scope /\ error = NoError    \* the rows are real; only the summary fails
              /\ answer' = Fixed("summary_unavailable") /\ error' \in LlmCodes
              /\ UNCHANGED <<usage, made>>
        /\ UNCHANGED <<inputs, reply, data, repairable, retry_count, out_of_scope,
                       needs_clarification, answer_checks, result>>
     \/ ~out_of_scope /\ error = NoError /\ Raise
  /\ UNCHANGED runs

-----------------------------------------------------------------------------

\* (mutant) one disclosure in the answer stands for the other.
DisclosuresEither(a) == {n \in Notes : n = "EMPTY_UNDISCLOSED" /\ rows = 0 /\ ~a.saysEmpty
                                        /\ ~a.saysPartial}

\* check.py: the findings on an answer, given the rows it is about.
Disclosures(a) ==
  {n \in Notes :
    \/ n = "EMPTY_UNDISCLOSED" /\ rows = 0 /\ ~a.saysEmpty
    \/ n = "TRUNCATION_UNDISCLOSED" /\ truncated /\ ~a.saysPartial
    \/ n = "LIMIT_UNDISCLOSED" /\ ~truncated /\ limit_reached /\ ~a.saysPartial}

\* check.py appends a fixed sentence per disclosure; an unsupported number is only recorded.
CheckAnswer ==
  /\ Step("check_answer")
  /\ pc' = "end"
  /\ \/ /\ error # NoError \/ out_of_scope \/ answer.blank
        /\ answer_checks' = {}
        /\ UNCHANGED answer
     \/ /\ ~(error # NoError \/ out_of_scope \/ answer.blank)
        /\ answer' = [answer EXCEPT !.notes = Disclosures(answer)]
        /\ answer_checks' = Disclosures(answer) \cup
                            (IF answer.unsupported THEN {"UNSUPPORTED_NUMBERS"} ELSE {})
  /\ UNCHANGED <<inputs, reply, data, flags, usage, result, made, runs>>

Node ==
  \/ GuardInput \/ GenerateSql \/ ClassifyIntent \/ Validate
  \/ Execute \/ ExecuteRaises \/ Retry \/ FormatAnswer \/ CheckAnswer

Done == pc = "done" /\ UNCHANGED vars

Next == Node \/ Return \/ Done

\* A run is driven by the thread that called ask(), and every wait in it has a timeout.
Fairness == WF_vars(Node \/ Return)

Spec == Init /\ [][Next]_vars /\ Fairness

-----------------------------------------------------------------------------
(* Properties. *)

TypeOK ==
  /\ pc \in Nodes \cup {"end", "done"}
  /\ question \in InputCodes \cup {"ok"} /\ max_repairs \in RepairSettings
  /\ reply \in Replies \cup {None} /\ sql \in Text \cup {None}
  /\ validated \in ValidatedQuery \cup {None}
  /\ rows \in Nat \cup {Absent} /\ truncated \in BOOLEAN /\ limit_reached \in BOOLEAN
  /\ error \in Errors /\ repairable \in BOOLEAN /\ retry_count \in Nat
  /\ out_of_scope \in BOOLEAN /\ needs_clarification \in BOOLEAN
  /\ answer \in Answer /\ answer_checks \in SUBSET Findings
  /\ usage \in Usage /\ made \in Usage /\ steps \in Nat
  /\ attempts \in Nat /\ last_run \in ValidatedQuery \cup {None} /\ matching \in Nat
  /\ result \in Results \cup {None, Raised}

Returned == result \notin {None, Raised}

\* graph.py:310 "`sql` is the SQL that passed validation (and was executed), or None ...
\* rejected SQL is never presented as the query that ran": a query in the response is the
\* regenerated text of the last statement the database was given, in whatever order
\* rejections, failures, repairs and a late refusal came.
PresentedSqlRan ==
  Returned /\ result.sql # None =>
    /\ last_run # None /\ result.sql = last_run.sql
    /\ ~result.out_of_scope /\ ~result.needs_clarification

\* The response is one outcome, and its fields agree: a rejected question, a refusal, a
\* clarifying question, a failed query, a failed summary (rows kept) or an answer with
\* the rows of the query it shows.  No flag of an earlier attempt survives into it.
OneOutcome ==
  Returned =>
    LET kind == result.answer.kind IN
      /\ result.error \in InputCodes <=> kind = "rejection"
      /\ result.error \in SqlCodes <=> kind = "sql_error"
      /\ result.error \in LlmCodes <=> kind \in {"llm_error", "summary_unavailable"}
      /\ result.out_of_scope <=> kind \in {"read_only", "out_of_scope"}
      /\ result.needs_clarification <=> kind = "clarify"
      /\ kind \in {"summary", "summary_unavailable"} => result.sql # None
      /\ kind \notin {"summary", "summary_unavailable"} =>
           result.rows = 0 /\ ~result.truncated /\ ~result.limit_reached

\* executor.py:66-69: a response never passes off part of a result as the whole of it.
\* With fewer rows than the query matches, exactly one of the two flags says why, whatever
\* LIMIT the model wrote (or was shown back in a repair prompt) and however close to the cap.
PartialRowsFlagged ==
  Returned /\ result.answer.kind \in {"summary", "summary_unavailable"} =>
    /\ result.rows <= MaxRows
    /\ result.rows < matching => (result.truncated # result.limit_reached)
    /\ result.truncated => result.rows < matching

\* check.py:3-5: an answer that is not blank discloses an empty, capped or limited result,
\* in the model's words or in an appended sentence.
Discloses(a) ==
  /\ rows = 0 => a.saysEmpty \/ "EMPTY_UNDISCLOSED" \in a.notes
  /\ truncated => a.saysPartial \/ "TRUNCATION_UNDISCLOSED" \in a.notes
  /\ limit_reached => \/ a.saysPartial
                      \/ {"LIMIT_UNDISCLOSED", "TRUNCATION_UNDISCLOSED"} \cap a.notes # {}

AnswersDisclose ==
  Returned /\ result.answer.kind = "summary" /\ ~result.answer.blank => Discloses(result.answer)

\* The repair loop is bounded on every path: statements run, model calls made, and
\* supersteps, which stay below the limit at which LangGraph aborts the run.
BoundedWork ==
  /\ attempts <= max_repairs + 1
  /\ made.calls + made.cache_hits <= max_repairs + 2
  /\ steps < RecursionLimit

\* format_answer indexes state["rows"] and SqlErrorCode(state["error"]) without a default:
\* on every path there, one of the two was set by an earlier node.
FormatReadsWhatWasSet ==
  pc = "format_answer" /\ ~out_of_scope =>
    IF error = NoError THEN rows # Absent /\ validated # None ELSE error \in SqlCodes

\* Every question gets a response (or lets an exception through).
Terminates == <>(pc = "done")
-----------------------------------------------------------------------------
(* The graph keeps what ask() promises: its steps, seen through this mapping, are the   *)
(* contract's, and every node that gives the database nothing is a stutter.             *)

Shown(n, cut, limited) == [rows |-> n, truncated |-> cut, limit_reached |-> limited]

Contract == INSTANCE AskContract WITH
  Budgets <- RepairSettings,
  Statements <- Statement,
  Rowsets <- {Shown(n, cut, limited) : n \in 0..MaxRows, cut \in BOOLEAN, limited \in BOOLEAN},
  NoRows <- Shown(0, FALSE, FALSE),
  budget <- max_repairs,
  last <- IF last_run = None THEN None ELSE last_run.sql,
  fetched <- IF rows = Absent THEN None ELSE Shown(rows, truncated, limit_reached),
  response <- IF result \in {None, Raised} THEN result
              ELSE [sql |-> result.sql,
                    shown |-> Shown(result.rows, result.truncated, result.limit_reached)]

\* The agent implements the contract: bounded sequential attempts, and a response that shows
\* the statement that answered with its rows, or none.
ImplementsContract == Contract!Spec
=============================================================================
