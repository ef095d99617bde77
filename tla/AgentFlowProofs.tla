--------------------------- MODULE AgentFlowProofs ---------------------------
(***************************************************************************)
(* Proofs about one question's run (AgentFlow), for every reply set, row   *)
(* cap, database size and repair setting the configuration allows.         *)
(*                                                                         *)
(* The properties are about the response; none is inductive.  What each    *)
(* node may rely on when it runs is: the inductive invariant IInv says, by *)
(* control point, which keys of the state are set and how they relate.     *)
(***************************************************************************)
EXTENDS AgentFlow, TLAPS

calls == made.calls + made.cache_hits

Early == {"guard_input", "generate_sql", "classify_intent"}
Loop == {"validate", "execute", "retry"}
Late == {"format_answer", "check_answer", "end"}

\* How far the run is, as a function of the control point and the repairs spent.
Progress ==
  /\ retry_count <= max_repairs
  /\ pc \in Early => retry_count = 0 /\ attempts = 0
  /\ pc = "guard_input" => steps = 0 /\ calls = 0
  /\ pc = "generate_sql" => steps = 1 /\ calls = 0
  /\ pc = "classify_intent" => steps = 2 /\ calls = 1
  /\ pc = "validate" => steps = 3 + 3 * retry_count /\ attempts <= retry_count
  /\ pc = "execute" => steps = 4 + 3 * retry_count /\ attempts <= retry_count
  /\ pc \in {"retry", "format_answer"} => steps = 5 + 3 * retry_count
  /\ pc = "retry" => retry_count < max_repairs
  /\ pc \in {"validate", "execute", "retry", "format_answer"} => calls = 1 + retry_count
  /\ pc = "check_answer" => steps = 6 + 3 * retry_count
  /\ attempts <= retry_count + 1
  /\ pc # "done" => calls <= 2 + retry_count /\ steps <= 7 + 3 * retry_count
  /\ pc = "done" => calls <= 2 + max_repairs /\ steps <= 7 + 3 * max_repairs

\* Nothing is fetched, answered or returned before its node.
Unset ==
  /\ result # None <=> pc = "done"
  /\ pc \in Early \cup Loop => rows = Absent /\ ~needs_clarification
  /\ pc \in Early => ~out_of_scope /\ error = NoError /\ validated = None
  /\ pc = "classify_intent" => reply \in Replies

\* What the repair loop hands from node to node.
LoopState ==
  /\ pc = "validate" => validated = None /\ error = NoError
  /\ pc = "validate" /\ ~out_of_scope => sql \in Text
  /\ pc = "execute" => IF out_of_scope \/ error # NoError THEN validated = None
                       ELSE validated # None
  /\ pc = "execute" => error \in ValidatorCodes \cup {NoError}
  /\ pc = "execute" /\ out_of_scope => error = NoError
  /\ pc \in {"execute", "retry"} /\ error # NoError =>
       (repairable <=> error \in RepairableCodes)
  /\ pc = "retry" => ~out_of_scope /\ error \in RepairableCodes

\* A query that a late node can still present is the last one run.
LateState ==
  /\ pc \in {"retry"} \cup Late /\ validated # None =>
       /\ validated = last_run
       /\ ~out_of_scope /\ ~needs_clarification
  /\ pc = "format_answer" /\ ~out_of_scope =>
       IF error = NoError THEN rows # Absent /\ validated # None ELSE error \in SqlCodes

\* The rows held are the ones the last statement yields under its enforced LIMIT.
Capped(query) ==
  \/ query.query_limit = NoLimit /\ query.sql.limit = MaxRows + 1
  \/ query.query_limit = query.sql.limit /\ query.sql.limit \in 0..(MaxRows - 1)

Kinds == {"summary", "summary_unavailable"}

RowsState ==
  /\ validated # None => Capped(validated)
  /\ last_run # None => Capped(last_run)
  /\ rows # Absent =>
       /\ last_run # None
       /\ rows = ShownRows(last_run.sql.limit, matching)
       /\ truncated = Truncated(last_run.sql.limit, matching)
       /\ limit_reached = LimitReached(last_run.sql.limit, last_run.query_limit, matching)
  /\ pc \in Early \cup Loop \cup {"format_answer"} => answer.kind \notin Kinds
  /\ pc \in {"check_answer", "end"} /\ answer.kind \in Kinds => rows # Absent

Control == TypeOK /\ Progress /\ Unset /\ LoopState /\ LateState /\ RowsState

IInv == Control /\ PresentedSqlRan /\ PartialRowsFlagged
-----------------------------------------------------------------------------
(* The row cap, as arithmetic. *)

\* What the executor counts, for a LIMIT that was enforced.
LEMMA FetchCounts ==
  ASSUME NEW limit \in 0..(MaxRows + 1), NEW n \in Nat
  PROVE  ShownRows(limit, n) \in 0..MaxRows /\ Truncated(limit, n) \in BOOLEAN
BY MaxRowsAssumption DEF ShownRows, Fetched, Lesser, Truncated

\* Validation turns any text whose LIMIT is valid into a statement for the database.
LEMMA ValidatedIsQuery ==
  ASSUME NEW text \in Text, Verdict(text) = "passes"
  PROVE  Validated(text) \in ValidatedQuery
<1>1. text.check = "passes" /\ text.limit \in Nat \cup {NoLimit}
  BY DEF Verdict, Text, Limits, ValidatorCodes
<1>2. SqlLimit(text.limit) \in 0..(MaxRows + 1)
  BY <1>1, MaxRowsAssumption DEF SqlLimit, KeptLimit, NoLimit
<1>3. QueryLimit(text.limit) \in Limits
  BY <1>1 DEF QueryLimit, Limits, NoLimit
<1>4. SqlLimit(text.limit) \in Limits
  BY <1>2, MaxRowsAssumption DEF Limits
<1>5. [text EXCEPT !.raw = FALSE, !.limit = SqlLimit(text.limit)] \in Statement
  BY <1>2, <1>4 DEF Statement, Text
<1>. QED BY <1>3, <1>5 DEF Validated, ValidatedQuery

LEMMA StatementIsText == Statement \subseteq Text
BY DEF Statement

LEMMA RepliesAreText == Replies \subseteq Text
BY ReplyAssumption

-----------------------------------------------------------------------------
(* Type correctness. *)

LEMMA CompletedTypes ==
  ASSUME usage \in Usage, made \in Usage, Completed
  PROVE  usage' \in Usage /\ made' \in Usage
BY DEF Completed, AddUsage, Usage

LEMMA FixedIsAnswer == ASSUME NEW kind \in AnswerKinds PROVE Fixed(kind) \in Answer
BY DEF Fixed, Answer

LEMMA DisclosuresAreNotes == ASSUME NEW a PROVE Disclosures(a) \in SUBSET Notes
BY DEF Disclosures

\* Both ways out of the graph make a response of the same shape.
LEMMA FailureIsResult ==
  ASSUME NEW code \in LlmCodes, LlmFailure(code) PROVE result' \in Results /\ result' # None
<1>1. Fixed("llm_error") \in Answer /\ NoUsage \in Usage
  BY FixedIsAnswer DEF AnswerKinds, NoUsage, Usage
<1>2. result' \in Results
  BY <1>1 DEF LlmFailure, Results, Errors
<1>. QED BY <1>2, ResultAssumption

LEMMA ReturnIsResult ==
  ASSUME TypeOK, Return PROVE result' \in Results /\ result' # None
<1>1. validated # None => validated.sql \in Statement
  BY DEF TypeOK, ValidatedQuery
<1>2. result' \in Results
  BY <1>1 DEF Return, Results, Absent, TypeOK
<1>. QED BY <1>2, ResultAssumption

LEMMA TypeInit == Init => TypeOK
<1>1. Fixed("absent") \in Answer
  BY FixedIsAnswer DEF AnswerKinds
<1>2. NoUsage \in Usage
  BY DEF NoUsage, Usage
<1>3. NoError \in Errors /\ {} \in SUBSET Findings
  BY DEF Errors
<1>. SUFFICES ASSUME Init PROVE TypeOK
  OBVIOUS
<1>4. /\ rows \in Nat \cup {Absent} /\ truncated \in BOOLEAN /\ limit_reached \in BOOLEAN
      /\ repairable \in BOOLEAN /\ out_of_scope \in BOOLEAN /\ needs_clarification \in BOOLEAN
  BY DEF Init
<1>5. /\ pc \in Nodes /\ question \in InputCodes \cup {"ok"} /\ max_repairs \in RepairSettings
      /\ steps \in Nat /\ attempts \in Nat /\ matching \in Nat /\ retry_count \in Nat
  BY DEF Init, Nodes
<1>6. /\ reply = None /\ sql = None /\ validated = None /\ last_run = None /\ result = None
      /\ answer = Fixed("absent") /\ error = NoError /\ answer_checks = {}
      /\ usage = NoUsage /\ made = NoUsage
  BY DEF Init
<1>. QED BY <1>1, <1>2, <1>3, <1>4, <1>5, <1>6 DEF TypeOK

\* The types rest on what the repair loop hands from node to node: a text to validate, a
\* validated query to execute.
LEMMA TypeStep == TypeOK /\ LoopState /\ [Next]_vars => TypeOK'
<1>. SUFFICES ASSUME TypeOK, LoopState, [Next]_vars PROVE TypeOK'
  OBVIOUS
<1>. USE DEF TypeOK, Step, inputs, data, flags, replyVars, runs, Nodes
<1>0. \A kind \in AnswerKinds : Fixed(kind) \in Answer
  BY FixedIsAnswer
<1>1. ASSUME GuardInput PROVE TypeOK'
  BY <1>0, <1>1 DEF GuardInput, Errors, AnswerKinds
<1>2. ASSUME NEW code \in LlmCodes, LlmFailure(code), UNCHANGED runs, steps' = steps + 1
      PROVE  TypeOK'
  <2>1. result' \in Results
    BY <1>2, FailureIsResult
  <2>. QED BY <1>2, <2>1 DEF LlmFailure
<1>3. ASSUME Raise, UNCHANGED runs, steps' = steps + 1 PROVE TypeOK'
  BY <1>3 DEF Raise
<1>4. ASSUME GenerateSql PROVE TypeOK'
  BY <1>2, <1>3, <1>4, CompletedTypes DEF GenerateSql
<1>5. ASSUME ClassifyIntent PROVE TypeOK'
  <2>1. answer' \in Answer
    BY <1>0, <1>5 DEF ClassifyIntent, AnswerKinds
  <2>2. sql' \in Text \cup {None} /\ error' \in Errors
    BY <1>5, RepliesAreText DEF ClassifyIntent, Errors
  <2>3. pc' \in {"end", "validate"} /\ steps' \in Nat
    BY <1>5 DEF ClassifyIntent
  <2>4. out_of_scope' \in BOOLEAN /\ needs_clarification' \in BOOLEAN
    BY <1>5 DEF ClassifyIntent
  <2>. QED BY <1>5, <2>1, <2>2, <2>3, <2>4 DEF ClassifyIntent
<1>6. ASSUME Validate PROVE TypeOK'
  <2>1. CASE out_of_scope
    BY <1>6, <2>1 DEF Validate
  <2>2. CASE ~out_of_scope /\ Verdict(sql) = "passes"
    <3>1. Validated(sql) \in ValidatedQuery
      BY <1>6, <2>2, ValidatedIsQuery DEF Validate, LoopState
    <3>2. Validated(sql).sql \in Text
      BY <3>1, StatementIsText DEF ValidatedQuery
    <3>3. validated' \in ValidatedQuery /\ sql' \in Text /\ error' \in Errors
      BY <1>6, <2>2, <3>1, <3>2 DEF Validate, Accept, Errors
    <3>4. repairable' \in BOOLEAN
      BY <1>6, <2>2 DEF Validate, Accept
    <3>. QED BY <1>6, <3>3, <3>4 DEF Validate
  <2>3. CASE ~out_of_scope /\ Verdict(sql) # "passes"
    <3>1. Verdict(sql) \in ValidatorCodes
      BY <1>6, <2>3 DEF Validate, LoopState, Verdict, Text, ValidatorCodes
    <3>2. Reject
      BY <1>6, <2>3 DEF Validate
    <3>3. error' \in Errors /\ validated' = None /\ sql' = sql
      BY <3>1, <3>2 DEF Reject, Errors, SqlCodes
    <3>4. repairable' \in BOOLEAN
      BY <3>2 DEF Reject
    <3>. QED BY <1>6, <3>3, <3>4 DEF Validate
  <2>. QED BY <1>6, <2>1, <2>2, <2>3 DEF Validate
<1>7. ASSUME Execute PROVE TypeOK'
  <2>1. pc' \in {"retry", "format_answer"}
    BY <1>7 DEF Execute, RouteAfterExecute
  <2>2. CASE out_of_scope \/ error # NoError
    BY <1>7, <2>1, <2>2 DEF Execute
  <2>3. CASE ~out_of_scope /\ error = NoError
    <3>1. validated \in ValidatedQuery
      BY <1>7, <2>3 DEF Execute, LoopState
    <3>2. validated.sql.limit \in 0..(MaxRows + 1)
      BY <3>1 DEF ValidatedQuery, Statement
    <3>3. Query /\ (QueryAnswers \/ QueryFails)
      BY <1>7, <2>3 DEF Execute
    <3>4. matching' \in Nat /\ last_run' \in ValidatedQuery /\ attempts' \in Nat
      BY <3>1, <3>3, MatchingAssumption DEF Query
    <3>5. CASE QueryAnswers
      <4>1. rows' \in Nat /\ truncated' \in BOOLEAN
        BY <3>2, <3>4, <3>5, FetchCounts, MaxRowsAssumption DEF QueryAnswers
      <4>2. limit_reached' \in BOOLEAN
        BY <3>5 DEF QueryAnswers, LimitReached
      <4>. QED BY <1>7, <2>1, <3>4, <3>5, <4>1, <4>2 DEF Execute, QueryAnswers
    <3>6. CASE QueryFails
      <4>1. error' \in Errors /\ repairable' \in BOOLEAN
        BY <3>6 DEF QueryFails, Errors, SqlCodes
      <4>. QED BY <1>7, <2>1, <3>4, <3>6, <4>1 DEF Execute, QueryFails
    <3>. QED BY <3>3, <3>5, <3>6
  <2>. QED BY <2>2, <2>3
<1>8. ASSUME ExecuteRaises PROVE TypeOK'
  BY <1>3, <1>8 DEF ExecuteRaises
<1>9. ASSUME Retry PROVE TypeOK'
  <2>1. ASSUME Completed, error' = NoError, repairable' = FALSE, validated' = None,
               retry_count' = retry_count + 1, pc' = "validate",
               UNCHANGED <<inputs, reply, rows, truncated, limit_reached, needs_clarification,
                           answer_checks, result, runs>>,
               NEW text \in Replies,
               \/ out_of_scope' = TRUE /\ sql' = None /\ answer' = Fixed("out_of_scope")
               \/ sql' = text /\ UNCHANGED <<out_of_scope, answer>>
        PROVE  TypeOK'
    <3>1. usage' \in Usage /\ made' \in Usage
      BY <2>1, CompletedTypes
    <3>2. answer' \in Answer /\ sql' \in Text \cup {None}
      BY <1>0, <2>1, RepliesAreText DEF AnswerKinds
    <3>3. out_of_scope' \in BOOLEAN /\ error' \in Errors
      BY <2>1 DEF Errors
    <3>4. steps' = steps + 1
      BY <1>9 DEF Retry
    <3>5. steps' \in Nat
      BY <3>4
    <3>6. retry_count' \in Nat
      BY <2>1
    <3>7. repairable' \in BOOLEAN
      BY <2>1
    <3>. QED BY <2>1, <3>1, <3>2, <3>3, <3>5, <3>6, <3>7
  <2>. QED BY <1>2, <1>3, <1>9, <2>1 DEF Retry, Cleared
<1>10. ASSUME FormatAnswer PROVE TypeOK'
  <2>1. CASE pc' = "check_answer" /\ UNCHANGED result
    <3>1. usage' \in Usage /\ made' \in Usage
      BY <1>10, <2>1, CompletedTypes DEF FormatAnswer, Raise
    <3>2. answer' \in Answer /\ error' \in Errors
      BY <1>0, <1>10, <2>1 DEF FormatAnswer, Raise, Summaries, AnswerKinds, Errors
    <3>. QED BY <1>10, <2>1, <3>1, <3>2 DEF FormatAnswer, Raise
  <2>. QED BY <1>3, <1>10, <2>1 DEF FormatAnswer
<1>11. ASSUME CheckAnswer PROVE TypeOK'
  <2>1. Disclosures(answer) \in SUBSET Notes
    BY DisclosuresAreNotes
  <2>2. answer' \in Answer
    BY <1>11, <2>1 DEF CheckAnswer, Answer
  <2>3. answer_checks' \in SUBSET Findings
    BY <1>11, <2>1 DEF CheckAnswer, Findings
  <2>. QED BY <1>11, <2>2, <2>3 DEF CheckAnswer
<1>12. ASSUME Return PROVE TypeOK'
  BY <1>12, ReturnIsResult DEF Return
<1>13. CASE UNCHANGED vars
  BY <1>13 DEF vars
<1>. HIDE DEF TypeOK, Step, inputs, data, flags, replyVars, runs, Nodes
<1>. QED
  BY <1>1, <1>4, <1>5, <1>6, <1>7, <1>8, <1>9, <1>10, <1>11, <1>12, <1>13 DEF Next, Node, Done
-----------------------------------------------------------------------------
(* The control state. *)

LEMMA CompletedCounts ==
  ASSUME made \in Usage, Completed
  PROVE  calls' = calls + 1
BY DEF Completed, AddUsage, Usage, calls

\* Every node moves the run forward, and only a repair sends it back.
LEMMA ProgressStep ==
  TypeOK /\ Progress /\ [Next]_vars => Progress'
<1>. SUFFICES ASSUME TypeOK, Progress, [Next]_vars PROVE Progress'
  OBVIOUS
<1>0. /\ made \in Usage /\ steps \in Nat /\ attempts \in Nat /\ retry_count \in Nat
      /\ max_repairs \in 0..3 /\ calls \in Nat
  BY RepairAssumption DEF TypeOK, Usage, calls
<1>. USE <1>0 DEF Progress, Step, inputs, data, flags, replyVars, runs, Early
<1>1. ASSUME GuardInput PROVE Progress'
  BY <1>1 DEF GuardInput, calls
<1>2. ASSUME GenerateSql PROVE Progress'
  BY <1>2, CompletedCounts DEF GenerateSql, LlmFailure, Raise, calls
<1>3. ASSUME ClassifyIntent PROVE Progress'
  BY <1>3 DEF ClassifyIntent, calls
<1>4. ASSUME Validate PROVE Progress'
  BY <1>4 DEF Validate, calls
<1>5. ASSUME Execute PROVE Progress'
  BY <1>5 DEF Execute, Query, RouteAfterExecute, calls
<1>6. ASSUME ExecuteRaises PROVE Progress'
  BY <1>6 DEF ExecuteRaises, Raise, calls
<1>7. ASSUME Retry PROVE Progress'
  BY <1>7, CompletedCounts DEF Retry, Cleared, LlmFailure, Raise, calls
<1>8. ASSUME FormatAnswer PROVE Progress'
  <2>1. /\ pc = "format_answer" /\ pc' \in {"check_answer", "done"} /\ steps' = steps + 1
        /\ UNCHANGED <<retry_count, max_repairs, attempts>>
    BY <1>8 DEF FormatAnswer, Raise
  <2>2. calls' = calls \/ calls' = calls + 1
    <3>1. made' = made \/ Completed
      BY <1>8 DEF FormatAnswer, Raise
    <3>. QED BY <3>1, CompletedCounts DEF calls
  <2>. QED BY <2>1, <2>2
<1>9. ASSUME CheckAnswer PROVE Progress'
  BY <1>9 DEF CheckAnswer, calls
<1>10. ASSUME Return PROVE Progress'
  BY <1>10 DEF Return, calls
<1>11. CASE UNCHANGED vars
  BY <1>11 DEF vars, calls
<1>. HIDE DEF Progress, Step, inputs, data, flags, replyVars, runs, Early
<1>. QED
  BY <1>1, <1>2, <1>3, <1>4, <1>5, <1>6, <1>7, <1>8, <1>9, <1>10, <1>11 DEF Next, Node, Done

LEMMA UnsetStep == TypeOK /\ Unset /\ [Next]_vars => Unset'
<1>. SUFFICES ASSUME TypeOK, Unset, [Next]_vars PROVE Unset'
  OBVIOUS
<1>. USE DEF Unset, Step, inputs, data, flags, replyVars, runs, Early, Loop
<1>1. ASSUME GuardInput PROVE Unset'
  BY <1>1 DEF GuardInput
<1>2. ASSUME NEW code \in LlmCodes, LlmFailure(code) PROVE Unset'
  <2>1. result' # None /\ pc' = "done"
    BY <1>2, FailureIsResult DEF LlmFailure
  <2>. QED BY <2>1
<1>3. ASSUME Raise PROVE Unset'
  BY <1>3, ResultAssumption DEF Raise
<1>4. ASSUME GenerateSql PROVE Unset'
  BY <1>2, <1>3, <1>4 DEF GenerateSql
<1>5. ASSUME ClassifyIntent PROVE Unset'
  BY <1>5 DEF ClassifyIntent
<1>6. ASSUME Validate PROVE Unset'
  BY <1>6 DEF Validate
<1>7. ASSUME Execute PROVE Unset'
  <2>1. /\ pc = "execute" /\ UNCHANGED <<needs_clarification, result>>
        /\ pc' \in {"retry", "format_answer"}
    BY <1>7 DEF Execute, RouteAfterExecute
  <2>2. pc' = "retry" => rows' = rows
    <3>1. CASE QueryAnswers /\ error = NoError
      BY <1>7, <3>1 DEF Execute, RouteAfterExecute, QueryAnswers
    <3>2. CASE rows' = rows
      BY <3>2
    <3>. QED BY <1>7, <3>1, <3>2 DEF Execute, QueryFails
  <2>. QED BY <2>1, <2>2
<1>8. ASSUME ExecuteRaises PROVE Unset'
  BY <1>3, <1>8 DEF ExecuteRaises
<1>9. ASSUME Retry PROVE Unset'
  BY <1>2, <1>3, <1>9 DEF Retry, Cleared
<1>10. ASSUME FormatAnswer PROVE Unset'
  BY <1>3, <1>10 DEF FormatAnswer
<1>11. ASSUME CheckAnswer PROVE Unset'
  BY <1>11 DEF CheckAnswer
<1>12. ASSUME Return PROVE Unset'
  BY <1>12, ReturnIsResult DEF Return
<1>13. CASE UNCHANGED vars
  BY <1>13 DEF vars
<1>. HIDE DEF Unset, Step, inputs, data, flags, replyVars, runs, Early, Loop
<1>. QED
  BY <1>1, <1>4, <1>5, <1>6, <1>7, <1>8, <1>9, <1>10, <1>11, <1>12, <1>13 DEF Next, Node, Done

LEMMA LoopStep == TypeOK /\ LoopState /\ Unset /\ [Next]_vars => LoopState'
<1>. SUFFICES ASSUME TypeOK, LoopState, Unset, [Next]_vars PROVE LoopState'
  OBVIOUS
<1>. USE DEF LoopState, Step, inputs, data, flags, replyVars, runs
<1>1. ASSUME GuardInput PROVE LoopState'
  BY <1>1 DEF GuardInput
<1>2. ASSUME GenerateSql PROVE LoopState'
  BY <1>2 DEF GenerateSql, LlmFailure, Raise
<1>3. ASSUME ClassifyIntent PROVE LoopState'
  BY <1>3, RepliesAreText DEF ClassifyIntent, Unset, Early
<1>4. ASSUME Validate PROVE LoopState'
  <2>1. pc = "validate" /\ pc' = "execute" /\ UNCHANGED out_of_scope
    BY <1>4 DEF Validate
  <2>2. CASE out_of_scope
    BY <1>4, <2>1, <2>2 DEF Validate
  <2>3. CASE ~out_of_scope /\ Verdict(sql) = "passes"
    <3>1. validated' # None
      BY <1>4, <2>1, <2>3, ValidatedIsQuery, NoneAssumption DEF Validate, Accept
    <3>. QED BY <1>4, <2>1, <2>3, <3>1 DEF Validate, Accept
  <2>4. CASE ~out_of_scope /\ Verdict(sql) # "passes"
    <3>1. Verdict(sql) \in ValidatorCodes /\ sql \in Text
      BY <2>1, <2>4 DEF Verdict, Text, ValidatorCodes
    <3>2. Reject
      BY <1>4, <2>4 DEF Validate
    <3>3. Verdict(sql) # NoError
      BY <3>1 DEF ValidatorCodes, NoError
    <3>4. validated' = None /\ error' \in ValidatorCodes
      BY <3>1, <3>2 DEF Reject
    <3>5. repairable' <=> error' \in RepairableCodes
      BY <3>2 DEF Reject
    <3>. QED BY <2>1, <2>4, <3>2, <3>3, <3>4, <3>5 DEF Reject
  <2>. QED BY <2>2, <2>3, <2>4
<1>5. ASSUME Execute PROVE LoopState'
  <2>1. pc = "execute" /\ UNCHANGED out_of_scope /\ pc' \in {"retry", "format_answer"}
    BY <1>5 DEF Execute, RouteAfterExecute
  <2>2. error' # NoError => (repairable' <=> error' \in RepairableCodes)
    <3>1. CASE error' = error /\ repairable' = repairable
      BY <2>1, <3>1
    <3>2. CASE QueryFails
      BY <3>2 DEF QueryFails
    <3>. QED BY <1>5, <3>1, <3>2 DEF Execute, QueryAnswers
  <2>3. pc' = "retry" => error' # NoError /\ repairable'
    BY <1>5 DEF Execute, RouteAfterExecute
  <2>4. pc' = "retry" => ~out_of_scope
    BY <1>5, <2>1, <2>3 DEF Execute
  <2>. QED BY <2>1, <2>2, <2>3, <2>4
<1>6. ASSUME ExecuteRaises PROVE LoopState'
  BY <1>6 DEF ExecuteRaises, Raise
<1>7. ASSUME Retry PROVE LoopState'
  BY <1>7, RepliesAreText DEF Retry, Cleared, LlmFailure, Raise
<1>8. ASSUME FormatAnswer PROVE LoopState'
  BY <1>8 DEF FormatAnswer, Raise
<1>9. ASSUME CheckAnswer PROVE LoopState'
  BY <1>9 DEF CheckAnswer
<1>10. ASSUME Return PROVE LoopState'
  BY <1>10 DEF Return
<1>11. CASE UNCHANGED vars
  BY <1>11 DEF vars
<1>. HIDE DEF LoopState, Step, inputs, data, flags, replyVars, runs
<1>. QED
  BY <1>1, <1>2, <1>3, <1>4, <1>5, <1>6, <1>7, <1>8, <1>9, <1>10, <1>11 DEF Next, Node, Done

LEMMA LateStep == TypeOK /\ Unset /\ LoopState /\ LateState /\ [Next]_vars => LateState'
<1>. SUFFICES ASSUME TypeOK, Unset, LoopState, LateState, [Next]_vars PROVE LateState'
  OBVIOUS
<1>. USE DEF LateState, Step, inputs, data, flags, replyVars, runs, Late
<1>1. ASSUME GuardInput PROVE LateState'
  BY <1>1 DEF GuardInput, Unset, Early
<1>2. ASSUME GenerateSql PROVE LateState'
  BY <1>2 DEF GenerateSql, LlmFailure, Raise
<1>3. ASSUME ClassifyIntent PROVE LateState'
  BY <1>3 DEF ClassifyIntent, Unset, Early
<1>4. ASSUME Validate PROVE LateState'
  BY <1>4 DEF Validate
<1>5. ASSUME Execute PROVE LateState'
  <2>1. /\ pc = "execute" /\ UNCHANGED <<out_of_scope, needs_clarification, validated>>
        /\ pc' \in {"retry", "format_answer"} /\ ~needs_clarification
    BY <1>5 DEF Execute, RouteAfterExecute, Unset, Loop
  <2>2. CASE out_of_scope \/ error # NoError
    <3>1. validated' = None /\ error' = error
      BY <1>5, <2>1, <2>2 DEF Execute, LoopState
    <3>2. error \in SqlCodes \cup {NoError}
      BY <2>1 DEF LoopState, SqlCodes
    <3>. QED BY <2>1, <2>2, <3>1, <3>2
  <2>3. CASE ~out_of_scope /\ error = NoError
    <3>1. validated # None /\ Query /\ (QueryAnswers \/ QueryFails)
      BY <1>5, <2>1, <2>3 DEF Execute, LoopState
    <3>2. last_run' = validated
      BY <3>1 DEF Query
    <3>3. CASE QueryAnswers
      <4>1. error' = NoError
        BY <2>3, <3>3 DEF QueryAnswers
      <4>2. rows' # Absent
        <5>1. validated.sql.limit \in 0..(MaxRows + 1) /\ matching' \in Nat
          BY <3>1, MatchingAssumption DEF TypeOK, ValidatedQuery, Statement, Query
        <5>. QED BY <5>1, <3>3, FetchCounts DEF QueryAnswers, Absent
      <4>. QED BY <2>1, <2>3, <3>1, <3>2, <4>1, <4>2
    <3>4. CASE QueryFails
      <4>1. error' \in SqlCodes /\ error' # NoError
        BY <3>4 DEF QueryFails, SqlCodes, ExecutorCodes, NoError
      <4>. QED BY <2>1, <2>3, <3>1, <3>2, <4>1
    <3>. QED BY <3>1, <3>3, <3>4
  <2>. QED BY <2>2, <2>3
<1>6. ASSUME ExecuteRaises PROVE LateState'
  BY <1>6 DEF ExecuteRaises, Raise
<1>7. ASSUME Retry PROVE LateState'
  BY <1>7 DEF Retry, Cleared, LlmFailure, Raise
<1>8. ASSUME FormatAnswer PROVE LateState'
  BY <1>8 DEF FormatAnswer, Raise
<1>9. ASSUME CheckAnswer PROVE LateState'
  BY <1>9 DEF CheckAnswer
<1>10. ASSUME Return PROVE LateState'
  BY <1>10 DEF Return
<1>11. CASE UNCHANGED vars
  BY <1>11 DEF vars
<1>. HIDE DEF LateState, Step, inputs, data, flags, replyVars, runs, Late
<1>. QED
  BY <1>1, <1>2, <1>3, <1>4, <1>5, <1>6, <1>7, <1>8, <1>9, <1>10, <1>11 DEF Next, Node, Done

LEMMA ValidatedIsCapped ==
  ASSUME NEW text \in Text, Verdict(text) = "passes" PROVE Capped(Validated(text))
<1>1. text.check = "passes" /\ text.limit \in Nat \cup {NoLimit}
  BY DEF Verdict, Text, Limits, ValidatorCodes
<1>2. /\ Validated(text).sql.limit = SqlLimit(text.limit)
      /\ Validated(text).query_limit = QueryLimit(text.limit)
  BY DEF Validated, Text
<1>. QED BY <1>1, <1>2, MaxRowsAssumption DEF Capped, SqlLimit, QueryLimit, KeptLimit, NoLimit

LEMMA RowsStep ==
  TypeOK /\ Unset /\ LoopState /\ LateState /\ RowsState /\ [Next]_vars => RowsState'
<1>. SUFFICES ASSUME TypeOK, Unset, LoopState, LateState, RowsState, [Next]_vars
              PROVE  RowsState'
  OBVIOUS
<1>. USE DEF RowsState, Step, inputs, data, flags, replyVars, runs, Kinds
<1>1. ASSUME GuardInput PROVE RowsState'
  BY <1>1 DEF GuardInput, Fixed, Early, Loop
<1>2. ASSUME GenerateSql PROVE RowsState'
  BY <1>2 DEF GenerateSql, LlmFailure, Raise, Early, Loop
<1>3. ASSUME ClassifyIntent PROVE RowsState'
  BY <1>3 DEF ClassifyIntent, Fixed, Early, Loop
<1>4. ASSUME Validate PROVE RowsState'
  <2>1. validated' # None => Capped(validated')
    BY <1>4, ValidatedIsCapped DEF Validate, Accept, Reject, LoopState
  <2>. QED BY <1>4, <2>1 DEF Validate, Early, Loop
<1>5. ASSUME Execute PROVE RowsState'
  <2>1. /\ pc = "execute" /\ UNCHANGED <<validated, answer>>
        /\ pc' \in {"retry", "format_answer"} /\ rows = Absent /\ answer.kind \notin Kinds
    BY <1>5 DEF Execute, RouteAfterExecute, Unset, Early, Loop
  <2>2. CASE UNCHANGED <<rows, truncated, limit_reached, runs>>
    BY <2>1, <2>2
  <2>3. CASE Query /\ QueryAnswers /\ validated # None
    BY <2>1, <2>3 DEF Query, QueryAnswers
  <2>4. CASE Query /\ QueryFails
    BY <2>1, <2>4 DEF Query, QueryFails
  <2>5. ~out_of_scope /\ error = NoError => validated # None
    BY <2>1 DEF LoopState
  <2>. QED BY <1>5, <2>2, <2>3, <2>4, <2>5 DEF Execute
<1>6. ASSUME ExecuteRaises PROVE RowsState'
  BY <1>6 DEF ExecuteRaises, Raise, Early, Loop
<1>7. ASSUME Retry PROVE RowsState'
  BY <1>7 DEF Retry, Cleared, LlmFailure, Raise, Fixed, Early, Loop
<1>8. ASSUME FormatAnswer PROVE RowsState'
  <2>1. /\ pc = "format_answer" /\ pc' \in {"check_answer", "done"}
        /\ UNCHANGED <<validated, rows, truncated, limit_reached, runs>>
    BY <1>8 DEF FormatAnswer, Raise
  <2>2. pc' = "check_answer" /\ rows = Absent => answer' = answer \/ answer' = Fixed("sql_error")
    BY <1>8, <2>1 DEF FormatAnswer, Raise, LateState
  <2>3. pc' = "check_answer" /\ answer'.kind \in Kinds => rows # Absent
    BY <2>1, <2>2 DEF Fixed
  <2>. QED BY <2>1, <2>3 DEF Early, Loop
<1>9. ASSUME CheckAnswer PROVE RowsState'
  <2>1. answer'.kind = answer.kind
    BY <1>9 DEF CheckAnswer, TypeOK, Answer
  <2>. QED BY <1>9, <2>1 DEF CheckAnswer, Early, Loop
<1>10. ASSUME Return PROVE RowsState'
  BY <1>10 DEF Return, Early, Loop
<1>11. CASE UNCHANGED vars
  BY <1>11 DEF vars
<1>. HIDE DEF RowsState, Step, inputs, data, flags, replyVars, runs, Kinds
<1>. QED
  BY <1>1, <1>2, <1>3, <1>4, <1>5, <1>6, <1>7, <1>8, <1>9, <1>10, <1>11 DEF Next, Node, Done
-----------------------------------------------------------------------------
(* What the response may say. *)

\* A response is only made by Return or by a failure, and never changed afterwards.
LEMMA ResponseStep ==
  ASSUME TypeOK, Unset, [Next]_vars
  PROVE  \/ UNCHANGED <<result, last_run, matching>>
         \/ Return
         \/ result' = Raised
         \/ \E code \in LlmCodes : LlmFailure(code)
         \/ result' = None
<1>. USE DEF Unset, Step, runs
<1>1. CASE Node
  BY <1>1 DEF Node, GuardInput, GenerateSql, ClassifyIntent, Validate, Execute, ExecuteRaises,
              Retry, FormatAnswer, CheckAnswer, Raise
<1>2. CASE UNCHANGED vars
  BY <1>2 DEF vars
<1>. QED BY <1>1, <1>2 DEF Next, Done

\* For an enforced LIMIT, fewer rows than match are always flagged, by exactly one flag.
LEMMA CapIsHonest ==
  ASSUME NEW query \in ValidatedQuery, Capped(query), NEW n \in Nat
  PROVE  LET shown == ShownRows(query.sql.limit, n)
             cut == Truncated(query.sql.limit, n)
             limited == LimitReached(query.sql.limit, query.query_limit, n)
         IN  /\ shown <= MaxRows
             /\ shown < n => (cut # limited)
             /\ cut => shown < n
<1>1. CASE query.query_limit = NoLimit /\ query.sql.limit = MaxRows + 1
  BY <1>1, MaxRowsAssumption DEF ShownRows, Fetched, Lesser, Truncated, LimitReached, NoLimit
<1>2. CASE query.query_limit = query.sql.limit /\ query.sql.limit \in 0..(MaxRows - 1)
  BY <1>2, MaxRowsAssumption DEF ShownRows, Fetched, Lesser, Truncated, LimitReached, NoLimit
<1>. QED BY <1>1, <1>2 DEF Capped

LEMMA PresentedStep ==
  Control /\ PresentedSqlRan /\ [Next]_vars => PresentedSqlRan'
<1>. SUFFICES ASSUME Control, PresentedSqlRan, [Next]_vars PROVE PresentedSqlRan'
  OBVIOUS
<1>. USE DEF PresentedSqlRan, Returned, Control
<1>1. CASE UNCHANGED <<result, last_run, matching>>
  BY <1>1
<1>2. CASE Return
  <2>1. pc = "end" /\ UNCHANGED last_run
    BY <1>2 DEF Return, runs
  <2>2. result'.sql = IF validated = None THEN None ELSE validated.sql
    BY <1>2 DEF Return
  <2>3. /\ result'.out_of_scope = out_of_scope
        /\ result'.needs_clarification = needs_clarification
    BY <1>2 DEF Return
  <2>. QED BY <2>1, <2>2, <2>3 DEF LateState, Late
<1>3. ASSUME NEW code \in LlmCodes, LlmFailure(code) PROVE PresentedSqlRan'
  BY <1>3 DEF LlmFailure
<1>. QED BY <1>1, <1>2, <1>3, ResponseStep

LEMMA PartialStep ==
  Control /\ PartialRowsFlagged /\ [Next]_vars => PartialRowsFlagged'
<1>. SUFFICES ASSUME Control, PartialRowsFlagged, [Next]_vars PROVE PartialRowsFlagged'
  OBVIOUS
<1>. USE DEF PartialRowsFlagged, Returned, Control
<1>1. CASE UNCHANGED <<result, last_run, matching>>
  BY <1>1
<1>2. CASE Return
  <2>. SUFFICES ASSUME answer.kind \in Kinds PROVE PartialRowsFlagged'
    BY <1>2 DEF Return, Kinds
  <2>1. rows # Absent /\ UNCHANGED matching
    BY <1>2 DEF Return, RowsState, runs
  <2>2. /\ result'.rows = rows /\ result'.truncated = truncated
        /\ result'.limit_reached = limit_reached
    BY <1>2, <2>1 DEF Return
  <2>3. last_run \in ValidatedQuery /\ Capped(last_run) /\ matching \in Nat
    BY <2>1 DEF RowsState, TypeOK
  <2>. QED BY <2>1, <2>2, <2>3, CapIsHonest DEF RowsState
<1>3. ASSUME NEW code \in LlmCodes, LlmFailure(code) PROVE PartialRowsFlagged'
  BY <1>3 DEF LlmFailure, Fixed
<1>. QED BY <1>1, <1>2, <1>3, ResponseStep

-----------------------------------------------------------------------------
(* The theorems. *)

\* The invariant every other result rests on: what each node may rely on when it runs.
THEOREM Inductive == Spec => []IInv
<1>1. Init => IInv
  <2>1. Init => Progress
    BY RepairAssumption DEF Init, Progress, Early, NoUsage, calls
  <2>2. Init => Unset /\ LoopState /\ LateState
    BY DEF Init, Unset, LoopState, LateState, Early, Late, Loop
  <2>3. Init => RowsState
    BY DEF Init, RowsState, Fixed, Kinds
  <2>4. Init => PresentedSqlRan /\ PartialRowsFlagged
    BY DEF Init, PresentedSqlRan, PartialRowsFlagged, Returned
  <2>. QED BY <2>1, <2>2, <2>3, <2>4, TypeInit DEF IInv, Control
<1>2. IInv /\ [Next]_vars => IInv'
  BY TypeStep, ProgressStep, UnsetStep, LoopStep, LateStep, RowsStep, PresentedStep, PartialStep
     DEF IInv, Control
<1>. QED BY <1>1, <1>2, PTL DEF Spec

\* The type invariant holds: in particular only regenerated, capped SQL is ever validated,
\* run or returned.
THEOREM TypeCorrect == Spec => []TypeOK
<1>1. IInv => TypeOK
  BY DEF IInv, Control
<1>. QED BY <1>1, Inductive, PTL

\* ask() never presents a query that is not the last one the database ran.
THEOREM PresentedSqlIsTheOneRun == Spec => []PresentedSqlRan
<1>1. IInv => PresentedSqlRan
  BY DEF IInv
<1>. QED BY <1>1, Inductive, PTL

\* A partial result is always flagged, whatever the cap, the LIMIT and the data.
THEOREM PartialResultsAreFlagged == Spec => []PartialRowsFlagged
<1>1. IInv => PartialRowsFlagged
  BY DEF IInv
<1>. QED BY <1>1, Inductive, PTL

\* For every repair setting the configuration admits, the run stays within its budget of
\* statements and model calls, and below LangGraph's limit.
THEOREM WorkIsBounded == Spec => []BoundedWork
<1>1. IInv => BoundedWork
  <2>. SUFFICES ASSUME TypeOK, Progress PROVE BoundedWork
    BY DEF IInv, Control
  <2>1. /\ retry_count \in Nat /\ max_repairs \in 0..3 /\ attempts \in Nat /\ steps \in Nat
        /\ retry_count <= max_repairs /\ calls \in Nat
    BY RepairAssumption DEF TypeOK, Progress, Usage, calls
  <2>2. attempts <= max_repairs + 1
    BY <2>1 DEF Progress
  <2>3. calls <= max_repairs + 2 /\ steps <= 7 + 3 * max_repairs
    BY <2>1 DEF Progress
  <2>. QED BY <2>1, <2>2, <2>3, RecursionAssumption DEF BoundedWork, calls
<1>. QED BY <1>1, Inductive, PTL

\* format_answer finds the keys it indexes without a default.
THEOREM FormatIsSafe == Spec => []FormatReadsWhatWasSet
<1>1. IInv => FormatReadsWhatWasSet
  BY DEF IInv, Control, LateState, FormatReadsWhatWasSet
<1>. QED BY <1>1, Inductive, PTL

-----------------------------------------------------------------------------
(* One outcome. *)

\* Before its end a run has no answer but the reply of a late refusal; at its end, what the
\* answer is tells the error, the flags and whether rows are held, and a summary of rows
\* discloses what check_answer had to find.
OutcomeState ==
  /\ rows = Absent => ~truncated /\ ~limit_reached
  /\ pc \in Early \cup Loop \cup {"format_answer"} =>
       /\ answer.kind = (IF out_of_scope THEN "out_of_scope" ELSE "absent")
       /\ ~needs_clarification
  /\ pc = "format_answer" => (out_of_scope => error = NoError)
  /\ pc = "format_answer" /\ (out_of_scope \/ error # NoError) => rows = Absent
  /\ pc \in {"check_answer", "end"} =>
       /\ answer.kind \notin {"absent", "llm_error"}
       /\ error \in InputCodes <=> answer.kind = "rejection"
       /\ error \in SqlCodes <=> answer.kind = "sql_error"
       /\ error \in LlmCodes <=> answer.kind = "summary_unavailable"
       /\ out_of_scope <=> answer.kind \in {"read_only", "out_of_scope"}
       /\ needs_clarification <=> answer.kind = "clarify"
       /\ answer.kind \in Kinds => validated # None
       /\ answer.kind \notin Kinds => rows = Absent
  /\ pc = "end" /\ answer.kind = "summary" /\ ~answer.blank => Discloses(answer)

\* No code means two things.
LEMMA CodesApart ==
  ASSUME NEW code \in Errors
  PROVE  /\ code \in InputCodes => code \notin SqlCodes \cup LlmCodes \cup {NoError}
         /\ code \in SqlCodes => code \notin InputCodes \cup LlmCodes \cup {NoError}
         /\ code \in LlmCodes => code \notin InputCodes \cup SqlCodes \cup {NoError}
         /\ code \in InputCodes \cup SqlCodes \cup LlmCodes \cup {NoError}
BY DEF Errors, InputCodes, SqlCodes, LlmCodes, NoError, ValidatorCodes, ExecutorCodes

LEMMA FixedKind == \A kind : Fixed(kind).kind = kind
BY DEF Fixed

\* What check_answer appends is what the answer left out.
LEMMA NotesDisclose ==
  ASSUME NEW a \in Answer
  PROVE  /\ [a EXCEPT !.notes = Disclosures(a)].kind = a.kind
         /\ [a EXCEPT !.notes = Disclosures(a)].blank = a.blank
         /\ Discloses([a EXCEPT !.notes = Disclosures(a)])
<1>. DEFINE b == [a EXCEPT !.notes = Disclosures(a)]
<1>1. /\ b.kind = a.kind /\ b.blank = a.blank /\ b.notes = Disclosures(a)
      /\ b.saysEmpty = a.saysEmpty /\ b.saysPartial = a.saysPartial
  BY DEF Answer
<1>. HIDE DEF b
<1>2. Discloses(b)
  BY <1>1 DEF Discloses, Disclosures, Notes
<1>. QED BY <1>1, <1>2 DEF b

LEMMA OutcomeStep ==
  Control /\ OutcomeState /\ [Next]_vars => OutcomeState'
<1>. SUFFICES ASSUME Control, OutcomeState, [Next]_vars PROVE OutcomeState'
  OBVIOUS
<1>0. TypeOK /\ Unset /\ LoopState /\ LateState
  BY DEF Control
<1>. USE DEF OutcomeState, Step, inputs, data, flags, replyVars, runs, Early, Loop
<1>1. ASSUME GuardInput PROVE OutcomeState'
  <2>1. CASE question = "ok"
    BY <1>1, <2>1 DEF GuardInput
  <2>2. CASE question # "ok"
    <3>1. /\ pc = "guard_input" /\ pc' = "end" /\ error' \in InputCodes /\ answer'.kind = "rejection"
          /\ UNCHANGED <<rows, truncated, limit_reached, out_of_scope, needs_clarification>>
      BY <1>0, <1>1, <2>2, FixedKind DEF GuardInput, TypeOK
    <3>2. rows = Absent /\ ~out_of_scope /\ ~needs_clarification
      BY <1>0, <3>1 DEF Unset
    <3>3. error' \in Errors
      BY <3>1 DEF Errors
    <3>. QED BY <3>1, <3>2, <3>3, CodesApart DEF Kinds
  <2>. QED BY <2>1, <2>2
<1>2. ASSUME GenerateSql PROVE OutcomeState'
  BY <1>2 DEF GenerateSql, LlmFailure, Raise
<1>3. ASSUME ClassifyIntent PROVE OutcomeState'
  <2>1. /\ pc = "classify_intent" /\ rows = Absent /\ ~out_of_scope /\ ~needs_clarification
        /\ error = NoError /\ ~truncated /\ ~limit_reached
        /\ UNCHANGED <<rows, truncated, limit_reached>>
    BY <1>0, <1>3 DEF ClassifyIntent, Unset
  <2>2. NoError \notin InputCodes \cup SqlCodes \cup LlmCodes
    BY CodesApart DEF Errors
  <2>3. CASE Intent(reply) \in {"read_only", "out_of_scope"}
    BY <1>3, <2>1, <2>2, <2>3, FixedKind DEF ClassifyIntent, Kinds
  <2>4. CASE Intent(reply) = "clarify"
    BY <1>3, <2>1, <2>2, <2>4, FixedKind DEF ClassifyIntent, Kinds
  <2>5. CASE Intent(reply) = "sql"
    BY <1>3, <2>1, <2>5 DEF ClassifyIntent
  <2>. QED BY <1>3, <2>3, <2>4, <2>5 DEF ClassifyIntent
<1>4. ASSUME Validate PROVE OutcomeState'
  BY <1>4 DEF Validate
<1>5. ASSUME Execute PROVE OutcomeState'
  <2>1. /\ pc = "execute" /\ pc' \in {"retry", "format_answer"} /\ rows = Absent
        /\ UNCHANGED <<out_of_scope, needs_clarification, answer>>
        /\ ~truncated /\ ~limit_reached /\ (out_of_scope => error = NoError)
    BY <1>0, <1>5 DEF Execute, RouteAfterExecute, Unset, LoopState
  <2>2. CASE out_of_scope \/ error # NoError
    BY <1>5, <2>1, <2>2 DEF Execute
  <2>3. CASE ~out_of_scope /\ error = NoError
    <3>1. Query /\ (QueryAnswers \/ QueryFails)
      BY <1>5, <2>3 DEF Execute
    <3>2. CASE QueryAnswers
      <4>1. validated.sql.limit \in 0..(MaxRows + 1) /\ matching' \in Nat
        <5>1. validated # None
          BY <1>0, <2>1, <2>3 DEF LoopState
        <5>. QED BY <1>0, <3>1, <5>1, MatchingAssumption DEF TypeOK, ValidatedQuery, Statement, Query
      <4>2. rows' # Absent /\ error' = error
        BY <3>2, <4>1, FetchCounts DEF QueryAnswers, Absent
      <4>. QED BY <2>1, <2>3, <4>2
    <3>3. CASE QueryFails
      BY <2>1, <2>3, <3>3 DEF QueryFails
    <3>. QED BY <3>1, <3>2, <3>3
  <2>. QED BY <2>2, <2>3
<1>6. ASSUME ExecuteRaises PROVE OutcomeState'
  BY <1>6 DEF ExecuteRaises, Raise
<1>7. ASSUME Retry PROVE OutcomeState'
  <2>1. /\ pc = "retry" /\ ~out_of_scope /\ UNCHANGED <<rows, truncated, limit_reached>>
        /\ UNCHANGED needs_clarification /\ pc' \in {"validate", "done"}
    BY <1>0, <1>7 DEF Retry, LoopState, LlmFailure, Raise
  <2>2. pc' = "validate" =>
          \/ out_of_scope' = TRUE /\ answer' = Fixed("out_of_scope")
          \/ UNCHANGED <<out_of_scope, answer>>
    BY <1>7 DEF Retry, LlmFailure, Raise
  <2>. QED BY <2>1, <2>2, FixedKind
<1>8. ASSUME FormatAnswer PROVE OutcomeState'
  <2>1. /\ pc = "format_answer" /\ pc' \in {"check_answer", "done"} /\ ~needs_clarification
        /\ UNCHANGED <<data, out_of_scope, needs_clarification>>
        /\ answer.kind = (IF out_of_scope THEN "out_of_scope" ELSE "absent")
    BY <1>8 DEF FormatAnswer, Raise
  <2>2. NoError \notin InputCodes \cup SqlCodes \cup LlmCodes
    BY CodesApart DEF Errors
  <2>3. CASE pc' = "done"
    BY <2>1, <2>3
  <2>4. CASE out_of_scope /\ UNCHANGED <<answer, error>>
    BY <2>1, <2>2, <2>4 DEF Kinds
  <2>5. CASE ~out_of_scope /\ error # NoError /\ answer' = Fixed("sql_error") /\ error' = error
    <3>1. error \in SqlCodes /\ rows = Absent
      BY <1>0, <2>1, <2>5 DEF LateState
    <3>2. error \notin InputCodes \cup LlmCodes
      BY <3>1, CodesApart DEF Errors
    <3>. QED BY <2>1, <2>5, <3>1, <3>2, FixedKind DEF Kinds
  <2>6. CASE ~out_of_scope /\ error = NoError /\ answer' \in Summaries /\ error' = error
    <3>1. validated # None /\ rows # Absent
      BY <1>0, <2>1, <2>6 DEF LateState
    <3>2. answer'.kind = "summary"
      BY <2>6 DEF Summaries
    <3>. QED BY <2>1, <2>2, <2>6, <3>1, <3>2 DEF Kinds
  <2>7. CASE ~out_of_scope /\ error = NoError /\ answer' = Fixed("summary_unavailable")
             /\ error' \in LlmCodes
    <3>1. validated # None /\ rows # Absent
      BY <1>0, <2>1, <2>7 DEF LateState
    <3>2. error' \notin InputCodes \cup SqlCodes
      BY <2>7, CodesApart DEF Errors
    <3>. QED BY <2>1, <2>7, <3>1, <3>2, FixedKind DEF Kinds
  <2>8. \/ pc' = "done"
        \/ out_of_scope /\ UNCHANGED <<answer, error>>
        \/ ~out_of_scope /\ error # NoError /\ answer' = Fixed("sql_error") /\ error' = error
        \/ ~out_of_scope /\ error = NoError /\ answer' \in Summaries /\ error' = error
        \/ /\ ~out_of_scope /\ error = NoError /\ answer' = Fixed("summary_unavailable")
           /\ error' \in LlmCodes
    BY <1>8 DEF FormatAnswer, Raise
  <2>. QED BY <2>3, <2>4, <2>5, <2>6, <2>7, <2>8
<1>9. ASSUME CheckAnswer PROVE OutcomeState'
  <2>1. /\ pc = "check_answer" /\ pc' = "end" /\ UNCHANGED <<data, flags>>
        /\ answer \in Answer /\ error \in Errors
    BY <1>0, <1>9 DEF CheckAnswer, TypeOK
  <2>2. CASE answer' = answer /\ (error # NoError \/ out_of_scope \/ answer.blank)
    <3>1. ~(answer.kind = "summary" /\ ~answer.blank)
      BY <2>1, <2>2, CodesApart
    <3>. QED BY <2>1, <2>2, <3>1
  <2>3. CASE answer' = [answer EXCEPT !.notes = Disclosures(answer)]
    <3>1. answer'.kind = answer.kind /\ Discloses(answer')
      BY <2>1, <2>3, NotesDisclose
    <3>2. Discloses(answer)'
      BY <2>1, <3>1 DEF Discloses
    <3>. QED BY <2>1, <3>1, <3>2
  <2>. QED BY <1>9, <2>2, <2>3 DEF CheckAnswer
<1>10. ASSUME Return PROVE OutcomeState'
  BY <1>10 DEF Return
<1>11. CASE UNCHANGED vars
  BY <1>11 DEF vars, Discloses
<1>. HIDE DEF OutcomeState, Step, inputs, data, flags, replyVars, runs, Early, Loop
<1>. QED
  BY <1>1, <1>2, <1>3, <1>4, <1>5, <1>6, <1>7, <1>8, <1>9, <1>10, <1>11 DEF Next, Node, Done

\* A response is final.
LEMMA ResponseIsFinal ==
  ASSUME TypeOK, Unset, [Next]_vars, result # None
  PROVE  UNCHANGED <<result, rows, truncated, limit_reached>>
<1>1. pc = "done"
  BY DEF Unset
<1>2. ~Node /\ ~Return
  BY <1>1 DEF Node, GuardInput, GenerateSql, ClassifyIntent, Validate, Execute, ExecuteRaises,
              Retry, FormatAnswer, CheckAnswer, Return, Step
<1>. QED BY <1>2 DEF Next, Done, vars, data

LEMMA OutcomesAgree ==
  Control /\ OutcomeState /\ OneOutcome /\ [Next]_vars => OneOutcome'
<1>. SUFFICES ASSUME Control, OutcomeState, OneOutcome, [Next]_vars, Returned'
              PROVE  OneOutcome'
  BY DEF OneOutcome
<1>0. TypeOK /\ Unset
  BY DEF Control
<1>1. CASE result # None
  BY <1>0, <1>1, ResponseIsFinal DEF OneOutcome, Returned
<1>2. CASE result = None /\ Return
  <2>1. pc = "end"
    BY <1>2 DEF Return
  <2>2. /\ result'.answer = answer /\ result'.error = error
        /\ result'.out_of_scope = out_of_scope /\ result'.needs_clarification = needs_clarification
        /\ result'.truncated = truncated /\ result'.limit_reached = limit_reached
    BY <1>2 DEF Return
  <2>3. result'.rows = (IF rows = Absent THEN 0 ELSE rows)
    BY <1>2 DEF Return
  <2>4. validated # None => result'.sql # None
    <3>1. validated # None => validated.sql \in Text
      BY <1>0, StatementIsText DEF TypeOK, ValidatedQuery
    <3>. QED BY <1>2, <3>1, NoneAssumption DEF Return
  <2>. QED BY <2>1, <2>2, <2>3, <2>4 DEF OneOutcome, OutcomeState, Kinds
<1>3. CASE \E code \in LlmCodes : LlmFailure(code)
  <2>1. PICK code \in LlmCodes : LlmFailure(code)
    BY <1>3
  <2>2. /\ result'.answer.kind = "llm_error" /\ result'.error = code /\ result'.rows = 0
        /\ ~result'.truncated /\ ~result'.limit_reached
        /\ ~result'.out_of_scope /\ ~result'.needs_clarification
    BY <2>1, FixedKind DEF LlmFailure
  <2>3. code \notin InputCodes \cup SqlCodes
    BY CodesApart DEF Errors
  <2>. QED BY <2>2, <2>3 DEF OneOutcome
<1>. QED BY <1>0, <1>1, <1>2, <1>3, ResponseStep DEF Returned

LEMMA SummariesDisclose ==
  Control /\ OutcomeState /\ AnswersDisclose /\ [Next]_vars => AnswersDisclose'
<1>. SUFFICES ASSUME Control, OutcomeState, AnswersDisclose, [Next]_vars, Returned',
                     result'.answer.kind = "summary", ~result'.answer.blank
              PROVE  Discloses(result.answer)'
  BY DEF AnswersDisclose
<1>0. TypeOK /\ Unset
  BY DEF Control
<1>1. CASE result # None
  BY <1>0, <1>1, ResponseIsFinal DEF AnswersDisclose, Returned, Discloses
<1>2. CASE result = None /\ Return
  <2>1. pc = "end" /\ result'.answer = answer /\ UNCHANGED <<rows, truncated, limit_reached>>
    BY <1>2 DEF Return, data
  <2>2. Discloses(answer)
    BY <2>1 DEF OutcomeState
  <2>. QED BY <2>1, <2>2 DEF Discloses
<1>3. CASE \E code \in LlmCodes : LlmFailure(code)
  BY <1>3, FixedKind DEF LlmFailure
<1>. QED BY <1>0, <1>1, <1>2, <1>3, ResponseStep DEF Returned

OutcomeInv == OutcomeState /\ OneOutcome /\ AnswersDisclose

LEMMA OutcomeInductive == Spec => []OutcomeInv
<1>1. Init => OutcomeInv
  <2>1. Init => OutcomeState
    BY FixedKind DEF Init, OutcomeState
  <2>2. Init => OneOutcome /\ AnswersDisclose
    BY DEF Init, OneOutcome, AnswersDisclose, Returned
  <2>. QED BY <2>1, <2>2 DEF OutcomeInv
<1>2. IInv /\ OutcomeInv /\ [Next]_vars => OutcomeInv'
  BY OutcomeStep, OutcomesAgree, SummariesDisclose DEF OutcomeInv, IInv
<1>. QED BY <1>1, <1>2, Inductive, PTL DEF Spec

\* graph.py:347-370, the response of ask(), for every reply and failure: it is one outcome, whose
\* error, flags, query and rows agree.
THEOREM ResponseIsOneOutcome == Spec => []OneOutcome
<1>1. OutcomeInv => OneOutcome
  BY DEF OutcomeInv
<1>. QED BY <1>1, OutcomeInductive, PTL

\* check.py:3-5: an empty, capped or limited result is disclosed by every summary of it.
THEOREM ResultsAreDisclosed == Spec => []AnswersDisclose
<1>1. OutcomeInv => AnswersDisclose
  BY DEF OutcomeInv
<1>. QED BY <1>1, OutcomeInductive, PTL

-----------------------------------------------------------------------------
(* The contract. *)

\* Nothing has answered yet while the graph may still run a statement.
LEMMA NodeIsStep ==
  ASSUME Control, OutcomeState, [Next]_vars
  PROVE  \/ UNCHANGED <<max_repairs, attempts, last_run, rows, truncated, limit_reached, result>>
         \/ /\ pc = "execute" /\ ~out_of_scope /\ error = NoError
            /\ Query /\ (QueryAnswers \/ QueryFails)
            /\ UNCHANGED <<max_repairs, result>>
         \/ /\ pc \in Nodes /\ result' = Raised
            /\ UNCHANGED <<max_repairs, attempts, last_run, rows, truncated, limit_reached>>
         \/ /\ pc \in {"generate_sql", "retry"} /\ \E code \in LlmCodes : LlmFailure(code)
            /\ UNCHANGED <<max_repairs, attempts, last_run, rows, truncated, limit_reached>>
         \/ /\ Return
            /\ UNCHANGED <<max_repairs, attempts, last_run, rows, truncated, limit_reached>>
<1>. USE DEF Step, inputs, data, flags, replyVars, runs, Nodes
<1>1. CASE GuardInput \/ ClassifyIntent \/ Validate \/ CheckAnswer
  BY <1>1 DEF GuardInput, ClassifyIntent, Validate, CheckAnswer
<1>2. CASE GenerateSql
  BY <1>2 DEF GenerateSql, LlmFailure, Raise
<1>3. CASE Execute
  BY <1>3 DEF Execute
<1>4. CASE ExecuteRaises
  BY <1>4 DEF ExecuteRaises, Raise
<1>5. CASE Retry
  BY <1>5 DEF Retry, LlmFailure, Raise
<1>6. CASE FormatAnswer
  BY <1>6 DEF FormatAnswer, Raise
<1>7. CASE Return
  BY <1>7 DEF Return
<1>8. CASE UNCHANGED vars
  BY <1>8 DEF vars
<1>. QED BY <1>1, <1>2, <1>3, <1>4, <1>5, <1>6, <1>7, <1>8 DEF Next, Node, Done

\* Each step of the graph, seen through the mapping, is one of the contract's or changes nothing.
LEMMA StepIsContract ==
  ASSUME Control, OutcomeState, [Next]_vars
  PROVE  [Contract!Next]_(Contract!vars)
<1>0. TypeOK /\ Unset /\ Progress /\ LoopState /\ LateState
  BY DEF Control
<1>. DEFINE last == IF last_run = None THEN None ELSE last_run.sql
            fetched == IF rows = Absent THEN None ELSE Shown(rows, truncated, limit_reached)
            response == IF result \in {None, Raised} THEN result
                        ELSE [sql |-> result.sql,
                              shown |-> Shown(result.rows, result.truncated, result.limit_reached)]
<1>1. rows # Absent => fetched # None
  <2>1. rows # Absent => Shown(rows, truncated, limit_reached) \in Rowset
    BY <1>0 DEF TypeOK, Rowset, Shown
  <2>. QED BY <2>1, NoneAssumption
<1>2. CASE UNCHANGED <<max_repairs, attempts, last_run, rows, truncated, limit_reached, result>>
  BY <1>2 DEF Contract!vars, Shown
<1>3. CASE /\ pc = "execute" /\ ~out_of_scope /\ error = NoError
           /\ Query /\ (QueryAnswers \/ QueryFails)
           /\ UNCHANGED <<max_repairs, result>>
  <2>1. result = None /\ rows = Absent /\ attempts <= max_repairs /\ attempts' = attempts + 1
    <3>1. attempts \in Nat /\ retry_count \in Nat /\ max_repairs \in Nat
      BY <1>0, RepairAssumption DEF TypeOK
    <3>2. attempts <= retry_count /\ retry_count <= max_repairs
      BY <1>0, <1>3 DEF Progress
    <3>. QED BY <1>0, <1>3, <3>1, <3>2 DEF Unset, Loop, Query
  <2>2. validated \in ValidatedQuery /\ last_run' = validated /\ matching' \in Nat
    BY <1>0, <1>3, MatchingAssumption DEF LoopState, TypeOK, Query
  <2>3. last' \in Statement
    BY <2>2, NoneAssumption DEF ValidatedQuery
  <2>4. fetched' \in {Shown(n, cut, limited) : n \in 0..MaxRows, cut \in BOOLEAN,
                                               limited \in BOOLEAN} \cup {None}
    <3>1. CASE QueryAnswers
      <4>1. validated.sql.limit \in 0..(MaxRows + 1)
        BY <2>2 DEF ValidatedQuery, Statement
      <4>2. rows' \in 0..MaxRows /\ truncated' \in BOOLEAN
        BY <2>2, <3>1, <4>1, FetchCounts DEF QueryAnswers
      <4>3. limit_reached' \in BOOLEAN
        BY <3>1 DEF QueryAnswers, LimitReached
      <4>. QED BY <4>2, <4>3
    <3>2. CASE QueryFails
      BY <2>1, <3>2 DEF QueryFails
    <3>. QED BY <1>3, <3>1, <3>2
  <2>5. response = None /\ fetched = None /\ response' = response
    BY <1>3, <2>1
  <2>. HIDE DEF last, fetched, response
  <2>6. Contract!Run
    BY <1>3, <2>1, <2>3, <2>4, <2>5 DEF Contract!Run, last, fetched, response
  <2>. QED BY <2>6 DEF Contract!Next
<1>4. CASE /\ pc \in Nodes /\ result' = Raised
           /\ UNCHANGED <<max_repairs, attempts, last_run, rows, truncated, limit_reached>>
  <2>1. result = None
    BY <1>0, <1>4 DEF Unset, Nodes
  <2>. QED BY <1>4, <2>1 DEF Contract!Next, Contract!Respond
<1>5. CASE /\ pc \in {"generate_sql", "retry"} /\ \E code \in LlmCodes : LlmFailure(code)
           /\ UNCHANGED <<max_repairs, attempts, last_run, rows, truncated, limit_reached>>
  <2>1. result = None /\ rows = Absent
    BY <1>0, <1>5 DEF Unset, Early, Loop
  <2>2. PICK code \in LlmCodes : LlmFailure(code)
    BY <1>5
  <2>3. result' \notin {None, Raised}
    BY <2>2, FailureIsResult, ResultAssumption
  <2>4. response' = [sql |-> None, shown |-> Shown(0, FALSE, FALSE)]
    BY <2>2, <2>3 DEF LlmFailure
  <2>. QED BY <1>5, <2>1, <2>4 DEF Contract!Next, Contract!Respond
<1>6. CASE /\ Return
           /\ UNCHANGED <<max_repairs, attempts, last_run, rows, truncated, limit_reached>>
  <2>1. pc = "end" /\ result = None
    BY <1>0, <1>6 DEF Return, Unset
  <2>2. result' \notin {None, Raised}
    BY <1>0, <1>6, ReturnIsResult, ResultAssumption
  <2>3. response' = [sql |-> IF validated = None THEN None ELSE validated.sql,
                     shown |-> Shown(IF rows = Absent THEN 0 ELSE rows, truncated, limit_reached)]
    BY <1>6, <2>2 DEF Return
  <2>4. validated # None => last = validated.sql
    BY <1>0, <2>1 DEF LateState, Late
  <2>5. rows # Absent => validated # None
    BY <2>1 DEF OutcomeState
  <2>6. CASE rows = Absent
    <3>1. ~truncated /\ ~limit_reached /\ truncated \in BOOLEAN /\ limit_reached \in BOOLEAN
      BY <1>0, <2>6 DEF OutcomeState, TypeOK
    <3>2. \E sql1 \in {None, last} : response' = [sql |-> sql1, shown |-> Shown(0, FALSE, FALSE)]
      BY <2>3, <2>4, <2>6, <3>1
    <3>. QED BY <1>6, <2>1, <2>6, <3>2 DEF Contract!Next, Contract!Respond
  <2>7. CASE rows # Absent
    <3>1. response' = [sql |-> last, shown |-> fetched]
      BY <2>3, <2>4, <2>5, <2>7
    <3>. QED BY <1>1, <1>6, <2>1, <2>7, <3>1 DEF Contract!Next, Contract!Respond
  <2>. QED BY <2>6, <2>7
<1>. QED BY <1>2, <1>3, <1>4, <1>5, <1>6, NodeIsStep

\* graph.py:308-313, what ask() promises: whatever the graph does, the database runs statements
\* one after another until one answers, within the budget of repairs, and the response shows that
\* one with its rows, or no rows.  (That a response comes is checked by the runs.)
THEOREM GraphKeepsContract == Spec => Contract!Safety
<1>1. Init => Contract!Init
  BY DEF Init, Contract!Init
<1>2. IInv /\ OutcomeInv /\ [Next]_vars => [Contract!Next]_(Contract!vars)
  BY StepIsContract DEF IInv, OutcomeInv
<1>. QED BY <1>1, <1>2, Inductive, OutcomeInductive, PTL DEF Spec, Contract!Safety
=============================================================================
