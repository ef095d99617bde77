# SQL Query AI Agent: TLA+ models and proofs

The program answers questions about an e-commerce database. A question goes
through a LangGraph flow that asks a language model for SQL, checks it, runs it
on a read-only SQLite file and asks the model to put the rows into words. Around
that flow stand a FastAPI application with in-memory sessions, a resilient client
for the model's provider (limits, retries, fallback, cache, call log), and an
evaluation harness with resumable runs. This directory holds TLA+ models of it,
the TLC runs that check them and the theorems TLAPS proves about them.

`PROJECT.json` lists the components, the runs, the source lines each definition
stands for, the hazards of the code with the properties that cover them, and the
theorems. Where code and documentation disagree is said below, in prose.

Run things here: `tlc -config MCAgentFlow.cfg MCAgentFlow` checks a model,
`tlapm AgentFlowProofs.tla` the proofs of one (likewise `RateLimiterProofs`,
`ChatProofs`, `LlmClientProofs`, `LlmGatewayProofs`, `SqlGateProofs`, `EvalProofs` and
`JudgeRunProofs`).

## Inventory

| Component | State it keeps | Operations | Meets |
|---|---|---|---|
| Agent graph, `app/agent/` | an `AgentState` per question | 8 nodes, 3 routers, `ask` | gateway, validator, executor |
| SQL validator, `app/sql/validator.py` | none | `validate_sql`, the LIMIT rewrite | agent |
| Executor, `app/sql/executor.py` | one connection per query | `execute` (authorizer, timeout, cap) | agent, SQLite |
| Rate limiter, `app/llm/limiter.py` | per model: two buckets, day counters, block | `acquire`, `record`, `on_rate_limited` | every thread that calls the model |
| LLM client, `app/llm/client.py` | per call: attempts | `complete` (retry, wait, fallback) | limiter, provider |
| Gateway, cache, call log, `app/llm/` | a SQLite cache, a JSONL log, usage totals | `complete`, `get`, `put` | agent, client |
| Chat API, `app/main.py` | `SessionStore` | `/chat`, `get`, `append` | browser, agent |
| Eval runner, `evals/runner.py` | results.jsonl, manifest.json in a run directory | `run`, `done_keys`, `write_report` | agent, gateway |
| Judge, `evals/judges/` | cases, judgments, a cache, a summary | `build`, `judge`, `agree`, `summarize` | gateway, runner's results, executor |
| Graders and scoring, `evals/` | none; reads the catalog snapshots | `execution_match`, `score_candidate`, `rank` | runner |
| Frontend, `frontend/app.js` | busy flag, session id | `send` | chat API |
| Observability, prompts, schema, settings, smoke test | read once, or per request | formatting, rendering, I/O | all |

How they interact: `/chat` runs on a thread of FastAPI's pool; the thread reads
the session's history, runs the whole graph and appends the turn. All threads
share one `Agent`, and through it one gateway, one client and one limiter; they
share the `SessionStore`. Both shared objects are guarded by a lock that is held
only for their critical sections: a caller sleeps for the limiter, waits for the
provider and runs its query outside every lock.

What is hard in it:

* *Concurrency*: reservations, sleeps, 429s and refunds of several threads
  interleave in the limiter; requests of one session overlap in the store.
* *Algorithms with state*: a query passes nine checks in an order that decides its code; rows
  are paired along augmenting paths; candidates are ranked by a tie that is not transitive.
* *Failure*: the model's calls fail in five ways at three places of the graph,
  each with another consequence; a repair loop re-enters validation and execution
  with state left by the attempt before; cache and database files may fail.
* *Ordering and time*: 429s and headers arrive late and out of order; counters
  roll over at midnight UTC with calls in flight; sleeps end late.
* *Boundaries*: a LIMIT at, below and above the row cap; the store and the
  buckets at their limits; the repair budget against LangGraph's own.
* *Restarts*: sessions and day counters are lost, while pages keep their session ids; an eval
  run and a judging run are killed and resumed; a report is rebuilt days later.

What makes each component correct:

* *Agent graph*: a response is one coherent outcome; a query it shows is the one
  that ran, with its rows; partial and empty results are flagged and disclosed;
  work is bounded; final errors are final.
* *Limiter*: what it lets through obeys the buckets' law, the day's budgets and
  the blocks, whatever the callers' interleaving; waiting callers are served in order.
* *Sessions*: no turn is lost or leaked into another session; a follow-up sees
  the exchange it follows; eviction takes the oldest, and only to make room.
* *Client*: network attempts and waits are bounded; the fallback is used for the
  two reasons it exists for; the error code is the last failure's.
* *Gateway*: one log record per call; a hit is an answer of the same request by
  the same model.
* *Eval runner*: every item has one graded result however often the run is
  interrupted; nothing is graded twice, and nothing asked again that was stored.
* *Validator and executor*: a write is always reported as one; the second layer stops what the
  first lets through only where a CTE's scope tells them apart; a validated query is stable when
  validated again.
* *Graders*: a result is right exactly if its rows can be paired with the reference's.
* *Judge*: the cases are those of the rule; each is judged once; trust is not of a partial run.
* *Scoring*: factors stay in their range, a report is a function of its run, and the ranking
  is the documented rule.
* *Page*: it can always send the next question, and shows the conversation the server has.

## Modules

| Module | What it is |
|---|---|
| `RowCap` | operators: what validation does to a LIMIT, what execution reports of the rows |
| `AgentFlow` | one question through the graph; extends `RowCap` |
| `AskContract` | the abstract specification of `Agent.ask` that `AgentFlow` implements |
| `AgentFlowProofs` | the inductive invariant of `AgentFlow` and its theorems |
| `RateLimiter` | one model's limiter under concurrent callers, with a clock |
| `RateLimiterProofs` | the inductive invariant of `RateLimiter` and its theorems |
| `ChatSessions` | the `/chat` handler and the session store under concurrent requests |
| `ChatProofs` | the invariants of `ChatSessions` and `ChatPage` and their theorems |
| `LlmClient` | one call of the client: retries, pauses, the fallback, its error code |
| `LlmClientProofs` | the inductive invariant of `LlmClient` and its theorems |
| `LlmGateway` | concurrent calls over the response cache, the client and the call log |
| `LlmGatewayProofs` | the inductive invariant of `LlmGateway` and its theorems |
| `EvalRunner` | an evaluation run that is killed, rate limited and resumed |
| `EvalProofs` | the theorems of `EvalRunner` with its refinement, of `Grading` and of `Selection` |
| `ResultLedger` | the abstract specification of a results file, which `EvalRunner` and `JudgeRun` implement |
| `SqlGate` | a query through the validator's checks and the executor's layers, and again; extends `RowCap` |
| `SqlGateProofs` | the inductive invariant of `SqlGate` and its theorems |
| `Grading` | the grade of one answered item, with the search of `execution_match` step by step |
| `JudgeRun` | the selection of cases, a judging run that is killed and resumed, the agreement |
| `JudgeRunProofs` | the inductive invariant of `JudgeRun`, its theorems and its refinement |
| `ChatPage` | the browser page before the chat server; extends `ChatSessions` |
| `Selection` | the factors, gates and report of a run, and the ranking of candidates |
| `MC*` | the small instances |

### AgentFlow

One action per node of the graph; the action is the node's function, the merge of
what it returns into the state, and the edge the router takes from there. The
variables carry the names of the `AgentState` keys; `pc` is the node to run next.
`Return`, `LlmFailure` and `Raise` are the three ways out of `ask`. The
environment chooses the model's reply, a provider error code at each call, the
database's outcome, and how many rows the query would match without its LIMIT.

A text of the model is reduced to what the code tells apart: the control tokens
in it, whether it opens with CLARIFY, the verdict of the checks before the row
cap, its LIMIT, and whether it is still the model's wording or was regenerated.
An answer is reduced to its kind, whether it is blank, what it discloses and the
notes appended. `question` and the history enter no decision after `guard_input`
and are not carried.

Three history variables hold what the properties compare the response with:
`made` (calls that completed), `attempts`, `last_run` and `matching` (what the
database was given, and how many rows it would have). `steps` counts supersteps.

### RateLimiter

Each critical section of the limiter is one action (`Acquire`, `Refuse`, `Record`,
`OnRateLimited`), each preceded by `_refresh` as in the code; a caller sleeps
between `Acquire` and `Send`, and wakes at its deadline or any time later. `Fail`
is a call that ended otherwise: the limiter is not told. The callers are as
general as they can be: any thread may acquire any estimate at any time.

Time is in ticks. Levels are integers in units of 1/Minute, so refills are exact;
the code's floats are exact up to rounding errors of about 1e-12, which are left
out. The history variable `scheduled` counts, by tick, the sends that are due then or earlier,
so that what a span of time holds is a difference. A sleep ends on the first tick at or after its deadline. Another model's
limiter shares only the lock with this one, so one model is enough. The clock
does not move inside a critical section.

### ChatSessions

A request is `Start` (read the history under the lock), `AskReturns` (any outcome,
any time later), `Store` (append and evict, under the lock) and `Respond`.
`order` and `turns` are the OrderedDict. `Restart` empties it and drops the
requests under way. The `log`, `birth` and `forgotten` variables are history: what
was appended to a session since it was created, when that was, and which requests
lost their turn with their session.

### LlmClient

A call alternates between `attempt` (the limiter sleeps and lets it through, `Acquired`,
or raises, `Refused`), `calling` (the provider answers, `Answered`, or fails,
`CallFails`) and `backoff` (tenacity sleeps). What follows a failure is three
definitions the two places share: `Retry`, `FallBack`, `GiveUp`. The limiter and the
provider are the environment and do anything their interfaces allow: any wait up to the
longest, any refusal, any error of the transport with any retry-after. `tries` is
tenacity's attempt number, `counter` the list `_with_retries` counts network calls in,
`attempts` the sum `complete` returns. The jitter is any pause up to its ceiling.

The history variables add up what the properties bound or compare: attempts begun on
each model, requests sent, time slept in the limiter and in tenacity, what is left of
the last retry-after, and the failure each model was given up for.

### LlmGateway

A call is `Lookup` (`cache.get`: hit, miss or exception), `ClientAnswers` or
`ClientFails`, `Put` (`cache.put`) and `Done` (`_done`): one action per transaction of
the cache or write of the log, so that calls of several threads and processes interleave
between them, and `Restart` may kill any of them there. Each of the three can raise. The
client is what `LlmClient` may return: an answer of either model, or an error.

A question stands for all that `cache_key` hashes besides the model; that equal keys
mean equal requests is SHA-256's. An answer is named by the call it was given to, which
is what lets `ResultsAreGenuine` ask where a cached one came from. The model is that of
an application with a cache and a call log; without the cache there is only `Done`'s path.
`UsageTracker` is not wired into the application and is left out.

### EvalRunner

One run directory and the commands an operator gives it, one process at a time. The files
are variables that survive a `Crash`: `results` (the lines of results.jsonl), `manifest`,
`cache` (the rows of every repeat's response cache) and `report`; the process has `todo`,
the model it was started with and the locals of `ask_all_turns` for the first key of `todo`.
`Start` is `run` up to its loop; `AskCached`, `AskModel` with `Store`, and `AskFails` are one
turn of an item; `Record` appends the line and ends the loop on a rate limit; `Report` and
`ReportOnly` are `write_report`. `CrashInAppend` leaves a torn line, on which `done_keys`
raises at every later start (`StartRaises`). Another date or tag is another directory, and
so another instance. Declining the confirmation changes nothing and is no action.

A turn is one call of the model: its further calls are cached, and fail, in the same way. In
`AskModel` the client returns the answer, which is then paid for; `Store` is the gateway's
`cache.put` and the rest of the turn. A process may be killed between the two, and an exception
of the put ends it there (`run` catches `LlmError` only), so a resumed run may pay again for an
answer that was lost. An item whose answer is wrong is as `ok` as one that
is right; grading is another component. The messages of a turn hold every answer before it,
also one whose query failed, which the code leaves out: two histories the code tells apart
are told apart here. `spent` (the calls answered), `stored` (the numbers of those that got their
row) and `tried` are history variables.

### SqlGate

`Pass` and `Reject` run one check of `validate_sql`; `Checks` is their order, and each check is
an operator that gives the codes it may reject with. `Pass` of the check `limit` puts the row
cap into the tree, with the operators of `RowCap`. `Execute` is SQLite behind the authorizer,
`Replay` what the judge does with a stored query. A query is what the code asks of sqlglot,
and `Queries` holds the trees and texts that the parser may return; sqlglot and SQLite
themselves are external.

Names are resolved twice, as they are in the program. The validator has one set of CTE names for
the whole tree (`CteNames`, `IsCte`). SQLite finds a CTE only from within its WITH clause: a
statement has its clauses as a sequence of sets of names, a reference the clauses around it, and
`InScope`, `Opened`, `TablesRead` and `Missing` look nowhere else. What else is in the database
is `Unlisted` (views, SQLite's own tables), and `Virtual` are names its authorizer does not let
it open. `faulty` is whatever only SQLite finds: a column, a function or an aggregate it does not
know or allow there, or SQL that only sqlglot parses; such a query ends in an execution error, or
in a timeout before it gets there.

### Grading

`GradeItem` is `grade_agent_item` up to the comparison, `Compare` the choice between rows in order
and in any order, and `Skip`, `Displace`, `Assign` and `Fail` are the steps of the recursive
function `assign`, whose calls under way are `stack`. `RowContains` is the loop of `row_contains` without its
steps: each value of the reference takes the first value close to it (`TakesFirst`) of those the
values before it have left (`Pool`). Numbers are compared with the absolute tolerance, in
thousandths. `Grading` and `Selection` share no name with each other or with `EvalRunner`, so
that one module can hold the proofs of the three.

### JudgeRun

`Build`, `Choose` and `WriteCases` are the two commands that make the cases, one step of
`Choose` per record and one file written at the end, as a kill in between leaves none; the
records left are `pool`, and `per_tier` is counted from those `chosen`. `Start` to
`CrashInAppend` are `judge`, with the answer and its row as two steps, as in `EvalRunner`.
`Trusted` is what `agree` prints when it is called now, for one criterion, by percentages; it
raises without the file and on a torn line (`Readable`). The operator gives the same command each time, with one judge
model and either set of repeats. Every reply of the judge's model is cached by the answer it
is shown, so the answers of two repeats may share one. A score is a scale of five with the
scores the instance picks.

### ChatPage

The actions of `ChatSessions` with a network and a page around them: `Send` posts with the
session id the page holds, `Arrive` lets the handler start, `Receive`, `Rejected` and
`FetchFails` are the three ways out of `fetch`, each with the finally clause. `FetchFails`
may come while the message is on its way, before or while it is handled, or when the answer
was sent and lost; a message whose fetch failed may still arrive. `Reload` forgets the page.
`dialog` is what the page shows and `posted` the session id in a message; an id of uuid4 is one
no request has had (bound: one is left). `mine` and `broken` are history: what the page asked
since it was loaded, and whether a fetch failed since.

### Selection

`Begin`, `AnswerRecorded`, `CallFails` and `WriteReport` are the run as scoring sees it, `NextDay` and
`TakeSnapshot` the catalog, `RankReported` the ranking of the report beside two others. Scores
are whole numbers of 1/1200, rounded down, so that they are exact for the halves, thirds and
quarters of the instance. Factors are over sets of the records' places, so that records that
are equal count as often as they were written. `P95` is the least latency that enough records
do not exceed, and a sort is the order it gives (`InOrder`): a place comes after all those that
its key or, for equal keys, the order before the sort puts ahead of it. The interval of `bootstrap` is the least and the greatest value over
all draws: with three items or fewer the seeded thousand draws hold each of them more often
than the percentiles need. `total_interval` is shown and never used, and is left out.

## Runs

`agent_flow` (381,456 states): cap of 2 rows and 0 to 4 matching rows, so that
every LIMIT below, at, just above and beyond the cap meets fewer, as many and more
rows; repair budgets 0, 1 and 3 (the settings allow 0 to 3); one code of each fate
(blank, final, repairable) for the checks before the cap; every mix of control
tokens. A larger instance adds no case: the code compares counts with the cap, the
cap plus one and the LIMIT only. It checks

* `PresentedSqlRan`, `OneOutcome`: the response's query, flags and code agree, with
  repairs, failures and late refusals in any order;
* `PartialRowsFlagged`: fewer rows than match means exactly one flag;
* `AnswersDisclose`: a non-blank answer discloses what the rows' flags say;
* `BoundedWork`: the repair loop's bounds, also against LangGraph's recursion limit of 25;
* `Terminates`: every question ends;
* `ImplementsContract`: refinement of `AskContract`: its `Safety` and its fairness.

`rate_limiter` (two callers, rpm 2, tpm 3, rpd 3, tpd 5, a minute of 2 ticks, a day of
3, 5 instants, waits up to 2): estimates below, at and above the tpm, costs below and
above the estimates, headers present and absent, two retry-after values so that 429s
contradict each other. Each limit binds, and a midnight falls inside. It checks
`DebtBounded`, `DayRequestsKept`, `DayTokensKept`, `QueueFairly` and `BlockHonoured`.
`rate_limiter_pace` has three callers, a refill that is not a whole number of requests
(2 per 3 ticks) and limits for the day that do not bind, and checks `RequestsPaced`: the
bound it states is reached, so it is the best one.

`chat_sessions`: four requests over three sessions, room for two, two turns, one
restart: enough for a session to be evicted and created again while another request
of it is under way, for three turns to push one out, and for a follow-up. It checks
`NoTurnLost`, `ContextIsOwn`, `FollowUpHasContext` and `EvictsOldest`.

`llm_client` (181,284 states): three attempts, a longest wait of 2 with a backoff of 1
below it, and a retry-after of 0, 2 and 3, so that it is zero, at and above the
longest wait and above the ceiling of the jitter. One call suffices: calls share nothing
but the limiter, which is the environment here. It checks `WorkBounded` (requests and
waits of a call; with the deadlock check this is also its termination), `GivesUpForAReason`
and `RetryAfterHonoured`.

`llm_gateway` (35,721 states): three calls of two questions with one restart: two calls
may miss together and both write, a third may hit either, and one may be sampled or ask
something else. It checks `ResultsAreGenuine`, `StoredIsReused` and
`RecordsMatchOutcomes`.

The callers of the limiter, the calls and questions of the gateway, the requests and ids of
the sessions and the candidates of the eval runner are interchangeable, and those runs use
symmetry; their temporal properties are all safety, of the form `Init /\ [][A]_vars`. The
constants marked (bound) in the modules (`Horizon`, `Requests`, `MaxRestarts`,
`MaxStarts`) limit the behaviours examined and nothing the code does.

`eval_runner` (330,335 states): two repeats of an item with two turns, two candidates and
three commands. A repeat may then be interrupted in its first or second turn and resumed by
the same candidate, by the other and by the first again, with the cache and lines of both; a
key may fail, be answered and be met a third time; and there is a key left when a rate limit
ends the loop. More items add keys, which meet only in the order of `todo` and in `results`,
as the repeats do. It checks

* `AnswersAreOwn`: a graded answer was given to that item, in that repeat, by that model;
* `StoredIsNotAskedAgain`: once an answer has its row, no process of the repeat spends a call on
  the same question to the same model; an answer that a kill or a failed put took before it had
  its row is asked for again, any number of times, and the run has such behaviours;
* `NothingSkipped`: a run that ends has graded or tried every key, and a report counts a key
  once, as its answer if it has one;
* `ImplementsLedger`: refinement of `ResultLedger`: a key is graded once, for good.

`sql_gate` (73,613 states): trees with every set of up to two references to an allowed table, a
table that is not, a virtual table and a name of none, plain, qualified and in another schema,
inside and outside of up to two WITH clauses that may take any of these names; faulty or not;
with every LIMIT around the cap; and, with one reference, every kind of root, with and
without a write or a forbidden function inside; and every text the tokenizer and the parser
may disagree on. It checks `MostSpecificCode`, `LayersAgree` and `ReplayIsSame`.

`grading` (122,386 states): results and references of up to three rows and two values, with
a number that is close to two others, a text that reads like a number, a null, and
alternates; three rows are the fewest with an augmenting path that displaces twice. It checks
`VerdictIsAPairing` and `SearchIsSound`.

`judge_run` (239,609 states): for the selection every run of four items in two tiers, judged
or not, failed or not; for the judge three cases of a tier, or two repeats answered alike
and a third case, and four commands. It checks `SelectionIsTheRule`, `ImplementsLedger`
and `TrustIsKept`.

`chat_page` (720,328 states): a page with three questions, a reload, a restart, room for one
session and one turn: the page loaded again evicts its first session, whose request may be under
way, lost or answered late. A second page would be to the server what the reloaded page is. It
checks `ConversationIsContext` and `InputComesBack`.

`selection` (265,520 states): for each role four runs of four to six records in two repeats, of
which any prefix may be scored; two days, each with any of four snapshots of the catalog or
none; and 36 pairs of other candidates, tied by total, by interval or by both, or not
eligible. It checks `FactorsInRange`, `RankIsTheRule` and `ReportIsReproducible`.

### Fairness

`AgentFlow` has liveness under weak fairness of its steps: the graph runs on the thread that
called `ask` and every wait in it ends (the provider's HTTP timeout, the limiter's longest wait,
the executor's progress handler, the cache's lock timeout of 10 s). `ChatPage` has weak fairness
of the handler's steps, for the same reason, and of the end of a fetch: the browser gives the page
a response or reports that the connection is lost. No message need ever arrive, nobody need
ask, and the server may restart at any time. Nothing in the limiter, the store, the runner or the
judge is promised to happen: callers may sleep on and processes may be gone, and what
is checked is safety. The client needs no fairness: its bounds are invariants.

### Where code and documentation part

Met while modelling; the models have what the code does, and their properties state what it
keeps.

* `check()` returns at once when the answer is blank (`graph.py:262`), so a blank summary of an
  empty, capped or limited result goes out with no disclosure; `check.py:4` says the node
  "makes disclosure guaranteed". `AnswersDisclose` is about answers that are not blank.
* After a failed repair call `ask` reports no usage (`graph.py:346`), although the generation
  before it was paid for; `graph.py:313` says usage "totals this question's model calls".
* A caller computes its wait once, under the lock, and does not look again after its sleep
  (`limiter.py:122`): it may send during a block that a 429 began meanwhile. `limiter.py:143`
  says the model is blocked "for every caller". `BlockHonoured` is about later reservations.
* A `cache.get` or `cache.put` that raises ends the call outside the part that logs failures
  (`gateway.py:70` and `:100`): no record, where `gateway.py:6` has "one call-log record per call".
* `_check_tables` takes a name for a CTE's wherever a CTE of the query has it (`validator.py:278`
  and `:296`), SQLite only in that CTE's scope. A query may use the name elsewhere and pass: it
  then reads a table of that name, allowed or not, which `ValidatedQuery.tables` does not name
  (`validator.py:130`: "the real tables it reads"), or fails in the executor, also with the
  `DB_DENIED` that `executor.py:148` calls "unreachable when the validator works".
  `LayersAgree` says that the layers differ in nothing else.
* `ask_all_turns` goes on after a turn that failed and returns the last turn's result
  (`runner.py:161`): a rate limit in the first turn of an item with two neither stops the run
  nor keeps the follow-up, asked without its context, from being graded, where
  `runner.py:476` calls a provider failure "not a result to grade".
* An item whose reference is empty is graded correct when the question was refused or
  clarified, since it has no rows either (`runner.py:210`); `behaviour_ok` is False for it
  (`graders.py:94`), and `_tier_macro` counts `correct` only. `VerdictIsAPairing` is about the
  items with rows to answer.
* Closeness is not transitive, and `row_contains` takes the first value that is close
  (`graders.py:54`): with values in a chain a result with a pairing may be graded wrong.
  `VerdictIsAPairing` says so by excluding `Chained` rows from one of its directions.
* `rank` looks for ties only if the second candidate is tied with the first, and compares
  each with the first only (`scoring.py:276`): with a tie that is not transitive a candidate
  tied with the winner, and more correct, may be ranked behind it, where MODEL_SELECTION.md:69
  gives ties to higher correctness. `RankIsTheRule` is restricted to candidates that being
  tied divides into classes (`Divides`); without that TLC finds such rankings.
* A run in which every call failed passes the gates for format and context: it has no replies,
  and its failed calls are logged with no tokens (`scoring.py:190`, `runner.py:523`), where
  `runner.py:502` says "an unverified gate is not a pass".

## Proofs

Every property a run checks is proved as well, but for what the end of this section lists.

`AgentFlowProofs` proves, for every row cap, reply set, database size and repair setting the
assumptions allow, that `Spec` implies `TypeOK`, `PresentedSqlRan`, `OneOutcome`,
`PartialRowsFlagged`, `AnswersDisclose`, `BoundedWork` and `FormatReadsWhatWasSet`, and that it
implements `AskContract!Safety`.

None of them is inductive: they speak of the response, and what a node may rely on is a matter
of where the run is. The inductive invariant `IInv` says by control point which keys are set and
how they relate, in parts: `Progress` (supersteps, calls and attempts as functions of the node
and the repairs spent), `Unset` (what no earlier node has set), `LoopState` (what validate,
execute and retry hand to each other), `LateState` (a query a late node can present is the last
that ran) and `RowsState` (the rows held are what that query yields under its LIMIT). Each part
has a lemma that a step keeps it, with one step of the proof per action. `CapIsHonest` is the
arithmetic of the row cap: which flags a count of rows gets under an enforced LIMIT.

`OneOutcome` and `AnswersDisclose` need `OutcomeState` besides: at the end of a run the kind of
the answer tells the error, the flags and whether rows are held, as no code means two things
(`CodesApart`), and what `check_answer` appends is what the answer left out (`NotesDisclose`).
For the contract each action is `Run`, `Respond` or a stutter (`StepIsContract`); that `execute`
starts no statement beyond the budget, and none after rows were fetched, is `IInv`.

The assumptions are those the modules name: the cap is positive, repair settings are within the
bounds Settings enforces, replies are texts of the model, the recursion limit is at least 17.

`ChatProofs` proves, for any set of requests and sessions, any capacity and any length of
history, that `Spec` implies `TypeOK`, `NoTurnLost`, `ContextIsOwn`, `FollowUpHasContext` and
the action property `EvictsOldest`, and for any set of pages that `PSpec` implies
`ConversationIsContext`. `NoTurnLost` rests on `SliceOfSlice`: slicing after every append keeps
the turns that slicing once after them all would. `ContextIsOwn` needs that a turn in a list is
of a request past the store (`Settled`), which is why a request is never shown its own turn and
no later step changes what a turn says. `EvictsOldest` needs that the keys are in the order of
their sessions' births (`Ages`). `FollowUpHasContext` needs that a session's log has each
exchange once (`Logged`) and all that were not forgotten (`Remembered`), and counts: if an
exchange is not in the history of a follow-up, as many as the history holds were stored after it
(`PushedOut`).

For the page, `PageInv` says who knows a session id: requests of one page only (`OnePage`),
since a request carries the id of an earlier one of its page or gets a new one (`Held`), and
each is posted once (`Owners`). With it the first half of `ConversationIsContext` follows from
`ContextIsOwn`. The second half is `TalkInv`: while nothing broke, the log of the page's session
is the dialog shown and, once stored, the question waited for (`InStep`).

`LlmClientProofs` proves, for any number of attempts, any waits and any set of retry-afters,
that `Spec` implies `TypeOK`, `WorkBounded`, `GivesUpForAReason`, `AttemptsCounted` and
`RetryAfterHonoured`. The invariant says at each control point how many attempts and requests
each model has had (`tries` counts the attempts begun or about to begin, `counter` the requests
among them), that the pauses so far are at most those of the attempts that ended in one, and
that a pause about to be slept covers what is owed of the retry-after; the bounds are then
linear arithmetic but for two products, which are lemmas.

`LlmGatewayProofs` proves, for any number of concurrent calls, questions and restarts, that
`Spec` implies `TypeOK`, `ResultsAreGenuine`, `RecordsMatchOutcomes` and the action property
`StoredIsReused`. The invariant is that every row of the cache has a `Source`: a call that was
answered by the row's model, asked the row's question at temperature 0, and has its answer,
after which none of its locals changes (`SourceStays`); what a call holds is its own answer or a
row (`Good`). That a stored question stays stored (`StoredIsCached`) gives `StoredIsReused`: a
write replaces a row and never removes one.

`SqlGateProofs` proves, for every set of queries over the features `AnyQuery` lists, every row
cap and every set of tables, that `Spec` implies `TypeOK`, `MostSpecificCode`, `LayersAgree` and
`ReplayIsSame`. `LayersAgree` is `LayersDifferByScope`: whatever is within the scope of a CTE of
its name is a CTE for the validator, too (`ScopesAreWithin`), so a table that SQLite opens in a
query that passed was checked, or has a stray name (`ClearedReads`), and what is stopped for
another reason than a fault or the time has a stray name of no allowed table (`Agree`). The
invariant is that a check that was passed would be passed again by the query
as it now is (`Passed`): the two checks that change something, the tables recorded and the LIMIT
rewritten, change nothing an earlier check looked at. `ReplayIsSame` needs one fact more, that
capping a capped LIMIT leaves it (`CapFixed`).

`EvalProofs` proves, for any finite sets of repeats and items, any turns, models and number of
starts, that `Spec` implies `TypeOK`, `AnswersAreOwn`, `StoredIsNotAskedAgain` and `NothingSkipped`,
and that it implements `ResultLedger` (`ImplementsLedger`): the append of an answer's line
grades its key, and every other step, a failure's line, a torn one and each kill included, is a
stutter. The invariant is that the caches hold only what was paid for and all of it that was
stored (`Bought`), that an answer on its way to its row is the last one given (`Held`), that one
in the results was paid for under its own key and is the last line of that key (`Graded`, over
`Sound`), and that a report tells the lines up to its point (`Told`). The next key is the least
that is not done; that a set of numbers has a least and a finite one a greatest number comes
from the library's well-foundedness of `<`.

The same module proves, for any items, rows and values, that `GSpec` implies `SearchIsSound` and
`VerdictIsAPairing`. The invariant `GInv` says what the search has done: the references before
were not matched (`Compared`), the owned rows pair the reference rows before the one in hand
(`Owning`), the calls under way are each at a row of its own whose owner calls the next
(`Path`), and each row a call or a row's loser has passed was seen or does not contain its
reference row (`Exhausted`). A search that ends with a free row keeps a pairing that is one
larger (`Augmented`). One that fails has tried, for its reference row and for those that own a
row it saw, every row that contains them; those rows are one fewer than these references, so no
pairing exists (`NotPaired`, a pigeonhole). The other direction also needs that taking the first
close value loses nothing where closeness is transitive: the first value of a reference that
found none left would, with the values before it close to the same, outnumber the row's values
close to it (`OneIsLeft`, `GreedyFinds`). Assumed of the items is what `ask` and the golden set
keep: rows come only of a query that ran, and an item of kind sql has references with rows.

Of `Selection` it proves that `SelSpec` implies `ReportIsReproducible`, `FactorsInRange` and
`RankIsTheRule`, for any runs, records, limits, catalogs, boards and number of days.

* `ReportIsReproducible`: the entry a report reads is of a day up to the run's, and after that
  day no snapshot of those changes, so the report is always what would be written now (`Settled`).
* `FactorsInRange`: the invariant is `Scored`, that what was written is a prefix of one of the
  runs and the report is of its role. What a report says is then bounded factor by factor
  (`GeneratorTypes`, `RepairTypes`, `SynthesizerTypes`), a factor being a share of finitely many
  places, a mean of shares, a difference cut off at 0 or a quotient cut off at 1, and the total
  because the weights of each role add up to 100 (`TotalTypes`). The sums are the library's
  folds, a fold being a function chosen by its equation. So it is first proved that every finite
  set has exactly one such function (`FoldExists`, `FoldsAgree`) and that a sum may be taken from
  any of its elements on (`SumTakesAny`); each of these goes by a least counterexample, since an
  induction theorem of the library could not be used.
* `RankIsTheRule`: a stable sort is stated as listing places by how many come before them.
  For a strict total order these counts are distinct and fill the interval, so each place is
  listed once and in order (`InOrderLists`); sorting by a total, or by correctness and then
  efficiency, keeps a total order total (`ByTwoIsTotal`). The rest is about who wins. The first by
  total is tied with itself; if it is tied with the second, whoever comes first of the tie is
  tied with all of it and beats the others through the first (`TieIsWon`), and if not, nobody
  further down is (`LeadIsWon`). That a report can be ranked at all, its factors being numbers,
  is `Scored` again (`BallotOf`).

Assumed of the constants is what the code writes: latencies, calls and tokens are natural
numbers and format checks Booleans (`RunsAssumption`), the limits are natural numbers
(`LimitsAssumption`), `TIE_MARGIN` is positive (`MarginAssumption`), and reports read back have
the role they are filed under and numbers (`BoardsAssumption`). Nothing is assumed of intervals
and gates.

`JudgeRunProofs` proves, for any set of runs, labels, scores and thresholds and any number of
kills and resumes, that `Spec` implies `TypeOK` and `SelectionIsTheRule`, that it implements
`ResultLedger`, and the action property `TrustIsKept`. `Selecting` is the invariant of the loop
over the records: those chosen so far are those of the rule, and of a tier either every record
met was chosen or its places are taken; as the loop goes in the order of the rule, a record that
finds no place left has that many of its tier before it. `Recorded` and `Undone` say that a case
has at most one verdict and that what a process has to do has none, which is why a verdict
stays; trust can then only be gained, since the share is of all labelled items (`Counted`) and
an item that has a verdict keeps it. Runs are assumed to be finite sets of keys, and scores to
be 1 to 5.

`RateLimiterProofs` proves, for any finite number of threads, any limits, estimates, costs,
headers and length of time, that `Spec` implies `TypeOK`, `DayRequestsKept`, `DayTokensKept`,
`DebtBounded`, `RequestsPaced` and the action properties `QueueFairly` and `BlockHonoured`. Each
bound is inductive only with the room that the calls in flight still have: `DayCost` and `Debt`
charge every call from its reservation on with what it may cost beyond its estimate, so that a
late report uses only room of its own. `QueueFairly` rests on `Queued`: whoever sleeps until a
moment does so because of a level that has not recovered by then or of the block (`Due`), a
refresh keeps that reason, and a wait computed later covers it (`WaitIsNeeded`,
`OnlyAcquireReserves`); a refund empties the history variable `queue`, which is where the
property stops. `RequestsPaced` rests on `Paced`: what a span of ticks has scheduled was taken
from the level, so together they are at most a full bucket and the refill since the span began.
The proofs multiply variables, so the products are lemmas and the leaves linear. The model's
`Threads`, `Estimates` and `Actuals` are assumed finite: `Overshoot` is the greatest of finitely
many numbers.

Every safety property and every action property of the runs is thus a theorem. Left to TLC are
`Terminates`, `InputComesBack` and the fairness part of `ImplementsContract`, which are liveness
and out of the prover's reach.

## Plan

In order of what the system depends on most; the first ten are done.

1. `AgentFlow`, `RowCap`, `AskContract`, `AgentFlowProofs`.
2. `RateLimiter`, `ChatSessions`, `ChatProofs`.
3. `LlmClient`, `LlmClientProofs`.
4. `LlmGateway`, `LlmGatewayProofs`.
5. `EvalRunner` and `JudgeRun` over `ResultLedger`.
6. `SqlGate`, `Grading`, `Selection`.
7. `ChatPage` over `ChatSessions`.
8. `SqlGateProofs`, `EvalProofs`, `RateLimiterProofs`, `JudgeRunProofs`.
9. The invariants that needed more than the first one of their module: `RequestsPaced`,
   `OneOutcome`, `AnswersDisclose`, `FollowUpHasContext`, `ConversationIsContext`, `SearchIsSound`,
   `VerdictIsAPairing`, `SelectionIsTheRule`, the contract and the ledger of the judge.
10. `RankIsTheRule`, with the ranking stated by what a sort gives and not by how the library
   sorts, and `FactorsInRange`, with lemmas about sums over finite sets.
11. The rest of the graders (a summary's style, a repaired query), rescoring, and the
   baseline's pairing, which takes the first row that matches and has no way back.

## Not modelled

The text of prompts, SQL and answers; SQLite and sqlglot themselves; LangGraph, of
which only the order of nodes, the merge of updates and the recursion limit are used;
the number matching of `check_answer` (its finding is recorded and changes nothing);
log formatting, the viewer, the smoke test and the static files, which keep no state;
the runner's `--ids` and rescoring, the manifest's other fields and the report's text; the
judge's rubric, the check of its replies' JSON and its summary; the graders of summaries and
repaired queries; the relative part of the tolerance and Python's rounding half to even; the
historical baseline script.
