---------------------------- MODULE EvalRunner ----------------------------
(***************************************************************************)
(* The evaluation runner (evals/runner.py): run() with its questions to    *)
(* the model, done_keys, the append of a record and write_report, on one   *)
(* run directory.  One process runs at a time and may be killed between    *)
(* any two steps or within an append; the operator starts it again at      *)
(* will, with the same or another model.  What persists are the files of   *)
(* the directory: results, manifest, response caches and report.  Another  *)
(* tag or date is another directory, which shares nothing with this one.   *)
(*                                                                         *)
(* A turn of an item is one call of the model here: its further calls are  *)
(* cached and fail in the same way.  A repair or synthesizer item has one  *)
(* turn.  An answer is paid for when the client returns it and stored one  *)
(* step later; a kill or a failing write between the two loses it.         *)
(***************************************************************************)
EXTENDS Naturals, Sequences, FiniteSets, Functions

CONSTANTS
  Repeats,      \* range(repeats)
  Items,        \* the suites' items, numbered in their order
  Turns,        \* the number of turns of each item
  Models,       \* the candidates --model may name
  MaxStarts,    \* (bound) how often the operator runs a command
  None

ASSUME NumbersAssumption == Repeats \subseteq Nat /\ Items \subseteq Nat
ASSUME KeysAssumption == IsFiniteSet(Repeats) /\ IsFiniteSet(Items)
ASSUME TurnsAssumption == Turns \in [Items -> Nat \ {0}]
ASSUME StartsAssumption == MaxStarts \in Nat

Keys == Repeats \X Items
Codes == {"LLM_RATE_LIMITED", "LLM_other"}

ASSUME NoneAssumption == None \notin Keys /\ None \notin Nat /\ None \notin Codes

VARIABLES
  starts,
  \* files
  results,      \* the lines of results.jsonl
  manifest,     \* the model that manifest.json names
  cache,        \* the rows of all response caches
  report,       \* what report.md was made of
  \* the process: where it is, its model, the keys still to do, and ask_all_turns' locals
  \* for the first of them
  pc, model, todo, turn, history, reply,
  \* history: calls that were answered, the numbers of those whose row was written; keys this
  \* process recorded
  spent, stored, tried

files == <<results, manifest, cache, report>>
process == <<pc, model, todo, turn, history, reply, tried>>
account == <<spent, stored>>
vars == <<starts, files, process, account>>

NoReply == [code |-> None, call |-> 0]

Init ==
  /\ starts = 0
  /\ results = <<>> /\ manifest = None /\ cache = {} /\ report = None
  /\ pc = "down" /\ model = None /\ todo = {}
  /\ turn = 1 /\ history = <<>> /\ reply = NoReply
  /\ spent = {} /\ stored = {} /\ tried = {}

-----------------------------------------------------------------------------
(* Files. *)

\* What a process killed while it appends leaves of its line; json.loads raises on it.
TornLine == [status |-> "torn", key |-> None, model |-> None, call |-> 0]
Torn == TornLine \in Range(results)

\* The keys of the lines.  (As a mutant of Done: whatever was recorded is done.)
Recorded(lines) == {line.key : line \in Range(lines)}

\* (mutant) nothing is known of an earlier run.
Forgotten(lines) == {}

\* done_keys
Done(lines) == {line.key : line \in {l \in Range(lines) : l.status = "ok"}}

\* write_report's `latest': a line replaces the ones of its key before it.
Latest(lines, k) ==
  lines[CHOOSE i \in DOMAIN lines :
          lines[i].key = k /\ \A j \in DOMAIN lines : j > i => lines[j].key # k]

\* The records and the errors of a report, and the number of lines it was made from.
ReportOf(lines) ==
  LET latest == {Latest(lines, k) : k \in {line.key : line \in Range(lines)}} IN
    [records |-> {line \in latest : line.status = "ok"},
     errors |-> {line \in latest : line.status # "ok"}, upto |-> Len(lines)]

\* (mutants) one response cache for all repeats; one for every process.
SharedCache(repeat) == 0
ProcessCache(repeat) == <<repeat, starts>>

\* settings_for: "repeat{repeat}.sqlite"
CacheFile(repeat) == repeat

-----------------------------------------------------------------------------
(* The command. *)

\* The order of the list comprehension: repeats first.
First(keys) ==
  CHOOSE k \in keys : \A j \in keys : k[1] < j[1] \/ (k[1] = j[1] /\ k[2] <= j[2])
Key == First(todo)

NextItem == turn' = 1 /\ history' = <<>> /\ reply' = NoReply

\* The process and what it knew are gone.
Gone == pc' = "down" /\ model' = None /\ todo' = {} /\ tried' = {} /\ NextItem

\* A command of the operator.
Command == pc = "down" /\ starts < MaxStarts /\ starts' = starts + 1

\* run() up to the loop: an empty todo goes straight to the report.
Start ==
  /\ Command /\ ~Torn
  /\ model' \in Models /\ tried' = {}
  /\ todo' = Keys \ Done(results)
  /\ IF todo' = {} THEN pc' = "reporting" /\ UNCHANGED manifest
                   ELSE pc' = "asking" /\ manifest' = model'
  /\ NextItem
  /\ UNCHANGED <<results, cache, report, account>>

\* done_keys raises, on this and every later run of the directory.
StartRaises == Command /\ Torn /\ UNCHANGED <<files, process, account>>

\* The messages of the next call: the turn's question after the answers before it.  (An answer
\* whose query failed is in them, too, where ask_all_turns leaves it out.)
Question == [item |-> Key[2], turn |-> turn, history |-> history]

Rows == {row \in cache : /\ row.file = CacheFile(Key[1])
                         /\ row.model = model /\ row.question = Question}

\* The rest of a turn: the next one, or the record.
EndTurn ==
  IF turn < Turns[Key[2]] THEN turn' = turn + 1 /\ pc' = "asking"
                          ELSE pc' = "recording" /\ UNCHANGED turn

Answered(call) ==
  /\ reply' = [code |-> None, call |-> call]
  /\ history' = Append(history, call)
  /\ EndTurn
  /\ UNCHANGED <<starts, results, manifest, report, model, todo, tried>>

\* The answer of an earlier process, or of an attempt before the item failed.
AskCached ==
  /\ pc = "asking"
  /\ \E row \in Rows : Answered(row.call)
  /\ UNCHANGED <<cache, account>>

\* The client returns the model's answer, number call: it is paid for.
AskModel ==
  /\ pc = "asking" /\ Rows = {}
  /\ LET call == Cardinality(spent) + 1 IN
       /\ spent' = spent \cup {[key |-> Key, model |-> model,
                                question |-> Question, call |-> call]}
       /\ reply' = [code |-> None, call |-> call]
  /\ pc' = "storing"
  /\ UNCHANGED <<starts, files, model, todo, turn, history, tried, stored>>

\* The gateway's put, and the rest of the turn.
Store ==
  /\ pc = "storing"
  /\ cache' = cache \cup {[file |-> CacheFile(Key[1]), model |-> model,
                           question |-> Question, call |-> reply.call]}
  /\ stored' = stored \cup {reply.call}
  /\ Answered(reply.call)
  /\ UNCHANGED spent

\* The provider fails: the agent answers with its code, and the next turn is asked anyway.
AskFails ==
  /\ pc = "asking" /\ Rows = {}
  /\ \E code \in Codes : reply' = [code |-> code, call |-> 0]
  /\ EndTurn
  /\ UNCHANGED <<starts, files, model, todo, history, tried, account>>

\* The last turn's result decides.
Line == [status |-> IF reply.code = None THEN "ok" ELSE "error",
         key |-> Key, model |-> model, call |-> reply.call]

\* The record is appended; a rate limit or the last key ends the loop.
Record ==
  /\ pc = "recording"
  /\ results' = Append(results, Line)
  /\ todo' = todo \ {Key} /\ tried' = tried \cup {Key}
  /\ pc' = IF reply.code = "LLM_RATE_LIMITED" \/ todo' = {} THEN "reporting" ELSE "asking"
  /\ NextItem
  /\ UNCHANGED <<starts, manifest, cache, report, model, account>>

Report ==
  /\ pc = "reporting"
  /\ report' = ReportOf(results)
  /\ Gone
  /\ UNCHANGED <<starts, results, manifest, cache, account>>

\* --report-only
ReportOnly ==
  /\ Command /\ manifest # None /\ results # <<>> /\ ~Torn
  /\ report' = ReportOf(results)
  /\ UNCHANGED <<results, manifest, cache, process, account>>

\* The process is killed, or an exception that is no LlmError ends it, as one of the put does.
Crash ==
  /\ pc # "down" /\ Gone
  /\ UNCHANGED <<starts, files, account>>

\* It is killed, or the disk is full, within the append.
CrashInAppend ==
  /\ pc = "recording" /\ Gone
  /\ results' = Append(results, TornLine)
  /\ UNCHANGED <<starts, manifest, cache, report, account>>

\* (bound) The operator has stopped.
Over == pc = "down" /\ starts = MaxStarts /\ UNCHANGED vars

Next ==
  \/ Start \/ StartRaises \/ ReportOnly
  \/ AskCached \/ AskModel \/ Store \/ AskFails \/ Record \/ Report
  \/ Crash \/ CrashInAppend \/ Over

Spec == Init /\ [][Next]_vars

-----------------------------------------------------------------------------
(* Properties. *)

Lines == [status : {"ok", "error", "torn"}, key : Keys \cup {None}, model : Models \cup {None},
          call : Nat]
Questions == [item : Items, turn : Nat, history : Seq(Nat)]

TypeOK ==
  /\ starts \in 0..MaxStarts
  /\ results \in Seq(Lines) /\ manifest \in Models \cup {None}
  /\ \A row \in cache : row.question \in Questions /\ row.model \in Models /\ row.call \in Nat
  /\ report # None => report.records \cup report.errors \subseteq Range(results)
  /\ pc \in {"down", "asking", "storing", "recording", "reporting"}
  /\ model \in Models \cup {None}
  /\ todo \subseteq Keys /\ tried \subseteq Keys
  /\ pc \in {"asking", "storing", "recording"} => todo # {} /\ turn \in 1..Turns[Key[2]]
  /\ history \in Seq(Nat) /\ reply \in [code : Codes \cup {None}, call : Nat]

OkLines(k) == {i \in DOMAIN results : results[i].key = k /\ results[i].status = "ok"}

\* The grade of a key: its latest ok line.
GradeOf(k) ==
  IF OkLines(k) = {} THEN None ELSE CHOOSE i \in OkLines(k) : \A j \in OkLines(k) : j <= i

Ledger == INSTANCE ResultLedger
  WITH Grades <- Nat, graded <- [k \in Keys |-> GradeOf(k)]

\* runner.py:10 "re-running the same command resumes it": over any number of kills and resumes,
\* with whatever model, a key is graded once, and its grade stays.
ImplementsLedger == Ledger!Spec

\* runner.py:9 "an answer must come from the model being scored", :12 "the 3 repeats stay
\* independent": a graded answer was given to the last turn of its own item in its own repeat,
\* by the model the record names; so two records never share one.
AnswersAreOwn ==
  \A line \in Range(results) : line.status = "ok" =>
    \E s \in spent :
      /\ s.call = line.call /\ s.key = line.key /\ s.model = line.model
      /\ s.question.turn = Turns[line.key[2]]

\* runner.py:11 "a resumed run reuses its own answers": once its answer is stored, a repeat never
\* puts the same messages to the same model again, however often it is killed and resumed.  (One
\* that was lost between the answer and its row is asked for again, and may be lost again.)
StoredIsNotAskedAgain ==
  \A s, t \in spent :
    s.key = t.key /\ s.model = t.model /\ s.question = t.question /\ s.call \in stored
      => t.call <= s.call

\* tests/unit/test_eval_runner.py:185 "An errored item is run again on resume"; runner.py:530
\* `latest`: a run that comes to its end has graded every key or tried it itself, also those
\* that failed before, and no report, whenever it is written, loses a key or counts it twice:
\* it has each recorded key as its answer if there is one, and else as an error.
NothingSkipped ==
  /\ pc = "reporting" /\ todo = {} => \A k \in Keys : OkLines(k) # {} \/ k \in tried
  /\ report # None =>
       LET lines == SubSeq(results, 1, report.upto) IN
         /\ report.records = {line \in Range(lines) : line.status = "ok"}
         /\ Cardinality(report.records) = Cardinality(Done(lines))
         /\ {line.key : line \in report.errors} = Recorded(lines) \ Done(lines)
=============================================================================
