------------------------------ MODULE JudgeRun ------------------------------
(***************************************************************************)
(* The LLM judge (evals/judges): which answers of an evaluation run become *)
(* cases, the loop that has each case judged and records the verdict, and  *)
(* the agreement with the hand labels.  As in the runner one process runs  *)
(* at a time, may be killed between any two steps or within an append, and *)
(* is started again with the same command.  The files stay: the cases, the *)
(* judgments and the response cache.  The judge is not told whose answer a *)
(* case holds, so equal answers of two repeats are one question to it.     *)
(***************************************************************************)
EXTENDS Integers, Sequences, SequencesExt, FiniteSets

CONSTANTS
  Keys,          \* pairs of an item's number and a repeat
  Runs,          \* the results an evaluation run may have, by key
  JudgedRuns,    \* (bound) those whose cases are judged
  PerTier,       \* PER_TIER
  Labels,        \* by item: the hand label of a criterion, 1 to 5
  Scores,        \* the scores the judge may give on it
  WithinOneMin, PassMatchMin,   \* WITHIN_ONE_MIN and PASS_MATCH_MIN in percent
  MaxStarts,     \* (bound) how often a command is run
  None

ASSUME PerTierAssumption == PerTier \in Nat \ {0}
ASSUME KeysAssumption == Keys \subseteq Nat \X Nat /\ None \notin Keys
ASSUME RunsAssumption == \A run \in Runs : DOMAIN run \subseteq Keys /\ IsFiniteSet(DOMAIN run)
ASSUME ScoresAssumption == Scores \subseteq 1..5 /\ None \notin Scores
ASSUME SharesAssumption == WithinOneMin \in Nat /\ PassMatchMin \in Nat
ASSUME StartsAssumption == MaxStarts \in Nat
ASSUME JudgedAssumption == JudgedRuns \subseteq Runs

VARIABLES
  records, starts,
  cases,         \* the lines of the cases file; None before it is built
  command,       \* the one that builds it, or has: "build" (calibration) or "cases" (a run)
  judgments,     \* the lines of judgments.jsonl
  cache,         \* the replies stored, by what was asked
  pc,
  pool, chosen,          \* a process that selects: the records left, in order, and those chosen
  todo, reply, called    \* one that judges: the places of the cases left, the reply to the first,
                         \* and whether the provider was called since the last sleep

files == <<cases, command, judgments, cache>>
selecting == <<pool, chosen>>
judging == <<todo, reply, called>>
vars == <<records, starts, files, pc, selecting, judging>>

NoReply == [status |-> None, verdict |-> None]

Init ==
  /\ records \in Runs
  /\ starts = 0 /\ cases = None /\ command = None /\ judgments = <<>> /\ cache = {}
  /\ pc = "down" /\ pool = {} /\ chosen = <<>> /\ todo = {} /\ reply = NoReply /\ called = FALSE

-----------------------------------------------------------------------------
(* The cases.  An answer whose query gives another number of rows now raises before        *)
(* anything is written; SqlGate has what a query does when it is run again.                *)

\* judgeable: an answered question with SQL that ran.
Judgeable(repeats) == {k \in DOMAIN records : k[2] \in repeats /\ records[k].judgeable}

Repeats(cmd) == IF cmd = "build" THEN {0} ELSE {0, 1}

Before(j, k) == j[2] < k[2] \/ (j[2] = k[2] /\ j[1] < k[1])

Command == pc = "down" /\ starts < MaxStarts /\ starts' = starts + 1

\* build and build_run_cases; another file of cases is judged into another directory.
Build ==
  /\ Command /\ cases = None
  /\ command' \in {"build", "cases"}
  /\ pool' = Judgeable(Repeats(command')) /\ chosen' = <<>>
  /\ pc' = "selecting"
  /\ UNCHANGED <<records, cases, judgments, cache, judging>>

\* (mutant) an item that failed a check takes no place of its tier.
TakenByOthers(tier) ==
  Cardinality({k \in ToSet(chosen) : records[k].tier = tier /\ ~records[k].failed})

\* per_tier
Taken(tier) == Cardinality({k \in ToSet(chosen) : records[k].tier = tier})

\* select_items has a rule, select_run takes every record.
Wanted(k) == command = "build" => Taken(records[k].tier) < PerTier \/ records[k].failed

\* The first of the records left.
Choose ==
  /\ pc = "selecting"
  /\ \E k \in pool :
       /\ \A j \in pool \ {k} : Before(k, j)
       /\ chosen' = IF Wanted(k) THEN Append(chosen, k) ELSE chosen
       /\ pool' = pool \ {k}
  /\ UNCHANGED <<records, starts, files, pc, judging>>

\* The process is over: it ends, or is killed.
Idle ==
  /\ pc' = "down"
  /\ pool' = {} /\ chosen' = <<>>
  /\ todo' = {} /\ reply' = NoReply /\ called' = FALSE

WriteCases ==
  /\ pc = "selecting" /\ pool = {} /\ Idle
  /\ cases' = chosen
  /\ UNCHANGED <<records, starts, command, judgments, cache>>

-----------------------------------------------------------------------------
(* The judge. *)

TornLine == [key |-> None, status |-> "torn", verdict |-> None]
Torn == TornLine \in ToSet(judgments)

\* (mutant) a reply that did not parse is not done.
Parsed(lines) == {l.key : l \in {m \in ToSet(lines) : m.status = "ok" /\ m.verdict # None}}

\* done_keys
Done(lines) == {l.key : l \in {m \in ToSet(lines) : m.status = "ok"}}

\* judge() up to its loop.  An empty todo, or an operator who says no, ends it.
Start ==
  /\ Command /\ cases # None /\ records \in JudgedRuns /\ ~Torn
  /\ \E repeats \in {{0}, {0, 1}} :
       todo' = {i \in DOMAIN cases : cases[i][2] \in repeats /\ cases[i] \notin Done(judgments)}
  /\ pc' = IF todo' = {} THEN "down" ELSE "judging"
  /\ UNCHANGED <<records, files, selecting, reply, called>>

\* done_keys raises on the line, on this and every later run.
StartRaises ==
  /\ Command /\ cases # None /\ Torn
  /\ UNCHANGED <<records, files, pc, selecting, judging>>

Sleep ==
  /\ pc = "judging" /\ called
  /\ called' = FALSE
  /\ UNCHANGED <<records, starts, files, pc, selecting, todo, reply>>

InHand == cases[Min(todo)]
Asked == records[InHand].answer
Stored == {row \in cache : row.answer = Asked}

\* The reply is there; an invalid one is a verdict of None.
Replied(r, call, next) ==
  /\ reply' = r /\ pc' = next /\ called' = call
  /\ UNCHANGED <<records, starts, cases, command, judgments, selecting, todo>>

Asking == pc = "judging" /\ ~called

AskCached ==
  /\ Asking
  /\ \E row \in Stored : Replied([status |-> "cached", verdict |-> row.verdict], FALSE, "recording")
  /\ UNCHANGED cache

\* The client returns the judge's reply.
AskModel ==
  /\ Asking /\ Stored = {}
  /\ \E v \in Scores \cup {None} : Replied([status |-> "ok", verdict |-> v], TRUE, "storing")
  /\ UNCHANGED cache

\* The gateway's put.
Store ==
  /\ pc = "storing" /\ pc' = "recording"
  /\ cache' = cache \cup {[answer |-> Asked, verdict |-> reply.verdict]}
  /\ UNCHANGED <<records, starts, cases, command, judgments, selecting, judging>>

AskFails ==
  /\ Asking /\ Stored = {}
  /\ \E status \in {"RATE_LIMITED", "error"} :
       Replied([status |-> status, verdict |-> None], TRUE, "recording")
  /\ UNCHANGED cache

Line == [key |-> InHand, verdict |-> reply.verdict,
         status |-> IF reply.status \in {"ok", "cached"} THEN "ok" ELSE "error"]

\* The line is appended; a rate limit or the last case ends the loop.
Record ==
  /\ pc = "recording"
  /\ judgments' = Append(judgments, Line)
  /\ IF reply.status = "RATE_LIMITED" \/ todo = {Min(todo)} THEN Idle
     ELSE /\ pc' = "judging" /\ todo' = todo \ {Min(todo)} /\ reply' = NoReply
          /\ UNCHANGED <<selecting, called>>
  /\ UNCHANGED <<records, starts, cases, command, cache>>

\* Killed, or ended by an exception that is no LlmError, as one of the put is.
Crash == pc # "down" /\ Idle /\ UNCHANGED <<records, starts, files>>

CrashInAppend ==
  /\ pc = "recording" /\ Idle
  /\ judgments' = Append(judgments, TornLine)
  /\ UNCHANGED <<records, starts, cases, command, cache>>

\* (bound)
Over == pc = "down" /\ (starts = MaxStarts \/ (cases # None /\ records \notin JudgedRuns)) /\ UNCHANGED vars

Next ==
  \/ Build \/ Choose \/ WriteCases \/ Start \/ StartRaises \/ Sleep \/ AskCached \/ AskModel
  \/ Store \/ AskFails \/ Record \/ Crash \/ CrashInAppend \/ Over

Spec == Init /\ [][Next]_vars

-----------------------------------------------------------------------------
(* The agreement: agree() reads the judgments, at any time that they can be read. *)

\* load_jsonl raises without the file and on a torn line.
Readable == judgments # <<>> /\ ~Torn

\* By item: its verdict, the last line's; none if it was not judged or did not parse.
VerdictLines(id) ==
  {i \in DOMAIN judgments : judgments[i].status = "ok" /\ judgments[i].key[1] = id}

Verdict(id) == IF VerdictLines(id) = {} THEN None ELSE judgments[Max(VerdictLines(id))].verdict

LabelledItems == {cases[i][1] : i \in DOMAIN cases}
Judged == {id \in LabelledItems : Verdict(id) # None}

Pass(score) == score >= 4
WithinOne == {id \in Judged : Verdict(id) - Labels[id] \in -1..1}
PassMatch == {id \in Judged : Pass(Verdict(id)) = Pass(Labels[id])}

\* (mutant) the share is of the items that have a verdict.
OfJudged == Judged

Counted == LabelledItems

\* agreement's trust rule; the calibration set is of repeat 0.
Trusted ==
  /\ Readable /\ cases # None /\ command = "build" /\ Counted # {}
  /\ 100 * Cardinality(WithinOne) >= WithinOneMin * Cardinality(Counted)
  /\ 100 * Cardinality(PassMatch) >= PassMatchMin * Cardinality(Counted)

-----------------------------------------------------------------------------
(* Properties. *)

TypeOK ==
  /\ records \in Runs /\ starts \in 0..MaxStarts
  /\ cases # None => cases \in Seq(Keys)
  /\ command \in {"build", "cases", None}
  /\ judgments \in Seq([key : Keys \cup {None}, verdict : Scores \cup {None},
                        status : {"ok", "error", "torn"}])
  /\ \A row \in cache : row.verdict \in Scores \cup {None}
  /\ pool \subseteq Keys /\ chosen \in Seq(Keys)
  /\ pc \in {"down", "selecting", "judging", "storing", "recording"}
  /\ reply \in [status : {"ok", "cached", "RATE_LIMITED", "error", None},
                verdict : Scores \cup {None}]
  /\ todo # {} => cases # None /\ todo \subseteq DOMAIN cases
  /\ pc \in {"judging", "storing", "recording"} <=> todo # {}

\* calibration.py:8 "per tier the first two by id, plus every item that failed a deterministic
\* check": the loop with its counters selects by that rule, which no order of the lines of
\* the results can change; and the cases of a run are all that can be judged.  Either are in
\* the order of the repeats and ids, each once.
SelectionIsTheRule ==
  cases # None =>
    LET all == Judgeable(Repeats(command))
        Earlier(k) == {j \in all : records[j].tier = records[k].tier /\ j[1] < k[1]}
    IN /\ ToSet(cases) = IF command = "cases" THEN all
                         ELSE {k \in all : records[k].failed \/ Cardinality(Earlier(k)) < PerTier}
       /\ \A i, j \in DOMAIN cases : i < j => Before(cases[i], cases[j])

OkLines(k) == {i \in DOMAIN judgments : judgments[i].key = k /\ judgments[i].status = "ok"}

\* The last line that answers for the key.
GradeOf(k) == IF OkLines(k) = {} THEN None
              ELSE CHOOSE i \in OkLines(k) : \A j \in OkLines(k) : j <= i

Ledger == INSTANCE ResultLedger WITH Grades <- Nat, graded <- [k \in Keys |-> GradeOf(k)]

\* response.py:9 "An invalid reply is recorded as a parse failure, never repaired or re-asked";
\* run.py:13 "one checkpointed line per case", "resume by re-running the same command": over
\* any number of kills and resumes a case is judged once, and its verdict stays.
ImplementsLedger == Ledger!Spec

\* calibration.py:14, 221 "Missing or unparsed verdicts count as disagreements": a criterion
\* trusted on a run that was interrupted stays trusted when the run is resumed, as long as the
\* judgments can be read.  (A torn line ends both: no process resumes and agree() raises.)
TrustIsKept == [][Trusted /\ Readable' => Trusted']_vars
=============================================================================
