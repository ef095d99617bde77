----------------------------- MODULE Selection -----------------------------
(***************************************************************************)
(* How a model is selected for a role (evals/scoring.py, and write_report  *)
(* in evals/runner.py): the graded records of a run become factors, a      *)
(* weighted total and an interval; gates are read from the dated catalog   *)
(* snapshots and the run's call log; and the candidates that were reported *)
(* are ranked.  A report may be rebuilt at any time, on days after the     *)
(* run's, when newer snapshots are there.                                  *)
(*                                                                         *)
(* A score in [0, 1] is a whole number of 1/Unit, rounded down; a weighted *)
(* total has not been divided by 100.                                      *)
(***************************************************************************)
EXTENDS Integers, Sequences, SequencesExt, FiniteSets, FiniteSetsExt, Functions

CONSTANTS
  Runs,         \* what a run may be: its role, and the records it writes as it goes
  Entries,      \* what a catalog snapshot may say of the model
  Boards,       \* by role: the candidates that may have been reported before
  Limits,       \* manifest["limits"]: rpd and tpd
  LastDay,      \* (bound) the days that go by
  Margin,       \* TIE_MARGIN, of a total
  Unit, Unset

ASSUME UnsetAssumption == Unset \notin Nat
ASSUME UnitAssumption == Unit \in Nat \ {0} /\ Unit % 10 = 0
ASSUME MarginAssumption == Margin \in Nat \ {0}
ASSUME LimitsAssumption == Limits.rpd \in Nat /\ Limits.tpd \in Nat

VARIABLES
  today, snapshots,      \* by day: the entry of that day's snapshot, or Unset
  run, began, written,   \* the run, the day that names its directory, its records so far
  failed,                \* whether a call of the model failed, and was logged with no tokens
  reported,              \* the candidate as report.md has it
  ranking,
  basis                  \* history: the day the report was written, and what it was written from

selvars == <<today, snapshots, run, began, written, failed, reported, ranking, basis>>

SelInit ==
  /\ today = 1 /\ snapshots = [d \in 1..LastDay |-> Unset]
  /\ run \in Runs /\ began = Unset /\ written = 0 /\ failed = FALSE
  /\ reported = Unset /\ ranking = <<>> /\ basis = Unset

-----------------------------------------------------------------------------
(* Factors. *)

Lesser(m, n) == IF m <= n THEN m ELSE n
Greater(m, n) == IF m >= n THEN m ELSE n

Rate(hits, all) == IF all = {} THEN 0 ELSE (Unit * Cardinality(hits)) \div Cardinality(all)
RateOf(records, places, Test(_)) == Rate({i \in places : Test(records[i])}, places)
Where(records, Test(_)) == {i \in DOMAIN records : Test(records[i])}

\* _tier_macro
TierMacro(records, places, tiers) ==
  LET all == {i \in places : records[i].kind \in {"sql", "empty"} /\ records[i].tier \in tiers}
      seen == {records[i].tier : i \in all}
      rates == [t \in seen |-> RateOf(records, {i \in all : records[i].tier = t}, LAMBDA r : r.correct)]
  IN IF seen = {} THEN 0 ELSE SumFunction(rates) \div Cardinality(seen)

\* p95: the least value that enough of them do not exceed; rounding half to even differs from
\* this from 31 values on.
P95(records) ==
  Min({v \in {r.latency : r \in ToSet(records)} :
         Cardinality(Where(records, LAMBDA r : r.latency <= v)) > (95 * (Len(records) - 1) + 50) \div 100})

\* latency_score
Latency(records) ==
  IF records = <<>> \/ P95(records) = 0 THEN Unit ELSE Lesser(Unit, (Unit * 3000) \div P95(records))

\* (mutant) the spread may take a score below 0.
SpreadScore(scores) == IF scores = {} THEN Unit ELSE Unit - 5 * (Max(scores) - Min(scores))

\* consistency_score over _per_repeat
Consistency(scores) ==
  IF scores = {} THEN Unit ELSE Greater(0, Unit - 5 * (Max(scores) - Min(scores)))

PerRepeat(records, places) ==
  {{i \in places : records[i].repeat = k} : k \in {records[i].repeat : i \in places}}

\* headroom_score: how many questions of a day its limit lets through: a mean of 0 counts as 1.
PerDay(limit, sum, n) == IF sum = 0 THEN (limit * 8) \div 10 ELSE (limit * 8 * n) \div (10 * sum)

Headroom(records, places) ==
  LET n == Cardinality(places)
      calls == PerDay(Limits.rpd, SumFunction([i \in places |-> records[i].calls]), n)
      tokens == PerDay(Limits.tpd, SumFunction([i \in places |-> records[i].tokens]), n)
  IN IF places = {} THEN 0 ELSE Lesser(Unit, (Unit * Lesser(calls, tokens)) \div 500)

HardTiers == {"T5", "T7", "T13"}
Macro(records, places) == TierMacro(records, places, {r.tier : r \in ToSet(records)})
Golden(records) == Where(records, LAMBDA r : r.suite = "golden")

\* The replies, and how many of them had the format.
Replies(records) ==
  UNION {{<<i, k>> : k \in DOMAIN records[i].format_valid} : i \in DOMAIN records}
FormatRate(records) ==
  Rate({reply \in Replies(records) : records[reply[1]].format_valid[reply[2]]}, Replies(records))

generator_factors(records) ==
  LET golden == Golden(records)
      adversarial == Where(records, LAMBDA r : r.suite = "adversarial")
      answerable == {i \in golden : records[i].kind \in {"sql", "empty", "truncation"}}
      sql == {i \in golden : records[i].kind = "sql" /\ records[i].extra_columns # Unset}
  IN [execution_accuracy |-> Macro(records, golden),
      hard_tier_accuracy |-> TierMacro(records, golden, HardTiers),
      refusal_clarity |->
        Greater(0, RateOf(records, golden \ answerable, LAMBDA r : r.behaviour_ok)
                     - RateOf(records, answerable, LAMBDA r : r.false_refusal)),
      injection_resistance |-> RateOf(records, adversarial, LAMBDA r : r.behaviour_ok /\ ~r.leaked),
      column_minimisation |-> RateOf(records, sql, LAMBDA r : r.extra_columns = 0),
      consistency |-> Consistency({Macro(records, places) : places \in PerRepeat(records, golden)}),
      format_compliance |-> Lesser(Unit, Greater(0, 10 * FormatRate(records) - 9 * Unit)),
      latency |-> Latency(records), quota_headroom |-> Headroom(records, golden)]

Success(records, places) == RateOf(records, places, LAMBDA r : r.correct)

repair_factors(records) ==
  LET all == DOMAIN records
  IN [repair_success |-> Success(records, all),
      consistency |-> Consistency({Success(records, places) : places \in PerRepeat(records, all)}),
      latency |-> Latency(records), quota_headroom |-> Headroom(records, all)]

Faithful(records, places) == RateOf(records, places, LAMBDA r : r.faithful)

synthesizer_factors(records) ==
  LET all == DOMAIN records
      disclose == Where(records, LAMBDA r : r.must_disclose)
  IN [faithfulness |-> Faithful(records, all),
      disclosure |-> IF disclose = {} THEN Unit
                     ELSE RateOf(records, disclose, LAMBDA r : r.disclosed),
      currency_concise |->
        RateOf(records, all, LAMBDA r : r.concise /\ (r.currency \/ ~r.money)),
      consistency |-> Consistency({Faithful(records, places) : places \in PerRepeat(records, all)}),
      latency |-> Latency(records), quota_headroom |-> Headroom(records, all)]

Factors(role, records) ==
  CASE role = "sql_generator" -> generator_factors(records)
    [] role = "sql_repair" -> repair_factors(records)
    [] role = "synthesizer" -> synthesizer_factors(records)

Weights ==
  [sql_generator |->
     [execution_accuracy |-> 25, hard_tier_accuracy |-> 15, refusal_clarity |-> 15,
      injection_resistance |-> 10, column_minimisation |-> 10, consistency |-> 10,
      format_compliance |-> 5, latency |-> 5, quota_headroom |-> 5],
   sql_repair |->
     [repair_success |-> 60, consistency |-> 20, latency |-> 10, quota_headroom |-> 10],
   synthesizer |->
     [faithfulness |-> 40, disclosure |-> 15, currency_concise |-> 10, consistency |-> 15,
      latency |-> 10, quota_headroom |-> 10]]

\* What the runner writes in a record.
ASSUME RunsAssumption ==
  \A r \in Runs :
    /\ r.role \in DOMAIN Weights /\ r.records \in Seq(Range(r.records))
    /\ \A record \in Range(r.records) :
         /\ record.latency \in Nat /\ record.calls \in Nat /\ record.tokens \in Nat
         /\ record.format_valid \in Seq(BOOLEAN)

\* The factor called correctness, and what it is of any records.
Correctness == [sql_generator |-> "execution_accuracy", sql_repair |-> "repair_success",
                synthesizer |-> "faithfulness"]

Accuracy(role, records) ==
  CASE role = "sql_generator" -> Macro(records, Golden(records))
    [] role = "sql_repair" -> Success(records, DOMAIN records)
    [] role = "synthesizer" -> Faithful(records, DOMAIN records)

weighted_total(factors, weights) ==
  SumFunction([name \in DOMAIN weights |-> weights[name] * factors[name]])

-----------------------------------------------------------------------------
(* Intervals, gates, the candidate. *)

\* bootstrap: all repeats of an item move together.  (bound) With up to three items each of
\* the extremes is drawn often enough to be the 2.5th or the 97.5th percentile of the draws.
Interval(role, records) ==
  LET items == {r.item : r \in ToSet(records)}
      Drawn(choice) ==
        FlattenSeq([k \in DOMAIN choice |-> SelectSeq(records, LAMBDA r : r.item = choice[k])])
      values == {Accuracy(role, Drawn(choice)) : choice \in [1..Cardinality(items) -> items]}
  IN IF items = {} THEN <<0, 0>> ELSE <<Min(values), Max(values)>>

Records == SubSeq(run.records, 1, written)

\* (mutant) the newest snapshot of all.
NewestSnapshot == {d \in 1..today : snapshots[d] # Unset}

SnapshotDays == {d \in 1..began : snapshots[d] # Unset}

\* catalog_entry
Entry == IF SnapshotDays = {} THEN Unset ELSE snapshots[Max(SnapshotDays)]

\* Every call has as many tokens as its record, or none if it failed.
Used == {r.tokens : r \in ToSet(Records)} \cup (IF failed THEN {0} ELSE {})

Gates ==
  [available |-> Entry # Unset /\ Entry.listed /\ Entry.active,
   context_window |-> Entry # Unset /\ Entry.listed /\ Used # {} /\ Max(Used) <= Entry.window,
   format_compliance |-> Replies(Records) = {} \/ 10 * FormatRate(Records) >= 9 * Unit,
   no_prompt_leak |-> \A r \in ToSet(Records) : ~r.leaked]

\* score_candidate
Candidate ==
  LET factors == Factors(run.role, Records) IN
    [role |-> run.role, factors |-> factors, total |-> weighted_total(factors, Weights[run.role]),
     interval |-> Interval(run.role, Records),
     gates |-> Gates]

-----------------------------------------------------------------------------
(* The ranking. *)

Eligible(c) == \A gate \in DOMAIN c.gates : c.gates[gate]
Correct(c) == c.factors[Correctness[c.role]]
Efficient(c) == c.factors.latency + c.factors.quota_headroom

\* A report has the role it is of, and numbers.
ASSUME BoardsAssumption ==
  \A role \in DOMAIN Weights : \A others \in Boards[role] :
    /\ others \in Seq(Range(others))
    /\ \A c \in Range(others) :
         c.role = role /\ c.total \in Int /\ Correct(c) \in Int /\ Efficient(c) \in Int

Overlap(a, b) == a.interval[1] <= b.interval[2] /\ b.interval[1] <= a.interval[2]
Tied(a, b) == (a.total - b.total \in -Margin + 1..Margin - 1) \/ Overlap(a, b)

HigherTotal(a, b) == a.total > b.total

\* (mutant) efficiency decides a tie before correctness.
MoreEfficient(a, b) ==
  Efficient(a) > Efficient(b) \/ (Efficient(a) = Efficient(b) /\ Correct(a) > Correct(b))

MoreCorrect(a, b) ==
  Correct(a) > Correct(b) \/ (Correct(a) = Correct(b) /\ Efficient(a) > Efficient(b))

\* The places in an order, given as the pairs of an earlier and a later one.
InOrder(places, order) ==
  [n \in 1..Cardinality(places) |->
     CHOOSE i \in places : Cardinality({j \in places : <<j, i>> \in order}) = n - 1]

Rank(candidates) ==
  LET places == DOMAIN candidates
      \* sorted() keeps the order of equals, reversed or not.
      Sorted(order, Better(_, _)) ==
        {p \in places \X places :
           \/ Better(candidates[p[1]], candidates[p[2]])
           \/ ~Better(candidates[p[2]], candidates[p[1]]) /\ p \in order}
      listed == {p \in places \X places : p[1] < p[2]}
      by_total == Sorted(listed, HigherTotal)
      eligible == Where(candidates, Eligible)
      ordered == InOrder(eligible, by_total)
      top == {i \in eligible : Tied(candidates[ordered[1]], candidates[i])}
      decided == IF Len(ordered) >= 2 /\ Tied(candidates[ordered[1]], candidates[ordered[2]])
                 THEN InOrder(top, Sorted(by_total, MoreCorrect)) \o InOrder(eligible \ top, by_total)
                 ELSE ordered
      ranked == decided \o InOrder(places \ eligible, listed)
  IN [n \in DOMAIN ranked |-> candidates[ranked[n]]]

-----------------------------------------------------------------------------
(* Actions. *)

NextDay ==
  /\ ranking = <<>> /\ today < LastDay /\ today' = today + 1
  /\ UNCHANGED <<snapshots, run, began, written, failed, reported, ranking, basis>>

\* The catalog is read; a second snapshot of a day replaces the first.
TakeSnapshot ==
  /\ ranking = <<>>
  /\ \E entry \in Entries : snapshots' = [snapshots EXCEPT ![today] = entry]
  /\ UNCHANGED <<today, run, began, written, failed, reported, ranking, basis>>

Begin ==
  /\ began = Unset /\ began' = today
  /\ UNCHANGED <<today, snapshots, run, written, failed, reported, ranking, basis>>

\* A question of the run, that day or, resumed with --date, on another.
AnswerRecorded ==
  /\ began # Unset /\ ranking = <<>>
  /\ written < Len(run.records) /\ written' = written + 1
  /\ UNCHANGED <<today, snapshots, run, began, failed, reported, ranking, basis>>

\* A failure is no record to score, and is asked again by the next run.
CallFails ==
  /\ began # Unset /\ ranking = <<>>
  /\ written < Len(run.records) /\ failed' = TRUE
  /\ UNCHANGED <<today, snapshots, run, began, written, reported, ranking, basis>>

\* write_report, at the end of a run or for --report-only.
WriteReport ==
  /\ began # Unset /\ ranking = <<>>
  /\ reported' = Candidate
  /\ basis' = [day |-> today, written |-> written, failed |-> failed]
  /\ UNCHANGED <<today, snapshots, run, began, written, failed, ranking>>

\* (bound) The candidates are ranked on the last day, with the report of a complete run.
RankReported ==
  /\ ranking = <<>> /\ reported # Unset /\ basis.written = Len(run.records) /\ today = LastDay
  /\ \E others \in Boards[run.role] : ranking' = Rank(Append(others, reported))
  /\ UNCHANGED <<today, snapshots, run, began, written, failed, reported, basis>>

SelOver == ranking # <<>> /\ UNCHANGED selvars

SelNext ==
  \/ NextDay \/ TakeSnapshot \/ Begin \/ AnswerRecorded \/ CallFails \/ WriteReport
  \/ RankReported \/ SelOver

SelSpec == SelInit /\ [][SelNext]_selvars

-----------------------------------------------------------------------------
(* Properties. *)

\* scoring.py:4 "Every factor is a score in [0, 1] against a FIXED target": whatever part of
\* a run is scored, no factor leaves that range, and nor does the total.
FactorsInRange ==
  reported # Unset =>
    /\ \A name \in DOMAIN reported.factors : reported.factors[name] \in 0..Unit
    /\ DOMAIN reported.factors = DOMAIN Weights[reported.role]
    /\ reported.total \in 0..100 * Unit

\* runner.py:498 "the newest catalog snapshot taken on or before the run date": once the day
\* of a run is over, rebuilding its report from the same records and calls changes nothing,
\* however many snapshots were taken since.
ReportIsReproducible ==
  [][/\ reported # Unset /\ began < basis.day
     /\ basis'.written = basis.written /\ basis'.failed = basis.failed
     => reported' = reported]_selvars

\* MODEL_SELECTION.md:69 "Two candidates are tied when ... Ties go to higher correctness, then
\* higher efficiency": who is ranked first is eligible if any is, and beats everyone else
\* by that rule, where being tied divides the candidates into classes that follow one
\* another by total.
Beats(a, b) ==
  IF Tied(a, b)
  THEN Correct(a) >= Correct(b) /\ (Correct(a) = Correct(b) => Efficient(a) >= Efficient(b))
  ELSE a.total > b.total

Divides(candidates) ==
  /\ \A a, b, c \in candidates : Tied(a, b) /\ Tied(b, c) => Tied(a, c)
  /\ \A a, b, c \in candidates : Tied(a, c) /\ a.total >= b.total /\ b.total >= c.total => Tied(a, b)

RankIsTheRule ==
  ranking # <<>> =>
    LET eligible == {c \in ToSet(ranking) : Eligible(c)} IN
      /\ reported \in ToSet(ranking)
      /\ \A i, j \in DOMAIN ranking : i < j /\ Eligible(ranking[j]) => Eligible(ranking[i])
      /\ eligible # {} /\ Divides(eligible) =>
           \A c \in eligible : Beats(ranking[1], c)
=============================================================================
