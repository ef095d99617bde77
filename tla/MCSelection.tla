---------------------------- MODULE MCSelection ----------------------------
(* A small instance of Selection: runs of two or three items with two repeats, two days    *)
(* with snapshots that list the model, list it with a smaller window or as inactive, or    *)
(* do not list it, and two candidates reported before.                                     *)
EXTENDS Selection

Answer(item, repeat, tier, kind) ==
  [item |-> item, repeat |-> repeat, suite |-> "golden", tier |-> tier, kind |-> kind,
   correct |-> TRUE, behaviour_ok |-> TRUE, false_refusal |-> FALSE, leaked |-> FALSE,
   extra_columns |-> Unset, format_valid |-> <<TRUE>>, latency |-> 2000, calls |-> 1,
   tokens |-> 400]

Easy(repeat, right) ==
  [Answer("a", repeat, "T1", "sql") EXCEPT !.correct = right, !.extra_columns = IF right THEN 0 ELSE 2]

Hard(repeat, right) ==
  [Answer("b", repeat, "T5", "empty") EXCEPT !.correct = right, !.false_refusal = ~right,
                                             !.latency = 4000, !.tokens = 900]

Clarify(repeat, right) == [Answer("c", repeat, "T8", "clarify") EXCEPT !.behaviour_ok = right]

Adversarial(repeat, right) ==
  [Answer("d", repeat, "adversarial", "refuse_any") EXCEPT !.suite = "adversarial", !.leaked = ~right]

\* Which of the easy and the hard item are right, in which repeat.
Rights == {<<TRUE, TRUE, TRUE, TRUE>>, <<TRUE, FALSE, TRUE, FALSE>>, <<TRUE, TRUE, TRUE, FALSE>>,
           <<FALSE, FALSE, TRUE, TRUE>>}

Repair(item, repeat, right) ==
  [Answer(item, repeat, "repair", "repair") EXCEPT !.correct = right, !.suite = "repair",
                                                  !.format_valid = <<right>>]

Summary(item, repeat, right) ==
  [item |-> item, repeat |-> repeat, suite |-> "synthesizer", kind |-> "synthesizer",
   tier |-> "synthesizer", faithful |-> right, must_disclose |-> item = "a", disclosed |-> right,
   concise |-> TRUE, currency |-> right, money |-> item = "b", leaked |-> FALSE,
   format_valid |-> <<>>, latency |-> 2500, calls |-> 1, tokens |-> 300]

MCRuns ==
  {[role |-> "sql_generator",
    records |-> <<Easy(0, r[1]), Hard(0, r[2]), Clarify(0, r[2]), Easy(1, r[3]), Hard(1, r[4]),
                  Clarify(1, r[4])>>] : r \in Rights}
  \cup {[role |-> "sql_generator",
         records |-> <<Easy(0, r[1]), Adversarial(0, r[2]), Easy(1, r[3]), Adversarial(1, r[4])>>]
        : r \in Rights}
  \cup {[role |-> "sql_repair",
         records |-> <<Repair("a", 0, r[1]), Repair("b", 0, r[2]), Repair("a", 1, r[3]),
                       Repair("b", 1, r[4])>>] : r \in Rights}
  \cup {[role |-> "synthesizer",
         records |-> <<Summary("a", 0, r[1]), Summary("b", 0, r[2]), Summary("a", 1, r[3]),
                       Summary("b", 1, r[4])>>] : r \in Rights}

MCEntries ==
  {[listed |-> FALSE]} \cup [listed : {TRUE}, active : {TRUE}, window : {1000, 500}]
    \cup [listed : {TRUE}, active : {FALSE}, window : {1000}]

Reported(role, total, correct, low, high, latency, eligible) ==
  [role |-> role, total |-> total, interval |-> <<low, high>>,
   factors |-> [execution_accuracy |-> correct, repair_success |-> correct,
               faithfulness |-> correct, latency |-> latency,
                quota_headroom |-> 600],
   gates |-> [available |-> eligible]]

\* Two that are close, one that fails a gate, one behind, and two of which the first is tied
\* with the second by correctness only, so that a third may come between them.
Rivals(role) ==
  {Reported(role, 100800, 1000, 900, 1100, 600, TRUE), Reported(role, 99000, 1000, 950, 1150, 1200, TRUE),
   Reported(role, 110000, 1200, 1200, 1200, 1200, FALSE), Reported(role, 30000, 100, 0, 200, 1200, TRUE),
   Reported(role, 112000, 400, 300, 500, 600, TRUE), Reported(role, 60000, 450, 400, 500, 1200, TRUE)}

MCBoards == [role \in {"sql_generator", "sql_repair", "synthesizer"} |-> Rivals(role) \X Rivals(role)]
MCLimits == [rpd |-> 1000, tpd |-> 200000]
=============================================================================
