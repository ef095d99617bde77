----------------------------- MODULE MCGrading -----------------------------
(* A small instance of Grading: up to three rows of up to two values, among them three   *)
(* numbers of which the middle one is close to both others.                              *)
EXTENDS Grading, TLC

Number(n, text) == [number |-> n, text |-> text]
A == Number(0, "0")
B == Number(4, "0.004")
C == Number(8, "0.008")
Word == Number(NaN, "x")
Zero == Number(NaN, "0")        \* a text that reads like a number

Rows(n, m, values) == [1..n -> [1..m -> values]]

\* The columns of an answer of three rows are given in one order.
Sorted == {<<A, A>>, <<A, C>>, <<A, Word>>, <<C, C>>, <<C, Word>>, <<Word, Word>>}

\* What ask() may return: rows only of a query that ran, a refusal or a question without one.
Results(kinds, runs, tells, rows, refs, ordered) ==
  [kind : kinds, error : runs.error, sql : runs.sql, out_of_scope : runs.refused,
   needs_clarification : runs.asked, tells : tells,
   rows : rows, refs : refs, order_matters : ordered]

OtherKinds == {"sql", "truncation", "refuse_read_only", "refuse_out_of_scope", "refuse_any",
          "clarify"}

MCValues == {A, B, C, Word, Zero, Null}

No == {FALSE}
Ran == [error |-> No, sql |-> {TRUE}, refused |-> No, asked |-> No]
Failed == [Ran EXCEPT !.error = {TRUE}, !.sql = BOOLEAN]
Refused == [Ran EXCEPT !.sql = No, !.refused = {TRUE}]
Asked == [Ran EXCEPT !.sql = No, !.asked = {TRUE}]

Unanswered == {Failed, Refused, Asked}

Answers(rows, refs, ordered) ==
  Results({"sql"}, Ran, {{}}, rows, refs, ordered)
One(refs) == [1..1 -> refs]

MCAnsweredItems ==
  Answers([1..3 -> Sorted], One(Rows(3, 1, {A, C, Word})), No)
  \cup Answers(Rows(2, 2, {A, B, C}), One(Rows(2, 2, {A, B, C})), No)
  \cup Answers(Rows(2, 2, {A, C}), One(Rows(2, 1, {A, B, C})), {TRUE})
  \cup Answers(Rows(1, 2, {A, Zero, Word, Null}), One(Rows(1, 2, {A, Zero, Word, Null})), No)
  \cup Answers(Rows(2, 1, {A, C}), [1..2 -> Rows(2, 1, {A, C}) \cup Rows(1, 1, {A})], BOOLEAN)
  \cup Results({"empty"}, Ran, {{}}, {<<>>, <<<<A>>>>}, {<<<<>>>>}, No)
  \cup UNION {Results({"empty"}, r, {{}}, {<<>>}, {<<<<>>>>}, No) : r \in Unanswered}
  \cup UNION {Results(OtherKinds, r, {{}, {"read_only"}, {"basis"}}, {<<>>}, {<<<<<<B>>>>>>}, No) :
                r \in {Ran} \cup Unanswered}
=============================================================================
