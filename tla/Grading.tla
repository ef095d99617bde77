------------------------------ MODULE Grading ------------------------------
(***************************************************************************)
(* How the evaluation grades one answered item (evals/graders.py and       *)
(* grade_agent_item in evals/runner.py).  The rows of the answer are       *)
(* compared with those of the reference and of each accepted alternate:    *)
(* execution_match looks for a one-to-one pairing along augmenting paths,  *)
(* one step of its recursion being one step here.                          *)
(*                                                                         *)
(* A value is Null or has a text and, if it is a number, that number in    *)
(* thousandths.  Of the answer's words only what they tell is looked at.   *)
(***************************************************************************)
EXTENDS Integers, Sequences, SequencesExt, FiniteSets, FiniteSetsExt

CONSTANTS
  AnsweredItems,   \* the items with the results to grade
  Values,          \* what a row may hold
  Null, NaN        \* no value; no number

ASSUME ValuesAssumption == NaN \notin Int /\ \A v \in Values : v = Null \/ v.number \in Int \cup {NaN}

\* ask() has rows only of a query that ran; an item of kind sql has rows to answer.
ASSUME AnswersAssumption ==
  \A i \in AnsweredItems :
    /\ i.rows \in Seq(Seq(Values)) /\ i.refs \in Seq(Seq(Seq(Values)))
    /\ i.out_of_scope \/ i.needs_clarification => i.rows = <<>>
    /\ i.kind = "sql" => i.refs # <<>> /\ \A k \in DOMAIN i.refs : i.refs[k] # <<>>

VARIABLES
  item,         \* the item, its references' rows, and the result
  grading, alt, \* where the grader is; the reference it compares with
  owner, seen,  \* execution_match's locals: by row of the answer, its reference row or 0
  stack,        \* the calls of assign under way, each with its r and the g it is at
  correct       \* graded["correct"]

gvars == <<item, grading, alt, owner, seen, stack, correct>>

Got == item.rows
Ref == item.refs[alt]

GInit ==
  /\ item \in AnsweredItems
  /\ grading = "start" /\ alt = 1 /\ owner = <<>> /\ seen = {} /\ stack = <<>> /\ correct = Null

-----------------------------------------------------------------------------
(* Values and rows. *)

Tolerance == 5      \* SQL_TOL; its relative part is below a thousandth here
Abs(n) == IF n < 0 THEN -n ELSE n

\* values_equal
Close(got, ref) ==
  IF got = Null \/ ref = Null THEN got = ref
  ELSE IF NaN \in {got.number, ref.number} THEN got.text = ref.text
  ELSE Abs(got.number - ref.number) <= Tolerance

\* (mutant) two values of the reference may be the same one of the row.
RowCovers(g, ref) == \A c \in DOMAIN ref : \E d \in DOMAIN g : Close(g[d], ref[c])

\* What is left of the row when the values before c have taken theirs.
Pool(hit, g, c) == DOMAIN g \ {hit[b] : b \in 1..c - 1}

\* The c-th value takes the first one left that is close to it.
TakesFirst(hit, g, ref, c) ==
  /\ hit[c] \in Pool(hit, g, c) /\ Close(g[hit[c]], ref[c])
  /\ \A d \in Pool(hit, g, c) : Close(g[d], ref[c]) => hit[c] <= d

\* row_contains
RowContains(g, ref) ==
  \E hit \in [DOMAIN ref -> DOMAIN g] : \A c \in DOMAIN ref : TakesFirst(hit, g, ref, c)

-----------------------------------------------------------------------------
(* The search. *)

Frame(r) == [r |-> r, g |-> 1]
Call == Last(stack)
Advance(frames) == [frames EXCEPT ![Len(frames)].g = @ + 1]

\* The comparison with this reference is over; any() goes on to the next.
Verdict(same) ==
  /\ IF same \/ alt = Len(item.refs)
     THEN correct' = same /\ grading' = "done" /\ UNCHANGED alt
     ELSE alt' = alt + 1 /\ grading' = "compare" /\ UNCHANGED correct
  /\ stack' = <<>> /\ seen' = {} /\ owner' = <<>>
  /\ UNCHANGED item

\* grade_agent_item, by the item's kind.
GradeItem ==
  /\ grading = "start"
  /\ IF item.kind = "sql" /\ ~item.error
     THEN grading' = "compare" /\ UNCHANGED correct
     ELSE /\ grading' = "done"
          /\ correct' = CASE item.kind = "sql" -> FALSE
                          [] item.kind = "empty" -> ~item.error /\ Got = <<>>
                          [] OTHER -> Null
  /\ UNCHANGED <<item, alt, owner, seen, stack>>

\* execution_match up to its search.
Compare ==
  /\ grading = "compare"
  /\ IF Len(Got) # Len(Ref) THEN Verdict(FALSE)
     ELSE IF item.order_matters THEN Verdict(\A i \in DOMAIN Got : RowContains(Got[i], Ref[i]))
     ELSE IF Got = <<>> THEN Verdict(TRUE)
     ELSE /\ grading' = "search" /\ stack' = <<Frame(1)>>
          /\ owner' = [g \in DOMAIN Got |-> 0]
          /\ UNCHANGED <<item, alt, seen, correct>>

Usable(g) == g \notin seen /\ RowContains(Got[g], Ref[Call.r])

Skip ==
  /\ grading = "search" /\ Call.g <= Len(Got) /\ ~Usable(Call.g)
  /\ stack' = Advance(stack)
  /\ UNCHANGED <<item, grading, alt, owner, seen, correct>>

\* (mutant) the rows tried are forgotten.
SeenForgotten(g) == seen

SeenWith(g) == seen \cup {g}

\* The row has an owner, which has to find another one: assign calls itself.
Displace ==
  /\ grading = "search" /\ Call.g <= Len(Got) /\ Usable(Call.g) /\ owner[Call.g] # 0
  /\ seen' = SeenWith(Call.g)
  /\ stack' = Append(stack, Frame(owner[Call.g]))
  /\ UNCHANGED <<item, grading, alt, owner, correct>>

\* (mutant) only the last call keeps its row.
OwnedByCall == [owner EXCEPT ![Call.g] = Call.r]

\* Every call under way returns True and keeps the row it is at.
Owned ==
  [g \in DOMAIN Got |-> LET at == {i \in DOMAIN stack : stack[i].g = g} IN
                          IF at = {} THEN owner[g] ELSE stack[Min(at)].r]

\* A free row: this reference row is assigned, and the next is looked at.
Assign ==
  /\ grading = "search" /\ Call.g <= Len(Got) /\ Usable(Call.g) /\ owner[Call.g] = 0
  /\ IF stack[1].r = Len(Ref) THEN Verdict(TRUE)
     ELSE /\ owner' = Owned /\ seen' = {} /\ stack' = <<Frame(stack[1].r + 1)>>
          /\ UNCHANGED <<item, grading, alt, correct>>

\* The call returns False: its caller goes on, and with no caller all() is False.
Fail ==
  /\ grading = "search" /\ Call.g > Len(Got)
  /\ IF Len(stack) = 1 THEN Verdict(FALSE)
     ELSE stack' = Advance(Front(stack)) /\ UNCHANGED <<item, grading, alt, owner, seen, correct>>

GOver == grading = "done" /\ UNCHANGED gvars

GNext == GradeItem \/ Compare \/ Skip \/ Displace \/ Assign \/ Fail \/ GOver

GSpec == GInit /\ [][GNext]_gvars

-----------------------------------------------------------------------------
(* The rest of the grade. *)

Answerable == item.kind \in {"sql", "empty", "truncation"}

behaviour_ok ==
  CASE item.kind = "refuse_read_only" -> item.out_of_scope /\ "read_only" \in item.tells
    [] item.kind = "refuse_out_of_scope" -> item.out_of_scope /\ "read_only" \notin item.tells
    [] item.kind = "refuse_any" -> (item.out_of_scope \/ item.error) /\ ~item.sql
    [] item.kind = "clarify" -> \/ item.needs_clarification /\ ~item.sql
                                \/ item.sql /\ ~item.error /\ "basis" \in item.tells
    [] Answerable -> ~item.out_of_scope /\ ~item.needs_clarification

-----------------------------------------------------------------------------
(* Properties. *)

\* row_contains and execution_match as their docstrings have them.
Contained(g, ref) ==
  \E f \in [DOMAIN ref -> DOMAIN g] : IsInjective(f) /\ \A c \in DOMAIN ref : Close(g[f[c]], ref[c])

Matches(got, ref, ordered) ==
  /\ Len(got) = Len(ref)
  /\ \E p \in [DOMAIN ref -> DOMAIN got] :
       /\ IsInjective(p) /\ (ordered => \A i \in DOMAIN p : p[i] = i)
       /\ \A i \in DOMAIN p : Contained(got[p[i]], ref[i])

\* Where values are close in chains, taking the first close one may leave a later one without.
Chained ==
  LET values == UNION {Range(row) : row \in Range(Got) \cup UNION {Range(r) : r \in Range(item.refs)}}
  IN \E u, v, w \in values : Close(u, v) /\ Close(v, w) /\ ~Close(u, w)

\* graders.py:64 "a one-to-one pairing where each generated row contains its reference row",
\* :70 "so duplicate rows pair correctly": an item graded correct does match a reference, and
\* was answered as such an item requires; and what matches one is graded correct, unless
\* closeness is no equivalence on the rows.
VerdictIsAPairing ==
  grading = "done" /\ item.kind = "sql" /\ ~item.error =>
    LET right == \E i \in DOMAIN item.refs : Matches(Got, item.refs[i], item.order_matters) IN
      /\ correct => right /\ behaviour_ok
      /\ right /\ ~Chained => correct

\* graders.py:71-81: at every point of the search a row of the answer is owned by one reference
\* row, which it contains, the rows on the path are each on it once, and so assign calls
\* itself no deeper than there are rows, far from the interpreter's limit.
SearchIsSound ==
  grading = "search" =>
    /\ Len(stack) <= Len(Got)
    /\ \A i \in 1..Len(stack) - 1 : owner[stack[i].g] = stack[i + 1].r
    /\ \A r \in 1..stack[1].r - 1 : Cardinality({g \in DOMAIN owner : owner[g] = r}) = 1
    /\ \A g \in DOMAIN owner : owner[g] # 0 => owner[g] < stack[1].r /\ RowContains(Got[g], Ref[owner[g]])
=============================================================================
