----------------------------- MODULE AskContract -----------------------------
(***************************************************************************)
(* What Agent.ask promises its callers, without the graph that keeps the   *)
(* promise (graph.py, the docstring of ask, and errors.py's reason for     *)
(* REPAIRABLE_CODES): a question makes the database run at most            *)
(* 1 + budget statements, one after another, and stops at the first that   *)
(* answers; the response then shows exactly that statement and its rows.   *)
(* When none answered, the response shows no rows, and at most the last    *)
(* statement that ran.                                                     *)
(***************************************************************************)
EXTENDS Naturals

CONSTANTS
  Budgets,      \* the repairs the settings may allow
  Statements,   \* what the database may be given
  Rowsets,      \* what an answered statement may yield
  NoRows,       \* the rowset of a response that has none to show
  None,
  Raised        \* the caller got an exception, and no response

VARIABLES budget, attempts, last, fetched, response

vars == <<budget, attempts, last, fetched, response>>

Init ==
  /\ budget \in Budgets
  /\ attempts = 0 /\ last = None /\ fetched = None /\ response = None

\* A statement runs, and answers or fails.
Run ==
  /\ response = None /\ fetched = None
  /\ attempts <= budget
  /\ attempts' = attempts + 1
  /\ last' \in Statements
  /\ fetched' \in Rowsets \cup {None}
  /\ UNCHANGED <<budget, response>>

Respond ==
  /\ response = None
  /\ \/ fetched = None /\ \E sql \in {None, last} : response' = [sql |-> sql, shown |-> NoRows]
     \/ fetched # None /\ response' = [sql |-> last, shown |-> fetched]
     \/ response' = Raised
  /\ UNCHANGED <<budget, attempts, last, fetched>>

Next == Run \/ Respond

Safety == Init /\ [][Next]_vars

Spec == Safety /\ WF_vars(Respond)
=============================================================================
