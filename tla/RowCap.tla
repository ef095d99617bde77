------------------------------- MODULE RowCap -------------------------------
(***************************************************************************)
(* The row cap of app/sql: what the validator does to a query's outermost  *)
(* LIMIT (validator.py, _enforce_row_cap) and what the executor reports of *)
(* the rows it fetched (executor.py, execute).  Rows are counted, never    *)
(* looked at: `matching' is the number of rows the query yields without    *)
(* its LIMIT.                                                              *)
(***************************************************************************)
EXTENDS Integers

CONSTANT MaxRows            \* settings.max_rows, a PositiveInt

ASSUME MaxRowsAssumption == MaxRows \in Nat \ {0}

NoLimit      == -1          \* the query has no LIMIT clause
InvalidLimit == -2          \* LIMIT is an expression, a fraction or negative
Limits       == Nat \cup {NoLimit, InvalidLimit}

Lesser(m, n) == IF m <= n THEN m ELSE n

-----------------------------------------------------------------------------
(* validator.py: the LIMIT of the regenerated SQL, and ValidatedQuery.query_limit. *)

KeptLimit(limit) == limit # NoLimit /\ limit < MaxRows

\* (mutant) the cap itself, with no row beyond it to reveal truncation.
SqlLimitAtCap(limit) == IF KeptLimit(limit) THEN limit ELSE MaxRows

SqlLimit(limit) == IF KeptLimit(limit) THEN limit ELSE MaxRows + 1

\* (mutant) every limit of the query is reported as its own.
QueryLimitAsFound(limit) == IF limit # NoLimit THEN limit ELSE NoLimit

QueryLimit(limit) == IF KeptLimit(limit) THEN limit ELSE NoLimit

-----------------------------------------------------------------------------
(* executor.py: fetchmany(max_rows + 1) on a statement with that LIMIT. *)

Fetched(sqlLimit, matching) == Lesser(Lesser(sqlLimit, matching), MaxRows + 1)

ShownRows(sqlLimit, matching) == Lesser(Fetched(sqlLimit, matching), MaxRows)

Truncated(sqlLimit, matching) == Fetched(sqlLimit, matching) > MaxRows

LimitReached(sqlLimit, queryLimit, matching) ==
  queryLimit # NoLimit /\ ShownRows(sqlLimit, matching) = queryLimit
=============================================================================
