------------------------------ MODULE SqlGate ------------------------------
(***************************************************************************)
(* The two layers a generated query passes: validate_sql (validator.py),   *)
(* whose checks run one after the other and reject with the code of the    *)
(* first that fails, and the executor with its authorizer (executor.py).   *)
(* An accepted query is run as regenerated from its tree, and its text may *)
(* be validated and run again: the judge recovers the rows of an answer    *)
(* from the stored query.                                                  *)
(*                                                                         *)
(* A query is what the code asks of the parser: the size of the text, its  *)
(* first keyword, whether it parses, and of each statement the kind of its *)
(* root and what it contains; and what SQLite makes of a name, for which   *)
(* the WITH clauses around it count.  Names are lower-cased.               *)
(***************************************************************************)
EXTENDS RowCap, Sequences, FiniteSets

CONSTANTS
  Queries,      \* the queries the model may write
  Allowed,      \* allowed_tables: the tables of the database
  Unlisted,     \* what SQLite can read under a name that is not in it: views, sqlite_ tables
  Virtual,      \* names of SQLite's own virtual tables, which its authorizer does not let it open
  None

\* What the code asks of the parser about a text, a statement and a reference to a table.  A
\* statement's WITH clauses are the sets of names they define, wherever they stand in it; a
\* reference is within those of the queries around it, a CTE's body within its own clause.
AnyTable ==
  [name : STRING, place : {"", "main", "other"}, call : BOOLEAN, around : SUBSET Nat]

AnyStatement ==
  [kind : {"query", "write", "command", "other", "foreign"}, writes : BOOLEAN,
   forbidden : BOOLEAN, tables : SUBSET AnyTable, withs : Seq(SUBSET STRING), limit : Limits,
   faulty : BOOLEAN]   \* what SQLite alone finds: a column, a function, an aggregate, its grammar

AnyQuery ==
  [size : {"blank", "long", "fits"}, keyword : {"write", "command", "other", "none"},
   tokenizes : BOOLEAN, parses : BOOLEAN, regenerates : BOOLEAN,
   statements : Seq(AnyStatement \cup {None})]

ASSUME QueriesAssumption == Queries \subseteq AnyQuery
ASSUME NoneAssumption == None \notin AnyStatement
ASSUME VirtualAssumption == Virtual \cap Allowed = {}

VARIABLES
  query,        \* the text, then the tree it was parsed into
  check,        \* the number of the check to run next
  pc, code,     \* "validating", "accepted", "rejected", "executed", "failed"; the error's code
  tables, query_limit,      \* of the ValidatedQuery
  first         \* history: what the validation before the replay returned

vars == <<query, check, pc, code, tables, query_limit, first>>

Init ==
  /\ query \in Queries
  /\ check = 1 /\ pc = "validating" /\ code = None
  /\ tables = {} /\ query_limit = NoLimit /\ first = None

-----------------------------------------------------------------------------
(* The checks: the codes each may reject a query with. *)

If(fault, c) == IF fault THEN {c} ELSE {}

Statements == {s \in {query.statements[i] : i \in DOMAIN query.statements} : s # None}
Root == query.statements[1]

\* find_all over the tree, its root included.
Writes(statement) == statement.kind = "write" \/ statement.writes

TextCodes == If(query.size = "blank", "EMPTY_QUERY") \cup If(query.size = "long", "TOO_LONG")

KeywordCodes ==
  IF ~query.tokenizes THEN {"PARSE_ERROR"}
  ELSE If(query.keyword = "write", "FORBIDDEN_WRITE")
         \cup If(query.keyword = "command", "FORBIDDEN_STATEMENT")

ParseCodes == If(~query.parses, "PARSE_ERROR")

CountCodes ==
  IF Statements = {} THEN {"EMPTY_QUERY"}
  ELSE If(Len(query.statements) > 1, "MULTIPLE_STATEMENTS")

\* (mutant) the root is looked at before what it contains.
RootCodes ==
  CASE Root.kind = "query" -> If(Writes(Root), "FORBIDDEN_WRITE")
    [] Root.kind = "command" -> {"FORBIDDEN_STATEMENT"}
    [] OTHER -> {"NOT_A_SELECT"}

\* _check_statement_type: a write anywhere first.
TypeCodes ==
  CASE Root.kind = "foreign" -> {"NOT_A_SELECT"}
    [] Root.kind # "foreign" /\ Writes(Root) -> {"FORBIDDEN_WRITE"}
    [] Root.kind = "command" /\ ~Writes(Root) -> {"FORBIDDEN_STATEMENT"}
    [] Root.kind = "other" /\ ~Writes(Root) -> {"NOT_A_SELECT"}
    [] OTHER -> {}

FunctionCodes == If(Root.forbidden, "FORBIDDEN_FUNCTION")

\* cte_names: of all clauses of the tree, wherever the reference stands.
CteNames == UNION {Root.withs[i] : i \in DOMAIN Root.withs}
IsCte(table) == table.place = "" /\ table.name \in CteNames
Exists(table) == table.place # "other" /\ (IsCte(table) \/ table.name \in Allowed)

\* (mutant) a CTE's name is known under any schema.
TableFaultAnySchema(table) ==
  IF table.call THEN {"FORBIDDEN_FUNCTION"}
  ELSE If(table.place = "other" \/ table.name \notin Allowed \cup CteNames, "UNKNOWN_TABLE")

TableFault(table) ==
  IF table.call THEN {"FORBIDDEN_FUNCTION"}
  ELSE If(~Exists(table), "UNKNOWN_TABLE")

\* The first faulty table in the order of the tree decides; any may be it.
TableCodes == UNION {TableFault(t) : t \in Root.tables}

LimitCodes == If(Root.limit = InvalidLimit, "INVALID_LIMIT")

\* The regenerated SQL is parsed again.
OutputCodes == If(~query.regenerates, "PARSE_ERROR")

Checks == <<"text", "keyword", "parse", "count", "type", "functions", "tables", "limit", "output">>

CodesOf(name) ==
  CASE name = "text" -> TextCodes
    [] name = "keyword" -> KeywordCodes
    [] name = "parse" -> ParseCodes
    [] name = "count" -> CountCodes
    [] name = "type" -> TypeCodes
    [] name = "functions" -> FunctionCodes
    [] name = "tables" -> TableCodes
    [] name = "limit" -> LimitCodes
    [] name = "output" -> OutputCodes

Codes == CodesOf(Checks[check])

-----------------------------------------------------------------------------
(* Actions. *)

Reject ==
  /\ pc = "validating"
  /\ code' \in Codes /\ pc' = "rejected"
  /\ UNCHANGED <<query, check, tables, query_limit, first>>

\* (mutant) CTEs counted among the tables.
NamesUsed == {t.name : t \in Root.tables}

\* _check_tables' `used': a table that is no CTE.
TablesUsed == {t.name : t \in {u \in Root.tables : ~IsCte(u)}}

\* _enforce_row_cap puts the limit into the tree.
Capped == [query EXCEPT !.statements[1].limit = SqlLimit(@)]

Pass ==
  /\ pc = "validating" /\ Codes = {}
  /\ IF check < Len(Checks) THEN check' = check + 1 /\ UNCHANGED pc
                            ELSE pc' = "accepted" /\ UNCHANGED check
  /\ IF Checks[check] = "tables" THEN tables' = TablesUsed ELSE UNCHANGED tables
  /\ IF Checks[check] = "limit" THEN query' = Capped /\ query_limit' = QueryLimit(Root.limit)
                                ELSE UNCHANGED <<query, query_limit>>
  /\ UNCHANGED <<code, first>>

\* SQLite, external.  It finds a CTE's name by scope: in the clauses around the reference.  Any
\* other name it looks up in the database.
InScope(table) ==
  /\ table.place = ""
  /\ \E i \in table.around \cap DOMAIN Root.withs : table.name \in Root.withs[i]
Opened == {t \in Root.tables : ~InScope(t)}
TablesRead == {t.name : t \in Opened}

\* The authorizer denies what does more than read, and the declaration of a virtual table, of
\* which some report that no table could be made.
Denied == Root.kind # "query" \/ Writes(Root) \/ TablesRead \cap Virtual # {}
Missing == \E t \in Opened : t.place = "other" \/ t.name \notin Allowed \cup Unlisted

Fail(c) == pc' = "failed" /\ code' = c

\* _classify names what stops a query; the time limit may stop any that could be prepared, one
\* with a fault met only while it runs included.
Execute ==
  /\ pc = "accepted"
  /\ \/ Denied /\ Fail("DB_DENIED")
     \/ (Missing \/ Root.faulty) /\ Fail("EXECUTION_ERROR")
     \/ ~Denied /\ ~Missing /\ Fail("TIMEOUT")
     \/ ~Denied /\ ~Missing /\ ~Root.faulty /\ pc' = "executed" /\ UNCHANGED code
  /\ UNCHANGED <<query, check, tables, query_limit, first>>

\* calibration.py's build_case: the stored SQL, regenerated and maybe longer than it was, is
\* validated again.
Replay ==
  /\ pc = "executed" /\ first = None
  /\ first' = [tables |-> tables, limit |-> Root.limit, query_limit |-> query_limit]
  /\ \E size \in {"fits", "long"} :
       query' = [query EXCEPT !.size = size, !.keyword = "other"]
  /\ check' = 1 /\ pc' = "validating"
  /\ tables' = {} /\ query_limit' = NoLimit
  /\ UNCHANGED code

Over == pc \in {"rejected", "failed"} \/ (pc = "executed" /\ first # None)

Next == Reject \/ Pass \/ Execute \/ Replay \/ (Over /\ UNCHANGED vars)

Spec == Init /\ [][Next]_vars

-----------------------------------------------------------------------------
(* Properties. *)

TypeOK ==
  /\ query \in AnyQuery
  /\ check \in 1..Len(Checks) /\ pc \in {"validating", "accepted", "rejected", "executed", "failed"}
  /\ tables \subseteq STRING /\ query_limit \in Limits
  /\ first # None =>
       first \in [tables : SUBSET STRING, limit : Limits, query_limit : Limits]

Repairable == {"PARSE_ERROR", "UNKNOWN_TABLE", "INVALID_LIMIT"}

\* validator.py:9 "a DELETE is reported as a forbidden write, never as `not a SELECT'";
\* errors.py:40 "retrying a forbidden write ... spends a Groq request without any chance": a
\* single statement that parses and writes, wherever it does, is rejected as a write, and
\* what is rejected with a code that is repaired is a read, or does not parse.
MostSpecificCode ==
  pc = "rejected" /\ query.size = "fits" /\ query.tokenizes /\ query.parses /\ first = None =>
    /\ query.keyword = "write" => code = "FORBIDDEN_WRITE"
    /\ query.keyword \in {"other", "none"} /\ Len(query.statements) = 1 /\ Root # None =>
         /\ Root.kind # "foreign" /\ Writes(Root) => code = "FORBIDDEN_WRITE"
         /\ code \in Repairable => Root.kind = "query" /\ ~Root.forbidden

\* A CTE's name used where the CTE is not in scope; the validator takes it for the CTE.
Stray == {t \in Root.tables : IsCte(t) /\ ~InScope(t)}

\* executor.py:148 "Unreachable when the validator works", validator.py:130 "the real tables it
\* reads": where SQLite's scopes and the validator's one set of CTE names may differ, a stray name
\* is all that they differ in.  Without one whose table is none of the allowed, the second layer
\* denies nothing and misses no table in what the first accepts; and what a query reads are the
\* tables named and its stray names, whatever schema a name is given and wherever it is hidden.
LayersAgree ==
  /\ pc = "failed" => \/ code = "TIMEOUT"
                      \/ code = "EXECUTION_ERROR" /\ Root.faulty
                      \/ \E t \in Stray : t.name \notin Allowed
  /\ pc \in {"accepted", "executed", "failed"} =>
       TablesRead = tables \cup {t.name : t \in Stray}

\* tests/unit/test_sql_validator.py:74 "validated SQL is stable when validated again": a stored
\* query runs again as it ran, with the same limit and so the same rows and flags, unless
\* its regenerated text has become too long.
ReplayIsSame ==
  first # None =>
    /\ pc = "rejected" => code = "TOO_LONG"
    /\ pc \in {"accepted", "executed", "failed"} =>
         first = [tables |-> tables, limit |-> Root.limit, query_limit |-> query_limit]
=============================================================================
