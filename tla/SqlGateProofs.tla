--------------------------- MODULE SqlGateProofs ---------------------------
(***************************************************************************)
(* Proofs about the two layers a query passes (SqlGate), for every set of  *)
(* queries the parser may return, every row cap and every database.        *)
(***************************************************************************)
EXTENDS SqlGate, TLAPS

-----------------------------------------------------------------------------
(* The inductive invariant. *)

Found(i) == CodesOf(Checks[i])

\* A check that was passed would be passed again, by the query as it is now.
Passed == \A i \in 1..9 : i < check => Found(i) = {}

Ran == {"accepted", "executed", "failed"}

Through == pc \in Ran => check = 9 /\ Found(9) = {}

\* The checks of tables and of the limit leave what they found.
CapFixed == SqlLimit(Root.limit) = Root.limit
Recorded ==
  /\ check > 7 => tables = TablesUsed
  /\ check > 8 => CapFixed /\ query_limit = QueryLimit(Root.limit)

\* A stray name that is no allowed table's: what the two layers may disagree on.
StrayName == \E t \in Stray : t.name \notin Allowed

Explained ==
  /\ pc = "rejected" => code \in Found(check)
  /\ pc = "failed" => code = "TIMEOUT" \/ (code = "EXECUTION_ERROR" /\ Root.faulty) \/ StrayName

\* A query that is validated again was cleared of everything but its length.
Replayed ==
  first # None =>
    /\ query.size # "blank" /\ \A i \in 2..9 : Found(i) = {}
    /\ CapFixed
    /\ first = [tables |-> TablesUsed, limit |-> Root.limit, query_limit |-> QueryLimit(Root.limit)]

IInv == TypeOK /\ Passed /\ Through /\ Recorded /\ Explained /\ Replayed

-----------------------------------------------------------------------------
(* The checks. *)

LEMMA ChecksAre ==
  /\ Len(Checks) = 9
  /\ Found(1) = TextCodes /\ Found(2) = KeywordCodes /\ Found(3) = ParseCodes
  /\ Found(4) = CountCodes /\ Found(5) = TypeCodes /\ Found(6) = FunctionCodes
  /\ Found(7) = TableCodes /\ Found(8) = LimitCodes /\ Found(9) = OutputCodes
<1>1. /\ Len(Checks) = 9
      /\ Checks[1] = "text" /\ Checks[2] = "keyword" /\ Checks[3] = "parse" /\ Checks[4] = "count"
      /\ Checks[5] = "type" /\ Checks[6] = "functions" /\ Checks[7] = "tables"
      /\ Checks[8] = "limit" /\ Checks[9] = "output"
  BY DEF Checks
<1>. QED
  BY <1>1 DEF Found, CodesOf

LEMMA ChecksArePrimed ==
  /\ Found(1)' = TextCodes' /\ Found(2)' = KeywordCodes' /\ Found(3)' = ParseCodes'
  /\ Found(4)' = CountCodes' /\ Found(5)' = TypeCodes' /\ Found(6)' = FunctionCodes'
  /\ Found(7)' = TableCodes' /\ Found(8)' = LimitCodes' /\ Found(9)' = OutputCodes'
<1>1. /\ Checks[1] = "text" /\ Checks[2] = "keyword" /\ Checks[3] = "parse" /\ Checks[4] = "count"
      /\ Checks[5] = "type" /\ Checks[6] = "functions" /\ Checks[7] = "tables"
      /\ Checks[8] = "limit" /\ Checks[9] = "output"
  BY DEF Checks
<1>. QED
  BY <1>1 DEF Found, CodesOf, Checks

LEMMA NamesAre ==
  \A i \in 1..9 : (Checks[i] = "tables" <=> i = 7) /\ (Checks[i] = "limit" <=> i = 8)
  BY DEF Checks

\* What the count of statements leaves is one statement.
LEMMA RootIsStatement ==
  ASSUME query \in AnyQuery, CountCodes = {}
  PROVE  /\ Len(query.statements) = 1 /\ DOMAIN query.statements = {1}
         /\ Root \in AnyStatement
<1>1. query.statements \in Seq(AnyStatement \cup {None})
  BY DEF AnyQuery
<1>2. Statements # {} /\ Len(query.statements) <= 1
  BY <1>1 DEF CountCodes, If
<1>3. PICK i \in DOMAIN query.statements : query.statements[i] # None
  BY <1>2 DEF Statements
<1>4. Len(query.statements) \in Nat /\ DOMAIN query.statements = 1..Len(query.statements)
  BY <1>1
<1>5. Len(query.statements) = 1 /\ i = 1
  <2>1. i \in 1..Len(query.statements)
    BY <1>3, <1>4
  <2>2. Len(query.statements) \in Nat /\ Len(query.statements) <= 1
    BY <1>2, <1>4
  <2>3. \A n \in Nat : n <= 1 => \A k \in 1..n : n = 1 /\ k = 1
    OBVIOUS
  <2>. QED
    BY <2>1, <2>2, <2>3, Zenon
<1>6. DOMAIN query.statements = {1}
  BY <1>4, <1>5
<1>. QED
  BY <1>1, <1>3, <1>5, <1>6 DEF Root

LEMMA CapIsIdempotent ==
  ASSUME NEW n \in Limits, n # InvalidLimit
  PROVE  /\ SqlLimit(n) \in Limits /\ SqlLimit(n) # InvalidLimit
         /\ SqlLimit(SqlLimit(n)) = SqlLimit(n)
         /\ QueryLimit(SqlLimit(n)) = QueryLimit(n) /\ QueryLimit(n) \in Limits
  BY MaxRowsAssumption, SMT
     DEF Limits, NoLimit, InvalidLimit, SqlLimit, QueryLimit, KeptLimit

\* The rewritten limit changes the verdict of no check, but for that of the limit.
LEMMA CapKeepsTheRest ==
  ASSUME query \in AnyQuery, CountCodes = {}, LimitCodes = {}, query' = Capped
  PROVE  /\ query' \in AnyQuery
         /\ Root' = [Root EXCEPT !.limit = SqlLimit(@)] /\ Root'.limit = SqlLimit(Root.limit)
         /\ Root.limit \in Limits /\ Root.limit # InvalidLimit
         /\ \A i \in 1..9 : i # 8 => Found(i)' = Found(i)
         /\ Found(8)' = {} /\ TablesUsed' = TablesUsed /\ query'.size = query.size
<1>. DEFINE sts == query.statements
            new == [Root EXCEPT !.limit = SqlLimit(@)]
<1>1. /\ Len(sts) = 1 /\ DOMAIN sts = {1} /\ Root \in AnyStatement
      /\ sts \in Seq(AnyStatement \cup {None})
  BY RootIsStatement DEF AnyQuery
<1>2. Root.limit \in Limits /\ Root.limit # InvalidLimit
  BY <1>1 DEF AnyStatement, LimitCodes, If
<1>3. SqlLimit(Root.limit) \in Limits /\ SqlLimit(Root.limit) # InvalidLimit
  BY <1>2, CapIsIdempotent
<1>4. new \in AnyStatement /\ new # None /\ new.limit = SqlLimit(Root.limit)
  BY <1>1, <1>3, NoneAssumption DEF AnyStatement
<1>5. /\ query'.statements = [sts EXCEPT ![1] = new]
      /\ query'.size = query.size /\ query'.keyword = query.keyword
      /\ query'.tokenizes = query.tokenizes /\ query'.parses = query.parses
      /\ query'.regenerates = query.regenerates
  BY <1>1 DEF Capped, Root, AnyQuery
<1>6. /\ [sts EXCEPT ![1] = new] \in Seq(AnyStatement \cup {None})
      /\ Len([sts EXCEPT ![1] = new]) = 1 /\ DOMAIN [sts EXCEPT ![1] = new] = {1}
      /\ [sts EXCEPT ![1] = new][1] = new
  BY <1>1, <1>4
<1>7. query' \in AnyQuery
  BY <1>6, <1>1 DEF Capped, AnyQuery, Root
<1>8. Root' = new
  BY <1>5, <1>6 DEF Root
<1>9. /\ Root'.kind = Root.kind /\ Root'.writes = Root.writes /\ Root'.forbidden = Root.forbidden
      /\ Root'.tables = Root.tables /\ Root'.withs = Root.withs
  BY <1>1, <1>8 DEF AnyStatement
<1>10. TextCodes' = TextCodes /\ KeywordCodes' = KeywordCodes /\ ParseCodes' = ParseCodes
       /\ OutputCodes' = OutputCodes
  BY <1>5 DEF TextCodes, KeywordCodes, ParseCodes, OutputCodes, If
<1>11. CountCodes' = CountCodes
  <2>1. new \in Statements'
    BY <1>4, <1>5, <1>6 DEF Statements
  <2>2. Len(query'.statements) = 1
    BY <1>5, <1>6
  <2>. QED
    BY <2>1, <2>2 DEF CountCodes, If
<1>12. Writes(Root)' = Writes(Root)
  BY <1>9 DEF Writes
<1>13. TypeCodes' = TypeCodes /\ FunctionCodes' = FunctionCodes
  BY <1>9, <1>12 DEF TypeCodes, FunctionCodes, If
<1>14. \A t : IsCte(t)' = IsCte(t)
  BY <1>9 DEF IsCte, CteNames
<1>15. \A t : TableFault(t)' = TableFault(t)
  BY <1>14 DEF TableFault, Exists, If
<1>16. TableCodes' = TableCodes /\ TablesUsed' = TablesUsed
  BY <1>9, <1>14, <1>15 DEF TableCodes, TablesUsed
<1>17. LimitCodes' = {}
  BY <1>3, <1>4, <1>8 DEF LimitCodes, If
<1>18. /\ Found(1)' = Found(1) /\ Found(2)' = Found(2) /\ Found(3)' = Found(3)
       /\ Found(4)' = Found(4) /\ Found(5)' = Found(5) /\ Found(6)' = Found(6)
       /\ Found(7)' = Found(7) /\ Found(8)' = {} /\ Found(9)' = Found(9)
  BY <1>10, <1>11, <1>13, <1>16, <1>17, ChecksAre, ChecksArePrimed
<1>. QED
  BY <1>2, <1>4, <1>5, <1>7, <1>8, <1>16, <1>18

\* Nor does another text of the same tree, but for those of the text.
LEMMA SameTree ==
  ASSUME query'.statements = query.statements
  PROVE  /\ Root' = Root /\ TablesUsed' = TablesUsed /\ StrayName' = StrayName
         /\ CapFixed' = CapFixed
         /\ CountCodes' = CountCodes /\ TypeCodes' = TypeCodes /\ FunctionCodes' = FunctionCodes
         /\ TableCodes' = TableCodes /\ LimitCodes' = LimitCodes
<1>1. Root' = Root /\ Statements' = Statements
  BY DEF Root, Statements
<1>2. Writes(Root)' = Writes(Root)
  BY <1>1 DEF Writes
<1>3. CountCodes' = CountCodes /\ FunctionCodes' = FunctionCodes /\ LimitCodes' = LimitCodes
  BY <1>1 DEF CountCodes, FunctionCodes, LimitCodes, If
<1>4. TypeCodes' = TypeCodes
  BY <1>1, <1>2 DEF TypeCodes
<1>5. \A t : IsCte(t)' = IsCte(t) /\ Exists(t)' = Exists(t) /\ InScope(t)' = InScope(t)
  BY <1>1 DEF IsCte, CteNames, Exists, InScope
<1>6. \A t : TableFault(t)' = TableFault(t)
  BY <1>5 DEF TableFault, If
<1>7. TableCodes' = TableCodes /\ TablesUsed' = TablesUsed /\ StrayName' = StrayName
  BY <1>1, <1>5, <1>6 DEF TableCodes, TablesUsed, StrayName, Stray
<1>8. CapFixed' = CapFixed
  BY <1>1 DEF CapFixed
<1>. QED
  BY <1>1, <1>3, <1>4, <1>7, <1>8

LEMMA SameQuery ==
  ASSUME query' = query
  PROVE  /\ Root' = Root /\ TablesUsed' = TablesUsed /\ StrayName' = StrayName
         /\ CapFixed' = CapFixed
         /\ \A i \in 1..9 : Found(i)' = Found(i)
<1>1. TextCodes' = TextCodes /\ KeywordCodes' = KeywordCodes /\ ParseCodes' = ParseCodes
      /\ OutputCodes' = OutputCodes
  BY DEF TextCodes, KeywordCodes, ParseCodes, OutputCodes, If
<1>2. /\ Found(1)' = Found(1) /\ Found(2)' = Found(2) /\ Found(3)' = Found(3)
      /\ Found(4)' = Found(4) /\ Found(5)' = Found(5) /\ Found(6)' = Found(6)
      /\ Found(7)' = Found(7) /\ Found(8)' = Found(8) /\ Found(9)' = Found(9)
  BY <1>1, SameTree, ChecksAre, ChecksArePrimed
<1>. QED
  BY <1>2, SameTree

\* SQLite's scopes hold no name that the validator's one set has not.
LEMMA ScopesAreWithin ==
  ASSUME NEW t, InScope(t)
  PROVE  IsCte(t)
  BY DEF InScope, IsCte, CteNames

\* What the checks of the tree leave is a read, of tables that are there but for stray names, and
\* of no others than those used and the stray ones.
LEMMA ClearedReads ==
  ASSUME query \in AnyQuery, CountCodes = {}, TypeCodes = {}, TableCodes = {}
  PROVE  /\ Denied \/ Missing => StrayName
         /\ TablesRead = TablesUsed \cup {t.name : t \in Stray}
<1>1. Root \in AnyStatement
  BY RootIsStatement
<1>2. Root.kind \in {"query", "write", "command", "other", "foreign"}
  BY <1>1 DEF AnyStatement
<1>3. Root.kind = "query" /\ ~Writes(Root)
  <2>1. Root.kind # "foreign" /\ ~Writes(Root)
    BY <1>2 DEF TypeCodes
  <2>2. Root.kind # "command" /\ Root.kind # "other"
    BY <1>2, <2>1 DEF TypeCodes
  <2>3. Root.kind # "write"
    BY <2>1 DEF Writes
  <2>. QED
    BY <1>2, <2>1, <2>2, <2>3
<1>4. \A t \in Root.tables : TableFault(t) = {}
  BY DEF TableCodes
<1>5. \A t \in Root.tables : Exists(t)
  BY <1>4 DEF TableFault, If
<1>6. \A t \in Opened : t.name \notin Allowed => t \in Stray
  BY <1>5 DEF Opened, Exists, Stray
<1>7. ASSUME Denied PROVE StrayName
  <2>1. PICK t \in Opened : t.name \in Virtual
    BY <1>3, <1>7 DEF Denied, TablesRead
  <2>2. t.name \notin Allowed
    BY <2>1, VirtualAssumption
  <2>. QED
    BY <1>6, <2>1, <2>2 DEF StrayName
<1>8. ASSUME Missing PROVE StrayName
  <2>1. PICK t \in Opened : t.place = "other" \/ t.name \notin Allowed
    BY <1>8 DEF Missing
  <2>2. t.name \notin Allowed
    BY <1>5, <2>1 DEF Opened, Exists
  <2>. QED
    BY <1>6, <2>1, <2>2 DEF StrayName
<1>9. \A t \in Root.tables : t \in Opened <=> ~IsCte(t) \/ t \in Stray
  BY ScopesAreWithin DEF Opened, Stray
<1>10. TablesRead = TablesUsed \cup {t.name : t \in Stray}
  BY <1>9 DEF TablesRead, TablesUsed, Opened, Stray
<1>. QED
  BY <1>7, <1>8, <1>10

-----------------------------------------------------------------------------
(* The invariant is inductive. *)

LEMMA InitHolds == Init => IInv
<1>. SUFFICES ASSUME Init PROVE IInv
  OBVIOUS
<1>. USE DEF Init
<1>1. TypeOK
  BY ChecksAre, QueriesAssumption DEF TypeOK, Limits, NoLimit
<1>. QED
  BY <1>1 DEF IInv, Passed, Through, Ran, Recorded, Explained, Replayed

LEMMA RejectHolds == IInv /\ Reject => IInv'
<1>. SUFFICES ASSUME IInv, Reject PROVE IInv'
  OBVIOUS
<1>. USE DEF IInv, Reject
<1>1. query' = query
  OBVIOUS
<1>2. check \in 1..9 /\ Codes = Found(check)
  BY ChecksAre DEF TypeOK, Codes, Found
<1>3. TypeOK'
  BY DEF TypeOK
<1>4. Passed' /\ Through' /\ Recorded' /\ Replayed'
  BY <1>1, SameQuery, <1>2 DEF Passed, Through, Ran, Recorded, Replayed
<1>5. Explained'
  BY <1>1, SameQuery, <1>2 DEF Explained
<1>. QED
  BY <1>3, <1>4, <1>5

\* What the checks before have found nothing against.
LEMMA PassedMeans ==
  ASSUME TypeOK, Passed, check > 4
  PROVE  query \in AnyQuery /\ CountCodes = {} /\ Root \in AnyStatement /\ Root.limit \in Limits
<1>1. CountCodes = {}
  BY ChecksAre DEF Passed, TypeOK
<1>2. query \in AnyQuery
  BY DEF TypeOK
<1>3. Root \in AnyStatement
  BY <1>1, <1>2, RootIsStatement
<1>. QED
  BY <1>1, <1>2, <1>3 DEF AnyStatement

LEMMA TablesAreNames ==
  ASSUME Root \in AnyStatement
  PROVE  TablesUsed \subseteq STRING
<1>1. Root.tables \subseteq AnyTable
  BY DEF AnyStatement
<1>2. \A t \in Root.tables : t.name \in STRING
  BY <1>1 DEF AnyTable
<1>. QED
  BY <1>2 DEF TablesUsed

LEMMA PassHolds == IInv /\ Pass => IInv'
<1>. SUFFICES ASSUME IInv, Pass PROVE IInv'
  OBVIOUS
<1>1. check \in 1..9 /\ Found(check) = {} /\ pc = "validating"
  BY ChecksAre DEF IInv, Pass, TypeOK, Codes, Found
<1>2. /\ (Checks[check] = "tables" <=> check = 7) /\ (Checks[check] = "limit" <=> check = 8)
      /\ first' = first /\ code' = code
  BY <1>1, NamesAre DEF Pass
<1>3. /\ check < 9 => check' = check + 1 /\ pc' = "validating"
      /\ check = 9 => check' = 9 /\ pc' = "accepted"
  BY <1>1, ChecksAre DEF Pass
<1>4. check' \in 1..9 /\ check' >= check /\ pc' \in {"validating", "accepted"}
  BY <1>1, <1>3
<1>5. CASE check = 8
  <2>1. query' = Capped /\ query_limit' = QueryLimit(Root.limit) /\ tables' = tables
    BY <1>2, <1>5 DEF Pass
  <2>2. /\ query \in AnyQuery /\ CountCodes = {} /\ Root \in AnyStatement /\ LimitCodes = {}
    BY <1>1, <1>5, PassedMeans, ChecksAre DEF IInv
  <2>3. /\ query' \in AnyQuery /\ Root'.limit = SqlLimit(Root.limit)
        /\ Root.limit \in Limits /\ Root.limit # InvalidLimit
        /\ \A i \in 1..9 : i # 8 => Found(i)' = Found(i)
        /\ Found(8)' = {} /\ TablesUsed' = TablesUsed /\ query'.size = query.size
    BY <2>1, <2>2, CapKeepsTheRest
  <2>4. /\ SqlLimit(Root'.limit) = Root'.limit /\ QueryLimit(Root'.limit) = QueryLimit(Root.limit)
        /\ QueryLimit(Root.limit) \in Limits
    BY <2>3, CapIsIdempotent
  <2>5. check' = 9 /\ pc' = "validating"
    BY <1>3, <1>5
  <2>6. TypeOK'
    BY <1>2, <2>1, <2>3, <2>4, <2>5, ChecksAre DEF IInv, TypeOK
  <2>7. Passed' /\ Through'
    BY <1>5, <2>3, <2>5 DEF IInv, Passed, Through, Ran
  <2>8. Recorded'
    BY <1>5, <2>1, <2>3, <2>4 DEF IInv, Recorded, CapFixed
  <2>9. Explained'
    BY <2>5 DEF Explained
  <2>10. Replayed'
    <3>. SUFFICES ASSUME first # None
                  PROVE  /\ query'.size # "blank" /\ \A i \in 2..9 : Found(i)' = {}
                         /\ CapFixed'
                         /\ first = [tables |-> TablesUsed', limit |-> Root'.limit,
                                    query_limit |-> QueryLimit(Root'.limit)]
      BY <1>2 DEF Replayed
    <3>1. /\ query.size # "blank" /\ \A i \in 2..9 : Found(i) = {}
          /\ SqlLimit(Root.limit) = Root.limit
          /\ first = [tables |-> TablesUsed, limit |-> Root.limit,
                     query_limit |-> QueryLimit(Root.limit)]
      BY DEF IInv, Replayed, CapFixed
    <3>. QED
      BY <3>1, <2>3, <2>4 DEF CapFixed
  <2>. QED
    BY <2>6, <2>7, <2>8, <2>9, <2>10 DEF IInv
<1>6. CASE check # 8
  <2>1. query' = query /\ query_limit' = query_limit
    BY <1>2, <1>6 DEF Pass
  <2>2. tables' = IF check = 7 THEN TablesUsed ELSE tables
    BY <1>2 DEF Pass
  <2>3. tables' \subseteq STRING
    <3>1. tables \subseteq STRING
      BY DEF IInv, TypeOK
    <3>2. check = 7 => TablesUsed \subseteq STRING
      BY PassedMeans, TablesAreNames DEF IInv
    <3>. QED
      BY <2>2, <3>1, <3>2
  <2>4. TypeOK'
    BY <1>2, <1>4, <2>1, <2>3, ChecksAre DEF IInv, TypeOK
  <2>5. Passed'
    BY <1>1, <1>3, <2>1, SameQuery DEF IInv, Passed
  <2>6. Through'
    BY <1>1, <1>3, <2>1, SameQuery DEF Through, Ran
  <2>7. Recorded'
    <3>1. check' > 7 => tables' = TablesUsed'
      BY <1>1, <1>3, <2>1, <2>2, SameQuery DEF IInv, Recorded
    <3>2. check' > 8 => check > 8
      BY <1>1, <1>3, <1>6
    <3>. QED
      BY <3>1, <3>2, <2>1, SameQuery DEF IInv, Recorded
  <2>8. Explained'
    BY <1>4 DEF Explained
  <2>9. Replayed'
    BY <1>2, <2>1, SameQuery DEF IInv, Replayed
  <2>. QED
    BY <2>4, <2>5, <2>6, <2>7, <2>8, <2>9 DEF IInv
<1>. QED
  BY <1>5, <1>6

\* What was accepted was passed by every check.
LEMMA AcceptedIsCleared ==
  ASSUME IInv, pc \in Ran
  PROVE  /\ check = 9 /\ \A i \in 1..9 : Found(i) = {}
         /\ Root \in AnyStatement /\ Root.limit \in Limits
         /\ Denied \/ Missing => StrayName
         /\ TablesRead = TablesUsed \cup {t.name : t \in Stray}
         /\ CapFixed /\ tables = TablesUsed /\ query_limit = QueryLimit(Root.limit)
<1>1. check = 9 /\ \A i \in 1..9 : Found(i) = {}
  BY DEF IInv, Through, Passed
<1>2. query \in AnyQuery /\ CountCodes = {} /\ TypeCodes = {} /\ TableCodes = {}
  BY <1>1, ChecksAre DEF IInv, TypeOK
<1>3. Root \in AnyStatement /\ Root.limit \in Limits
  BY <1>1, PassedMeans DEF IInv
<1>. QED
  BY <1>1, <1>2, <1>3, ClearedReads DEF IInv, Recorded

LEMMA ExecuteHolds == IInv /\ Execute => IInv'
<1>. SUFFICES ASSUME IInv, Execute PROVE IInv'
  OBVIOUS
<1>1. /\ pc = "accepted" /\ query' = query /\ check' = check /\ tables' = tables
      /\ query_limit' = query_limit /\ first' = first
  BY DEF Execute
<1>2. (Denied \/ Missing => StrayName) /\ check = 9
  BY <1>1, AcceptedIsCleared DEF Ran
<1>3. \/ pc' = "executed"
      \/ /\ pc' = "failed"
         /\ code' = "TIMEOUT" \/ (code' = "EXECUTION_ERROR" /\ Root.faulty) \/ StrayName
  BY <1>2 DEF Execute, Fail
<1>4. TypeOK'
  BY <1>1, <1>3 DEF IInv, TypeOK
<1>5. Passed' /\ Recorded' /\ Replayed'
  BY <1>1, SameQuery DEF IInv, Passed, Recorded, Replayed
<1>6. Through'
  BY <1>1, SameQuery DEF IInv, Through, Ran
<1>7. Explained'
  BY <1>1, <1>2, <1>3, SameQuery DEF Explained
<1>. QED
  BY <1>4, <1>5, <1>6, <1>7 DEF IInv

LEMMA ReplayHolds == IInv /\ Replay => IInv'
<1>. SUFFICES ASSUME IInv, Replay PROVE IInv'
  OBVIOUS
<1>1. /\ pc = "executed" /\ check' = 1 /\ pc' = "validating" /\ tables' = {}
      /\ query_limit' = NoLimit
      /\ first' = [tables |-> tables, limit |-> Root.limit, query_limit |-> query_limit]
  BY DEF Replay
<1>2. PICK size \in {"fits", "long"} : query' = [query EXCEPT !.size = size, !.keyword = "other"]
  BY DEF Replay
<1>3. /\ check = 9 /\ \A i \in 1..9 : Found(i) = {}
      /\ Root \in AnyStatement /\ Root.limit \in Limits
      /\ CapFixed /\ tables = TablesUsed /\ query_limit = QueryLimit(Root.limit)
  BY <1>1, AcceptedIsCleared DEF Ran
<1>4. query \in AnyQuery /\ tables \subseteq STRING /\ query_limit \in Limits
  BY DEF IInv, TypeOK
<1>5. /\ query' \in AnyQuery /\ query'.size = size /\ query'.keyword = "other"
      /\ query'.tokenizes = query.tokenizes /\ query'.parses = query.parses
      /\ query'.regenerates = query.regenerates /\ query'.statements = query.statements
  BY <1>2, <1>4 DEF AnyQuery
<1>6. /\ KeywordCodes' = {} /\ ParseCodes' = ParseCodes /\ OutputCodes' = OutputCodes
  <2>1. query.tokenizes
    BY <1>3, ChecksAre DEF KeywordCodes
  <2>. QED
    BY <1>5, <2>1 DEF KeywordCodes, ParseCodes, OutputCodes, If
<1>7. /\ Found(2)' = {} /\ Found(3)' = {} /\ Found(4)' = {} /\ Found(5)' = {} /\ Found(6)' = {}
      /\ Found(7)' = {} /\ Found(8)' = {} /\ Found(9)' = {}
  BY <1>3, <1>5, <1>6, SameTree, ChecksAre, ChecksArePrimed
<1>8. TypeOK'
  BY <1>1, <1>3, <1>4, <1>5, ChecksAre DEF TypeOK, Limits
<1>9. Passed' /\ Through' /\ Recorded' /\ Explained'
  BY <1>1 DEF Passed, Through, Ran, Recorded, Explained
<1>10. Replayed'
  BY <1>1, <1>2, <1>3, <1>5, <1>7, SameTree DEF Replayed
<1>. QED
  BY <1>8, <1>9, <1>10 DEF IInv

LEMMA StutterHolds == IInv /\ UNCHANGED vars => IInv'
<1>. SUFFICES ASSUME IInv, UNCHANGED vars PROVE IInv'
  OBVIOUS
<1>. USE DEF IInv, vars
<1>1. TypeOK'
  BY DEF TypeOK
<1>2. Passed' /\ Through' /\ Recorded' /\ Replayed'
  BY SameQuery DEF Passed, Through, Ran, Recorded, Replayed
<1>3. Explained'
  BY SameQuery, ChecksAre DEF Explained, TypeOK
<1>. QED
  BY <1>1, <1>2, <1>3

LEMMA StepHolds == IInv /\ [Next]_vars => IInv'
  BY RejectHolds, PassHolds, ExecuteHolds, ReplayHolds, StutterHolds DEF Next

LEMMA Inductive == Spec => []IInv
  BY InitHolds, StepHolds, PTL DEF Spec

-----------------------------------------------------------------------------
(* What follows from it. *)

\* Whatever the parser returns, the validator and the executor keep to the ranges of their
\* state, the limit left in the query and the names of its tables included.
THEOREM SqlGateTypes == Spec => []TypeOK
  BY Inductive, PTL DEF IInv

LEMMA MostSpecific == IInv => MostSpecificCode
<1>. SUFFICES ASSUME IInv, pc = "rejected", query.size = "fits", query.tokenizes, query.parses,
                     first = None
              PROVE  /\ query.keyword = "write" => code = "FORBIDDEN_WRITE"
                     /\ query.keyword \in {"other", "none"} /\ Len(query.statements) = 1
                          /\ Root # None =>
                          /\ Root.kind # "foreign" /\ Writes(Root) => code = "FORBIDDEN_WRITE"
                          /\ code \in Repairable => Root.kind = "query" /\ ~Root.forbidden
  BY DEF MostSpecificCode
<1>1. check \in 1..9 /\ query \in AnyQuery /\ code \in Found(check)
  BY ChecksAre DEF IInv, TypeOK, Explained
<1>2. \A i \in 1..9 : i < check => Found(i) = {}
  BY DEF IInv, Passed
<1>3. TextCodes = {} /\ ParseCodes = {}
  BY DEF TextCodes, ParseCodes, If
<1>4. check # 1 /\ check # 3
  BY <1>1, <1>3, ChecksAre
<1>5. ASSUME query.keyword = "write" PROVE code = "FORBIDDEN_WRITE"
  <2>1. KeywordCodes = {"FORBIDDEN_WRITE"}
    BY <1>5 DEF KeywordCodes, If
  <2>2. check = 2
    BY <1>1, <1>2, <1>4, <2>1, ChecksAre
  <2>. QED
    BY <1>1, <2>1, <2>2, ChecksAre
<1>6. ASSUME query.keyword \in {"other", "none"}, Len(query.statements) = 1, Root # None
      PROVE  /\ Root.kind # "foreign" /\ Writes(Root) => code = "FORBIDDEN_WRITE"
             /\ code \in Repairable => Root.kind = "query" /\ ~Root.forbidden
  <2>1. KeywordCodes = {}
    BY <1>6 DEF KeywordCodes, If
  <2>2. CountCodes = {}
    <3>1. query.statements \in Seq(AnyStatement \cup {None})
      BY <1>1 DEF AnyQuery
    <3>2. Root \in Statements
      BY <3>1, <1>6 DEF Statements, Root
    <3>. QED
      BY <3>2, <1>6 DEF CountCodes, If
  <2>3. check > 4
    BY <1>1, <1>4, <2>1, <2>2, ChecksAre
  <2>4. Root.kind \in {"query", "write", "command", "other", "foreign"}
    BY <1>1, <2>2, RootIsStatement DEF AnyStatement
  <2>5. CASE check = 5
    <3>1. code \in TypeCodes
      BY <1>1, <2>5, ChecksAre
    <3>2. Root.kind # "foreign" /\ Writes(Root) => TypeCodes = {"FORBIDDEN_WRITE"}
      BY <2>4 DEF TypeCodes
    <3>3. code \in {"NOT_A_SELECT", "FORBIDDEN_WRITE", "FORBIDDEN_STATEMENT"}
      BY <2>4, <3>1 DEF TypeCodes
    <3>. QED
      BY <3>1, <3>2, <3>3 DEF Repairable
  <2>6. CASE check > 5
    <3>1. TypeCodes = {}
      BY <1>1, <1>2, <2>6, ChecksAre
    <3>2. Root.kind = "query" /\ ~Writes(Root)
      BY <2>4, <3>1 DEF TypeCodes, Writes
    <3>3. Root.forbidden => FunctionCodes = {"FORBIDDEN_FUNCTION"}
      BY DEF FunctionCodes, If
    <3>4. Root.forbidden => check = 6 /\ code = "FORBIDDEN_FUNCTION"
      BY <1>1, <1>2, <2>6, <3>3, ChecksAre
    <3>. QED
      BY <3>2, <3>4 DEF Repairable
  <2>. QED
    BY <1>1, <2>3, <2>5, <2>6
<1>. QED
  BY <1>5, <1>6

\* validator.py:9: whatever the query, a write is reported as one, wherever it stands, and a
\* code that is repaired is given to a read or to what does not parse.
THEOREM WritesAreNamed == Spec => []MostSpecificCode
  BY Inductive, MostSpecific, PTL

LEMMA Agree == IInv => LayersAgree
<1>. SUFFICES ASSUME IInv PROVE LayersAgree
  OBVIOUS
<1>1. pc = "failed" => code = "TIMEOUT" \/ (code = "EXECUTION_ERROR" /\ Root.faulty) \/ StrayName
  BY DEF IInv, Explained
<1>2. pc \in Ran => TablesRead = tables \cup {t.name : t \in Stray}
  BY AcceptedIsCleared
<1>. QED
  BY <1>1, <1>2 DEF LayersAgree, Ran, StrayName

\* executor.py:148, validator.py:130, for every query, nest of WITH clauses and database: unless an
\* accepted query uses a CTE's name out of the CTE's scope where no allowed table has it, the
\* authorizer denies nothing and no table is missing; and what it reads are the tables named
\* and those stray names, so the tables named alone if there are none.
THEOREM LayersDifferByScope == Spec => []LayersAgree
  BY Inductive, Agree, PTL

LEMMA Same == IInv => ReplayIsSame
<1>. SUFFICES ASSUME IInv, first # None
              PROVE  /\ pc = "rejected" => code = "TOO_LONG"
                     /\ pc \in Ran =>
                          first = [tables |-> tables, limit |-> Root.limit,
                                   query_limit |-> query_limit]
  BY DEF ReplayIsSame, Ran
<1>1. query.size # "blank" /\ \A i \in 2..9 : Found(i) = {}
  BY DEF IInv, Replayed
<1>2. ASSUME pc = "rejected" PROVE code = "TOO_LONG"
  <2>1. check \in 1..9 /\ code \in Found(check)
    BY <1>2, ChecksAre DEF IInv, TypeOK, Explained
  <2>2. code \in TextCodes
    BY <1>1, <2>1, ChecksAre
  <2>. QED
    BY <1>1, <2>2 DEF TextCodes, If
<1>3. ASSUME pc \in Ran
      PROVE  first = [tables |-> tables, limit |-> Root.limit, query_limit |-> query_limit]
  BY <1>3, AcceptedIsCleared DEF IInv, Replayed
<1>. QED
  BY <1>2, <1>3

\* tests/unit/test_sql_validator.py:74: a stored query that is validated again is accepted with
\* the same tables, the same LIMIT and the same limit of its own, or is too long.
THEOREM StoredQueryIsStable == Spec => []ReplayIsSame
  BY Inductive, Same, PTL
=============================================================================
