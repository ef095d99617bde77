----------------------------- MODULE MCSqlGate -----------------------------
(* A small instance of SqlGate: a table, a catalogue the allowlist leaves out, a virtual    *)
(* table and a name of no table, any of which a CTE may take; up to two references within   *)
(* and outside of up to two WITH clauses; and for the text one plain statement.             *)
EXTENDS SqlGate, TLC

Names == {"orders", "recent", "sqlite_master", "pragma_table_list"}
References ==
  {t \in [name : Names, place : {"", "main", "other"}, call : BOOLEAN, around : SUBSET {1, 2}] :
     /\ t.place # "" => t.around = {1}
     /\ t.call => t.name = "recent" /\ t.place = "" /\ t.around = {}}
SomeTables == {{}} \cup {{t, u} : t, u \in References}
Withs == {<<>>} \cup {<<{n}>> : n \in Names} \cup {<<{"recent"}, {"orders", "sqlite_master"}>>}

Plain == [kind |-> "query", writes |-> FALSE, forbidden |-> FALSE, faulty |-> FALSE,
          tables |-> {[name |-> "orders", place |-> "", call |-> FALSE, around |-> {}]},
          withs |-> <<>>, limit |-> NoLimit]

\* Reads with every pair of references, and with every limit; anything else with a plain one.
Trees == [kind : {"query"}, writes : {FALSE}, forbidden : {FALSE}, faulty : BOOLEAN,
          tables : SomeTables, withs : Withs, limit : {NoLimit}]
  \cup [kind : {"query"}, writes : {FALSE}, forbidden : BOOLEAN, faulty : BOOLEAN,
        tables : {{t} : t \in References}, withs : Withs,
        limit : {NoLimit, InvalidLimit} \cup 0..MaxRows + 2]
  \cup [kind : {"query", "write", "command", "other", "foreign"}, writes : BOOLEAN,
        forbidden : BOOLEAN, faulty : {FALSE}, tables : {{}} \cup {{t} : t \in References},
        withs : {<<>>}, limit : {NoLimit, InvalidLimit}]

Text(tree) == [size |-> "fits", keyword |-> "other", tokenizes |-> TRUE, parses |-> TRUE,
               regenerates |-> TRUE, statements |-> <<tree>>]

Kind(keyword) == IF keyword = "other" THEN "query" ELSE keyword
First(keyword) == [Plain EXCEPT !.kind = Kind(keyword)]

\* What the parser can say of a text: no statement without a token, none parsed without tokens.
Texts ==
  {t \in [size : {"blank", "long", "fits"}, keyword : {"write", "command", "other", "none"},
          tokenizes : BOOLEAN, parses : BOOLEAN, regenerates : BOOLEAN,
          statements : {<<>>, <<None>>, <<None, Plain>>}
            \cup {<<First(k)>> : k \in {"write", "command", "other"}}
            \cup {<<First(k), u>> : k \in {"write", "command", "other"}, u \in {None, Plain}}] :
     /\ t.size = "blank" => t.keyword = "none"
     /\ ~t.tokenizes => ~t.parses
     /\ CASE t.keyword = "none" -> t.statements \in {<<>>, <<None>>}
          [] t.keyword # "none" -> t.statements # <<>> /\
               (t.statements[1] = First(t.keyword) \/ (t.keyword = "other" /\ Len(t.statements) = 2 /\ t.statements[1] = None))}

MCQueries == Texts \cup {Text(tree) : tree \in Trees}
MCAllowed == {"orders"}
MCUnlisted == {"sqlite_master"}
MCVirtual == {"pragma_table_list"}
=============================================================================
