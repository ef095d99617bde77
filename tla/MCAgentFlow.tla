---------------------------- MODULE MCAgentFlow ----------------------------
(* A small instance of AgentFlow: MaxRows = 2, up to four matching rows.     *)
EXTENDS AgentFlow

Sql(check, limit) ==
  [raw |-> TRUE, tokens |-> {}, clarify |-> FALSE, check |-> check, limit |-> limit]

Tagged(tokens, clarify) ==
  [raw |-> TRUE, tokens |-> tokens, clarify |-> clarify, check |-> "PARSE_ERROR",
   limit |-> NoLimit]

\* One code of each fate (blank, final, repairable), every LIMIT around the cap, and every
\* mix of reply tokens.
MCReplies ==
  {Sql(c, NoLimit) : c \in {"EMPTY_QUERY", "FORBIDDEN_WRITE", "UNKNOWN_TABLE"}}
  \cup {Sql("passes", l) : l \in {NoLimit, InvalidLimit} \cup 0..3}
  \cup {Tagged(t, c) : t \in SUBSET Tokens, c \in BOOLEAN}

MCMatching == 0..4
MCRepairSettings == {0, 1, 3}
=============================================================================
