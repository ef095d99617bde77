--------------------------- MODULE MCChatSessions ---------------------------
(* A small instance of ChatSessions: four requests, three session ids, two of which the  *)
(* store has room for, and a history of two turns.                                       *)
EXTENDS ChatSessions, TLC

\* Requests and session ids are interchangeable: nothing in the handler names one.
Symmetry == Permutations(Requests) \cup Permutations(Sessions)
=============================================================================
