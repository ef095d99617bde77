----------------------------- MODULE MCChatPage -----------------------------
(* A small instance of ChatPage: a page with three questions, one reload and one restart   *)
(* of the server, room for one session and a history of one turn.  To the server the page  *)
(* loaded again is a second page, beside the requests the first one left under way.        *)
EXTENDS ChatPage
=============================================================================
