------------------------------ MODULE ChatPage ------------------------------
(***************************************************************************)
(* The browser page (frontend/app.js) in front of the chat handlers: send  *)
(* posts a question with the session id the page holds and shows what      *)
(* comes back, one question at a time.  The page's fetch may fail at any   *)
(* point while its request is still on its way, or is being answered; a    *)
(* reload forgets the page's session and conversation.                     *)
(***************************************************************************)
EXTENDS ChatSessions

CONSTANTS
  Pages,
  Reloads       \* (bound) how often a page is loaded again

ASSUME ReloadsAssumption == Reloads \in Nat
ASSUME NoRequestAssumption == None \notin Requests

VARIABLES
  sessionId, busy,     \* by page: its session id; the question it waits for, or None
  dialog,              \* by page: the questions it shows with an answer or a question back
  net,                 \* by request: where its message is
  posted,              \* by request: the session id in its body, or None
  reloads,
  mine, broken         \* history, by page: the requests posted, and whether a fetch failed,
                       \* since it was loaded

page == <<sessionId, busy, dialog, reloads, mine, broken>>
pvars == <<vars, page, net, posted>>

PInit ==
  /\ Init
  /\ sessionId = [p \in Pages |-> None] /\ busy = [p \in Pages |-> None]
  /\ dialog = [p \in Pages |-> <<>>]
  /\ net = [r \in Requests |-> "unsent"] /\ posted = [r \in Requests |-> None]
  /\ reloads = 0
  /\ mine = [p \in Pages |-> {}] /\ broken = [p \in Pages |-> FALSE]

-----------------------------------------------------------------------------
(* The page. *)

Ready(p) == busy[p] = None

\* Nothing tells the requests that were not made yet apart.
Unsent == {r \in Requests : net[r] = "unsent"}

Send(p) ==
  /\ Ready(p) /\ Unsent # {}
  /\ LET r == CHOOSE r \in Unsent : TRUE IN
       /\ busy' = [busy EXCEPT ![p] = r]
       /\ net' = [net EXCEPT ![r] = "sent"]
       /\ posted' = [posted EXCEPT ![r] = sessionId[p]]
       /\ mine' = [mine EXCEPT ![p] = @ \cup {r}]
  /\ UNCHANGED <<vars, sessionId, dialog, reloads, broken>>

\* What a response says is shown below its question; an error takes the place of an answer.
Show(p) ==
  dialog' = IF outcome[busy[p]] \in {"answered", "clarify"}
            THEN [dialog EXCEPT ![p] = Append(@, busy[p])] ELSE dialog

\* (mutant) the input comes back only with an answer.
BusyAfterError(p) == busy[p]

\* The finally clause.
BusyAfter(p) == None

\* (mutant) the page keeps the session id it had.
IdKept(p) == sessionId[p]

IdReceived(p) == session[busy[p]]

\* A response of the handler: what it says is shown and its session id is held.
Receive(p) ==
  /\ ~Ready(p) /\ net[busy[p]] = "answered"
  /\ sessionId' = [sessionId EXCEPT ![p] = IdReceived(p)]
  /\ Show(p)
  /\ busy' = [busy EXCEPT ![p] = BusyAfter(p)]
  /\ UNCHANGED <<vars, net, posted, reloads, mine, broken>>

\* A response that is not ok: the question is too long (422), and no handler sees it.
Rejected(p) ==
  /\ ~Ready(p) /\ net[busy[p]] = "sent"
  /\ net' = [net EXCEPT ![busy[p]] = "rejected"]
  /\ busy' = [busy EXCEPT ![p] = BusyAfter(p)]
  /\ UNCHANGED <<vars, sessionId, dialog, posted, reloads, mine, broken>>

\* fetch raises: the page cannot know how far the request has come, or will.
FetchFails(p) ==
  /\ ~Ready(p)
  /\ busy' = [busy EXCEPT ![p] = BusyAfter(p)]
  /\ broken' = [broken EXCEPT ![p] = TRUE]
  /\ UNCHANGED <<vars, sessionId, dialog, net, posted, reloads, mine>>

Reload(p) ==
  /\ reloads < Reloads /\ reloads' = reloads + 1
  /\ sessionId' = [sessionId EXCEPT ![p] = None] /\ busy' = [busy EXCEPT ![p] = None]
  /\ dialog' = [dialog EXCEPT ![p] = <<>>]
  /\ mine' = [mine EXCEPT ![p] = {}] /\ broken' = [broken EXCEPT ![p] = FALSE]
  /\ UNCHANGED <<vars, net, posted>>

-----------------------------------------------------------------------------
(* The network and the server, whose handler is that of ChatSessions. *)

\* uuid4: an id nobody has had; (bound) one is left.
Unused == {s \in Sessions : \A r \in Requests : session[r] # s}

FreshId == CHOOSE s \in Unused : TRUE

\* The message arrives: `body.session_id or str(uuid.uuid4())'.
Arrive(r) ==
  /\ net[r] = "sent" /\ Start(r)
  /\ posted[r] = None => Unused # {}
  /\ session'[r] = IF posted[r] = None THEN FreshId ELSE posted[r]
  /\ net' = [net EXCEPT ![r] = "arrived"]
  /\ UNCHANGED <<page, posted>>

Handle(r) ==
  /\ AskReturns(r) \/ Store(r)
  /\ UNCHANGED <<page, net, posted>>

Answer(r) ==
  /\ Respond(r)
  /\ net' = [net EXCEPT ![r] = "answered"]
  /\ UNCHANGED <<page, posted>>

\* The requests under way have no answer; the pages find out when their fetch fails.
ServerRestarts == Restart /\ UNCHANGED <<page, net, posted>>

\* No question is under way, and nobody need ask another.
Quiet ==
  /\ \A r \in Requests : pc[r] \in {"idle", "done"}
  /\ \A p \in Pages : Ready(p)
  /\ UNCHANGED pvars

PNext ==
  \/ \E p \in Pages : Send(p) \/ Receive(p) \/ Rejected(p) \/ FetchFails(p) \/ Reload(p)
  \/ \E r \in Requests : Arrive(r) \/ Handle(r) \/ Answer(r)
  \/ ServerRestarts \/ Quiet

\* The handler's thread goes on, since every call of the agent ends, and the browser tells the
\* page of a response or of a connection that is lost; no message need ever arrive.
Fairness ==
  /\ \A r \in Requests : WF_pvars(Handle(r)) /\ WF_pvars(Answer(r))
  /\ \A p \in Pages : WF_pvars(Receive(p) \/ Rejected(p) \/ FetchFails(p))

PSpec == PInit /\ [][PNext]_pvars /\ Fairness

-----------------------------------------------------------------------------
(* Properties. *)

\* app.js:3 "The server owns conversation state; this file only holds the session id that
\* points at it": the agent is shown only questions of the page's own conversation, and if
\* nothing broke (no fetch, no restart, no eviction) exactly the last the page shows.
ConversationIsContext ==
  \A p \in Pages : LET r == busy[p] IN
    r # None /\ net[r] # "unsent" /\ session[r] # None =>
      /\ ToSet(history[r]) \subseteq mine[p]
      /\ ~broken[p] /\ restarts = 0 /\ forgotten = {} => history[r] = LastTurns(dialog[p])

\* app.js:133 the finally clause: whatever becomes of a question, the page can send again.
InputComesBack == \A p \in Pages : busy[p] # None ~> busy[p] = None
=============================================================================
