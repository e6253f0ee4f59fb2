----------------------------- MODULE Assistant -----------------------------
(***************************************************************************)
(* The conversations of one user with the assistant: AssistantPage.tsx in  *)
(* one tab, and behind it routers/assistant.py with the collections        *)
(* assistant_messages and assistant_sessions.                              *)
(*                                                                         *)
(* A conversation ("session") exists by its messages; a pointer says which *)
(* one is current.  The handlers of the server are cut at every await, so  *)
(* that a question, which takes minutes, overlaps whatever else the user   *)
(* does meanwhile.                                                         *)
(***************************************************************************)
EXTENDS Naturals, FiniteSets

CONSTANTS
    MaxSessions,    \* conversations; the user starts and deletes no more when they run out
    MaxAsks,        \* questions the user asks
    MaxCalls,       \* requests in flight at which the user pauses
    None

ASSUME AssistantAssumption ==
    /\ None \notin Nat
    /\ MaxSessions \in Nat /\ MaxSessions >= 3 /\ MaxAsks \in Nat /\ MaxCalls \in Nat \ {0}

VARIABLES
    messages,   \* assistant_messages: [session, from, q]
    pointer,    \* assistant_sessions: current_session_id, None before the first
    minted,     \* conversations created so far
    asked,      \* questions asked so far
    page,       \* the cells of the page
    calls,      \* requests sent and not yet taken back, and where their handlers are
    deleted,    \* conversations deleted so far
    calm        \* so far the user waited for answers, none was an error, and the two
                \* requests of the first visit did not both create a conversation

vars == <<messages, pointer, minted, asked, page, calls, deleted, calm>>
server == <<messages, pointer, minted, deleted>>

Sessions == 1..MaxSessions
Questions == 1..MaxAsks
Of(s) == {[from |-> m.from, q |-> m.q] : m \in {n \in messages : n.session = s}}

\* x: the subject of the request; was: whether it was the current one when
\* the user clicked; s: the conversation the handler works on; got: the answer.
Call(fn, x, was) == [fn |-> fn, x |-> x, was |-> was, at |-> "start", s |-> None, got |-> {}]
Spinner == [ask |-> "loading", history |-> "historyLoading", new |-> "startingNew",
            switch |-> "switching", delete |-> "deleting", reread |-> "deleting"]

Init ==
    /\ messages = {} /\ pointer = None /\ minted = 0 /\ asked = 0 /\ deleted = {} /\ calm = TRUE
    /\ page = [screen |-> {}, sessions |-> {}, currentSessionId |-> None, historyLoading |-> TRUE,
               loading |-> FALSE, startingNew |-> FALSE, switching |-> FALSE, deleting |-> FALSE]
    /\ calls = {Call("history", None, FALSE), Call("sessions", None, FALSE)}

---------------------------------------------------------------------------
(* The server.                                                             *)
Move(c, to) == calls' = (calls \ {c}) \cup {to}
Goes(c, at) == Move(c, [c EXCEPT !.at = at])
Answers(c, got) == Move(c, [c EXCEPT !.at = "answered", !.got = got])

\* get_or_create_session: the pointer is read, or set to a new conversation.
find_session(c) ==
    /\ c.at = "start" /\ c.fn \in {"history", "reread", "sessions", "ask"}
    /\ Move(c, IF pointer = None THEN [c EXCEPT !.at = "create"] ELSE [c EXCEPT !.at = "found", !.s = pointer])
    /\ UNCHANGED <<server, calm>>

start_new_session(c) ==
    /\ c.at = "create" \/ (c.at = "start" /\ c.fn = "new")
    /\ minted' = minted + 1
    /\ pointer' = minted'
    /\ Move(c, [c EXCEPT !.at = IF c.fn \in {"new", "delete"} THEN "answered" ELSE "found", !.s = minted'])
    /\ calm' = (calm /\ (c.fn \in {"new", "delete"} \/ pointer = None))
    /\ UNCHANGED <<messages, deleted>>

history(c) ==
    /\ c.fn \in {"history", "reread", "switch"} /\ c.at = "found"
    /\ Answers(c, Of(c.s))
    /\ UNCHANGED <<server, calm>>

list_sessions(c) ==
    /\ c.fn = "sessions" /\ c.at = "found"
    /\ Answers(c, {m.session : m \in messages})
    /\ UNCHANGED <<server, calm>>

\* When the answer is there, both sides are saved, to the conversation that
\* was current when the question came.
ask(c) ==
    /\ c.fn = "ask"
    /\ \/ /\ c.at = "found"
          /\ messages' = messages \cup {[session |-> c.s, from |-> "user", q |-> c.x]}
          /\ Goes(c, "saved")
       \/ /\ c.at = "saved"
          /\ messages' = messages \cup {[session |-> c.s, from |-> "assistant", q |-> c.x]}
          /\ Goes(c, "answered")
    /\ UNCHANGED <<pointer, minted, deleted, calm>>

session_belongs_to_user(c) ==
    /\ c.fn \in {"switch", "delete"} /\ c.at = "start"
    /\ IF Of(c.x) # {} THEN Goes(c, "owned") /\ calm' = calm ELSE Goes(c, "failed") /\ calm' = FALSE
    /\ UNCHANGED server

\* Broken variant: the pointer stays at the conversation before.
switch_session_late(c) ==
    /\ c.fn = "switch" /\ c.at = "owned"
    /\ Move(c, [c EXCEPT !.at = "found", !.s = c.x])
    /\ UNCHANGED <<server, calm>>

switch_session(c) ==
    /\ c.fn = "switch" /\ c.at = "owned"
    /\ pointer' = c.x
    /\ Move(c, [c EXCEPT !.at = "found", !.s = c.x])
    /\ UNCHANGED <<messages, minted, deleted, calm>>

is_current_session(c) ==
    /\ c.fn = "delete" /\ c.at = "owned"
    /\ Goes(c, IF pointer = c.x THEN "current" ELSE "other")
    /\ UNCHANGED <<server, calm>>

\* Broken variant: the answers of the assistant stay.
delete_session_user_only(c) ==
    /\ c.fn = "delete" /\ c.at \in {"current", "other"}
    /\ messages' = {m \in messages : m.session # c.x \/ m.from = "assistant"}
    /\ deleted' = deleted \cup {c.x}
    /\ Goes(c, IF c.at = "current" THEN "create" ELSE "answered")
    /\ UNCHANGED <<pointer, minted, calm>>

delete_session(c) ==
    /\ c.fn = "delete" /\ c.at \in {"current", "other"}
    /\ messages' = {m \in messages : m.session # c.x}
    /\ deleted' = deleted \cup {c.x}
    /\ Goes(c, IF c.at = "current" THEN "create" ELSE "answered")
    /\ UNCHANGED <<pointer, minted, calm>>

\* A request is refused, the model of the assistant is not available, or the
\* answer is lost.
lose(c) ==
    /\ c.at \in {"start", "answered"} \/ (c.fn = "ask" /\ c.at = "found")
    /\ Goes(c, "failed")
    /\ calm' = FALSE
    /\ UNCHANGED server

Server(c) ==
    /\ \/ find_session(c) \/ start_new_session(c) \/ history(c) \/ list_sessions(c) \/ ask(c)
       \/ session_belongs_to_user(c) \/ switch_session(c) \/ is_current_session(c) \/ delete_session(c)
    /\ UNCHANGED <<asked, page>>

---------------------------------------------------------------------------
(* The page: what the user does.                                           *)
Act(cells, call) ==
    /\ Cardinality(calls) < MaxCalls
    /\ page' = cells
    /\ calls' = calls \cup {call}
    /\ calm' = (calm /\ calls = {})
    /\ UNCHANGED server

send ==
    /\ ~page.loading /\ ~page.historyLoading /\ asked < MaxAsks
    /\ asked' = asked + 1
    /\ Act([page EXCEPT !.loading = TRUE, !.screen = @ \cup {[from |-> "user", q |-> asked']}],
           Call("ask", asked', FALSE))

MayCreate == minted + Cardinality(calls) < MaxSessions

startNewConversation ==
    /\ ~page.historyLoading /\ page.screen # {} /\ ~page.startingNew /\ MayCreate
    /\ Act([page EXCEPT !.startingNew = TRUE], Call("new", None, FALSE))
    /\ UNCHANGED asked

switchToSession(s) ==
    /\ s # page.currentSessionId /\ ~page.loading
    /\ Act([page EXCEPT !.switching = TRUE], Call("switch", s, FALSE))
    /\ UNCHANGED asked

\* Offered while an answer is awaited, too.
deleteConversation(s) ==
    /\ MayCreate
    /\ Act([page EXCEPT !.deleting = TRUE], Call("delete", s, s = page.currentSessionId))
    /\ UNCHANGED asked

---------------------------------------------------------------------------
(* The page: an answer arrives.                                            *)
Take(c, cells, more) ==
    /\ page' = cells
    /\ calls' = (calls \ {c}) \cup more
    /\ UNCHANGED <<server, asked, calm>>

refreshSessions == {Call("sessions", None, FALSE)}
Shows(c) == [page EXCEPT !.currentSessionId = c.s, !.screen = c.got]

takeHistory(c) == c.fn = "history" /\ Take(c, [Shows(c) EXCEPT !.historyLoading = FALSE], {})
takeSessions(c) == c.fn = "sessions" /\ Take(c, [page EXCEPT !.sessions = c.got], {})
takeAnswer(c) ==
    /\ c.fn = "ask"
    /\ Take(c, [page EXCEPT !.loading = FALSE, !.screen = @ \cup {[from |-> "assistant", q |-> c.x]}],
            refreshSessions)
takeNew(c) ==
    /\ c.fn = "new"
    /\ Take(c, [page EXCEPT !.startingNew = FALSE, !.screen = {}, !.currentSessionId = None], refreshSessions)
takeSwitch(c) == c.fn = "switch" /\ Take(c, [Shows(c) EXCEPT !.switching = FALSE], {})

\* The conversation that was open is read again before it leaves the list.
takeDelete(c) ==
    \/ c.was /\ c.fn = "delete" /\ Take(c, page, {Call("reread", c.x, TRUE)})
    \/ /\ (~c.was /\ c.fn = "delete") \/ c.fn = "reread"
       /\ Take(c, [(IF c.fn = "reread" THEN Shows(c) ELSE page) EXCEPT !.deleting = FALSE, !.sessions = @ \ {c.x}], {})

\* Broken variant: an error leaves the spinner of a question turning.
takeFailureStuck(c) ==
    Take(c, IF c.fn \in {"sessions", "ask"} THEN page ELSE [page EXCEPT ![Spinner[c.fn]] = FALSE], {})

takeFailure(c) == Take(c, IF c.fn = "sessions" THEN page ELSE [page EXCEPT ![Spinner[c.fn]] = FALSE], {})

Takes(c) ==
    \/ /\ c.at = "answered"
       /\ takeHistory(c) \/ takeSessions(c) \/ takeAnswer(c) \/ takeNew(c) \/ takeSwitch(c) \/ takeDelete(c)
    \/ c.at = "failed" /\ takeFailure(c)

Lose(c) == lose(c) /\ UNCHANGED <<asked, page>>

Next ==
    \/ send \/ startNewConversation
    \/ \E s \in page.sessions : switchToSession(s) \/ deleteConversation(s)
    \/ \E c \in calls : Server(c) \/ Takes(c) \/ Lose(c)

\* The server goes on with a question, and the page with its answer.
Fairness == WF_vars(\E c \in calls : c.fn = "ask" /\ (Server(c) \/ Takes(c)))
Spec == Init /\ [][Next]_vars /\ Fairness

---------------------------------------------------------------------------
\* The conversation that the page takes for the current one is the one that the
\* next question goes to, and its messages are those that are shown, whatever
\* was asked, started, switched to and deleted before, by a user who waits for
\* the answers (AssistantPage.tsx:75-93, 136-230; routers/assistant.py:1092-1194).
\* After "New Conversation" the page knows of none (README, known exceptions).
ShowsCurrent ==
    calm /\ calls = {} /\ page.currentSessionId # None =>
        page.currentSessionId = pointer /\ page.screen = Of(pointer)

\* "This permanently deletes it - it can't be undone." (AssistantPage.tsx:325):
\* for a user who waits, no message of a deleted conversation comes back.  An
\* answer that is awaited when its conversation is deleted is saved to it, and
\* brings it back (README, known exceptions).
DeletedForGood == calm => \A m \in messages : m.session \notin deleted

\* Who asked can ask again: the answer, or an error, ends the wait, whatever
\* happens to the conversation meanwhile (AssistantPage.tsx:136-167).
AskEnds == page.loading ~> ~page.loading
=============================================================================
