--------------------------- MODULE Assistant_proofs ---------------------------
(***************************************************************************)
(* Assistant, for any number of conversations, questions and requests: for *)
(* a user who waits for the answers, the page shows the conversation that  *)
(* the next question goes to, and no message of a deleted one comes back.  *)
(*                                                                         *)
(* The invariant says what each request under way makes of that: which     *)
(* conversation its handler works on, and what the page still lacks.       *)
(***************************************************************************)
EXTENDS Assistant, TLAPS

-----------------------------------------------------------------------------
(* The invariant *)

Fns == {"history", "reread", "sessions", "ask", "new", "switch", "delete"}
First == {"history", "sessions"}

\* Conversations are numbered, and none that was deleted has a message.
Numbered ==
    /\ minted \in Nat /\ deleted \subseteq 1..minted /\ (pointer = None \/ pointer \in 1..minted)
    /\ \A m \in messages : m.session \in 1..minted /\ m.session \notin deleted

\* Only the two requests of the first visit are under way together.
Apart == \A c, d \in calls : c # d => c.fn \in First /\ d.fn \in First /\ c.fn # d.fn

\* The pointer is at no deleted conversation, but while that is being deleted.
PointerGood == pointer \in deleted => \E c \in calls : c.fn = "delete" /\ c.at = "create"

Is(d, fn, x, was, at, s, got) ==
    /\ DOMAIN d = {"fn", "x", "was", "at", "s", "got"}
    /\ d.fn = fn /\ d.x = x /\ d.was = was /\ d.at = at /\ d.s = s /\ d.got = got

\* A handler works on the current conversation, or on one that has messages.
Works(c) ==
    /\ Is(c, c.fn, c.x, c.was, c.at, c.s, c.got) /\ c.fn \in Fns /\ c.at # "failed"
    /\ c.at \in {"found", "saved"} => c.s = pointer /\ pointer # None
    /\ c.at = "answered" /\ c.fn \in {"history", "reread", "switch"} =>
           c.s = pointer /\ pointer # None /\ c.got = Of(pointer)
    /\ c.at \in {"owned", "current", "other"} => c.fn \in {"switch", "delete"} /\ Of(c.x) # {}
    /\ c.at = "current" \/ (c.at = "create" /\ c.fn = "delete") => c.x = pointer
    /\ c.at = "other" => c.x # pointer

\* The page is about to be told of another conversation than the one it shows.
Behind(c) ==
    \/ c.fn = "new" /\ c.at = "answered"
    \/ c.fn = "switch" /\ c.at \in {"found", "answered"}
    \/ c.fn = "delete" /\ c.was /\ c.at \in {"create", "answered"}
    \/ c.fn = "reread"

Question(c) == [from |-> "user", q |-> c.x]
Answer(c) == [from |-> "assistant", q |-> c.x]

\* What the screen shows of the current conversation while a question is under way.
Asking(c) ==
    CASE c.at = "answered" -> page.screen \cup {Answer(c)} = Of(pointer)
      [] c.at = "saved" -> page.screen = Of(pointer)
      [] OTHER -> page.screen = Of(pointer) \cup {Question(c)}

PageShaped ==
    DOMAIN page = {"screen", "sessions", "currentSessionId", "historyLoading", "loading",
                   "startingNew", "switching", "deleting"}

PageGood ==
    /\ PageShaped
    /\ page.currentSessionId # None /\ (\A c \in calls : ~Behind(c)) =>
          /\ page.currentSessionId = pointer
          /\ (\A c \in calls : c.fn # "ask") => page.screen = Of(pointer)
          /\ \A c \in calls : c.fn = "ask" => Asking(c)
    /\ \A c \in calls : c.fn = "delete" => c.was = (c.x = page.currentSessionId)

Good == Numbered /\ Apart /\ PointerGood /\ (\A c \in calls : Works(c)) /\ PageGood
CalmInv == calm => Good

-----------------------------------------------------------------------------
(* Requests *)

LEMMA CallIs == ASSUME NEW fn, NEW x, NEW was PROVE Is(Call(fn, x, was), fn, x, was, "start", None, {})
BY DEF Call, Is

LEMMA AtEdit ==
    ASSUME NEW c, NEW at, Is(c, c.fn, c.x, c.was, c.at, c.s, c.got)
    PROVE  Is([c EXCEPT !.at = at], c.fn, c.x, c.was, at, c.s, c.got)
BY DEF Is

LEMMA WorkEdit ==
    ASSUME NEW c, NEW at, NEW s, Is(c, c.fn, c.x, c.was, c.at, c.s, c.got)
    PROVE  Is([c EXCEPT !.at = at, !.s = s], c.fn, c.x, c.was, at, s, c.got)
BY DEF Is

LEMMA GotEdit ==
    ASSUME NEW c, NEW at, NEW got, Is(c, c.fn, c.x, c.was, c.at, c.s, c.got)
    PROVE  Is([c EXCEPT !.at = at, !.got = got], c.fn, c.x, c.was, at, c.s, got)
BY DEF Is

\* Whoever is not one of the first two is alone.
LEMMA Alone == ASSUME Good, NEW c \in calls, c.fn \notin First PROVE calls = {c}
BY DEF Good, Apart

\* A conversation with messages has a number, and was not deleted.
LEMMA HasNumber == ASSUME Good, NEW s, Of(s) # {} PROVE s \in 1..minted /\ s \notin deleted /\ s # None
BY AssistantAssumption DEF Good, Numbered, Of

\* The server goes on with a request.
LEMMA SwapKeepsApart ==
    ASSUME Good, NEW c \in calls, NEW d, d.fn = c.fn, calls' = (calls \ {c}) \cup {d}
    PROVE  Apart'
BY DEF Good, Apart

LEMMA OfSame == ASSUME messages' = messages PROVE \A s : Of(s)' = Of(s)
BY DEF Of

LEMMA InitCalm == Init => CalmInv
<1> SUFFICES ASSUME Init PROVE Good
  BY DEF CalmInv
<1>1. PICK h : h = Call("history", None, FALSE)
  OBVIOUS
<1>2. PICK l : l = Call("sessions", None, FALSE)
  OBVIOUS
<1>3. Is(h, "history", None, FALSE, "start", None, {}) /\ Is(l, "sessions", None, FALSE, "start", None, {})
  BY <1>1, <1>2, CallIs
<1>4. calls = {h, l} /\ messages = {} /\ pointer = None /\ minted = 0 /\ deleted = {}
  BY <1>1, <1>2 DEF Init
<1>5. page.currentSessionId = None /\ PageShaped
  BY DEF Init, PageShaped
<1>6. Numbered /\ PointerGood
  BY <1>4, AssistantAssumption DEF Numbered, PointerGood
<1>7. Apart
  BY <1>3, <1>4 DEF Apart, Is, First
<1>8. \A c \in calls : Works(c)
  BY <1>3, <1>4 DEF Works, Is, Fns
<1>9. PageGood
  BY <1>3, <1>4, <1>5 DEF PageGood, Is
<1> QED
  BY <1>6, <1>7, <1>8, <1>9 DEF Good

-----------------------------------------------------------------------------
(* The server *)

\* A handler goes on, and changes nothing but what it knows itself.
LEMMA QuietStep ==
    ASSUME Good, NEW c \in calls, NEW d, calls' = (calls \ {c}) \cup {d}, UNCHANGED <<server, page>>,
           Works(d), d.fn = c.fn, d.x = c.x, d.was = c.was, Behind(d) <=> Behind(c),
           ~(c.fn = "delete" /\ c.at = "create"), c.fn = "ask" => (Asking(c) => Asking(d))
    PROVE  Good'
<1>1. UNCHANGED <<messages, pointer, minted, deleted, page>> /\ \A s : Of(s)' = Of(s)
  BY OfSame DEF server
<1>2. Numbered' /\ Apart'
  BY <1>1, SwapKeepsApart DEF Good, Numbered
<1>3. PointerGood'
  BY <1>1 DEF Good, PointerGood
<1>4. \A e \in calls' : Works(e)'
  BY <1>1 DEF Good, Works
<1>5. PageGood'
  <2>1. \A e \in calls' : e.fn = "delete" => e.was = (e.x = page'.currentSessionId)
    BY <1>1 DEF Good, PageGood
  <2>2. (\A e \in calls' : ~Behind(e)') => \A e \in calls : ~Behind(e)
    BY DEF Behind
  <2>3. (\A e \in calls' : e.fn # "ask") => \A e \in calls : e.fn # "ask"
    OBVIOUS
  <2>4. \A e : Asking(e)' <=> Asking(e)
    BY <1>1 DEF Asking
  <2> QED
    BY <1>1, <2>1, <2>2, <2>3, <2>4 DEF Good, PageGood, PageShaped
<1> QED
  BY <1>2, <1>3, <1>4, <1>5 DEF Good

LEMMA find_sessionCalm == ASSUME Good, NEW c \in calls, find_session(c), UNCHANGED page PROVE Good'
<1>1. Works(c) /\ c.at = "start" /\ c.fn \in {"history", "reread", "sessions", "ask"} /\ UNCHANGED server
  BY DEF find_session, Good
<1>2. PICK d : d = IF pointer = None THEN [c EXCEPT !.at = "create"] ELSE [c EXCEPT !.at = "found", !.s = pointer]
  OBVIOUS
<1>3. calls' = (calls \ {c}) \cup {d}
  BY <1>2 DEF find_session, Move
<1>4. \/ pointer = None /\ Is(d, c.fn, c.x, c.was, "create", c.s, c.got)
      \/ pointer # None /\ Is(d, c.fn, c.x, c.was, "found", pointer, c.got)
  BY <1>1, <1>2, AtEdit, WorkEdit DEF Works
<1>5. /\ Works(d) /\ d.fn = c.fn /\ d.x = c.x /\ d.was = c.was /\ d.at \in {"create", "found"}
  BY <1>1, <1>4 DEF Works, Is
<1>6. (Behind(d) <=> Behind(c)) /\ (Asking(c) => Asking(d))
  BY <1>1, <1>5 DEF Behind, Asking, Question
<1> QED
  BY <1>1, <1>3, <1>5, <1>6, QuietStep

LEMMA historyCalm == ASSUME Good, NEW c \in calls, history(c), UNCHANGED page PROVE Good'
<1>1. Works(c) /\ c.at = "found" /\ c.fn \in {"history", "reread", "switch"} /\ UNCHANGED server
  BY DEF history, Good
<1>2. PICK d : d = [c EXCEPT !.at = "answered", !.got = Of(c.s)]
  OBVIOUS
<1>3. calls' = (calls \ {c}) \cup {d}
  BY <1>2 DEF history, Answers, Move
<1>4. Is(d, c.fn, c.x, c.was, "answered", c.s, Of(c.s))
  BY <1>1, <1>2, GotEdit DEF Works
<1>5. Works(d) /\ d.fn = c.fn /\ d.x = c.x /\ d.was = c.was /\ d.at = "answered"
  BY <1>1, <1>4 DEF Works, Is
<1>6. Behind(d) <=> Behind(c)
  BY <1>1, <1>5 DEF Behind
<1> QED
  BY <1>1, <1>3, <1>5, <1>6, QuietStep

LEMMA list_sessionsCalm == ASSUME Good, NEW c \in calls, list_sessions(c), UNCHANGED page PROVE Good'
<1>1. Works(c) /\ c.at = "found" /\ c.fn = "sessions" /\ UNCHANGED server
  BY DEF list_sessions, Good
<1>2. PICK d : d = [c EXCEPT !.at = "answered", !.got = {m.session : m \in messages}]
  OBVIOUS
<1>3. calls' = (calls \ {c}) \cup {d}
  BY <1>2 DEF list_sessions, Answers, Move
<1>4. Is(d, c.fn, c.x, c.was, "answered", c.s, {m.session : m \in messages})
  BY <1>1, <1>2, GotEdit DEF Works
<1>5. Works(d) /\ d.fn = c.fn /\ d.x = c.x /\ d.was = c.was
  BY <1>1, <1>4 DEF Works, Is
<1>6. Behind(d) <=> Behind(c)
  BY <1>1, <1>5 DEF Behind
<1> QED
  BY <1>1, <1>3, <1>5, <1>6, QuietStep

\* With calm' the conversation is there.
LEMMA session_belongs_to_userCalm ==
    ASSUME Good, NEW c \in calls, session_belongs_to_user(c), UNCHANGED page, calm'
    PROVE  Good'
<1>1. Works(c) /\ c.at = "start" /\ c.fn \in {"switch", "delete"} /\ UNCHANGED server
  BY DEF session_belongs_to_user, Good
<1>2. Of(c.x) # {} /\ Goes(c, "owned")
  BY DEF session_belongs_to_user
<1>3. PICK d : d = [c EXCEPT !.at = "owned"]
  OBVIOUS
<1>4. calls' = (calls \ {c}) \cup {d}
  BY <1>2, <1>3 DEF Goes, Move
<1>5. Is(d, c.fn, c.x, c.was, "owned", c.s, c.got)
  BY <1>1, <1>3, AtEdit DEF Works
<1>6. Works(d) /\ d.fn = c.fn /\ d.x = c.x /\ d.was = c.was /\ d.at = "owned"
  BY <1>1, <1>2, <1>5 DEF Works, Is
<1>7. Behind(d) <=> Behind(c)
  BY <1>1, <1>6 DEF Behind
<1> QED
  BY <1>1, <1>4, <1>6, <1>7, QuietStep

LEMMA is_current_sessionCalm ==
    ASSUME Good, NEW c \in calls, is_current_session(c), UNCHANGED page
    PROVE  Good'
<1>1. Works(c) /\ c.at = "owned" /\ c.fn = "delete" /\ UNCHANGED server
  BY DEF is_current_session, Good
<1>2. PICK at : at = IF pointer = c.x THEN "current" ELSE "other"
  OBVIOUS
<1>3. PICK d : d = [c EXCEPT !.at = at]
  OBVIOUS
<1>4. calls' = (calls \ {c}) \cup {d}
  BY <1>2, <1>3 DEF is_current_session, Goes, Move
<1>5. Is(d, c.fn, c.x, c.was, at, c.s, c.got)
  BY <1>1, <1>3, AtEdit DEF Works
<1>6. Works(d) /\ d.fn = c.fn /\ d.x = c.x /\ d.was = c.was /\ d.at \in {"current", "other"}
  BY <1>1, <1>2, <1>5 DEF Works, Is
<1>7. Behind(d) <=> Behind(c)
  BY <1>1, <1>6 DEF Behind
<1> QED
  BY <1>1, <1>4, <1>6, <1>7, QuietStep

\* A new conversation has a number that nothing has yet.
LEMMA start_new_sessionCalm ==
    ASSUME Good, NEW c \in calls, start_new_session(c), UNCHANGED page, calm'
    PROVE  Good'
<1>1. Works(c) /\ (c.at = "create" \/ (c.at = "start" /\ c.fn = "new"))
  BY DEF start_new_session, Good
<1>2. c.fn \in {"new", "delete"} \/ pointer = None
  <2>1. calm' = (calm /\ (c.fn \in {"new", "delete"} \/ pointer = None))
    BY DEF start_new_session
  <2> QED
    BY <2>1, Zenon
<1>3. PICK k : k = minted + 1
  OBVIOUS
<1>4. minted' = k /\ pointer' = k /\ UNCHANGED <<messages, deleted, page>> /\ \A s : Of(s)' = Of(s)
  BY <1>3, OfSame DEF start_new_session
<1>5. k \in Nat /\ 1..minted \subseteq 1..k /\ k \in 1..k /\ k \notin 1..minted /\ k # None
  BY <1>3, AssistantAssumption DEF Good, Numbered
<1>6. PICK at : at = IF c.fn \in {"new", "delete"} THEN "answered" ELSE "found"
  OBVIOUS
<1>7. PICK d : d = [c EXCEPT !.at = at, !.s = k]
  OBVIOUS
<1>8. calls' = (calls \ {c}) \cup {d}
  BY <1>3, <1>6, <1>7 DEF start_new_session, Move
<1>9. Is(d, c.fn, c.x, c.was, at, k, c.got)
  BY <1>1, <1>7, WorkEdit DEF Works
<1>10. Numbered' /\ Apart' /\ PointerGood'
  <2>1. Numbered'
    BY <1>4, <1>5 DEF Good, Numbered
  <2>2. Apart'
    BY <1>8, <1>9, SwapKeepsApart DEF Is
  <2>3. PointerGood'
    BY <1>4, <1>5 DEF Good, Numbered, PointerGood
  <2> QED
    BY <2>1, <2>2, <2>3
<1>11. Works(d)'
  BY <1>1, <1>4, <1>5, <1>6, <1>9 DEF Works, Is
<1>12. \A e \in calls \ {c} : Works(e)'
  <2> SUFFICES ASSUME NEW e \in calls \ {c} PROVE Works(e)'
    OBVIOUS
  <2>1. Works(e) /\ e.fn \in First /\ c.fn \in First /\ pointer = None
    BY <1>2 DEF Good, Apart, First
  <2> QED
    BY <1>4, <2>1 DEF Works, First
<1>13. PageGood'
  <2>1. \A e \in calls' : e.fn = "delete" => e.was = (e.x = page'.currentSessionId)
    BY <1>4, <1>8, <1>9 DEF Good, PageGood, Is
  <2>2. ASSUME page.currentSessionId # None, \A e \in calls' : ~Behind(e)'
        PROVE  FALSE
    <3>1. c.fn \notin {"new", "reread"} /\ ~(c.fn = "delete" /\ c.was)
      BY <1>6, <1>8, <1>9, <2>2 DEF Behind, Is
    <3>2. \A e \in calls : ~Behind(e)
      BY <1>1, <1>8, <2>2, <3>1 DEF Behind
    <3>3. page.currentSessionId = pointer
      BY <2>2, <3>2 DEF Good, PageGood
    <3>4. c.fn = "delete" /\ c.at = "create"
      BY <1>1, <1>2, <2>2, <3>1, <3>3
    <3>5. c.x = pointer
      BY <1>1, <3>4 DEF Works
    <3> QED
      BY <3>1, <3>3, <3>4, <3>5 DEF Good, PageGood
  <2> QED
    BY <1>4, <2>1, <2>2 DEF Good, PageGood, PageShaped
<1> QED
  BY <1>8, <1>10, <1>11, <1>12, <1>13 DEF Good

\* A message is saved to the current conversation, which then has one more.
LEMMA OfGrows ==
    ASSUME NEW s, NEW f, NEW x, messages' = messages \cup {[session |-> s, from |-> f, q |-> x]}
    PROVE  Of(s)' = Of(s) \cup {[from |-> f, q |-> x]}
<1> DEFINE new == [session |-> s, from |-> f, q |-> x]
<1>1. new.session = s /\ new.from = f /\ new.q = x
  OBVIOUS
<1>2. messages' = messages \cup {new}
  OBVIOUS
<1> HIDE DEF new
<1>3. \A o : o \in Of(s)' <=> \E m \in messages' : m.session = s /\ o = [from |-> m.from, q |-> m.q]
  BY DEF Of
<1>4. \A o : o \in Of(s) <=> \E m \in messages : m.session = s /\ o = [from |-> m.from, q |-> m.q]
  BY DEF Of
<1> QED
  BY <1>1, <1>2, <1>3, <1>4

\* Nobody deletes while a question is under way, as the user waits.
LEMMA askCalm == ASSUME Good, NEW c \in calls, ask(c), UNCHANGED page PROVE Good'
<1>1. Works(c) /\ c.fn = "ask" /\ c.at \in {"found", "saved"} /\ UNCHANGED <<pointer, minted, deleted, page>>
  BY DEF ask, Good
<1>2. calls = {c} /\ c.s = pointer /\ pointer # None /\ pointer \notin deleted /\ pointer \in 1..minted
  BY <1>1, Alone DEF First, Works, Good, PointerGood, Numbered
<1>3. PICK at : at = IF c.at = "found" THEN "saved" ELSE "answered"
  OBVIOUS
<1>4. PICK f : f = IF c.at = "found" THEN "user" ELSE "assistant"
  OBVIOUS
<1>5. PICK d : d = [c EXCEPT !.at = at]
  OBVIOUS
<1>6. /\ messages' = messages \cup {[session |-> pointer, from |-> f, q |-> c.x]}
      /\ calls' = (calls \ {c}) \cup {d}
  BY <1>1, <1>2, <1>3, <1>4, <1>5 DEF ask, Goes, Move
<1>7. Is(d, c.fn, c.x, c.was, at, c.s, c.got)
  BY <1>1, <1>5, AtEdit DEF Works
<1>8. Of(pointer)' = Of(pointer) \cup {[from |-> f, q |-> c.x]}
  <2>1. PICK p : p = pointer
    OBVIOUS
  <2>2. Of(p)' = Of(p) \cup {[from |-> f, q |-> c.x]}
    BY <1>6, <2>1, OfGrows
  <2> QED
    BY <1>1, <2>1, <2>2 DEF Of
<1>9. Numbered' /\ Apart' /\ PointerGood'
  <2>1. Numbered'
    <3> DEFINE new == [session |-> pointer, from |-> f, q |-> c.x]
    <3>1. new.session = pointer
      OBVIOUS
    <3>2. messages' = messages \cup {new}
      BY <1>6
    <3> HIDE DEF new
    <3> QED
      BY <1>1, <1>2, <3>1, <3>2 DEF Good, Numbered
  <2>2. Apart'
    BY <1>6, <1>7, SwapKeepsApart DEF Is
  <2>3. PointerGood'
    BY <1>1, <1>2 DEF PointerGood
  <2> QED
    BY <2>1, <2>2, <2>3
<1>10. calls' = {d} /\ d.fn = "ask" /\ d.x = c.x /\ d.at = at /\ at \in {"saved", "answered"}
  BY <1>1, <1>2, <1>3, <1>6, <1>7 DEF Is
<1>11. Works(d)'
  BY <1>1, <1>2, <1>7, <1>10 DEF Works, Is, Fns
<1>12. PageGood'
  <2>1. ASSUME page.currentSessionId # None
        PROVE  page.currentSessionId = pointer /\ Asking(c)
    <3>1. ~Behind(c)
      BY <1>1 DEF Behind
    <3> QED
      BY <1>1, <1>2, <2>1, <3>1 DEF Good, PageGood
  <2>2. Asking(c) => Asking(d)'
    <3>1. CASE c.at = "found"
      BY <1>1, <1>3, <1>4, <1>8, <1>10, <3>1 DEF Asking, Question
    <3>2. CASE c.at = "saved"
      BY <1>1, <1>3, <1>4, <1>8, <1>10, <3>2 DEF Asking, Answer
    <3> QED
      BY <1>1, <3>1, <3>2
  <2> QED
    BY <1>1, <1>10, <2>1, <2>2 DEF Good, PageGood, PageShaped
<1> QED
  BY <1>9, <1>10, <1>11, <1>12 DEF Good

LEMMA switch_sessionCalm == ASSUME Good, NEW c \in calls, switch_session(c), UNCHANGED page PROVE Good'
<1>1. /\ Works(c) /\ c.fn = "switch" /\ c.at = "owned" /\ pointer' = c.x
      /\ UNCHANGED <<messages, minted, deleted, page>>
  BY DEF switch_session, Good
<1>2. calls = {c} /\ c.x \in 1..minted /\ c.x \notin deleted /\ c.x # None
  BY <1>1, Alone, HasNumber DEF First, Works
<1>3. PICK d : d = [c EXCEPT !.at = "found", !.s = c.x]
  OBVIOUS
<1>4. calls' = {d}
  BY <1>2, <1>3 DEF switch_session, Move
<1>5. Is(d, c.fn, c.x, c.was, "found", c.x, c.got)
  BY <1>1, <1>3, WorkEdit DEF Works
<1>6. Numbered' /\ Apart' /\ PointerGood'
  BY <1>1, <1>2, <1>4 DEF Good, Numbered, Apart, PointerGood
<1>7. Works(d)' /\ Behind(d) /\ d.fn = "switch"
  BY <1>1, <1>2, <1>5 DEF Works, Is, Behind
<1>8. PageGood'
  BY <1>1, <1>4, <1>7 DEF Good, PageGood, PageShaped, Behind
<1> QED
  BY <1>4, <1>6, <1>7, <1>8 DEF Good

\* When the current conversation goes, the page showed it, or none.
LEMMA delete_sessionCalm == ASSUME Good, NEW c \in calls, delete_session(c), UNCHANGED page PROVE Good'
<1>1. /\ Works(c) /\ c.fn = "delete" /\ c.at \in {"current", "other"}
      /\ messages' = {m \in messages : m.session # c.x} /\ deleted' = deleted \cup {c.x}
      /\ UNCHANGED <<pointer, minted, page>>
  BY DEF delete_session, Good
<1>2. calls = {c} /\ c.x \in 1..minted /\ c.x # None
  BY <1>1, Alone, HasNumber DEF First, Works
<1>3. PICK at : at = IF c.at = "current" THEN "create" ELSE "answered"
  OBVIOUS
<1>4. PICK d : d = [c EXCEPT !.at = at]
  OBVIOUS
<1>5. calls' = {d}
  BY <1>2, <1>3, <1>4 DEF delete_session, Goes, Move
<1>6. Is(d, c.fn, c.x, c.was, at, c.s, c.got)
  BY <1>1, <1>4, AtEdit DEF Works
<1>7. Numbered' /\ Apart'
  BY <1>1, <1>2, <1>5 DEF Good, Numbered, Apart
<1>8. (c.at = "current" <=> c.x = pointer) /\ (c.at = "other" <=> c.x # pointer)
  BY <1>1 DEF Works
<1>9. PointerGood'
  BY <1>1, <1>2, <1>3, <1>5, <1>6, <1>8 DEF Good, PointerGood, Is
<1>10. Works(d)'
  BY <1>1, <1>3, <1>6, <1>8 DEF Works, Is
<1>11. c.x # pointer => Of(pointer)' = Of(pointer)
  BY <1>1 DEF Of
<1>12. ~Behind(c) /\ c.was = (c.x = page.currentSessionId)
  BY <1>1 DEF Good, PageGood, Behind
<1>13. page.currentSessionId # None => page.currentSessionId = pointer /\ page.screen = Of(pointer)
  BY <1>1, <1>2, <1>12 DEF Good, PageGood
<1>14. PageGood'
  <2>1. page.currentSessionId # None /\ ~Behind(d) => c.x # pointer
    BY <1>1, <1>3, <1>6, <1>8, <1>12, <1>13 DEF Behind, Is
  <2>2. Behind(d)' <=> Behind(d)
    BY DEF Behind
  <2>3. d.fn = "delete" /\ d.was = c.was /\ d.x = c.x
    BY <1>1, <1>6 DEF Is
  <2>4. page.currentSessionId # None /\ ~Behind(d) => page.currentSessionId = pointer /\ page.screen = Of(pointer)'
    BY <1>11, <1>13, <2>1
  <2> QED
    BY <1>1, <1>5, <1>12, <2>2, <2>3, <2>4 DEF Good, PageGood, PageShaped
<1> QED
  BY <1>5, <1>7, <1>9, <1>10, <1>14 DEF Good

LEMMA ServerCalm == ASSUME Good, NEW c \in calls, Server(c), calm' PROVE Good'
<1>1. UNCHANGED page
  BY DEF Server
<1> QED
  BY <1>1, find_sessionCalm, start_new_sessionCalm, historyCalm, list_sessionsCalm, askCalm,
     session_belongs_to_userCalm, switch_sessionCalm, is_current_sessionCalm, delete_sessionCalm DEF Server

-----------------------------------------------------------------------------
(* The page *)

\* The user does something: nothing else is under way, and the page shows what is current.
LEMMA ActCalm ==
    ASSUME Good, NEW cells, NEW d, Act(cells, d), calm',
           NEW fn \in Fns, NEW x, NEW was, Is(d, fn, x, was, "start", None, {}),
           fn = "delete" => was = (x = page.currentSessionId), fn # "reread",
           DOMAIN cells = DOMAIN page, cells.currentSessionId = page.currentSessionId,
           cells.screen = IF fn = "ask" THEN page.screen \cup {[from |-> "user", q |-> x]} ELSE page.screen
    PROVE  Good'
<1>1. calls = {}
  <2>1. calm' = (calm /\ calls = {})
    BY DEF Act
  <2> QED
    BY <2>1, Zenon
<1>2. page' = cells /\ calls' = {d} /\ UNCHANGED <<messages, pointer, minted, deleted>> /\ \A s : Of(s)' = Of(s)
  BY <1>1, OfSame DEF Act, server
<1>3. Numbered' /\ Apart' /\ PointerGood'
  BY <1>1, <1>2 DEF Good, Numbered, Apart, PointerGood
<1>4. Works(d)' /\ ~Behind(d)'
  BY DEF Works, Is, Behind
<1>5. page.currentSessionId # None => page.currentSessionId = pointer /\ page.screen = Of(pointer)
  BY <1>1 DEF Good, PageGood
<1>6. PageGood'
  <2>1. fn = "ask" /\ page.currentSessionId # None => Asking(d)'
    BY <1>2, <1>5 DEF Asking, Question, Is
  <2>2. PageShaped'
    BY <1>2 DEF Good, PageGood, PageShaped
  <2>3. d.fn = fn /\ d.was = was /\ d.x = x
    BY DEF Is
  <2> QED
    BY <1>2, <1>5, <2>1, <2>2, <2>3 DEF PageGood
<1> QED
  BY <1>2, <1>3, <1>4, <1>6 DEF Good

LEMMA sendCalm == ASSUME Good, send, calm' PROVE Good'
<1>1. PICK n : n = asked'
  OBVIOUS
<1>2. PICK cells : cells = [page EXCEPT !.loading = TRUE, !.screen = page.screen \cup {[from |-> "user", q |-> n]}]
  OBVIOUS
<1>3. PICK d : d = Call("ask", n, FALSE)
  OBVIOUS
<1>4. Is(d, "ask", n, FALSE, "start", None, {})
  BY <1>3, CallIs
<1>5. /\ DOMAIN cells = DOMAIN page /\ cells.currentSessionId = page.currentSessionId
      /\ cells.screen = page.screen \cup {[from |-> "user", q |-> n]}
  BY <1>2 DEF Good, PageGood, PageShaped
<1>6. Act(cells, d)
  BY <1>1, <1>2, <1>3 DEF send
<1>7. "ask" \in Fns
  BY DEF Fns
<1>8. PICK fn : fn = "ask"
  OBVIOUS
<1> QED
  BY <1>4, <1>5, <1>6, <1>7, <1>8, ActCalm

LEMMA startNewConversationCalm == ASSUME Good, startNewConversation, calm' PROVE Good'
<1>1. PICK cells : cells = [page EXCEPT !.startingNew = TRUE]
  OBVIOUS
<1>2. PICK d : d = Call("new", None, FALSE)
  OBVIOUS
<1>3. Is(d, "new", None, FALSE, "start", None, {})
  BY <1>2, CallIs
<1>4. /\ DOMAIN cells = DOMAIN page /\ cells.currentSessionId = page.currentSessionId
      /\ cells.screen = page.screen
  BY <1>1 DEF Good, PageGood, PageShaped
<1>5. Act(cells, d)
  BY <1>1, <1>2 DEF startNewConversation
<1>6. "new" \in Fns
  BY DEF Fns
<1>7. PICK fn : fn = "new"
  OBVIOUS
<1> QED
  BY <1>3, <1>4, <1>5, <1>6, <1>7, ActCalm

LEMMA switchToSessionCalm == ASSUME Good, NEW s, switchToSession(s), calm' PROVE Good'
<1>1. PICK cells : cells = [page EXCEPT !.switching = TRUE]
  OBVIOUS
<1>2. PICK d : d = Call("switch", s, FALSE)
  OBVIOUS
<1>3. Is(d, "switch", s, FALSE, "start", None, {})
  BY <1>2, CallIs
<1>4. /\ DOMAIN cells = DOMAIN page /\ cells.currentSessionId = page.currentSessionId
      /\ cells.screen = page.screen
  BY <1>1 DEF Good, PageGood, PageShaped
<1>5. Act(cells, d)
  BY <1>1, <1>2 DEF switchToSession
<1>6. "switch" \in Fns
  BY DEF Fns
<1>7. PICK fn : fn = "switch"
  OBVIOUS
<1> QED
  BY <1>3, <1>4, <1>5, <1>6, <1>7, ActCalm

LEMMA deleteConversationCalm == ASSUME Good, NEW s, deleteConversation(s), calm' PROVE Good'
<1>1. PICK cells : cells = [page EXCEPT !.deleting = TRUE]
  OBVIOUS
<1>2. PICK was : was = (s = page.currentSessionId)
  OBVIOUS
<1>3. PICK d : d = Call("delete", s, was)
  OBVIOUS
<1>4. Is(d, "delete", s, was, "start", None, {})
  BY <1>3, CallIs
<1>5. /\ DOMAIN cells = DOMAIN page /\ cells.currentSessionId = page.currentSessionId
      /\ cells.screen = page.screen
  BY <1>1 DEF Good, PageGood, PageShaped
<1>6. Act(cells, d)
  BY <1>1, <1>2, <1>3 DEF deleteConversation
<1>7. "delete" \in Fns
  BY DEF Fns
<1>8. PICK fn : fn = "delete"
  OBVIOUS
<1> QED
  BY <1>2, <1>4, <1>5, <1>6, <1>7, <1>8, ActCalm

\* The answer of the last request is taken, and perhaps the list of conversations asked for.
LEMMA TakeAlone ==
    ASSUME Good, NEW c \in calls, calls = {c}, NEW cells, NEW more, Take(c, cells, more),
           more = {} \/ \E d : /\ more = {d} /\ d.fn \in {"sessions", "reread"}
                               /\ Is(d, d.fn, d.x, d.was, "start", d.s, d.got),
           DOMAIN cells = DOMAIN page,
           cells.currentSessionId # None => \/ \E d \in more : d.fn = "reread"
                                            \/ cells.currentSessionId = pointer /\ cells.screen = Of(pointer),
           ~(c.fn = "delete" /\ c.at = "create")
    PROVE  Good'
<1>1. page' = cells /\ calls' = more /\ UNCHANGED <<messages, pointer, minted, deleted>> /\ \A s : Of(s)' = Of(s)
  BY OfSame DEF Take, server
<1>2. Numbered' /\ Apart'
  BY <1>1 DEF Good, Numbered, Apart
<1>3. PointerGood'
  BY <1>1 DEF Good, PointerGood
<1>4. \A d \in more : d.fn \in {"sessions", "reread"} /\ Is(d, d.fn, d.x, d.was, "start", d.s, d.got)
  OBVIOUS
<1>5. \A d \in calls' : Works(d)'
  BY <1>1, <1>4 DEF Works, Is, Fns
<1>6. PageGood'
  <2>1. \A d \in calls' : d.fn # "delete" /\ d.fn # "ask" /\ (d.fn = "reread" => Behind(d)')
    BY <1>1, <1>4 DEF Behind
  <2>2. PageShaped'
    BY <1>1 DEF Good, PageGood, PageShaped
  <2> QED
    BY <1>1, <2>1, <2>2 DEF PageGood
<1> QED
  BY <1>2, <1>3, <1>5, <1>6 DEF Good

\* One of the first two is answered while the other may be under way.
LEMMA TakeFirst ==
    ASSUME Good, NEW c \in calls, c.fn \in First, NEW cells, Take(c, cells, {}),
           DOMAIN cells = DOMAIN page,
           \/ cells.currentSessionId = page.currentSessionId /\ cells.screen = page.screen
           \/ cells.currentSessionId = pointer /\ cells.screen = Of(pointer)
    PROVE  Good'
<1>1. page' = cells /\ calls' = calls \ {c} /\ UNCHANGED <<messages, pointer, minted, deleted>>
      /\ \A s : Of(s)' = Of(s)
  BY OfSame DEF Take, server
<1>2. \A d \in calls : d.fn \in First
  BY DEF Good, Apart
<1>3. Numbered' /\ Apart' /\ PointerGood'
  BY <1>1, <1>2 DEF Good, Numbered, Apart, PointerGood, First
<1>4. \A d \in calls' : Works(d)'
  BY <1>1 DEF Good, Works
<1>5. PageGood'
  <2>1. \A d \in calls : ~Behind(d) /\ d.fn # "ask" /\ d.fn # "delete"
    BY <1>2 DEF Behind, First
  <2>2. PageShaped'
    BY <1>1 DEF Good, PageGood, PageShaped
  <2>3. page.currentSessionId # None => page.currentSessionId = pointer /\ page.screen = Of(pointer)
    BY <2>1 DEF Good, PageGood
  <2> QED
    BY <1>1, <2>1, <2>2, <2>3 DEF PageGood
<1> QED
  BY <1>3, <1>4, <1>5 DEF Good

LEMMA takeHistoryCalm == ASSUME Good, NEW c \in calls, c.at = "answered", takeHistory(c) PROVE Good'
<1>1. c.fn = "history" /\ c.fn \in First /\ c.s = pointer /\ c.got = Of(pointer)
  BY DEF takeHistory, First, Good, Works
<1>2. PICK cells : cells = [Shows(c) EXCEPT !.historyLoading = FALSE]
  OBVIOUS
<1>3. DOMAIN cells = DOMAIN page /\ cells.currentSessionId = c.s /\ cells.screen = c.got
  BY <1>2 DEF Good, PageGood, PageShaped, Shows
<1>4. Take(c, cells, {})
  BY <1>2 DEF takeHistory
<1> QED
  BY <1>1, <1>3, <1>4, TakeFirst

LEMMA takeSessionsCalm == ASSUME Good, NEW c \in calls, takeSessions(c) PROVE Good'
<1>1. c.fn \in First
  BY DEF takeSessions, First
<1>2. PICK cells : cells = [page EXCEPT !.sessions = c.got]
  OBVIOUS
<1>3. DOMAIN cells = DOMAIN page /\ cells.currentSessionId = page.currentSessionId /\ cells.screen = page.screen
  BY <1>2 DEF Good, PageGood, PageShaped
<1>4. Take(c, cells, {})
  BY <1>2 DEF takeSessions
<1> QED
  BY <1>1, <1>3, <1>4, TakeFirst

LEMMA refreshSessionsIs ==
    \E d : refreshSessions = {d} /\ d.fn \in {"sessions", "reread"} /\ Is(d, d.fn, d.x, d.was, "start", d.s, d.got)
<1>1. PICK d : d = Call("sessions", None, FALSE)
  OBVIOUS
<1>2. Is(d, "sessions", None, FALSE, "start", None, {})
  BY <1>1, CallIs
<1> QED
  BY <1>1, <1>2 DEF refreshSessions, Is

LEMMA takeAnswerCalm == ASSUME Good, NEW c \in calls, c.at = "answered", takeAnswer(c) PROVE Good'
<1>1. c.fn = "ask" /\ calls = {c}
  BY Alone DEF takeAnswer, First
<1>2. PICK cells : cells = [page EXCEPT !.loading = FALSE,
                                        !.screen = page.screen \cup {[from |-> "assistant", q |-> c.x]}]
  OBVIOUS
<1>3. /\ DOMAIN cells = DOMAIN page /\ cells.currentSessionId = page.currentSessionId
      /\ cells.screen = page.screen \cup {Answer(c)}
  BY <1>2 DEF Good, PageGood, PageShaped, Answer
<1>4. page.currentSessionId # None => page.currentSessionId = pointer /\ Asking(c)
  BY <1>1 DEF Good, PageGood, Behind
<1>5. cells.currentSessionId # None => cells.currentSessionId = pointer /\ cells.screen = Of(pointer)
  BY <1>3, <1>4, c.at = "answered" DEF Asking
<1>6. Take(c, cells, refreshSessions)
  BY <1>2 DEF takeAnswer
<1>7. ~(c.fn = "delete" /\ c.at = "create")
  BY <1>1
<1> QED
  BY <1>1, <1>3, <1>5, <1>6, <1>7, refreshSessionsIs, TakeAlone

LEMMA takeNewCalm == ASSUME Good, NEW c \in calls, takeNew(c) PROVE Good'
<1>1. c.fn = "new" /\ calls = {c}
  BY Alone DEF takeNew, First
<1>2. PICK cells : cells = [page EXCEPT !.startingNew = FALSE, !.screen = {}, !.currentSessionId = None]
  OBVIOUS
<1>3. DOMAIN cells = DOMAIN page /\ cells.currentSessionId = None
  BY <1>2 DEF Good, PageGood, PageShaped
<1>4. Take(c, cells, refreshSessions)
  BY <1>2 DEF takeNew
<1>5. ~(c.fn = "delete" /\ c.at = "create")
  BY <1>1
<1> QED
  BY <1>1, <1>3, <1>4, <1>5, refreshSessionsIs, TakeAlone

LEMMA takeSwitchCalm == ASSUME Good, NEW c \in calls, c.at = "answered", takeSwitch(c) PROVE Good'
<1>1. c.fn = "switch" /\ calls = {c} /\ c.s = pointer /\ c.got = Of(pointer)
  BY Alone DEF takeSwitch, First, Good, Works
<1>2. PICK cells : cells = [Shows(c) EXCEPT !.switching = FALSE]
  OBVIOUS
<1>3. DOMAIN cells = DOMAIN page /\ cells.currentSessionId = c.s /\ cells.screen = c.got
  BY <1>2 DEF Good, PageGood, PageShaped, Shows
<1>4. Take(c, cells, {})
  BY <1>2 DEF takeSwitch
<1>5. ~(c.fn = "delete" /\ c.at = "create")
  BY <1>1
<1>6. PICK more : more = {}
  OBVIOUS
<1> QED
  BY <1>1, <1>3, <1>4, <1>5, <1>6, TakeAlone

\* What was current and open is read again; what was not leaves the page as it is.
LEMMA takeDeleteCalm == ASSUME Good, NEW c \in calls, c.at = "answered", takeDelete(c) PROVE Good'
<1>1. c.fn \in {"delete", "reread"} /\ calls = {c}
  BY Alone DEF takeDelete, First
<1>2. ~(c.fn = "delete" /\ c.at = "create")
  OBVIOUS
<1>3. CASE c.was /\ c.fn = "delete"
  <2>1. PICK d : d = Call("reread", c.x, TRUE)
    OBVIOUS
  <2>2. Is(d, "reread", c.x, TRUE, "start", None, {})
    BY <2>1, CallIs
  <2>3. d.fn = "reread" /\ Is(d, d.fn, d.x, d.was, "start", d.s, d.got)
    BY <2>2 DEF Is
  <2>4. PICK more : more = {d}
    OBVIOUS
  <2>5. Take(c, page, more)
    BY <1>3, <2>1, <2>4 DEF takeDelete
  <2>6. /\ \E e : more = {e} /\ e.fn \in {"sessions", "reread"} /\ Is(e, e.fn, e.x, e.was, "start", e.s, e.got)
        /\ \E e \in more : e.fn = "reread"
    BY <2>3, <2>4
  <2>7. PICK cells : cells = page
    OBVIOUS
  <2> QED
    BY <1>1, <1>2, <2>5, <2>6, <2>7, TakeAlone
<1>4. CASE ~c.was /\ c.fn = "delete"
  <2>1. PICK cells : cells = [page EXCEPT !.deleting = FALSE, !.sessions = page.sessions \ {c.x}]
    OBVIOUS
  <2>2. DOMAIN cells = DOMAIN page /\ cells.currentSessionId = page.currentSessionId /\ cells.screen = page.screen
    BY <2>1 DEF Good, PageGood, PageShaped
  <2>3. Take(c, cells, {})
    BY <1>4, <2>1 DEF takeDelete
  <2>4. page.currentSessionId # None => page.currentSessionId = pointer /\ page.screen = Of(pointer)
    BY <1>1, <1>4 DEF Good, PageGood, Behind
  <2>5. PICK more : more = {}
    OBVIOUS
  <2> QED
    BY <1>1, <1>2, <2>2, <2>3, <2>4, <2>5, TakeAlone
<1>5. CASE c.fn = "reread"
  <2>1. PICK cells : cells = [Shows(c) EXCEPT !.deleting = FALSE, !.sessions = Shows(c).sessions \ {c.x}]
    OBVIOUS
  <2>2. DOMAIN cells = DOMAIN page /\ cells.currentSessionId = c.s /\ cells.screen = c.got
    BY <2>1 DEF Good, PageGood, PageShaped, Shows
  <2>3. Take(c, cells, {})
    BY <1>5, <2>1 DEF takeDelete
  <2>4. c.s = pointer /\ c.got = Of(pointer)
    BY <1>5 DEF Good, Works
  <2>5. PICK more : more = {}
    OBVIOUS
  <2> QED
    BY <1>1, <1>2, <2>2, <2>3, <2>4, <2>5, TakeAlone
<1> QED
  BY <1>1, <1>3, <1>4, <1>5

LEMMA TakesCalm == ASSUME Good, NEW c \in calls, Takes(c) PROVE Good'
<1>1. c.at = "answered"
  BY DEF Takes, Good, Works
<1> QED
  BY <1>1, takeHistoryCalm, takeSessionsCalm, takeAnswerCalm, takeNewCalm, takeSwitchCalm, takeDeleteCalm
  DEF Takes

-----------------------------------------------------------------------------
(* Theorems *)

LEMMA NextCalm == CalmInv /\ [Next]_vars => CalmInv'
<1> SUFFICES ASSUME CalmInv, [Next]_vars, calm' PROVE Good'
  BY DEF CalmInv
<1>1. CASE send \/ startNewConversation \/ \E s \in page.sessions : switchToSession(s) \/ deleteConversation(s)
  <2>1. calm
    <3>1. calm' = (calm /\ calls = {})
      BY <1>1 DEF send, startNewConversation, switchToSession, deleteConversation, Act
    <3> QED
      BY <3>1, Zenon
  <2> QED
    BY <1>1, <2>1, sendCalm, startNewConversationCalm, switchToSessionCalm, deleteConversationCalm DEF CalmInv
<1>2. ASSUME NEW c \in calls, Server(c)
      PROVE  Good'
  <2>1. calm
    <3>1. CASE start_new_session(c)
      <4>1. calm' = (calm /\ (c.fn \in {"new", "delete"} \/ pointer = None))
        BY <3>1 DEF start_new_session
      <4> QED
        BY <4>1, Zenon
    <3>2. CASE session_belongs_to_user(c)
      BY <3>2 DEF session_belongs_to_user
    <3>3. CASE ~start_new_session(c) /\ ~session_belongs_to_user(c)
      BY <1>2, <3>3 DEF Server, find_session, history, list_sessions, ask, switch_session,
                        is_current_session, delete_session
    <3> QED
      BY <3>1, <3>2, <3>3
  <2> QED
    BY <1>2, <2>1, ServerCalm DEF CalmInv
<1>3. ASSUME NEW c \in calls, Takes(c)
      PROVE  Good'
  <2>1. calm' = calm
    BY <1>3 DEF Takes, takeHistory, takeSessions, takeAnswer, takeNew, takeSwitch, takeDelete, takeFailure, Take
  <2> QED
    BY <1>3, <2>1, TakesCalm DEF CalmInv
<1>4. ASSUME NEW c \in calls, Lose(c)
      PROVE  Good'
  BY <1>4 DEF Lose, lose
<1>5. CASE UNCHANGED vars
  <2>1. calm /\ Good
    BY <1>5 DEF CalmInv, vars
  <2> QED
    BY <1>5, <2>1 DEF vars, Good, Numbered, Apart, PointerGood, Works, PageGood, PageShaped, Asking, Of
<1> QED
  BY <1>1, <1>2, <1>3, <1>4, <1>5 DEF Next

\* The page shows the conversation that the next question goes to
\* (AssistantPage.tsx:75-93, 136-230), for any number of conversations and questions.
THEOREM PageShowsCurrent == Spec => []ShowsCurrent
<1>1. CalmInv => ShowsCurrent
  BY DEF CalmInv, Good, PageGood, ShowsCurrent
<1> QED
  BY <1>1, InitCalm, NextCalm, PTL DEF Spec

\* A conversation that is deleted stays empty (routers/assistant.py:1169-1194).
THEOREM DeletedStaysEmpty == Spec => []DeletedForGood
<1>1. CalmInv => DeletedForGood
  BY DEF CalmInv, Good, Numbered, DeletedForGood
<1> QED
  BY <1>1, InitCalm, NextCalm, PTL DEF Spec
===============================================================================
