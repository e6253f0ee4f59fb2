--------------------------- MODULE Sessions_proofs ---------------------------
(***************************************************************************)
(* Sessions, for any number of tabs, pairs of tokens and requests: a       *)
(* refresh token is exchanged once, whatever tabs, lost answers and the    *)
(* two halves of AuthService.refresh do; with one tab and no loss, who is  *)
(* at a page has a token, and a logout is final.                           *)
(***************************************************************************)
EXTENDS Sessions, FiniteSetTheorems, TLAPS

-----------------------------------------------------------------------------
(* One exchange *)


\* Every token that was exchanged is on the block list, for good: what the
\* unique index refuses is exactly a second exchange.
ExchangedAreBlocked == \A n \in DOMAIN from : from[n] # None => from[n] \in blocked

IInv == ExchangedAreBlocked /\ ExchangedOnce

\* A pair for a token that is not on the block list, which then is, keeps IInv.
LEMMA RotationKeepsIInv ==
    ASSUME IInv, NEW old, old \notin blocked,
           from' = Paired(old), blocked' = blocked \cup {old}
    PROVE  IInv'
<1> DEFINE k == issued + 1
<1> HIDE DEF k
<1>1. DOMAIN from' = DOMAIN from \cup {k}
  BY DEF Paired, k
<1>2. \A n \in DOMAIN from' : from'[n] = IF n = k THEN old ELSE from[n]
  BY DEF Paired, k
<1>3. ExchangedAreBlocked'
  BY <1>1, <1>2 DEF IInv, ExchangedAreBlocked
<1>4. ExchangedOnce'
  <2> SUFFICES ASSUME NEW m \in DOMAIN from', NEW n \in DOMAIN from',
                      from'[m] # None, from'[m] = from'[n]
               PROVE  m = n
    BY DEF ExchangedOnce
  <2>1. CASE m = k /\ n # k
    BY <1>1, <1>2, <2>1 DEF IInv, ExchangedAreBlocked
  <2>2. CASE m # k /\ n = k
    BY <1>1, <1>2, <2>2 DEF IInv, ExchangedAreBlocked
  <2>3. CASE m # k /\ n # k
    BY <1>1, <1>2, <2>3 DEF IInv, ExchangedOnce
  <2> QED
    BY <2>1, <2>2, <2>3
<1> QED
  BY <1>3, <1>4 DEF IInv

\* A pair for a password leaves the exchanges as they are.
LEMMA LoginKeepsIInv ==
    ASSUME IInv, from' = Paired(None), blocked' = blocked
    PROVE  IInv'
<1> DEFINE k == issued + 1
<1> HIDE DEF k
<1>1. DOMAIN from' = DOMAIN from \cup {k}
  BY DEF Paired, k
<1>2. \A n \in DOMAIN from' : from'[n] = IF n = k THEN None ELSE from[n]
  BY DEF Paired, k
<1> QED
  BY <1>1, <1>2 DEF IInv, ExchangedAreBlocked, ExchangedOnce

LEMMA IdleKeepsIInv ==
    ASSUME IInv, UNCHANGED <<from, blocked>>
    PROVE  IInv'
BY DEF IInv, ExchangedAreBlocked, ExchangedOnce

LEMMA InitIInv == Init => IInv
<1> SUFFICES ASSUME Init PROVE IInv
  OBVIOUS
<1>1. \A n \in DOMAIN from : from[n] = None
  <2>1. CASE cookie = None
    BY <2>1 DEF Init
  <2>2. CASE cookie # None
    BY <2>2 DEF Init
  <2> QED
    BY <2>1, <2>2
<1>2. \A m, n \in DOMAIN from : from[m] # None => m = n
  BY <1>1
<1> QED
  BY <1>1, <1>2 DEF IInv, ExchangedAreBlocked, ExchangedOnce

\* What the server does.  Only the second half of a refresh, and a login, issue a pair.
LEMMA ServerKeepsIInv ==
    ASSUME IInv, NEW c \in calls, Server(c)
    PROVE  IInv'
<1>1. CASE refresh_checks(c)
  BY <1>1, IdleKeepsIInv DEF refresh_checks, server
<1>2. CASE refresh_rotates(c)
  <2>1. CASE c.carries \in blocked
    BY <1>2, <2>1, IdleKeepsIInv DEF refresh_rotates, server
  <2>2. CASE c.carries \notin blocked
    BY <1>2, <2>2, RotationKeepsIInv DEF refresh_rotates
  <2> QED
    BY <2>1, <2>2
<1>3. CASE login_(c)
  <2>1. CASE c.right /\ active
    BY <1>3, <2>1, LoginKeepsIInv DEF login_
  <2>2. CASE ~(c.right /\ active)
    BY <1>3, <2>2, IdleKeepsIInv DEF login_, server
  <2> QED
    BY <2>1, <2>2
<1>4. CASE get_current_user(c)
  BY <1>4, IdleKeepsIInv DEF get_current_user
<1> QED
  BY <1>1, <1>2, <1>3, <1>4 DEF Server

LEMMA NextIInv == IInv /\ [Next]_vars => IInv'
<1> SUFFICES ASSUME IInv, [Next]_vars PROVE IInv'
  OBVIOUS
<1>1. ASSUME NEW t \in Tabs, mount(t) \/ call(t) \/ logout(t) \/ handleSubmit(t)
      PROVE  IInv'
  <2>1. CASE mount(t)
    BY <2>1, IdleKeepsIInv DEF mount, Sends, server
  <2>2. CASE call(t)
    BY <2>2, IdleKeepsIInv DEF call, Sends, server
  <2>3. CASE logout(t)
    BY <2>3, IdleKeepsIInv DEF logout, Sends, server
  <2>4. CASE handleSubmit(t)
    BY <2>4, IdleKeepsIInv DEF handleSubmit, Sends, server
  <2> QED
    BY <1>1, <2>1, <2>2, <2>3, <2>4
<1>2. CASE expire
  BY <1>2, IdleKeepsIInv DEF expire
<1>3. CASE deactivate
  BY <1>3, IdleKeepsIInv DEF deactivate
<1>4. ASSUME NEW c \in calls, Server(c)
      PROVE  IInv'
  BY <1>4, ServerKeepsIInv
<1>5. ASSUME NEW c \in calls, Takes(c)
      PROVE  IInv'
  BY <1>5, IdleKeepsIInv DEF Takes, server
<1>6. ASSUME NEW c \in calls, lose(c)
      PROVE  IInv'
  BY <1>6, IdleKeepsIInv DEF lose, server
<1>7. CASE UNCHANGED vars
  BY <1>7, IdleKeepsIInv DEF vars
<1> QED
  BY <1>1, <1>2, <1>3, <1>4, <1>5, <1>6, <1>7 DEF Next

\* A refresh token is good for one exchange (auth_service.py:308-324,
\* mongodb/init.js:68), for any number of tabs, pairs and requests.
THEOREM TokensExchangedOnce == Spec => []ExchangedOnce
<1>1. IInv => ExchangedOnce
  BY DEF IInv
<1> QED
  BY <1>1, InitIInv, NextIInv, PTL DEF Spec

-----------------------------------------------------------------------------
(* Types *)

Fns == {"mount", "silent", "login", "logout", "api", "me"}
Answers == {"sent", "checked", "ok", "401", "403", "500", "waiting", "lost"}
Tokens == DOMAIN from \cup {None}

Cells == [open: BOOLEAN, isInitializing: BOOLEAN, isAuthenticated: BOOLEAN, token: Nat \cup {None},
          refreshing: BOOLEAN, loading: BOOLEAN, left: BOOLEAN]
Request == [tab: Tabs, fn: Fns, carries: Nat \cup {None}, right: BOOLEAN, retry: BOOLEAN,
            st: Answers, pair: Nat \cup {None}]

\* Of the tokens of a request: they were issued, and the one it exchanges is one.
Carried(c) ==
    /\ c.carries \in Tokens /\ c.pair \in Tokens
    /\ c.st = "checked" => c.carries # None

PairsTyped ==
    /\ \E k \in Nat : DOMAIN from = 1..k
    /\ blocked \subseteq DOMAIN from /\ dead \subseteq DOMAIN from

Typed ==
    /\ tab \in [Tabs -> Cells] /\ \A t \in Tabs : tab[t].token \in Tokens
    /\ calls \subseteq Request /\ \A c \in calls : Carried(c)
    /\ PairsTyped /\ cookie \in Tokens
    /\ active \in BOOLEAN /\ calm \in BOOLEAN

LEMMA TokensAreNumbers == Typed => Tokens \subseteq Nat \cup {None} /\ None \notin DOMAIN from
  BY SessionsAssumption DEF Typed, PairsTyped, Tokens

\* What the steps make of a request, field by field.
Is(d, t, fn, carries, retry, pair, st) ==
    /\ d \in Request /\ d.tab = t /\ d.fn = fn /\ d.carries = carries
    /\ d.retry = retry /\ d.pair = pair /\ d.st = st

LEMMA StatusEdit ==
    ASSUME NEW c \in Request, NEW st \in Answers
    PROVE  Is([c EXCEPT !.st = st], c.tab, c.fn, c.carries, c.retry, c.pair, st)
BY DEF Is, Request, Answers

LEMMA PairEdit ==
    ASSUME NEW c \in Request, NEW n \in Nat
    PROVE  Is([c EXCEPT !.st = "ok", !.pair = n], c.tab, c.fn, c.carries, c.retry, n, "ok")
BY DEF Is, Request, Answers

LEMMA RetryEdit ==
    ASSUME NEW c \in Request, NEW n \in Nat \cup {None}
    PROVE  Is([c EXCEPT !.st = "sent", !.retry = TRUE, !.carries = n],
              c.tab, c.fn, n, TRUE, c.pair, "sent")
BY DEF Is, Request, Answers

LEMMA CallMakes ==
    ASSUME NEW t \in Tabs, NEW fn \in Fns, NEW n \in Nat \cup {None}, NEW right \in BOOLEAN
    PROVE  Is(Call(t, fn, n, right), t, fn, n, FALSE, None, "sent")
BY DEF Is, Call, Request, Answers

\* The refresh of a tab fails: what that leaves in its cells.
LEMMA EndedEdit ==
    ASSUME NEW t \in Tabs, tab[t] \in Cells
    PROVE  LET d == Ended(t)
           IN  /\ d \in Cells /\ d.open = tab[t].open /\ d.token = None /\ d.refreshing = FALSE
               /\ d.isAuthenticated => tab[t].isAuthenticated
               /\ d.isInitializing => tab[t].isInitializing
               /\ d.left => tab[t].left \/ \E c \in Waiting(t) : c.fn = "logout"
<1> DEFINE fns == {c.fn : c \in Waiting(t)}
           r == tab[t]
           authenticated == r.isAuthenticated /\ "logout" \notin fns
           left == r.left \/ "logout" \in fns
           loading == r.loading /\ "login" \notin fns
           initializing == r.isInitializing /\ "me" \notin fns
           Edited(a, b, e, g) ==
               [r EXCEPT !.refreshing = FALSE, !.token = None, !.isAuthenticated = a, !.left = b,
                         !.loading = e, !.isInitializing = g]
           Facts(d, a, b, g) ==
               /\ d \in Cells /\ d.open = r.open /\ d.token = None /\ d.refreshing = FALSE
               /\ d.isAuthenticated = a /\ d.left = b /\ d.isInitializing = g
<1>1. ASSUME NEW a \in BOOLEAN, NEW b \in BOOLEAN, NEW e \in BOOLEAN, NEW g \in BOOLEAN
      PROVE  Facts(Edited(a, b, e, g), a, b, g)
  <2> HIDE DEF r
  <2> DEFINE d == Edited(a, b, e, g)
  <2>1. DOMAIN r = {"open", "isInitializing", "isAuthenticated", "token", "refreshing", "loading", "left"}
    BY DEF Cells, r
  <2>2. d.isAuthenticated = a
    BY <2>1
  <2>3. d.left = b
    BY <2>1
  <2>4. d.isInitializing = g
    BY <2>1
  <2>5. d.open = r.open /\ d.token = None /\ d.refreshing = FALSE
    BY <2>1
  <2>6. d \in Cells
    <3>1. r \in Cells
      BY DEF r
    <3> QED
      BY <3>1 DEF Cells
  <2> QED
    BY <2>2, <2>3, <2>4, <2>5, <2>6, Zenon
<1>2. Ended(t) = Edited(authenticated, left, loading, initializing)
  BY DEF Ended
<1>3. "logout" \in fns => \E c \in Waiting(t) : c.fn = "logout"
  OBVIOUS
<1>4. /\ authenticated \in BOOLEAN /\ left \in BOOLEAN
      /\ loading \in BOOLEAN /\ initializing \in BOOLEAN
  OBVIOUS
<1>5. /\ authenticated => r.isAuthenticated
      /\ initializing => r.isInitializing
      /\ left => r.left \/ \E c \in Waiting(t) : c.fn = "logout"
  BY <1>3
<1> HIDE DEF authenticated, left, loading, initializing, Edited, Facts
<1>6. Facts(Edited(authenticated, left, loading, initializing), authenticated, left, initializing)
  BY <1>1, <1>4
<1> QED
  BY <1>2, <1>5, <1>6 DEF Facts

\* Login and refresh number a new pair.
LEMMA NewPair ==
    ASSUME Typed
    PROVE  /\ issued + 1 \in Nat /\ issued + 1 \notin DOMAIN from /\ issued + 1 # None
           /\ \A old : DOMAIN Paired(old) = DOMAIN from \cup {issued + 1}
           /\ \E k \in Nat : DOMAIN from \cup {issued + 1} = 1..k
<1>1. PICK k \in Nat : DOMAIN from = 1..k
  BY DEF Typed, PairsTyped
<1>2. issued = k
  BY <1>1, FS_Interval DEF issued
<1>3. \A old : DOMAIN Paired(old) = DOMAIN from \cup {issued + 1}
  BY DEF Paired
<1>4. k + 1 \in Nat /\ 1..(k + 1) = (1..k) \cup {k + 1} /\ k + 1 \notin 1..k
  OBVIOUS
<1> HIDE DEF issued
<1> QED
  BY <1>1, <1>2, <1>3, <1>4, SessionsAssumption

\* A request gets another status, or its answer with a pair.
LEMMA GoesTo ==
    ASSUME Typed, NEW c \in calls, NEW st \in Answers, Goes(c, st)
    PROVE  \E d : /\ Is(d, c.tab, c.fn, c.carries, c.retry, c.pair, st)
                  /\ calls' = (calls \ {c}) \cup {d}
<1> DEFINE d == [c EXCEPT !.st = st]
<1>1. Is(d, c.tab, c.fn, c.carries, c.retry, c.pair, st)
  BY StatusEdit DEF Typed
<1>2. calls' = (calls \ {c}) \cup {d}
  BY DEF Goes
<1> HIDE DEF d
<1> QED
  BY <1>1, <1>2

LEMMA IssuesTo ==
    ASSUME Typed, NEW c \in calls, Issues(c)
    PROVE  \E d : /\ Is(d, c.tab, c.fn, c.carries, c.retry, issued + 1, "ok")
                  /\ calls' = (calls \ {c}) \cup {d}
<1> DEFINE d == [c EXCEPT !.st = "ok", !.pair = issued + 1]
<1>1. c \in Request /\ issued + 1 \in Nat
  BY NewPair DEF Typed
<1>2. calls' = (calls \ {c}) \cup {d}
  BY DEF Issues
<1> HIDE DEF issued
<1>3. Is(d, c.tab, c.fn, c.carries, c.retry, issued + 1, "ok")
  BY <1>1, PairEdit
<1> HIDE DEF d
<1> QED
  BY <1>2, <1>3

LEMMA InitTyped == Init => Typed
<1> SUFFICES ASSUME Init PROVE Typed
  OBVIOUS
<1>1. Closed \in Cells /\ Closed.token = None
  BY DEF Closed, Cells
<1>2. tab \in [Tabs -> Cells] /\ \A t \in Tabs : tab[t].token = None
  BY <1>1 DEF Init
<1>3. \E k \in Nat : DOMAIN from = 1..k /\ cookie \in (1..k) \cup {None}
  <2>1. CASE cookie = None
    <3>1. DOMAIN from = 1..0
      BY <2>1 DEF Init
    <3> QED
      BY <2>1, <3>1
  <2>2. CASE cookie # None
    <3>1. DOMAIN from = 1..1 /\ cookie = 1
      BY <2>2 DEF Init
    <3> QED
      BY <3>1
  <2> QED
    BY <2>1, <2>2
<1> QED
  BY <1>2, <1>3 DEF Init, Typed, PairsTyped, Tokens

\* A step in one tab keeps the types when it puts typed cells and requests there.
LEMMA StepTyped ==
    ASSUME Typed, PairsTyped', DOMAIN from \subseteq DOMAIN from', cookie' \in Tokens',
           active' \in BOOLEAN, calm' \in BOOLEAN,
           NEW t \in Tabs, NEW cells \in Cells, cells.token \in Tokens',
           tab' = [tab EXCEPT ![t] = cells],
           NEW more \in SUBSET Request, calls' \subseteq calls \cup more,
           \A d \in more : Carried(d)'
    PROVE  Typed'
<1>1. Tokens \subseteq Tokens'
  BY DEF Tokens
<1>2. tab' \in [Tabs -> Cells] /\ \A u \in Tabs : tab'[u].token \in Tokens'
  BY <1>1 DEF Typed
<1>3. calls' \subseteq Request
  BY DEF Typed
<1>4. \A c \in calls' : Carried(c)'
  BY <1>1 DEF Typed, Carried
<1> QED
  BY <1>2, <1>3, <1>4 DEF Typed

LEMMA SameTab ==
    ASSUME Typed, NEW t \in Tabs, tab' = tab
    PROVE  tab[t] \in Cells /\ tab[t].token \in Tokens /\ tab' = [tab EXCEPT ![t] = tab[t]]
BY DEF Typed

\* A request that goes to the server: its cells are those of the tab, or edited.
LEMMA SendsTyped ==
    ASSUME Typed, NEW t \in Tabs, NEW cells \in Cells, cells.token \in Tokens,
           NEW fn \in Fns, NEW n \in Tokens, NEW right \in BOOLEAN,
           Sends(t, cells, Call(t, fn, n, right)), calm' \in BOOLEAN
    PROVE  Typed'
<1> DEFINE d == Call(t, fn, n, right)
<1>1. PairsTyped' /\ Tokens' = Tokens /\ DOMAIN from' = DOMAIN from
  BY DEF Typed, PairsTyped, Sends, server, Tokens
<1>2. n \in Nat \cup {None}
  BY TokensAreNumbers, n \in Tokens
<1>3. Is(d, t, fn, n, FALSE, None, "sent")
  BY <1>2, CallMakes
<1>4. tab' = [tab EXCEPT ![t] = cells] /\ calls' = calls \cup {d} /\ cookie' = cookie /\ active' = active
  BY DEF Sends, server
<1> HIDE DEF d
<1>5. Carried(d)' /\ d \in Request
  BY <1>1, <1>3 DEF Carried, Tokens, Is
<1>6. DOMAIN from \subseteq DOMAIN from' /\ cookie' \in Tokens' /\ active' \in BOOLEAN /\ cells.token \in Tokens'
  BY <1>1, <1>4 DEF Typed
<1>7. {d} \in SUBSET Request /\ \A e \in {d} : Carried(e)'
  BY <1>5
<1>8. calls' \subseteq calls \cup {d}
  BY <1>4
<1> QED
  BY <1>1, <1>4, <1>6, <1>7, <1>8, StepTyped

LEMMA mountTyped == ASSUME Typed, NEW t \in Tabs, mount(t) PROVE Typed'
<1> DEFINE cells == [tab[t] EXCEPT !.open = TRUE, !.isInitializing = TRUE]
<1>1. cells \in Cells /\ cells.token = tab[t].token
  <2>1. tab[t] \in Cells
    BY DEF Typed
  <2> QED
    BY <2>1 DEF Cells
<1>2. Sends(t, cells, Call(t, "mount", cookie, FALSE)) /\ calm' \in BOOLEAN
  BY DEF mount
<1> HIDE DEF cells
<1>3. cells.token \in Tokens /\ cookie \in Tokens
  BY <1>1 DEF Typed
<1> QED
  BY <1>1, <1>2, <1>3, SendsTyped DEF Fns

LEMMA callTyped == ASSUME Typed, NEW t \in Tabs, call(t) PROVE Typed'
<1>1. tab[t] \in Cells /\ tab[t].token \in Tokens
  BY DEF Typed
<1>2. Sends(t, tab[t], Call(t, "api", tab[t].token, FALSE)) /\ calm' \in BOOLEAN
  BY DEF call
<1> QED
  BY <1>1, <1>2, SendsTyped DEF Fns

LEMMA logoutTyped == ASSUME Typed, NEW t \in Tabs, logout(t) PROVE Typed'
<1>1. tab[t] \in Cells /\ tab[t].token \in Tokens
  BY DEF Typed
<1>2. Sends(t, tab[t], Call(t, "logout", tab[t].token, FALSE)) /\ calm' \in BOOLEAN
  BY DEF logout
<1> QED
  BY <1>1, <1>2, SendsTyped DEF Fns

LEMMA handleSubmitTyped == ASSUME Typed, NEW t \in Tabs, handleSubmit(t) PROVE Typed'
<1> DEFINE cells == [tab[t] EXCEPT !.loading = TRUE]
<1>1. cells \in Cells /\ cells.token = tab[t].token
  <2>1. tab[t] \in Cells
    BY DEF Typed
  <2> QED
    BY <2>1 DEF Cells
<1>2. PICK right \in BOOLEAN : Sends(t, cells, Call(t, "login", tab[t].token, right))
  BY DEF handleSubmit
<1>3. calm' \in BOOLEAN
  BY DEF handleSubmit
<1> HIDE DEF cells
<1>4. cells.token \in Tokens /\ tab[t].token \in Tokens
  BY <1>1 DEF Typed
<1> QED
  BY <1>1, <1>2, <1>3, <1>4, SendsTyped DEF Fns

\* The server answers: the tabs are as they were, and the request is typed.
LEMMA AnswersTyped ==
    ASSUME Typed, NEW c \in calls, PairsTyped', DOMAIN from \subseteq DOMAIN from',
           UNCHANGED <<tab, cookie, active>>, calm' \in BOOLEAN,
           NEW retry, NEW pair \in Tokens', NEW st, st = "checked" => c.carries # None,
           \E d : /\ Is(d, c.tab, c.fn, c.carries, retry, pair, st)
                  /\ calls' = (calls \ {c}) \cup {d}
    PROVE  Typed'
<1>1. PICK d : /\ Is(d, c.tab, c.fn, c.carries, retry, pair, st)
               /\ calls' = (calls \ {c}) \cup {d}
  OBVIOUS
<1>2. c.tab \in Tabs /\ c.carries \in Tokens
  BY DEF Typed, Request, Carried
<1>3. Tokens \subseteq Tokens'
  BY DEF Tokens
<1>4. {d} \in SUBSET Request /\ \A e \in {d} : Carried(e)'
  BY <1>1, <1>2, <1>3 DEF Is, Carried
<1>5. /\ tab[c.tab] \in Cells /\ tab[c.tab].token \in Tokens' /\ tab' = [tab EXCEPT ![c.tab] = tab[c.tab]]
      /\ cookie' \in Tokens' /\ active' \in BOOLEAN
  BY <1>2, <1>3, SameTab DEF Typed
<1>6. calls' \subseteq calls \cup {d}
  BY <1>1
<1> QED
  BY <1>2, <1>4, <1>5, <1>6, StepTyped

LEMMA GoesTyped ==
    ASSUME Typed, NEW c \in calls, NEW st \in Answers, st = "checked" => c.carries # None, Goes(c, st),
           UNCHANGED <<tab, cookie, from, blocked>>, active' \in BOOLEAN, active' = active,
           calm' \in BOOLEAN, dead' \subseteq DOMAIN from
    PROVE  Typed'
<1>1. PairsTyped' /\ DOMAIN from \subseteq DOMAIN from' /\ c.pair \in Tokens'
  BY DEF Typed, PairsTyped, Carried, Tokens
<1>2. \E d : /\ Is(d, c.tab, c.fn, c.carries, c.retry, c.pair, st)
             /\ calls' = (calls \ {c}) \cup {d}
  BY GoesTo
<1> QED
  BY <1>1, <1>2, AnswersTyped

LEMMA IssuesTyped ==
    ASSUME Typed, NEW c \in calls, NEW old, from' = Paired(old), Issues(c),
           blocked' \subseteq DOMAIN from', UNCHANGED <<tab, cookie, dead, active, calm>>
    PROVE  Typed'
<1> DEFINE k == issued + 1
<1>1. DOMAIN from' = DOMAIN from \cup {k} /\ \E n \in Nat : DOMAIN from' = 1..n
  BY NewPair
<1>2. \E d : /\ Is(d, c.tab, c.fn, c.carries, c.retry, k, "ok")
             /\ calls' = (calls \ {c}) \cup {d}
  BY IssuesTo
<1> HIDE DEF k
<1>3. PairsTyped' /\ DOMAIN from \subseteq DOMAIN from' /\ calm' \in BOOLEAN
  BY <1>1 DEF Typed, PairsTyped
<1>4. PICK pair : pair = k
  OBVIOUS
<1>5. pair \in Tokens'
  BY <1>1, <1>4 DEF Tokens
<1>6. PICK retry : retry = c.retry
  OBVIOUS
<1>7. \E d : /\ Is(d, c.tab, c.fn, c.carries, retry, pair, "ok")
             /\ calls' = (calls \ {c}) \cup {d}
  BY <1>2, <1>4, <1>6
<1>8. UNCHANGED <<tab, cookie, active>>
  OBVIOUS
<1> QED
  BY <1>3, <1>5, <1>7, <1>8, AnswersTyped

LEMMA ServerTyped == ASSUME Typed, NEW c \in calls, Server(c) PROVE Typed'
<1>0. UNCHANGED <<tab, cookie, calm>> /\ calm' \in BOOLEAN /\ c.carries \in Tokens
  BY DEF Server, Typed, Carried
<1>1. CASE refresh_checks(c)
  <2> DEFINE st == IF c.carries = None \/ c.carries \in blocked \/ ~active THEN "401" ELSE "checked"
  <2>1. st \in Answers /\ (st = "checked" => c.carries # None) /\ Goes(c, st)
    BY <1>1 DEF refresh_checks, Answers
  <2>2. UNCHANGED <<from, blocked>> /\ active' = active /\ active' \in BOOLEAN /\ dead' \subseteq DOMAIN from
    BY <1>1 DEF refresh_checks, server, Typed, PairsTyped
  <2> HIDE DEF st
  <2>3. PICK s : s = st
    OBVIOUS
  <2> QED
    BY <1>0, <2>1, <2>2, <2>3, GoesTyped
<1>2. CASE refresh_rotates(c)
  <2>1. CASE c.carries \in blocked
    <3>1. Goes(c, "500") /\ UNCHANGED <<from, blocked>> /\ active' = active /\ active' \in BOOLEAN
          /\ dead' \subseteq DOMAIN from
      BY <1>2, <2>1 DEF refresh_rotates, server, Typed, PairsTyped
    <3> QED
      BY <1>0, <3>1, GoesTyped DEF Answers
  <2>2. CASE c.carries \notin blocked
    <3>1. from' = Paired(c.carries) /\ Issues(c) /\ blocked' = blocked \cup {c.carries}
          /\ UNCHANGED <<dead, active>> /\ c.st = "checked"
      BY <1>2, <2>2 DEF refresh_rotates
    <3>2. DOMAIN from \subseteq DOMAIN from'
      BY <3>1, NewPair
    <3>3. blocked' \subseteq DOMAIN from'
      BY <1>0, <3>1, <3>2 DEF Typed, PairsTyped, Tokens, Carried
    <3> QED
      BY <1>0, <3>1, <3>3, IssuesTyped
  <2> QED
    BY <2>1, <2>2
<1>3. CASE login_(c)
  <2>1. CASE c.right /\ active
    <3>1. from' = Paired(None) /\ Issues(c) /\ UNCHANGED <<blocked, dead, active>>
      BY <1>3, <2>1 DEF login_
    <3>2. blocked' \subseteq DOMAIN from'
      BY <3>1, NewPair DEF Typed, PairsTyped
    <3> QED
      BY <1>0, <3>1, <3>2, IssuesTyped
  <2>2. CASE ~(c.right /\ active)
    <3>1. Goes(c, "401") /\ UNCHANGED <<from, blocked>> /\ active' = active /\ active' \in BOOLEAN
          /\ dead' \subseteq DOMAIN from
      BY <1>3, <2>2 DEF login_, server, Typed, PairsTyped
    <3> QED
      BY <1>0, <3>1, GoesTyped DEF Answers
  <2> QED
    BY <2>1, <2>2
<1>4. CASE get_current_user(c)
  <2> DEFINE st == CASE c.carries = None -> "403" [] c.carries \in dead \/ ~active -> "401" [] OTHER -> "ok"
  <2>1. st \in Answers /\ st # "checked" /\ Goes(c, st)
    BY <1>4 DEF get_current_user, Answers
  <2>2. UNCHANGED <<from, blocked>> /\ active' = active /\ active' \in BOOLEAN
    BY <1>4 DEF get_current_user, Typed
  <2>3. dead' \subseteq DOMAIN from
    BY <1>0, <1>4 DEF get_current_user, Typed, PairsTyped, Tokens
  <2> HIDE DEF st
  <2>4. PICK s : s = st
    OBVIOUS
  <2> QED
    BY <1>0, <2>1, <2>2, <2>3, <2>4, GoesTyped
<1> QED
  BY <1>1, <1>2, <1>3, <1>4 DEF Server

\* A tab takes an answer: typed cells, and what it sends instead.
LEMMA TakenTyped ==
    ASSUME Typed, NEW c \in calls, NEW cells \in Cells, cells.token \in Tokens, UNCHANGED server,
           tab' = [tab EXCEPT ![c.tab] = cells], cookie' \in Tokens, calm' = calm,
           NEW more \in SUBSET Request, calls' \subseteq calls \cup more,
           \A d \in more : Carried(d)
    PROVE  Typed'
<1>1. /\ PairsTyped' /\ DOMAIN from \subseteq DOMAIN from' /\ Tokens' = Tokens
      /\ active' \in BOOLEAN /\ calm' \in BOOLEAN /\ c.tab \in Tabs
  BY DEF Typed, PairsTyped, Tokens, server, Request
<1>2. \A d \in more : Carried(d)'
  BY <1>1 DEF Carried
<1>3. cookie' \in Tokens' /\ cells.token \in Tokens'
  BY <1>1
<1> QED
  BY <1>1, <1>2, <1>3, StepTyped

LEMMA FinishesTyped ==
    ASSUME Typed, NEW c \in calls, NEW cells \in Cells, cells.token \in Tokens, UNCHANGED server,
           tab' = [tab EXCEPT ![c.tab] = cells], cookie' \in Tokens, calm' = calm, calls' \subseteq calls
    PROVE  Typed'
<1>1. {} \in SUBSET Request /\ calls' \subseteq calls \cup {} /\ \A d \in {} : Carried(d)
  OBVIOUS
<1> QED
  BY <1>1, TakenTyped

LEMMA TakesTyped == ASSUME Typed, NEW c \in calls, Takes(c) PROVE Typed'
<1>0. /\ UNCHANGED server /\ c \in Request /\ c.tab \in Tabs /\ tab[c.tab] \in Cells
      /\ tab[c.tab].token \in Tokens /\ c.pair \in Tokens /\ cookie \in Tokens
      /\ tab = [tab EXCEPT ![c.tab] = tab[c.tab]]
  BY DEF Takes, Typed, Carried, Request
<1>1. \A n \in Tokens, fn \in Fns :
        LET d == Call(c.tab, fn, n, FALSE) IN d \in Request /\ Carried(d)
  <2> SUFFICES ASSUME NEW n \in Tokens, NEW fn \in Fns
               PROVE  Call(c.tab, fn, n, FALSE) \in Request /\ Carried(Call(c.tab, fn, n, FALSE))
    OBVIOUS
  <2>1. n \in Nat \cup {None}
    BY TokensAreNumbers, n \in Tokens
  <2>2. Is(Call(c.tab, fn, n, FALSE), c.tab, fn, n, FALSE, None, "sent")
    BY <1>0, <2>1, CallMakes
  <2> QED
    BY <2>2 DEF Is, Carried, Tokens
<1>2. CASE intercept(c)
  <2>1. PICK d : Is(d, c.tab, c.fn, c.carries, c.retry, c.pair, "waiting") /\ d = [c EXCEPT !.st = "waiting"]
    BY <1>0, StatusEdit DEF Answers
  <2>2. d \in Request /\ Carried(d)
    BY <1>0, <2>1 DEF Is, Carried, Typed
  <2>3. CASE tab[c.tab].refreshing
    <3>1. tab' = tab /\ calls' \subseteq calls \cup {d} /\ cookie' = cookie /\ calm' = calm
      BY <1>2, <2>1, <2>3 DEF intercept, Goes
    <3>2. {d} \in SUBSET Request /\ \A e \in {d} : Carried(e)
      BY <2>2
    <3> QED
      BY <1>0, <3>1, <3>2, TakenTyped
  <2>4. CASE ~tab[c.tab].refreshing
    <3>1. PICK r : r = [tab[c.tab] EXCEPT !.refreshing = TRUE]
      OBVIOUS
    <3>2. r \in Cells /\ r.token \in Tokens
      BY <1>0, <3>1 DEF Cells
    <3>3. PICK e : e = Call(c.tab, "silent", cookie, FALSE)
      OBVIOUS
    <3>4. e \in Request /\ Carried(e)
      BY <1>0, <1>1, <3>3 DEF Fns
    <3>5. /\ tab' = [tab EXCEPT ![c.tab] = r] /\ calls' \subseteq calls \cup {d, e}
          /\ cookie' = cookie /\ calm' = calm
      BY <1>2, <2>1, <2>4, <3>1, <3>3 DEF intercept
    <3>6. {d, e} \in SUBSET Request /\ \A x \in {d, e} : Carried(x)
      BY <2>2, <3>4
    <3> QED
      BY <1>0, <3>2, <3>5, <3>6, TakenTyped
  <2> QED
    BY <2>3, <2>4
<1>3. CASE silent(c) /\ c.st = "ok"
  <2>1. PICK n : n = c.pair
    OBVIOUS
  <2> DEFINE more == {[w EXCEPT !.st = "sent", !.retry = TRUE, !.carries = n] : w \in Waiting(c.tab)}
  <2>2. n \in Tokens /\ n \in Nat \cup {None}
    BY <1>0, <2>1, TokensAreNumbers
  <2>3. \A e \in more : e \in Request /\ Carried(e)
    <3> SUFFICES ASSUME NEW w \in calls
                 PROVE  LET e == [w EXCEPT !.st = "sent", !.retry = TRUE, !.carries = n]
                        IN  e \in Request /\ Carried(e)
      BY DEF Waiting, Of
    <3>1. Is([w EXCEPT !.st = "sent", !.retry = TRUE, !.carries = n],
             w.tab, w.fn, n, TRUE, w.pair, "sent")
      BY <2>2, RetryEdit DEF Typed
    <3> QED
      BY <2>2, <3>1 DEF Is, Carried, Typed
  <2>4. PICK r : r = [tab[c.tab] EXCEPT !.refreshing = FALSE, !.token = n]
    OBVIOUS
  <2>5. r \in Cells /\ r.token \in Tokens
    BY <1>0, <2>2, <2>4 DEF Cells
  <2>6. /\ tab' = [tab EXCEPT ![c.tab] = r] /\ calls' \subseteq calls \cup more
        /\ cookie' = n /\ calm' = calm
    BY <1>3, <2>1, <2>4 DEF silent
  <2> HIDE DEF more
  <2>7. more \in SUBSET Request
    BY <2>3
  <2>8. cookie' \in Tokens
    BY <2>2, <2>6
  <2> QED
    BY <1>0, <2>3, <2>5, <2>6, <2>7, <2>8, TakenTyped
<1>4. CASE silent(c) /\ c.st # "ok"
  <2>1. PICK r : r = Ended(c.tab)
    OBVIOUS
  <2>2. r \in Cells /\ r.token \in Tokens
    BY <1>0, <2>1, EndedEdit DEF Tokens
  <2>3. tab' = [tab EXCEPT ![c.tab] = r] /\ calls' \subseteq calls /\ cookie' = cookie /\ calm' = calm
    BY <1>4, <2>1 DEF silent
  <2> QED
    BY <1>0, <2>2, <2>3, FinishesTyped
<1>5. CASE mounted(c) /\ c.st = "ok"
  <2>1. PICK r : r = [tab[c.tab] EXCEPT !.token = c.pair, !.isAuthenticated = TRUE]
    OBVIOUS
  <2>2. c.pair \in Nat \cup {None}
    BY <1>0, TokensAreNumbers
  <2>3. r \in Cells /\ r.token \in Tokens
    BY <1>0, <2>1, <2>2 DEF Cells
  <2>4. PICK e : e = Call(c.tab, "me", c.pair, FALSE)
    OBVIOUS
  <2>5. e \in Request /\ Carried(e)
    BY <1>0, <1>1, <2>4 DEF Fns
  <2>6. /\ tab' = [tab EXCEPT ![c.tab] = r] /\ calls' \subseteq calls \cup {e}
        /\ cookie' \in Tokens /\ calm' = calm
    BY <1>0, <1>5, <2>1, <2>4 DEF mounted, Finishes
  <2>7. {e} \in SUBSET Request /\ \A x \in {e} : Carried(x)
    BY <2>5
  <2> QED
    BY <1>0, <2>3, <2>6, <2>7, TakenTyped
<1>6. ASSUME (mounted(c) /\ c.st # "ok") \/ me(c)
      PROVE  Typed'
  <2>1. PICK r : r = [tab[c.tab] EXCEPT !.isInitializing = FALSE]
    OBVIOUS
  <2>2. r \in Cells /\ r.token \in Tokens
    BY <1>0, <2>1 DEF Cells
  <2>3. tab' = [tab EXCEPT ![c.tab] = r] /\ calls' \subseteq calls /\ cookie' = cookie /\ calm' = calm
    BY <1>6, <2>1 DEF mounted, me, Finishes
  <2> QED
    BY <1>0, <2>2, <2>3, FinishesTyped
<1>7. CASE answered(c)
  <2>1. tab' = tab /\ calls' \subseteq calls /\ cookie' = cookie /\ calm' = calm
    BY <1>0, <1>7 DEF answered, Finishes
  <2> QED
    BY <1>0, <2>1, FinishesTyped
<1>8. CASE loggedOut(c)
  <2>1. PICK r : r = Out(c.tab)
    OBVIOUS
  <2>2. r \in Cells /\ r.token \in Tokens
    BY <1>0, <2>1 DEF Cells, Out, Tokens
  <2>3. /\ tab' = [tab EXCEPT ![c.tab] = r] /\ calls' \subseteq calls /\ calm' = calm
        /\ cookie' \in Tokens
    BY <1>0, <1>8, <2>1 DEF loggedOut, Finishes, Tokens
  <2> QED
    BY <1>0, <2>2, <2>3, FinishesTyped
<1>9. CASE loggedIn(c) /\ c.st = "ok"
  <2>1. PICK r : r = [tab[c.tab] EXCEPT !.token = c.pair, !.isAuthenticated = TRUE,
                                        !.loading = FALSE, !.left = FALSE]
    OBVIOUS
  <2>2. c.pair \in Nat \cup {None}
    BY <1>0, TokensAreNumbers
  <2>3. r \in Cells /\ r.token \in Tokens
    BY <1>0, <2>1, <2>2 DEF Cells
  <2>4. /\ tab' = [tab EXCEPT ![c.tab] = r] /\ calls' \subseteq calls
        /\ cookie' \in Tokens /\ calm' = calm
    BY <1>0, <1>9, <2>1 DEF loggedIn, Finishes
  <2> QED
    BY <1>0, <2>3, <2>4, FinishesTyped
<1>10. CASE loggedIn(c) /\ c.st # "ok"
  <2>1. PICK r : r = [tab[c.tab] EXCEPT !.loading = FALSE]
    OBVIOUS
  <2>2. r \in Cells /\ r.token \in Tokens
    BY <1>0, <2>1 DEF Cells
  <2>3. tab' = [tab EXCEPT ![c.tab] = r] /\ calls' \subseteq calls /\ cookie' = cookie /\ calm' = calm
    BY <1>10, <2>1 DEF loggedIn, Finishes
  <2> QED
    BY <1>0, <2>2, <2>3, FinishesTyped
<1> QED
  BY <1>2, <1>3, <1>4, <1>5, <1>6, <1>7, <1>8, <1>9, <1>10 DEF Takes

LEMMA NextTyped == Typed /\ [Next]_vars => Typed'
<1> SUFFICES ASSUME Typed, [Next]_vars PROVE Typed'
  OBVIOUS
<1>1. ASSUME NEW t \in Tabs, mount(t) \/ call(t) \/ logout(t) \/ handleSubmit(t)
      PROVE  Typed'
  BY <1>1, mountTyped, callTyped, logoutTyped, handleSubmitTyped
<1>2. ASSUME expire \/ deactivate \/ UNCHANGED vars
      PROVE  Typed'
  <2>1. UNCHANGED <<tab, cookie, calls, from, blocked>>
    BY <1>2 DEF expire, deactivate, vars
  <2>2. dead' \subseteq DOMAIN from /\ active' \in BOOLEAN /\ calm' \in BOOLEAN
    BY <1>2 DEF expire, deactivate, vars, Typed, PairsTyped
  <2> QED
    BY <2>1, <2>2 DEF Typed, PairsTyped, Tokens, Carried
<1>3. ASSUME NEW c \in calls, Server(c)
      PROVE  Typed'
  BY <1>3, ServerTyped
<1>4. ASSUME NEW c \in calls, Takes(c)
      PROVE  Typed'
  BY <1>4, TakesTyped
<1>5. ASSUME NEW c \in calls, lose(c)
      PROVE  Typed'
  <2>1. /\ Goes(c, "lost") /\ UNCHANGED <<tab, cookie, from, blocked>> /\ active' = active
        /\ active' \in BOOLEAN /\ calm' \in BOOLEAN /\ dead' \subseteq DOMAIN from
    BY <1>5 DEF lose, server, Typed, PairsTyped
  <2> QED
    BY <2>1, GoesTyped DEF Answers
<1> QED
  BY <1>1, <1>2, <1>3, <1>4, <1>5 DEF Next

-----------------------------------------------------------------------------
(* One tab, and no loss *)

Solo == {"login", "logout", "mount", "me"}

\* One tab is open, and the requests are its own.
OneTab ==
    /\ \A t, u \in Tabs : tab[t].open /\ tab[u].open => t = u
    /\ \A t \in Tabs : ~tab[t].open => tab[t] = Closed
    /\ \A c \in calls : tab[c.tab].open

\* One refresh at a time; and who logs in or out, or loads the page, does nothing else
\* but wait for that refresh.
Apart ==
    /\ \A c, d \in calls : c.fn \in Refreshes /\ d.fn \in Refreshes => c = d
    /\ \A c \in calls : c.fn = "silent" => tab[c.tab].refreshing
    /\ \A c, d \in calls : c.fn \in Solo /\ d # c => d.fn = "silent" /\ c.st = "waiting"

\* The cookie is good for a refresh, unless the answer with the next one is under way.
CookieGood == cookie # None /\ (\A c \in calls : c.fn \in Refreshes => c.st # "ok") => cookie \notin blocked

\* A refresh goes with that cookie, and fails only without one.
Refreshed(c) ==
    /\ c.st \in {"sent", "checked"} => c.carries = cookie /\ (cookie # None => cookie \notin blocked)
    /\ c.st \in {"sent", "checked", "401", "500", "ok"} /\ ~c.retry
    /\ c.st = "ok" <=> c.st \notin {"sent", "checked"} /\ cookie # None

\* An answer has tokens that are good, and who was sent again has one.
Answered(c) ==
    /\ c.st # "lost" /\ (c.pair # None => c.pair \notin dead)
    /\ c.st = "ok" /\ c.fn \in Refreshes \cup {"login"} => c.pair # None /\ c.pair \notin blocked
    /\ c.retry /\ c.st = "sent" => c.carries \notin dead
    /\ c.fn = "logout" => c.carries # None /\ c.st # "403" /\ (c.st = "401" => ~c.retry)
    /\ c.fn \in {"api", "me", "logout"} => c.pair = None

\* Where the tab is while the request is under way.
Placed(c) ==
    /\ c.fn \in {"mount", "me"} => tab[c.tab].isInitializing
    /\ c.fn = "mount" => ~tab[c.tab].left
    /\ c.fn = "login" => ~tab[c.tab].isAuthenticated

\* Who is logged in has tokens, and who logged out has none.
Kept(t) ==
    /\ tab[t].isAuthenticated => tab[t].token # None /\ cookie # None
    /\ tab[t].left => cookie = None /\ ~tab[t].isAuthenticated

Good ==
    /\ active /\ OneTab /\ Apart /\ CookieGood
    /\ \A c \in calls : (c.fn \in Refreshes => Refreshed(c)) /\ Answered(c) /\ Placed(c)
    /\ \A t \in Tabs : Kept(t)
CalmInv == calm => Good

LEMMA InitCalm == Init => CalmInv
<1> SUFFICES ASSUME Init PROVE Good
  BY DEF CalmInv
<1>1. \A t \in Tabs : tab[t] = Closed
  BY DEF Init
<1>2. ~Closed.open /\ ~Closed.left /\ ~Closed.isAuthenticated
  BY DEF Closed
<1> QED
  BY <1>1, <1>2 DEF Init, Good, OneTab, Apart, CookieGood, Kept

\* The server answers: the requests stay apart.
LEMMA SwapKeeps ==
    ASSUME Good, NEW c \in calls, c.st # "waiting", NEW d, d.tab = c.tab, d.fn = c.fn,
           calls' = (calls \ {c}) \cup {d}, tab' = tab
    PROVE  OneTab' /\ Apart'
<1>1. OneTab'
  BY DEF Good, OneTab
<1>2. \A e, f \in calls' : e.fn \in Refreshes /\ f.fn \in Refreshes => e = f
  BY DEF Good, Apart
<1>3. \A e \in calls' : e.fn = "silent" => tab'[e.tab].refreshing
  BY DEF Good, Apart
<1>4. \A e, f \in calls' : e.fn \in Solo /\ f # e => f.fn = "silent" /\ e.st = "waiting"
  BY DEF Good, Apart
<1> QED
  BY <1>1, <1>2, <1>3, <1>4 DEF Apart

LEMMA refresh_checksCalm ==
    ASSUME Typed, Good, NEW c \in calls, refresh_checks(c), UNCHANGED <<tab, cookie>>
    PROVE  Good'
<1> DEFINE st == IF c.carries = None \/ c.carries \in blocked \/ ~active THEN "401" ELSE "checked"
<1>1. /\ c.fn \in Refreshes /\ c.st = "sent" /\ st \in Answers /\ Goes(c, st)
      /\ UNCHANGED <<from, blocked, dead, active>>
  BY DEF refresh_checks, Answers, server
<1>2. Refreshed(c) /\ Answered(c) /\ Placed(c) /\ active
  BY <1>1 DEF Good
<1>3. st = IF cookie = None THEN "401" ELSE "checked"
  BY <1>1, <1>2 DEF Refreshed
<1> HIDE DEF st
<1>4. PICK d : /\ Is(d, c.tab, c.fn, c.carries, c.retry, c.pair, st)
               /\ calls' = (calls \ {c}) \cup {d}
  BY <1>1, GoesTo
<1>5. OneTab' /\ Apart'
  BY <1>1, <1>4, SwapKeeps DEF Is
<1>6. Refreshed(d)' /\ Answered(d)' /\ Placed(d)'
  BY <1>1, <1>2, <1>3, <1>4 DEF Is, Refreshed, Answered, Placed
<1>7. \A e \in calls' : (e.fn \in Refreshes => Refreshed(e)') /\ Answered(e)' /\ Placed(e)'
  BY <1>1, <1>4, <1>6 DEF Good, Refreshed, Answered, Placed
<1>8. CookieGood'
  BY <1>1, <1>2, <1>3 DEF CookieGood, Refreshed
<1> QED
  BY <1>1, <1>2, <1>5, <1>7, <1>8 DEF Good, Kept

LEMMA refresh_rotatesCalm ==
    ASSUME Typed, Good, NEW c \in calls, refresh_rotates(c), UNCHANGED <<tab, cookie>>
    PROVE  Good'
<1> DEFINE k == issued + 1
<1>1. /\ k \notin DOMAIN from /\ k # None
      /\ blocked \subseteq DOMAIN from /\ dead \subseteq DOMAIN from /\ cookie \in Tokens
  BY NewPair DEF Typed, PairsTyped
<1>2. c.fn \in Refreshes /\ c.st = "checked"
  BY DEF refresh_rotates
<1>3. Refreshed(c) /\ Answered(c) /\ Placed(c) /\ active
  BY <1>2 DEF Good
<1>4. c.carries = cookie /\ cookie # None /\ cookie \notin blocked
  BY <1>2, <1>3 DEF Refreshed, Typed, Carried
<1>5. blocked' = blocked \cup {cookie} /\ Issues(c) /\ UNCHANGED <<dead, active>>
  BY <1>4 DEF refresh_rotates
<1>6. PICK d : /\ Is(d, c.tab, c.fn, c.carries, c.retry, k, "ok")
               /\ calls' = (calls \ {c}) \cup {d}
  BY <1>5, IssuesTo
<1> HIDE DEF k
<1>7. OneTab' /\ Apart'
  BY <1>2, <1>6, SwapKeeps DEF Is
<1>8. k \notin blocked' /\ k \notin dead'
  BY <1>1, <1>4, <1>5 DEF Tokens
<1>9. d.fn \in Refreshes /\ Refreshed(d)' /\ Answered(d)' /\ Placed(d)'
  BY <1>1, <1>2, <1>3, <1>4, <1>6, <1>8 DEF Is, Refreshed, Answered, Placed, Refreshes
<1>10. \A e \in calls \ {c} : e.fn \notin Refreshes /\ (e.fn = "login" => e.st # "ok")
  BY <1>2 DEF Good, Apart, Solo
<1>11. \A e \in calls' : (e.fn \in Refreshes => Refreshed(e)') /\ Answered(e)' /\ Placed(e)'
  BY <1>5, <1>6, <1>9, <1>10 DEF Good, Answered, Placed
<1>12. CookieGood'
  BY <1>6, <1>9 DEF CookieGood, Is
<1> QED
  BY <1>3, <1>5, <1>7, <1>11, <1>12 DEF Good, Kept

LEMMA login_Calm ==
    ASSUME Typed, Good, NEW c \in calls, login_(c), UNCHANGED <<tab, cookie>>
    PROVE  Good'
<1> DEFINE k == issued + 1
<1>1. /\ k \notin DOMAIN from /\ k # None
      /\ blocked \subseteq DOMAIN from /\ dead \subseteq DOMAIN from
  BY NewPair DEF Typed, PairsTyped
<1>2. c.fn = "login" /\ c.st = "sent" /\ UNCHANGED <<blocked, dead, active>>
  BY DEF login_, server
<1>3. Answered(c) /\ Placed(c) /\ calls = {c}
  BY <1>2 DEF Good, Apart, Solo
<1>4. \E d : /\ d.tab = c.tab /\ d.fn = c.fn /\ d.retry = c.retry /\ d.st \in {"ok", "401"}
             /\ d.pair \in {c.pair, k} /\ (d.st = "ok" => d.pair = k)
             /\ calls' = (calls \ {c}) \cup {d}
  <2>1. CASE Issues(c)
    <3>1. PICK d : /\ Is(d, c.tab, c.fn, c.carries, c.retry, k, "ok")
                   /\ calls' = (calls \ {c}) \cup {d}
      BY <2>1, IssuesTo
    <3> HIDE DEF k
    <3> QED
      BY <3>1 DEF Is
  <2>2. CASE Goes(c, "401")
    <3>1. PICK d : /\ Is(d, c.tab, c.fn, c.carries, c.retry, c.pair, "401")
                   /\ calls' = (calls \ {c}) \cup {d}
      BY <2>2, GoesTo DEF Answers
    <3> HIDE DEF k
    <3> QED
      BY <3>1 DEF Is
  <2> QED
    BY <2>1, <2>2 DEF login_
<1> HIDE DEF k
<1>5. PICK d : /\ d.tab = c.tab /\ d.fn = c.fn /\ d.retry = c.retry /\ d.st \in {"ok", "401"}
               /\ d.pair \in {c.pair, k} /\ (d.st = "ok" => d.pair = k)
               /\ calls' = (calls \ {c}) \cup {d}
  BY <1>4
<1>6. OneTab' /\ Apart'
  BY <1>2, <1>5, SwapKeeps
<1>7. d.fn \notin Refreshes /\ Answered(d)' /\ Placed(d)'
  BY <1>1, <1>2, <1>3, <1>5 DEF Answered, Placed, Refreshes
<1>8. \A e \in calls' : (e.fn \in Refreshes => Refreshed(e)') /\ Answered(e)' /\ Placed(e)'
  BY <1>3, <1>5, <1>7
<1>9. CookieGood'
  BY <1>2, <1>3 DEF Good, CookieGood, Refreshes
<1> QED
  BY <1>2, <1>6, <1>8, <1>9 DEF Good, Kept

LEMMA get_current_userCalm ==
    ASSUME Typed, Good, NEW c \in calls, get_current_user(c), UNCHANGED <<tab, cookie>>
    PROVE  Good'
<1> DEFINE st == CASE c.carries = None -> "403" [] c.carries \in dead \/ ~active -> "401" [] OTHER -> "ok"
<1>1. /\ c.fn \in {"api", "me", "logout"} /\ c.st = "sent" /\ st \in {"403", "401", "ok"}
      /\ st \in Answers /\ Goes(c, st) /\ UNCHANGED <<from, blocked, active>>
  BY DEF get_current_user, Answers
<1>2. Answered(c) /\ Placed(c) /\ active
  BY DEF Good
<1>3. (st = "403" <=> c.carries = None) /\ (st = "401" => c.carries \in dead)
  <2>1. CASE c.carries = None
    <3>1. None \notin dead
      BY TokensAreNumbers DEF Typed, PairsTyped
    <3> QED
      BY <1>2, <2>1, <3>1
  <2>2. CASE c.carries # None /\ c.carries \in dead
    BY <2>2
  <2>3. CASE c.carries # None /\ c.carries \notin dead
    BY <1>2, <2>3
  <2> QED
    BY <2>1, <2>2, <2>3
<1> HIDE DEF st
<1>4. PICK d : /\ Is(d, c.tab, c.fn, c.carries, c.retry, c.pair, st)
               /\ calls' = (calls \ {c}) \cup {d}
  BY <1>1, GoesTo
<1>5. OneTab' /\ Apart'
  BY <1>1, <1>4, SwapKeeps DEF Is
<1>6. d.fn \notin Refreshes /\ Answered(d)' /\ Placed(d)'
  BY <1>1, <1>2, <1>3, <1>4 DEF Is, Answered, Placed, Refreshes
<1>7. dead' = dead \/ calls = {c}
  BY <1>1 DEF Good, Apart, Solo, get_current_user
<1>8. \A e \in calls \ {c} : Answered(e)' /\ Placed(e)' /\ (e.fn \in Refreshes => Refreshed(e)')
  BY <1>1, <1>7 DEF Good, Answered, Placed, Refreshed
<1>9. CookieGood'
  BY <1>1, <1>4 DEF Good, CookieGood, Is, Refreshes
<1> QED
  BY <1>1, <1>2, <1>4, <1>5, <1>6, <1>8, <1>9 DEF Good, Kept

\* With calm' the tokens that expire are in no answer, and nobody is sent again with one.
LEMMA expireCalm == ASSUME Typed, Good, expire, calm' PROVE Good'
<1>1. PICK n : dead' = dead \cup {n} /\ ~\E c \in calls : c.pair = n \/ (c.retry /\ c.carries = n)
  <2>1. PICK n : /\ dead' = dead \cup {n}
                 /\ calm' = (calm /\ ~\E c \in calls : c.pair = n \/ (c.retry /\ c.carries = n))
    BY DEF expire
  <2> QED
    BY <2>1, Zenon
<1>2. UNCHANGED <<tab, cookie, calls, from, blocked, active>>
  BY DEF expire
<1>3. \A c \in calls' : (c.fn \in Refreshes => Refreshed(c)') /\ Answered(c)' /\ Placed(c)'
  BY <1>1, <1>2 DEF Good, Refreshed, Answered, Placed
<1> QED
  BY <1>2, <1>3 DEF Good, OneTab, Apart, CookieGood, Kept

LEMMA mountCalm == ASSUME Typed, Good, NEW t \in Tabs, mount(t), calm' PROVE Good'
<1>1. \A u \in Tabs : ~tab[u].open
  <2>1. calm' = (calm /\ \A u \in Tabs : ~tab[u].open)
    BY DEF mount
  <2> QED
    BY <2>1, Zenon
<1>2. calls = {} /\ tab[t] = Closed /\ tab[t] \in Cells
  BY <1>1 DEF Good, OneTab, Typed, Request
<1>3. PICK r : r = [tab[t] EXCEPT !.open = TRUE, !.isInitializing = TRUE]
  OBVIOUS
<1>4. r.open /\ r.isInitializing /\ ~r.isAuthenticated /\ ~r.left
  BY <1>2, <1>3 DEF Closed
<1>5. PICK d : d = Call(t, "mount", cookie, FALSE)
  OBVIOUS
<1>6. Is(d, t, "mount", cookie, FALSE, None, "sent")
  BY <1>5, CallMakes, TokensAreNumbers DEF Typed, Fns
<1>7. tab' = [tab EXCEPT ![t] = r] /\ calls' = {d} /\ UNCHANGED <<cookie, from, blocked, dead, active>>
  BY <1>2, <1>3, <1>5 DEF mount, Sends, server
<1>8. tab'[t] = r /\ \A u \in Tabs : u # t => tab'[u] = tab[u]
  BY <1>7 DEF Typed
<1>9. OneTab'
  BY <1>1, <1>4, <1>6, <1>7, <1>8 DEF Good, OneTab, Is
<1>10. Apart'
  BY <1>6, <1>7 DEF Apart, Is, Refreshes
<1>11. CookieGood'
  BY <1>2, <1>7 DEF Good, CookieGood
<1>12. Refreshed(d)' /\ Answered(d)' /\ Placed(d)'
  BY <1>2, <1>4, <1>6, <1>7, <1>8 DEF Good, CookieGood, Refreshed, Answered, Placed, Is
<1>13. \A u \in Tabs : Kept(u)'
  BY <1>4, <1>7, <1>8 DEF Good, Kept
<1> QED
  BY <1>7, <1>9, <1>10, <1>11, <1>12, <1>13 DEF Good

\* A page, and so a request of its own, is at the one tab that is open.
LEMMA callCalm == ASSUME Typed, Good, NEW t \in Tabs, call(t), calm' PROVE Good'
<1>1. ~\E c \in Of(t) : c.fn = "logout"
  <2>1. calm' = (calm /\ ~\E c \in Of(t) : c.fn = "logout")
    BY DEF call
  <2> QED
    BY <2>1, Zenon
<1>2. tab[t].open /\ ~tab[t].isInitializing /\ tab[t].isAuthenticated
  BY DEF call, AtPage
<1>3. \A c \in calls : c.tab = t /\ c.fn \notin Solo
  BY <1>1, <1>2 DEF Good, OneTab, Placed, Of, Solo, Typed, Request
<1>4. PICK d : d = Call(t, "api", tab[t].token, FALSE)
  OBVIOUS
<1>5. Is(d, t, "api", tab[t].token, FALSE, None, "sent")
  BY <1>4, CallMakes, TokensAreNumbers DEF Typed, Fns
<1>6. tab' = tab /\ calls' = calls \cup {d} /\ UNCHANGED <<cookie, from, blocked, dead, active>>
  BY <1>4 DEF call, Sends, server, Typed
<1>7. OneTab'
  BY <1>2, <1>5, <1>6 DEF Good, OneTab, Is
<1>8. Apart'
  BY <1>3, <1>5, <1>6 DEF Good, Apart, Is, Refreshes, Solo
<1>9. d.fn \notin Refreshes /\ Answered(d)' /\ Placed(d)'
  BY <1>5, <1>6 DEF Answered, Placed, Is, Refreshes
<1>10. \A c \in calls' : (c.fn \in Refreshes => Refreshed(c)') /\ Answered(c)' /\ Placed(c)'
  BY <1>6, <1>9 DEF Good, Refreshed, Answered, Placed
<1>11. CookieGood'
  BY <1>6, <1>9 DEF Good, CookieGood
<1> QED
  BY <1>6, <1>7, <1>8, <1>10, <1>11 DEF Good, Kept

\* Logging out or in with nothing else under way.
LEMMA AloneCalm ==
    ASSUME Typed, Good, NEW t \in Tabs, NEW r \in Cells, tab[t].open, calls = {},
           r.open, r.isAuthenticated = tab[t].isAuthenticated, r.left = tab[t].left, r.token = tab[t].token,
           NEW fn \in {"login", "logout"}, NEW right \in BOOLEAN,
           fn = "login" => ~tab[t].isAuthenticated, fn = "logout" => tab[t].isAuthenticated,
           Sends(t, r, Call(t, fn, tab[t].token, right))
    PROVE  Good'
<1>1. PICK d : d = Call(t, fn, tab[t].token, right)
  OBVIOUS
<1>2. Is(d, t, fn, tab[t].token, FALSE, None, "sent")
  BY <1>1, CallMakes, TokensAreNumbers DEF Typed, Fns
<1>3. tab' = [tab EXCEPT ![t] = r] /\ calls' = {d} /\ UNCHANGED <<cookie, from, blocked, dead, active>>
  BY <1>1 DEF Sends, server
<1>4. tab'[t] = r /\ \A u \in Tabs : u # t => tab'[u] = tab[u]
  BY <1>3 DEF Typed
<1>5. OneTab'
  BY <1>2, <1>3, <1>4 DEF Good, OneTab, Is
<1>6. Apart'
  BY <1>2, <1>3 DEF Apart, Is
<1>7. CookieGood'
  BY <1>2, <1>3 DEF Good, CookieGood, Is
<1>8. d.fn \notin Refreshes /\ Answered(d)' /\ Placed(d)'
  BY <1>2, <1>3, <1>4 DEF Good, Answered, Placed, Is, Refreshes, Kept
<1>9. \A u \in Tabs : Kept(u)'
  BY <1>3, <1>4 DEF Good, Kept
<1> QED
  BY <1>3, <1>5, <1>6, <1>7, <1>8, <1>9 DEF Good

LEMMA logoutCalm == ASSUME Typed, Good, NEW t \in Tabs, logout(t), calm' PROVE Good'
<1>1. calls = {}
  <2>1. calm' = (calm /\ calls = {})
    BY DEF logout
  <2> QED
    BY <2>1, Zenon
<1>2. tab[t].open /\ tab[t].isAuthenticated /\ Sends(t, tab[t], Call(t, "logout", tab[t].token, FALSE))
  BY DEF logout, AtPage
<1>3. tab[t] \in Cells
  BY DEF Typed
<1> QED
  BY <1>1, <1>2, <1>3, AloneCalm

LEMMA handleSubmitCalm == ASSUME Typed, Good, NEW t \in Tabs, handleSubmit(t), calm' PROVE Good'
<1>1. calls = {}
  <2>1. calm' = (calm /\ calls = {})
    BY DEF handleSubmit
  <2> QED
    BY <2>1, Zenon
<1>2. PICK r : r = [tab[t] EXCEPT !.loading = TRUE]
  OBVIOUS
<1>3. PICK right \in BOOLEAN : Sends(t, r, Call(t, "login", tab[t].token, right))
  BY <1>2 DEF handleSubmit
<1>4. tab[t].open /\ ~tab[t].isAuthenticated
  BY DEF handleSubmit, AtLogin
<1>5. /\ r \in Cells /\ r.open = tab[t].open /\ r.isAuthenticated = tab[t].isAuthenticated
      /\ r.left = tab[t].left /\ r.token = tab[t].token
  <2>1. tab[t] \in Cells
    BY DEF Typed
  <2> QED
    BY <1>2, <2>1 DEF Cells
<1> QED
  BY <1>1, <1>3, <1>4, <1>5, AloneCalm

LEMMA interceptCalm == ASSUME Typed, Good, NEW c \in calls, intercept(c), UNCHANGED server PROVE Good'
<1>1. c.st = "401" /\ ~c.retry /\ c.fn \notin Refreshes
  BY DEF intercept, Retries
<1>2. Answered(c) /\ Placed(c) /\ c.tab \in Tabs
  BY DEF Good, Typed, Request
<1>3. PICK d : Is(d, c.tab, c.fn, c.carries, c.retry, c.pair, "waiting") /\ d = [c EXCEPT !.st = "waiting"]
  BY StatusEdit DEF Typed, Answers
<1>4. UNCHANGED <<cookie, from, blocked, dead, active>>
  BY DEF intercept, server
<1>5. CASE tab[c.tab].refreshing
  <2>1. tab' = tab /\ calls' = (calls \ {c}) \cup {d}
    BY <1>3, <1>5 DEF intercept, Goes
  <2>2. OneTab' /\ Apart'
    BY <1>1, <1>3, <2>1, SwapKeeps DEF Is
  <2>3. d.fn \notin Refreshes /\ Answered(d)' /\ Placed(d)'
    BY <1>1, <1>2, <1>3, <1>4, <2>1 DEF Is, Answered, Placed, Refreshes
  <2>4. \A e \in calls' : (e.fn \in Refreshes => Refreshed(e)') /\ Answered(e)' /\ Placed(e)'
    BY <1>4, <2>1, <2>3 DEF Good, Refreshed, Answered, Placed
  <2>5. CookieGood'
    BY <1>1, <1>4, <2>1 DEF Good, CookieGood
  <2> QED
    BY <1>4, <2>1, <2>2, <2>4, <2>5 DEF Good, Kept
<1>6. CASE ~tab[c.tab].refreshing
  <2>1. PICK r : r = [tab[c.tab] EXCEPT !.refreshing = TRUE]
    OBVIOUS
  <2>2. PICK n : n = Call(c.tab, "silent", cookie, FALSE)
    OBVIOUS
  <2>3. Is(n, c.tab, "silent", cookie, FALSE, None, "sent")
    BY <1>2, <2>2, CallMakes, TokensAreNumbers DEF Typed, Fns
  <2>4. tab' = [tab EXCEPT ![c.tab] = r] /\ calls' = (calls \ {c}) \cup {d, n}
    BY <1>3, <1>6, <2>1, <2>2 DEF intercept
  <2>5. tab'[c.tab] = r /\ \A u \in Tabs : u # c.tab => tab'[u] = tab[u]
    BY <1>2, <2>4 DEF Typed
  <2>6. /\ r.refreshing /\ r.open = tab[c.tab].open /\ r.isAuthenticated = tab[c.tab].isAuthenticated
        /\ r.left = tab[c.tab].left /\ r.token = tab[c.tab].token
        /\ r.isInitializing = tab[c.tab].isInitializing
    <3>1. tab[c.tab] \in Cells
      BY <1>2 DEF Typed
    <3> QED
      BY <2>1, <3>1 DEF Cells
  <2>7. \A e \in calls : e.fn \notin Refreshes /\ e.tab = c.tab /\ (e # c => e.fn \notin Solo /\ c.fn \notin Solo)
    <3>1. \A e \in calls : e.tab = c.tab
      BY <1>2 DEF Good, OneTab, Typed, Request
    <3>2. \A e \in calls : e.fn # "silent"
      BY <1>6, <3>1 DEF Good, Apart
    <3>3. \A e \in calls : e # c => e.fn \notin Solo /\ c.fn \notin Solo
      BY <1>1, <3>2 DEF Good, Apart, Refreshes
    <3> QED
      BY <1>1, <3>1, <3>2, <3>3 DEF Refreshes, Solo
  <2>8. OneTab'
    <3>1. \A e \in calls' : e.tab = c.tab
      BY <1>3, <2>3, <2>4, <2>7 DEF Is
    <3>2. tab[c.tab].open /\ \A u \in Tabs : u # c.tab => ~tab[u].open
      BY <1>2 DEF Good, OneTab
    <3>3. \A t \in Tabs : tab'[t].open <=> t = c.tab
      BY <2>5, <2>6, <3>2
    <3>4. \A t \in Tabs : ~tab'[t].open => tab'[t] = Closed
      BY <2>5, <2>6, <3>2 DEF Good, OneTab
    <3> QED
      BY <1>2, <3>1, <3>3, <3>4 DEF OneTab
  <2>9. Apart'
    <3>1. \A e, f \in calls' : e.fn \in Refreshes /\ f.fn \in Refreshes => e = f
      BY <1>1, <1>3, <2>4, <2>7 DEF Is
    <3>2. \A e \in calls' : e.fn = "silent" => tab'[e.tab].refreshing
      <4>1. \A e \in calls' : e.tab = c.tab
        BY <1>3, <2>3, <2>4, <2>7 DEF Is
      <4> QED
        BY <2>5, <2>6, <4>1
    <3>3. \A e, f \in calls' : e.fn \in Solo /\ f # e => f.fn = "silent" /\ e.st = "waiting"
      <4>1. n.fn = "silent" /\ n.fn \notin Solo /\ d.fn = c.fn /\ d.st = "waiting"
        BY <1>3, <2>3 DEF Is, Solo
      <4>2. \A e \in calls' : e \in {d, n} \/ (e \in calls /\ e.fn \notin Solo /\ c.fn \notin Solo)
        BY <2>4, <2>7
      <4> QED
        BY <4>1, <4>2
    <3> QED
      BY <3>1, <3>2, <3>3 DEF Apart
  <2>10. d.fn \notin Refreshes /\ Answered(d)' /\ Placed(d)'
    BY <1>1, <1>2, <1>3, <1>4, <2>5, <2>6 DEF Is, Answered, Placed, Refreshes
  <2>11. Refreshed(n)' /\ Answered(n)' /\ Placed(n)'
    BY <1>4, <2>3, <2>7 DEF Is, Good, CookieGood, Refreshed, Answered, Placed, Refreshes
  <2>12. \A e \in calls' : (e.fn \in Refreshes => Refreshed(e)') /\ Answered(e)' /\ Placed(e)'
    BY <1>4, <2>4, <2>5, <2>6, <2>7, <2>10, <2>11 DEF Good, Answered, Placed
  <2>13. CookieGood'
    BY <1>4, <2>7 DEF Good, CookieGood
  <2>14. \A u \in Tabs : Kept(u)'
    BY <1>4, <2>5, <2>6 DEF Good, Kept
  <2> QED
    BY <1>4, <2>8, <2>9, <2>12, <2>13, <2>14 DEF Good
<1> QED
  BY <1>5, <1>6

\* Other tabs are closed, and keep nothing.
LEMMA OthersKeep ==
    ASSUME Typed, Good, NEW t \in Tabs, tab[t].open, NEW u \in Tabs, u # t
    PROVE  ~tab[u].open /\ ~tab[u].isAuthenticated /\ ~tab[u].left
BY DEF Good, OneTab, Closed

\* The last request under way ends, and leaves these cells and this cookie.
LEMMA EndsAlone ==
    ASSUME Typed, Good, NEW c \in calls, calls = {c}, calls' = {}, UNCHANGED server,
           NEW r \in Cells, r.open = tab[c.tab].open, tab' = [tab EXCEPT ![c.tab] = r],
           cookie' # None => cookie' \notin blocked,
           r.isAuthenticated => r.token # None /\ cookie' # None,
           r.left => cookie' = None /\ ~r.isAuthenticated
    PROVE  Good'
<1>1. c.tab \in Tabs /\ tab[c.tab].open /\ active' /\ blocked' = blocked
  BY DEF Good, OneTab, Typed, Request, server
<1>2. tab'[c.tab] = r /\ \A u \in Tabs : u # c.tab => tab'[u] = tab[u]
  BY <1>1 DEF Typed
<1>3. OneTab' /\ Apart'
  BY <1>1, <1>2 DEF Good, OneTab, Apart
<1>4. CookieGood'
  BY <1>1 DEF CookieGood
<1>5. \A u \in Tabs : Kept(u)'
  BY <1>1, <1>2, OthersKeep DEF Kept
<1> QED
  BY <1>1, <1>3, <1>4, <1>5 DEF Good

LEMMA mountedCalm == ASSUME Typed, Good, NEW c \in calls, mounted(c), UNCHANGED server PROVE Good'
<1>1. /\ c.fn = "mount" /\ c.st # "waiting" /\ Refreshed(c) /\ Answered(c) /\ Placed(c)
      /\ c.tab \in Tabs /\ tab[c.tab] \in Cells /\ tab[c.tab].open
  BY DEF mounted, Good, OneTab, Refreshes, Typed, Request
<1>2. calls = {c}
  BY <1>1 DEF Good, Apart, Solo
<1>3. CASE c.st = "ok"
  <2>1. c.pair # None /\ c.pair \notin blocked /\ c.pair \notin dead
    BY <1>1, <1>3 DEF Answered, Refreshes
  <2>2. PICK r : r = [tab[c.tab] EXCEPT !.token = c.pair, !.isAuthenticated = TRUE]
    OBVIOUS
  <2>3. /\ r.open = tab[c.tab].open /\ r.isInitializing /\ ~r.left
        /\ r.isAuthenticated /\ r.token = c.pair
    BY <1>1, <2>2 DEF Cells, Placed
  <2>4. PICK d : d = Call(c.tab, "me", c.pair, FALSE)
    OBVIOUS
  <2>5. Is(d, c.tab, "me", c.pair, FALSE, None, "sent")
    BY <1>1, <2>4, CallMakes, TokensAreNumbers DEF Typed, Fns, Carried
  <2>6. tab' = [tab EXCEPT ![c.tab] = r] /\ calls' = {d} /\ cookie' = c.pair
    BY <1>2, <1>3, <2>2, <2>4 DEF mounted, Finishes
  <2>7. tab'[c.tab] = r /\ \A u \in Tabs : u # c.tab => tab'[u] = tab[u]
    BY <1>1, <2>6 DEF Typed
  <2>8. active' /\ blocked' = blocked /\ dead' = dead
    BY DEF Good, server
  <2>9. OneTab' /\ Apart'
    <3>1. d.tab = c.tab /\ d.fn = "me"
      BY <2>5 DEF Is
    <3>2. tab[c.tab].open /\ \A u \in Tabs : u # c.tab => ~tab[u].open
      BY <1>1 DEF Good, OneTab
    <3>3. \A t \in Tabs : tab'[t].open <=> t = c.tab
      BY <2>3, <2>7, <3>2
    <3>4. \A t \in Tabs : ~tab'[t].open => tab'[t] = Closed
      BY <2>7, <3>2, <3>3 DEF Good, OneTab
    <3> QED
      BY <1>1, <2>6, <3>1, <3>3, <3>4 DEF OneTab, Apart, Refreshes
  <2>10. CookieGood'
    BY <2>1, <2>6, <2>8 DEF CookieGood
  <2>11. d.fn \notin Refreshes /\ Answered(d)' /\ Placed(d)'
    BY <2>3, <2>5, <2>7 DEF Is, Answered, Placed, Refreshes
  <2>12. \A u \in Tabs : Kept(u)'
    BY <1>1, <2>1, <2>3, <2>6, <2>7, OthersKeep DEF Kept
  <2> QED
    BY <2>6, <2>8, <2>9, <2>10, <2>11, <2>12 DEF Good
<1>4. CASE c.st # "ok"
  <2>1. PICK r : r = [tab[c.tab] EXCEPT !.isInitializing = FALSE]
    OBVIOUS
  <2>2. /\ r \in Cells /\ r.open = tab[c.tab].open /\ r.left = tab[c.tab].left
        /\ r.isAuthenticated = tab[c.tab].isAuthenticated /\ r.token = tab[c.tab].token
    BY <1>1, <2>1 DEF Cells
  <2>3. tab' = [tab EXCEPT ![c.tab] = r] /\ calls' = {} /\ cookie' = cookie
    BY <1>2, <1>4, <2>1 DEF mounted, Finishes
  <2>4. Kept(c.tab) /\ (cookie # None => cookie \notin blocked)
    BY <1>1, <1>2, <1>4 DEF Good, CookieGood
  <2> QED
    BY <1>2, <2>2, <2>3, <2>4, EndsAlone DEF Kept
<1> QED
  BY <1>3, <1>4

LEMMA meCalm == ASSUME Typed, Good, NEW c \in calls, me(c), UNCHANGED server PROVE Good'
<1>1. /\ c.fn = "me" /\ c.st # "waiting"
      /\ c.tab \in Tabs /\ tab[c.tab] \in Cells /\ tab[c.tab].open
  BY DEF me, Final, Good, OneTab, Typed, Request
<1>2. calls = {c}
  BY <1>1 DEF Good, Apart, Solo
<1>3. PICK r : r = [tab[c.tab] EXCEPT !.isInitializing = FALSE]
  OBVIOUS
<1>4. /\ r \in Cells /\ r.open = tab[c.tab].open /\ r.left = tab[c.tab].left
      /\ r.isAuthenticated = tab[c.tab].isAuthenticated /\ r.token = tab[c.tab].token
  BY <1>1, <1>3 DEF Cells
<1>5. tab' = [tab EXCEPT ![c.tab] = r] /\ calls' = {} /\ cookie' = cookie
  BY <1>2, <1>3 DEF me, Finishes
<1>6. Kept(c.tab) /\ (cookie # None => cookie \notin blocked)
  BY <1>1, <1>2 DEF Good, CookieGood, Refreshes
<1> QED
  BY <1>2, <1>4, <1>5, <1>6, EndsAlone DEF Kept

LEMMA answeredCalm == ASSUME Typed, Good, NEW c \in calls, answered(c), UNCHANGED server PROVE Good'
<1>1. c.fn = "api" /\ tab' = tab /\ calls' = calls \ {c} /\ cookie' = cookie
  BY DEF answered, Finishes, Typed, Request
<1>2. UNCHANGED <<from, blocked, dead, active>>
  BY DEF server
<1>3. OneTab' /\ Apart'
  BY <1>1 DEF Good, OneTab, Apart
<1>4. CookieGood'
  BY <1>1, <1>2 DEF Good, CookieGood, Refreshes
<1>5. \A e \in calls' : (e.fn \in Refreshes => Refreshed(e)') /\ Answered(e)' /\ Placed(e)'
  BY <1>1, <1>2 DEF Good, Refreshed, Answered, Placed
<1> QED
  BY <1>1, <1>2, <1>3, <1>4, <1>5 DEF Good, Kept

\* With Good the answer to a logout is never lost, and so it takes the cookie back.
LEMMA loggedOutCalm == ASSUME Typed, Good, NEW c \in calls, loggedOut(c), UNCHANGED server PROVE Good'
<1>1. /\ c.fn = "logout" /\ c.st # "waiting" /\ c.st = "ok"
      /\ c.tab \in Tabs /\ tab[c.tab] \in Cells /\ tab[c.tab].open
  BY DEF loggedOut, Final, Good, OneTab, Answered, Typed, Request
<1>2. calls = {c}
  BY <1>1 DEF Good, Apart, Solo
<1>3. PICK r : r = Out(c.tab)
  OBVIOUS
<1>4. r \in Cells /\ r.open = tab[c.tab].open /\ ~r.isAuthenticated
  BY <1>1, <1>3 DEF Cells, Out
<1>5. tab' = [tab EXCEPT ![c.tab] = r] /\ calls' = {} /\ cookie' = None
  BY <1>1, <1>2, <1>3 DEF loggedOut, Finishes
<1> QED
  BY <1>2, <1>4, <1>5, EndsAlone

LEMMA loggedInCalm == ASSUME Typed, Good, NEW c \in calls, loggedIn(c), UNCHANGED server PROVE Good'
<1>1. /\ c.fn = "login" /\ c.st # "waiting" /\ Answered(c)
      /\ c.tab \in Tabs /\ tab[c.tab] \in Cells /\ tab[c.tab].open
  BY DEF loggedIn, Final, Good, OneTab, Typed, Request
<1>2. calls = {c}
  BY <1>1 DEF Good, Apart, Solo
<1>3. CASE c.st = "ok"
  <2>1. c.pair # None /\ c.pair \notin blocked /\ c.pair \in Nat \cup {None}
    BY <1>1, <1>3 DEF Answered, Typed, Request
  <2>2. PICK r : r = [tab[c.tab] EXCEPT !.token = c.pair, !.isAuthenticated = TRUE,
                                        !.loading = FALSE, !.left = FALSE]
    OBVIOUS
  <2>3. r \in Cells /\ r.open = tab[c.tab].open /\ ~r.left /\ r.token = c.pair
    BY <1>1, <2>1, <2>2 DEF Cells
  <2>4. tab' = [tab EXCEPT ![c.tab] = r] /\ calls' = {} /\ cookie' = c.pair
    BY <1>2, <1>3, <2>2 DEF loggedIn, Finishes
  <2> QED
    BY <1>2, <2>1, <2>3, <2>4, EndsAlone
<1>4. CASE c.st # "ok"
  <2>1. PICK r : r = [tab[c.tab] EXCEPT !.loading = FALSE]
    OBVIOUS
  <2>2. /\ r \in Cells /\ r.open = tab[c.tab].open /\ r.left = tab[c.tab].left
        /\ r.isAuthenticated = tab[c.tab].isAuthenticated /\ r.token = tab[c.tab].token
    BY <1>1, <2>1 DEF Cells
  <2>3. tab' = [tab EXCEPT ![c.tab] = r] /\ calls' = {} /\ cookie' = cookie
    BY <1>2, <1>4, <2>1 DEF loggedIn, Finishes
  <2>4. Kept(c.tab) /\ (cookie # None => cookie \notin blocked)
    BY <1>1, <1>2 DEF Good, CookieGood, Refreshes
  <2> QED
    BY <1>2, <2>2, <2>3, <2>4, EndsAlone DEF Kept
<1> QED
  BY <1>3, <1>4

\* The refresh answered: who waited is sent again with the new token.
LEMMA silentCalm ==
    ASSUME Typed, Good, NEW c \in calls, silent(c), c.st = "ok", UNCHANGED server
    PROVE  Good'
<1>1. /\ c.fn = "silent" /\ Refreshed(c) /\ Answered(c)
      /\ c.tab \in Tabs /\ tab[c.tab] \in Cells /\ tab[c.tab].open
  BY DEF silent, Good, OneTab, Refreshes, Typed, Request
<1>2. PICK n : n = c.pair
  OBVIOUS
<1>3. n # None /\ n \notin blocked /\ n \notin dead /\ cookie # None /\ n \in Nat \cup {None}
  BY <1>1, <1>2 DEF Answered, Refreshed, Refreshes, Typed, Request
<1> DEFINE Again(w) == [w EXCEPT !.st = "sent", !.retry = TRUE, !.carries = n]
<1>4. \A w \in calls : Is(Again(w), w.tab, w.fn, n, TRUE, w.pair, "sent")
  BY <1>3, RetryEdit DEF Typed
<1>5. PICK r : r = [tab[c.tab] EXCEPT !.refreshing = FALSE, !.token = n]
  OBVIOUS
<1>6. /\ r.open = tab[c.tab].open /\ r.left = tab[c.tab].left /\ r.token = n
      /\ r.isAuthenticated = tab[c.tab].isAuthenticated /\ r.isInitializing = tab[c.tab].isInitializing
  BY <1>1, <1>5 DEF Cells
<1>7. /\ tab' = [tab EXCEPT ![c.tab] = r] /\ cookie' = n
      /\ calls' = ((calls \ {c}) \ Waiting(c.tab)) \cup {Again(w) : w \in Waiting(c.tab)}
      /\ UNCHANGED <<from, blocked, dead, active>>
  BY <1>2, <1>5 DEF silent, server
<1>8. tab'[c.tab] = r /\ \A u \in Tabs : u # c.tab => tab'[u] = tab[u]
  BY <1>1, <1>7 DEF Typed
<1>9. \A w \in calls : w.tab = c.tab
  BY <1>1 DEF Good, OneTab, Typed, Request
<1>10. Waiting(c.tab) = {w \in calls : w.st = "waiting"}
  BY <1>9 DEF Waiting, Of
<1>11. \A w \in calls : w # c => w.fn \notin Refreshes /\ (w.fn \in Solo => calls = {w, c} /\ w.st = "waiting")
  BY <1>1 DEF Good, Apart, Refreshes, Solo
<1> HIDE DEF Again
<1>12. \A e \in calls' : \E w \in calls :
          /\ w # c /\ e.tab = w.tab /\ e.fn = w.fn
          /\ \/ e = w /\ w.st # "waiting"
             \/ e = Again(w) /\ w.st = "waiting" /\ Is(e, w.tab, w.fn, n, TRUE, w.pair, "sent")
  <2>1. \A w \in Waiting(c.tab) : w \in calls /\ w # c /\ w.st = "waiting"
    BY <1>1, <1>10 DEF Refreshed
  <2> QED
    BY <1>4, <1>7, <1>10, <2>1 DEF Is
<1>13. \A e \in calls' : e.tab = c.tab /\ e.fn \notin Refreshes
  BY <1>9, <1>11, <1>12
<1>14. OneTab'
  <2>1. \A u \in Tabs : u # c.tab => ~tab[u].open
    BY <1>1 DEF Good, OneTab
  <2>2. \A t \in Tabs : tab'[t].open <=> t = c.tab
    BY <1>1, <1>6, <1>8, <2>1
  <2>3. \A t \in Tabs : ~tab'[t].open => tab'[t] = Closed
    BY <1>8, <2>1, <2>2 DEF Good, OneTab
  <2> QED
    BY <1>1, <1>13, <2>2, <2>3 DEF OneTab
<1>15. Apart'
  <2>1. ASSUME NEW e \in calls', NEW f \in calls', e.fn \in Solo, f # e
        PROVE  FALSE
    BY <1>11, <1>12, <2>1
  <2> QED
    BY <1>13, <2>1 DEF Apart, Refreshes
<1>16. CookieGood'
  BY <1>3, <1>7 DEF CookieGood
<1>17. \A e \in calls' : Answered(e)' /\ Placed(e)'
  <2> SUFFICES ASSUME NEW e \in calls' PROVE Answered(e)' /\ Placed(e)'
    OBVIOUS
  <2>1. PICK w \in calls :
          /\ w # c /\ e.tab = w.tab /\ e.fn = w.fn
          /\ \/ e = w /\ w.st # "waiting"
             \/ e = Again(w) /\ w.st = "waiting" /\ Is(e, w.tab, w.fn, n, TRUE, w.pair, "sent")
    BY <1>12
  <2>2. Answered(w) /\ Placed(w)
    BY DEF Good
  <2>3. Placed(e)'
    BY <1>6, <1>8, <1>9, <2>1, <2>2 DEF Placed
  <2>4. Answered(e)'
    BY <1>3, <1>7, <2>1, <2>2 DEF Answered, Is
  <2> QED
    BY <2>3, <2>4
<1>18. \A u \in Tabs : Kept(u)'
  <2>1. Kept(c.tab)
    BY <1>1 DEF Good
  <2> QED
    BY <1>1, <1>3, <1>6, <1>7, <1>8, <2>1, OthersKeep DEF Kept
<1> QED
  BY <1>7, <1>13, <1>14, <1>15, <1>16, <1>17, <1>18 DEF Good

\* The refresh failed, which it does only without a cookie: nobody is logged in.
LEMMA silentFailsCalm ==
    ASSUME Typed, Good, NEW c \in calls, silent(c), c.st # "ok", UNCHANGED server
    PROVE  Good'
<1>1. /\ c.fn = "silent" /\ Refreshed(c) /\ Answered(c) /\ c.st \in {"401", "500"}
      /\ c.tab \in Tabs /\ tab[c.tab] \in Cells /\ tab[c.tab].open
  BY DEF silent, Good, OneTab, Refreshes, Typed, Request, Answered
<1>2. cookie = None
  BY <1>1 DEF Refreshed
<1>3. PICK r : r = Ended(c.tab)
  OBVIOUS
<1>4. /\ r.open = tab[c.tab].open /\ (r.isAuthenticated => tab[c.tab].isAuthenticated)
      /\ (r.left => tab[c.tab].left \/ \E w \in Waiting(c.tab) : w.fn = "logout")
  BY <1>1, <1>3, EndedEdit
<1>5. ~tab[c.tab].isAuthenticated /\ ~r.isAuthenticated
  BY <1>1, <1>2, <1>4 DEF Good, Kept
<1>6. /\ tab' = [tab EXCEPT ![c.tab] = r] /\ cookie' = None
      /\ calls' = (calls \ {c}) \ Waiting(c.tab)
      /\ UNCHANGED <<from, blocked, dead, active>>
  BY <1>2, <1>3 DEF silent, server
<1>7. tab'[c.tab] = r /\ \A u \in Tabs : u # c.tab => tab'[u] = tab[u]
  BY <1>1, <1>6 DEF Typed
<1>8. \A w \in calls : w.tab = c.tab
  BY <1>1 DEF Good, OneTab, Typed, Request
<1>9. calls' \subseteq calls /\ \A w \in calls' : w.fn \notin Refreshes /\ w.fn \notin Solo
  <2>1. \A w \in calls : w # c => w.fn \notin Refreshes /\ (w.fn \in Solo => w.st = "waiting")
    BY <1>1 DEF Good, Apart, Refreshes, Solo
  <2>2. \A w \in calls' : w \in calls /\ w # c /\ w.st # "waiting"
    BY <1>6, <1>8 DEF Waiting, Of
  <2> QED
    BY <2>1, <2>2
<1>10. OneTab'
  <2>1. \A u \in Tabs : u # c.tab => ~tab[u].open
    BY <1>1 DEF Good, OneTab
  <2>2. \A t \in Tabs : tab'[t].open <=> t = c.tab
    BY <1>1, <1>4, <1>7, <2>1
  <2>3. \A t \in Tabs : ~tab'[t].open => tab'[t] = Closed
    BY <1>7, <2>1, <2>2 DEF Good, OneTab
  <2> QED
    BY <1>1, <1>8, <1>9, <2>2, <2>3 DEF OneTab
<1>11. Apart'
  BY <1>9 DEF Apart, Refreshes
<1>12. CookieGood'
  BY <1>6 DEF CookieGood
<1>13. \A e \in calls' : Answered(e)' /\ Placed(e)'
  BY <1>6, <1>9 DEF Good, Answered, Placed, Solo
<1>14. \A u \in Tabs : Kept(u)'
  BY <1>1, <1>5, <1>6, <1>7, OthersKeep DEF Kept
<1> QED
  BY <1>6, <1>9, <1>10, <1>11, <1>12, <1>13, <1>14 DEF Good

LEMMA TakesCalm == ASSUME Typed, Good, NEW c \in calls, Takes(c) PROVE Good'
<1>1. UNCHANGED server
  BY DEF Takes
<1>2. ASSUME silent(c) PROVE Good'
  BY <1>1, <1>2, silentCalm, silentFailsCalm
<1> QED
  BY <1>1, <1>2, interceptCalm, mountedCalm, meCalm, answeredCalm, loggedOutCalm, loggedInCalm DEF Takes

LEMMA NextCalm == Typed /\ CalmInv /\ [Next]_vars => CalmInv'
<1> SUFFICES ASSUME Typed, CalmInv, [Next]_vars, calm' PROVE Good'
  BY DEF CalmInv
<1>1. ASSUME NEW t \in Tabs, mount(t) \/ call(t) \/ logout(t) \/ handleSubmit(t)
      PROVE  Good'
  <2>1. calm
    BY <1>1, Zenon DEF mount, call, logout, handleSubmit
  <2> QED
    BY <1>1, <2>1, mountCalm, callCalm, logoutCalm, handleSubmitCalm DEF CalmInv
<1>2. CASE expire
  <2>1. calm
    <3>1. PICK n : calm' = (calm /\ ~\E c \in calls : c.pair = n \/ (c.retry /\ c.carries = n))
      BY <1>2 DEF expire
    <3> QED
      BY <3>1, Zenon
  <2> QED
    BY <1>2, <2>1, expireCalm DEF CalmInv
<1>3. CASE deactivate
  BY <1>3 DEF deactivate
<1>4. ASSUME NEW c \in calls, Server(c)
      PROVE  Good'
  <2>1. UNCHANGED <<tab, cookie, calm>> /\ calm /\ Good
    BY <1>4 DEF Server, CalmInv
  <2> QED
    BY <1>4, <2>1, refresh_checksCalm, refresh_rotatesCalm, login_Calm, get_current_userCalm DEF Server
<1>5. ASSUME NEW c \in calls, Takes(c)
      PROVE  Good'
  <2>1. calm
    BY <1>5 DEF Takes, intercept, silent, mounted, me, answered, loggedOut, loggedIn
  <2> QED
    BY <1>5, <2>1, TakesCalm DEF CalmInv
<1>6. ASSUME NEW c \in calls, lose(c)
      PROVE  Good'
  BY <1>6 DEF lose
<1>7. CASE UNCHANGED vars
  BY <1>7 DEF vars, CalmInv, Good, OneTab, Apart, CookieGood, Refreshed, Answered, Placed, Kept
<1> QED
  BY <1>1, <1>2, <1>3, <1>4, <1>5, <1>6, <1>7 DEF Next

\* Cells, requests and tokens keep their types, and every token in use was issued
\* (auth_service.py:258-324, AuthContext.tsx, client.ts).
THEOREM SessionsTyped == Spec => []Typed
BY InitTyped, NextTyped, PTL DEF Spec

\* As long as nothing is lost, one tab is open and nobody is deactivated, who
\* is at a page has a token (client.ts:38-49), for any number of requests at once.
THEOREM NobodyLosesTheToken == Spec => []KeepsToken
<1>1. CalmInv => KeepsToken
  BY DEF CalmInv, Good, Kept, KeepsToken, AtPage
<1> QED
  BY <1>1, InitTyped, NextTyped, InitCalm, NextCalm, PTL DEF Spec

\* And a logout is final (AuthContext.tsx:72-79): nothing brings the cookie back.
THEOREM LogoutIsFinal == Spec => []OutIsOut
<1>1. CalmInv => OutIsOut
  BY DEF CalmInv, Good, Kept, OutIsOut
<1> QED
  BY <1>1, InitTyped, NextTyped, InitCalm, NextCalm, PTL DEF Spec
=============================================================================
