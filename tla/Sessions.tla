------------------------------ MODULE Sessions ------------------------------
(***************************************************************************)
(* The session of one user in the tabs of one browser: AuthContext.tsx,    *)
(* the interceptors of api/client.ts, ProtectedRoute.tsx and LoginPage.tsx *)
(* in each tab, the cookie with the refresh token that the tabs share, and *)
(* behind them refresh, login and logout of auth_service.py and            *)
(* get_current_user of dependencies/auth.py.                               *)
(*                                                                         *)
(* Login and refresh issue a pair of tokens, access and refresh, that has  *)
(* a number here.  A refresh token is good for one exchange: it goes to    *)
(* the block list, whose index on it is unique.                            *)
(***************************************************************************)
EXTENDS Naturals, FiniteSets

CONSTANTS
    Tabs,
    MaxPairs,   \* pairs of tokens; the user pauses when they may run out
    MaxCalls,   \* requests in flight at which the user pauses
    None

ASSUME SessionsAssumption == None \notin Nat /\ MaxPairs \in Nat \ {0} /\ MaxCalls \in Nat \ {0}

VARIABLES
    tab,        \* per tab the state of AuthContext and of the module client.ts
    cookie,     \* refresh token of the browser, or None
    calls,      \* requests sent and not yet taken back
    from,       \* per pair issued: the refresh token it was exchanged for
    blocked,    \* refresh tokens on the block list
    dead,       \* access tokens that have expired or are on the block list
    active,     \* is_active of the user
    calm        \* no answer was lost, no token expired before its first use, no second
                \* tab was opened, nobody was deactivated, and who logged out or in waited
                \* for the answers under way

vars == <<tab, cookie, calls, from, blocked, dead, active, calm>>
server == <<from, blocked, dead, active>>

Pairs == 1..MaxPairs
issued == Cardinality(DOMAIN from)
Closed == [open |-> FALSE, isInitializing |-> FALSE, isAuthenticated |-> FALSE, token |-> None,
           refreshing |-> FALSE, loading |-> FALSE, left |-> FALSE]

\* carries: the cookie for a refresh, the access token otherwise; right: whether
\* the password of a login is; retry: _retry; pair: the tokens of the answer.
Call(t, fn, carries, right) ==
    [tab |-> t, fn |-> fn, carries |-> carries, right |-> right, retry |-> FALSE, st |-> "sent", pair |-> None]
Of(t) == {c \in calls : c.tab = t}
Refreshes == {"mount", "silent"}

Init ==
    /\ tab = [t \in Tabs |-> Closed]
    /\ cookie \in {None, 1}
    /\ from = IF cookie = None THEN <<>> ELSE <<None>>
    /\ calls = {} /\ blocked = {} /\ dead = {} /\ active = TRUE /\ calm = TRUE

---------------------------------------------------------------------------
(* The server.                                                             *)
Goes(c, st) == calls' = (calls \ {c}) \cup {[c EXCEPT !.st = st]}
\* Another pair is issued, in exchange for old.
Paired(old) == [n \in DOMAIN from \cup {issued + 1} |-> IF n = issued + 1 THEN old ELSE from[n]]
Issues(c) == calls' = (calls \ {c}) \cup {[c EXCEPT !.st = "ok", !.pair = issued + 1]}

\* AuthService.refresh: the token is looked up on the block list, then the
\* user, then the token is put on the list.
refresh_checks(c) ==
    /\ c.fn \in Refreshes /\ c.st = "sent"
    /\ Goes(c, IF c.carries = None \/ c.carries \in blocked \/ ~active THEN "401" ELSE "checked")
    /\ UNCHANGED server

\* Broken variant: without the unique index, both exchanges go through.
refresh_rotates_twice(c) ==
    /\ c.fn \in Refreshes /\ c.st = "checked"
    /\ blocked' = blocked \cup {c.carries}
    /\ from' = Paired(c.carries)
    /\ Issues(c)
    /\ UNCHANGED <<dead, active>>

\* add_to_blocklist: the unique index refuses the second of two exchanges.
refresh_rotates(c) ==
    /\ c.fn \in Refreshes /\ c.st = "checked"
    /\ IF c.carries \in blocked
       THEN Goes(c, "500") /\ UNCHANGED server
       ELSE /\ blocked' = blocked \cup {c.carries}
            /\ from' = Paired(c.carries)
            /\ Issues(c)
            /\ UNCHANGED <<dead, active>>

login_(c) ==
    /\ c.fn = "login" /\ c.st = "sent"
    /\ IF c.right /\ active
       THEN from' = Paired(None) /\ Issues(c) /\ UNCHANGED <<blocked, dead, active>>
       ELSE Goes(c, "401") /\ UNCHANGED server

\* HTTPBearer answers 403 where there is no token at all.  Logging out blocks
\* the access token; the refresh token stays good.
get_current_user(c) ==
    /\ c.fn \in {"api", "me", "logout"} /\ c.st = "sent"
    /\ Goes(c, CASE c.carries = None -> "403" [] c.carries \in dead \/ ~active -> "401" [] OTHER -> "ok")
    /\ dead' = IF c.fn = "logout" /\ c.carries # None THEN dead \cup {c.carries} ELSE dead
    /\ UNCHANGED <<from, blocked, active>>

Server(c) ==
    /\ refresh_checks(c) \/ refresh_rotates(c) \/ login_(c) \/ get_current_user(c)
    /\ UNCHANGED <<tab, cookie, calm>>

---------------------------------------------------------------------------
(* What happens around the tabs.                                           *)
expire ==
    /\ \E n \in DOMAIN from \ dead :
          /\ dead' = dead \cup {n}
          /\ calm' = (calm /\ ~\E c \in calls : c.pair = n \/ (c.retry /\ c.carries = n))
    /\ issued + Cardinality(calls) < MaxPairs
    /\ UNCHANGED <<tab, cookie, calls, from, blocked, active>>

deactivate ==
    /\ active /\ active' = FALSE /\ calm' = FALSE
    /\ UNCHANGED <<tab, cookie, calls, from, blocked, dead>>

lose(c) ==
    /\ c.st \notin {"lost", "waiting"}
    /\ Goes(c, "lost")
    /\ calm' = FALSE
    /\ UNCHANGED <<tab, cookie, server>>

---------------------------------------------------------------------------
(* The user.                                                               *)
May(t) == Cardinality(Of(t)) < MaxCalls /\ issued + Cardinality(calls) < MaxPairs
Sends(t, cells, c) ==
    /\ May(t)
    /\ tab' = [tab EXCEPT ![t] = cells]
    /\ calls' = calls \cup {c}
    /\ UNCHANGED <<cookie, server>>

\* A tab is opened, or loaded again: AuthProvider mounts.
mount(t) ==
    /\ ~tab[t].open
    /\ Sends(t, [tab[t] EXCEPT !.open = TRUE, !.isInitializing = TRUE], Call(t, "mount", cookie, FALSE))
    /\ calm' = (calm /\ \A u \in Tabs : ~tab[u].open)

\* ProtectedRoute.tsx: the page, or /login.
AtPage(t) == tab[t].open /\ ~tab[t].isInitializing /\ tab[t].isAuthenticated
AtLogin(t) == tab[t].open /\ ~tab[t].isInitializing /\ ~tab[t].isAuthenticated

\* A page calls the API.
call(t) ==
    /\ AtPage(t)
    /\ Sends(t, tab[t], Call(t, "api", tab[t].token, FALSE))
    /\ calm' = (calm /\ ~\E c \in Of(t) : c.fn = "logout")

logout(t) ==
    /\ AtPage(t)
    /\ Sends(t, tab[t], Call(t, "logout", tab[t].token, FALSE))
    /\ calm' = (calm /\ calls = {})

handleSubmit(t) ==
    /\ AtLogin(t) /\ ~tab[t].loading
    /\ \E right \in BOOLEAN :
          Sends(t, [tab[t] EXCEPT !.loading = TRUE], Call(t, "login", tab[t].token, right))
    /\ calm' = (calm /\ calls = {})

---------------------------------------------------------------------------
(* The interceptor of api/client.ts, and what the callers do.              *)
Finishes(c, cells, more) ==
    /\ tab' = [tab EXCEPT ![c.tab] = cells]
    /\ calls' = (calls \ {c}) \cup more

Out(t) == [tab[t] EXCEPT !.token = None, !.isAuthenticated = FALSE, !.left = TRUE]

\* A 401 waits for the refresh that is under way, or starts one; once only.
Retries(c) == c.st = "401" /\ ~c.retry /\ c.fn \notin Refreshes

\* Broken variant: every 401 sends a refresh of its own.
intercept_each(c) ==
    /\ Retries(c)
    /\ calls' = (calls \ {c}) \cup {[c EXCEPT !.st = "waiting"],
                                   [Call(c.tab, "silent", cookie, FALSE) EXCEPT !.right = tab[c.tab].refreshing]}
    /\ tab' = [tab EXCEPT ![c.tab].refreshing = TRUE]
    /\ UNCHANGED <<cookie, calm>>

intercept(c) ==
    /\ Retries(c)
    /\ IF tab[c.tab].refreshing
       THEN /\ Goes(c, "waiting")
            /\ UNCHANGED tab
       ELSE /\ calls' = (calls \ {c}) \cup {[c EXCEPT !.st = "waiting"], Call(c.tab, "silent", cookie, FALSE)}
            /\ tab' = [tab EXCEPT ![c.tab].refreshing = TRUE]
    /\ UNCHANGED <<cookie, calm>>

\* The refresh ends: those who waited are sent again, or fail.
Waiting(t) == {c \in Of(t) : c.st = "waiting"}
Ended(t) ==
    LET fns == {c.fn : c \in Waiting(t)}
    IN  [tab[t] EXCEPT !.refreshing = FALSE, !.token = None,
                       !.isAuthenticated = @ /\ "logout" \notin fns,
                       !.left = @ \/ "logout" \in fns,
                       !.loading = @ /\ "login" \notin fns,
                       !.isInitializing = @ /\ "me" \notin fns]

\* Broken variant: refreshPromise stays when the refresh fails.
silent_stuck(c) ==
    /\ c.fn = "silent"
    /\ IF c.st = "ok"
       THEN /\ cookie' = c.pair
            /\ tab' = [tab EXCEPT ![c.tab].refreshing = FALSE, ![c.tab].token = c.pair]
            /\ calls' = ((calls \ {c}) \ Waiting(c.tab))
                        \cup {[w EXCEPT !.st = "sent", !.retry = TRUE, !.carries = c.pair] : w \in Waiting(c.tab)}
       ELSE /\ c.st \in {"401", "500", "lost"}
            /\ tab' = [tab EXCEPT ![c.tab] = [Ended(c.tab) EXCEPT !.refreshing = TRUE]]
            /\ calls' = (calls \ {c}) \ Waiting(c.tab)
            /\ cookie' = cookie
    /\ UNCHANGED calm

silent(c) ==
    /\ c.fn = "silent"
    /\ \/ /\ c.st = "ok"
          /\ cookie' = c.pair
          /\ tab' = [tab EXCEPT ![c.tab].refreshing = FALSE, ![c.tab].token = c.pair]
          /\ calls' = ((calls \ {c}) \ Waiting(c.tab))
                      \cup {[w EXCEPT !.st = "sent", !.retry = TRUE, !.carries = c.pair] : w \in Waiting(c.tab)}
       \/ /\ c.st \in {"401", "500", "lost"}
          /\ tab' = [tab EXCEPT ![c.tab] = Ended(c.tab)]
          /\ calls' = (calls \ {c}) \ Waiting(c.tab)
          /\ cookie' = cookie
    /\ UNCHANGED calm

\* AuthContext.tsx: the refresh of the mount, and who it is.
mounted(c) ==
    /\ c.fn = "mount"
    /\ \/ /\ c.st = "ok"
          /\ cookie' = c.pair
          /\ Finishes(c, [tab[c.tab] EXCEPT !.token = c.pair, !.isAuthenticated = TRUE],
                         {Call(c.tab, "me", c.pair, FALSE)})
       \/ /\ c.st \in {"401", "500", "lost"}
          /\ Finishes(c, [tab[c.tab] EXCEPT !.isInitializing = FALSE], {})
          /\ cookie' = cookie
    /\ UNCHANGED calm

Final(c) == c.st \in {"ok", "403", "lost"} \/ (c.st = "401" /\ c.retry)

me(c) ==
    /\ c.fn = "me" /\ Final(c)
    /\ Finishes(c, [tab[c.tab] EXCEPT !.isInitializing = FALSE], {})
    /\ UNCHANGED <<cookie, calm>>

answered(c) == c.fn = "api" /\ Final(c) /\ Finishes(c, tab[c.tab], {}) /\ UNCHANGED <<cookie, calm>>

\* Broken variant: the answer does not take the cookie back.
loggedOutKeeps(c) ==
    /\ c.fn = "logout" /\ Final(c)
    /\ Finishes(c, Out(c.tab), {})
    /\ UNCHANGED <<cookie, calm>>

\* Whatever the server says, the tab is logged out.
loggedOut(c) ==
    /\ c.fn = "logout" /\ Final(c)
    /\ Finishes(c, Out(c.tab), {})
    /\ cookie' = IF c.st = "ok" THEN None ELSE cookie
    /\ UNCHANGED calm

loggedIn(c) ==
    /\ c.fn = "login" /\ Final(c)
    /\ IF c.st = "ok"
       THEN /\ cookie' = c.pair
            /\ Finishes(c, [tab[c.tab] EXCEPT !.token = c.pair, !.isAuthenticated = TRUE,
                                              !.loading = FALSE, !.left = FALSE], {})
       ELSE cookie' = cookie /\ Finishes(c, [tab[c.tab] EXCEPT !.loading = FALSE], {})
    /\ UNCHANGED calm

Takes(c) ==
    /\ intercept(c) \/ silent(c) \/ mounted(c) \/ me(c) \/ answered(c) \/ loggedOut(c) \/ loggedIn(c)
    /\ UNCHANGED server

Next ==
    \/ \E t \in Tabs : mount(t) \/ call(t) \/ logout(t) \/ handleSubmit(t)
    \/ expire \/ deactivate
    \/ \E c \in calls : Server(c) \/ Takes(c) \/ lose(c)

Fairness == \A t \in Tabs : WF_vars(\E c \in Of(t) : Server(c) \/ Takes(c))
Spec == Init /\ [][Next]_vars /\ Fairness

---------------------------------------------------------------------------
\* A refresh token is good for one exchange, whatever tabs, lost answers and
\* the two halves of AuthService.refresh do (auth_service.py:308-324): the
\* look-up on the block list alone would let two through.
ExchangedOnce == \A m, n \in DOMAIN from : from[m] # None /\ from[m] = from[n] => m = n

\* Who is at a page has an access token to go on with, as long as one tab is
\* open, no answer is lost and nobody is deactivated: the requests that meet an
\* expired token at the same time share one refresh (client.ts:38-49), or the
\* second would be refused and take the token of the first away.
KeepsToken == calm => \A t \in Tabs : AtPage(t) => tab[t].token # None

\* After a logout (AuthContext.tsx:72-79) nothing that is still under way logs
\* the browser in again: unless the user did not wait, its cookie is gone.
OutIsOut == calm => \A t \in Tabs : tab[t].left => cookie = None

\* A refresh that failed or got no answer lets those who wait for it fail, and
\* the next 401 start another: nobody waits for ever (client.ts:37-60).
WaitEnds == \A t \in Tabs : tab[t].refreshing ~> ~tab[t].refreshing
=============================================================================
