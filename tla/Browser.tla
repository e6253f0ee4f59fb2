------------------------------ MODULE Browser ------------------------------
(***************************************************************************)
(* A page or dialog of the front end in one browser tab: what its useState *)
(* cells hold, which requests its handlers await, and which answers it     *)
(* shows.  The modules of the pages EXTEND this one and give one action    *)
(* per handler; a handler that awaits a request is cut at the await: one   *)
(* disjunct sends, others take the answer.  Between the two anything may   *)
(* happen: other handlers run, other answers arrive, in any order, and     *)
(* what the handler's closure captured (the fields q and x of its request) *)
(* grows old.                                                              *)
(*                                                                         *)
(* The server is abstract: it refuses a request or carries it out, and one *)
(* that writes makes every answer computed before it out of date: of each  *)
(* answer the model knows the writes since it was computed.                *)
(***************************************************************************)
EXTENDS Naturals, FiniteSets

CONSTANTS
    Rows,       \* rows of a table, and the things they stand for
    None,       \* null, undefined
    MaxCalls    \* requests in flight at which the user of the model pauses

ASSUME BrowserAssumption == MaxCalls \in Nat \ {0} /\ None \notin Rows

VARIABLES
    role,       \* role of the session, which the model does not change
    ui,         \* the cells of the page, by name; ui.page is the page
    calls,      \* requests sent and not yet taken back by their handler
    calm,       \* so far the user waited for answers, and none was an error
    shown       \* per read request: the answer on the screen; while calm only

web == <<role, ui, calls, calm, shown>>

\* The cells of f, and those of g that f has not.
f ++ g == [x \in DOMAIN f \cup DOMAIN g |-> IF x \in DOMAIN f THEN f[x] ELSE g[x]]

\* The spinner of a table.
Loading == [loading |-> TRUE]

RoleLevel == [Viewer |-> 1, Operator |-> 2, Administrator |-> 3, SuperAdmin |-> 4]
Roles == DOMAIN RoleLevel
hasRole(required) == RoleLevel[role] >= RoleLevel[required]
AtLeast(required) == {r \in Roles : RoleLevel[r] >= RoleLevel[required]}

\* App.tsx: the role a page asks for.  Those of Public need no session.
Routes ==
    [p \in {"DashboardPage", "IPRecordsPage", "SubnetsPage", "UnusedIPsPage", "FilesPage", "VaultPage"} |->
        "Viewer"]
    ++ [p \in {"NetworkScanPage", "PaloAltoPage", "IntegrationsPage"} |-> "Operator"]
    ++ [p \in {"UsersPage", "PendingApprovalsPage", "AuditLogPage"} |-> "Administrator"]
Public == {"RegistrationPage", "SharePage", "UploadRequestPage"}

\* A list has two pages, and one when a filter narrows it.
Filters == {"all", "some"}
PageNos(f) == IF f = "all" THEN 1..2 ELSE {1}
Nothing == [q |-> None, x |-> None, since |-> {None}]

---------------------------------------------------------------------------
\* A request: the handler that awaits it, the query (page, filters) and the
\* subject its closure captured.
Req(fn, q, x) == [fn |-> fn, q |-> q, x |-> x]

FreeId(fn, others) == CHOOSE i \in 0..Cardinality(others) : ~\E c \in others : c.fn = fn /\ c.id = i

\* The requests, sent beside others.  since: what the page's requests wrote since
\* the answer was computed, as pairs of a handler and the answer it got.
New(reqs, others) == {[id |-> FreeId(r.fn, others), st |-> "sent", since |-> {}] ++ r : r \in reqs}

Ok(fn) == {c \in calls : c.fn = fn /\ c.st = "ok"}
Same(fn) == {c \in calls : c.fn = fn /\ c.st = "same"}
Failed(fn) == {c \in calls : c.fn = fn /\ c.st = "failed"}
InFlight(fns) == \E c \in calls : c.fn \in fns

\* What the properties say of answers they say of calm behaviours, and shown
\* and the field since are followed no further.
Follow(stays, reqs, screen) ==
    /\ calm' = stays
    /\ calls' = IF stays THEN reqs ELSE {[c EXCEPT !.since = {}] : c \in reqs}
    /\ shown' = IF stays THEN screen ELSE [f \in DOMAIN shown |-> Nothing]

\* Nothing is under way: no request, and no timer of a page that has one.
Idle == calls = {} /\ ("timer" \in DOMAIN ui => ui.timer = None)

\* The user does something: cells are set, requests are sent, and the
\* answers to the reads of gone are taken off the screen.
ActClearing(gone, cells, reqs) ==
    /\ Cardinality(calls) < MaxCalls
    /\ ui' = cells ++ ui
    /\ Follow(calm /\ Idle, calls \cup New(reqs, calls),
              [f \in DOMAIN shown |-> IF f \in gone THEN Nothing ELSE shown[f]])
    /\ UNCHANGED role

Act(cells, reqs) == ActClearing({}, cells, reqs)

\* The requests of fns are aborted, or lose the component that awaits them;
\* others are sent in their place.
Replace(stays, gone, fns, cells, reqs) ==
    LET kept == {c \in calls : c.fn \notin fns}
    IN  /\ ui' = cells ++ ui
        /\ Follow(stays, kept \cup New(reqs, kept),
                  [f \in DOMAIN shown |-> IF f \in gone THEN Nothing ELSE shown[f]])
        /\ UNCHANGED role

AbortClearing(gone, fns, cells, reqs) == Replace(calm /\ Idle, gone, fns, cells, reqs)
Abort(fns, cells, reqs) == AbortClearing({}, fns, cells, reqs)

\* A timer goes off, not a click.
FireOver(fns, cells, reqs) == Replace(calm, fns, fns, cells, reqs)
Fire(cells, reqs) == Cardinality(calls) < MaxCalls /\ FireOver({}, cells, reqs)

\* The second half of a handler: it takes the answer c, sets cells, sends,
\* and leaves screen.
SettleShowing(c, cells, reqs, screen) ==
    /\ ui' = cells ++ ui
    /\ Follow(calm, (calls \ {c}) \cup New(reqs, calls \ {c}), screen)
    /\ UNCHANGED role

Settle(c, cells, reqs) == SettleShowing(c, cells, reqs, shown)
Done(fn, cells) == \E c \in Ok(fn) : Settle(c, cells, {})
Fails(fn, cells) == \E c \in Failed(fn) : Settle(c, cells, {})

\* The answer c is on the screen, as the answer to the read fn.
Display(c, fn, cells, reqs) ==
    SettleShowing(c, cells, reqs, [shown EXCEPT ![fn] = [q |-> c.q, x |-> c.x, since |-> c.since]])
Show(fn, cells) == \E c \in Ok(fn) : Display(c, fn, cells, {})

\* It is taken off: the handler shows an empty list instead.
Clear(c, fn, cells) == SettleShowing(c, cells, {}, [shown EXCEPT ![fn] = Nothing])

\* ProtectedRoute.tsx: the page opens, if the session has the role for it (the
\* model gives those without a session the least); its effects run once.
Mount(cells, reqs, reads) ==
    /\ role \in IF cells.page \in Public THEN {"Viewer"} ELSE AtLeast(Routes[cells.page])
    /\ ui = cells
    /\ calls = New(reqs, {})
    /\ shown = [f \in reads |-> Nothing]
    /\ calm = TRUE

---------------------------------------------------------------------------
\* An answer c to one of reads, in flight or shown, after the write.
Aged(c, reads, write) ==
    IF c.fn \in reads /\ c.st # "sent" THEN [c EXCEPT !.since = @ \cup {write}] ELSE c

\* The server carries out a request.  touches[fn] are the reads of which the
\* request of handler fn changes something that the page shows.  One of maybe may
\* answer that there was nothing to update, and have changed maybe[fn] even so.
Serve(touches, maybe) ==
    \E c \in calls, st \in {"ok", "same"}, wrote \in BOOLEAN :
        LET changes == IF st = "ok" THEN touches ELSE maybe
            old == IF wrote /\ c.fn \in DOMAIN changes THEN changes[c.fn] ELSE {}
        IN  /\ c.st = "sent"
            /\ IF st = "ok" THEN wrote ELSE c.fn \in DOMAIN maybe
            /\ Follow(calm,
                      {Aged(d, old, <<c.fn, st>>) : d \in calls \ {c}} \cup {[c EXCEPT !.st = st, !.since = {}]},
                      [f \in DOMAIN shown |->
                          IF f \in old THEN [shown[f] EXCEPT !.since = @ \cup {<<c.fn, st>>}] ELSE shown[f]])
            /\ UNCHANGED <<role, ui>>

\* It refuses, or the answer is lost.
Refuse ==
    \E c \in calls :
        /\ c.st = "sent"
        /\ Follow(FALSE, (calls \ {c}) \cup {[c EXCEPT !.st = "failed"]}, shown)
        /\ UNCHANGED <<role, ui>>
=============================================================================
