---------------------------- MODULE Screens_proofs ----------------------------
(***************************************************************************)
(* What the pages of App show is up to date, for any number of rows and    *)
(* requests in flight.                                                     *)
(*                                                                         *)
(* While a behaviour is calm, a click finds no request in flight, so that  *)
(* what is in flight is what the last click sent, or what its answers sent *)
(* in turn; and a request that changes what a list shows is alone.  For    *)
(* a list that is wanted, then, the answers on their way are to the query  *)
(* that is chosen, commands carry the query with which they will load it   *)
(* again, and what is on the screen is good, or one of these is under way. *)
(*                                                                         *)
(* A list: the cell fn of shown, the reads whose answers go there, the     *)
(* commands cmds after which it is loaded again, with the query (byq) or   *)
(* the subject (byx) they carry, those of maybe that may find nothing to   *)
(* change, and the writes left, after which nobody loads it again.         *)
(***************************************************************************)
EXTENDS App_proofs

Fields == {"fn", "q", "x", "st", "since"}

\* The requests C, where those of T are alone when they are there.
Steady(T, C) ==
    \A c \in C : /\ Fields \subseteq DOMAIN c /\ c.st \in {"sent", "ok", "same"}
                 /\ c.fn \in T => C = {c}

Good(L, q, x, S) == \E old \in SUBSET L.left : S[L.fn] = [q |-> q, x |-> x, since |-> old]

InOrder(L, q, x, C, S) ==
    \A c \in C : /\ c.fn \in L.reads => c.q = q /\ c.x = x /\ (c.st = "sent" \/ c.since \subseteq L.left)
                 /\ (c.fn \in L.byq => c.q = q) /\ (c.fn \in L.byx => c.x = x)
                 /\ c.fn \in L.maybe /\ c.st # "ok" => Good(L, q, x, S)

Due(L, q, x, C, S) == Good(L, q, x, S) \/ \E c \in C : c.fn \in L.reads \cup L.cmds

Asked(T, L, q, x) == calm => Steady(T, calls) /\ InOrder(L, q, x, calls, shown)
Fresh(T, L, q, x) == Asked(T, L, q, x) /\ (calm => Due(L, q, x, calls, shown))

\* The same of the next state, for the q and x of that state.
WillBeAsked(T, L, q, x) == calm' => Steady(T, calls') /\ InOrder(L, q, x, calls', shown')
WillBeFresh(T, L, q, x) == WillBeAsked(T, L, q, x) /\ (calm' => Due(L, q, x, calls', shown'))

\* The list has nothing to do with the handlers F.
Apart(L, F) ==
    \A f \in F : f \notin L.reads /\ f \notin L.cmds /\ f \notin L.byq /\ f \notin L.byx /\ f \notin L.maybe

---------------------------------------------------------------------------
(* Requests that were just sent.                                           *)
Reqs(R) == \A r \in R : DOMAIN r = {"fn", "q", "x"}
Asks1(n, r) == n.fn = r.fn /\ n.q = r.q /\ n.x = r.x
Asking(R, C) ==
    /\ \A n \in C : Fields \subseteq DOMAIN n /\ n.st = "sent" /\ \E r \in R : Asks1(n, r)
    /\ \A r \in R : \E n \in C : Asks1(n, r)
    /\ \A r : R = {r} => \E n : C = {n}
    /\ R = {} => C = {}

LEMMA ReqFields ==
    ASSUME NEW fn, NEW q, NEW x
    PROVE  Reqs({Req(fn, q, x)}) /\ Req(fn, q, x).fn = fn /\ Req(fn, q, x).q = q /\ Req(fn, q, x).x = x
BY DEF Reqs, Req

LEMMA NewAsking == ASSUME NEW R, NEW K, Reqs(R) PROVE Asking(R, New(R, K))
<1> DEFINE n(r) == [id |-> FreeId(r.fn, K), st |-> "sent", since |-> {}] ++ r
<1>1. ASSUME NEW r \in R
      PROVE  Fields \subseteq DOMAIN n(r) /\ n(r).st = "sent" /\ Asks1(n(r), r)
  <2>1. DOMAIN r = {"fn", "q", "x"}
    BY DEF Reqs
  <2> QED
    BY <2>1 DEF ++, Fields, Asks1
<1>2. New(R, K) = {n(r) : r \in R}
  BY DEF New
<1> HIDE DEF n
<1>3. ASSUME NEW r, R = {r} PROVE \E m : New(R, K) = {m}
  <2>1. New(R, K) = {n(r)}
    BY <1>2, <1>3
  <2> QED
    BY <2>1
<1>4. R = {} => New(R, K) = {}
  BY <1>2
<1> QED
  BY <1>1, <1>2, <1>3, <1>4 DEF Asking

\* Alone, or beside nothing that must be alone.
Simple(T, R) == Reqs(R) /\ ((\A r \in R : r.fn \notin T) \/ \E r : R = {r})

---------------------------------------------------------------------------
(* What the forms of action do to a calm behaviour.  Either the requests   *)
(* R take the place of all those before, which were of handlers in B, and  *)
(* at most the lists of gone change;                                       *)
Renews(B, gone, cells, R) ==
    /\ ui' = cells ++ ui
    /\ calm' => /\ calm /\ (\A c \in calls : c.fn \in B)
                /\ Asking(R, calls')
                /\ \A f \in DOMAIN shown : f \notin gone => shown'[f] = shown[f]

\* or an answer for fn is taken beside the others, and R sent;
Passes(fn, st, cells, R) ==
    /\ ui' = cells ++ ui
    /\ calm' => \E c \in calls :
                    /\ calm /\ c.fn = fn /\ c.st = st
                    /\ calls' = (calls \ {c}) \cup New(R, calls \ {c})
                    /\ shown' = shown

\* or it goes to the list of read.
Shows(fn, read, cells, R) ==
    /\ ui' = cells ++ ui
    /\ calm' => \E c \in calls :
                    /\ calm /\ c.fn = fn /\ c.st \in {"ok", "same"}
                    /\ calls' = (calls \ {c}) \cup New(R, calls \ {c})
                    /\ shown' = [shown EXCEPT ![read] = [q |-> c.q, x |-> c.x, since |-> c.since]]

LEMMA ClickRenews ==
    ASSUME NEW gone, NEW cells, NEW R, Reqs(R), ActClearing(gone, cells, R)
    PROVE  Renews({}, gone, cells, R)
<1>1. calm' => calm /\ calls = {} /\ calls' = New(R, {})
          /\ (\A f \in DOMAIN shown : f \notin gone => shown'[f] = shown[f])
  <2>1. calls = {} => calls \cup New(R, calls) = New(R, {})
    OBVIOUS
  <2> QED
    BY <2>1 DEF ActClearing, Follow, Idle
<1> QED
  BY <1>1, NewAsking DEF Renews, ActClearing

LEMMA ActRenews ==
    ASSUME NEW cells, NEW R, Reqs(R), Act(cells, R)
    PROVE  Renews({}, {}, cells, R)
BY ClickRenews DEF Act

LEMMA AbortRenews ==
    ASSUME NEW gone, NEW fns, NEW cells, NEW R, Reqs(R), AbortClearing(gone, fns, cells, R)
    PROVE  Renews({}, gone, cells, R)
<1> DEFINE kept == {c \in calls : c.fn \notin fns}
<1>1. Follow(calm /\ Idle, kept \cup New(R, kept),
             [f \in DOMAIN shown |-> IF f \in gone THEN Nothing ELSE shown[f]])
  BY DEF AbortClearing, Replace
<1>2. calls = {} => kept = {}
  OBVIOUS
<1> HIDE DEF kept
<1>3. calm' => calm /\ calls = {} /\ calls' = New(R, {})
          /\ (\A f \in DOMAIN shown : f \notin gone => shown'[f] = shown[f])
  BY <1>1, <1>2 DEF Follow, Idle
<1> QED
  BY <1>3, NewAsking DEF Renews, AbortClearing, Replace

LEMMA SettlePasses ==
    ASSUME NEW c \in calls, NEW cells, NEW R, Settle(c, cells, R)
    PROVE  Passes(c.fn, c.st, cells, R)
BY DEF Settle, SettleShowing, Follow, Passes

LEMMA DonePasses ==
    ASSUME NEW fn, NEW cells, Done(fn, cells)
    PROVE  Passes(fn, "ok", cells, {})
BY SettlePasses DEF Done, Ok

LEMMA DisplayShows ==
    ASSUME NEW c \in calls, c.st \in {"ok", "same"}, NEW read, NEW cells, NEW R, Display(c, read, cells, R)
    PROVE  Shows(c.fn, read, cells, R)
BY DEF Display, SettleShowing, Follow, Shows

LEMMA ShowShows ==
    ASSUME NEW fn, NEW cells, Show(fn, cells)
    PROVE  Shows(fn, fn, cells, {})
BY DisplayShows DEF Show, Ok

\* In a calm behaviour no request has failed.
LEMMA FailedNotCalm ==
    ASSUME NEW T, NEW fn, NEW cells, NEW R, calm => Steady(T, calls), Fails(fn, cells)
    PROVE  ~calm'
BY DEF Fails, Settle, SettleShowing, Follow, Failed, Steady

LEMMA RefuseNotCalm == ASSUME Refuse PROVE ~calm'
BY DEF Refuse, Follow

\* A request that must be alone was alone: what it sends is all there is.
LEMMA AloneRenews ==
    ASSUME NEW T, NEW fn \in T, NEW st, NEW cells, NEW R, Reqs(R), calm => Steady(T, calls),
           Passes(fn, st, cells, R)
    PROVE  Renews({fn}, {}, cells, R)
<1> SUFFICES ASSUME calm'
             PROVE  /\ calm /\ (\A c \in calls : c.fn \in {fn})
                    /\ Asking(R, calls')
                    /\ \A f \in DOMAIN shown : shown'[f] = shown[f]
  BY DEF Passes, Renews
<1>1. PICK c \in calls : calm /\ c.fn = fn /\ calls' = (calls \ {c}) \cup New(R, calls \ {c}) /\ shown' = shown
  BY DEF Passes
<1>2. calls = {c}
  BY <1>1 DEF Steady
<1>3. calls' = New(R, {})
  <2>1. calls \ {c} = {}
    BY <1>2
  <2> QED
    BY <1>1, <2>1
<1> QED
  BY <1>1, <1>2, <1>3, NewAsking

LEMMA AloneShows ==
    ASSUME NEW T, NEW fn \in T, NEW read, NEW cells, NEW R, Reqs(R), calm => Steady(T, calls),
           Shows(fn, read, cells, R)
    PROVE  Renews({fn}, {read}, cells, R)
<1> SUFFICES ASSUME calm'
             PROVE  /\ calm /\ (\A c \in calls : c.fn \in {fn})
                    /\ Asking(R, calls')
                    /\ \A f \in DOMAIN shown : f \notin {read} => shown'[f] = shown[f]
  BY DEF Shows, Renews
<1>1. PICK c \in calls : /\ calm /\ c.fn = fn /\ calls' = (calls \ {c}) \cup New(R, calls \ {c})
                         /\ shown' = [shown EXCEPT ![read] = [q |-> c.q, x |-> c.x, since |-> c.since]]
  BY DEF Shows
<1>2. calls = {c}
  BY <1>1 DEF Steady
<1>3. calls' = New(R, {})
  <2>1. calls \ {c} = {}
    BY <1>2
  <2> QED
    BY <1>1, <2>1
<1> QED
  BY <1>1, <1>2, <1>3, NewAsking

---------------------------------------------------------------------------
(* What they do to a list.                                                 *)
LEMMA RenewSteady ==
    ASSUME NEW T, NEW B, NEW gone, NEW cells, NEW R, Simple(T, R), Renews(B, gone, cells, R)
    PROVE  calm' => Steady(T, calls')
<1> SUFFICES ASSUME calm', NEW c \in calls'
             PROVE  /\ Fields \subseteq DOMAIN c /\ c.st \in {"sent", "ok", "same"}
                    /\ c.fn \in T => calls' = {c}
  BY DEF Steady
<1>1. Asking(R, calls')
  BY DEF Renews
<1>2. PICK r \in R : Asks1(c, r)
  BY <1>1 DEF Asking
<1>3. ASSUME c.fn \in T PROVE calls' = {c}
  <2>1. \E s : R = {s}
    BY <1>2, <1>3 DEF Simple, Asks1
  <2>2. \E n : calls' = {n}
    BY <1>1, <2>1 DEF Asking
  <2> QED
    BY <2>2
<1> QED
  BY <1>1, <1>3 DEF Asking

\* Neither the requests of before nor those of R are of the list.
LEMMA RenewSpares ==
    ASSUME NEW T, NEW L, NEW q, NEW x, NEW B, NEW gone, NEW cells, NEW R, Simple(T, R), Renews(B, gone, cells, R),
           L.fn \in DOMAIN shown \ gone, Apart(L, B), \A r \in R : Apart(L, {r.fn})
    PROVE  (Asked(T, L, q, x) => WillBeAsked(T, L, q, x)) /\ (Fresh(T, L, q, x) => WillBeFresh(T, L, q, x))
<1>1. calm' => Steady(T, calls')
  BY RenewSteady
<1>2. calm' => InOrder(L, q, x, calls', shown')
  BY DEF Renews, Asking, Asks1, InOrder, Apart
<1>3. ASSUME Fresh(T, L, q, x), calm' PROVE Due(L, q, x, calls', shown')
  BY <1>3 DEF Renews, Fresh, Due, Good, Apart
<1> QED
  BY <1>1, <1>2, <1>3 DEF WillBeAsked, WillBeFresh

\* They ask for the list, and for what is chosen.
LEMMA RenewAsks ==
    ASSUME NEW T, NEW L, NEW q, NEW x, NEW B, NEW gone, NEW cells, NEW R, Simple(T, R), Renews(B, gone, cells, R),
           \A r \in R : Apart(L, {r.fn}) \/ (r.fn \in L.reads \ L.maybe /\ r.q = q /\ r.x = x),
           \E r \in R : r.fn \in L.reads
    PROVE  WillBeFresh(T, L, q, x)
<1>1. calm' => Steady(T, calls')
  BY RenewSteady
<1>2. calm' => InOrder(L, q, x, calls', shown')
  BY DEF Renews, Asking, Asks1, InOrder, Apart
<1>3. calm' => Due(L, q, x, calls', shown')
  BY DEF Renews, Asking, Asks1, Due
<1> QED
  BY <1>1, <1>2, <1>3 DEF WillBeAsked, WillBeFresh

\* A command is sent which will load the list again, and nothing else.
LEMMA RenewCommands ==
    ASSUME NEW T, NEW L, NEW q, NEW x, NEW B, NEW gone, NEW cells, NEW fn, NEW p, NEW y,
           Renews(B, gone, cells, {Req(fn, p, y)}), fn \in L.cmds \ L.reads,
           fn \in L.byq => p = q, fn \in L.byx => y = x,
           fn \in L.maybe => L.fn \in DOMAIN shown \ gone /\ Apart(L, B) /\ Fresh(T, L, q, x)
    PROVE  WillBeFresh(T, L, q, x)
<1>1. Reqs({Req(fn, p, y)}) /\ Req(fn, p, y).fn = fn /\ Req(fn, p, y).q = p /\ Req(fn, p, y).x = y
  BY ReqFields
<1> DEFINE r == Req(fn, p, y)
<1> HIDE DEF r
<1>2. Renews(B, gone, cells, {r}) /\ r.fn = fn /\ r.q = p /\ r.x = y /\ Simple(T, {r})
  BY <1>1 DEF r, Simple
<1>3. calm' => Steady(T, calls')
  BY <1>2, RenewSteady
<1>4. ASSUME calm', fn \in L.maybe PROVE Good(L, q, x, shown')
  BY <1>2, <1>4 DEF Renews, Fresh, Due, Good, Apart
<1>5. calm' => InOrder(L, q, x, calls', shown')
  BY <1>2, <1>4 DEF Renews, Asking, Asks1, InOrder
<1>6. calm' => Due(L, q, x, calls', shown')
  BY <1>2 DEF Renews, Asking, Asks1, Due
<1> QED
  BY <1>3, <1>5, <1>6 DEF WillBeAsked, WillBeFresh

\* An answer is taken, and reads are sent, that are not of the list.
LEMMA PassSpares ==
    ASSUME NEW T, NEW L, NEW q, NEW x, NEW fn, NEW st, NEW cells, NEW R, Reqs(R), Passes(fn, st, cells, R),
           Apart(L, {fn}), \A r \in R : r.fn \notin T /\ Apart(L, {r.fn}), T \cap {fn} = {} \/ R = {}
    PROVE  (Asked(T, L, q, x) => WillBeAsked(T, L, q, x)) /\ (Fresh(T, L, q, x) => WillBeFresh(T, L, q, x))
<1> SUFFICES ASSUME calm', Asked(T, L, q, x)
             PROVE  /\ Steady(T, calls') /\ InOrder(L, q, x, calls', shown')
                    /\ Due(L, q, x, calls, shown) => Due(L, q, x, calls', shown')
                    /\ calm
  BY DEF WillBeAsked, WillBeFresh, Fresh
<1>1. PICK c \in calls : calm /\ c.fn = fn /\ calls' = (calls \ {c}) \cup New(R, calls \ {c}) /\ shown' = shown
  BY DEF Passes
<1> DEFINE N == New(R, calls \ {c})
<1>2. Asking(R, N)
  BY NewAsking
<1>3. calls' = (calls \ {c}) \cup N
  BY <1>1
<1> HIDE DEF N
<1>4. Steady(T, calls) /\ InOrder(L, q, x, calls, shown)
  BY <1>1 DEF Asked
<1>5. Steady(T, calls')
  <2> SUFFICES ASSUME NEW d \in calls'
               PROVE  /\ Fields \subseteq DOMAIN d /\ d.st \in {"sent", "ok", "same"}
                      /\ d.fn \in T => calls' = {d}
    BY DEF Steady
  <2>1. CASE d \in N
    BY <2>1, <1>2 DEF Asking, Asks1
  <2>2. CASE d \in calls \ {c}
    BY <2>2, <1>1, <1>4 DEF Steady
  <2> QED
    BY <2>1, <2>2, <1>3
<1>6. InOrder(L, q, x, calls', shown')
  BY <1>1, <1>2, <1>3, <1>4 DEF InOrder, Asking, Asks1, Apart
<1>7. Due(L, q, x, calls, shown) => Due(L, q, x, calls', shown')
  BY <1>1, <1>3 DEF Due, Apart
<1> QED
  BY <1>1, <1>5, <1>6, <1>7

\* A command found nothing to change.
LEMMA PassSame ==
    ASSUME NEW T, NEW L, NEW q, NEW x, NEW fn \in L.maybe, NEW cells, Passes(fn, "same", cells, {}),
           Asked(T, L, q, x)
    PROVE  WillBeFresh(T, L, q, x)
<1> SUFFICES ASSUME calm'
             PROVE  /\ Steady(T, calls') /\ InOrder(L, q, x, calls', shown')
                    /\ Due(L, q, x, calls', shown')
  BY DEF WillBeAsked, WillBeFresh
<1>1. PICK c \in calls : /\ calm /\ c.fn = fn /\ c.st = "same"
                         /\ calls' = (calls \ {c}) \cup New({}, calls \ {c}) /\ shown' = shown
  BY DEF Passes
<1>2. calls' = calls \ {c}
  BY <1>1 DEF New
<1> QED
  BY <1>1, <1>2 DEF Asked, Steady, InOrder, Due

\* The answer goes to the list; what is sent after it is not of the list.
LEMMA ShowsFresh ==
    ASSUME NEW T, NEW L, NEW q, NEW x, NEW fn \in L.reads, NEW cells, Shows(fn, L.fn, cells, {}),
           L.fn \in DOMAIN shown, Asked(T, L, q, x)
    PROVE  WillBeFresh(T, L, q, x)
<1> SUFFICES ASSUME calm'
             PROVE  /\ Steady(T, calls') /\ InOrder(L, q, x, calls', shown')
                    /\ Due(L, q, x, calls', shown')
  BY DEF WillBeAsked, WillBeFresh
<1>1. PICK c \in calls : /\ calm /\ c.fn = fn /\ c.st \in {"ok", "same"}
                         /\ calls' = (calls \ {c}) \cup New({}, calls \ {c})
                         /\ shown' = [shown EXCEPT ![L.fn] = [q |-> c.q, x |-> c.x, since |-> c.since]]
  BY DEF Shows
<1>2. calls' = calls \ {c}
  BY <1>1 DEF New
<1>3. c.q = q /\ c.x = x /\ c.since \subseteq L.left
  BY <1>1 DEF Asked, InOrder
<1>4. Good(L, q, x, shown')
  BY <1>1, <1>3 DEF Good
<1> QED
  BY <1>1, <1>2, <1>4 DEF Asked, Steady, InOrder, Due

LEMMA ShowsSpares ==
    ASSUME NEW T, NEW L, NEW q, NEW x, NEW fn, NEW read, NEW cells, Shows(fn, read, cells, {}),
           Apart(L, {fn}), L.fn # read, L.fn \in DOMAIN shown
    PROVE  (Asked(T, L, q, x) => WillBeAsked(T, L, q, x)) /\ (Fresh(T, L, q, x) => WillBeFresh(T, L, q, x))
<1> SUFFICES ASSUME calm', Asked(T, L, q, x)
             PROVE  /\ Steady(T, calls') /\ InOrder(L, q, x, calls', shown')
                    /\ Due(L, q, x, calls, shown) => Due(L, q, x, calls', shown')
                    /\ calm
  BY DEF WillBeAsked, WillBeFresh, Fresh
<1>1. PICK c \in calls : /\ calm /\ c.fn = fn
                         /\ calls' = (calls \ {c}) \cup New({}, calls \ {c})
                         /\ shown' = [shown EXCEPT ![read] = [q |-> c.q, x |-> c.x, since |-> c.since]]
  BY DEF Shows
<1>2. calls' = calls \ {c} /\ shown'[L.fn] = shown[L.fn]
  BY <1>1 DEF New
<1> QED
  BY <1>1, <1>2 DEF Asked, Steady, InOrder, Due, Good, Apart

---------------------------------------------------------------------------
(* The server.                                                             *)
LEMMA ServeKeeps ==
    ASSUME NEW T, NEW L, NEW q, NEW x, NEW touches, NEW maybe, Serve(touches, maybe), L.fn \in DOMAIN shown,
           \A c \in calls, r \in L.reads \cup {L.fn} : c.fn \in DOMAIN touches /\ r \in touches[c.fn] =>
               c.fn \in L.cmds \cap T \/ <<c.fn, "ok">> \in L.left,
           \A c \in calls, r \in L.reads \cup {L.fn} : c.fn \in DOMAIN maybe /\ r \in maybe[c.fn] =>
               <<c.fn, "same">> \in L.left,
           DOMAIN maybe \cap L.cmds \subseteq L.maybe
    PROVE  (Asked(T, L, q, x) => WillBeAsked(T, L, q, x)) /\ (Fresh(T, L, q, x) => WillBeFresh(T, L, q, x))
<1> SUFFICES ASSUME calm', Asked(T, L, q, x)
             PROVE  /\ Steady(T, calls') /\ InOrder(L, q, x, calls', shown')
                    /\ Due(L, q, x, calls, shown) => Due(L, q, x, calls', shown')
                    /\ calm
  BY DEF WillBeAsked, WillBeFresh, Fresh
<1>1. PICK c \in calls, st \in {"ok", "same"}, wrote \in BOOLEAN :
        LET changes == IF st = "ok" THEN touches ELSE maybe
            old == IF wrote /\ c.fn \in DOMAIN changes THEN changes[c.fn] ELSE {}
        IN  /\ c.st = "sent"
            /\ IF st = "ok" THEN wrote ELSE c.fn \in DOMAIN maybe
            /\ Follow(calm,
                      {Aged(d, old, <<c.fn, st>>) : d \in calls \ {c}} \cup {[c EXCEPT !.st = st, !.since = {}]},
                      [f \in DOMAIN shown |->
                          IF f \in old THEN [shown[f] EXCEPT !.since = @ \cup {<<c.fn, st>>}] ELSE shown[f]])
            /\ UNCHANGED <<role, ui>>
  BY DEF Serve
<1> DEFINE changes == IF st = "ok" THEN touches ELSE maybe
           old == IF wrote /\ c.fn \in DOMAIN changes THEN changes[c.fn] ELSE {}
           w == <<c.fn, st>>
           e == [c EXCEPT !.st = st, !.since = {}]
           a(d) == Aged(d, old, w)
<1>2. /\ calm
      /\ calls' = {a(d) : d \in calls \ {c}} \cup {e}
      /\ shown' = [f \in DOMAIN shown |-> IF f \in old THEN [shown[f] EXCEPT !.since = @ \cup {w}] ELSE shown[f]]
  BY <1>1 DEF Follow
<1>3. Steady(T, calls) /\ InOrder(L, q, x, calls, shown)
  BY <1>2 DEF Asked
<1>4. /\ DOMAIN e = DOMAIN c /\ e.fn = c.fn /\ e.q = c.q /\ e.x = c.x /\ e.st = st /\ e.since = {}
      /\ Fields \subseteq DOMAIN c
  BY <1>3 DEF Steady, Fields
<1>5. \A r \in L.reads \cup {L.fn} : r \in old => w \in L.left \/ (st = "ok" /\ c.fn \in L.cmds /\ calls = {c})
  <2>1. c.fn \in T => calls = {c}
    BY <1>3 DEF Steady
  <2> QED
    BY <2>1
<1>6. \A d \in calls :
        /\ DOMAIN a(d) = DOMAIN d /\ a(d).fn = d.fn /\ a(d).q = d.q /\ a(d).x = d.x /\ a(d).st = d.st
        /\ a(d).since = d.since \/ (a(d).since = d.since \cup {w} /\ d.fn \in old)
  BY <1>3 DEF Aged, Steady, Fields
<1>7. \/ shown'[L.fn] = shown[L.fn]
      \/ /\ shown'[L.fn] = [shown[L.fn] EXCEPT !.since = @ \cup {w}]
         /\ w \in L.left \/ (st = "ok" /\ c.fn \in L.cmds /\ calls = {c})
  BY <1>2, <1>5
<1>8. /\ c.st = "sent" /\ st \in {"ok", "same"} /\ (st = "same" => c.fn \in DOMAIN maybe)
      /\ \A y \in calls' : y = e \/ \E d \in calls \ {c} : y = a(d)
      /\ e \in calls' /\ \A d \in calls \ {c} : a(d) \in calls'
  BY <1>1, <1>2
<1> HIDE DEF changes, e, old, w, a
<1>9. Steady(T, calls')
  <2> SUFFICES ASSUME NEW y \in calls'
               PROVE  /\ Fields \subseteq DOMAIN y /\ y.st \in {"sent", "ok", "same"}
                      /\ y.fn \in T => calls' = {y}
    BY DEF Steady
  <2>1. CASE y = e
    <3>1. c.fn \in T => calls = {c}
      BY <1>3 DEF Steady
    <3>2. c.fn \in T => calls' = {e}
      BY <3>1, <1>8
    <3> QED
      BY <2>1, <3>2, <1>4, <1>8
  <2>2. ASSUME NEW d \in calls \ {c}, y = a(d)
        PROVE  /\ Fields \subseteq DOMAIN y /\ y.st \in {"sent", "ok", "same"}
               /\ y.fn \notin T
    BY <2>2, <1>3, <1>6 DEF Steady
  <2> QED
    BY <2>1, <2>2, <1>8
<1>10. Good(L, q, x, shown) /\ ~(st = "ok" /\ c.fn \in L.cmds /\ calls = {c}) => Good(L, q, x, shown')
  BY <1>7 DEF Good
<1>11. InOrder(L, q, x, calls', shown')
  <2> SUFFICES ASSUME NEW y \in calls'
               PROVE  /\ y.fn \in L.reads => y.q = q /\ y.x = x /\ (y.st = "sent" \/ y.since \subseteq L.left)
                      /\ (y.fn \in L.byq => y.q = q) /\ (y.fn \in L.byx => y.x = x)
                      /\ y.fn \in L.maybe /\ y.st # "ok" => Good(L, q, x, shown')
    BY DEF InOrder
  <2>1. CASE y = e
    <3>1. c.fn \in L.maybe => Good(L, q, x, shown)
      BY <1>3, <1>8 DEF InOrder
    <3> QED
      BY <2>1, <3>1, <1>3, <1>4, <1>10 DEF InOrder
  <2>2. ASSUME NEW d \in calls \ {c}, y = a(d)
        PROVE  /\ y.fn \in L.reads => y.q = q /\ y.x = x /\ (y.st = "sent" \/ y.since \subseteq L.left)
               /\ (y.fn \in L.byq => y.q = q) /\ (y.fn \in L.byx => y.x = x)
               /\ y.fn \in L.maybe /\ y.st # "ok" => Good(L, q, x, shown')
    <3>1. calls # {c}
      OBVIOUS
    <3>2. d.fn \in L.reads => d.st = "sent" \/ y.since \subseteq L.left
      BY <2>2, <3>1, <1>3, <1>5, <1>6 DEF InOrder
    <3> QED
      BY <2>2, <3>1, <3>2, <1>3, <1>6, <1>10 DEF InOrder
  <2> QED
    BY <2>1, <2>2, <1>8
<1>12. ASSUME Due(L, q, x, calls, shown) PROVE Due(L, q, x, calls', shown')
  <2>1. \A d \in calls : \E y \in calls' : y.fn = d.fn
    BY <1>4, <1>6, <1>8
  <2>2. (\E d \in calls : d.fn \in L.reads \cup L.cmds) => Due(L, q, x, calls', shown')
    BY <2>1 DEF Due
  <2>3. Good(L, q, x, shown) => Due(L, q, x, calls', shown')
    BY <2>2, <1>10 DEF Due
  <2> QED
    BY <1>12, <2>2, <2>3 DEF Due
<1> QED
  BY <1>2, <1>9, <1>11, <1>12

\* What writes the list loads it again, or leaves it.
Reloads(T, L, touches) ==
    \A fn \in DOMAIN touches, r \in L.reads \cup {L.fn} :
        r \in touches[fn] => fn \in L.cmds \cap T \/ <<fn, "ok">> \in L.left
Leaves(L, maybe) ==
    /\ \A fn \in DOMAIN maybe, r \in L.reads \cup {L.fn} : r \in maybe[fn] => <<fn, "same">> \in L.left
    /\ DOMAIN maybe \cap L.cmds \subseteq L.maybe

LEMMA ServeReloads ==
    ASSUME NEW T, NEW L, NEW q, NEW x, NEW touches, NEW maybe, Serve(touches, maybe), L.fn \in DOMAIN shown,
           Reloads(T, L, touches), Leaves(L, maybe)
    PROVE  (Asked(T, L, q, x) => WillBeAsked(T, L, q, x)) /\ (Fresh(T, L, q, x) => WillBeFresh(T, L, q, x))
BY ServeKeeps DEF Reloads, Leaves

\* On most pages an answer that all is well says that something changed.
Serves(touches) == Serve(touches, <<>>)

LEMMA ServesReloads ==
    ASSUME NEW T, NEW L, NEW q, NEW x, NEW touches, Serves(touches), L.fn \in DOMAIN shown, Reloads(T, L, touches)
    PROVE  (Asked(T, L, q, x) => WillBeAsked(T, L, q, x)) /\ (Fresh(T, L, q, x) => WillBeFresh(T, L, q, x))
<1>1. Leaves(L, <<>>)
  BY NoCells DEF Leaves
<1> QED
  BY <1>1, ServeReloads DEF Serves

LEMMA ServesStays == ASSUME NEW touches, Serves(touches) PROVE ui' = ui /\ (calm' => calm)
BY DEF Serves, Serve, Follow

---------------------------------------------------------------------------
(* The forms the handlers have most often.                                 *)
LEMMA NoReqs == Reqs({}) /\ \A T : Simple(T, {})
BY DEF Reqs, Simple

LEMMA OneReq == ASSUME NEW T, NEW fn, NEW q, NEW x PROVE Simple(T, {Req(fn, q, x)})
BY ReqFields DEF Simple

LEMMA SetsSpares ==
    ASSUME NEW T, NEW L, NEW q, NEW x, NEW cells, Act(cells, {}), L.fn \in DOMAIN shown
    PROVE  /\ ui' = cells ++ ui
           /\ (Asked(T, L, q, x) => WillBeAsked(T, L, q, x)) /\ (Fresh(T, L, q, x) => WillBeFresh(T, L, q, x))
<1>1. Renews({}, {}, cells, {}) /\ Simple(T, {}) /\ Apart(L, {})
  BY ActRenews, NoReqs DEF Apart
<1>2. ui' = cells ++ ui
  BY <1>1 DEF Renews
<1> QED
  BY <1>1, <1>2, RenewSpares

LEMMA SendsSpares ==
    ASSUME NEW T, NEW L, NEW q, NEW x, NEW cells, NEW fn, NEW p, NEW y, Act(cells, {Req(fn, p, y)}),
           Apart(L, {fn}), L.fn \in DOMAIN shown
    PROVE  /\ ui' = cells ++ ui
           /\ (Asked(T, L, q, x) => WillBeAsked(T, L, q, x)) /\ (Fresh(T, L, q, x) => WillBeFresh(T, L, q, x))
<1>1. Renews({}, {}, cells, {Req(fn, p, y)}) /\ Simple(T, {Req(fn, p, y)}) /\ Apart(L, {})
          /\ Req(fn, p, y).fn = fn
  BY ActRenews, OneReq, ReqFields DEF Apart
<1>2. ui' = cells ++ ui
  BY <1>1 DEF Renews
<1>3. \A r \in {Req(fn, p, y)} : Apart(L, {r.fn})
  BY <1>1
<1> QED
  BY <1>1, <1>2, <1>3, RenewSpares

LEMMA RenewAsksOne ==
    ASSUME NEW T, NEW L, NEW q, NEW x, NEW B, NEW gone, NEW cells, NEW fn \in L.reads \ L.maybe,
           Renews(B, gone, cells, {Req(fn, q, x)})
    PROVE  WillBeFresh(T, L, q, x)
<1> DEFINE r == Req(fn, q, x)
<1>1. r.fn = fn /\ r.q = q /\ r.x = x /\ Simple(T, {r}) /\ Renews(B, gone, cells, {r})
  BY OneReq, ReqFields
<1> HIDE DEF r
<1>2. \A s \in {r} : Apart(L, {s.fn}) \/ (s.fn \in L.reads \ L.maybe /\ s.q = q /\ s.x = x)
  BY <1>1
<1>3. \E s \in {r} : s.fn \in L.reads
  BY <1>1
<1> QED
  BY <1>1, <1>2, <1>3, RenewAsks

LEMMA SendsAsks ==
    ASSUME NEW T, NEW L, NEW q, NEW x, NEW cells, NEW fn \in L.reads \ L.maybe, Act(cells, {Req(fn, q, x)})
    PROVE  ui' = cells ++ ui /\ WillBeFresh(T, L, q, x)
<1>1. Renews({}, {}, cells, {Req(fn, q, x)})
  BY ActRenews, ReqFields
<1> QED
  BY <1>1, RenewAsksOne DEF Renews

LEMMA SendsCommand ==
    ASSUME NEW T, NEW L, NEW q, NEW x, NEW cells, NEW fn \in L.cmds \ L.reads, NEW p, NEW y,
           Act(cells, {Req(fn, p, y)}), fn \in L.byq => p = q, fn \in L.byx => y = x,
           fn \in L.maybe => L.fn \in DOMAIN shown /\ Fresh(T, L, q, x)
    PROVE  ui' = cells ++ ui /\ WillBeFresh(T, L, q, x)
<1>1. Renews({}, {}, cells, {Req(fn, p, y)}) /\ Apart(L, {})
  BY ActRenews, ReqFields DEF Apart
<1> QED
  BY <1>1, RenewCommands DEF Renews

LEMMA TakesSpares ==
    ASSUME NEW T, NEW L, NEW q, NEW x, NEW fn, NEW st, NEW cells, Passes(fn, st, cells, {}), Apart(L, {fn})
    PROVE  /\ ui' = cells ++ ui
           /\ (Asked(T, L, q, x) => WillBeAsked(T, L, q, x)) /\ (Fresh(T, L, q, x) => WillBeFresh(T, L, q, x))
BY PassSpares, NoReqs DEF Passes

\* The list is loaded again, for the query or the subject the command carries.
LEMMA ReloadsQuery ==
    ASSUME NEW T, NEW L, NEW q, NEW fn \in T \cap L.byq, NEW c \in Ok(fn), NEW cells,
           NEW read \in L.reads \ L.maybe,
           Settle(c, cells, {Req(read, c.q, None)}), Asked(T, L, q, None)
    PROVE  ui' = cells ++ ui /\ WillBeFresh(T, L, q, None)
<1>1. Passes(fn, "ok", cells, {Req(read, c.q, None)}) /\ (calm' => calm)
  BY SettlePasses DEF Ok, Settle, SettleShowing, Follow
<1>2. calm => c.q = q
  BY DEF Asked, InOrder, Ok
<1>3. calm => Renews({fn}, {}, cells, {Req(read, q, None)})
  BY <1>1, <1>2, ReqFields, AloneRenews DEF Asked
<1>4. calm => WillBeFresh(T, L, q, None)
  BY <1>3, RenewAsksOne
<1>5. ~calm => WillBeFresh(T, L, q, None)
  BY <1>1 DEF WillBeFresh, WillBeAsked
<1> QED
  BY <1>1, <1>4, <1>5 DEF Passes

LEMMA ReloadsSubject ==
    ASSUME NEW T, NEW L, NEW x, NEW fn \in T \cap L.byx, NEW c \in Ok(fn), NEW cells,
           NEW read \in L.reads \ L.maybe,
           Settle(c, cells, {Req(read, None, c.x)}), Asked(T, L, None, x)
    PROVE  ui' = cells ++ ui /\ WillBeFresh(T, L, None, x)
<1>1. Passes(fn, "ok", cells, {Req(read, None, c.x)}) /\ (calm' => calm)
  BY SettlePasses DEF Ok, Settle, SettleShowing, Follow
<1>2. calm => c.x = x
  BY DEF Asked, InOrder, Ok
<1>3. calm => Renews({fn}, {}, cells, {Req(read, None, x)})
  BY <1>1, <1>2, ReqFields, AloneRenews DEF Asked
<1>4. calm => WillBeFresh(T, L, None, x)
  BY <1>3, RenewAsksOne
<1>5. ~calm => WillBeFresh(T, L, None, x)
  BY <1>1 DEF WillBeFresh, WillBeAsked
<1> QED
  BY <1>1, <1>4, <1>5 DEF Passes

LEMMA ReloadsAs ==
    ASSUME NEW T, NEW L, NEW q, NEW x, NEW fn \in T, NEW c \in Ok(fn), NEW cells, NEW read \in L.reads \ L.maybe,
           Settle(c, cells, {Req(read, q, x)}), calm => Steady(T, calls)
    PROVE  ui' = cells ++ ui /\ WillBeFresh(T, L, q, x)
<1>1. Passes(fn, "ok", cells, {Req(read, q, x)})
  BY SettlePasses DEF Ok
<1>2. Renews({fn}, {}, cells, {Req(read, q, x)})
  BY <1>1, ReqFields, AloneRenews
<1> QED
  BY <1>1, <1>2, RenewAsksOne DEF Passes

\* Another list is loaded again.
LEMMA ReloadSpares ==
    ASSUME NEW T, NEW L, NEW q, NEW x, NEW fn \in T, NEW c \in Ok(fn), NEW cells, NEW read, NEW p, NEW y,
           Settle(c, cells, {Req(read, p, y)}), Apart(L, {fn}), Apart(L, {read}), L.fn \in DOMAIN shown
    PROVE  (Asked(T, L, q, x) => WillBeAsked(T, L, q, x)) /\ (Fresh(T, L, q, x) => WillBeFresh(T, L, q, x))
<1>1. Passes(fn, "ok", cells, {Req(read, p, y)})
  BY SettlePasses DEF Ok
<1>2. Asked(T, L, q, x) => Renews({fn}, {}, cells, {Req(read, p, y)})
  BY <1>1, ReqFields, AloneRenews DEF Asked
<1>3. Simple(T, {Req(read, p, y)}) /\ \A r \in {Req(read, p, y)} : Apart(L, {r.fn})
  BY OneReq, ReqFields
<1> QED
  BY <1>2, <1>3, RenewSpares DEF Fresh

LEMMA LostNotCalm ==
    ASSUME NEW T, NEW L, NEW q, NEW x, NEW fn, NEW cells, Fails(fn, cells) \/ Refuse, Asked(T, L, q, x)
    PROVE  \A M, p, y : WillBeFresh(T, M, p, y)
<1>1. ~calm'
  BY FailedNotCalm, RefuseNotCalm DEF Asked
<1> QED
  BY <1>1 DEF WillBeFresh, WillBeAsked

LEMMA ShowFresh ==
    ASSUME NEW T, NEW L, NEW q, NEW x, NEW fn \in L.reads, NEW cells, Show(fn, cells), L.fn = fn,
           fn \in DOMAIN shown, Asked(T, L, q, x)
    PROVE  ui' = cells ++ ui /\ WillBeFresh(T, L, q, x)
<1>1. Shows(fn, L.fn, cells, {})
  BY ShowShows
<1> QED
  BY <1>1, ShowsFresh DEF Shows

LEMMA ShowSpares ==
    ASSUME NEW T, NEW L, NEW q, NEW x, NEW fn, NEW cells, Show(fn, cells), Apart(L, {fn}), L.fn # fn,
           L.fn \in DOMAIN shown
    PROVE  /\ ui' = cells ++ ui
           /\ (Asked(T, L, q, x) => WillBeAsked(T, L, q, x)) /\ (Fresh(T, L, q, x) => WillBeFresh(T, L, q, x))
<1>1. Shows(fn, fn, cells, {})
  BY ShowShows
<1> QED
  BY <1>1, ShowsSpares DEF Shows

LEMMA DoneSpares ==
    ASSUME NEW T, NEW L, NEW q, NEW x, NEW fn, NEW cells, Done(fn, cells), Apart(L, {fn})
    PROVE  /\ ui' = cells ++ ui
           /\ (Asked(T, L, q, x) => WillBeAsked(T, L, q, x)) /\ (Fresh(T, L, q, x) => WillBeFresh(T, L, q, x))
BY DonePasses, TakesSpares

\* A list whose read changes others shows the answer and asks for those.
LEMMA ShowsAlone ==
    ASSUME NEW T, NEW L, NEW q, NEW x, NEW fn \in L.reads \cap T, NEW cells, NEW read, NEW p,
           NEW c \in Ok(fn), Display(c, L.fn, cells, {Req(read, p, None)}), Apart(L, {read}),
           L.fn \in DOMAIN shown, Asked(T, L, q, x)
    PROVE  ui' = cells ++ ui /\ WillBeFresh(T, L, q, x)
<1> DEFINE R == {Req(read, p, None)}
<1>1. Simple(T, R) /\ Reqs(R) /\ \A r \in R : Apart(L, {r.fn})
  BY OneReq, ReqFields
<1> HIDE DEF R
<1>2. Shows(fn, L.fn, cells, R)
  BY DisplayShows DEF Ok, R
<1>3. Renews({fn}, {L.fn}, cells, R)
  BY <1>1, <1>2, AloneShows DEF Asked
<1>4. calm' => Steady(T, calls')
  BY <1>1, <1>3, RenewSteady
<1>5. ASSUME calm' PROVE Good(L, q, x, shown')
  <2>1. PICK d \in calls : /\ calm /\ d.fn = fn /\ d.st \in {"ok", "same"}
                           /\ shown' = [shown EXCEPT ![L.fn] = [q |-> d.q, x |-> d.x, since |-> d.since]]
    BY <1>2, <1>5 DEF Shows
  <2>2. d.q = q /\ d.x = x /\ d.since \subseteq L.left
    BY <2>1 DEF Asked, InOrder
  <2> QED
    BY <2>1, <2>2 DEF Good
<1>6. calm' => InOrder(L, q, x, calls', shown')
  BY <1>1, <1>3 DEF Renews, Asking, Asks1, InOrder, Apart
<1> QED
  BY <1>3, <1>4, <1>5, <1>6 DEF Renews, WillBeFresh, WillBeAsked, Due

\* Its answer found nothing to change.
LEMMA ShowsSame ==
    ASSUME NEW T, NEW L, NEW q, NEW x, NEW fn \in L.maybe, NEW c \in Same(fn), NEW read, NEW cells,
           Display(c, read, cells, {}), L.fn # read, L.fn \in DOMAIN shown, Asked(T, L, q, x)
    PROVE  WillBeFresh(T, L, q, x)
<1> SUFFICES ASSUME calm'
             PROVE  /\ Steady(T, calls') /\ InOrder(L, q, x, calls', shown')
                    /\ Due(L, q, x, calls', shown')
  BY DEF WillBeAsked, WillBeFresh
<1>1. /\ calm /\ c \in calls /\ c.fn = fn /\ c.st = "same"
      /\ calls' = (calls \ {c}) \cup New({}, calls \ {c})
      /\ shown' = [shown EXCEPT ![read] = [q |-> c.q, x |-> c.x, since |-> c.since]]
  BY DEF Display, SettleShowing, Follow, Same
<1>2. calls' = calls \ {c} /\ shown'[L.fn] = shown[L.fn]
  BY <1>1 DEF New
<1> QED
  BY <1>1, <1>2 DEF Asked, Steady, InOrder, Due, Good

LEMMA RenewSets ==
    ASSUME NEW T, NEW L, NEW q, NEW x, NEW gone, NEW cells, Renews({}, gone, cells, {}),
           L.fn \in DOMAIN shown \ gone
    PROVE  /\ ui' = cells ++ ui
           /\ (Asked(T, L, q, x) => WillBeAsked(T, L, q, x)) /\ (Fresh(T, L, q, x) => WillBeFresh(T, L, q, x))
<1>1. Simple(T, {}) /\ Apart(L, {})
  BY NoReqs DEF Apart
<1>2. ui' = cells ++ ui
  BY DEF Renews
<1> QED
  BY <1>1, <1>2, RenewSpares

LEMMA AbortSetsSpares ==
    ASSUME NEW T, NEW L, NEW q, NEW x, NEW gone, NEW fns, NEW cells, AbortClearing(gone, fns, cells, {}),
           L.fn \in DOMAIN shown \ gone
    PROVE  /\ ui' = cells ++ ui
           /\ (Asked(T, L, q, x) => WillBeAsked(T, L, q, x)) /\ (Fresh(T, L, q, x) => WillBeFresh(T, L, q, x))
BY AbortRenews, NoReqs, RenewSets

LEMMA ClearSetsSpares ==
    ASSUME NEW T, NEW L, NEW q, NEW x, NEW gone, NEW cells, ActClearing(gone, cells, {}),
           L.fn \in DOMAIN shown \ gone
    PROVE  /\ ui' = cells ++ ui
           /\ (Asked(T, L, q, x) => WillBeAsked(T, L, q, x)) /\ (Fresh(T, L, q, x) => WillBeFresh(T, L, q, x))
BY ClickRenews, NoReqs, RenewSets

LEMMA RenewSparesOne ==
    ASSUME NEW T, NEW L, NEW q, NEW x, NEW B, NEW gone, NEW cells, NEW fn, NEW p, NEW y,
           Renews(B, gone, cells, {Req(fn, p, y)}), Apart(L, B), Apart(L, {fn}), L.fn \in DOMAIN shown \ gone
    PROVE  (Asked(T, L, q, x) => WillBeAsked(T, L, q, x)) /\ (Fresh(T, L, q, x) => WillBeFresh(T, L, q, x))
<1>1. Simple(T, {Req(fn, p, y)}) /\ \A r \in {Req(fn, p, y)} : Apart(L, {r.fn})
  BY OneReq, ReqFields
<1> QED
  BY <1>1, RenewSpares

LEMMA SameSpares ==
    ASSUME NEW T, NEW L, NEW q, NEW x, NEW fn, NEW c \in Same(fn), NEW cells, Settle(c, cells, {}), Apart(L, {fn})
    PROVE  /\ ui' = cells ++ ui
           /\ (Asked(T, L, q, x) => WillBeAsked(T, L, q, x)) /\ (Fresh(T, L, q, x) => WillBeFresh(T, L, q, x))
<1>1. Passes(fn, "same", cells, {})
  BY SettlePasses DEF Same
<1> QED
  BY <1>1, TakesSpares

LEMMA SameFresh ==
    ASSUME NEW T, NEW L, NEW q, NEW x, NEW fn \in L.maybe, NEW c \in Same(fn), NEW cells, Settle(c, cells, {}),
           Asked(T, L, q, x)
    PROVE  ui' = cells ++ ui /\ WillBeFresh(T, L, q, x)
<1>1. Passes(fn, "same", cells, {})
  BY SettlePasses DEF Same
<1> QED
  BY <1>1, PassSame DEF Passes

LEMMA FailedSettleNotCalm ==
    ASSUME NEW T, NEW fn, NEW c \in Failed(fn), NEW cells, NEW R, Settle(c, cells, R), calm => Steady(T, calls)
    PROVE  \A M, p, y : WillBeFresh(T, M, p, y)
<1>1. ~calm'
  BY DEF Settle, SettleShowing, Follow, Failed, Steady
<1> QED
  BY <1>1 DEF WillBeFresh, WillBeAsked

---------------------------------------------------------------------------
(* The pages about users.                                                  *)
UserListCommands == {"handleCreateUser", "handleEditUser", "handleToggleActive", "handleDeleteUser"}
PendingCommands == {"handleReject", "handleApprove"}
UsersAlone == UserListCommands \cup PendingCommands
UsersList ==
    [fn |-> "fetchUsers", reads |-> {"fetchUsers"}, cmds |-> UserListCommands, byq |-> UserListCommands,
     byx |-> {}, maybe |-> {}, left |-> {}]
PendingList ==
    [fn |-> "fetchPending", reads |-> {"fetchPending"}, cmds |-> PendingCommands, byq |-> PendingCommands,
     byx |-> {}, maybe |-> {}, left |-> {}]
LogList ==
    [fn |-> "fetchLogs", reads |-> {"fetchLogs"}, cmds |-> {}, byq |-> {}, byx |-> {}, maybe |-> {}, left |-> {}]

UsersFresh == Fresh(UsersAlone, UsersList, ui.currentPage, None)
PendingFresh == Fresh(UsersAlone, PendingList, ui.currentPage, None)
AuditLogFresh == Fresh(UsersAlone, LogList, buildFilters, None)

LEMMA UsersServe == \A L \in {UsersList, PendingList, LogList} : Reloads(UsersAlone, L, UsersTouches)
<1>1. /\ DOMAIN UsersTouches = UsersAlone
      /\ \A fn \in UserListCommands : UsersTouches[fn] = {"fetchUsers"}
      /\ \A fn \in PendingCommands : UsersTouches[fn] = {"fetchPending"}
  BY DEF UsersTouches, UsersAlone, UserListCommands, PendingCommands, ++
<1>2. UsersList.cmds = UserListCommands /\ PendingList.cmds = PendingCommands
  BY DEF UsersList, PendingList
<1>3. /\ UsersList.reads \cup {UsersList.fn} = {"fetchUsers"}
      /\ PendingList.reads \cup {PendingList.fn} = {"fetchPending"}
      /\ LogList.reads \cup {LogList.fn} = {"fetchLogs"}
  BY DEF UsersList, PendingList, LogList
<1> QED
  BY <1>1, <1>2, <1>3 DEF Reloads, UsersAlone

LEMMA UsersListed ==
    /\ UsersList.fn = "fetchUsers" /\ "fetchUsers" \in UsersList.reads
    /\ PendingList.fn = "fetchPending" /\ "fetchPending" \in PendingList.reads
    /\ Apart(UsersList, {"handleResetPassword"}) /\ Apart(PendingList, {"listCabinets"})
BY DEF UsersList, PendingList, UserListCommands, PendingCommands, Apart

LEMMA ReloadUsersFresh ==
    ASSUME NEW q, NEW fn \in UserListCommands, NEW cells, ReloadUsers(fn, cells),
           Asked(UsersAlone, UsersList, q, None)
    PROVE  ui' = ([loading |-> TRUE] ++ cells) ++ ui /\ WillBeFresh(UsersAlone, UsersList, q, None)
BY ReloadsQuery DEF ReloadUsers, UsersList, UsersAlone

LEMMA UsersFreshKept ==
    ASSUME UsersSound, UsersFresh, UsersPageNext \/ Serves(UsersTouches) \/ Refuse
    PROVE  UsersFresh'
<1> DEFINE p == ui.currentPage
           done == WillBeFresh(UsersAlone, UsersList, ui'.currentPage, None)
<1> SUFFICES done
  BY DEF UsersFresh, Fresh, Asked, WillBeFresh, WillBeAsked
<1>1. /\ UsersList.fn \in DOMAIN shown /\ "currentPage" \in DOMAIN ui
      /\ Fresh(UsersAlone, UsersList, p, None) /\ Asked(UsersAlone, UsersList, p, None)
  BY DEF UsersSound, Page, Cells, UsersFresh, Fresh, UsersList
<1>2. ASSUME NEW cells, "currentPage" \notin DOMAIN cells, ui' = cells ++ ui,
             WillBeFresh(UsersAlone, UsersList, p, None)
      PROVE  done
  BY <1>1, <1>2 DEF ++
<1>3. ASSUME NEW fn, NEW cells, Fails(fn, cells) \/ Refuse PROVE done
  BY <1>1, <1>3, LostNotCalm
<1>4. ASSUME NEW cells, "currentPage" \notin DOMAIN cells, Act(cells, {}) PROVE done
  BY <1>1, <1>2, <1>4, SetsSpares
<1>5. ASSUME NEW cells, NEW fn \in UserListCommands, NEW x, "currentPage" \notin DOMAIN cells,
             Act(cells, {Req(fn, p, x)})
      PROVE  done
  BY <1>2, <1>5, SendsCommand DEF UsersList, UserListCommands
<1>6. ASSUME NEW cells, NEW fn \in UserListCommands, "currentPage" \notin DOMAIN cells, ReloadUsers(fn, cells)
      PROVE  done
  <2>1. "currentPage" \notin DOMAIN ([loading |-> TRUE] ++ cells)
    BY <1>6 DEF ++
  <2> QED
    BY <2>1, <1>1, <1>2, <1>6, ReloadUsersFresh
<1> HIDE DEF done
<1>7. CASE fetchUsers
  <2>1. CASE Act([loading |-> TRUE], {Req("fetchUsers", p, None)})
    BY <2>1, <1>2, SendsAsks DEF UsersList
  <2>2. CASE Show("fetchUsers", [loading |-> FALSE])
    <3>1. ui' = [loading |-> FALSE] ++ ui /\ WillBeFresh(UsersAlone, UsersList, p, None)
      BY <2>2, <1>1, UsersListed, ShowFresh
    <3> QED
      BY <3>1, <1>2
  <2> QED
    BY <2>1, <2>2, <1>3, <1>7 DEF fetchUsers
<1>8. CASE UsersPageChange
  <2>1. PICK n : Act([currentPage |-> n, loading |-> TRUE], {Req("fetchUsers", n, None)})
    BY <1>8 DEF UsersPageChange
  <2>2. WillBeFresh(UsersAlone, UsersList, n, None) /\ ui' = [currentPage |-> n, loading |-> TRUE] ++ ui
    BY <2>1, SendsAsks DEF UsersList
  <2> QED
    BY <2>2 DEF ++, done
<1> HIDE DEF p
<1>9. CASE openCreate \/ openUser \/ cancelUser
  BY <1>4, <1>9 DEF openCreate, openUser, cancelUser
<1>10. CASE handleCreateUser \/ handleEditUser \/ handleToggleActive \/ handleDeleteUser
  <2>1. ASSUME NEW mode, NEW fn \in UserListCommands,
               \/ SubmitUser(mode, fn)
               \/ ReloadUsers(fn, UserDialogDone)
               \/ Fails(fn, [submitting |-> FALSE])
        PROVE  done
    BY <1>3, <1>5, <1>6, <2>1 DEF SubmitUser, UserDialogDone, p
  <2>2. ASSUME NEW fn \in UserListCommands, ConfirmUser(fn) \/ ReloadUsers(fn, <<>>) \/ Fails(fn, <<>>)
        PROVE  done
    BY <1>3, <1>5, <1>6, <2>2, NoCells DEF ConfirmUser, p
  <2> QED
    BY <2>1, <2>2, <1>10 DEF handleCreateUser, handleEditUser, handleToggleActive, handleDeleteUser,
       UserListCommands
<1>11. CASE handleResetPassword
  <2>1. Apart(UsersList, {"handleResetPassword"})
    BY DEF UsersList, UserListCommands, Apart
  <2>2. CASE SubmitUser("reset-password", "handleResetPassword")
    BY <2>1, <2>2, <1>1, <1>2, SendsSpares DEF SubmitUser
  <2>3. CASE Done("handleResetPassword", UserDialogDone)
    BY <2>1, <2>3, <1>1, <1>2, DoneSpares DEF UserDialogDone
  <2> QED
    BY <2>2, <2>3, <1>3, <1>11 DEF handleResetPassword
<1>12. CASE Serves(UsersTouches)
  <2>1. ui' = ui
    BY <1>12, ServesStays
  <2>2. WillBeFresh(UsersAlone, UsersList, p, None)
    BY <1>1, <1>12, UsersServe, ServesReloads DEF UsersList
  <2> QED
    BY <2>1, <2>2 DEF p, done
<1>13. CASE Refuse
  BY <1>3, <1>13
<1> QED
  BY <1>7, <1>8, <1>9, <1>10, <1>11, <1>12, <1>13 DEF UsersPageNext

LEMMA ReloadPendingFresh ==
    ASSUME NEW q, NEW fn \in PendingCommands, NEW cells, ReloadPending(fn, cells),
           Asked(UsersAlone, PendingList, q, None)
    PROVE  ui' = ([loading |-> TRUE] ++ cells) ++ ui /\ WillBeFresh(UsersAlone, PendingList, q, None)
BY ReloadsQuery DEF ReloadPending, PendingList, UsersAlone

LEMMA PendingFreshKept ==
    ASSUME PendingSound, PendingFresh, PendingApprovalsNext \/ Serves(UsersTouches) \/ Refuse
    PROVE  PendingFresh'
<1> DEFINE p == ui.currentPage
           done == WillBeFresh(UsersAlone, PendingList, ui'.currentPage, None)
<1> SUFFICES done
  BY DEF PendingFresh, Fresh, Asked, WillBeFresh, WillBeAsked
<1>1. /\ PendingList.fn \in DOMAIN shown /\ "currentPage" \in DOMAIN ui
      /\ Fresh(UsersAlone, PendingList, p, None) /\ Asked(UsersAlone, PendingList, p, None)
  BY DEF PendingSound, Page, Cells, PendingFresh, Fresh, PendingList
<1>2. ASSUME NEW cells, "currentPage" \notin DOMAIN cells, ui' = cells ++ ui,
             WillBeFresh(UsersAlone, PendingList, p, None)
      PROVE  done
  BY <1>1, <1>2 DEF ++
<1>3. ASSUME NEW fn, NEW cells, Fails(fn, cells) \/ Refuse PROVE done
  BY <1>1, <1>3, LostNotCalm
<1>4. ASSUME NEW cells, NEW fn \in PendingCommands, NEW x, "currentPage" \notin DOMAIN cells,
             Act(cells, {Req(fn, p, x)})
      PROVE  done
  BY <1>2, <1>4, SendsCommand DEF PendingList, PendingCommands
<1>5. ASSUME NEW cells, NEW fn \in PendingCommands, "currentPage" \notin DOMAIN cells, ReloadPending(fn, cells)
      PROVE  done
  <2>1. "currentPage" \notin DOMAIN ([loading |-> TRUE] ++ cells)
    BY <1>5 DEF ++
  <2> QED
    BY <2>1, <1>1, <1>2, <1>5, ReloadPendingFresh
<1>6. Apart(PendingList, {"listCabinets"}) /\ PendingList.fn # "listCabinets"
  BY DEF PendingList, PendingCommands, Apart
<1> HIDE DEF done
<1>7. CASE fetchPending
  <2>1. CASE Show("fetchPending", [loading |-> FALSE])
    <3>1. ui' = [loading |-> FALSE] ++ ui /\ WillBeFresh(UsersAlone, PendingList, p, None)
      BY <2>1, <1>1, UsersListed, ShowFresh
    <3> QED
      BY <3>1, <1>2
  <2> QED
    BY <2>1, <1>3, <1>7 DEF fetchPending
<1>8. CASE PendingPageChange
  <2>1. PICK n : Act([currentPage |-> n, loading |-> TRUE], {Req("fetchPending", n, None)})
    BY <1>8 DEF PendingPageChange
  <2>2. WillBeFresh(UsersAlone, PendingList, n, None) /\ ui' = [currentPage |-> n, loading |-> TRUE] ++ ui
    BY <2>1, SendsAsks DEF PendingList
  <2> QED
    BY <2>2 DEF ++, done
<1> HIDE DEF p
<1>9. CASE openApprove
  <2>1. PICK u : Act([user |-> u], {Req("listCabinets", None, None)})
    BY <1>9 DEF openApprove
  <2> QED
    BY <2>1, <1>1, <1>2, <1>6, SendsSpares
<1>10. CASE listCabinets
  <2>1. CASE Show("listCabinets", <<>>)
    BY <2>1, <1>1, <1>2, <1>6, ShowSpares, NoCells
  <2>2. ASSUME NEW c \in Failed("listCabinets"), Clear(c, "listCabinets", <<>>) PROVE ~calm'
    BY <2>2, <1>1 DEF Clear, SettleShowing, Follow, Failed, Asked, Steady
  <2> QED
    BY <2>1, <2>2, <1>10 DEF listCabinets, done, WillBeFresh, WillBeAsked
<1>11. CASE closeApprove
  BY <1>1, <1>2, <1>11, SetsSpares DEF closeApprove
<1>12. CASE handleReject
  BY <1>3, <1>4, <1>5, <1>12, NoCells DEF handleReject, PendingCommands, p
<1>13. CASE handleApprove
  BY <1>3, <1>4, <1>5, <1>13 DEF handleApprove, PendingCommands, p
<1>14. CASE Serves(UsersTouches)
  <2>1. ui' = ui
    BY <1>14, ServesStays
  <2>2. WillBeFresh(UsersAlone, PendingList, p, None)
    BY <1>1, <1>14, UsersServe, ServesReloads DEF PendingList
  <2> QED
    BY <2>1, <2>2 DEF p, done
<1>15. CASE Refuse
  BY <1>3, <1>15
<1> QED
  BY <1>7, <1>8, <1>9, <1>10, <1>11, <1>12, <1>13, <1>14, <1>15 DEF PendingApprovalsNext

LEMMA AuditLogFreshKept ==
    ASSUME AuditLogSound, AuditLogFresh, AuditLogNext \/ Serves(UsersTouches) \/ Refuse
    PROVE  AuditLogFresh'
<1> DEFINE p == buildFilters
           done == WillBeFresh(UsersAlone, LogList, <<ui'.currentPage, ui'.filter>>, None)
<1> SUFFICES done
  BY DEF AuditLogFresh, Fresh, Asked, WillBeFresh, WillBeAsked, buildFilters
<1>1. /\ LogList.fn \in DOMAIN shown /\ {"currentPage", "filter"} \subseteq DOMAIN ui
      /\ Fresh(UsersAlone, LogList, p, None) /\ Asked(UsersAlone, LogList, p, None)
  BY DEF AuditLogSound, Page, Cells, AuditLogFresh, Fresh, LogList
<1>2. ASSUME ui' = [loading |-> FALSE] ++ ui \/ ui' = [loading |-> TRUE] ++ ui \/ ui' = ui,
             WillBeFresh(UsersAlone, LogList, p, None)
      PROVE  done
  BY <1>1, <1>2 DEF ++, buildFilters
<1>3. ASSUME NEW fn, NEW cells, Fails(fn, cells) \/ Refuse PROVE done
  BY <1>1, <1>3, LostNotCalm
<1> HIDE DEF done
<1>4. CASE fetchLogs
  <2>1. CASE Act([loading |-> TRUE], {Req("fetchLogs", p, None)})
    BY <2>1, <1>2, SendsAsks DEF LogList
  <2>2. CASE Show("fetchLogs", [loading |-> FALSE])
    BY <2>2, <1>1, <1>2, ShowFresh DEF LogList
  <2> QED
    BY <2>1, <2>2, <1>3, <1>4 DEF fetchLogs
<1>5. CASE setLogFilter
  <2>1. PICK f : Act([filter |-> f, loading |-> TRUE], {Req("fetchLogs", <<ui.currentPage, f>>, None)})
    BY <1>5 DEF setLogFilter
  <2>2. /\ WillBeFresh(UsersAlone, LogList, <<ui.currentPage, f>>, None)
        /\ ui' = [filter |-> f, loading |-> TRUE] ++ ui
    BY <2>1, SendsAsks DEF LogList
  <2>3. ui'.currentPage = ui.currentPage /\ ui'.filter = f
    BY <2>2, <1>1 DEF ++
  <2> QED
    BY <2>2, <2>3 DEF done
<1>6. CASE LogPageChange
  <2>1. PICK n : Act([currentPage |-> n, loading |-> TRUE], {Req("fetchLogs", <<n, ui.filter>>, None)})
    BY <1>6 DEF LogPageChange
  <2>2. /\ WillBeFresh(UsersAlone, LogList, <<n, ui.filter>>, None)
        /\ ui' = [currentPage |-> n, loading |-> TRUE] ++ ui
    BY <2>1, SendsAsks DEF LogList
  <2>3. ui'.currentPage = n /\ ui'.filter = ui.filter
    BY <2>2, <1>1 DEF ++
  <2> QED
    BY <2>2, <2>3 DEF done
<1>7. CASE Serves(UsersTouches)
  <2>1. ui' = ui
    BY <1>7, ServesStays
  <2>2. WillBeFresh(UsersAlone, LogList, p, None)
    BY <1>1, <1>7, UsersServe, ServesReloads DEF LogList
  <2> QED
    BY <2>1, <2>2, <1>2
<1>8. CASE Refuse
  BY <1>3, <1>8
<1> QED
  BY <1>4, <1>5, <1>6, <1>7, <1>8 DEF AuditLogNext

---------------------------------------------------------------------------
(* The dialogs of RecordDialogs.                                           *)
TableCommands ==
    {"handleSubmit", "handleDelete", "handleReserve", "handleRelease", "handleBulkReserve", "handleBulkRelease",
     "handleBulkUpdate", "handleImport", "runCheck"}
DuplicatesList ==
    [fn |-> "fetchDuplicates", reads |-> {"fetchDuplicates"}, cmds |-> TableCommands \cup {"runScan"},
     byq |-> {"runScan"}, byx |-> {}, maybe |-> {"handleImport", "runCheck", "runScan"}, left |-> {}]
CheckList ==
    [fn |-> "runCheck", reads |-> {"runCheck"}, cmds |-> {}, byq |-> {}, byx |-> {}, maybe |-> {}, left |-> {}]

\* A scan asks again for a list it may have changed.
LEMMA ScanFresh ==
    ASSUME NEW T, "runScan" \in T, NEW L, L.fn \in L.reads \ L.maybe,
           "runScan" \in L.cmds \cap L.byq \cap L.maybe,
           "runScan" \notin L.reads \cup L.byx, L.fn \in DOMAIN shown, NEW cells,
           Fresh(T, L, None, None), openScan(None) \/ ScanNext(None, cells, L.fn)
    PROVE  WillBeFresh(T, L, None, None)
<1>1. Asked(T, L, None, None) /\ Apart(L, {})
  BY DEF Fresh, Apart
<1>2. ASSUME NEW set, NEW ids, Act(set, {Req("runScan", None, ids)})
             \/ Act(set, {}) PROVE WillBeFresh(T, L, None, None)
  <2>1. CASE Act(set, {Req("runScan", None, ids)})
    <3>1. "runScan" \in L.cmds \ L.reads
      OBVIOUS
    <3> QED
      BY <2>1, <3>1, SendsCommand
  <2>2. CASE Act(set, {})
    BY <2>2, SetsSpares
  <2> QED
    BY <1>2, <2>1, <2>2
<1>3. CASE openScan(None)
  <2>1. PICK ids \in {"few", "many"} :
          Act([scanIds |-> ids, started |-> ~needsConfirm(ids), agreed |-> FALSE],
              IF ui.started \/ ~needsConfirm(ids) THEN {Req("runScan", None, ids)} ELSE {})
    BY <1>3 DEF openScan
  <2> DEFINE set == [scanIds |-> ids, started |-> ~needsConfirm(ids), agreed |-> FALSE]
  <2>2. Act(set, {Req("runScan", None, ids)}) \/ Act(set, {})
    BY <2>1
  <2> HIDE DEF set
  <2> QED
    BY <2>2, <1>2
<1>4. CASE startScan(None)
  <2>1. Renews({}, {}, [started |-> TRUE, agreed |-> TRUE], {Req("runScan", None, ui.scanIds)})
    BY <1>4, AbortRenews, ReqFields DEF startScan, Abort
  <2>2. "runScan" \in L.cmds \ L.reads /\ L.fn \in DOMAIN shown \ {} /\ "runScan" \notin L.byx
    OBVIOUS
  <2> QED
    BY <2>1, <2>2, <1>1, RenewCommands
<1>5. CASE closeScan \/ cancelScan
  BY <1>5, AbortSetsSpares, SetsSpares DEF closeScan, cancelScan, Abort
<1>6. ASSUME NEW c \in Ok("runScan"), Settle(c, cells, {Req(L.fn, c.q, None)}) PROVE WillBeFresh(T, L, None, None)
  BY <1>1, <1>6, ReloadsQuery
<1>7. ASSUME NEW c \in Same("runScan"), Settle(c, <<>>, {}) PROVE WillBeFresh(T, L, None, None)
  BY <1>1, <1>7, SameFresh
<1>8. ASSUME NEW c \in Failed("runScan"), Settle(c, <<>>, {}) PROVE WillBeFresh(T, L, None, None)
  BY <1>1, <1>8, FailedSettleNotCalm DEF Asked
<1> QED
  BY <1>3, <1>4, <1>5, <1>6, <1>7, <1>8 DEF ScanNext, runScan

\* The scan leaves other lists alone.
LEMMA ScanSpares ==
    ASSUME NEW T, "runScan" \in T, NEW L, NEW q, NEW x, NEW read, NEW cells, Apart(L, {"runScan", read}),
           L.fn \in DOMAIN shown, Fresh(T, L, q, x), openScan(None) \/ ScanNext(None, cells, read)
    PROVE  WillBeFresh(T, L, q, x)
<1>1. Asked(T, L, q, x) /\ Apart(L, {}) /\ Apart(L, {"runScan"}) /\ Apart(L, {read})
  BY DEF Fresh, Apart
<1>2. ASSUME NEW set, NEW ids, Act(set, {Req("runScan", None, ids)}) \/ Act(set, {}) PROVE WillBeFresh(T, L, q, x)
  BY <1>1, <1>2, SendsSpares, SetsSpares
<1>3. CASE openScan(None)
  <2>1. PICK ids \in {"few", "many"} :
          Act([scanIds |-> ids, started |-> ~needsConfirm(ids), agreed |-> FALSE],
              IF ui.started \/ ~needsConfirm(ids) THEN {Req("runScan", None, ids)} ELSE {})
    BY <1>3 DEF openScan
  <2> DEFINE set == [scanIds |-> ids, started |-> ~needsConfirm(ids), agreed |-> FALSE]
  <2>2. Act(set, {Req("runScan", None, ids)}) \/ Act(set, {})
    BY <2>1
  <2> HIDE DEF set
  <2> QED
    BY <2>2, <1>2
<1>4. CASE startScan(None)
  <2>1. Renews({}, {}, [started |-> TRUE, agreed |-> TRUE], {Req("runScan", None, ui.scanIds)})
    BY <1>4, AbortRenews, ReqFields DEF startScan, Abort
  <2> QED
    BY <2>1, <1>1, RenewSparesOne
<1>5. CASE closeScan \/ cancelScan
  BY <1>5, AbortSetsSpares, SetsSpares DEF closeScan, cancelScan, Abort
<1>6. ASSUME NEW c \in Ok("runScan"), Settle(c, cells, {Req(read, c.q, None)}) PROVE WillBeFresh(T, L, q, x)
  BY <1>1, <1>6, ReloadSpares
<1>7. ASSUME NEW c \in Same("runScan"), Settle(c, <<>>, {}) PROVE WillBeFresh(T, L, q, x)
  BY <1>1, <1>7, SameSpares
<1>8. ASSUME NEW c \in Failed("runScan"), Settle(c, <<>>, {}) PROVE WillBeFresh(T, L, q, x)
  BY <1>1, <1>8, FailedSettleNotCalm DEF Asked
<1> QED
  BY <1>3, <1>4, <1>5, <1>6, <1>7, <1>8 DEF ScanNext, runScan

\* The scan sets its own cells, and those that its end sets.
LEMMA ScanKeepsCell ==
    ASSUME NEW cell \in DOMAIN ui \ {"scanIds", "started", "agreed"}, NEW cells,
           cell \notin DOMAIN cells, NEW read,
           openScan(None) \/ ScanNext(None, cells, read)
    PROVE  ui'[cell] = ui[cell]
<1>1. ASSUME NEW sets, cell \notin DOMAIN sets, ui' = sets ++ ui PROVE ui'[cell] = ui[cell]
  BY <1>1 DEF ++
<1>2. CASE openScan(None)
  <2>1. PICK ids, b, R : Act([scanIds |-> ids, started |-> b, agreed |-> FALSE], R)
    BY <1>2 DEF openScan
  <2>2. ui' = [scanIds |-> ids, started |-> b, agreed |-> FALSE] ++ ui
    BY <2>1 DEF Act, ActClearing
  <2>3. cell \notin DOMAIN [scanIds |-> ids, started |-> b, agreed |-> FALSE]
    OBVIOUS
  <2> QED
    BY <1>1, <2>2, <2>3
<1>3. CASE startScan(None) \/ closeScan
  BY <1>1, <1>3 DEF startScan, closeScan, Abort, AbortClearing, Replace
<1>4. CASE cancelScan
  BY <1>1, <1>4 DEF cancelScan, Act, ActClearing
<1>5. CASE runScan(cells, read)
  BY <1>1, <1>5, NoCells DEF runScan, Settle, SettleShowing
<1> QED
  BY <1>2, <1>3, <1>4, <1>5 DEF ScanNext

LEMMA DuplicatesFresh ==
    ASSUME NEW T, "runScan" \in T, "fetchDuplicates" \in DOMAIN shown, Has(DuplicatesDialog),
           calm => Steady(T, calls),
           ui.duplicatesOpen => Fresh(T, DuplicatesList, None, None), openDuplicates \/ DuplicatesNext
    PROVE  ui'.duplicatesOpen => WillBeFresh(T, DuplicatesList, None, None)
<1> DEFINE done == ui'.duplicatesOpen => WillBeFresh(T, DuplicatesList, None, None)
<1> SUFFICES done
  OBVIOUS
<1>1. /\ DuplicatesList.fn = "fetchDuplicates"
             /\ "fetchDuplicates" \in DuplicatesList.reads \ DuplicatesList.maybe
      /\ "runScan" \in DuplicatesList.cmds \cap DuplicatesList.byq \cap DuplicatesList.maybe
      /\ "runScan" \notin DuplicatesList.reads \cup DuplicatesList.byx
  BY DEF DuplicatesList
<1>2. ASSUME NEW fn, NEW cells, Fails(fn, cells) PROVE done
  BY <1>2, FailedNotCalm DEF WillBeFresh, WillBeAsked
<1>3. CASE openDuplicates
  BY <1>1, <1>3, SendsAsks DEF openDuplicates, FetchDuplicates
<1>4. CASE closeDuplicates
  <2>1. ui' = [duplicatesOpen |-> FALSE] ++ ui
    BY <1>1, <1>4, SetsSpares DEF closeDuplicates
  <2> QED
    BY <2>1 DEF ++
<1>5. CASE Show("fetchDuplicates", [duplicatesLoading |-> FALSE, data |-> TRUE])
  <2>1. ui' = [duplicatesLoading |-> FALSE, data |-> TRUE] ++ ui
    BY <1>5, ShowShows DEF Shows
  <2>2. ui'.duplicatesOpen = ui.duplicatesOpen
    BY <2>1 DEF ++, Has, DuplicatesDialog
  <2> QED
    BY <2>2, <1>1, <1>5, ShowFresh DEF Fresh
<1>6. ASSUME openScan(None) \/ ScanNext(None, DuplicatesLoading, "fetchDuplicates") PROVE done
  <2>1. ui'.duplicatesOpen = ui.duplicatesOpen
    <3>1. "duplicatesOpen" \in DOMAIN ui \ {"scanIds", "started", "agreed"}
              /\ "duplicatesOpen" \notin DOMAIN DuplicatesLoading
      BY DEF Has, DuplicatesDialog, DuplicatesLoading
    <3> QED
      BY <1>6, <3>1, ScanKeepsCell
  <2>2. CASE ui.duplicatesOpen
    BY <2>2, <1>1, <1>6, ScanFresh
  <2> QED
    BY <2>1, <2>2
<1> HIDE DEF done
<1>7. CASE fetchDuplicates
  BY <1>2, <1>5, <1>7 DEF fetchDuplicates
<1>8. CASE scanDuplicates
  BY <1>6, <1>8 DEF scanDuplicates
<1> QED
  BY <1>3, <1>4, <1>6, <1>7, <1>8 DEF DuplicatesNext

LEMMA DuplicatesSpares ==
    ASSUME NEW T, "runScan" \in T, NEW L, NEW q, NEW x, Apart(L, {"runScan", "fetchDuplicates"}),
           L.fn \in DOMAIN shown \ {"fetchDuplicates"}, Fresh(T, L, q, x), openDuplicates \/ DuplicatesNext
    PROVE  WillBeFresh(T, L, q, x)
<1>1. Asked(T, L, q, x) /\ Apart(L, {"fetchDuplicates"}) /\ L.fn # "fetchDuplicates"
  BY DEF Fresh, Apart
<1>2. CASE openDuplicates
  BY <1>1, <1>2, SendsSpares DEF openDuplicates, FetchDuplicates
<1>3. CASE closeDuplicates
  BY <1>3, SetsSpares DEF closeDuplicates
<1>4. CASE fetchDuplicates
  BY <1>1, <1>4, ShowSpares, LostNotCalm DEF fetchDuplicates
<1>5. CASE openScan(None) \/ ScanNext(None, DuplicatesLoading, "fetchDuplicates")
  BY <1>5, ScanSpares
<1> QED
  BY <1>2, <1>3, <1>4, <1>5 DEF DuplicatesNext, scanDuplicates

---------------------------------------------------------------------------
(* DashboardPage.tsx                                                       *)
DashboardAlone == {"runScan"}
DigestList ==
    [fn |-> "fetchDigest", reads |-> {"fetchDigest"}, cmds |-> {}, byq |-> {}, byx |-> {}, maybe |-> {},
     left |-> {}]
StatsList ==
    [fn |-> "fetchStats", reads |-> {"fetchStats"}, cmds |-> {"runScan"}, byq |-> {"runScan"}, byx |-> {},
     maybe |-> {"runScan"}, left |-> {<<"runScan", "same">>}]
\* The statistics behind the dialog of the duplicates.
StatsBehind ==
    [fn |-> "fetchStats", reads |-> {"fetchStats"}, cmds |-> {}, byq |-> {}, byx |-> {}, maybe |-> {},
     left |-> {<<"runScan", "ok">>, <<"runScan", "same">>}]

\* A scan that starts anew with the page finds no other request.
Lone == calm => \A c, d \in calls : c = d
StaleFresh == Fresh(DashboardAlone, StatsList, None, None) /\ (ui.scanIds # None => Lone)
DashboardFresh ==
    /\ Fresh(DashboardAlone, DigestList, None, None)
    /\ ui.tool = "stale" => StaleFresh
    /\ ui.tool = "duplicates" =>
           /\ Fresh(DashboardAlone, StatsBehind, None, None)
           /\ ui.duplicatesOpen => Fresh(DashboardAlone, DuplicatesList, None, None)

LEMMA RenewLone ==
    ASSUME NEW B, NEW gone, NEW cells, NEW fn, NEW p, NEW y,
           Renews(B, gone, cells, {Req(fn, p, y)}) \/ Renews(B, gone, cells, {})
    PROVE  Lone'
BY DEF Renews, Asking, Lone

LEMMA TakenLone ==
    ASSUME Lone, NEW fn, NEW st, NEW read, NEW cells, Passes(fn, st, cells, {}) \/ Shows(fn, read, cells, {})
    PROVE  Lone'
<1> SUFFICES ASSUME calm' PROVE \A c, d \in calls' : c = d
  BY DEF Lone
<1>1. PICK c \in calls : calm /\ calls' = (calls \ {c}) \cup New({}, calls \ {c})
  BY DEF Passes, Shows
<1> QED
  BY <1>1 DEF Lone, New

LEMMA ServeLone == ASSUME Lone, NEW touches, NEW maybe, Serve(touches, maybe) PROVE Lone'
<1> SUFFICES ASSUME calm' PROVE \A c, d \in calls' : c = d
  BY DEF Lone
<1>1. PICK c \in calls, st \in {"ok", "same"}, wrote \in BOOLEAN :
        LET changes == IF st = "ok" THEN touches ELSE maybe
            old == IF wrote /\ c.fn \in DOMAIN changes THEN changes[c.fn] ELSE {}
        IN  /\ c.st = "sent"
            /\ IF st = "ok" THEN wrote ELSE c.fn \in DOMAIN maybe
            /\ Follow(calm,
                      {Aged(d, old, <<c.fn, st>>) : d \in calls \ {c}} \cup {[c EXCEPT !.st = st, !.since = {}]},
                      [f \in DOMAIN shown |->
                          IF f \in old THEN [shown[f] EXCEPT !.since = @ \cup {<<c.fn, st>>}] ELSE shown[f]])
            /\ UNCHANGED <<role, ui>>
  BY DEF Serve
<1> DEFINE changes == IF st = "ok" THEN touches ELSE maybe
           old == IF wrote /\ c.fn \in DOMAIN changes THEN changes[c.fn] ELSE {}
           e == [c EXCEPT !.st = st, !.since = {}]
           w == <<c.fn, st>>
<1>2. calm /\ calls' = {Aged(d, old, w) : d \in calls \ {c}} \cup {e}
  BY <1>1 DEF Follow
<1> HIDE DEF changes, old, e, w
<1>3. calls \ {c} = {}
  BY <1>2 DEF Lone
<1> QED
  BY <1>2, <1>3

LEMMA ScanLone ==
    ASSUME NEW T, "runScan" \in T, calm => Steady(T, calls), NEW read, NEW cells,
           openScan(None) \/ ScanNext(None, cells, read)
    PROVE  Lone'
<1>1. CASE openScan(None)
  <2>1. PICK ids, b : Act([scanIds |-> ids, started |-> b, agreed |-> FALSE], {Req("runScan", None, ids)})
                      \/ Act([scanIds |-> ids, started |-> b, agreed |-> FALSE], {})
    BY <1>1 DEF openScan
  <2> QED
    BY <2>1, ActRenews, ReqFields, NoReqs, RenewLone
<1>2. CASE startScan(None)
  BY <1>2, AbortRenews, ReqFields, RenewLone DEF startScan, Abort
<1>3. CASE closeScan
  BY <1>3, AbortRenews, NoReqs, RenewLone DEF closeScan, Abort
<1>4. CASE cancelScan
  BY <1>4, ActRenews, NoReqs, RenewLone DEF cancelScan
<1>5. ASSUME NEW c \in Ok("runScan"), Settle(c, cells, {Req(read, c.q, None)}) PROVE Lone'
  <2>1. Passes("runScan", "ok", cells, {Req(read, c.q, None)})
    BY <1>5, SettlePasses DEF Ok
  <2> QED
    BY <2>1, AloneRenews, ReqFields, RenewLone
<1>6. ASSUME NEW c \in Same("runScan"), Settle(c, <<>>, {}) PROVE Lone'
  <2>1. Passes("runScan", "same", <<>>, {})
    BY <1>6, SettlePasses DEF Same
  <2> QED
    BY <2>1, AloneRenews, NoReqs, RenewLone
<1>7. ASSUME NEW c \in Failed("runScan"), Settle(c, <<>>, {}) PROVE Lone'
  BY <1>7 DEF Settle, SettleShowing, Follow, Failed, Steady, Lone
<1> QED
  BY <1>1, <1>2, <1>3, <1>4, <1>5, <1>6, <1>7 DEF ScanNext, runScan

\* The statistics are shown, and a scan begins anew.
LEMMA StatsShown ==
    ASSUME NEW c \in Ok("fetchStats"), NEW cells, NEW ids,
           Display(c, "fetchStats", cells, {Req("runScan", None, ids)}), Lone,
               {"fetchStats", "fetchDigest"} \subseteq DOMAIN shown,
           Fresh(DashboardAlone, DigestList, None, None), Fresh(DashboardAlone, StatsList, None, None)
    PROVE  /\ WillBeFresh(DashboardAlone, DigestList, None, None)
           /\ WillBeFresh(DashboardAlone, StatsList, None, None) /\ Lone'
<1> DEFINE T == {"runScan", "fetchStats"}
           R == {Req("runScan", None, ids)}
<1>1. calm => Steady(T, calls)
  BY DEF Fresh, Asked, Steady, Lone, DashboardAlone
<1>2. Reqs(R) /\ Simple(DashboardAlone, R) /\ Shows("fetchStats", "fetchStats", cells, R)
  BY DisplayShows, OneReq, ReqFields DEF Ok
<1>3. Renews({"fetchStats"}, {"fetchStats"}, cells, R)
  <2>1. "fetchStats" \in T
    OBVIOUS
  <2> HIDE DEF T, R
  <2> QED
    BY <2>1, <1>1, <1>2, AloneShows
<1>4. Lone'
  BY <1>3, RenewLone
<1>5. WillBeFresh(DashboardAlone, DigestList, None, None)
  <2>1. /\ Apart(DigestList, {"fetchStats"}) /\ Apart(DigestList, {"runScan"})
        /\ DigestList.fn \in DOMAIN shown \ {"fetchStats"}
    BY DEF Apart, DigestList
  <2> QED
    BY <2>1, <1>3, RenewSparesOne
<1>6. \A r \in R : r.fn = "runScan" /\ r.q = None /\ r.x = ids
  BY ReqFields
<1> HIDE DEF T, R
<1>7. calm' => Steady(DashboardAlone, calls')
  BY <1>2, <1>3, RenewSteady
<1>8. ASSUME calm' PROVE Good(StatsList, None, None, shown')
  <2>1. PICK d \in calls : /\ calm /\ d.fn = "fetchStats"
                           /\ shown' = [shown EXCEPT !["fetchStats"] = [q |-> d.q, x |-> d.x, since |-> d.since]]
                           /\ d.st \in {"ok", "same"}
    BY <1>2, <1>8 DEF Shows
  <2>2. d.q = None /\ d.x = None /\ d.since \subseteq StatsList.left
    BY <2>1 DEF Fresh, Asked, InOrder, StatsList
  <2> QED
    BY <2>1, <2>2 DEF Good, StatsList
<1>9. calm' => InOrder(StatsList, None, None, calls', shown')
  BY <1>3, <1>6, <1>8 DEF Renews, Asking, Asks1, InOrder, StatsList
<1> QED
  BY <1>4, <1>5, <1>7, <1>8, <1>9 DEF WillBeFresh, WillBeAsked, Due

LEMMA DashboardServe ==
    \A L \in {DigestList, StatsList, StatsBehind, DuplicatesList} :
        Reloads(DashboardAlone, L, DashboardTouches) /\ Leaves(L, DashboardMaybe)
<1>1. /\ DOMAIN DashboardTouches = {"runScan"} /\ DashboardTouches["runScan"] = {"fetchStats", "fetchDuplicates"}
      /\ DOMAIN DashboardMaybe = {"runScan"} /\ DashboardMaybe["runScan"] = {"fetchStats"}
  BY DEF DashboardTouches, DashboardMaybe
<1>2. /\ DigestList.reads \cup {DigestList.fn} = {"fetchDigest"} /\ DigestList.cmds = {}
      /\ StatsBehind.cmds = {} /\ StatsBehind.left = {<<"runScan", "ok">>, <<"runScan", "same">>}
      /\ StatsList.cmds = {"runScan"} /\ StatsList.maybe = {"runScan"} /\ StatsList.left = {<<"runScan", "same">>}
      /\ DuplicatesList.reads \cup {DuplicatesList.fn} = {"fetchDuplicates"}
      /\ "runScan" \in DuplicatesList.cmds \cap DuplicatesList.maybe
  BY DEF DigestList, StatsList, StatsBehind, DuplicatesList
<1> QED
  BY <1>1, <1>2 DEF Reloads, Leaves, DashboardAlone

LEMMA FetchStatsFresh ==
    ASSUME DashboardSound, DashboardFresh, fetchStats
    PROVE  DashboardFresh'
<1> DEFINE T == DashboardAlone
           done == /\ WillBeFresh(T, DigestList, None, None)
                   /\ ui.tool = "stale" => WillBeFresh(T, StatsList, None, None) /\ (ui.scanIds # None => Lone')
                   /\ ui.tool = "duplicates" => WillBeFresh(T, StatsBehind, None, None)
                   /\ ui.tool = "duplicates" /\ ui.duplicatesOpen => WillBeFresh(T, DuplicatesList, None, None)
<1>1. /\ {"fetchStats", "fetchDigest", "fetchDuplicates"} = DOMAIN shown
      /\ {"tool"} \subseteq DOMAIN ui
      /\ ui.tool = "stale" => {"scanIds"} \subseteq DOMAIN ui
      /\ ui.tool = "duplicates" => {"duplicatesOpen"} \subseteq DOMAIN ui
      /\ Asked(T, DigestList, None, None) /\ ui.tool \in {"stale", "duplicates"}
  BY DEF DashboardSound, DashboardFrame, DashboardTool, DashboardStale, DashboardDuplicates, Page, Has, Cells,
     DashboardCells, DuplicatesDialog, DashboardFresh, Fresh
<1>2. ASSUME NEW cells, DOMAIN cells \subseteq {"loading", "stats", "started", "agreed"}, ui' = cells ++ ui, done
      PROVE  DashboardFresh'
  <2>1. ui'.tool = ui.tool
    BY <1>1, <1>2 DEF ++
  <2>2. ui.tool = "stale" => ui'.scanIds = ui.scanIds
    BY <1>1, <1>2 DEF ++
  <2>3. ui.tool = "duplicates" => ui'.duplicatesOpen = ui.duplicatesOpen
    BY <1>1, <1>2 DEF ++
  <2> QED
    BY <1>2, <2>1, <2>2, <2>3
    DEF DashboardFresh, StaleFresh, Fresh, Asked, WillBeFresh, WillBeAsked
<1>3. /\ DOMAIN ([loading |-> FALSE, stats |-> TRUE] ++ Remounted) \subseteq {"loading", "stats",
                     "started", "agreed"}
      /\ DOMAIN ([loading |-> FALSE] ++ Remounted) \subseteq {"loading", "stats", "started", "agreed"}
  BY NoCells DEF ++, Remounted
<1>4. ASSUME NEW c \in Failed("fetchStats"), Settle(c, [loading |-> FALSE] ++ Remounted, ScannedAgain)
      PROVE  DashboardFresh'
  <2>1. \A M, p, y : WillBeFresh(T, M, p, y)
    BY <1>1, <1>4, FailedSettleNotCalm DEF Asked
  <2>2. ui' = ([loading |-> FALSE] ++ Remounted) ++ ui
    BY <1>4 DEF Settle, SettleShowing
  <2>3. Lone'
    BY <1>4 DEF Lone, Settle, SettleShowing, Follow, Failed, DashboardFresh, Fresh, Asked, Steady
  <2> HIDE DEF T
  <2>4. done
    BY <2>1, <2>3
  <2> HIDE DEF done
  <2> QED
    BY <1>2, <1>3, <2>2, <2>4
<1>5. ASSUME NEW c \in Ok("fetchStats"), NEW cells, Display(c, "fetchStats", cells, ScannedAgain)
      PROVE  done /\ ui' = cells ++ ui
  <2>1. ui' = cells ++ ui
    BY <1>5 DEF Display, SettleShowing
  <2>2. CASE ScannedAgain = {}
    <3>1. Show("fetchStats", cells) /\ Shows("fetchStats", "fetchStats", cells, {})
      BY <1>5, <2>2, ShowShows DEF Show
    <3>2. WillBeFresh(T, DigestList, None, None)
      <4>1. Apart(DigestList, {"fetchStats"}) /\ DigestList.fn = "fetchDigest"
        BY DEF Apart, DigestList
      <4> QED
        BY <4>1, <3>1, <1>1, ShowSpares DEF DashboardFresh
    <3>3. ui.tool = "stale" => WillBeFresh(T, StatsList, None, None)
      BY <3>1, <1>1, ShowFresh DEF DashboardFresh, StaleFresh, Fresh, StatsList
    <3>6. ui.tool = "duplicates" => WillBeFresh(T, StatsBehind, None, None)
      BY <3>1, <1>1, ShowFresh DEF DashboardFresh, Fresh, StatsBehind
    <3>4. ui.tool = "stale" /\ ui.scanIds # None => Lone'
      BY <3>1, TakenLone DEF DashboardFresh, StaleFresh
    <3>5. ui.tool = "duplicates" /\ ui.duplicatesOpen => WillBeFresh(T, DuplicatesList, None, None)
      <4>1. Apart(DuplicatesList, {"fetchStats"}) /\ DuplicatesList.fn = "fetchDuplicates"
        BY DEF Apart, DuplicatesList, TableCommands
      <4> QED
        BY <4>1, <3>1, <1>1, ShowSpares DEF DashboardFresh
    <3> QED
      BY <2>1, <3>2, <3>3, <3>4, <3>5, <3>6
  <2>3. CASE ScannedAgain # {}
    <3>1. ui.tool = "stale" /\ ui.scanIds # None /\ ScannedAgain = {Req("runScan", None, ui.scanIds)}
      BY <1>1, <2>3 DEF ScannedAgain
    <3>2. /\ WillBeFresh(T, DigestList, None, None)
          /\ WillBeFresh(T, StatsList, None, None) /\ Lone'
      BY <1>1, <1>5, <3>1, StatsShown DEF DashboardFresh, StaleFresh
    <3> QED
      BY <2>1, <3>1, <3>2
  <2> QED
    BY <2>2, <2>3
<1> HIDE DEF done
<1> QED
  BY <1>2, <1>3, <1>4, <1>5 DEF fetchStats

LEMMA FetchDigestFresh ==
    ASSUME NEW L, NEW q, NEW x, Apart(L, {"fetchDigest"}), L.fn # "fetchDigest", L.fn \in DOMAIN shown,
           Fresh(DashboardAlone, L, q, x), fetchDigest
    PROVE  WillBeFresh(DashboardAlone, L, q, x)
BY ShowSpares, LostNotCalm DEF fetchDigest, Fresh

LEMMA DashboardStaleFresh ==
    ASSUME DashboardSound, DashboardFresh, ui.tool = "stale",
           fetchDigest \/ openStale \/ closeStale \/ scanStale \/ ScanNext(None, Loading, "fetchStats")
    PROVE  DashboardFresh'
<1> DEFINE T == DashboardAlone
           done == /\ WillBeFresh(T, DigestList, None, None) /\ WillBeFresh(T, StatsList, None, None)
                   /\ ui'.scanIds # None => Lone'
<1>1. /\ {"fetchStats", "fetchDigest", "fetchDuplicates"} = DOMAIN shown
      /\ {"tool", "scanIds"} \subseteq DOMAIN ui
      /\ Fresh(T, DigestList, None, None) /\ Asked(T, DigestList, None, None)
      /\ Fresh(T, StatsList, None, None) /\ (ui.scanIds # None => Lone)
      /\ calm => Steady(T, calls)
  BY DEF DashboardSound, DashboardFrame, DashboardTool, DashboardStale, DashboardDuplicates, Page, Has, Cells,
     DashboardCells, DashboardFresh, StaleFresh, Fresh, Asked
<1>2. ASSUME ui'.tool = ui.tool, done PROVE DashboardFresh'
  BY <1>2 DEF DashboardFresh, StaleFresh, Fresh, Asked, WillBeFresh, WillBeAsked
<1>3. ASSUME NEW cells, "tool" \notin DOMAIN cells, ui' = cells ++ ui PROVE ui'.tool = ui.tool
  BY <1>1, <1>3 DEF ++
<1>4. ASSUME NEW cells, "scanIds" \notin DOMAIN cells, ui' = cells ++ ui PROVE ui'.scanIds = ui.scanIds
  BY <1>1, <1>4 DEF ++
<1>5. CASE fetchDigest
  <2>1. ui' = <<>> ++ ui
    BY <1>5 DEF fetchDigest, Show, Fails, Display, Settle, SettleShowing
  <2>2. ui'.tool = ui.tool /\ ui'.scanIds = ui.scanIds
    BY <1>3, <1>4, <2>1, NoCells
  <2>3. Apart(StatsList, {"fetchDigest"}) /\ StatsList.fn = "fetchStats" /\ DigestList.fn = "fetchDigest"
        /\ "fetchDigest" \in DigestList.reads
    BY DEF StatsList, DigestList, Apart
  <2>4. WillBeFresh(T, StatsList, None, None)
    BY <1>1, <1>5, <2>3, FetchDigestFresh
  <2>5. WillBeFresh(T, DigestList, None, None)
    BY <1>1, <1>5, <2>3, ShowFresh, LostNotCalm DEF fetchDigest
  <2>6. ui.scanIds # None => Lone'
    <3>1. ASSUME Show("fetchDigest", <<>>), ui.scanIds # None PROVE Lone'
      BY <1>1, <3>1, ShowShows, TakenLone
    <3>2. ASSUME Fails("fetchDigest", <<>>) PROVE Lone'
      BY <1>1, <3>2, FailedNotCalm DEF Lone
    <3> QED
      BY <3>1, <3>2, <1>5 DEF fetchDigest
  <2> QED
    BY <1>2, <2>2, <2>4, <2>5, <2>6
<1>6. CASE openStale \/ closeStale
  <2>1. PICK b : Act([staleModalOpen |-> b], {})
    BY <1>6 DEF openStale, closeStale
  <2>2. WillBeFresh(T, DigestList, None, None) /\ WillBeFresh(T, StatsList, None, None)
        /\ ui' = [staleModalOpen |-> b] ++ ui
    <3>1. DigestList.fn \in DOMAIN shown /\ StatsList.fn \in DOMAIN shown
      BY <1>1 DEF DigestList, StatsList
    <3> QED
      BY <1>1, <2>1, <3>1, SetsSpares
  <2>3. Lone'
    BY <2>1, ActRenews, NoReqs, RenewLone
  <2>4. ui'.tool = ui.tool
    BY <1>3, <2>2
  <2> QED
    BY <1>2, <2>2, <2>3, <2>4
<1>7. CASE openScan(None) \/ ScanNext(None, Loading, "fetchStats")
  <2>1. ui'.tool = ui.tool
    <3>1. "tool" \in DOMAIN ui \ {"scanIds", "started", "agreed"} /\ "tool" \notin DOMAIN Loading
      BY <1>1 DEF Loading
    <3> QED
      BY <1>7, <3>1, ScanKeepsCell
  <2>2. Lone'
    BY <1>1, <1>7, ScanLone DEF DashboardAlone
  <2>3. /\ StatsList.fn = "fetchStats" /\ "fetchStats" \in StatsList.reads \ StatsList.maybe
        /\ "runScan" \in StatsList.cmds \cap StatsList.byq \cap StatsList.maybe
        /\ "runScan" \notin StatsList.reads \cup StatsList.byx
        /\ Apart(DigestList, {"runScan", "fetchStats"}) /\ DigestList.fn = "fetchDigest"
    BY DEF StatsList, DigestList, Apart
  <2>4. WillBeFresh(T, StatsList, None, None)
    BY <1>1, <1>7, <2>3, ScanFresh DEF DashboardAlone
  <2>5. WillBeFresh(T, DigestList, None, None)
    BY <1>1, <1>7, <2>3, ScanSpares DEF DashboardAlone
  <2> QED
    BY <1>2, <2>1, <2>2, <2>4, <2>5
<1> HIDE DEF done
<1> QED
  BY <1>5, <1>6, <1>7 DEF scanStale

LEMMA DashboardDuplicatesFresh ==
    ASSUME HasFn(calls), DashboardSound, DashboardFresh, ui.tool = "duplicates", fetchDigest
           \/ openDuplicates \/ DuplicatesNext
    PROVE  DashboardFresh'
<1> DEFINE T == DashboardAlone
<1>1. /\ {"fetchStats", "fetchDigest", "fetchDuplicates"} = DOMAIN shown
      /\ {"tool", "duplicatesOpen"} \subseteq DOMAIN ui /\ Has(DuplicatesDialog)
      /\ Fresh(T, DigestList, None, None) /\ Asked(T, DigestList, None, None)
      /\ Fresh(T, StatsBehind, None, None)
      /\ ui.duplicatesOpen => Fresh(T, DuplicatesList, None, None)
      /\ calm => Steady(T, calls)
  BY DEF DashboardSound, DashboardFrame, DashboardTool, DashboardStale, DashboardDuplicates, Page, Has, Cells,
     DashboardCells, DuplicatesDialog, DashboardFresh, Fresh, Asked
<1>2. ASSUME ui'.tool = ui.tool, WillBeFresh(T, DigestList, None, None), WillBeFresh(T, StatsBehind, None, None),
             ui'.duplicatesOpen => WillBeFresh(T, DuplicatesList, None, None)
      PROVE  DashboardFresh'
  BY <1>2 DEF DashboardFresh, StaleFresh, Fresh, Asked, WillBeFresh, WillBeAsked
<1>3. CASE fetchDigest
  <2>1. ui' = <<>> ++ ui
    BY <1>3 DEF fetchDigest, Show, Fails, Display, Settle, SettleShowing
  <2>2. ui'.tool = ui.tool /\ ui'.duplicatesOpen = ui.duplicatesOpen
    BY <1>1, <2>1, NoCells DEF ++
  <2>3. /\ Apart(DuplicatesList, {"fetchDigest"}) /\ DuplicatesList.fn = "fetchDuplicates"
        /\ DigestList.fn = "fetchDigest" /\ "fetchDigest" \in DigestList.reads
        /\ Apart(StatsBehind, {"fetchDigest"}) /\ StatsBehind.fn = "fetchStats"
    BY DEF DuplicatesList, DigestList, StatsBehind, Apart, TableCommands
  <2>4. ui.duplicatesOpen => WillBeFresh(T, DuplicatesList, None, None)
    BY <1>1, <1>3, <2>3, FetchDigestFresh
  <2>5. WillBeFresh(T, DigestList, None, None)
    BY <1>1, <1>3, <2>3, ShowFresh, LostNotCalm DEF fetchDigest
  <2>6. WillBeFresh(T, StatsBehind, None, None)
    BY <1>1, <1>3, <2>3, FetchDigestFresh
  <2> QED
    BY <1>2, <2>2, <2>4, <2>5, <2>6
<1>4. CASE openDuplicates \/ DuplicatesNext
  <2>1. ui'.tool = ui.tool
    <3>1. Turns("duplicatesLoading", {"fetchDuplicates"})
      BY DEF DashboardSound, DashboardTool, DashboardStale, DashboardDuplicates
    <3>2. Beside(DuplicatesDialog, {"fetchDuplicates", "runScan"})
      BY <1>1, <1>4, <3>1, DuplicatesKept
    <3> QED
      BY <1>1, <3>2 DEF Beside, DuplicatesDialog
  <2>2. \A L \in {DigestList, StatsBehind} :
            Apart(L, {"runScan", "fetchDuplicates"}) /\ L.fn \in DOMAIN shown \ {"fetchDuplicates"}
    BY <1>1 DEF DigestList, StatsBehind, Apart
  <2>3. WillBeFresh(T, DigestList, None, None) /\ WillBeFresh(T, StatsBehind, None, None)
    BY <1>1, <1>4, <2>2, DuplicatesSpares DEF DashboardAlone
  <2>4. ui'.duplicatesOpen => WillBeFresh(T, DuplicatesList, None, None)
    BY <1>1, <1>4, DuplicatesFresh DEF DashboardAlone
  <2> QED
    BY <1>2, <2>1, <2>3, <2>4
<1> QED
  BY <1>3, <1>4

LEMMA DashboardFreshKept ==
    ASSUME HasFn(calls), DashboardSound, DashboardFresh, DashboardNext
    PROVE  DashboardFresh'
<1> DEFINE T == DashboardAlone
<1>1. /\ {"fetchStats", "fetchDigest", "fetchDuplicates"} = DOMAIN shown
      /\ ui.tool \in {"stale", "duplicates"}
      /\ Fresh(T, DigestList, None, None) /\ Asked(T, DigestList, None, None)
  BY DEF DashboardSound, DashboardFrame, DashboardTool, DashboardStale, DashboardDuplicates, Page,
     DashboardFresh, Fresh
<1>2. CASE fetchStats
  BY <1>2, FetchStatsFresh
<1>3. CASE fetchDigest \/ DashboardToolNext
  <2>1. CASE ui.tool = "stale"
    BY <1>3, <2>1, DashboardStaleFresh DEF DashboardToolNext
  <2>2. CASE ui.tool = "duplicates"
    BY <1>3, <2>2, DashboardDuplicatesFresh DEF DashboardToolNext, DuplicateHostnames
  <2> QED
    BY <1>1, <2>1, <2>2
<1>4. CASE Serve(DashboardTouches, DashboardMaybe)
  <2>1. ui' = ui
    BY <1>4 DEF Serve
  <2>2. WillBeFresh(T, DigestList, None, None)
    BY <1>1, <1>4, DashboardServe, ServeReloads DEF DigestList
  <2>3. /\ Fresh(T, StatsList, None, None) => WillBeFresh(T, StatsList, None, None)
        /\ Fresh(T, StatsBehind, None, None) => WillBeFresh(T, StatsBehind, None, None)
    BY <1>1, <1>4, DashboardServe, ServeReloads DEF StatsList, StatsBehind
  <2>4. Fresh(T, DuplicatesList, None, None) => WillBeFresh(T, DuplicatesList, None, None)
    BY <1>1, <1>4, DashboardServe, ServeReloads DEF DuplicatesList
  <2>5. Lone => Lone'
    BY <1>4, ServeLone
  <2> QED
    BY <2>1, <2>2, <2>3, <2>4, <2>5
    DEF DashboardFresh, StaleFresh, Fresh, Asked, WillBeFresh, WillBeAsked
<1>5. CASE Refuse
  <2>1. \A M, p, y : WillBeFresh(T, M, p, y)
    BY <1>1, <1>5, LostNotCalm
  <2>2. Lone' /\ ui' = ui
    BY <1>5, RefuseNotCalm DEF Lone, Refuse
  <2> QED
    BY <2>1, <2>2 DEF DashboardFresh, StaleFresh, Fresh, Asked, WillBeFresh, WillBeAsked
<1> QED
  BY <1>2, <1>3, <1>4, <1>5 DEF DashboardNext

\* The answer to a list may go, when nothing depends on its being there.
LEMMA RenewAsked ==
    ASSUME NEW T, NEW L, NEW q, NEW x, L.maybe = {}, NEW gone, NEW cells, NEW R, Simple(T, R),
           Renews({}, gone, cells, R), \A r \in R : Apart(L, {r.fn})
    PROVE  WillBeAsked(T, L, q, x)
<1>1. calm' => Steady(T, calls')
  BY RenewSteady
<1>2. calm' => InOrder(L, q, x, calls', shown')
  BY DEF Renews, Asking, Asks1, InOrder, Apart
<1> QED
  BY <1>1, <1>2 DEF WillBeAsked

---------------------------------------------------------------------------
(* IntegrationsPage.tsx                                                    *)
ConnectList ==
    [fn |-> "handleConnect", reads |-> {"handleConnect"}, cmds |-> {}, byq |-> {}, byx |-> {}, maybe |-> {},
     left |-> {}]

\* Also in a drawer that is closed.
IntegrationsFresh ==
    /\ Asked({}, ConnectList, None, ui.source)
    /\ ui.step = "select" => Fresh({}, ConnectList, None, ui.source)

LEMMA IntegrationsFreshKept ==
    ASSUME IntegrationsSound, IntegrationsFresh, IntegrationsNext
    PROVE  IntegrationsFresh'
<1> DEFINE s == ui.source
           asked == WillBeAsked({}, ConnectList, None, s)
           fresh == WillBeFresh({}, ConnectList, None, s)
<1>1. /\ "handleConnect" \in DOMAIN shown /\ {"source", "step"} \subseteq DOMAIN ui
      /\ ConnectList.fn = "handleConnect" /\ ConnectList.maybe = {} /\ ConnectList.reads = {"handleConnect"}
      /\ \A fn : fn # "handleConnect" => Apart(ConnectList, {fn})
      /\ Asked({}, ConnectList, None, s)
  BY DEF IntegrationsSound, Page, Cells, ConnectList, Apart, IntegrationsFresh
<1>2. ASSUME NEW cells, "source" \notin DOMAIN cells, ui' = cells ++ ui, asked, ui'.step = "select" => fresh
      PROVE  IntegrationsFresh'
  <2>1. ui'.source = s
    BY <1>1, <1>2 DEF ++
  <2> QED
    BY <1>2, <2>1 DEF IntegrationsFresh, Fresh, Asked, WillBeFresh, WillBeAsked
<1>3. fresh => asked
  BY DEF WillBeFresh
<1>4. ASSUME NEW cells, "source" \notin DOMAIN cells, "step" \notin DOMAIN cells \/ cells.step # "select",
             ui' = cells ++ ui, asked, ui.step = "select" => fresh
      PROVE  IntegrationsFresh'
  <2>1. ui'.step = "select" => ui.step = "select"
    BY <1>1, <1>4 DEF ++
  <2> QED
    BY <1>2, <1>4, <2>1
<1>5. ASSUME NEW cells, "source" \notin DOMAIN cells, "step" \notin DOMAIN cells,
             Act(cells, {}) PROVE IntegrationsFresh'
  BY <1>1, <1>4, <1>5, SetsSpares DEF IntegrationsFresh
<1>6. ASSUME NEW fn, NEW cells, "source" \notin DOMAIN cells, Fails(fn, cells) \/ Refuse PROVE IntegrationsFresh'
  <2>1. \A p, y : WillBeFresh({}, ConnectList, p, y)
    BY <1>1, <1>6, LostNotCalm
  <2> QED
    BY <2>1 DEF IntegrationsFresh, Fresh, Asked, WillBeFresh, WillBeAsked
<1>7. CASE fetchImportSubnets
  <2>1. ASSUME NEW c \in Ok("fetchSubnets"), Settle(c, <<>>, {Req("fetchSubnets", c.q + 1, None)})
        PROVE  IntegrationsFresh'
    <3> DEFINE r == Req("fetchSubnets", c.q + 1, None)
    <3>1. Passes("fetchSubnets", "ok", <<>>, {r}) /\ r.fn = "fetchSubnets" /\ Reqs({r})
      BY <2>1, SettlePasses, ReqFields DEF Ok
    <3> HIDE DEF r
    <3>2. asked /\ (Fresh({}, ConnectList, None, s) => fresh)
      BY <1>1, <3>1, PassSpares
    <3>3. ui' = <<>> ++ ui
      BY <3>1 DEF Passes
    <3> QED
      BY <1>4, <3>2, <3>3, NoCells DEF IntegrationsFresh
  <2>2. CASE Done("fetchSubnets", <<>>)
    BY <1>1, <1>4, <2>2, DoneSpares, NoCells DEF IntegrationsFresh
  <2>3. CASE Fails("fetchSubnets", <<>>)
    BY <1>6, <2>3, NoCells
  <2> QED
    BY <1>7, <2>1, <2>2, <2>3 DEF fetchImportSubnets
<1>8. CASE openImportDrawer \/ updateRow \/ select
  BY <1>5, <1>8 DEF openImportDrawer, updateRow, select
<1>9. CASE handleClose
  <2> DEFINE cells == [open |-> FALSE] ++ Closed
             R == {Req("fetchSubnets", 1, None)}
  <2>1. Renews({}, {"handleConnect"}, cells, R)
    BY <1>9, ClickRenews, ReqFields DEF handleClose
  <2>2. Simple({}, R) /\ \A r \in R : r.fn = "fetchSubnets"
    BY OneReq, ReqFields
  <2>3. asked
    <3> HIDE DEF R, cells
    <3>1. \A r \in R : Apart(ConnectList, {r.fn})
      BY <1>1, <2>2
    <3> QED
      BY <1>1, <2>1, <2>2, <3>1, RenewAsked
  <2>4. "source" \notin DOMAIN cells /\ "step" \in DOMAIN cells /\ cells.step = "connect"
    BY DEF Closed, ++
  <2>5. ui' = cells ++ ui
    BY <2>1 DEF Renews
  <2>6. ui'.step # "select"
    BY <2>4, <2>5 DEF ++
  <2> QED
    BY <1>2, <2>3, <2>4, <2>5, <2>6
<1>10. CASE handleConnect
  <2>1. CASE Act([connectLoading |-> TRUE], {Req("handleConnect", None, s)})
    BY <1>1, <1>3, <1>4, <2>1, SendsAsks
  <2>2. ASSUME NEW c \in Ok("handleConnect"), NEW found,
               Display(c, "handleConnect",
                       [connectLoading |-> FALSE, rows |-> found, assigned |-> {}, selectedKeys |-> {},
                        step |-> "select"], {})
        PROVE  IntegrationsFresh'
    <3> DEFINE cells == [connectLoading |-> FALSE, rows |-> found, assigned |-> {}, selectedKeys |-> {},
                         step |-> "select"]
    <3>1. Show("handleConnect", cells) /\ "source" \notin DOMAIN cells
      BY <2>2 DEF Show
    <3> HIDE DEF cells
    <3>2. ui' = cells ++ ui /\ fresh
      BY <1>1, <3>1, ShowFresh
    <3> QED
      BY <1>2, <1>3, <3>1, <3>2
  <2>3. CASE Fails("handleConnect", [connectLoading |-> FALSE])
    BY <1>6, <2>3
  <2> QED
    BY <1>10, <2>1, <2>2, <2>3 DEF handleConnect
<1>11. CASE back
  <2>1. Renews({}, {"handleConnect"}, [step |-> "connect"], {})
    BY <1>11, ClickRenews, NoReqs DEF back
  <2>2. asked
    BY <1>1, <2>1, NoReqs, RenewAsked
  <2>3. ui' = [step |-> "connect"] ++ ui
    BY <2>1 DEF Renews
  <2>4. ui'.step # "select"
    BY <2>3 DEF ++
  <2> QED
    BY <1>2, <2>2, <2>3, <2>4
<1>12. CASE handleImportRows
  <2>1. CASE Act([importLoading |-> TRUE], {Req("handleImport", toImport, s)})
    <3>1. ui' = [importLoading |-> TRUE] ++ ui /\ asked /\ (Fresh({}, ConnectList, None, s) => fresh)
      BY <1>1, <2>1, SendsSpares
    <3> QED
      BY <1>4, <3>1 DEF IntegrationsFresh
  <2>2. CASE Done("handleImport", [importLoading |-> FALSE, step |-> "results"])
    <3>1. ui' = [importLoading |-> FALSE, step |-> "results"] ++ ui /\ asked
              /\ (Fresh({}, ConnectList, None, s) => fresh)
      BY <1>1, <2>2, DoneSpares
    <3> QED
      BY <1>4, <3>1 DEF IntegrationsFresh
  <2> QED
    BY <1>6, <1>12, <2>1, <2>2 DEF handleImportRows
<1>13. CASE Serves(<<>>)
  <2>1. ui' = ui
    BY <1>13, ServesStays
  <2>2. asked /\ (Fresh({}, ConnectList, None, s) => fresh)
    BY <1>1, <1>13, NoCells, ServesReloads DEF ConnectList, Reloads
  <2> QED
    BY <2>1, <2>2 DEF IntegrationsFresh, Fresh, Asked, WillBeFresh, WillBeAsked
<1>14. CASE Refuse
  <2>1. \A p, y : WillBeFresh({}, ConnectList, p, y)
    BY <1>1, <1>14, LostNotCalm
  <2> QED
    BY <2>1 DEF IntegrationsFresh, Fresh, Asked, WillBeFresh, WillBeAsked
<1> QED
  BY <1>7, <1>8, <1>9, <1>10, <1>11, <1>12, <1>13, <1>14 DEF IntegrationsNext, Serves

---------------------------------------------------------------------------
(* SubnetsPage.tsx                                                         *)
TreeCommands == {"handleSubmit", "handleDelete", "handleScanSubnet"}
RangeCommands == {"handleSubmitRange", "handleDeleteRange"}
SubnetsAlone == TreeCommands \cup RangeCommands
TreeList ==
    [fn |-> "fetchTree", reads |-> {"fetchTree"}, cmds |-> TreeCommands, byq |-> TreeCommands, byx |-> {},
     maybe |-> {}, left |-> {}]
RangesList ==
    [fn |-> "fetchRanges", reads |-> {"fetchRanges"}, cmds |-> RangeCommands, byq |-> {}, byx |-> RangeCommands,
     maybe |-> {}, left |-> {}]

SubnetsFresh ==
    /\ Fresh(SubnetsAlone, TreeList, ui.filter, None)
    /\ ui.tool = "drawer" /\ ui.drawerSubnet # None => Fresh(SubnetsAlone, RangesList, None, ui.drawerSubnet)

LEMMA SubnetsServe == \A L \in {TreeList, RangesList} : Reloads(SubnetsAlone, L, SubnetsTouches)
BY DEF SubnetsTouches, SubnetsAlone, TreeCommands, RangeCommands, TreeList, RangesList, Reloads, ++

LEMMA SubnetLists ==
    /\ TreeList.fn = "fetchTree" /\ RangesList.fn = "fetchRanges"
    /\ "fetchTree" \in TreeList.reads \ TreeList.maybe /\ "fetchRanges" \in RangesList.reads \ RangesList.maybe
    /\ TreeCommands \subseteq (TreeList.cmds \ TreeList.reads) \cap TreeList.byq
    /\ RangeCommands \subseteq (RangesList.cmds \ RangesList.reads) \cap RangesList.byx
    /\ TreeCommands \cap (TreeList.maybe \cup TreeList.byx) = {}
    /\ RangeCommands \cap (RangesList.maybe \cup RangesList.byq) = {}
    /\ Apart(TreeList, {"fetchRanges"}) /\ Apart(RangesList, {"fetchTree"})
    /\ \A fn \in TreeCommands : Apart(RangesList, {fn})
    /\ \A fn \in RangeCommands : Apart(TreeList, {fn})
    /\ \A fn \in {"fetchVrfs", "conflictScan"} : Apart(TreeList, {fn}) /\ Apart(RangesList, {fn})
BY DEF TreeList, RangesList, TreeCommands, RangeCommands, Apart

LEMMA SubnetsFreshKept ==
    ASSUME SubnetsSound, SubnetsFresh, SubnetsNext
    PROVE  SubnetsFresh'
<1> DEFINE T == SubnetsAlone
           f == ui.filter
           d == ui.drawerSubnet
           drawn == ui.tool = "drawer" /\ d # None
           tree == WillBeFresh(T, TreeList, f, None)
           ranges == WillBeFresh(T, RangesList, None, d)
           keys == {"tool", "filter", "drawerSubnet"}
           spared == \A L, q, x : L \in {TreeList, RangesList} /\ Fresh(T, L, q, x) => WillBeFresh(T, L, q, x)
<1>1. /\ {"fetchTree", "fetchRanges", "conflictScan"} = DOMAIN shown
      /\ {"tool", "filter"} \subseteq DOMAIN ui /\ (ui.tool = "drawer" => "drawerSubnet" \in DOMAIN ui)
      /\ Fresh(T, TreeList, f, None) /\ Asked(T, TreeList, f, None) /\ (calm => Steady(T, calls))
      /\ drawn => Fresh(T, RangesList, None, d) /\ Asked(T, RangesList, None, d)
      /\ \A L \in {TreeList, RangesList} : L.fn \in DOMAIN shown
  BY SubnetLists DEF SubnetsSound, SubnetsTree, SubnetsTool, SubnetsEdit, SubnetsScan, SubnetsDrawer,
     Page, Has, Cells,
     TreeCells, SubnetsFresh, Fresh, Asked
<1>2. ASSUME ui'.tool = ui.tool, ui'.filter = f, ui.tool = "drawer" => ui'.drawerSubnet = d, tree, drawn => ranges
      PROVE  SubnetsFresh'
  BY <1>2 DEF SubnetsFresh, Fresh, Asked, WillBeFresh, WillBeAsked
<1>3. ASSUME NEW cells, keys \cap DOMAIN cells = {}, ui' = cells ++ ui, tree, drawn => ranges
      PROVE  SubnetsFresh'
  <2>1. ui'.tool = ui.tool /\ ui'.filter = f /\ (ui.tool = "drawer" => ui'.drawerSubnet = d)
    BY <1>1, <1>3 DEF ++
  <2> QED
    BY <1>2, <1>3, <2>1
<1>4. ASSUME spared PROVE tree /\ (drawn => ranges)
  BY <1>1, <1>4
<1>5. ASSUME NEW cells, keys \cap DOMAIN cells = {}, Act(cells, {}) PROVE SubnetsFresh'
  <2>1. spared /\ ui' = cells ++ ui
    BY <1>1, <1>5, SetsSpares DEF Act, ActClearing
  <2> QED
    BY <1>3, <1>4, <1>5, <2>1
<1>6. ASSUME NEW fn, NEW cells, Fails(fn, cells), keys \cap DOMAIN cells = {} PROVE SubnetsFresh'
  <2>1. spared
    BY <1>1, <1>6, LostNotCalm
  <2>2. ui' = cells ++ ui
    BY <1>6 DEF Fails, Settle, SettleShowing
  <2> QED
    BY <1>3, <1>4, <1>6, <2>1, <2>2
<1>7. ASSUME NEW fn \in TreeCommands, NEW x, NEW cells, keys \cap DOMAIN cells = {}, Act(cells, {Req(fn, f, x)})
      PROVE  SubnetsFresh'
  <2>1. tree /\ ui' = cells ++ ui
    BY <1>7, SendsCommand, SubnetLists
  <2>2. drawn => ranges
    BY <1>1, <1>7, SendsSpares, SubnetLists
  <2> QED
    BY <1>3, <1>7, <2>1, <2>2
<1>8. ASSUME NEW fn \in TreeCommands, NEW cells, keys \cap DOMAIN cells = {}, ReloadTree(fn, cells)
      PROVE  SubnetsFresh'
  <2>1. PICK c \in Ok(fn) : Settle(c, cells ++ Loading, {Req("fetchTree", c.q, None)})
    BY <1>8 DEF ReloadTree, FetchTree
  <2>2. tree /\ ui' = (cells ++ Loading) ++ ui
    BY <1>1, <2>1, ReloadsQuery, SubnetLists DEF SubnetsAlone
  <2>3. drawn => ranges
    BY <1>1, <2>1, ReloadSpares, SubnetLists DEF SubnetsAlone
  <2>4. keys \cap DOMAIN (cells ++ Loading) = {}
    BY <1>8 DEF ++, Loading
  <2> QED
    BY <1>3, <2>2, <2>3, <2>4
<1>9. ASSUME NEW fn \in RangeCommands, NEW cells, keys \cap DOMAIN cells = {}, Act(cells, {Req(fn, None, d)})
      PROVE  SubnetsFresh'
  <2>1. ranges /\ ui' = cells ++ ui
    BY <1>9, SendsCommand, SubnetLists
  <2>2. tree
    BY <1>1, <1>9, SendsSpares, SubnetLists
  <2> QED
    BY <1>3, <1>9, <2>1, <2>2
<1>10. ASSUME NEW fn \in RangeCommands, NEW cells, keys \cap DOMAIN cells = {}, ReloadRanges(fn, cells)
       PROVE  SubnetsFresh'
  <2>1. PICK c \in Ok(fn) : Settle(c, cells ++ LoadingRanges, {Req("fetchRanges", None, c.x)})
    BY <1>10 DEF ReloadRanges, FetchRanges
  <2>2. tree
    BY <1>1, <2>1, ReloadSpares, SubnetLists DEF SubnetsAlone
  <2>3. drawn => ranges
    BY <1>1, <2>1, ReloadsSubject, SubnetLists DEF SubnetsAlone
  <2>4. keys \cap DOMAIN (cells ++ LoadingRanges) = {} /\ ui' = (cells ++ LoadingRanges) ++ ui
    BY <1>10, <2>1 DEF ++, LoadingRanges, Settle, SettleShowing
  <2> QED
    BY <1>3, <2>2, <2>3, <2>4
<1>11. CASE fetchVrfs
  <2>1. PICK c \in Ok("fetchVrfs") \cup Failed("fetchVrfs") : Settle(c, <<>>, {})
    BY <1>11 DEF fetchVrfs
  <2>2. spared
    <3>1. CASE c \in Ok("fetchVrfs")
      <4>1. Passes("fetchVrfs", "ok", <<>>, {})
        BY <2>1, <3>1, SettlePasses DEF Ok
      <4> QED
        BY <4>1, TakesSpares, SubnetLists
    <3>2. CASE c \in Failed("fetchVrfs")
      BY <1>1, <2>1, <3>2, FailedSettleNotCalm
    <3> QED
      BY <2>1, <3>1, <3>2
  <2>3. ui' = <<>> ++ ui
    BY <2>1 DEF Settle, SettleShowing
  <2> QED
    BY <1>3, <1>4, <2>2, <2>3, NoCells
<1>12. CASE fetchTree
  <2>1. CASE Act(Loading, {Req("fetchTree", f, None)})
    <3>1. tree /\ ui' = Loading ++ ui
      BY <2>1, SendsAsks, SubnetLists
    <3>2. drawn => ranges
      BY <1>1, <2>1, SendsSpares, SubnetLists
    <3> QED
      BY <1>3, <3>1, <3>2 DEF Loading
  <2>2. CASE Show("fetchTree", [loading |-> FALSE])
    <3>1. tree /\ ui' = [loading |-> FALSE] ++ ui
      BY <1>1, <2>2, ShowFresh, SubnetLists
    <3>2. drawn => ranges
      BY <1>1, <2>2, ShowSpares, SubnetLists
    <3> QED
      BY <1>3, <3>1, <3>2
  <2>3. CASE Fails("fetchTree", [loading |-> FALSE])
    BY <1>6, <2>3
  <2> QED
    BY <1>12, <2>1, <2>2, <2>3 DEF fetchTree, FetchTree
<1>13. CASE setFilter
  <2>1. PICK g : Act([filter |-> g] ++ Loading, {Req("fetchTree", g, None)})
    BY <1>13 DEF setFilter, FetchTree
  <2>2. WillBeFresh(T, TreeList, g, None) /\ ui' = ([filter |-> g] ++ Loading) ++ ui
    BY <2>1, SendsAsks, SubnetLists
  <2>3. drawn => ranges
    BY <1>1, <2>1, SendsSpares, SubnetLists
  <2>4. ui'.tool = ui.tool /\ ui'.filter = g /\ (ui.tool = "drawer" => ui'.drawerSubnet = d)
    BY <1>1, <2>2 DEF ++, Loading
  <2> QED
    BY <2>2, <2>3, <2>4 DEF SubnetsFresh, Fresh, Asked, WillBeFresh, WillBeAsked
<1>14. CASE openSubnetModal \/ cancelSubnet \/ closeScanModal \/ openRange \/ cancelRange \/ openConflicts
  BY <1>5, <1>14 DEF openSubnetModal, cancelSubnet, closeScanModal, openRange, cancelRange, openConflicts
<1>15. CASE handleSubmitSubnet
  BY <1>6, <1>7, <1>8, <1>15 DEF handleSubmitSubnet, TreeCommands
<1>16. CASE handleDeleteSubnet
  BY <1>6, <1>7, <1>8, <1>16, NoCells DEF handleDeleteSubnet, TreeCommands
<1>17. CASE handleScanSubnet
  <2>1. CASE startSubnetScan
    <3>1. PICK s, fns : Abort(fns, [scanningSubnetId |-> s, scanModal |-> TRUE], {Req("handleScanSubnet", f, s)})
      BY <2>1 DEF startSubnetScan
    <3> DEFINE cells == [scanningSubnetId |-> s, scanModal |-> TRUE]
    <3>2. Renews({}, {}, cells, {Req("handleScanSubnet", f, s)}) /\ keys \cap DOMAIN cells = {}
      BY <3>1, AbortRenews, ReqFields DEF Abort
    <3> HIDE DEF cells
    <3>3. "handleScanSubnet" \in TreeCommands /\ Apart(RangesList, {})
      BY DEF TreeCommands, Apart
    <3>4. tree
      BY <3>2, <3>3, RenewCommands, SubnetLists
    <3>5. drawn => ranges
      BY <1>1, <3>2, <3>3, RenewSparesOne, SubnetLists
    <3>6. ui' = cells ++ ui
      BY <3>2 DEF Renews
    <3> QED
      BY <1>3, <3>2, <3>4, <3>5, <3>6
  <2> QED
    BY <1>6, <1>8, <1>17, <2>1 DEF handleScanSubnet, TreeCommands
<1>18. CASE openDrawer
  <2>1. PICK s : Act([drawerSubnet |-> s] ++ LoadingRanges, {Req("fetchRanges", None, s)})
    BY <1>18 DEF openDrawer, FetchRanges
  <2>2. WillBeFresh(T, RangesList, None, s) /\ ui' = ([drawerSubnet |-> s] ++ LoadingRanges) ++ ui
    BY <2>1, SendsAsks, SubnetLists
  <2>3. tree
    BY <1>1, <2>1, SendsSpares, SubnetLists
  <2>4. ui'.tool = ui.tool /\ ui'.filter = f /\ ui'.drawerSubnet = s
    BY <1>1, <2>2 DEF ++, LoadingRanges
  <2> QED
    BY <2>2, <2>3, <2>4 DEF SubnetsFresh, Fresh, Asked, WillBeFresh, WillBeAsked
<1>19. CASE closeDrawer
  <2>1. tree /\ ui' = [drawerSubnet |-> None] ++ ui
    BY <1>1, <1>19, ClearSetsSpares, SubnetLists DEF closeDrawer
  <2>2. ui'.tool = ui.tool /\ ui'.filter = f /\ ui'.drawerSubnet = None
    BY <1>1, <2>1 DEF ++
  <2> QED
    BY <2>1, <2>2 DEF SubnetsFresh, Fresh, Asked, WillBeFresh, WillBeAsked
<1>20. CASE fetchRanges
  <2>1. CASE Show("fetchRanges", [loadingRanges |-> FALSE])
    <3>1. drawn => ranges
      BY <1>1, <2>1, ShowFresh, SubnetLists
    <3>2. tree /\ ui' = [loadingRanges |-> FALSE] ++ ui
      BY <1>1, <2>1, ShowSpares, SubnetLists
    <3> QED
      BY <1>3, <3>1, <3>2
  <2>2. ASSUME NEW c \in Failed("fetchRanges"), Clear(c, "fetchRanges", [loadingRanges |-> FALSE])
        PROVE  SubnetsFresh'
    <3>1. ~calm'
      BY <1>1, <2>2 DEF Clear, SettleShowing, Follow, Failed, Steady
    <3>2. tree /\ ranges
      BY <3>1 DEF WillBeFresh, WillBeAsked
    <3>3. ui' = [loadingRanges |-> FALSE] ++ ui
      BY <2>2 DEF Clear, SettleShowing
    <3> QED
      BY <1>3, <3>2, <3>3
  <2> QED
    BY <1>20, <2>1, <2>2 DEF fetchRanges
<1>21. CASE handleSubmitRange
  BY <1>6, <1>9, <1>10, <1>21 DEF handleSubmitRange, RangeCommands
<1>22. CASE handleDeleteRange
  BY <1>6, <1>9, <1>10, <1>22, NoCells DEF handleDeleteRange, RangeCommands
<1>23. CASE closeConflicts
  <2>1. spared /\ ui' = [conflictDrawerOpen |-> FALSE] ++ ui
    <3>1. \A L \in {TreeList, RangesList} : L.fn \in DOMAIN shown \ {"conflictScan"}
      BY <1>1, SubnetLists
    <3>2. ActClearing({"conflictScan"}, [conflictDrawerOpen |-> FALSE], {})
      BY <1>23 DEF closeConflicts
    <3> HIDE DEF T
    <3>3. spared
      BY <3>1, <3>2, ClearSetsSpares
    <3>4. ui' = [conflictDrawerOpen |-> FALSE] ++ ui
      BY <3>2 DEF ActClearing
    <3> QED
      BY <3>3, <3>4
  <2> QED
    BY <1>3, <1>4, <2>1
<1>24. CASE conflictScan
  <2>1. CASE ActClearing({"conflictScan"}, [conflictLoading |-> TRUE], {Req("conflictScan", None, d)})
    <3>1. Renews({}, {"conflictScan"}, [conflictLoading |-> TRUE], {Req("conflictScan", None, d)})
      BY <2>1, ClickRenews, ReqFields
    <3>2. \A L \in {TreeList, RangesList} :
              L.fn \in DOMAIN shown \ {"conflictScan"} /\ Apart(L, {}) /\ Apart(L, {"conflictScan"})
      BY <1>1, SubnetLists DEF Apart
    <3>3. spared
      BY <3>1, <3>2, RenewSparesOne
    <3>4. ui' = [conflictLoading |-> TRUE] ++ ui
      BY <3>1 DEF Renews
    <3> QED
      BY <1>3, <1>4, <3>3, <3>4
  <2>2. CASE Show("conflictScan", [conflictLoading |-> FALSE])
    <3>1. spared /\ ui' = [conflictLoading |-> FALSE] ++ ui
      BY <1>1, <2>2, ShowSpares, SubnetLists
    <3> QED
      BY <1>3, <1>4, <3>1
  <2> QED
    BY <1>6, <1>24, <2>1, <2>2 DEF conflictScan
<1>25. CASE Serves(SubnetsTouches)
  <2>1. spared
    BY <1>1, <1>25, SubnetsServe, ServesReloads
  <2>2. ui' = ui
    BY <1>25, ServesStays
  <2> QED
    BY <1>2, <1>4, <2>1, <2>2
<1>26. CASE Refuse
  <2>1. spared /\ ui' = ui
    BY <1>1, <1>26, LostNotCalm DEF Refuse
  <2> QED
    BY <1>2, <1>4, <2>1
<1> HIDE DEF T, f, d, drawn, tree, ranges, keys, spared
<1> QED
  BY <1>11, <1>12, <1>13, <1>14, <1>15, <1>16, <1>17, <1>18, <1>19, <1>20, <1>21, <1>22, <1>23, <1>24,
     <1>25, <1>26
  DEF SubnetsNext, Serves, TreeNext, SubnetsToolNext, DrawerNext, SubnetsSound, SubnetsTool, SubnetsEdit,
      SubnetsScan, SubnetsDrawer

---------------------------------------------------------------------------
(* FilesPage.tsx                                                           *)
FilesAlone == {"upload", "deleteFile", "createFileShare"}
TableOfFiles ==
    [fn |-> "fetchFiles", reads |-> {"fetchFiles"}, cmds |-> {"upload", "deleteFile"},
     byq |-> {"upload", "deleteFile"}, byx |-> {}, maybe |-> {}, left |-> {<<"download", "ok">>}]
\* A scan may have changed the table while a file of it is pending.
PendingFiles ==
    [fn |-> "fetchFiles", reads |-> {"fetchFiles"}, cmds |-> {"upload", "deleteFile"},
     byq |-> {"upload", "deleteFile"}, byx |-> {}, maybe |-> {},
     left |-> {<<"download", "ok">>, <<"scanEnds", "ok">>}]
FileSharesList ==
    [fn |-> "fetchFileShares", reads |-> {"fetchFileShares", "reloadFileShares"}, cmds |-> {"createFileShare"},
     byq |-> {}, byx |-> {"createFileShare"}, maybe |-> {}, left |-> {<<"revokeFileShare", "ok">>}]

FilesFresh ==
    /\ Asked(FilesAlone, TableOfFiles, <<ui.pageNum, ui.search>>, None)
    /\ Fresh(FilesAlone, PendingFiles, <<ui.pageNum, ui.search>>, None)
    /\ ~ui.pending => Fresh(FilesAlone, TableOfFiles, <<ui.pageNum, ui.search>>, None)
    /\ ui.tool = "share" /\ ui.shareTarget # None => Fresh(FilesAlone, FileSharesList, None, ui.shareTarget)

LEMMA FilesServe == \A L \in {TableOfFiles, PendingFiles, FileSharesList} : Reloads(FilesAlone, L, FilesTouches)
<1>1. /\ DOMAIN FilesTouches = FilesAlone \cup {"download", "revokeFileShare"}
      /\ \A fn \in {"upload", "deleteFile", "download"} : FilesTouches[fn] = {"fetchFiles"}
      /\ \A fn \in {"createFileShare", "revokeFileShare"} :
             FilesTouches[fn] = {"fetchFileShares", "reloadFileShares"}
  BY DEF FilesTouches, FilesAlone, ++
<1>2. /\ \A L \in {TableOfFiles, PendingFiles} :
             /\ L.reads \cup {L.fn} = {"fetchFiles"} /\ <<"download", "ok">> \in L.left
             /\ L.cmds = {"upload", "deleteFile"}
      /\ FileSharesList.reads \cup {FileSharesList.fn} = {"fetchFileShares", "reloadFileShares"}
      /\ <<"revokeFileShare", "ok">> \in FileSharesList.left /\ FileSharesList.cmds = {"createFileShare"}
  BY DEF TableOfFiles, PendingFiles, FileSharesList
<1> QED
  BY <1>1, <1>2 DEF Reloads, FilesAlone

LEMMA FilesLists ==
    /\ TableOfFiles.fn = "fetchFiles" /\ FileSharesList.fn = "fetchFileShares" /\ PendingFiles.fn = "fetchFiles"
    /\ "fetchFiles" \in TableOfFiles.reads \ TableOfFiles.maybe
    /\ {"fetchFileShares", "reloadFileShares"} \subseteq FileSharesList.reads \ FileSharesList.maybe
    /\ {"upload", "deleteFile"} \subseteq (TableOfFiles.cmds \ TableOfFiles.reads) \cap TableOfFiles.byq
    /\ "createFileShare" \in (FileSharesList.cmds \ FileSharesList.reads) \cap FileSharesList.byx
    /\ {"upload", "deleteFile"} \cap (TableOfFiles.maybe \cup TableOfFiles.byx) = {}
    /\ "createFileShare" \notin FileSharesList.maybe \cup FileSharesList.byq
    /\ TableOfFiles.maybe = {}
    /\ \A fn : fn \notin {"fetchFiles", "upload", "deleteFile"} =>
           Apart(TableOfFiles, {fn}) /\ Apart(PendingFiles, {fn})
    /\ \A fn : fn \notin {"fetchFileShares", "reloadFileShares", "createFileShare"} => Apart(FileSharesList, {fn})
BY DEF TableOfFiles, PendingFiles, FileSharesList, Apart

LEMMA FilesFresher ==
    ASSUME NEW T, NEW q, NEW x, WillBeFresh(T, TableOfFiles, q, x)
    PROVE  WillBeFresh(T, PendingFiles, q, x) /\ WillBeAsked(T, TableOfFiles, q, x)
<1>1. /\ PendingFiles.fn = TableOfFiles.fn /\ PendingFiles.reads = TableOfFiles.reads
      /\ PendingFiles.cmds = TableOfFiles.cmds /\ PendingFiles.byq = TableOfFiles.byq
      /\ PendingFiles.byx = TableOfFiles.byx /\ PendingFiles.maybe = {}
      /\ TableOfFiles.left \subseteq PendingFiles.left
  BY DEF PendingFiles, TableOfFiles
<1> QED
  BY <1>1 DEF WillBeFresh, WillBeAsked, InOrder, Due, Good

LEMMA FilesFreshKept ==
    ASSUME FilesSound, FilesFresh, FilesPageNext \/ Serves(FilesTouches) \/ Refuse
    PROVE  FilesFresh'
<1> DEFINE T == FilesAlone
           q == <<ui.pageNum, ui.search>>
           t == ui.shareTarget
           shared == ui.tool = "share" /\ t # None
           asked == WillBeAsked(T, TableOfFiles, q, None) /\ WillBeFresh(T, PendingFiles, q, None)
           table == WillBeFresh(T, TableOfFiles, q, None)
           shares == WillBeFresh(T, FileSharesList, None, t)
           keys == {"tool", "pageNum", "search", "pending", "shareTarget"}
           spared == \A L, p, x : L \in {TableOfFiles, PendingFiles, FileSharesList} =>
                         /\ Asked(T, L, p, x) => WillBeAsked(T, L, p, x)
                         /\ Fresh(T, L, p, x) => WillBeFresh(T, L, p, x)
<1>1. /\ {"fetchFiles", "fetchFileShares"} = DOMAIN shown
      /\ {"tool", "pageNum", "search", "pending"} \subseteq DOMAIN ui
      /\ ui.tool = "share" => "shareTarget" \in DOMAIN ui
      /\ Asked(T, TableOfFiles, q, None) /\ (calm => Steady(T, calls))
      /\ Fresh(T, PendingFiles, q, None) /\ Asked(T, PendingFiles, q, None)
      /\ ~ui.pending => Fresh(T, TableOfFiles, q, None)
      /\ shared => Fresh(T, FileSharesList, None, t) /\ Asked(T, FileSharesList, None, t)
      /\ \A L \in {TableOfFiles, PendingFiles, FileSharesList} : L.fn \in DOMAIN shown
  BY FilesLists DEF FilesSound, FilesFrame, FilesTool, FilesList, FilesUpload, FilesRequest,
     FilesShare, Page, Has, Cells,
     ListCells, FilesFresh, Fresh, Asked
<1>2. ASSUME ui'.tool = ui.tool, ui'.pageNum = ui.pageNum, ui'.search = ui.search, ui'.pending = ui.pending,
             ui.tool = "share" => ui'.shareTarget = t, asked, ~ui.pending => table, shared => shares
      PROVE  FilesFresh'
  BY <1>2 DEF FilesFresh, Fresh, Asked, WillBeFresh, WillBeAsked
<1>3. ASSUME NEW cells, keys \cap DOMAIN cells = {}, ui' = cells ++ ui, asked, ~ui.pending => table,
             shared => shares
      PROVE  FilesFresh'
  <2>1. /\ ui'.tool = ui.tool /\ ui'.pageNum = ui.pageNum /\ ui'.search = ui.search /\ ui'.pending = ui.pending
        /\ ui.tool = "share" => ui'.shareTarget = t
    BY <1>1, <1>3 DEF ++
  <2> QED
    BY <1>2, <1>3, <2>1
<1>4. ASSUME NEW cells, keys \cap DOMAIN cells = {}, ui' = cells ++ ui, spared PROVE FilesFresh'
  <2>1. asked /\ (~ui.pending => table) /\ (shared => shares)
    BY <1>1, <1>4
  <2> QED
    BY <1>3, <1>4, <2>1
<1>5. ASSUME NEW cells, keys \cap DOMAIN cells = {}, Act(cells, {}) PROVE FilesFresh'
  <2>1. spared
    BY <1>1, <1>5, SetsSpares
  <2>2. ui' = cells ++ ui
    BY <1>5 DEF Act, ActClearing
  <2> QED
    BY <1>4, <1>5, <2>1, <2>2
<1>6. ASSUME NEW fn, NEW cells, Fails(fn, cells), keys \cap DOMAIN cells = {} PROVE FilesFresh'
  <2>1. spared
    BY <1>1, <1>6, LostNotCalm DEF WillBeFresh
  <2>2. ui' = cells ++ ui
    BY <1>6 DEF Fails, Settle, SettleShowing
  <2> QED
    BY <1>4, <1>6, <2>1, <2>2
<1>7. ASSUME NEW fn, NEW cells, \A L \in {TableOfFiles, PendingFiles, FileSharesList} : Apart(L, {fn}),
             keys \cap DOMAIN cells = {},
             Done(fn, cells) \/ \E p, x : Act(cells, {Req(fn, p, x)})
      PROVE  FilesFresh'
  <2>1. spared
    BY <1>1, <1>7, SendsSpares, DoneSpares
  <2>2. ui' = cells ++ ui
    BY <1>7 DEF Act, ActClearing, Done, Settle, SettleShowing
  <2> QED
    BY <1>4, <1>7, <2>1, <2>2
<1>8. ASSUME NEW fn \in {"upload", "deleteFile"}, NEW x, NEW cells, keys \cap DOMAIN cells = {},
             Act(cells, {Req(fn, q, x)})
      PROVE  FilesFresh'
  <2>1. table /\ ui' = cells ++ ui
    BY <1>8, SendsCommand, FilesLists
  <2>2. shared => shares
    BY <1>1, <1>8, SendsSpares, FilesLists
  <2> QED
    BY <1>3, <1>8, <2>1, <2>2, FilesFresher
<1>9. ASSUME NEW fn \in {"upload", "deleteFile"}, NEW c \in Ok(fn), NEW cells, keys \cap DOMAIN cells = {},
             Settle(c, cells, {Req("fetchFiles", c.q, None)})
      PROVE  FilesFresh'
  <2>1. table /\ ui' = cells ++ ui
    BY <1>1, <1>9, ReloadsQuery, FilesLists DEF FilesAlone
  <2>2. shared => shares
    BY <1>1, <1>9, ReloadSpares, FilesLists DEF FilesAlone
  <2> QED
    BY <1>3, <1>9, <2>1, <2>2, FilesFresher
<1>10. ASSUME NEW cells, keys \cap DOMAIN cells = {}, Act(cells, {Req("fetchFiles", q, None)}) PROVE FilesFresh'
  <2>1. table /\ ui' = cells ++ ui
    BY <1>10, SendsAsks, FilesLists
  <2>2. shared => shares
    BY <1>1, <1>10, SendsSpares, FilesLists
  <2> QED
    BY <1>3, <1>10, <2>1, <2>2, FilesFresher
<1>11. CASE fetchFiles
  <2>1. ASSUME NEW some, Show("fetchFiles", [loading |-> FALSE, pending |-> some]) PROVE FilesFresh'
    <3>1. table /\ ui' = [loading |-> FALSE, pending |-> some] ++ ui
      BY <1>1, <2>1, ShowFresh, FilesLists
    <3>2. shared => shares
      BY <1>1, <2>1, ShowSpares, FilesLists
    <3>3. /\ ui'.tool = ui.tool /\ ui'.pageNum = ui.pageNum /\ ui'.search = ui.search
          /\ ui.tool = "share" => ui'.shareTarget = t
      BY <1>1, <3>1 DEF ++
    <3>4. asked
      BY <3>1, FilesFresher
    <3> QED
      BY <3>1, <3>2, <3>3, <3>4 DEF FilesFresh, Fresh, Asked, WillBeFresh, WillBeAsked
  <2> QED
    BY <1>6, <1>10, <1>11, <2>1 DEF fetchFiles, TheseFiles, FetchFiles
<1>12. CASE poll
  BY <1>10, <1>12 DEF poll, TheseFiles, FetchFiles
<1>13. ASSUME NEW p, NEW s, NEW cells, ui' = cells ++ ui, cells.pageNum = p, "pageNum" \in DOMAIN cells,
              cells.search = s /\ "search" \in DOMAIN cells,
                  {"tool", "pending", "shareTarget"} \cap DOMAIN cells = {},
              Act(cells, {Req("fetchFiles", <<p, s>>, None)})
       PROVE  FilesFresh'
  <2>1. WillBeFresh(T, TableOfFiles, <<p, s>>, None)
    BY <1>13, SendsAsks, FilesLists
  <2>2. shared => shares
    BY <1>1, <1>13, SendsSpares, FilesLists
  <2>3. /\ ui'.tool = ui.tool /\ ui'.pageNum = p /\ ui'.search = s
        /\ ui.tool = "share" => ui'.shareTarget = t
    BY <1>1, <1>13 DEF ++
  <2>4. WillBeFresh(T, PendingFiles, <<p, s>>, None)
    BY <2>1, FilesFresher
  <2> QED
    BY <2>1, <2>2, <2>3, <2>4 DEF FilesFresh, Fresh, Asked, WillBeFresh, WillBeAsked
<1>14. CASE setSearch
  <2>1. PICK s : Act([search |-> s, pageNum |-> 1, loading |-> TRUE], {Req("fetchFiles", <<1, s>>, None)})
    BY <1>14 DEF setSearch, FetchFiles
  <2>2. ui' = [search |-> s, pageNum |-> 1, loading |-> TRUE] ++ ui
    BY <2>1 DEF Act, ActClearing
  <2> QED
    BY <1>13, <2>1, <2>2
<1>15. CASE setFilesPage
  <2>1. PICK p : Act([pageNum |-> p, loading |-> TRUE], {Req("fetchFiles", <<p, ui.search>>, None)})
    BY <1>15 DEF setFilesPage, FetchFiles
  <2>2. WillBeFresh(T, TableOfFiles, <<p, ui.search>>, None) /\ ui' = [pageNum |-> p, loading |-> TRUE] ++ ui
    BY <2>1, SendsAsks, FilesLists
  <2>3. shared => shares
    BY <1>1, <2>1, SendsSpares, FilesLists
  <2>4. /\ ui'.tool = ui.tool /\ ui'.pageNum = p /\ ui'.search = ui.search
        /\ ui.tool = "share" => ui'.shareTarget = t
    BY <1>1, <2>2 DEF ++
  <2>5. WillBeFresh(T, PendingFiles, <<p, ui.search>>, None)
    BY <2>2, FilesFresher
  <2> QED
    BY <2>2, <2>3, <2>4, <2>5 DEF FilesFresh, Fresh, Asked, WillBeFresh, WillBeAsked
<1>16. CASE scanEnds
  <2>1. /\ ui' = ui /\ ui.pending /\ calls' = calls /\ calm' = calm
        /\ shown' = [shown EXCEPT !["fetchFiles"].since = @ \cup {<<"scanEnds", "ok">>}] /\ calm
    BY <1>1, <1>16 DEF scanEnds, Follow
  <2>2. WillBeAsked(T, TableOfFiles, q, None) /\ WillBeAsked(T, PendingFiles, q, None)
    BY <1>1, <2>1 DEF Asked, WillBeAsked, InOrder, TableOfFiles, PendingFiles
  <2>3. Good(PendingFiles, q, None, shown) => Good(PendingFiles, q, None, shown')
    <3> SUFFICES ASSUME NEW old \in SUBSET PendingFiles.left,
                        shown["fetchFiles"] = [q |-> q, x |-> None, since |-> old]
                 PROVE  Good(PendingFiles, q, None, shown')
      BY FilesLists DEF Good
    <3>1. shown'["fetchFiles"] = [q |-> q, x |-> None, since |-> old \cup {<<"scanEnds", "ok">>}]
      BY <1>1, <2>1
    <3>2. <<"scanEnds", "ok">> \in PendingFiles.left
      BY DEF PendingFiles
    <3> QED
      BY <3>1, <3>2, FilesLists DEF Good
  <2>4. WillBeFresh(T, PendingFiles, q, None)
    BY <1>1, <2>1, <2>2, <2>3 DEF Fresh, WillBeFresh, Due
  <2>5. shared => shares
    <3>1. shown'["fetchFileShares"] = shown["fetchFileShares"]
      BY <1>1, <2>1
    <3> QED
      BY <1>1, <2>1, <3>1, FilesLists DEF Fresh, Asked, WillBeFresh, WillBeAsked, InOrder, Due, Good
  <2> QED
    BY <1>2, <2>1, <2>2, <2>4, <2>5
<1>17. CASE handleDownload
  <2>1. \A L \in {TableOfFiles, PendingFiles, FileSharesList} : Apart(L, {"download"})
    BY FilesLists
  <2> QED
    BY <1>6, <1>7, <1>17, <2>1 DEF handleDownload
<1>18. CASE handleDeleteFile
  BY <1>6, <1>8, <1>9, <1>18, NoCells DEF handleDeleteFile
<1>19. CASE openUpload \/ chooseUpload \/ closeUpload \/ openRequest \/ closeRequest
  BY <1>5, <1>19 DEF openUpload, chooseUpload, closeUpload, openRequest, closeRequest
<1>20. CASE handleUpload
  BY <1>6, <1>8, <1>9, <1>20 DEF handleUpload
<1>21. CASE createRequest
  <2>1. \A L \in {TableOfFiles, PendingFiles, FileSharesList} : Apart(L, {"createRequest"})
    BY FilesLists
  <2> QED
    BY <1>6, <1>7, <1>21, <2>1 DEF createRequest
<1>22. CASE openFileShares
  <2>1. PICK s : Act([shareTarget |-> s, sharesLoading |-> TRUE], {Req("fetchFileShares", None, s)})
    BY <1>22 DEF openFileShares, FetchFileShares
  <2>2. WillBeFresh(T, FileSharesList, None, s) /\ ui' = [shareTarget |-> s, sharesLoading |-> TRUE] ++ ui
    BY <2>1, SendsAsks, FilesLists
  <2>3. asked /\ (~ui.pending => table)
    BY <1>1, <2>1, SendsSpares, FilesLists
  <2>4. /\ ui'.tool = ui.tool /\ ui'.pageNum = ui.pageNum /\ ui'.search = ui.search /\ ui'.pending = ui.pending
        /\ ui'.shareTarget = s
    BY <1>1, <2>2 DEF ++
  <2> QED
    BY <2>2, <2>3, <2>4 DEF FilesFresh, Fresh, Asked, WillBeFresh, WillBeAsked
<1>23. CASE closeFileShares
  <2>1. asked /\ (~ui.pending => table) /\ ui' = FileTools["share"] ++ ui
    <3>1. \A L \in {TableOfFiles, PendingFiles} : L.fn \in DOMAIN shown \ {"fetchFileShares"}
      BY <1>1, FilesLists
    <3> QED
      BY <1>1, <1>23, <3>1, AbortSetsSpares DEF closeFileShares
  <2>2. /\ ui'.tool = ui.tool /\ ui'.pageNum = ui.pageNum /\ ui'.search = ui.search /\ ui'.pending = ui.pending
        /\ ui'.shareTarget = None
    BY <1>1, <2>1 DEF ++, FileTools
  <2> QED
    BY <2>1, <2>2 DEF FilesFresh, Fresh, Asked, WillBeFresh, WillBeAsked
<1>24. CASE fetchFileShares
  <2>1. CASE Show("fetchFileShares", [sharesLoading |-> FALSE])
    <3>1. shared => shares
      BY <1>1, <2>1, ShowFresh, FilesLists
    <3>2. asked /\ (~ui.pending => table) /\ ui' = [sharesLoading |-> FALSE] ++ ui
      BY <1>1, <2>1, ShowSpares, FilesLists
    <3> QED
      BY <1>3, <3>1, <3>2
  <2> QED
    BY <1>6, <1>24, <2>1 DEF fetchFileShares
<1>25. CASE createFileShare
  <2>1. CASE Act([creating |-> TRUE], {Req("createFileShare", None, t)})
    <3>1. shares /\ ui' = [creating |-> TRUE] ++ ui
      BY <2>1, SendsCommand, FilesLists
    <3>2. asked /\ (~ui.pending => table)
      BY <1>1, <2>1, SendsSpares, FilesLists
    <3> QED
      BY <1>3, <3>1, <3>2
  <2>2. ASSUME NEW c \in Ok("createFileShare"),
               Settle(c, [sharesLoading |-> TRUE], {Req("reloadFileShares", None, c.x)})
        PROVE  FilesFresh'
    <3>1. shared => shares
      BY <1>1, <2>2, ReloadsSubject, FilesLists DEF FilesAlone
    <3>2. asked /\ (~ui.pending => table)
      BY <1>1, <2>2, ReloadSpares, FilesLists DEF FilesAlone
    <3>3. ui' = [sharesLoading |-> TRUE] ++ ui
      BY <2>2 DEF Settle, SettleShowing
    <3> QED
      BY <1>3, <3>1, <3>2, <3>3
  <2>3. ASSUME NEW c \in Ok("reloadFileShares"),
               Display(c, "fetchFileShares", [sharesLoading |-> FALSE, creating |-> FALSE], {})
        PROVE  FilesFresh'
    <3>1. Shows("reloadFileShares", "fetchFileShares", [sharesLoading |-> FALSE, creating |-> FALSE], {})
      BY <2>3, DisplayShows DEF Ok
    <3> DEFINE cells == [sharesLoading |-> FALSE, creating |-> FALSE]
    <3>5. /\ Shows("reloadFileShares", FileSharesList.fn, cells, {})
                 /\ "reloadFileShares" \in FileSharesList.reads
          /\ FileSharesList.fn \in DOMAIN shown
      BY <1>1, <3>1, FilesLists
    <3> HIDE DEF cells
    <3>2. shared => shares
      BY <1>1, <3>5, ShowsFresh
    <3>3. asked /\ (~ui.pending => table)
      BY <1>1, <3>1, ShowsSpares, FilesLists
    <3>4. ui' = [sharesLoading |-> FALSE, creating |-> FALSE] ++ ui
      BY <2>3 DEF Display, SettleShowing
    <3> QED
      BY <1>3, <3>2, <3>3, <3>4
  <2> QED
    BY <1>6, <1>25, <2>1, <2>2, <2>3 DEF createFileShare
<1>26. CASE revokeFileShare
  <2>1. \A L \in {TableOfFiles, PendingFiles, FileSharesList} : Apart(L, {"revokeFileShare"})
    BY FilesLists
  <2> QED
    BY <1>6, <1>7, <1>26, <2>1, NoCells DEF revokeFileShare
<1>27. CASE Serves(FilesTouches)
  <2>1. spared
    BY <1>1, <1>27, FilesServe, ServesReloads
  <2>2. asked /\ (~ui.pending => table) /\ (shared => shares)
    BY <1>1, <2>1
  <2>3. ui' = ui
    BY <1>27, ServesStays
  <2> QED
    BY <1>2, <2>2, <2>3
<1>28. CASE Refuse
  <2>1. asked /\ table /\ shares
    BY <1>1, <1>28, LostNotCalm DEF WillBeFresh
  <2>2. ui' = ui
    BY <1>28 DEF Refuse
  <2> QED
    BY <1>2, <2>1, <2>2
<1> HIDE DEF T, q, t, shared, asked, table, shares, keys, spared
<1> QED
  BY <1>11, <1>12, <1>14, <1>15, <1>16, <1>17, <1>18, <1>19, <1>20, <1>21, <1>22, <1>23, <1>24, <1>25,
     <1>26, <1>27, <1>28
  DEF FilesPageNext

---------------------------------------------------------------------------
(* UnusedIPsPage.tsx                                                       *)
UnusedList ==
    [fn |-> "fetchUnused", reads |-> {"fetchUnused"}, cmds |-> {}, byq |-> {}, byx |-> {}, maybe |-> {},
     left |-> {}]

\* While the timer of the search runs, what is in flight is to its query.
UnusedTarget == IF ui.timer = None THEN UnusedQuery ELSE ui.timer
UnusedIPsFresh ==
    /\ ui.selectedSubnetId \in Rows \cup {None}
    /\ ui.selectedSubnetId = None => ui.detailSearch = "all" /\ ui.checkAvailRecord = None
    /\ calm /\ ui.timer # None =>
           /\ ui.timer = <<ui.selectedSubnetId, 1, ui.detailSearch>>
           /\ ui.selectedSubnetId # None /\ ui.checkAvailRecord = None
    /\ Asked({}, UnusedList, UnusedTarget, None)
    /\ ui.selectedSubnetId # None /\ ui.timer = None => Fresh({}, UnusedList, UnusedQuery, None)
    /\ ui.checkAvailRecord # None => Fresh({}, CheckList, UnusedQuery, ui.checkAvailRecord)

LEMMA UnusedLists ==
    /\ UnusedList.fn = "fetchUnused" /\ UnusedList.reads = {"fetchUnused"} /\ UnusedList.maybe = {}
    /\ CheckList.fn = "runCheck" /\ CheckList.reads = {"runCheck"} /\ CheckList.maybe = {}
    /\ \A fn : fn # "fetchUnused" => Apart(UnusedList, {fn})
    /\ \A fn : fn # "runCheck" => Apart(CheckList, {fn})
    /\ \A L \in {UnusedList, CheckList} : L.cmds = {} /\ L.maybe = {} /\ Apart(L, {})
BY DEF UnusedList, CheckList, Apart

\* A timer asks beside what is under way.
LEMMA FireAsks ==
    ASSUME NEW L, NEW q, NEW x, L.maybe = {}, NEW cells, NEW R, Reqs(R), Fire(cells, R), Asked({}, L, q, x),
           \A r \in R : r.fn \in L.reads /\ r.q = q /\ r.x = x, R # {}
    PROVE  ui' = cells ++ ui /\ WillBeFresh({}, L, q, x)
<1>1. ui' = cells ++ ui
  BY DEF Fire, FireOver, Replace
<1> SUFFICES ASSUME calm' PROVE /\ Steady({}, calls') /\ InOrder(L, q, x, calls', shown')
                                /\ Due(L, q, x, calls', shown')
  BY <1>1 DEF WillBeFresh, WillBeAsked
<1>2. calm /\ calls' = calls \cup New(R, calls)
  BY DEF Fire, FireOver, Replace, Follow
<1>3. Asking(R, New(R, calls))
  BY NewAsking
<1>4. ASSUME NEW c \in New(R, calls)
      PROVE  Fields \subseteq DOMAIN c /\ c.st = "sent" /\ c.fn \in L.reads /\ c.q = q /\ c.x = x
  BY <1>3, <1>4 DEF Asking, Asks1
<1>5. \E c \in New(R, calls) : c.fn \in L.reads
  BY <1>3, <1>4 DEF Asking
<1>6. Steady({}, calls) /\ InOrder(L, q, x, calls, shown)
  BY <1>2 DEF Asked
<1>7. Steady({}, calls')
  BY <1>2, <1>4, <1>6 DEF Steady
<1>8. \A c \in calls' : /\ c.fn \in L.reads => c.q = q /\ c.x = x /\ (c.st = "sent" \/ c.since \subseteq L.left)
                       /\ (c.fn \in L.byq => c.q = q) /\ (c.fn \in L.byx => c.x = x)
  BY <1>2, <1>4, <1>6 DEF InOrder
<1> QED
  BY <1>2, <1>5, <1>7, <1>8 DEF InOrder, Due

LEMMA DebouncedSearchFresh ==
    ASSUME UnusedIPsSound, UnusedIPsFresh, debouncedSearch
    PROVE  UnusedIPsFresh'
<1> DEFINE cells == [timer |-> None, pageNum |-> 1] ++ DetailLoading
           again == IF ui.pageNum # 1 /\ ui.selectedSubnetId # None
                    THEN FetchUnused(<<ui.selectedSubnetId, 1, ui.detailSearch>>) ELSE {}
           R == FetchUnused(ui.timer) \cup again
<1>1. Fire(cells, R) /\ ui.timer # None
  BY DEF debouncedSearch
<1>2. DOMAIN cells = {"timer", "pageNum", "detailLoading"} /\ cells.timer = None /\ cells.pageNum = 1
  BY DEF ++, DetailLoading
<1>3. calm' => calm
  BY <1>1 DEF Fire, FireOver, Replace, Follow
<1>4. /\ ui'.selectedSubnetId = ui.selectedSubnetId /\ ui'.detailSearch = ui.detailSearch
      /\ ui'.checkAvailRecord = ui.checkAvailRecord /\ ui'.timer = None /\ ui'.pageNum = 1
  <2>1. ui' = cells ++ ui
    BY <1>1 DEF Fire, FireOver, Replace
  <2> HIDE DEF cells
  <2> QED
    BY <1>2, <2>1 DEF ++, UnusedIPsSound, Cells
<1> HIDE DEF cells
<1>5. ASSUME calm
      PROVE  WillBeFresh({}, UnusedList, <<ui.selectedSubnetId, 1, ui.detailSearch>>, None)
  <2> DEFINE q == <<ui.selectedSubnetId, 1, ui.detailSearch>>
  <2>1. ui.timer = q /\ Asked({}, UnusedList, q, None)
    BY <1>1, <1>5 DEF UnusedIPsFresh, UnusedTarget
  <2>2. again \in {{}, FetchUnused(q)} /\ FetchUnused(ui.timer) = FetchUnused(q)
    BY <2>1
  <2>3. R = FetchUnused(q)
    BY <2>2
  <2> HIDE DEF R, q
  <2>4. \A r \in R : r.fn = "fetchUnused" /\ r.q = q /\ r.x = None
    BY <2>3, ReqFields DEF FetchUnused
  <2>5. Reqs(R) /\ R # {}
    BY <2>3, ReqFields DEF FetchUnused
  <2> QED
    BY <1>1, <2>1, <2>4, <2>5, UnusedLists, FireAsks DEF q
<1>6. ui.checkAvailRecord # None => ~calm
  BY <1>1 DEF UnusedIPsFresh
<1> QED
  BY <1>3, <1>4, <1>5, <1>6 DEF UnusedIPsFresh, UnusedTarget, UnusedQuery, Fresh, Asked, WillBeFresh, WillBeAsked

LEMMA UnusedIPsFreshKept ==
    ASSUME UnusedIPsSound, UnusedIPsFresh, UnusedIPsNext
    PROVE  UnusedIPsFresh'
<1> DEFINE s == ui.selectedSubnetId
           q == UnusedQuery
           t == UnusedTarget
           r == ui.checkAvailRecord
           asked == WillBeAsked({}, UnusedList, t, None)
           list == WillBeFresh({}, UnusedList, q, None)
           check == WillBeFresh({}, CheckList, q, r)
           keys == {"selectedSubnetId", "pageNum", "detailSearch", "timer", "checkAvailRecord"}
           spared == /\ calm' => calm
                     /\ \A L, p, x : L \in {UnusedList, CheckList} =>
                          /\ Asked({}, L, p, x) => WillBeAsked({}, L, p, x)
                          /\ Fresh({}, L, p, x) => WillBeFresh({}, L, p, x)
           lost == \A L, p, x : WillBeFresh({}, L, p, x)
<1>1. /\ DOMAIN shown = {"fetchUnused", "runCheck"} /\ keys \subseteq DOMAIN ui
      /\ \A L \in {UnusedList, CheckList} : L.fn \in DOMAIN shown
      /\ Asked({}, UnusedList, t, None) /\ (calm => Steady({}, calls))
  BY UnusedLists DEF UnusedIPsSound, Page, Cells, UnusedIPsFresh, Asked
<1>2. ASSUME \A k \in keys : ui'[k] = ui[k], calm' => calm, asked, s # None /\ ui.timer = None => list,
             r # None => check
      PROVE  UnusedIPsFresh'
  <2>1. ui'.selectedSubnetId = s /\ ui'.pageNum = ui.pageNum /\ ui'.detailSearch = ui.detailSearch
    BY <1>2
  <2>2. ui'.timer = ui.timer /\ ui'.checkAvailRecord = r
    BY <1>2
  <2> QED
    BY <1>2, <2>1, <2>2
    DEF UnusedIPsFresh, UnusedTarget, UnusedQuery, Fresh, Asked, WillBeFresh, WillBeAsked
<1>3. ASSUME spared PROVE asked /\ (s # None /\ ui.timer = None => list) /\ (r # None => check)
  BY <1>3 DEF UnusedIPsFresh
<1>4. ASSUME NEW cells, keys \cap DOMAIN cells = {}, ui' = cells ++ ui PROVE \A k \in keys : ui'[k] = ui[k]
  BY <1>1, <1>4 DEF ++
<1>5. ASSUME NEW fn, NEW cells, keys \cap DOMAIN cells = {}, Fails(fn, cells) \/ (Refuse /\ cells = <<>>)
      PROVE  UnusedIPsFresh'
  <2>1. lost /\ ~calm'
    BY <1>1, <1>5, LostNotCalm, FailedNotCalm, RefuseNotCalm
  <2>2. \A k \in keys : ui'[k] = ui[k]
    BY <1>4, <1>5 DEF Fails, Settle, SettleShowing, Refuse
  <2> QED
    BY <1>2, <2>1, <2>2 DEF WillBeFresh
<1>6. CASE fetchAllSubnets
  <2>1. ASSUME NEW c \in Ok("fetchAllSubnets"), Settle(c, <<>>, {Req("fetchAllSubnets", c.q + 1, None)})
        PROVE  UnusedIPsFresh'
    <3> DEFINE a == Req("fetchAllSubnets", c.q + 1, None)
    <3>1. Passes("fetchAllSubnets", "ok", <<>>, {a}) /\ a.fn = "fetchAllSubnets" /\ Reqs({a})
      BY <2>1, SettlePasses, ReqFields DEF Ok
    <3> HIDE DEF a
    <3>2. ui' = <<>> ++ ui /\ (calm' => calm)
      BY <3>1 DEF Passes
    <3>3. \A L \in {UnusedList, CheckList} : Apart(L, {"fetchAllSubnets"})
      BY UnusedLists
    <3>4. \A L, p, x : L \in {UnusedList, CheckList} =>
             /\ Asked({}, L, p, x) => WillBeAsked({}, L, p, x)
             /\ Fresh({}, L, p, x) => WillBeFresh({}, L, p, x)
      BY <3>1, <3>3, PassSpares
    <3> QED
      BY <1>2, <1>3, <1>4, <3>2, <3>4, NoCells
  <2>2. CASE Done("fetchAllSubnets", [subnetsLoading |-> FALSE])
    <3>1. ui' = [subnetsLoading |-> FALSE] ++ ui /\ (calm' => calm)
      BY <2>2, DonePasses DEF Passes
    <3>2. \A L \in {UnusedList, CheckList} : Apart(L, {"fetchAllSubnets"})
      BY UnusedLists
    <3>3. \A L, p, x : L \in {UnusedList, CheckList} =>
             /\ Asked({}, L, p, x) => WillBeAsked({}, L, p, x)
             /\ Fresh({}, L, p, x) => WillBeFresh({}, L, p, x)
      BY <2>2, <3>2, DoneSpares
    <3> QED
      BY <1>2, <1>3, <1>4, <3>1, <3>3
  <2>3. CASE Fails("fetchAllSubnets", [subnetsLoading |-> FALSE, subnetsError |-> TRUE])
    BY <1>5, <2>3
  <2> QED
    BY <1>6, <2>1, <2>2, <2>3 DEF fetchAllSubnets
<1>7. CASE fetchUnused
  <2>1. CASE Show("fetchUnused", [detailLoading |-> FALSE])
    <3>1. /\ \A p : Asked({}, UnusedList, p, None) => WillBeFresh({}, UnusedList, p, None)
          /\ ui' = [detailLoading |-> FALSE] ++ ui
      BY <1>1, <2>1, ShowFresh, UnusedLists
    <3>2. r # None => check
      BY <1>1, <2>1, ShowSpares, UnusedLists DEF UnusedIPsFresh
    <3>3. calm' => calm
      BY <2>1, ShowShows DEF Shows
    <3>4. asked /\ (s # None /\ ui.timer = None => list)
      BY <1>1, <3>1 DEF WillBeFresh, UnusedTarget
    <3> QED
      BY <1>2, <1>4, <3>1, <3>2, <3>3, <3>4
  <2>2. ASSUME NEW c \in Failed("fetchUnused"), Clear(c, "fetchUnused", [detailLoading |-> FALSE])
        PROVE  UnusedIPsFresh'
    <3>1. ~calm' /\ ui' = [detailLoading |-> FALSE] ++ ui
      BY <1>1, <2>2 DEF Clear, SettleShowing, Follow, Failed, Steady
    <3>2. lost
      BY <3>1 DEF WillBeFresh, WillBeAsked
    <3> QED
      BY <1>2, <1>4, <3>1, <3>2 DEF WillBeFresh
  <2> QED
    BY <1>7, <2>1, <2>2 DEF fetchUnused
<1>8. CASE openSubnet
  <2>1. PICK n \in Rows : /\ s = None
                          /\ Act([selectedSubnetId |-> n, pageNum |-> 1] ++ DetailLoading,
                                 FetchUnused(<<n, 1, "all">>))
    BY <1>8 DEF openSubnet
  <2> DEFINE cells == [selectedSubnetId |-> n, pageNum |-> 1] ++ DetailLoading
  <2>2. /\ DOMAIN cells = {"selectedSubnetId", "pageNum", "detailLoading"} /\ cells.selectedSubnetId = n
        /\ cells.pageNum = 1
    BY DEF ++, DetailLoading
  <2> HIDE DEF cells
  <2>3. Act(cells, {Req("fetchUnused", <<n, 1, "all">>, None)})
    BY <2>1 DEF cells, FetchUnused
  <2>4. WillBeFresh({}, UnusedList, <<n, 1, "all">>, None) /\ ui' = cells ++ ui
    BY <2>3, SendsAsks, UnusedLists
  <2>5. calm' => ui.timer = None
    BY <1>1, <2>3 DEF Act, ActClearing, Follow, Idle
  <2>6. /\ ui'.selectedSubnetId = n /\ ui'.pageNum = 1 /\ ui'.detailSearch = "all" /\ ui'.timer = ui.timer
        /\ ui'.checkAvailRecord = None
    BY <1>1, <2>1, <2>2, <2>4 DEF ++, UnusedIPsFresh
  <2>7. n # None
    BY <2>1, BrowserAssumption
  <2> QED
    BY <2>4, <2>5, <2>6, <2>7 DEF UnusedIPsFresh, UnusedTarget, UnusedQuery, Fresh, Asked, WillBeFresh,
       WillBeAsked
<1>9. CASE backToSummary
  <2> DEFINE u == IF ui.detailSearch = "all" THEN ui.timer ELSE None
             cells == [selectedSubnetId |-> None, detailSearch |-> "all", timer |-> u]
  <2>1. ActClearing({"fetchUnused"}, cells, {}) /\ r = None
    BY <1>9 DEF backToSummary, AtDetail
  <2>2. Renews({}, {"fetchUnused"}, cells, {})
    BY <2>1, ClickRenews, NoReqs
  <2>3. \A p : WillBeAsked({}, UnusedList, p, None)
    <3> HIDE DEF cells
    <3> QED
      BY <2>2, NoReqs, RenewAsked, UnusedLists
  <2>4. calm' => u = None
    BY <1>1, <2>1 DEF ActClearing, Follow, Idle
  <2> HIDE DEF u
  <2>5. ui' = cells ++ ui
    BY <2>2 DEF Renews
  <2>6. /\ ui'.selectedSubnetId = None /\ ui'.pageNum = ui.pageNum /\ ui'.detailSearch = "all" /\ ui'.timer = u
        /\ ui'.checkAvailRecord = None
    BY <1>1, <2>1, <2>5 DEF ++
  <2> QED
    BY <2>3, <2>4, <2>6 DEF UnusedIPsFresh, UnusedTarget, UnusedQuery, Fresh, Asked, WillBeFresh, WillBeAsked
<1>10. CASE setPage
  <2>1. PICK p : /\ AtDetail
                 /\ Act([pageNum |-> p] ++ DetailLoading, FetchUnused(<<s, p, ui.detailSearch>>))
    BY <1>10 DEF setPage
  <2> DEFINE cells == [pageNum |-> p] ++ DetailLoading
  <2>2. DOMAIN cells = {"pageNum", "detailLoading"} /\ cells.pageNum = p
    BY DEF ++, DetailLoading
  <2> HIDE DEF cells
  <2>3. Act(cells, {Req("fetchUnused", <<s, p, ui.detailSearch>>, None)})
    BY <2>1 DEF cells, FetchUnused
  <2>4. WillBeFresh({}, UnusedList, <<s, p, ui.detailSearch>>, None) /\ ui' = cells ++ ui
    BY <2>3, SendsAsks, UnusedLists
  <2>5. calm' => ui.timer = None
    BY <1>1, <2>3 DEF Act, ActClearing, Follow, Idle
  <2>6. /\ ui'.selectedSubnetId = s /\ ui'.pageNum = p /\ ui'.detailSearch = ui.detailSearch
               /\ ui'.timer = ui.timer
        /\ ui'.checkAvailRecord = None
    BY <1>1, <2>1, <2>2, <2>4 DEF ++, AtDetail
  <2> QED
    BY <2>4, <2>5, <2>6 DEF UnusedIPsFresh, UnusedTarget, UnusedQuery, Fresh, Asked, WillBeFresh, WillBeAsked
<1>11. CASE setDetailSearch
  <2>1. PICK f \in Filters : AtDetail /\ Act([detailSearch |-> f, timer |-> <<s, 1, f>>], {})
    BY <1>11 DEF setDetailSearch
  <2>2. Renews({}, {}, [detailSearch |-> f, timer |-> <<s, 1, f>>], {})
    BY <2>1, ActRenews, NoReqs
  <2>3. \A p : WillBeAsked({}, UnusedList, p, None)
    BY <2>2, NoReqs, RenewAsked, UnusedLists
  <2>4. ui' = [detailSearch |-> f, timer |-> <<s, 1, f>>] ++ ui
    BY <2>2 DEF Renews
  <2>5. ui'.selectedSubnetId = s /\ ui'.detailSearch = f /\ ui'.timer = <<s, 1, f>> /\ ui'.checkAvailRecord = None
    BY <1>1, <2>1, <2>4 DEF ++, AtDetail
  <2>6. s # None /\ s \in Rows /\ <<s, 1, f>> # None
    BY <2>1, UnusedIPsAssumption DEF AtDetail, UnusedIPsFresh
  <2> QED
    BY <2>3, <2>5, <2>6 DEF UnusedIPsFresh, UnusedTarget, Asked, WillBeAsked
<1>12. CASE debouncedSearch
  BY <1>12, DebouncedSearchFresh
<1>13. CASE checkAddress
  <2>1. PICK ip : /\ AtDetail
                  /\ ActClearing({"runCheck"}, [checkAvailRecord |-> ip, running |-> TRUE],
                                 {Req("runCheck", q, ip)})
    BY <1>13 DEF checkAddress, openCheck
  <2> DEFINE cells == [checkAvailRecord |-> ip, running |-> TRUE]
  <2>2. Renews({}, {"runCheck"}, cells, {Req("runCheck", q, ip)}) /\ (calm' => calm /\ ui.timer = None)
    BY <1>1, <2>1, ClickRenews, ReqFields DEF ActClearing, Follow, Idle
  <2>3. ui' = cells ++ ui
    BY <2>2 DEF Renews
  <2>4. /\ ui'.selectedSubnetId = s /\ ui'.pageNum = ui.pageNum /\ ui'.detailSearch = ui.detailSearch
        /\ ui'.timer = ui.timer /\ ui'.checkAvailRecord = ip /\ s # None
    BY <1>1, <2>1, <2>3 DEF ++, AtDetail
  <2> HIDE DEF cells, q
  <2>5. WillBeFresh({}, CheckList, q, ip)
    BY <2>2, RenewAsksOne, UnusedLists
  <2>6. /\ UnusedList.fn \in DOMAIN shown \ {"runCheck"} /\ Apart(UnusedList, {"runCheck"})
               /\ Apart(UnusedList, {})
    BY <1>1, UnusedLists
  <2>7. \A p : /\ Asked({}, UnusedList, p, None) => WillBeAsked({}, UnusedList, p, None)
               /\ Fresh({}, UnusedList, p, None) => WillBeFresh({}, UnusedList, p, None)
    BY <2>2, <2>6, RenewSparesOne
  <2>8. asked /\ (ui.timer = None => list)
    BY <1>1, <2>4, <2>7 DEF UnusedIPsFresh, q
  <2> QED
    BY <2>2, <2>4, <2>5, <2>8
    DEF UnusedIPsFresh, UnusedTarget, UnusedQuery, Fresh, Asked, WillBeFresh, WillBeAsked, q
<1>14. CASE closeCheck
  <2> DEFINE cells == [checkAvailRecord |-> None, running |-> FALSE]
  <2>1. AbortClearing({}, {"runCheck"}, cells, {})
    BY <1>14 DEF closeCheck, Abort
  <2>2. \A p : /\ Asked({}, UnusedList, p, None) => WillBeAsked({}, UnusedList, p, None)
               /\ Fresh({}, UnusedList, p, None) => WillBeFresh({}, UnusedList, p, None)
    <3>1. UnusedList.fn \in DOMAIN shown \ {}
      BY <1>1
    <3> HIDE DEF cells
    <3> QED
      BY <2>1, <3>1, AbortSetsSpares
  <2>3. ui' = cells ++ ui /\ (calm' => calm)
    BY <2>1 DEF AbortClearing, Replace, Follow
  <2>4. /\ ui'.selectedSubnetId = s /\ ui'.pageNum = ui.pageNum /\ ui'.detailSearch = ui.detailSearch
        /\ ui'.timer = ui.timer /\ ui'.checkAvailRecord = None
    BY <1>1, <2>3 DEF ++
  <2>5. asked /\ (s # None /\ ui.timer = None => list)
    BY <1>1, <2>2 DEF UnusedIPsFresh
  <2> QED
    BY <2>3, <2>4, <2>5 DEF UnusedIPsFresh, UnusedTarget, UnusedQuery, Fresh, Asked, WillBeFresh, WillBeAsked
<1>15. CASE checkedAddress
  <2>1. CASE Show("runCheck", [running |-> FALSE])
    <3>1. ui' = [running |-> FALSE] ++ ui /\ (calm' => calm)
      BY <2>1, ShowShows DEF Shows
    <3>2. asked /\ (s # None /\ ui.timer = None => list)
      BY <1>1, <2>1, ShowSpares, UnusedLists DEF UnusedIPsFresh
    <3>3. r # None => check
      BY <1>1, <2>1, ShowFresh, UnusedLists DEF UnusedIPsFresh, Fresh
    <3> QED
      BY <1>2, <1>4, <3>1, <3>2, <3>3
  <2> QED
    BY <1>5, <1>15, <2>1 DEF checkedAddress
<1>16. CASE Serves(<<>>)
  <2>1. \A L : Reloads({}, L, <<>>)
    BY NoCells DEF Reloads
  <2>2. \A L, p, x : L \in {UnusedList, CheckList} =>
           /\ Asked({}, L, p, x) => WillBeAsked({}, L, p, x)
           /\ Fresh({}, L, p, x) => WillBeFresh({}, L, p, x)
    BY <1>1, <1>16, <2>1, ServesReloads
  <2>3. ui' = ui /\ (calm' => calm)
    BY <1>16, ServesStays
  <2> QED
    BY <1>2, <1>3, <2>2, <2>3
<1> HIDE DEF s, q, t, r, asked, list, check, keys, spared, lost
<1>17. CASE Refuse
  BY <1>5, <1>17, NoCells
<1> QED
  BY <1>6, <1>7, <1>8, <1>9, <1>10, <1>11, <1>12, <1>13, <1>14, <1>15, <1>16, <1>17 DEF UnusedIPsNext, Serves

---------------------------------------------------------------------------
(* PaloAltoCheckPage.tsx                                                   *)
CheckedList ==
    [fn |-> "runPaloAltoCheck", reads |-> {"runPaloAltoCheck"}, cmds |-> {}, byq |-> {}, byx |-> {}, maybe |-> {},
     left |-> {}]
TrafficList ==
    [fn |-> "loadTraffic", reads |-> {"loadTraffic"}, cmds |-> {}, byq |-> {}, byx |-> {}, maybe |-> {},
     left |-> {}]
RecentList ==
    [fn |-> "loadRecent", reads |-> {"loadRecent"}, cmds |-> {}, byq |-> {}, byx |-> {}, maybe |-> {},
     left |-> {<<"runPaloAltoCheck", "ok">>, <<"runBulkScan", "ok">>}]
PaloAltoLists == {CheckedList, TrafficList, RecentList}

\* While the timer runs nothing is in flight.
PaloAltoFresh ==
    /\ ui.mode \in {"single", "bulk"}
    /\ calm /\ ui.timer # None => calls = {} /\ ui.timer = ui.checkInput /\ ui.mode = "single"
    /\ calm /\ ui.mode = "single" /\ ui.checkResult # None => ui.checkResult = ui.checkInput
    /\ Fresh({}, RecentList, None, None)
    /\ Asked({}, TrafficList, None, ui.checkInput)
    /\ ui.mode = "single" => Asked({}, CheckedList, None, ui.checkInput)
    /\ ui.mode = "single" /\ ui.timer = None
           /\ ui.checkInput # None => Fresh({}, CheckedList, None, ui.checkInput)
    /\ ui.tool = "detail" /\ ui.trafficOpen => Fresh({}, TrafficList, None, ui.checkInput)

LEMMA ChecksLists ==
    /\ CheckedList.fn = "runPaloAltoCheck" /\ CheckedList.reads = {"runPaloAltoCheck"} /\ CheckedList.maybe = {}
    /\ TrafficList.fn = "loadTraffic" /\ TrafficList.reads = {"loadTraffic"} /\ TrafficList.maybe = {}
    /\ RecentList.fn = "loadRecent" /\ RecentList.reads = {"loadRecent"} /\ RecentList.maybe = {}
    /\ \A fn : fn # "runPaloAltoCheck" => Apart(CheckedList, {fn})
    /\ \A fn : fn # "loadTraffic" => Apart(TrafficList, {fn})
    /\ \A fn : fn # "loadRecent" => Apart(RecentList, {fn})
    /\ \A L \in PaloAltoLists : L.cmds = {} /\ L.maybe = {} /\ Apart(L, {})
BY DEF PaloAltoLists, CheckedList, TrafficList, RecentList, Apart

LEMMA ChecksServe == \A L \in PaloAltoLists : Reloads({}, L, PaloAltoTouches)
BY DEF PaloAltoLists, CheckedList, TrafficList, RecentList, Reloads, PaloAltoTouches

LEMMA TypedFresh ==
    ASSUME PaloAltoSound, PaloAltoFresh, NEW ip, Typed("single", ip)
    PROVE  PaloAltoFresh'
<1> DEFINE runs == ip # None /\ ui.checkLoading
           cells == [mode |-> "single", checkInput |-> ip, timer |-> ip, checkResult |-> None,
                     checkLoading |-> runs] ++ Unmounted
           fns == DetailFns \cup (IF ip = None THEN {"runPaloAltoCheck"} ELSE {})
           gone == {"runPaloAltoCheck", "loadTraffic"}
<1>1. AbortClearing(gone, fns, cells, {}) /\ RecentList.fn \in DOMAIN shown \ gone
  BY ChecksLists DEF Typed, PaloAltoSound, PaloAltoChecks, Page
<1>2. /\ cells.mode = "single" /\ cells.checkInput = ip /\ cells.timer = ip /\ cells.checkResult = None
      /\ {"mode", "checkInput", "timer", "checkResult"} \subseteq DOMAIN cells /\ "tool" \notin DOMAIN cells
      /\ ui.tool = "detail" => "trafficOpen" \in DOMAIN cells /\ cells.trafficOpen = FALSE
  BY NoCells DEF Unmounted, DetailCells, ++
<1> HIDE DEF cells, fns
<1>3. Renews({}, gone, cells, {})
  BY <1>1, AbortRenews, NoReqs
<1>4. \A L, x : L \in {CheckedList, TrafficList} => WillBeAsked({}, L, None, x)
  BY <1>3, NoReqs, RenewAsked, ChecksLists
<1>5. ui' = cells ++ ui /\ (calm' => calls' = {})
  BY <1>3 DEF Renews, Asking
<1>6. /\ ui'.mode = "single" /\ ui'.checkInput = ip /\ ui'.timer = ip /\ ui'.checkResult = None
      /\ ui'.tool = ui.tool /\ (ui.tool = "detail" => ui'.trafficOpen = FALSE)
  BY <1>2, <1>5 DEF ++, PaloAltoSound, PaloAltoChecks, PaloAltoTool, PaloAltoDetail, PaloAltoBulk,
     Cells, ChecksCells
<1>7. WillBeFresh({}, RecentList, None, None)
  BY <1>1, AbortSetsSpares DEF PaloAltoFresh
<1> QED
  BY <1>4, <1>5, <1>6, <1>7 DEF PaloAltoFresh, Fresh, Asked, WillBeFresh, WillBeAsked

LEMMA DebouncedCheckFresh ==
    ASSUME PaloAltoSound, PaloAltoFresh, debouncedCheck
    PROVE  PaloAltoFresh'
<1> DEFINE cells == [timer |-> None, checkLoading |-> TRUE, checkResult |-> None] ++ Unmounted
           fns == {"runPaloAltoCheck"} \cup DetailFns
           R == {Req("runPaloAltoCheck", None, ui.timer)}
<1>1. FireOver(fns, cells, R) /\ ui.timer # None /\ RecentList.fn \in DOMAIN shown \ fns
  BY ChecksLists DEF debouncedCheck, DetailFns, PaloAltoSound, PaloAltoChecks, Page
<1>2. /\ cells.timer = None /\ cells.checkResult = None
      /\ {"timer", "checkResult"} \subseteq DOMAIN cells
      /\ {"tool", "mode", "checkInput"} \cap DOMAIN cells = {}
      /\ ui.tool = "detail" => "trafficOpen" \in DOMAIN cells /\ cells.trafficOpen = FALSE
  BY NoCells DEF Unmounted, DetailCells, ++
<1> HIDE DEF cells, fns
<1>3. Renews({}, fns, cells, R) /\ (calm' => calm)
  <2>1. calm' => calm /\ calls = {}
    BY <1>1 DEF FireOver, Replace, Follow, PaloAltoFresh
  <2>2. Reqs(R) /\ \A K : Asking(R, New(R, K))
    BY ReqFields, NewAsking
  <2> HIDE DEF R
  <2>3. calm' => calls' = New(R, {})
    <3>1. calm' => {c \in calls : c.fn \notin fns} = {}
      BY <2>1
    <3> QED
      BY <1>1, <3>1 DEF FireOver, Replace, Follow
  <2>4. calm' => \A f \in DOMAIN shown : f \notin fns => shown'[f] = shown[f]
    BY <1>1 DEF FireOver, Replace, Follow
  <2>5. ui' = cells ++ ui
    BY <1>1 DEF FireOver, Replace
  <2> QED
    BY <2>1, <2>2, <2>3, <2>4, <2>5 DEF Renews
<1>4. WillBeFresh({}, CheckedList, None, ui.timer)
  BY <1>3, RenewAsksOne, ChecksLists
<1>5. \A x : WillBeAsked({}, TrafficList, None, x)
  <2>1. Simple({}, R)
    BY OneReq
  <2>2. \A r \in R : r.fn = "runPaloAltoCheck"
    BY DEF Req
  <2> HIDE DEF R
  <2>3. Apart(TrafficList, {"runPaloAltoCheck"}) /\ TrafficList.maybe = {}
    BY ChecksLists
  <2> QED
    BY <1>3, <2>1, <2>2, <2>3, RenewAsked
<1>6. /\ ui'.mode = ui.mode /\ ui'.checkInput = ui.checkInput /\ ui'.timer = None /\ ui'.checkResult = None
      /\ ui'.tool = ui.tool /\ (ui.tool = "detail" => ui'.trafficOpen = FALSE)
  <2>1. ui' = cells ++ ui
    BY <1>3 DEF Renews
  <2> QED
    BY <1>2, <2>1 DEF ++, PaloAltoSound, PaloAltoChecks, PaloAltoTool, PaloAltoDetail, PaloAltoBulk,
       Cells, ChecksCells
<1>7. calm' => ui.timer = ui.checkInput
  BY <1>1, <1>3 DEF PaloAltoFresh
<1>8. WillBeFresh({}, RecentList, None, None)
  BY <1>1, <1>3, RenewSparesOne, ChecksLists DEF PaloAltoFresh, PaloAltoLists
<1> QED
  BY <1>4, <1>5, <1>6, <1>7, <1>8 DEF PaloAltoFresh, Fresh, Asked, WillBeFresh, WillBeAsked

LEMMA PaloAltoFreshKept ==
    ASSUME PaloAltoSound, PaloAltoFresh, PaloAltoNext
    PROVE  PaloAltoFresh'
<1> DEFINE i == ui.checkInput
           single == ui.mode = "single"
           detailed == ui.tool = "detail" /\ ui.trafficOpen
           asked == WillBeAsked({}, CheckedList, None, i)
           check == WillBeFresh({}, CheckedList, None, i)
           heard == WillBeAsked({}, TrafficList, None, i)
           traffic == WillBeFresh({}, TrafficList, None, i)
           recent == WillBeFresh({}, RecentList, None, None)
           keys == {"mode", "tool", "checkInput", "timer", "checkResult", "trafficOpen"}
           spared == \A L, p, x : L \in PaloAltoLists =>
                          /\ Asked({}, L, p, x) => WillBeAsked({}, L, p, x)
                          /\ Fresh({}, L, p, x) => WillBeFresh({}, L, p, x)
           lost == ~calm' /\ \A L, p, x : WillBeFresh({}, L, p, x)
           quiet == calm' => calm /\ ui.timer = None
<1>1. /\ DOMAIN shown = {"loadRecent", "runPaloAltoCheck", "loadTraffic"}
      /\ {"mode", "tool", "checkInput", "timer", "checkResult"} \subseteq DOMAIN ui
      /\ ui.tool = "detail" => "trafficOpen" \in DOMAIN ui
      /\ \A L \in PaloAltoLists : L.fn \in DOMAIN shown
      /\ CheckedList \in PaloAltoLists /\ TrafficList \in PaloAltoLists /\ RecentList \in PaloAltoLists
      /\ CheckedList.fn \in DOMAIN shown /\ TrafficList.fn \in DOMAIN shown /\ RecentList.fn \in DOMAIN shown
      /\ Asked({}, TrafficList, None, i) /\ (calm => Steady({}, calls))
  BY ChecksLists DEF PaloAltoSound, PaloAltoChecks, PaloAltoTool, PaloAltoDetail, PaloAltoBulk, Page, Cells, Has,
     ChecksCells, DetailCells, PaloAltoFresh, Asked, PaloAltoLists
<1>2. ASSUME ui'.mode = ui.mode, ui'.tool = ui.tool, ui'.checkInput = i, ui'.timer = ui.timer,
             ui'.checkResult = ui.checkResult, ui.tool = "detail" => ui'.trafficOpen = ui.trafficOpen,
             quiet, recent, heard, single => asked, single /\ ui.timer = None /\ i # None => check,
             detailed => traffic
      PROVE  PaloAltoFresh'
  BY <1>2 DEF PaloAltoFresh, Fresh, Asked, WillBeFresh, WillBeAsked
<1>3. ASSUME spared
      PROVE  /\ recent /\ heard /\ (detailed => traffic) /\ (single => asked)
             /\ (single /\ ui.timer = None /\ i # None => check)
  BY <1>1, <1>3 DEF PaloAltoFresh
<1>4. ASSUME lost
      PROVE  /\ quiet /\ recent /\ heard /\ (detailed => traffic) /\ (single => asked)
             /\ (single /\ ui.timer = None /\ i # None => check)
  BY <1>4 DEF WillBeFresh
<1>5. ASSUME NEW cells, keys \cap DOMAIN cells = {}, ui' = cells ++ ui,
             quiet, recent, heard, single => asked, single /\ ui.timer = None /\ i # None => check,
             detailed => traffic
      PROVE  PaloAltoFresh'
  <2>1. /\ ui'.mode = ui.mode /\ ui'.tool = ui.tool /\ ui'.checkInput = i /\ ui'.timer = ui.timer
        /\ ui'.checkResult = ui.checkResult /\ (ui.tool = "detail" => ui'.trafficOpen = ui.trafficOpen)
    BY <1>1, <1>5 DEF ++
  <2> QED
    BY <1>2, <1>5, <2>1
<1>6. ASSUME NEW cells, NEW R, Act(cells, R) PROVE quiet
  BY <1>1, <1>6 DEF Act, ActClearing, Follow, Idle
<1>7. ASSUME NEW fn, NEW st, NEW read, NEW cells, NEW R, Passes(fn, st, cells, R)
             \/ Shows(fn, read, cells, R) PROVE quiet
  BY <1>7 DEF Passes, Shows, PaloAltoFresh
<1>8. ASSUME NEW fn, fn \notin {"runPaloAltoCheck", "loadTraffic", "loadRecent"},
             NEW cells, keys \cap DOMAIN cells = {}, Show(fn, cells) \/ Done(fn, cells)
      PROVE  PaloAltoFresh'
  <2>1. \A L \in PaloAltoLists : Apart(L, {fn}) /\ L.fn # fn
    BY <1>8, ChecksLists DEF PaloAltoLists
  <2>2. CASE Show(fn, cells)
    <3>1. Shows(fn, fn, cells, {}) /\ spared /\ ui' = cells ++ ui
      BY <1>1, <2>1, <2>2, ShowShows, ShowSpares
    <3> QED
      BY <1>3, <1>5, <1>7, <1>8, <3>1
  <2>3. CASE Done(fn, cells)
    <3>1. Passes(fn, "ok", cells, {}) /\ ui' = cells ++ ui
      BY <2>3, DonePasses DEF Passes
    <3>2. spared
      BY <2>1, <2>3, DoneSpares
    <3> QED
      BY <1>3, <1>5, <1>7, <1>8, <3>1, <3>2
  <2> QED
    BY <1>8, <2>2, <2>3
<1>24. ASSUME NEW fn, fn \notin {"runPaloAltoCheck", "loadTraffic", "loadRecent"},
              NEW cells, keys \cap DOMAIN cells = {}, NEW p, NEW x, Act(cells, {Req(fn, p, x)})
       PROVE  PaloAltoFresh'
  <2>1. \A L \in PaloAltoLists : Apart(L, {fn})
    BY <1>24, ChecksLists DEF PaloAltoLists
  <2>2. spared /\ ui' = cells ++ ui
    BY <1>1, <1>24, <2>1, SendsSpares
  <2> QED
    BY <1>3, <1>5, <1>6, <1>24, <2>2
<1>9. ASSUME NEW fn, NEW cells, keys \cap DOMAIN cells = {}, Fails(fn, cells) PROVE PaloAltoFresh'
  <2>1. lost
    BY <1>1, <1>9, LostNotCalm, FailedNotCalm
  <2>2. ui' = cells ++ ui
    BY <1>9 DEF Fails, Settle, SettleShowing
  <2> QED
    BY <1>4, <1>5, <1>9, <2>1, <2>2
<1>10. CASE loadRecent
  <2>1. CASE Act([recentLoading |-> TRUE], {Req("loadRecent", None, None)})
    <3>1. recent /\ ui' = [recentLoading |-> TRUE] ++ ui
      BY <2>1, SendsAsks, ChecksLists
    <3>2. quiet
      BY <1>6, <2>1
    <3>3. \A L \in {CheckedList, TrafficList} : Apart(L, {"loadRecent"})
      BY ChecksLists
    <3>4. /\ heard /\ (detailed => traffic) /\ (single => asked)
          /\ (single /\ ui.timer = None /\ i # None => check)
      BY <1>1, <2>1, <3>3, SendsSpares DEF PaloAltoFresh
    <3> QED
      BY <1>5, <3>1, <3>2, <3>4
  <2>2. CASE Show("loadRecent", [recentLoading |-> FALSE])
    <3>1. Shows("loadRecent", "loadRecent", [recentLoading |-> FALSE], {})
      BY <2>2, ShowShows
    <3>2. recent /\ ui' = [recentLoading |-> FALSE] ++ ui
      <4>1. Asked({}, RecentList, None, None) /\ "loadRecent" \in RecentList.reads /\ RecentList.fn = "loadRecent"
        BY ChecksLists DEF PaloAltoFresh, Fresh
      <4> QED
        BY <1>1, <2>2, <4>1, ShowFresh
    <3>3. \A L \in {CheckedList, TrafficList} : Apart(L, {"loadRecent"}) /\ L.fn # "loadRecent"
      BY ChecksLists
    <3>4. /\ heard /\ (detailed => traffic) /\ (single => asked)
          /\ (single /\ ui.timer = None /\ i # None => check)
      BY <1>1, <2>2, <3>3, ShowSpares DEF PaloAltoFresh
    <3> QED
      BY <1>5, <1>7, <3>1, <3>2, <3>4
  <2> QED
    BY <1>9, <1>10, <2>1, <2>2 DEF loadRecent
<1>11. CASE setCheckInput
  BY <1>11, TypedFresh DEF setCheckInput
<1>12. CASE debouncedCheck
  BY <1>12, DebouncedCheckFresh
<1>13. CASE runPaloAltoCheck
  <2>1. ASSUME NEW c \in Ok("runPaloAltoCheck"), NEW f,
               single, Display(c, "runPaloAltoCheck",
                           [checkLoading |-> FALSE, checkResult |-> c.x, found |-> f], {})
        PROVE  PaloAltoFresh'
    <3> DEFINE cells == [checkLoading |-> FALSE, checkResult |-> c.x, found |-> f]
    <3>1. Show("runPaloAltoCheck", cells)
      BY <2>1 DEF Show
    <3>2. cells.checkResult = c.x /\ DOMAIN cells = {"checkLoading", "checkResult", "found"}
      OBVIOUS
    <3> HIDE DEF cells
    <3>3. Shows("runPaloAltoCheck", "runPaloAltoCheck", cells, {})
      BY <3>1, ShowShows
    <3>4. quiet
      BY <1>7, <3>3
    <3>5. check /\ asked
      BY <1>1, <2>1, <3>1, ShowFresh, ChecksLists DEF PaloAltoFresh, WillBeFresh
    <3>6. recent /\ heard /\ (detailed => traffic)
      BY <1>1, <3>1, ShowSpares, ChecksLists DEF PaloAltoFresh
    <3>7. calm => c.x = i
      BY <2>1, ChecksLists DEF PaloAltoFresh, Asked, InOrder, Ok
    <3>8. ui' = cells ++ ui
      BY <3>3 DEF Shows
    <3>9. /\ ui'.mode = ui.mode /\ ui'.tool = ui.tool /\ ui'.checkInput = i /\ ui'.timer = ui.timer
          /\ ui'.checkResult = c.x /\ (ui.tool = "detail" => ui'.trafficOpen = ui.trafficOpen)
      BY <1>1, <3>2, <3>8 DEF ++
    <3> QED
      BY <3>4, <3>5, <3>6, <3>7, <3>9 DEF PaloAltoFresh, Fresh, Asked, WillBeFresh, WillBeAsked
  <2>2. ASSUME NEW c \in Ok("runPaloAltoCheck"), NEW f,
               ~single, Settle(c, [checkLoading |-> FALSE, checkResult |-> c.x, found |-> f], {})
        PROVE  PaloAltoFresh'
    <3> DEFINE cells == [checkLoading |-> FALSE, checkResult |-> c.x, found |-> f]
    <3>1. Passes("runPaloAltoCheck", "ok", cells, {})
      BY <2>2, SettlePasses DEF Ok
    <3>2. DOMAIN cells = {"checkLoading", "checkResult", "found"}
      OBVIOUS
    <3> HIDE DEF cells
    <3>3. quiet
      BY <1>7, <3>1
    <3>4. recent /\ heard /\ (detailed => traffic) /\ ui' = cells ++ ui
      <4>1. Apart(RecentList, {"runPaloAltoCheck"}) /\ Apart(TrafficList, {"runPaloAltoCheck"})
        BY ChecksLists
      <4> QED
        BY <3>1, <4>1, TakesSpares DEF PaloAltoFresh
    <3>5. /\ ui'.mode = ui.mode /\ ui'.tool = ui.tool /\ ui'.checkInput = i /\ ui'.timer = ui.timer
          /\ (ui.tool = "detail" => ui'.trafficOpen = ui.trafficOpen)
      BY <1>1, <3>2, <3>4 DEF ++
    <3> QED
      BY <2>2, <3>3, <3>4, <3>5 DEF PaloAltoFresh, Fresh, Asked, WillBeFresh, WillBeAsked
  <2>3. CASE Fails("runPaloAltoCheck", [checkLoading |-> FALSE])
    BY <1>9, <2>3
  <2>4. CASE \E c \in Ok("runPaloAltoCheck"), f \in IF ui.tool = "detail" THEN BOOLEAN ELSE {FALSE} :
               LET cells == [checkLoading |-> FALSE, checkResult |-> c.x, found |-> f]
               IN  IF ui.mode = "single" THEN Display(c, "runPaloAltoCheck", cells, {}) ELSE Settle(c, cells, {})
    <3>1. PICK c \in Ok("runPaloAltoCheck"), f \in IF ui.tool = "detail" THEN BOOLEAN ELSE {FALSE} :
            LET cells == [checkLoading |-> FALSE, checkResult |-> c.x, found |-> f]
            IN  IF ui.mode = "single" THEN Display(c, "runPaloAltoCheck", cells, {}) ELSE Settle(c, cells, {})
      BY <2>4
    <3> QED
      BY <2>1, <2>2, <3>1
  <2> QED
    BY <1>13, <2>3, <2>4 DEF runPaloAltoCheck
<1>14. CASE runCrossCheck
  BY <1>8, <1>9, <1>24, <1>14 DEF runCrossCheck
<1>15. CASE handleSave
  BY <1>8, <1>9, <1>24, <1>15 DEF handleSave
<1>16. CASE ui.tool = "detail" /\ loadTraffic
  <2>1. CASE AtResult /\ Act([trafficOpen |-> TRUE, trafficLoading |-> TRUE],
                    {Req("loadTraffic", None, ui.checkResult)})
    <3>1. quiet
      BY <1>6, <2>1
    <3>2. calm => ui.checkResult = i
      BY <2>1 DEF AtResult, PaloAltoFresh
    <3>3. WillBeFresh({}, TrafficList, None, ui.checkResult)
              /\ ui' = [trafficOpen |-> TRUE, trafficLoading |-> TRUE] ++ ui
      BY <2>1, SendsAsks, ChecksLists
    <3>4. traffic /\ heard
      BY <3>1, <3>2, <3>3 DEF WillBeFresh, WillBeAsked
    <3>5. recent /\ (single => asked) /\ (single /\ ui.timer = None /\ i # None => check)
      BY <1>1, <2>1, SendsSpares, ChecksLists DEF PaloAltoFresh
    <3>6. /\ ui'.mode = ui.mode /\ ui'.tool = ui.tool /\ ui'.checkInput = i /\ ui'.timer = ui.timer
          /\ ui'.checkResult = ui.checkResult
      BY <1>1, <3>3 DEF ++
    <3> QED
      BY <3>1, <3>4, <3>5, <3>6 DEF PaloAltoFresh, Fresh, Asked, WillBeFresh, WillBeAsked
  <2>2. CASE Show("loadTraffic", [trafficLoading |-> FALSE])
    <3>1. Shows("loadTraffic", "loadTraffic", [trafficLoading |-> FALSE], {})
              /\ ui' = [trafficLoading |-> FALSE] ++ ui
      BY <2>2, ShowShows DEF Shows
    <3>2. quiet
      BY <1>7, <3>1
    <3>3. traffic /\ heard
      BY <1>1, <2>2, ShowFresh, ChecksLists DEF WillBeFresh
    <3>4. recent /\ (single => asked) /\ (single /\ ui.timer = None /\ i # None => check)
      BY <1>1, <2>2, ShowSpares, ChecksLists DEF PaloAltoFresh
    <3> QED
      BY <1>5, <3>1, <3>2, <3>3, <3>4
  <2> QED
    BY <1>9, <1>16, <2>1, <2>2 DEF loadTraffic
<1>17. CASE ui.tool = "bulk" /\ setMode
  <2>1. CASE ui.mode = "bulk" /\ Typed("single", ui.checkInput)
    BY <2>1, TypedFresh
  <2>2. CASE AbortClearing({"runPaloAltoCheck", "loadTraffic"}, DetailFns,
                    [mode |-> "bulk", timer |-> None] ++ Unmounted, {})
    <3> DEFINE cells == [mode |-> "bulk", timer |-> None] ++ Unmounted
    <3>1. Renews({}, {"runPaloAltoCheck", "loadTraffic"}, cells, {})
      BY <2>2, AbortRenews, NoReqs
    <3>2. DOMAIN cells = {"mode", "timer"} /\ cells.mode = "bulk" /\ cells.timer = None
      BY <1>17, NoCells DEF Unmounted, ++
    <3> HIDE DEF cells
    <3>3. heard
      BY <3>1, NoReqs, RenewAsked, ChecksLists
    <3>4. ui' = cells ++ ui
      BY <3>1 DEF Renews
    <3>5. ui'.mode = "bulk" /\ ui'.tool = "bulk" /\ ui'.checkInput = i /\ ui'.timer = None
      BY <1>1, <1>17, <3>2, <3>4 DEF ++
    <3>6. recent
      BY <1>1, <2>2, ChecksLists, AbortSetsSpares DEF PaloAltoFresh, cells
    <3> QED
      BY <3>3, <3>5, <3>6 DEF PaloAltoFresh, Fresh, Asked, WillBeFresh, WillBeAsked
  <2> QED
    BY <1>17, <2>1, <2>2 DEF setMode
<1>18. CASE setBulkInput
  <2>1. PICK v, l : Act([bulkInputValid |-> v, listTooLong |-> l], {})
    BY <1>18 DEF setBulkInput
  <2>2. quiet
    BY <1>6, <2>1
  <2>3. spared /\ ui' = [bulkInputValid |-> v, listTooLong |-> l] ++ ui
    BY <1>1, <2>1, SetsSpares
  <2>4. keys \cap DOMAIN [bulkInputValid |-> v, listTooLong |-> l] = {}
    OBVIOUS
  <2> QED
    BY <1>3, <1>5, <2>2, <2>3, <2>4
<1>19. CASE runBulkScan
  <2>1. CASE startBulkScan
    <3>1. PICK p, x : Act([bulkScanning |-> TRUE, bulkFound |-> {}], {Req("runBulkScan", p, x)})
      BY <2>1 DEF startBulkScan, BulkScanOf
    <3> QED
      BY <1>24, <3>1
  <2>2. ASSUME NEW c \in Ok("runBulkScan"), NEW b, NEW found, NEW R,
               Settle(c, [bulkScanning |-> b, bulkFound |-> found], R),
               R = {} \/ \E p, x : R = {Req("runBulkScan", p, x)}
        PROVE  PaloAltoFresh'
    <3> DEFINE cells == [bulkScanning |-> b, bulkFound |-> found]
    <3>1. Passes("runBulkScan", "ok", cells, R) /\ keys \cap DOMAIN cells = {}
      BY <2>2, SettlePasses DEF Ok
    <3>2. Reqs(R) /\ \A r \in R : r.fn = "runBulkScan"
      BY <2>2, NoReqs, ReqFields
    <3> HIDE DEF cells
    <3>3. \A L \in PaloAltoLists : Apart(L, {"runBulkScan"})
      BY ChecksLists DEF PaloAltoLists
    <3>4. spared
      BY <3>1, <3>2, <3>3, PassSpares
    <3>5. ui' = cells ++ ui /\ quiet
      BY <1>7, <3>1 DEF Passes
    <3> QED
      BY <1>3, <1>5, <3>1, <3>4, <3>5
  <2>3. CASE Fails("runBulkScan", [bulkScanning |-> FALSE])
    BY <1>9, <2>3
  <2>4. ASSUME NEW c \in Ok("runBulkScan"), NEW f,
               Settle(c, [bulkScanning |-> c.q # {}, bulkFound |-> ui.bulkFound \cup (IF f THEN {c.x} ELSE {})],
                      IF c.q = {} THEN {} ELSE BulkScanOf(c.q))
        PROVE  PaloAltoFresh'
    <3> DEFINE R == IF c.q = {} THEN {} ELSE BulkScanOf(c.q)
    <3>1. R = {} \/ \E p, x : R = {Req("runBulkScan", p, x)}
      BY DEF BulkScanOf
    <3> QED
      BY <2>2, <2>4, <3>1
  <2> QED
    BY <1>19, <2>1, <2>3, <2>4 DEF runBulkScan
<1>20. CASE runBulkSave
  BY <1>8, <1>9, <1>24, <1>20 DEF runBulkSave
<1>21. CASE Serves(PaloAltoTouches)
  <2>1. spared
    <3> SUFFICES ASSUME NEW L \in PaloAltoLists, NEW p, NEW x
                 PROVE  /\ Asked({}, L, p, x) => WillBeAsked({}, L, p, x)
                        /\ Fresh({}, L, p, x) => WillBeFresh({}, L, p, x)
      OBVIOUS
    <3>1. Reloads({}, L, PaloAltoTouches) /\ L.fn \in DOMAIN shown
      BY <1>1, ChecksServe
    <3> QED
      BY <1>21, <3>1, ServesReloads
  <2>2. ui' = ui /\ quiet
    <3>1. calls # {}
      BY <1>21 DEF Serves, Serve
    <3> QED
      BY <1>21, <3>1, ServesStays DEF PaloAltoFresh
  <2> QED
    BY <1>2, <1>3, <2>1, <2>2
<1>22. CASE Refuse
  <2>1. lost
    BY <1>1, <1>22, LostNotCalm, RefuseNotCalm
  <2>2. ui' = ui
    BY <1>22 DEF Refuse
  <2> QED
    BY <1>2, <1>4, <2>1, <2>2
<1>23. ui.tool \in {"detail", "bulk"}
  BY DEF PaloAltoSound, PaloAltoTool, PaloAltoDetail, PaloAltoBulk
<1> HIDE DEF i, single, detailed, asked, check, heard, traffic, recent, keys, spared, lost, quiet
<1> QED
  BY <1>10, <1>11, <1>12, <1>13, <1>14, <1>15, <1>16, <1>17, <1>18, <1>19, <1>20, <1>21, <1>22, <1>23
  DEF PaloAltoNext, PaloAltoToolNext, Serves

---------------------------------------------------------------------------
(* VaultPage.tsx                                                           *)
CabinetCommands == {"saveCabinet", "deleteCabinet"}
FolderCommands == {"createFolder", "renameFolder", "deleteFolder"}
EntryCommands == {"saveEntry", "deleteEntry"}
VaultAlone == CabinetCommands \cup FolderCommands \cup EntryCommands \cup {"move", "createShare"}
CabinetsList ==
    [fn |-> "fetchCabinets", reads |-> {"fetchCabinets"}, cmds |-> CabinetCommands, byq |-> {}, byx |-> {},
     maybe |-> {}, left |-> {}]
FoldersList ==
    [fn |-> "fetchFolders", reads |-> {"fetchFolders"}, cmds |-> FolderCommands, byq |-> {},
     byx |-> FolderCommands, maybe |-> {}, left |-> {}]
EntriesList ==
    [fn |-> "fetchEntries", reads |-> {"fetchEntries"}, cmds |-> EntryCommands \cup {"move"},
     byq |-> EntryCommands, byx |-> {}, maybe |-> {}, left |-> {}]
SharesList ==
    [fn |-> "fetchShares", reads |-> {"fetchShares", "reloadShares"}, cmds |-> {"createShare"}, byq |-> {},
     byx |-> {"createShare"}, maybe |-> {}, left |-> {<<"revokeShare", "ok">>}]
VaultLists == {CabinetsList, FoldersList, EntriesList, SharesList}

VaultFresh ==
    /\ ui.pageNum \in {1, 2} /\ (ui.cabinet = None => ui.folder = "all" /\ ui.pageNum = 1)
    /\ Asked(VaultAlone, CabinetsList, None, None)
    /\ ui.cabinet = None => Fresh(VaultAlone, CabinetsList, None, None)
    /\ ui.cabinet # None => Fresh(VaultAlone, FoldersList, None, ui.cabinet)
    /\ ui.cabinet # None /\ ~ui.doubled => Fresh(VaultAlone, EntriesList, EntriesQuery, None)
    /\ ui.tool = "shares" /\ ui.shareEntry # None => Fresh(VaultAlone, SharesList, None, ui.shareEntry)

LEMMA VaultListed ==
    /\ CabinetsList.fn = "fetchCabinets" /\ FoldersList.fn = "fetchFolders"
    /\ EntriesList.fn = "fetchEntries" /\ SharesList.fn = "fetchShares"
    /\ CabinetsList.reads = {"fetchCabinets"} /\ FoldersList.reads = {"fetchFolders"}
    /\ EntriesList.reads = {"fetchEntries"} /\ SharesList.reads = {"fetchShares", "reloadShares"}
    /\ \A L \in VaultLists : L.maybe = {} /\ Apart(L, {})
    /\ CabinetCommands \subseteq (CabinetsList.cmds \ CabinetsList.reads) \ (CabinetsList.byq
                   \cup CabinetsList.byx)
    /\ FolderCommands \subseteq ((FoldersList.cmds \ FoldersList.reads) \cap FoldersList.byx) \ FoldersList.byq
    /\ EntryCommands \subseteq ((EntriesList.cmds \ EntriesList.reads) \cap EntriesList.byq) \ EntriesList.byx
    /\ "move" \in (EntriesList.cmds \ EntriesList.reads) \ (EntriesList.byq \cup EntriesList.byx)
    /\ "createShare" \in ((SharesList.cmds \ SharesList.reads) \cap SharesList.byx) \ SharesList.byq
BY DEF VaultLists, CabinetsList, FoldersList, EntriesList, SharesList, Apart, CabinetCommands, FolderCommands,
       EntryCommands

\* What is of one list is apart from the others.
LEMMA VaultApart ==
    /\ \A fn \in CabinetCommands \cup {"fetchCabinets"} :
           Apart(FoldersList, {fn}) /\ Apart(EntriesList, {fn}) /\ Apart(SharesList, {fn})
    /\ \A fn \in FolderCommands \cup {"fetchFolders"} :
           Apart(CabinetsList, {fn}) /\ Apart(EntriesList, {fn}) /\ Apart(SharesList, {fn})
    /\ \A fn \in EntryCommands \cup {"move", "fetchEntries"} :
           Apart(CabinetsList, {fn}) /\ Apart(FoldersList, {fn}) /\ Apart(SharesList, {fn})
    /\ \A fn \in {"fetchShares", "reloadShares", "createShare"} :
           Apart(CabinetsList, {fn}) /\ Apart(FoldersList, {fn}) /\ Apart(EntriesList, {fn})
    /\ \A fn \in {"fetchUsers", "fetchOptions", "reveal", "copyPassword", "revokeShare"},
           L \in VaultLists : Apart(L, {fn})
BY DEF VaultLists, CabinetsList, FoldersList, EntriesList, SharesList, Apart, CabinetCommands, FolderCommands,
       EntryCommands

LEMMA VaultServe == \A L \in VaultLists : Reloads(VaultAlone, L, VaultTouches)
<1>1. /\ \A fn \in DOMAIN VaultTouches : fn \in VaultAlone \/ fn = "revokeShare"
      /\ \A fn \in CabinetCommands : VaultTouches[fn] = {"fetchCabinets"}
      /\ \A fn \in FolderCommands : VaultTouches[fn] = {"fetchFolders"}
      /\ \A fn \in EntryCommands \cup {"move"} : VaultTouches[fn] = {"fetchEntries"}
      /\ \A fn \in {"createShare", "revokeShare"} : VaultTouches[fn] = {"fetchShares", "reloadShares"}
  BY DEF VaultTouches, VaultAlone, CabinetCommands, FolderCommands, EntryCommands, ++
<1> QED
  BY <1>1 DEF Reloads, VaultAlone, CabinetCommands, FolderCommands, EntryCommands, VaultLists, CabinetsList,
     FoldersList, EntriesList, SharesList

\* From page 1 a folder is asked for once.
LEMMA FolderAsked ==
    ASSUME NEW f
    PROVE  /\ Reqs(FolderFetches(f)) /\ FolderFetches(f) # {}
           /\ \A r \in FolderFetches(f) : r.fn = "fetchEntries" /\ r.x = None
           /\ ui.pageNum = 1 => \A r \in FolderFetches(f) : r.q = <<ui.cabinet, 1, f>>
<1>1. \A q : FetchEntries(q) = {Req("fetchEntries", q, None)}
  BY DEF FetchEntries
<1>2. \A q : Reqs(FetchEntries(q)) /\ \A r \in FetchEntries(q) : r.fn = "fetchEntries" /\ r.x = None /\ r.q = q
  BY <1>1, ReqFields
<1> QED
  BY <1>1, <1>2 DEF FolderFetches, Reqs

LEMMA ClearedCells ==
    /\ DOMAIN Cleared \subseteq {"revealed", "revealing", "timerRef", "timers"}
    /\ \A e : DOMAIN [Cleared EXCEPT !.revealing = e] \subseteq {"revealed", "revealing", "timerRef", "timers"}
BY NoCells DEF Cleared

LEMMA FolderCellsAre ==
    ASSUME NEW f
    PROVE  /\ FolderCells(f).folder = f /\ FolderCells(f).pageNum = 1 /\ FolderCells(f).doubled = (ui.pageNum = 2)
           /\ {"folder", "pageNum", "doubled"} \subseteq DOMAIN FolderCells(f)
           /\ {"tool", "cabinet", "shareEntry"} \cap DOMAIN FolderCells(f) = {}
BY ClearedCells DEF FolderCells, ++

LEMMA VaultFreshKept ==
    ASSUME VaultSound, VaultFresh, VaultNext
    PROVE  VaultFresh'
<1> DEFINE T == VaultAlone
           c == ui.cabinet
           q == EntriesQuery
           e == ui.shareEntry
           asked == WillBeAsked(T, CabinetsList, None, None)
           cabinets == WillBeFresh(T, CabinetsList, None, None)
           folders == WillBeFresh(T, FoldersList, None, c)
           entries == WillBeFresh(T, EntriesList, q, None)
           shares == WillBeFresh(T, SharesList, None, e)
           table == c # None /\ ~ui.doubled
           shared == ui.tool = "shares" /\ e # None
           keys == {"tool", "cabinet", "folder", "pageNum", "doubled", "shareEntry"}
           keeps(L) == \A p, x : /\ Asked(T, L, p, x) => WillBeAsked(T, L, p, x)
                                 /\ Fresh(T, L, p, x) => WillBeFresh(T, L, p, x)
           spared == \A L \in VaultLists : keeps(L)
           lost == \A L, p, x : WillBeFresh(T, L, p, x)
<1>1. /\ DOMAIN shown = {"fetchCabinets", "fetchFolders", "fetchEntries", "fetchShares"}
      /\ {"tool", "cabinet", "folder", "pageNum", "doubled", "loading"} \subseteq DOMAIN ui
      /\ ui.tool = "shares" => "shareEntry" \in DOMAIN ui
      /\ \A L \in VaultLists : L.fn \in DOMAIN shown
      /\ Asked(T, CabinetsList, None, None) /\ (calm => Steady(T, calls))
  BY VaultListed DEF VaultSound, VaultFrame, VaultTool, VaultCabinets, VaultFolders, VaultEntries, VaultReveal,
     VaultShares, VaultDrag, Page, Has, Cells, FrameCells, VaultFresh, Asked, VaultLists
<1>2. ASSUME ui'.tool = ui.tool, ui'.cabinet = c, ui'.folder = ui.folder, ui'.pageNum = ui.pageNum,
             ui'.doubled = ui.doubled, ui.tool = "shares" => ui'.shareEntry = e,
             asked, c = None => cabinets, c # None => folders, table => entries, shared => shares
      PROVE  VaultFresh'
  BY <1>2 DEF VaultFresh, EntriesQuery, Fresh, Asked, WillBeFresh, WillBeAsked
<1>3. ASSUME NEW cells, keys \cap DOMAIN cells = {}, ui' = cells ++ ui,
             asked, c = None => cabinets, c # None => folders, table => entries, shared => shares
      PROVE  VaultFresh'
  <2>1. /\ ui'.tool = ui.tool /\ ui'.cabinet = c /\ ui'.folder = ui.folder /\ ui'.pageNum = ui.pageNum
        /\ ui'.doubled = ui.doubled /\ (ui.tool = "shares" => ui'.shareEntry = e)
    BY <1>1, <1>3 DEF ++
  <2> QED
    BY <1>2, <1>3, <2>1
<1>4. /\ keeps(CabinetsList) => asked /\ (c = None => cabinets)
      /\ keeps(FoldersList) => (c # None => folders)
      /\ keeps(EntriesList) => (table => entries)
      /\ keeps(SharesList) => (shared => shares)
  BY DEF VaultFresh
<1>5. ASSUME NEW cells, keys \cap DOMAIN cells = {}, ui' = cells ++ ui, spared PROVE VaultFresh'
  BY <1>3, <1>4, <1>5 DEF VaultLists
<1>6. ASSUME NEW cells, keys \cap DOMAIN cells = {}, Act(cells, {}) PROVE VaultFresh'
  <2>1. spared /\ ui' = cells ++ ui
    BY <1>1, <1>6, SetsSpares DEF Act, ActClearing
  <2> QED
    BY <1>5, <1>6, <2>1
<1>7. ASSUME NEW fn, NEW cells, keys \cap DOMAIN cells = {}, Fails(fn, cells) PROVE VaultFresh'
  <2>1. lost
    BY <1>1, <1>7, LostNotCalm
  <2>2. ui' = cells ++ ui
    BY <1>7 DEF Fails, Settle, SettleShowing
  <2> QED
    BY <1>3, <1>7, <2>1, <2>2 DEF WillBeFresh
<1>8. ASSUME NEW fn, \A L \in VaultLists : Apart(L, {fn}), NEW p, NEW x, NEW cells, keys \cap DOMAIN cells = {},
             Act(cells, {Req(fn, p, x)})
      PROVE  VaultFresh'
  <2>1. spared /\ ui' = cells ++ ui
    BY <1>1, <1>8, SendsSpares DEF Act, ActClearing
  <2> QED
    BY <1>5, <1>8, <2>1
<1>9. ASSUME NEW fn, \A L \in VaultLists : Apart(L, {fn}), NEW d, d \in Ok(fn) \/ d \in Failed(fn), NEW cells,
             keys \cap DOMAIN cells = {}, Settle(d, cells, {})
      PROVE  VaultFresh'
  <2>1. ui' = cells ++ ui
    BY <1>9 DEF Settle, SettleShowing
  <2>2. CASE d \in Ok(fn)
    <3>1. Passes(fn, "ok", cells, {})
      BY <1>9, <2>2, SettlePasses DEF Ok
    <3>2. spared
      BY <1>9, <3>1, TakesSpares
    <3> QED
      BY <1>5, <1>9, <2>1, <3>2
  <2>3. CASE d \in Failed(fn)
    <3>1. lost
      BY <1>1, <1>9, <2>3, FailedSettleNotCalm
    <3> QED
      BY <1>3, <1>9, <2>1, <3>1 DEF WillBeFresh
  <2> QED
    BY <1>9, <2>2, <2>3
<1>10. ASSUME NEW fn, \A L \in VaultLists : Apart(L, {fn}), NEW cells, keys \cap DOMAIN cells = {},
              Done(fn, cells)
       PROVE  VaultFresh'
  BY <1>9, <1>10 DEF Done
<1>11. CASE fetchCabinets
  <2>1. CASE Show("fetchCabinets", [cabinetsLoading |-> FALSE])
    <3>3. ASSUME NEW p, NEW x, Asked(T, CabinetsList, p, x)
          PROVE  ui' = [cabinetsLoading |-> FALSE] ++ ui /\ WillBeFresh(T, CabinetsList, p, x)
      <4>1. CabinetsList.fn = "fetchCabinets" /\ "fetchCabinets" \in CabinetsList.reads
                /\ "fetchCabinets" \in DOMAIN shown
        BY <1>1, VaultListed
      <4> QED
        BY <2>1, <3>3, <4>1, ShowFresh
    <3>4. ui' = [cabinetsLoading |-> FALSE] ++ ui
      BY <2>1, ShowShows DEF Shows
    <3>1. cabinets /\ asked /\ ui' = [cabinetsLoading |-> FALSE] ++ ui
      BY <1>1, <3>3, <3>4 DEF VaultFresh, Fresh, WillBeFresh
    <3>2. keeps(FoldersList) /\ keeps(EntriesList) /\ keeps(SharesList)
      BY <1>1, <2>1, ShowSpares, VaultListed, VaultApart
    <3> QED
      BY <1>3, <1>4, <3>1, <3>2
  <2> QED
    BY <1>7, <1>11, <2>1 DEF fetchCabinets
<1>12. CASE fetchFolders
  <2>1. CASE Show("fetchFolders", <<>>)
    <3>3. ASSUME NEW p, NEW x, Asked(T, FoldersList, p, x)
          PROVE  ui' = <<>> ++ ui /\ WillBeFresh(T, FoldersList, p, x)
      <4>1. FoldersList.fn = "fetchFolders" /\ "fetchFolders" \in FoldersList.reads
                /\ "fetchFolders" \in DOMAIN shown
        BY <1>1, VaultListed
      <4> QED
        BY <2>1, <3>3, <4>1, ShowFresh
    <3>4. ui' = <<>> ++ ui
      BY <2>1, ShowShows DEF Shows
    <3>1. (c # None => folders) /\ ui' = <<>> ++ ui
      BY <1>1, <3>3, <3>4 DEF VaultFresh, Fresh, WillBeFresh
    <3>2. keeps(CabinetsList) /\ keeps(EntriesList) /\ keeps(SharesList)
      BY <1>1, <2>1, ShowSpares, VaultListed, VaultApart
    <3> QED
      BY <1>3, <1>4, <3>1, <3>2, NoCells
  <2> QED
    BY <1>7, <1>12, <2>1, NoCells DEF fetchFolders
<1>13. CASE fetchEntries
  <2>1. CASE Show("fetchEntries", [loading |-> FALSE])
    <3>3. ASSUME NEW p, NEW x, Asked(T, EntriesList, p, x)
          PROVE  ui' = [loading |-> FALSE] ++ ui /\ WillBeFresh(T, EntriesList, p, x)
      <4>1. EntriesList.fn = "fetchEntries" /\ "fetchEntries" \in EntriesList.reads
                /\ "fetchEntries" \in DOMAIN shown
        BY <1>1, VaultListed
      <4> QED
        BY <2>1, <3>3, <4>1, ShowFresh
    <3>4. ui' = [loading |-> FALSE] ++ ui
      BY <2>1, ShowShows DEF Shows
    <3>1. (table => entries) /\ ui' = [loading |-> FALSE] ++ ui
      BY <1>1, <3>3, <3>4 DEF VaultFresh, Fresh, WillBeFresh
    <3>2. keeps(CabinetsList) /\ keeps(FoldersList) /\ keeps(SharesList)
      BY <1>1, <2>1, ShowSpares, VaultListed, VaultApart
    <3> QED
      BY <1>3, <1>4, <3>1, <3>2
  <2> QED
    BY <1>7, <1>13, <2>1 DEF fetchEntries
<1>14. CASE handleSelectCabinet
  <2> DEFINE n == CHOOSE n \in Rows : TRUE
             cells == [cabinet |-> n, loading |-> TRUE, cabinetsLoading |-> FALSE] ++ Tool
             R == FetchFolders(n) \cup FetchEntries(<<n, 1, "all">>)
  <2>1. /\ AbortClearing({"fetchCabinets"}, ListFns, cells, R)
        /\ n \in Rows /\ c = None
    BY <1>14 DEF handleSelectCabinet, AtList
  <2>2. /\ Reqs(R) /\ (\A r \in R : r.fn \in {"fetchFolders", "fetchEntries"} /\ r.fn \notin T)
        /\ \A r \in R : /\ r.fn = "fetchFolders" => r.q = None /\ r.x = n
                        /\ r.fn = "fetchEntries" => r.q = <<n, 1, "all">> /\ r.x = None
        /\ \A fn \in {"fetchFolders", "fetchEntries"} : \E r \in R : r.fn = fn
    <3>1. R = {Req("fetchFolders", None, n), Req("fetchEntries", <<n, 1, "all">>, None)}
      BY DEF FetchFolders, FetchEntries
    <3>2. "fetchFolders" \notin T /\ "fetchEntries" \notin T
      BY DEF VaultAlone, CabinetCommands, FolderCommands, EntryCommands
    <3> HIDE DEF R, T, n
    <3> QED
      BY <3>1, <3>2 DEF Req, Reqs
  <2>3. /\ cells.cabinet = n /\ "cabinet" \in DOMAIN cells
        /\ {"tool", "folder", "pageNum", "doubled"} \cap DOMAIN cells = {}
        /\ ui.tool = "shares" => "shareEntry" \in DOMAIN cells /\ cells.shareEntry = None
    <3>1. /\ {"cabinet", "tool", "folder", "pageNum", "doubled"} \cap DOMAIN Tool = {}
          /\ ui.tool = "shares" => "shareEntry" \in DOMAIN Tool /\ Tool.shareEntry = None
      BY DEF Tool, VaultTools, VaultSound, VaultTool, VaultCabinets, VaultFolders, VaultEntries, VaultReveal,
         VaultShares, VaultDrag
    <3> QED
      BY <3>1 DEF ++
  <2> HIDE DEF cells, R, T, n
  <2>4. Renews({}, {"fetchCabinets"}, cells, R) /\ Simple(T, R)
    BY <2>1, <2>2, AbortRenews DEF Simple
  <2>5. asked
    <3>1. \A r \in R : Apart(CabinetsList, {r.fn})
      BY <2>2, VaultApart
    <3> QED
      BY <2>4, <3>1, RenewAsked, VaultListed DEF VaultLists
  <2>6. WillBeFresh(T, FoldersList, None, n)
    <3>1. \A r \in R : Apart(FoldersList, {r.fn})
              \/ (r.fn \in FoldersList.reads \ FoldersList.maybe /\ r.q = None /\ r.x = n)
      BY <2>2, VaultApart, VaultListed DEF VaultLists
    <3>2. \E r \in R : r.fn \in FoldersList.reads
      BY <2>2, VaultListed
    <3> QED
      BY <2>4, <3>1, <3>2, RenewAsks
  <2>7. WillBeFresh(T, EntriesList, <<n, 1, "all">>, None)
    <3>1. \A r \in R : \/ Apart(EntriesList, {r.fn})
                       \/ r.fn \in EntriesList.reads \ EntriesList.maybe /\ r.q = <<n, 1, "all">> /\ r.x = None
      BY <2>2, VaultApart, VaultListed DEF VaultLists
    <3>2. \E r \in R : r.fn \in EntriesList.reads
      BY <2>2, VaultListed
    <3> QED
      BY <2>4, <3>1, <3>2, RenewAsks
  <2>8. ui' = cells ++ ui
    BY <2>4 DEF Renews
  <2>9. /\ ui'.tool = ui.tool /\ ui'.cabinet = n /\ ui'.folder = ui.folder /\ ui'.pageNum = ui.pageNum
        /\ (ui.tool = "shares" => ui'.shareEntry = None)
    BY <1>1, <2>3, <2>8 DEF ++
  <2>10. n # None
    BY <2>1, BrowserAssumption
  <2>11. ui.folder = "all" /\ ui.pageNum = 1
    BY <2>1 DEF VaultFresh
  <2> QED
    BY <2>5, <2>6, <2>7, <2>9, <2>10, <2>11 DEF VaultFresh, EntriesQuery, Fresh, Asked, WillBeFresh,
       WillBeAsked, T
<1>15. CASE handleBack
  <2> DEFINE cells == [cabinetsLoading |-> TRUE] ++ NoCabinet ++ Tool
  <2>1. AbortClearing({"fetchFolders", "fetchEntries"}, CabinetFns, cells, FetchCabinets)
    BY <1>15 DEF handleBack
  <2>2. /\ {"cabinet", "folder", "pageNum", "doubled"} \subseteq DOMAIN cells /\ "tool" \notin DOMAIN cells
        /\ cells.cabinet = None /\ cells.folder = "all" /\ cells.pageNum = 1
        /\ ui.tool = "shares" => "shareEntry" \in DOMAIN cells /\ cells.shareEntry = None
    <3>1. /\ {"cabinet", "tool", "folder", "pageNum", "doubled"} \cap DOMAIN Tool = {}
          /\ ui.tool = "shares" => "shareEntry" \in DOMAIN Tool /\ Tool.shareEntry = None
      BY DEF Tool, VaultTools, VaultSound, VaultTool, VaultCabinets, VaultFolders, VaultEntries, VaultReveal,
         VaultShares, VaultDrag
    <3> QED
      BY <3>1 DEF ++, NoCabinet
  <2> HIDE DEF cells
  <2>3. Renews({}, {"fetchFolders", "fetchEntries"}, cells, {Req("fetchCabinets", None, None)})
    BY <2>1, AbortRenews, ReqFields DEF FetchCabinets
  <2>4. cabinets /\ asked
    BY <2>3, RenewAsksOne, VaultListed DEF WillBeFresh, VaultLists
  <2>5. ui' = cells ++ ui
    BY <2>3 DEF Renews
  <2>6. /\ ui'.tool = ui.tool /\ ui'.cabinet = None /\ ui'.folder = "all" /\ ui'.pageNum = 1
        /\ (ui.tool = "shares" => ui'.shareEntry = None)
    BY <1>1, <2>2, <2>5 DEF ++
  <2> QED
    BY <2>4, <2>6 DEF VaultFresh, Fresh, Asked, WillBeFresh, WillBeAsked

<1>16. ASSUME NEW f, c # None, ui' = FolderCells(f) ++ ui, asked, folders, shared => shares,
              ui.pageNum = 1 => WillBeFresh(T, EntriesList, <<c, 1, f>>, None)
       PROVE  VaultFresh'
  <2>1. /\ ui'.tool = ui.tool /\ ui'.cabinet = c /\ ui'.folder = f /\ ui'.pageNum = 1
               /\ ui'.doubled = (ui.pageNum = 2)
        /\ (ui.tool = "shares" => ui'.shareEntry = e)
    BY <1>1, <1>16, FolderCellsAre DEF ++
  <2>2. ui.pageNum \in {1, 2}
    BY DEF VaultFresh
  <2> QED
    BY <1>16, <2>1, <2>2 DEF VaultFresh, EntriesQuery, Fresh, Asked, WillBeFresh, WillBeAsked
<1>17. CASE selectFolder
  <2>1. PICK f : c # None /\ Act(FolderCells(f), FolderFetches(f))
    BY <1>17 DEF selectFolder, AtCabinet
  <2> DEFINE R == FolderFetches(f)
  <2>2. /\ Renews({}, {}, FolderCells(f), R) /\ R # {}
        /\ \A r \in R : r.fn = "fetchEntries" /\ r.x = None /\ (ui.pageNum = 1 => r.q = <<c, 1, f>>)
        /\ Reqs(R)
    BY <2>1, ActRenews, FolderAsked
  <2> HIDE DEF R
  <2>3. Simple(T, R)
    BY <2>2 DEF Simple, VaultAlone, CabinetCommands, FolderCommands, EntryCommands
  <2>4. keeps(CabinetsList) /\ keeps(FoldersList) /\ keeps(SharesList)
    <3>1. \A L \in {CabinetsList, FoldersList, SharesList} :
              Apart(L, {}) /\ L.fn \in DOMAIN shown \ {} /\ \A r \in R : Apart(L, {r.fn})
      BY <1>1, <2>2, VaultApart, VaultListed DEF VaultLists
    <3> HIDE DEF T
    <3> QED
      BY <2>2, <2>3, <3>1, RenewSpares
  <2>5. ASSUME ui.pageNum = 1 PROVE WillBeFresh(T, EntriesList, <<c, 1, f>>, None)
    <3>1. \A r \in R : \/ Apart(EntriesList, {r.fn})
                       \/ r.fn \in EntriesList.reads \ EntriesList.maybe /\ r.q = <<c, 1, f>> /\ r.x = None
      BY <2>2, <2>5, VaultListed DEF VaultLists
    <3>2. \E r \in R : r.fn \in EntriesList.reads
      BY <2>2, VaultListed
    <3> QED
      BY <2>2, <2>3, <3>1, <3>2, RenewAsks
  <2>6. ui' = FolderCells(f) ++ ui
    BY <2>2 DEF Renews
  <2> QED
    BY <1>4, <1>16, <2>1, <2>4, <2>5, <2>6
<1>18. ASSUME NEW fn \in CabinetCommands, NEW p, NEW x, NEW cells, keys \cap DOMAIN cells = {},
              Act(cells, {Req(fn, p, x)})
       PROVE  VaultFresh'
  <2>1. cabinets /\ asked /\ ui' = cells ++ ui
    BY <1>18, SendsCommand, VaultListed DEF WillBeFresh, VaultLists
  <2>2. keeps(FoldersList) /\ keeps(EntriesList) /\ keeps(SharesList)
    BY <1>1, <1>18, SendsSpares, VaultApart DEF VaultLists
  <2> QED
    BY <1>3, <1>4, <1>18, <2>1, <2>2
<1>19. ASSUME NEW fn \in CabinetCommands, NEW d \in Ok(fn), NEW cells, keys \cap DOMAIN cells = {},
              ReloadCabinets(d, cells)
       PROVE  VaultFresh'
  <2> DEFINE more == cells ++ [cabinetsLoading |-> TRUE]
  <2>1. Settle(d, more, {Req("fetchCabinets", None, None)}) /\ keys \cap DOMAIN more = {}
    BY <1>19 DEF ReloadCabinets, FetchCabinets, ++
  <2> HIDE DEF more
  <2>2. fn \in T
    BY DEF VaultAlone
  <2>3. cabinets /\ asked /\ ui' = more ++ ui
    BY <1>1, <2>1, <2>2, ReloadsAs, VaultListed DEF WillBeFresh, VaultLists
  <2>4. keeps(FoldersList) /\ keeps(EntriesList) /\ keeps(SharesList)
    BY <1>1, <2>1, <2>2, ReloadSpares, VaultApart DEF VaultLists
  <2> QED
    BY <1>3, <1>4, <2>1, <2>3, <2>4
<1>20. CASE openCabinet
  <2>1. PICK n, R : Act([modalOpen |-> TRUE, editing |-> n], R) /\ (R = {} \/ R = {Req("fetchUsers", None, n)})
    BY <1>20 DEF openCabinet
  <2> DEFINE cells == [modalOpen |-> TRUE, editing |-> n]
  <2>2. Act(cells, R) /\ keys \cap DOMAIN cells = {}
    BY <2>1
  <2>3. \A L \in VaultLists : Apart(L, {"fetchUsers"})
    BY VaultApart
  <2> HIDE DEF cells
  <2> QED
    BY <1>6, <1>8, <2>1, <2>2, <2>3
<1>21. CASE fetchCabinetUsers
  <2>1. \A L \in VaultLists : Apart(L, {"fetchUsers"})
    BY VaultApart
  <2> QED
    BY <1>9, <1>21, <2>1, NoCells DEF fetchCabinetUsers
<1>22. CASE saveCabinet
  <2>1. "saveCabinet" \in CabinetCommands /\ "saveCabinet" \in T
    BY DEF CabinetCommands, VaultAlone
  <2>2. ASSUME NEW d \in Ok("saveCabinet"), NEW step, Settle(d, <<>>, {Req("saveCabinet", step, d.x)})
        PROVE  VaultFresh'
    <3>1. Passes("saveCabinet", "ok", <<>>, {Req("saveCabinet", step, d.x)})
      BY <2>2, SettlePasses DEF Ok
    <3>2. Renews({"saveCabinet"}, {}, <<>>, {Req("saveCabinet", step, d.x)})
      BY <1>1, <2>1, <3>1, AloneRenews, ReqFields
    <3>3. cabinets /\ asked
      BY <2>1, <3>2, RenewCommands, VaultListed DEF WillBeFresh, VaultLists
    <3>4. keeps(FoldersList) /\ keeps(EntriesList) /\ keeps(SharesList)
      BY <1>1, <2>1, <2>2, ReloadSpares, VaultApart DEF VaultLists
    <3>5. ui' = <<>> ++ ui
      BY <3>1 DEF Passes
    <3> QED
      BY <1>3, <1>4, <3>3, <3>4, <3>5, NoCells
  <2> QED
    BY <1>7, <1>18, <1>19, <1>22, <2>1, <2>2 DEF saveCabinet
<1>23. CASE deleteCabinet
  BY <1>7, <1>18, <1>19, <1>23, NoCells DEF deleteCabinet, CabinetCommands
<1>24. CASE closeModal \/ startAdding \/ startRenaming \/ drag
  BY <1>6, <1>24 DEF closeModal, startAdding, startRenaming, drag
<1>25. ASSUME NEW fn \in FolderCommands, NEW p, NEW cells, keys \cap DOMAIN cells = {},
              Act(cells, {Req(fn, p, c)})
       PROVE  VaultFresh'
  <2>1. folders /\ ui' = cells ++ ui
    BY <1>25, SendsCommand, VaultListed DEF VaultLists
  <2>2. keeps(CabinetsList) /\ keeps(EntriesList) /\ keeps(SharesList)
    BY <1>1, <1>25, SendsSpares, VaultApart DEF VaultLists
  <2> QED
    BY <1>3, <1>4, <1>25, <2>1, <2>2
<1>26. ASSUME NEW fn \in FolderCommands, NEW d \in Ok(fn), NEW cells, keys \cap DOMAIN cells = {},
              ReloadFolders(d, cells)
       PROVE  VaultFresh'
  <2>1. Settle(d, cells, {Req("fetchFolders", None, d.x)}) /\ fn \in T
    BY <1>26 DEF ReloadFolders, FetchFolders, VaultAlone
  <2>2. c # None => folders
    BY <2>1, ReloadsSubject, VaultListed DEF VaultLists, VaultFresh, Fresh
  <2>3. keeps(CabinetsList) /\ keeps(EntriesList) /\ keeps(SharesList)
    <3>1. \A L \in {CabinetsList, EntriesList, SharesList} :
              Apart(L, {fn}) /\ Apart(L, {"fetchFolders"}) /\ L.fn \in DOMAIN shown
      BY <1>1, VaultApart DEF VaultLists
    <3>2. ASSUME NEW L \in {CabinetsList, EntriesList, SharesList} PROVE keeps(L)
      BY <2>1, <3>1, ReloadSpares
    <3> QED
      BY <3>2
  <2>4. ui' = cells ++ ui
    BY <2>1 DEF Settle, SettleShowing
  <2> QED
    BY <1>3, <1>4, <1>26, <2>2, <2>3, <2>4
<1>27. CASE createFolder
  BY <1>6, <1>7, <1>25, <1>26, <1>27, NoCells DEF createFolder, FolderCommands
<1>28. CASE renameFolder
  BY <1>6, <1>7, <1>25, <1>26, <1>28, NoCells DEF renameFolder, FolderCommands
<1>29. CASE deleteFolder
  <2>1. "deleteFolder" \in FolderCommands /\ "deleteFolder" \in T
    BY DEF FolderCommands, VaultAlone
  <2>2. ASSUME NEW d \in Ok("deleteFolder"), ui.folder # "all",
               Settle(d, FolderCells("all"), FetchFolders(d.x) \cup FolderFetches("all"))
        PROVE  VaultFresh'
    <3> DEFINE R == FetchFolders(d.x) \cup FolderFetches("all")
               fs == {"deleteFolder"}
    <3>1. /\ Reqs(R) /\ (\A r \in R : r.fn \in {"fetchFolders", "fetchEntries"} /\ r.fn \notin T)
          /\ \A r \in R : /\ r.fn = "fetchFolders" => r.q = None /\ r.x = d.x
                          /\ r.fn = "fetchEntries" => r.x = None /\ (ui.pageNum = 1 => r.q = <<c, 1, "all">>)
          /\ \A fn \in {"fetchFolders", "fetchEntries"} : \E r \in R : r.fn = fn
      <4> DEFINE g == Req("fetchFolders", None, d.x)
                 E == FolderFetches("all")
      <4>1. R = {g} \cup E
        BY DEF FetchFolders
      <4>2. Reqs({g}) /\ g.fn = "fetchFolders" /\ g.q = None /\ g.x = d.x
        BY ReqFields
      <4>3. /\ Reqs(E) /\ E # {} /\ \A r \in E : r.fn = "fetchEntries" /\ r.x = None
            /\ ui.pageNum = 1 => \A r \in E : r.q = <<c, 1, "all">>
        BY FolderAsked
      <4>4. "fetchFolders" \notin T /\ "fetchEntries" \notin T
        BY DEF VaultAlone, CabinetCommands, FolderCommands, EntryCommands
      <4> HIDE DEF g, E, R, T, c
      <4> QED
        BY <4>1, <4>2, <4>3, <4>4 DEF Reqs
    <3>2. c # None
      BY <2>2 DEF VaultFresh
    <3>3. calm => d.x = c
      BY <2>1, <3>2, VaultListed DEF VaultFresh, Fresh, Asked, InOrder, Ok
    <3> HIDE DEF R
    <3>4. Passes("deleteFolder", "ok", FolderCells("all"), R)
      BY <2>2, SettlePasses DEF Ok, R
    <3>5. Renews(fs, {}, FolderCells("all"), R) /\ Simple(T, R)
      BY <1>1, <2>1, <3>1, <3>4, AloneRenews DEF Simple
    <3>6. \A fn \in fs : fn \in FolderCommands
      BY <2>1
    <3> HIDE DEF fs
    <3>7. keeps(CabinetsList) /\ keeps(SharesList)
      <4>1. \A L \in {CabinetsList, SharesList} : Apart(L, fs) /\ \A r \in R : Apart(L, {r.fn})
        BY <3>1, <3>6, VaultApart DEF Apart
      <4>2. \A L \in {CabinetsList, SharesList} : L.fn \in DOMAIN shown \ {}
        BY <1>1 DEF VaultLists
      <4> HIDE DEF T
      <4> QED
        BY <3>5, <4>1, <4>2, RenewSpares
    <3>8. folders
      <4>1. CASE calm
        <5>1. \A r \in R : Apart(FoldersList, {r.fn})
                  \/ (r.fn \in FoldersList.reads \ FoldersList.maybe /\ r.q = None /\ r.x = c)
          BY <3>1, <3>3, <4>1, VaultApart, VaultListed DEF VaultLists
        <5>2. \E r \in R : r.fn \in FoldersList.reads
          BY <3>1, VaultListed
        <5> QED
          BY <3>5, <5>1, <5>2, RenewAsks
      <4>2. CASE ~calm
        BY <3>5, <4>2 DEF Renews, WillBeFresh, WillBeAsked
      <4> QED
        BY <4>1, <4>2
    <3>9. ASSUME ui.pageNum = 1 PROVE WillBeFresh(T, EntriesList, <<c, 1, "all">>, None)
      <4>1. \A r \in R : \/ Apart(EntriesList, {r.fn})
                         \/ r.fn \in EntriesList.reads \ EntriesList.maybe /\ r.q = <<c, 1, "all">> /\ r.x = None
        BY <3>1, <3>9, VaultApart, VaultListed DEF VaultLists
      <4>2. \E r \in R : r.fn \in EntriesList.reads
        BY <3>1, VaultListed
      <4> QED
        BY <3>5, <4>1, <4>2, RenewAsks
    <3>10. ui' = FolderCells("all") ++ ui
      BY <3>4 DEF Passes
    <3> QED
      BY <1>4, <1>16, <3>2, <3>7, <3>8, <3>9, <3>10
  <2> QED
    BY <1>7, <1>25, <1>26, <1>29, <2>1, <2>2, NoCells DEF deleteFolder
<1>30. ASSUME NEW fn \in EntryCommands, NEW x, NEW cells, keys \cap DOMAIN cells = {}, Act(cells, {Req(fn, q, x)})
       PROVE  VaultFresh'
  <2>1. entries /\ ui' = cells ++ ui
    BY <1>30, SendsCommand, VaultListed DEF VaultLists
  <2>2. keeps(CabinetsList) /\ keeps(FoldersList) /\ keeps(SharesList)
    BY <1>1, <1>30, SendsSpares, VaultApart DEF VaultLists
  <2> QED
    BY <1>3, <1>4, <1>30, <2>1, <2>2
<1>31. ASSUME NEW fn \in EntryCommands, NEW cells, keys \cap DOMAIN cells = {}, ReloadEntries(fn, cells)
       PROVE  VaultFresh'
  <2> DEFINE more == cells ++ [loading |-> TRUE]
  <2>1. PICK d \in Ok(fn) : Settle(d, more, {Req("fetchEntries", d.q, None)})
    BY <1>31 DEF ReloadEntries, FetchEntries
  <2>2. fn \in T /\ keys \cap DOMAIN more = {}
    BY <1>31 DEF VaultAlone, ++
  <2> HIDE DEF more
  <2>3. table => entries
    BY <2>1, <2>2, ReloadsQuery, VaultListed DEF VaultLists, VaultFresh, Fresh
  <2>4. keeps(CabinetsList) /\ keeps(FoldersList) /\ keeps(SharesList)
    <3>1. \A L \in {CabinetsList, FoldersList, SharesList} :
              Apart(L, {fn}) /\ Apart(L, {"fetchEntries"}) /\ L.fn \in DOMAIN shown
      BY <1>1, VaultApart DEF VaultLists
    <3>2. ASSUME NEW L \in {CabinetsList, FoldersList, SharesList} PROVE keeps(L)
      BY <2>1, <2>2, <3>1, ReloadSpares
    <3> QED
      BY <3>2
  <2>5. ui' = more ++ ui
    BY <2>1 DEF Settle, SettleShowing
  <2> QED
    BY <1>3, <1>4, <2>2, <2>3, <2>4, <2>5
<1>32. CASE setEntriesPage
  <2>1. PICK p \in PageNos(IF ui.folder = "all" THEN "all" ELSE "some") :
              /\ c # None
              /\ Act([pageNum |-> p, loading |-> TRUE, doubled |-> FALSE], FetchEntries(<<c, p, ui.folder>>))
    BY <1>32 DEF setEntriesPage, AtCabinet
  <2>6. p \in {1, 2}
    BY <2>1 DEF PageNos
  <2>2. /\ WillBeFresh(T, EntriesList, <<c, p, ui.folder>>, None)
        /\ ui' = [pageNum |-> p, loading |-> TRUE, doubled |-> FALSE] ++ ui
    BY <2>1, SendsAsks, VaultListed DEF VaultLists, FetchEntries
  <2>3. keeps(CabinetsList) /\ keeps(FoldersList) /\ keeps(SharesList)
    BY <1>1, <2>1, SendsSpares, VaultApart DEF VaultLists, FetchEntries
  <2>4. /\ ui'.tool = ui.tool /\ ui'.cabinet = c /\ ui'.folder = ui.folder /\ ui'.pageNum = p
               /\ ui'.doubled = FALSE
        /\ (ui.tool = "shares" => ui'.shareEntry = e)
    BY <1>1, <2>2 DEF ++
  <2>5. asked /\ folders /\ (shared => shares)
    BY <1>4, <2>1, <2>3
  <2> QED
    BY <2>1, <2>2, <2>4, <2>5, <2>6 DEF VaultFresh, EntriesQuery, Fresh, Asked, WillBeFresh, WillBeAsked
<1>33. CASE deleteEntry
  BY <1>7, <1>30, <1>31, <1>33, NoCells DEF deleteEntry, EntryCommands
<1>34. CASE saveEntry
  BY <1>7, <1>30, <1>31, <1>34 DEF saveEntry, EntryCommands
<1>35. CASE openEntry \/ fetchOptions
  <2>1. \A L \in VaultLists : Apart(L, {"fetchOptions"})
    BY VaultApart
  <2> QED
    BY <1>8, <1>9, <1>35, <2>1, NoCells DEF openEntry, fetchOptions
<1>36. CASE handleDropToFolder
  <2>1. "move" \in T
    BY DEF VaultAlone
  <2>2. CASE Act([dragging |-> None], {Req("move", None, ui.dragging)})
    <3>1. entries /\ ui' = [dragging |-> None] ++ ui
      BY <2>2, SendsCommand, VaultListed DEF VaultLists
    <3>2. keeps(CabinetsList) /\ keeps(FoldersList) /\ keeps(SharesList)
      BY <1>1, <2>2, SendsSpares, VaultApart DEF VaultLists
    <3> QED
      BY <1>3, <1>4, <3>1, <3>2
  <2>3. ASSUME NEW d \in Ok("move"), c = None, Settle(d, [dragging |-> None], {}) PROVE VaultFresh'
    <3>1. Passes("move", "ok", [dragging |-> None], {}) /\ ui' = [dragging |-> None] ++ ui
      BY <2>3, SettlePasses DEF Ok, Passes
    <3>2. keeps(CabinetsList) /\ keeps(SharesList)
      BY <3>1, TakesSpares, VaultApart
    <3> QED
      BY <1>3, <1>4, <2>3, <3>1, <3>2
  <2>4. ASSUME NEW d \in Ok("move"),
               Settle(d, [dragging |-> None, loading |-> TRUE], FetchEntries(q)) PROVE VaultFresh'
    <3> DEFINE cells == [dragging |-> None, loading |-> TRUE]
    <3>1. Settle(d, cells, {Req("fetchEntries", q, None)}) /\ keys \cap DOMAIN cells = {}
      BY <2>4 DEF FetchEntries
    <3> HIDE DEF cells
    <3>2. entries /\ ui' = cells ++ ui
      BY <1>1, <2>1, <3>1, ReloadsAs, VaultListed DEF VaultLists
    <3>3. keeps(CabinetsList) /\ keeps(FoldersList) /\ keeps(SharesList)
      BY <1>1, <2>1, <3>1, ReloadSpares, VaultApart DEF VaultLists
    <3> QED
      BY <1>3, <1>4, <3>1, <3>2, <3>3
  <2> QED
    BY <1>7, <1>36, <2>2, <2>3, <2>4 DEF handleDropToFolder
<1>37. CASE revealPassword
  <2>1. \A L \in VaultLists : Apart(L, {"reveal"})
    BY VaultApart
  <2>2. ASSUME NEW n, Act([Cleared EXCEPT !.revealing = n], {Req("reveal", None, n)}) PROVE VaultFresh'
    <3>1. keys \cap DOMAIN [Cleared EXCEPT !.revealing = n] = {}
      BY ClearedCells
    <3> QED
      BY <1>8, <2>1, <2>2, <3>1
  <2>3. ASSUME NEW d \in Ok("reveal"),
               Settle(d, [revealed |-> d.x, revealing |-> None, timers |-> ui.timers + 1, timerRef |-> TRUE], {})
        PROVE  VaultFresh'
    BY <1>9, <2>1, <2>3
  <2> QED
    BY <1>7, <1>37, <2>2, <2>3 DEF revealPassword
<1>38. CASE clearReveal
  BY <1>6, <1>38, ClearedCells DEF clearReveal
<1>39. CASE secondsUp
  <2>1. /\ ui' = Cleared ++ ui /\ (calm' => calm /\ calls' = calls)
        /\ calm' => \A f \in DOMAIN shown : shown'[f] = shown[f]
    BY <1>39 DEF secondsUp, Fire, FireOver, Replace, Follow, New
  <2>2. ASSUME NEW L \in VaultLists PROVE keeps(L)
    <3>1. L.fn \in DOMAIN shown
      BY <1>1
    <3>2. ASSUME NEW p, NEW x, calm'
          PROVE  /\ InOrder(L, p, x, calls, shown) => InOrder(L, p, x, calls', shown')
                 /\ Due(L, p, x, calls, shown) => Due(L, p, x, calls', shown')
      BY <2>1, <3>1, <3>2 DEF InOrder, Due, Good
    <3> QED
      BY <2>1, <3>2 DEF Asked, Fresh, WillBeAsked, WillBeFresh
  <2> QED
    BY <1>5, <2>1, <2>2, ClearedCells
<1>40. CASE copyPassword
  <2>1. \A L \in VaultLists : Apart(L, {"copyPassword"})
    BY VaultApart
  <2> QED
    BY <1>7, <1>8, <1>10, <1>40, <2>1 DEF copyPassword
<1>41. CASE ui.tool = "shares" /\ openShares
  <2>1. PICK n : Act([shareEntry |-> n, sharesLoading |-> TRUE], FetchShares(n))
    BY <1>41 DEF openShares
  <2>2. WillBeFresh(T, SharesList, None, n) /\ ui' = [shareEntry |-> n, sharesLoading |-> TRUE] ++ ui
    BY <2>1, SendsAsks, VaultListed DEF VaultLists, FetchShares
  <2>3. keeps(CabinetsList) /\ keeps(FoldersList) /\ keeps(EntriesList)
    BY <1>1, <2>1, SendsSpares, VaultApart DEF VaultLists, FetchShares
  <2>4. /\ ui'.tool = ui.tool /\ ui'.cabinet = c /\ ui'.folder = ui.folder /\ ui'.pageNum = ui.pageNum
        /\ ui'.doubled = ui.doubled /\ ui'.shareEntry = n
    BY <1>1, <1>41, <2>2 DEF ++
  <2> QED
    BY <1>4, <2>2, <2>3, <2>4 DEF VaultFresh, EntriesQuery, Fresh, Asked, WillBeFresh, WillBeAsked
<1>42. CASE ui.tool = "shares" /\ closeShares
  <2> DEFINE fns == {"fetchShares", "reloadShares", "createShare", "revokeShare"}
             cells == VaultTools["shares"]
  <2>1. AbortClearing({"fetchShares"}, fns, cells, {})
    BY <1>42 DEF closeShares
  <2>2. DOMAIN cells = {"shareEntry", "sharesLoading", "creating"} /\ cells.shareEntry = None
    BY DEF VaultTools
  <2>3. \A L \in {CabinetsList, FoldersList, EntriesList} : L.fn \in DOMAIN shown \ {"fetchShares"}
    BY <1>1, VaultListed
  <2> HIDE DEF fns, cells
  <2>4. keeps(CabinetsList) /\ keeps(FoldersList) /\ keeps(EntriesList)
    BY <2>1, <2>3, AbortSetsSpares
  <2>5. ui' = cells ++ ui
    BY <2>1 DEF AbortClearing, Replace
  <2>6. /\ ui'.tool = ui.tool /\ ui'.cabinet = c /\ ui'.folder = ui.folder /\ ui'.pageNum = ui.pageNum
        /\ ui'.doubled = ui.doubled /\ ui'.shareEntry = None
    BY <1>1, <1>42, <2>2, <2>5 DEF ++
  <2> QED
    BY <1>4, <2>4, <2>6 DEF VaultFresh, EntriesQuery, Fresh, Asked, WillBeFresh, WillBeAsked
<1>43. ASSUME NEW cells, NEW fn \in {"fetchShares", "reloadShares"}, Shows(fn, "fetchShares", cells, {}),
              keys \cap DOMAIN cells = {}
       PROVE  VaultFresh'
  <2>1. Shows(fn, SharesList.fn, cells, {}) /\ fn \in SharesList.reads /\ SharesList.fn \in DOMAIN shown
    BY <1>1, <1>43, VaultListed
  <2>2. shared => shares
    BY <2>1, ShowsFresh DEF VaultFresh, Fresh
  <2>3. \A L \in {CabinetsList, FoldersList, EntriesList} : L.fn \in DOMAIN shown
            /\ L.fn # "fetchShares" /\ Apart(L, {fn})
    BY <1>1, VaultListed, VaultApart
  <2>4. keeps(CabinetsList) /\ keeps(FoldersList) /\ keeps(EntriesList)
    BY <1>43, <2>3, ShowsSpares
  <2>5. ui' = cells ++ ui
    BY <1>43 DEF Shows
  <2> QED
    BY <1>3, <1>4, <1>43, <2>2, <2>4, <2>5
<1>44. CASE fetchShares
  BY <1>7, <1>43, <1>44, ShowShows DEF fetchShares
<1>45. CASE createShare
  <2>1. "createShare" \in T
    BY DEF VaultAlone
  <2>2. CASE Act([creating |-> TRUE], {Req("createShare", None, e)})
    <3>1. shares /\ ui' = [creating |-> TRUE] ++ ui
      BY <2>2, SendsCommand, VaultListed DEF VaultLists
    <3>2. keeps(CabinetsList) /\ keeps(FoldersList) /\ keeps(EntriesList)
      BY <1>1, <2>2, SendsSpares, VaultApart DEF VaultLists
    <3> QED
      BY <1>3, <1>4, <3>1, <3>2
  <2>3. ASSUME NEW d \in Ok("createShare"), Settle(d, [sharesLoading |-> TRUE], {Req("reloadShares", None, d.x)})
        PROVE  VaultFresh'
    <3>1. shared => shares
      BY <2>1, <2>3, ReloadsSubject, VaultListed DEF VaultFresh, Fresh, VaultLists
    <3>2. keeps(CabinetsList) /\ keeps(FoldersList) /\ keeps(EntriesList)
      BY <1>1, <2>1, <2>3, ReloadSpares, VaultApart DEF VaultLists
    <3>3. ui' = [sharesLoading |-> TRUE] ++ ui
      BY <2>3 DEF Settle, SettleShowing
    <3> QED
      BY <1>3, <1>4, <3>1, <3>2, <3>3
  <2>4. ASSUME NEW d \in Ok("reloadShares"),
               Display(d, "fetchShares", [sharesLoading |-> FALSE, creating |-> FALSE], {})
        PROVE  VaultFresh'
    <3>1. Shows("reloadShares", "fetchShares", [sharesLoading |-> FALSE, creating |-> FALSE], {})
      BY <2>4, DisplayShows DEF Ok
    <3> QED
      BY <1>43, <3>1
  <2> QED
    BY <1>7, <1>45, <2>2, <2>3, <2>4 DEF createShare
<1>46. CASE revokeShare
  <2>1. \A L \in VaultLists : Apart(L, {"revokeShare"})
    BY VaultApart
  <2> QED
    BY <1>7, <1>8, <1>10, <1>46, <2>1, NoCells DEF revokeShare
<1>47. CASE Serves(VaultTouches)
  <2>1. spared
    <3> SUFFICES ASSUME NEW L \in VaultLists, NEW p, NEW x
                 PROVE  /\ Asked(T, L, p, x) => WillBeAsked(T, L, p, x)
                        /\ Fresh(T, L, p, x) => WillBeFresh(T, L, p, x)
      OBVIOUS
    <3>1. Reloads(T, L, VaultTouches) /\ L.fn \in DOMAIN shown
      BY <1>1, VaultServe
    <3> QED
      BY <1>47, <3>1, ServesReloads
  <2>2. asked /\ (c = None => cabinets) /\ (c # None => folders) /\ (table => entries) /\ (shared => shares)
    BY <1>4, <2>1 DEF VaultLists
  <2>3. ui' = ui
    BY <1>47, ServesStays
  <2> QED
    BY <1>2, <2>2, <2>3
<1>48. CASE Refuse
  <2>1. lost
    BY <1>1, <1>48, LostNotCalm
  <2>2. ui' = ui
    BY <1>48 DEF Refuse
  <2> QED
    BY <1>2, <2>1, <2>2 DEF WillBeFresh
<1>49. ui.tool \in {"cabinets", "folders", "entries", "reveal", "shares", "drag"}
  BY DEF VaultSound, VaultTool, VaultCabinets, VaultFolders, VaultEntries, VaultReveal, VaultShares, VaultDrag
<1> HIDE DEF T, c, q, e, asked, cabinets, folders, entries, shares, table, shared, keys, keeps, spared, lost
<1>50. VaultToolNext =>
         \/ openCabinet \/ fetchCabinetUsers \/ saveCabinet \/ deleteCabinet \/ closeModal
         \/ startAdding \/ startRenaming \/ createFolder \/ renameFolder \/ deleteFolder
         \/ setEntriesPage \/ deleteEntry \/ openEntry \/ fetchOptions \/ saveEntry
         \/ revealPassword \/ clearReveal \/ secondsUp \/ copyPassword
         \/ (ui.tool = "shares" /\ (openShares \/ closeShares))
         \/ fetchShares \/ createShare \/ revokeShare \/ drag \/ handleDropToFolder
  <2>1. CASE ui.tool = "cabinets"
    BY <2>1 DEF VaultToolNext
  <2>2. CASE ui.tool = "folders"
    BY <2>2 DEF VaultToolNext
  <2>3. CASE ui.tool = "entries"
    BY <2>3 DEF VaultToolNext
  <2>4. CASE ui.tool = "reveal"
    BY <2>4 DEF VaultToolNext
  <2>5. CASE ui.tool = "shares"
    BY <2>5 DEF VaultToolNext
  <2>6. CASE ui.tool = "drag"
    BY <2>6 DEF VaultToolNext
  <2> QED
    BY <1>49, <2>1, <2>2, <2>3, <2>4, <2>5, <2>6
<1> QED
  BY <1>11, <1>12, <1>13, <1>14, <1>15, <1>17, <1>20, <1>21, <1>22, <1>23, <1>24, <1>27, <1>28, <1>29,
     <1>32, <1>33,
     <1>34, <1>35, <1>36, <1>37, <1>38, <1>39, <1>40, <1>41, <1>42, <1>44, <1>45, <1>46, <1>47, <1>48, <1>50
  DEF VaultNext, Serves

---------------------------------------------------------------------------
(* IPRecordsPage.tsx                                                       *)
RecordsAlone == TableCommands \cup {"runScan", "handleQuickCreateSubnet"}
RecordsList ==
    [fn |-> "fetchRecords", reads |-> {"fetchRecords"}, cmds |-> TableCommands, byq |-> TableCommands, byx |-> {},
     maybe |-> {"handleImport", "runCheck"},
     left |-> {<<"runScan", "ok">>, <<"runScan", "same">>, <<"runCheck", "same">>}]
RecordSubnets ==
    [fn |-> "fetchSubnets", reads |-> {"fetchSubnets", "quickFetchSubnets"}, cmds |-> {"handleQuickCreateSubnet"},
     byq |-> {}, byx |-> {}, maybe |-> {}, left |-> {}]
HistoryList ==
    [fn |-> "fetchHistory", reads |-> {"fetchHistory"}, cmds |-> {}, byq |-> {}, byx |-> {}, maybe |-> {},
     left |-> {}]

RecordsFresh ==
    /\ Fresh(RecordsAlone, RecordsList, Query, None) /\ Fresh(RecordsAlone, RecordSubnets, None, None)
    /\ ui.tool = "history" /\ ui.historyRecord # None => Fresh(RecordsAlone, HistoryList, None, ui.historyRecord)
    /\ ui.tool = "check" /\ ui.checkAvailRecord # None => Fresh(RecordsAlone, CheckList, Query,
                   ui.checkAvailRecord)
    /\ ui.tool = "duplicates" /\ ui.duplicatesOpen => Fresh(RecordsAlone, DuplicatesList, None, None)

LEMMA RecordsListed ==
    /\ RecordsList.fn = "fetchRecords" /\ RecordSubnets.fn = "fetchSubnets" /\ HistoryList.fn = "fetchHistory"
    /\ CheckList.fn = "runCheck" /\ DuplicatesList.fn = "fetchDuplicates"
    /\ "fetchRecords" \in RecordsList.reads \ RecordsList.maybe
    /\ {"fetchSubnets", "quickFetchSubnets"} \subseteq RecordSubnets.reads \ RecordSubnets.maybe
    /\ "fetchHistory" \in HistoryList.reads \ HistoryList.maybe
    /\ "runCheck" \in CheckList.reads \ CheckList.maybe
    /\ TableCommands \subseteq ((RecordsList.cmds \ RecordsList.reads) \cap RecordsList.byq) \ RecordsList.byx
    /\ {"handleImport", "runCheck"} \subseteq RecordsList.maybe
    /\ "handleQuickCreateSubnet" \in
           (RecordSubnets.cmds \ RecordSubnets.reads) \ (RecordSubnets.byq \cup RecordSubnets.byx
                       \cup RecordSubnets.maybe)
    /\ \A L \in {RecordsList, RecordSubnets, HistoryList, CheckList, DuplicatesList} : Apart(L, {})
BY DEF RecordsList, RecordSubnets, HistoryList, CheckList, DuplicatesList, Apart, TableCommands

\* What is of one list is apart from the others, but that a check and the
\* commands are of the duplicates too.
LEMMA RecordsApart ==
    /\ \A L \in {RecordSubnets, HistoryList, CheckList, DuplicatesList} : Apart(L, {"fetchRecords"})
    /\ \A L \in {RecordsList, HistoryList, CheckList, DuplicatesList} :
           Apart(L, {"fetchSubnets"}) /\ Apart(L, {"quickFetchSubnets"}) /\ Apart(L, {"handleQuickCreateSubnet"})
    /\ \A L \in {RecordSubnets, HistoryList, CheckList}, fn \in TableCommands \ {"runCheck"} : Apart(L, {fn})
    /\ \A L \in {RecordSubnets, HistoryList} : Apart(L, {"runCheck"})
    /\ \A L \in {RecordsList, RecordSubnets} : Apart(L, {"fetchHistory"})
           /\ Apart(L, {"runScan", "fetchDuplicates"})
    /\ \A L \in {RecordsList, RecordSubnets, HistoryList, CheckList, DuplicatesList} :
           Apart(L, {"handleExport"}) /\ Apart(L, {"handleDownloadTemplate"})
BY DEF RecordsList, RecordSubnets, HistoryList, CheckList, DuplicatesList, Apart, TableCommands

LEMMA RecordsWrite ==
    /\ DOMAIN RecordsTouches = RecordsAlone /\ DOMAIN RecordsMaybe = {"handleImport", "runCheck", "runScan"}
    /\ \A fn \in TableCommands \cup {"runScan"} :
           RecordsTouches[fn] = {"fetchRecords", "fetchDuplicates", "fetchHistory"}
    /\ RecordsTouches["handleQuickCreateSubnet"] = {"fetchSubnets", "quickFetchSubnets"}
    /\ RecordsMaybe["handleImport"] = {} /\ RecordsMaybe["runScan"] = {"fetchRecords", "fetchHistory"}
    /\ RecordsMaybe["runCheck"] = {"fetchRecords", "fetchDuplicates", "fetchHistory"}
BY DEF RecordsTouches, RecordsMaybe, RecordsAlone, TableCommands, ++

LEMMA RecordsServe ==
    \A L \in {RecordsList, RecordSubnets, CheckList} :
        Reloads(RecordsAlone, L, RecordsTouches) /\ Leaves(L, RecordsMaybe)
<1>1. Reloads(RecordsAlone, RecordsList, RecordsTouches)
  BY RecordsWrite DEF Reloads, RecordsAlone, TableCommands, RecordsList
<1>2. Leaves(RecordsList, RecordsMaybe)
  BY RecordsWrite DEF Leaves, TableCommands, RecordsList
<1>3. Reloads(RecordsAlone, RecordSubnets, RecordsTouches)
  BY RecordsWrite DEF Reloads, RecordsAlone, RecordSubnets
<1>4. Leaves(RecordSubnets, RecordsMaybe)
  BY RecordsWrite DEF Leaves, RecordSubnets
<1>5. Reloads(RecordsAlone, CheckList, RecordsTouches)
  BY RecordsWrite DEF Reloads, RecordsAlone, CheckList
<1>6. Leaves(CheckList, RecordsMaybe)
  BY RecordsWrite DEF Leaves, CheckList
<1> QED
  BY <1>1, <1>2, <1>3, <1>4, <1>5, <1>6

\* What is in flight and writes the list loads it again, or leaves it.
RecordsWrites(L) ==
    /\ \A c \in calls, r \in L.reads \cup {L.fn} :
           c.fn \in DOMAIN RecordsTouches /\ r \in RecordsTouches[c.fn] =>
               c.fn \in L.cmds \cap RecordsAlone \/ <<c.fn, "ok">> \in L.left
    /\ \A c \in calls, r \in L.reads \cup {L.fn} :
           c.fn \in DOMAIN RecordsMaybe /\ r \in RecordsMaybe[c.fn] => <<c.fn, "same">> \in L.left
    /\ DOMAIN RecordsMaybe \cap L.cmds \subseteq L.maybe

\* While the history is open nothing changes a record, and while the duplicates
\* are open only the scan.
LEMMA RecordsServeDialog ==
    ASSUME RecordsSound, NEW L,
           (ui.tool = "history" /\ L = HistoryList) \/ (ui.tool = "duplicates" /\ L = DuplicatesList)
    PROVE  RecordsWrites(L)
<1>1. CASE ui.tool = "history" /\ L = HistoryList
  <2>1. \A c \in calls : c.fn \in TableFns \cup {"fetchHistory"}
    BY <1>1 DEF RecordsSound, RecordsTool, RecordsEdit, RecordsBulk, RecordsExport, RecordsImport, RecordsHistory,
       RecordsCheck, RecordsDuplicates, Within, sent, Fns
  <2>2. \A c \in calls : c.fn \notin DOMAIN RecordsTouches /\ c.fn \notin DOMAIN RecordsMaybe
    BY <2>1, RecordsWrite DEF TableFns, RecordsAlone, TableCommands
  <2>3. L.cmds = {}
    BY <1>1 DEF HistoryList
  <2> QED
    BY <2>2, <2>3 DEF RecordsWrites
<1>2. CASE ui.tool = "duplicates" /\ L = DuplicatesList
  <2>1. \A c \in calls : c.fn \in TableFns \cup {"fetchDuplicates", "runScan"}
    BY <1>2 DEF RecordsSound, RecordsTool, RecordsEdit, RecordsBulk, RecordsExport, RecordsImport, RecordsHistory,
       RecordsCheck, RecordsDuplicates, Within, sent, Fns
  <2>2. /\ \A c \in calls : c.fn \in DOMAIN RecordsTouches => c.fn = "runScan"
        /\ \A c \in calls : c.fn \in DOMAIN RecordsMaybe => RecordsMaybe[c.fn] = {"fetchRecords", "fetchHistory"}
    BY <2>1, RecordsWrite DEF TableFns, RecordsAlone, TableCommands
  <2>3. /\ L.reads \cup {L.fn} = {"fetchDuplicates"} /\ DOMAIN RecordsMaybe \cap L.cmds \subseteq L.maybe
        /\ "runScan" \in L.cmds \cap RecordsAlone
    BY <1>2, RecordsWrite DEF DuplicatesList, RecordsAlone
  <2> QED
    BY <2>2, <2>3 DEF RecordsWrites
<1> QED
  BY <1>1, <1>2

\* The cells of the table and of the dialog that is used.
LEMMA RecordsHas ==
    ASSUME RecordsSound
    PROVE  /\ DOMAIN shown = {"fetchSubnets", "fetchRecords", "fetchHistory", "fetchDuplicates", "runCheck"}
           /\ {"tool", "currentPage", "filter", "loading", "open"} \subseteq DOMAIN ui
           /\ ui.tool = "history" => "historyRecord" \in DOMAIN ui
           /\ ui.tool = "check" => "checkAvailRecord" \in DOMAIN ui
           /\ ui.tool = "duplicates" => "duplicatesOpen" \in DOMAIN ui
           /\ \A L \in {RecordsList, RecordSubnets, HistoryList, CheckList,
                        DuplicatesList} : L.fn \in DOMAIN shown
<1>1. RecordsTable /\ RecordsTool
  BY DEF RecordsSound
<1>2. DOMAIN shown = {"fetchSubnets", "fetchRecords", "fetchHistory", "fetchDuplicates", "runCheck"}
  BY <1>1 DEF RecordsTable, Page
<1>3. {"tool", "currentPage", "filter", "loading", "open"} \subseteq DOMAIN ui
  BY <1>1 DEF RecordsTable, Has, TableCells
<1>4. /\ ui.tool = "history" => "historyRecord" \in DOMAIN ui
      /\ ui.tool = "check" => "checkAvailRecord" \in DOMAIN ui
      /\ ui.tool = "duplicates" => "duplicatesOpen" \in DOMAIN ui
  BY <1>1 DEF RecordsTool, RecordsEdit, RecordsBulk, RecordsExport, RecordsImport, RecordsHistory, RecordsCheck,
     RecordsDuplicates, Cells, Has, DuplicatesDialog
<1> QED
  BY <1>2, <1>3, <1>4, RecordsListed

LEMMA RecordsFreshKept ==
    ASSUME HasFn(calls), RecordsSound, RecordsFresh, RecordsNext
    PROVE  RecordsFresh'
<1> DEFINE T == RecordsAlone
           q == Query
           h == ui.historyRecord
           k == ui.checkAvailRecord
           records == WillBeFresh(T, RecordsList, q, None)
           subnets == WillBeFresh(T, RecordSubnets, None, None)
           inHistory == ui.tool = "history" /\ h # None
           inCheck == ui.tool = "check" /\ k # None
           inDuplicates == ui.tool = "duplicates" /\ ui.duplicatesOpen
           history == inHistory => WillBeFresh(T, HistoryList, None, h)
           check == inCheck => WillBeFresh(T, CheckList, q, k)
           duplicates == inDuplicates => WillBeFresh(T, DuplicatesList, None, None)
           lists == {RecordsList, RecordSubnets, HistoryList, CheckList, DuplicatesList}
           keys == {"tool", "currentPage", "filter", "historyRecord", "checkAvailRecord", "duplicatesOpen"}
           spares(L) == \A p, x : Fresh(T, L, p, x) => WillBeFresh(T, L, p, x)
           spared == \A L \in lists : spares(L)
<1>1. /\ Fresh(T, RecordsList, q, None) /\ Asked(T, RecordsList, q, None)
      /\ Fresh(T, RecordSubnets, None, None) /\ Asked(T, RecordSubnets, None, None)
      /\ calm => Steady(T, calls)
      /\ inHistory => Fresh(T, HistoryList, None, h) /\ Asked(T, HistoryList, None, h)
      /\ inCheck => Fresh(T, CheckList, q, k) /\ Asked(T, CheckList, q, k)
      /\ inDuplicates => Fresh(T, DuplicatesList, None, None)
  BY DEF RecordsFresh, Fresh, Asked
<1>2. ASSUME ui'.tool = ui.tool, ui'.currentPage = ui.currentPage, ui'.filter = ui.filter,
             ui.tool = "history" => ui'.historyRecord = h, ui.tool = "check" => ui'.checkAvailRecord = k,
             ui.tool = "duplicates" => ui'.duplicatesOpen = ui.duplicatesOpen,
             records, subnets, history, check, duplicates
      PROVE  RecordsFresh'
  BY <1>2 DEF RecordsFresh, Query, Fresh, Asked, WillBeFresh, WillBeAsked
<1>3. ASSUME NEW cells, keys \cap DOMAIN cells = {}, ui' = cells ++ ui, records, subnets, history,
             check, duplicates
      PROVE  RecordsFresh'
  <2>1. /\ ui'.tool = ui.tool /\ ui'.currentPage = ui.currentPage /\ ui'.filter = ui.filter
        /\ ui.tool = "history" => ui'.historyRecord = h
        /\ ui.tool = "check" => ui'.checkAvailRecord = k
        /\ ui.tool = "duplicates" => ui'.duplicatesOpen = ui.duplicatesOpen
    BY <1>3, RecordsHas DEF ++
  <2> QED
    BY <1>2, <1>3, <2>1
<1>4. /\ spares(RecordsList) => records
      /\ spares(RecordSubnets) => subnets
      /\ spares(HistoryList) => history
      /\ spares(CheckList) => check
      /\ spares(DuplicatesList) => duplicates
  BY <1>1
<1>5. ASSUME NEW cells, keys \cap DOMAIN cells = {}, ui' = cells ++ ui, spared PROVE RecordsFresh'
  BY <1>3, <1>4, <1>5
<1>6. ASSUME NEW cells, keys \cap DOMAIN cells = {}, Act(cells, {}) PROVE RecordsFresh'
  <2>1. spared
    BY <1>6, SetsSpares, RecordsHas
  <2>2. ui' = cells ++ ui
    BY <1>6 DEF Act, ActClearing
  <2> QED
    BY <1>5, <1>6, <2>1, <2>2
<1>7. ASSUME NEW fn, NEW cells, keys \cap DOMAIN cells = {}, Fails(fn, cells) PROVE RecordsFresh'
  <2>1. spared
    BY <1>1, <1>7, LostNotCalm
  <2>2. ui' = cells ++ ui
    BY <1>7 DEF Fails, Settle, SettleShowing
  <2> QED
    BY <1>5, <1>7, <2>1, <2>2
<1>8. ASSUME NEW fn \in {"handleExport", "handleDownloadTemplate"}, NEW p, NEW x, NEW cells,
             keys \cap DOMAIN cells = {}, Act(cells, {Req(fn, p, x)})
      PROVE  RecordsFresh'
  <2>1. \A L \in lists : L.fn \in DOMAIN shown /\ Apart(L, {fn})
    BY RecordsApart, RecordsHas
  <2>2. spared
    BY <1>8, <2>1, SendsSpares
  <2>3. ui' = cells ++ ui
    BY <1>8 DEF Act, ActClearing
  <2> QED
    BY <1>5, <1>8, <2>2, <2>3
<1>9. ASSUME NEW fn \in {"handleExport", "handleDownloadTemplate"}, NEW cells,
             keys \cap DOMAIN cells = {}, Done(fn, cells)
      PROVE  RecordsFresh'
  <2>1. \A L \in lists : Apart(L, {fn})
    BY RecordsApart
  <2>2. spared
    BY <1>9, <2>1, DoneSpares
  <2>3. ui' = cells ++ ui
    BY <1>9 DEF Done, Settle, SettleShowing
  <2> QED
    BY <1>5, <1>9, <2>2, <2>3
<1>10. CASE fetchSubnets
  <2>1. CASE Show("fetchSubnets", <<>>)
    <3>1. subnets /\ ui' = <<>> ++ ui
      <4>1. /\ RecordSubnets.fn = "fetchSubnets" /\ "fetchSubnets" \in RecordSubnets.reads
            /\ "fetchSubnets" \in DOMAIN shown
        BY RecordsListed, RecordsHas
      <4>2. Asked(T, RecordSubnets, None, None)
        BY <1>1
      <4> QED
        BY <2>1, <4>1, <4>2, ShowFresh
    <3>2. \A L \in {RecordsList, HistoryList, CheckList, DuplicatesList} :
              L.fn \in DOMAIN shown /\ L.fn # "fetchSubnets" /\ Apart(L, {"fetchSubnets"})
      BY RecordsApart, RecordsListed, RecordsHas
    <3>3. \A L \in {RecordsList, HistoryList, CheckList, DuplicatesList} : spares(L)
      BY <2>1, <3>2, ShowSpares
    <3> QED
      BY <1>3, <1>4, <3>1, <3>3, NoCells
  <2> QED
    BY <1>7, <1>10, <2>1, NoCells DEF fetchSubnets
<1>11. \A L \in {RecordSubnets, HistoryList, CheckList, DuplicatesList} :
           L.fn \in DOMAIN shown /\ L.fn # "fetchRecords" /\ Apart(L, {"fetchRecords"})
  BY RecordsApart, RecordsListed, RecordsHas
<1>12. ASSUME NEW p, NEW cells, Act(cells, {Req("fetchRecords", p, None)})
       PROVE  /\ WillBeFresh(T, RecordsList, p, None) /\ ui' = cells ++ ui
              /\ subnets /\ history /\ check /\ duplicates
  <2>1. WillBeFresh(T, RecordsList, p, None) /\ ui' = cells ++ ui
    BY <1>12, SendsAsks, RecordsListed
  <2>2. \A L \in {RecordSubnets, HistoryList, CheckList, DuplicatesList} : spares(L)
    BY <1>11, <1>12, SendsSpares
  <2> QED
    BY <1>4, <2>1, <2>2
<1>13. CASE fetchRecords
  <2>1. CASE Act(Loading, FetchRecords(Query))
    <3>1. Act(Loading, {Req("fetchRecords", q, None)}) /\ keys \cap DOMAIN Loading = {}
      BY <2>1 DEF FetchRecords, Loading
    <3> QED
      BY <1>3, <1>12, <3>1
  <2>2. CASE Show("fetchRecords", [loading |-> FALSE])
    <3>1. records /\ ui' = [loading |-> FALSE] ++ ui
      <4>1. /\ RecordsList.fn = "fetchRecords" /\ "fetchRecords" \in RecordsList.reads
            /\ "fetchRecords" \in DOMAIN shown
        BY RecordsListed, RecordsHas
      <4>2. Asked(T, RecordsList, q, None)
        BY <1>1
      <4> QED
        BY <2>2, <4>1, <4>2, ShowFresh
    <3>2. \A L \in {RecordSubnets, HistoryList, CheckList, DuplicatesList} : spares(L)
      BY <1>11, <2>2, ShowSpares
    <3> QED
      BY <1>3, <1>4, <3>1, <3>2
  <2> QED
    BY <1>7, <1>13, <2>1, <2>2 DEF fetchRecords
<1>14. ASSUME AtTable, NEW p, NEW f, NEW cells, Act(cells, {Req("fetchRecords", <<p, f>>, None)}),
              {"tool", "historyRecord", "checkAvailRecord", "duplicatesOpen"} \cap DOMAIN cells = {},
              ui' = cells ++ ui => ui'.currentPage = p /\ ui'.filter = f
       PROVE  RecordsFresh'
  <2>1. /\ WillBeFresh(T, RecordsList, <<p, f>>, None) /\ ui' = cells ++ ui
        /\ subnets /\ history /\ check /\ duplicates
    BY <1>12, <1>14
  <2>2. /\ ui'.tool = ui.tool
        /\ ui.tool = "history" => ui'.historyRecord = h
        /\ ui.tool = "check" => ui'.checkAvailRecord = k
        /\ ui.tool = "duplicates" => ui'.duplicatesOpen = ui.duplicatesOpen
    BY <1>14, <2>1, RecordsHas DEF ++
  <2>3. ui'.currentPage = p /\ ui'.filter = f
    BY <1>14, <2>1
  <2>4. ~inCheck
    BY <1>14, RecordsHas DEF AtTable, Showing
  <2> QED
    BY <2>1, <2>2, <2>3, <2>4 DEF RecordsFresh, Query, Fresh, Asked, WillBeFresh, WillBeAsked
<1>15. CASE handleFilterChange
  <2>1. PICK f : AtTable /\ Act([filter |-> f, currentPage |-> 1] ++ Loading,
                    {Req("fetchRecords", <<1, f>>, None)})
    BY <1>15 DEF handleFilterChange, FetchRecords
  <2> DEFINE cells == [filter |-> f, currentPage |-> 1] ++ Loading
  <2>2. /\ {"tool", "historyRecord", "checkAvailRecord", "duplicatesOpen"} \cap DOMAIN cells = {}
        /\ {"filter", "currentPage"} \subseteq DOMAIN cells /\ cells.filter = f /\ cells.currentPage = 1
    BY DEF Loading, ++
  <2>3. Act(cells, {Req("fetchRecords", <<1, f>>, None)}) /\ AtTable
    BY <2>1
  <2> HIDE DEF cells
  <2>4. ui' = cells ++ ui => ui'.currentPage = 1 /\ ui'.filter = f
    BY <2>2 DEF ++
  <2> QED
    BY <1>14, <2>2, <2>3, <2>4
<1>16. CASE handleTableChange
  <2>1. PICK p : AtTable /\ Act([currentPage |-> p] ++ Loading, {Req("fetchRecords", <<p, ui.filter>>, None)})
    BY <1>16 DEF handleTableChange, FetchRecords
  <2> DEFINE cells == [currentPage |-> p] ++ Loading
  <2>2. /\ {"tool", "historyRecord", "checkAvailRecord", "duplicatesOpen", "filter"} \cap DOMAIN cells = {}
        /\ "currentPage" \in DOMAIN cells /\ cells.currentPage = p
    BY DEF Loading, ++
  <2>3. Act(cells, {Req("fetchRecords", <<p, ui.filter>>, None)}) /\ AtTable
    BY <2>1
  <2> HIDE DEF cells
  <2>4. ui' = cells ++ ui => ui'.currentPage = p /\ ui'.filter = ui.filter
    BY <2>2, RecordsHas DEF ++
  <2> QED
    BY <1>14, <2>2, <2>3, <2>4
<1>17. ui.tool # "duplicates" => duplicates
  OBVIOUS
<1>18. ASSUME ui.tool # "duplicates", NEW fn \in TableCommands \ {"runCheck"}, NEW x, NEW cells,
              keys \cap DOMAIN cells = {}, Act(cells, {Req(fn, q, x)})
       PROVE  RecordsFresh'
  <2>1. fn \in RecordsList.cmds \ RecordsList.reads /\ fn \notin RecordsList.byx
            /\ RecordsList.fn \in DOMAIN shown
    BY RecordsListed, RecordsHas
  <2>2. records /\ ui' = cells ++ ui
    BY <1>1, <1>18, <2>1, SendsCommand
  <2>3. \A L \in {RecordSubnets, HistoryList, CheckList} : L.fn \in DOMAIN shown /\ Apart(L, {fn})
    BY RecordsApart, RecordsHas
  <2>4. \A L \in {RecordSubnets, HistoryList, CheckList} : spares(L)
    BY <1>18, <2>3, SendsSpares
  <2> QED
    BY <1>3, <1>4, <1>17, <1>18, <2>2, <2>4
<1>19. ASSUME ui.tool # "duplicates", NEW fn \in TableCommands \ {"runCheck"}, NEW cells,
              keys \cap DOMAIN cells = {}, ReloadRecords(fn, cells)
       PROVE  RecordsFresh'
  <2>1. PICK c \in Ok(fn) : Settle(c, cells ++ Loading, {Req("fetchRecords", c.q, None)})
    BY <1>19 DEF ReloadRecords, FetchRecords
  <2>2. fn \in T /\ fn \in RecordsList.byq
    BY RecordsListed DEF RecordsAlone
  <2>3. keys \cap DOMAIN (cells ++ Loading) = {}
    BY <1>19 DEF ++, Loading
  <2> HIDE DEF T
  <2>4. records /\ ui' = (cells ++ Loading) ++ ui
    BY <1>1, <2>1, <2>2, ReloadsQuery, RecordsListed
  <2>5. \A L \in {RecordSubnets, HistoryList, CheckList} :
            L.fn \in DOMAIN shown /\ Apart(L, {fn}) /\ Apart(L, {"fetchRecords"})
    BY RecordsApart, RecordsHas
  <2>6. \A L \in {RecordSubnets, HistoryList, CheckList} : spares(L)
    BY <2>1, <2>2, <2>5, ReloadSpares
  <2> QED
    BY <1>3, <1>4, <1>17, <1>19, <2>3, <2>4, <2>6
<1>20. /\ \A d : keys \cap DOMAIN Open(d) = {} /\ keys \cap DOMAIN Shut(d) = {}
       /\ \A cells, d : keys \cap DOMAIN cells = {} => /\ keys \cap DOMAIN (cells ++ Open(d)) = {}
                                                       /\ keys \cap DOMAIN (cells ++ Shut(d)) = {}
  BY DEF Open, Shut, ++

<1>21. CASE ui.tool = "edit" /\ RecordNext
  <2>1. {"handleSubmit", "handleDelete", "handleReserve", "handleRelease"} \subseteq TableCommands \ {"runCheck"}
    BY DEF TableCommands
  <2>2. CASE openCreateOrEdit \/ cancelEdit \/ openQuickSubnet \/ cancelQuickSubnet
    <3>1. ASSUME NEW r, Act([editingRecord |-> r] ++ Open("edit"), {}) PROVE RecordsFresh'
      BY <1>6, <1>20, <3>1
    <3>2. ASSUME NEW d, Act(Open(d), {}) \/ Act(Shut(d), {}) PROVE RecordsFresh'
      BY <1>6, <1>20, <3>2
    <3> QED
      BY <2>2, <3>1, <3>2 DEF openCreateOrEdit, cancelEdit, openQuickSubnet, cancelQuickSubnet
  <2>3. CASE handleSubmit
    <3>1. CASE Act([submitting |-> TRUE], {Req("handleSubmit", Query, ui.editingRecord)})
      BY <1>18, <1>21, <2>1, <3>1
    <3>2. CASE ReloadRecords("handleSubmit", [submitting |-> FALSE] ++ Shut("edit"))
      BY <1>19, <1>20, <1>21, <2>1, <3>2
    <3>3. CASE Fails("handleSubmit", [submitting |-> FALSE])
      BY <1>7, <3>3
    <3>4. CASE Fails("handleSubmit", [submitting |-> FALSE] ++ Open("quick"))
      BY <1>7, <1>20, <3>4
    <3> QED
      BY <2>3, <3>1, <3>2, <3>3, <3>4 DEF handleSubmit
  <2>4. ASSUME NEW fn \in {"handleDelete", "handleReserve", "handleRelease"}, RowCommand(fn) PROVE RecordsFresh'
    <3>1. ASSUME NEW r, Act(<<>>, {Req(fn, Query, r)}) PROVE RecordsFresh'
      BY <1>18, <1>21, <2>1, <3>1, NoCells
    <3>2. ReloadRecords(fn, <<>>) => RecordsFresh'
      BY <1>19, <1>21, <2>1, NoCells
    <3> QED
      BY <1>7, <2>4, <3>1, <3>2, NoCells DEF RowCommand
  <2>5. CASE handleQuickCreateSubnet
    <3> DEFINE others == {RecordsList, HistoryList, CheckList, DuplicatesList}
               cells == [quickSubnetSubmitting |-> FALSE] ++ Shut("quick")
    <3>1. \A L \in others : /\ L.fn \in DOMAIN shown /\ L.fn # "fetchSubnets"
                            /\ Apart(L, {"quickFetchSubnets"}) /\ Apart(L, {"handleQuickCreateSubnet"})
      BY RecordsApart, RecordsListed, RecordsHas
    <3>2. "handleQuickCreateSubnet" \in T
      BY DEF RecordsAlone
    <3>3. keys \cap DOMAIN cells = {}
      BY <1>20
    <3>4. ASSUME \A L \in others : spares(L) PROVE records /\ history /\ check /\ duplicates
      BY <1>4, <3>4
    <3> HIDE DEF T, cells
    <3>5. CASE Act([quickSubnetSubmitting |-> TRUE], {Req("handleQuickCreateSubnet", None, None)})
      <4>1. subnets /\ ui' = [quickSubnetSubmitting |-> TRUE] ++ ui
        BY <3>5, SendsCommand, RecordsListed
      <4>2. \A L \in others : spares(L)
        BY <3>1, <3>5, SendsSpares
      <4> QED
        BY <1>3, <3>4, <4>1, <4>2
    <3>6. ASSUME NEW c \in Ok("handleQuickCreateSubnet"), Settle(c, <<>>, {Req("quickFetchSubnets", None, None)})
          PROVE  RecordsFresh'
      <4>1. subnets /\ ui' = <<>> ++ ui
        BY <1>1, <3>2, <3>6, ReloadsAs, RecordsListed
      <4>2. \A L \in others : spares(L)
        BY <3>1, <3>2, <3>6, ReloadSpares
      <4> QED
        BY <1>3, <3>4, <4>1, <4>2, NoCells
    <3>7. ASSUME NEW c \in Ok("quickFetchSubnets"), Display(c, "fetchSubnets", cells, {}) PROVE RecordsFresh'
      <4>1. Shows("quickFetchSubnets", "fetchSubnets", cells, {})
        BY <3>7, DisplayShows DEF Ok
      <4>5. /\ Shows("quickFetchSubnets", RecordSubnets.fn, cells, {})
            /\ "quickFetchSubnets" \in RecordSubnets.reads /\ RecordSubnets.fn \in DOMAIN shown
        BY <4>1, RecordsListed, RecordsHas
      <4>2. subnets
        BY <1>1, <4>5, ShowsFresh
      <4>3. \A L \in others : spares(L)
        BY <3>1, <4>1, ShowsSpares
      <4>4. ui' = cells ++ ui
        BY <4>1 DEF Shows
      <4> QED
        BY <1>3, <3>3, <3>4, <4>2, <4>3, <4>4
    <3>8. CASE Fails("quickFetchSubnets", cells)
              \/ Fails("handleQuickCreateSubnet", [quickSubnetSubmitting |-> FALSE])
      BY <1>7, <3>3, <3>8
    <3> QED
      BY <2>5, <3>5, <3>6, <3>7, <3>8 DEF handleQuickCreateSubnet, cells
  <2> QED
    BY <1>21, <2>2, <2>3, <2>4, <2>5 DEF RecordNext, handleDelete, handleReserve, handleRelease
<1>22. CASE ui.tool = "bulk" /\ BulkNext
  <2>1. {"handleBulkReserve", "handleBulkRelease", "handleBulkUpdate"} \subseteq TableCommands \ {"runCheck"}
    BY DEF TableCommands
  <2>2. CASE rowSelection \/ openBulk \/ cancelBulk
    <3>1. ASSUME NEW r, Act([selectedRowKeys |-> r], {}) PROVE RecordsFresh'
      BY <1>6, <3>1
    <3>2. ASSUME NEW d, Act(Open(d), {}) \/ Act(Shut(d), {}) PROVE RecordsFresh'
      BY <1>6, <1>20, <3>2
    <3> QED
      BY <2>2, <3>1, <3>2 DEF rowSelection, openBulk, cancelBulk
  <2>3. ASSUME NEW fn \in {"handleBulkReserve", "handleBulkRelease"}, BulkCommand(fn) PROVE RecordsFresh'
    <3>1. Act(<<>>, {Req(fn, Query, ui.selectedRowKeys)}) => RecordsFresh'
      BY <1>18, <1>22, <2>1, NoCells
    <3>2. ReloadRecords(fn, [selectedRowKeys |-> {}]) => RecordsFresh'
      BY <1>19, <1>22, <2>1
    <3> QED
      BY <1>7, <2>3, <3>1, <3>2, NoCells DEF BulkCommand
  <2>4. CASE handleBulkUpdate
    <3>1. CASE Act([bulkSubmitting |-> TRUE], {Req("handleBulkUpdate", Query, ui.selectedRowKeys)})
      BY <1>18, <1>22, <2>1, <3>1
    <3>2. CASE ReloadRecords("handleBulkUpdate",
                      [bulkSubmitting |-> FALSE, selectedRowKeys |-> {}] ++ Shut("bulk"))
      BY <1>19, <1>20, <1>22, <2>1, <3>2
    <3> QED
      BY <1>7, <2>4, <3>1, <3>2 DEF handleBulkUpdate
  <2> QED
    BY <1>22, <2>2, <2>3, <2>4 DEF BulkNext, handleBulkReserve, handleBulkRelease
<1>23. CASE openExport \/ closeExport \/ setExportFilter \/ handleExport
  <2>1. CASE openExport \/ closeExport \/ setExportFilter
    BY <1>6, <1>20, <2>1 DEF openExport, closeExport, setExportFilter
  <2>2. CASE Done("handleExport", [exporting |-> FALSE] ++ Shut("export"))
    BY <1>9, <1>20, <2>2
  <2> QED
    BY <1>7, <1>8, <1>23, <2>1, <2>2 DEF handleExport
<1>24. CASE ui.tool = "import"
           /\ (openImport \/ closeImport \/ handleDownloadTemplate \/ chooseFile \/ handleImport)
  <2>1. "handleImport" \in TableCommands \ {"runCheck"}
    BY DEF TableCommands
  <2>2. CASE openImport \/ closeImport \/ chooseFile
    BY <1>6, <1>20, <2>2 DEF openImport, closeImport, chooseFile
  <2>3. CASE handleDownloadTemplate
    BY <1>7, <1>8, <1>9, <2>3 DEF handleDownloadTemplate
  <2>4. CASE handleImport
    <3>1. CASE Act([importing |-> TRUE], {Req("handleImport", Query, None)})
      BY <1>18, <1>24, <2>1, <3>1
    <3>2. CASE ReloadRecords("handleImport", [importing |-> FALSE, result |-> TRUE])
      BY <1>19, <1>24, <2>1, <3>2
    <3>3. ASSUME NEW c \in Same("handleImport"), Settle(c, [importing |-> FALSE, result |-> TRUE], {})
          PROVE  RecordsFresh'
      <4>1. records /\ ui' = [importing |-> FALSE, result |-> TRUE] ++ ui
        BY <1>1, <3>3, SameFresh, RecordsListed
      <4>2. \A L \in {RecordSubnets, HistoryList, CheckList} : Apart(L, {"handleImport"})
        BY <2>1, RecordsApart
      <4>3. \A L \in {RecordSubnets, HistoryList, CheckList} : spares(L)
        BY <3>3, <4>2, SameSpares
      <4> QED
        BY <1>3, <1>4, <1>17, <1>24, <4>1, <4>3
    <3> QED
      BY <1>7, <2>4, <3>1, <3>2, <3>3 DEF handleImport
  <2> QED
    BY <1>24, <2>2, <2>3, <2>4
<1>25. CASE ui.tool = "history" /\ (openHistory \/ closeHistory \/ fetchHistory)
  <2>1. \A L \in {RecordsList, RecordSubnets} :
            L.fn \in DOMAIN shown \ {"fetchHistory"} /\ L.fn # "fetchHistory" /\ Apart(L, {"fetchHistory"})
    BY RecordsApart, RecordsListed, RecordsHas
  <2>2. ASSUME NEW r, NEW cells, \A L \in {RecordsList, RecordSubnets} : spares(L), ui' = cells ++ ui,
               {"tool", "currentPage", "filter"} \cap DOMAIN cells = {}, "historyRecord" \in DOMAIN cells,
               cells.historyRecord = r, r # None => WillBeFresh(T, HistoryList, None, r)
        PROVE  RecordsFresh'
    <3>1. /\ ui'.tool = ui.tool /\ ui'.currentPage = ui.currentPage /\ ui'.filter = ui.filter
          /\ ui'.historyRecord = r
      BY <2>2, RecordsHas DEF ++
    <3>2. records /\ subnets
      BY <1>4, <2>2
    <3> QED
      BY <1>25, <2>2, <3>1, <3>2 DEF RecordsFresh, Query, Fresh, Asked, WillBeFresh, WillBeAsked
  <2>3. CASE openHistory
    <3>1. PICK r : Act([historyRecord |-> r, historyLoading |-> TRUE], {Req("fetchHistory", None, r)})
      BY <2>3 DEF openHistory
    <3>2. /\ WillBeFresh(T, HistoryList, None, r)
          /\ ui' = [historyRecord |-> r, historyLoading |-> TRUE] ++ ui
      BY <3>1, SendsAsks, RecordsListed
    <3>3. \A L \in {RecordsList, RecordSubnets} : spares(L)
      BY <2>1, <3>1, SendsSpares
    <3> QED
      BY <2>2, <3>2, <3>3
  <2>4. CASE closeHistory
    <3>1. ActClearing({"fetchHistory"}, [historyRecord |-> None], {})
      BY <2>4 DEF closeHistory
    <3>2. \A L \in {RecordsList, RecordSubnets} : spares(L)
      BY <2>1, <3>1, ClearSetsSpares
    <3>3. ui' = [historyRecord |-> None] ++ ui
      BY <3>1 DEF ActClearing
    <3> QED
      BY <2>2, <3>2, <3>3
  <2>5. CASE Show("fetchHistory", [historyLoading |-> FALSE])
    <3>1. history
      BY <1>1, <2>5, ShowFresh, RecordsListed, RecordsHas
    <3>2. \A L \in {RecordsList, RecordSubnets} : spares(L)
      BY <2>1, <2>5, ShowSpares
    <3>3. ui' = [historyLoading |-> FALSE] ++ ui
      BY <2>5, ShowShows DEF Shows
    <3> QED
      BY <1>3, <1>4, <1>25, <3>1, <3>2, <3>3
  <2> QED
    BY <1>7, <1>25, <2>3, <2>4, <2>5 DEF fetchHistory
<1>26. CASE ui.tool = "check" /\ (checkRecord \/ CheckNext(Loading, "fetchRecords"))
  <2>1. /\ {"fetchRecords", "fetchSubnets"} \subseteq DOMAIN shown \ {"runCheck"}
        /\ "runCheck" \in (RecordsList.cmds \ RecordsList.reads) \cap RecordsList.byq
               /\ "runCheck" \notin RecordsList.byx
        /\ "runCheck" \in RecordsList.maybe /\ "runCheck" \in T
        /\ Apart(RecordSubnets, {}) /\ Apart(RecordsList, {}) /\ Apart(RecordSubnets, {"runCheck"})
        /\ Apart(RecordSubnets, {"fetchRecords"}) /\ Apart(CheckList, {"fetchRecords"})
    BY RecordsApart, RecordsListed, RecordsHas DEF TableCommands, RecordsAlone
  <2>2. ASSUME NEW r, NEW cells, records, subnets, ui' = cells ++ ui,
               {"tool", "currentPage", "filter"} \cap DOMAIN cells = {}, "checkAvailRecord" \in DOMAIN cells,
               cells.checkAvailRecord = r, r # None => WillBeFresh(T, CheckList, q, r)
        PROVE  RecordsFresh'
    <3>1. /\ ui'.tool = ui.tool /\ ui'.currentPage = ui.currentPage /\ ui'.filter = ui.filter
          /\ ui'.checkAvailRecord = r
      BY <2>2, RecordsHas DEF ++
    <3> QED
      BY <1>26, <2>2, <3>1 DEF RecordsFresh, Query, Fresh, Asked, WillBeFresh, WillBeAsked
  <2> HIDE DEF T
  <2>3. CASE checkRecord
    <3>1. PICK r : ActClearing({"runCheck"}, [checkAvailRecord |-> r, running |-> TRUE], {Req("runCheck", q, r)})
      BY <2>3 DEF checkRecord, openCheck
    <3> DEFINE cells == [checkAvailRecord |-> r, running |-> TRUE]
    <3>2. Renews({}, {"runCheck"}, cells, {Req("runCheck", q, r)})
      BY <3>1, ClickRenews, ReqFields
    <3>3. ui' = cells ++ ui
      BY <3>2 DEF Renews
    <3>4. WillBeFresh(T, CheckList, q, r)
      BY <3>2, RenewAsksOne, RecordsListed
    <3>5. records
      <4>1. RecordsList.fn \in DOMAIN shown \ {"runCheck"}
        BY <2>1, RecordsListed
      <4> QED
        BY <1>1, <2>1, <3>2, <4>1, RenewCommands
    <3>6. subnets
      <4>1. RecordSubnets.fn \in DOMAIN shown \ {"runCheck"}
        BY <2>1, RecordsListed
      <4> QED
        BY <1>1, <2>1, <3>2, <4>1, RenewSparesOne
    <3> QED
      BY <2>2, <3>3, <3>4, <3>5, <3>6
  <2>4. CASE closeCheck
    <3>1. AbortClearing({}, {"runCheck"}, [checkAvailRecord |-> None, running |-> FALSE], {})
      BY <2>4 DEF closeCheck, Abort
    <3>2. records /\ subnets /\ ui' = [checkAvailRecord |-> None, running |-> FALSE] ++ ui
      BY <1>1, <3>1, AbortSetsSpares, RecordsHas
    <3> QED
      BY <2>2, <3>2
  <2>5. ASSUME NEW c \in Ok("runCheck"),
               Display(c, "runCheck", [running |-> FALSE] ++ Loading, {Req("fetchRecords", c.q, None)})
        PROVE  RecordsFresh'
    <3> DEFINE cells == [running |-> FALSE] ++ Loading
    <3>1. keys \cap DOMAIN cells = {}
      BY DEF Loading, ++
    <3>2. Display(c, "runCheck", cells, {Req("fetchRecords", c.q, None)})
      BY <2>5
    <3> HIDE DEF cells
    <3>3. Shows("runCheck", "runCheck", cells, {Req("fetchRecords", c.q, None)})
      BY <3>2, DisplayShows DEF Ok
    <3>4. Renews({"runCheck"}, {"runCheck"}, cells, {Req("fetchRecords", c.q, None)})
      BY <1>1, <2>1, <3>3, AloneShows, ReqFields
    <3>5. ui' = cells ++ ui /\ (calm' => calm)
      BY <3>4 DEF Renews
    <3>6. calm => c.q = q
      BY <1>1, <2>1 DEF Asked, InOrder, Ok
    <3>7. records
      <4>1. calm => records
        BY <3>4, <3>6, RenewAsksOne, RecordsListed
      <4>2. ~calm => records
        BY <3>5 DEF WillBeFresh, WillBeAsked
      <4> QED
        BY <4>1, <4>2
    <3>8. subnets
      <4>1. RecordSubnets.fn \in DOMAIN shown \ {"runCheck"}
        BY <2>1, RecordsListed
      <4> QED
        BY <1>1, <2>1, <3>4, <4>1, RenewSparesOne
    <3>9. check
      <4>1. /\ "runCheck" \in CheckList.reads \cap T /\ CheckList.fn = "runCheck" /\ "runCheck" \in DOMAIN shown
        BY <2>1, RecordsListed, RecordsHas
      <4>2. ASSUME inCheck PROVE WillBeFresh(T, CheckList, q, k)
        BY <1>1, <2>1, <3>2, <4>1, <4>2, ShowsAlone
      <4> QED
        BY <4>2
    <3> QED
      BY <1>3, <1>26, <3>1, <3>5, <3>7, <3>8, <3>9
  <2>6. ASSUME NEW c \in Same("runCheck"), Display(c, "runCheck", [running |-> FALSE], {}) PROVE RecordsFresh'
    <3>1. Shows("runCheck", "runCheck", [running |-> FALSE], {})
      BY <2>6, DisplayShows DEF Same
    <3>2. ui' = [running |-> FALSE] ++ ui
      BY <3>1 DEF Shows
    <3>3. records
      BY <1>1, <2>1, <2>6, ShowsSame, RecordsListed, RecordsHas
    <3>4. subnets
      BY <1>1, <2>1, <3>1, ShowsSpares, RecordsListed, RecordsHas
    <3>5. check
      <4>1. /\ Shows("runCheck", CheckList.fn, [running |-> FALSE], {})
            /\ "runCheck" \in CheckList.reads /\ CheckList.fn \in DOMAIN shown
        BY <3>1, RecordsListed, RecordsHas
      <4> QED
        BY <1>1, <4>1, ShowsFresh
    <3> QED
      BY <1>3, <1>26, <3>2, <3>3, <3>4, <3>5
  <2> QED
    BY <1>7, <1>26, <2>3, <2>4, <2>5, <2>6 DEF CheckNext, runCheck
<1>27. CASE ui.tool = "duplicates" /\ ((AtTable /\ openDuplicates) \/ DuplicatesNext)
  <2>1. openDuplicates \/ DuplicatesNext
    BY <1>27
  <2>2. Has(DuplicatesDialog) /\ Turns("duplicatesLoading", {"fetchDuplicates"})
            /\ "fetchDuplicates" \in DOMAIN shown
    BY <1>27, RecordsHas DEF RecordsSound, RecordsTool, RecordsEdit, RecordsBulk, RecordsExport, RecordsImport,
       RecordsHistory, RecordsCheck, RecordsDuplicates, Cells, Has
  <2>3. Beside(DuplicatesDialog, {"fetchDuplicates", "runScan"})
    BY <2>1, <2>2, DuplicatesKept
  <2>4. ui'.tool = ui.tool /\ ui'.currentPage = ui.currentPage /\ ui'.filter = ui.filter
    BY <2>3, RecordsHas DEF Beside, DuplicatesDialog
  <2>5. "runScan" \in T
    BY DEF RecordsAlone
  <2> HIDE DEF T
  <2>6. ui'.duplicatesOpen => WillBeFresh(T, DuplicatesList, None, None)
    BY <1>1, <1>27, <2>1, <2>2, <2>5, DuplicatesFresh
  <2>7. \A L \in {RecordsList, RecordSubnets} :
            Apart(L, {"runScan", "fetchDuplicates"}) /\ L.fn \in DOMAIN shown \ {"fetchDuplicates"}
    BY RecordsApart, RecordsListed, RecordsHas
  <2>8. records /\ subnets
    BY <1>1, <2>1, <2>5, <2>7, DuplicatesSpares
  <2> QED
    BY <1>27, <2>4, <2>6, <2>8 DEF RecordsFresh, Query, Fresh, Asked, WillBeFresh, WillBeAsked, T
<1>28. CASE RecordsToolNext
  <2>1. ui.tool \in {"edit", "bulk", "export", "import", "history", "check", "duplicates"}
    BY DEF RecordsSound, RecordsTool, RecordsEdit, RecordsBulk, RecordsExport, RecordsImport, RecordsHistory,
       RecordsCheck, RecordsDuplicates
  <2>2. CASE ui.tool = "edit"
    BY <1>21, <1>28, <2>2 DEF RecordsToolNext
  <2>3. CASE ui.tool = "bulk"
    BY <1>22, <1>28, <2>3 DEF RecordsToolNext
  <2>4. CASE ui.tool = "export"
    BY <1>23, <1>28, <2>4 DEF RecordsToolNext
  <2>5. CASE ui.tool = "import"
    BY <1>24, <1>28, <2>5 DEF RecordsToolNext
  <2>6. CASE ui.tool = "history"
    BY <1>25, <1>28, <2>6 DEF RecordsToolNext
  <2>7. CASE ui.tool = "check"
    BY <1>26, <1>28, <2>7 DEF RecordsToolNext
  <2>8. CASE ui.tool = "duplicates"
    BY <1>27, <1>28, <2>8 DEF RecordsToolNext
  <2> QED
    BY <2>1, <2>2, <2>3, <2>4, <2>5, <2>6, <2>7, <2>8
<1>29. CASE Serve(RecordsTouches, RecordsMaybe)
  <2>1. \A L \in {RecordsList, RecordSubnets, CheckList} : spares(L)
    <3> SUFFICES ASSUME NEW L \in {RecordsList, RecordSubnets, CheckList} PROVE spares(L)
      OBVIOUS
    <3>1. Reloads(T, L, RecordsTouches) /\ Leaves(L, RecordsMaybe) /\ L.fn \in DOMAIN shown
      BY RecordsServe, RecordsHas
    <3> QED
      BY <1>29, <3>1, ServeReloads
  <2>2. history
    <3> SUFFICES ASSUME inHistory, NEW L, L = HistoryList PROVE spares(L)
      BY <1>4
    <3>1. /\ L.fn \in DOMAIN shown
          /\ (ui.tool = "history" /\ L = HistoryList) \/ (ui.tool = "duplicates" /\ L = DuplicatesList)
      BY RecordsHas
    <3>2. RecordsWrites(L)
      BY <3>1, RecordsServeDialog
    <3> QED
      BY <1>29, <3>1, <3>2, ServeKeeps DEF RecordsWrites
  <2>3. duplicates
    <3> SUFFICES ASSUME inDuplicates, NEW L, L = DuplicatesList PROVE spares(L)
      BY <1>4
    <3>1. /\ L.fn \in DOMAIN shown
          /\ (ui.tool = "history" /\ L = HistoryList) \/ (ui.tool = "duplicates" /\ L = DuplicatesList)
      BY RecordsHas
    <3>2. RecordsWrites(L)
      BY <3>1, RecordsServeDialog
    <3> QED
      BY <1>29, <3>1, <3>2, ServeKeeps DEF RecordsWrites
  <2>4. ui' = ui
    BY <1>29 DEF Serve
  <2> QED
    BY <1>2, <1>4, <2>1, <2>2, <2>3, <2>4
<1>30. CASE Refuse
  <2>1. spared /\ ui' = ui
    BY <1>1, <1>30, LostNotCalm DEF Refuse
  <2> QED
    BY <1>2, <1>4, <2>1
<1> QED
  BY <1>10, <1>13, <1>15, <1>16, <1>28, <1>29, <1>30 DEF RecordsNext, TableNext

---------------------------------------------------------------------------
(* The first render of each page asks for its lists.                       *)
AsksFor(L, q, x, r) == r.fn \in L.reads /\ r.fn \notin L.byq \cup L.byx \cup L.maybe /\ r.q = q /\ r.x = x

LEMMA MountFresh ==
    ASSUME NEW T, NEW L, NEW q, NEW x, NEW cells, NEW R, NEW reads, Mount(cells, R, reads), Simple(T, R),
           \A r \in R : Apart(L, {r.fn}) \/ AsksFor(L, q, x, r)
    PROVE  Asked(T, L, q, x) /\ ((\E r \in R : AsksFor(L, q, x, r)) => Fresh(T, L, q, x))
<1>1. Asking(R, calls)
  BY NewAsking DEF Mount, Simple
<1>2. Steady(T, calls)
  <2> SUFFICES ASSUME NEW c \in calls
               PROVE  /\ Fields \subseteq DOMAIN c /\ c.st \in {"sent", "ok", "same"}
                      /\ c.fn \in T => calls = {c}
    BY DEF Steady
  <2>1. PICK r \in R : Asks1(c, r)
    BY <1>1 DEF Asking
  <2>2. ASSUME c.fn \in T PROVE calls = {c}
    <3>1. \E s : R = {s}
      BY <2>1, <2>2 DEF Simple, Asks1
    <3>2. \E n : calls = {n}
      BY <1>1, <3>1 DEF Asking
    <3> QED
      BY <3>2
  <2> QED
    BY <1>1, <2>2 DEF Asking
<1>3. InOrder(L, q, x, calls, shown)
  <2> SUFFICES ASSUME NEW c \in calls
               PROVE  /\ c.fn \in L.reads => c.q = q /\ c.x = x /\ c.st = "sent"
                      /\ (c.fn \in L.byq => c.q = q) /\ (c.fn \in L.byx => c.x = x)
                      /\ c.fn \in L.maybe /\ c.st # "ok" => Good(L, q, x, shown)
    BY DEF InOrder
  <2>1. PICK r \in R : Asks1(c, r) /\ c.st = "sent"
    BY <1>1 DEF Asking
  <2> QED
    BY <2>1 DEF Asks1, Apart, AsksFor
<1>4. ASSUME NEW r \in R, AsksFor(L, q, x, r) PROVE Due(L, q, x, calls, shown)
  <2>1. PICK c \in calls : Asks1(c, r)
    BY <1>1 DEF Asking
  <2> QED
    BY <1>4, <2>1 DEF Asks1, AsksFor, Due
<1> QED
  BY <1>2, <1>3, <1>4 DEF Asked, Fresh

\* With one request,
LEMMA MountOne ==
    ASSUME NEW T, NEW L, NEW q, NEW x, NEW cells, NEW fn, NEW p, NEW y, NEW reads,
           Mount(cells, {Req(fn, p, y)}, reads)
    PROVE  /\ AsksFor(L, q, x, Req(fn, p, y)) => Fresh(T, L, q, x)
           /\ Apart(L, {fn}) => Asked(T, L, q, x)
<1> DEFINE R == {Req(fn, p, y)}
<1>1. Simple(T, R) /\ \A r \in R : r = Req(fn, p, y) /\ r.fn = fn
  BY OneReq, ReqFields
<1>2. Req(fn, p, y) \in R
  OBVIOUS
<1> HIDE DEF R
<1>3. Mount(cells, R, reads)
  BY DEF R
<1>4. ASSUME AsksFor(L, q, x, Req(fn, p, y)) PROVE Fresh(T, L, q, x)
  <2>1. \A r \in R : AsksFor(L, q, x, r)
    BY <1>1, <1>4
  <2>2. (\A r \in R : Apart(L, {r.fn}) \/ AsksFor(L, q, x, r)) /\ \E r \in R : AsksFor(L, q, x, r)
    BY <1>2, <2>1
  <2> QED
    BY <1>1, <1>3, <2>2, MountFresh
<1>5. ASSUME Apart(L, {fn}) PROVE Asked(T, L, q, x)
  <2>1. \A r \in R : Apart(L, {r.fn})
    BY <1>1, <1>5
  <2> QED
    BY <1>1, <1>3, <2>1, MountFresh
<1> QED
  BY <1>4, <1>5

\* and with two, neither of them of T: one for the list, and one that may be.
LEMMA MountTwo ==
    ASSUME NEW T, NEW L, NEW q, NEW x, NEW cells, NEW fn, NEW p, NEW y, NEW gn, NEW s, NEW z, NEW reads,
           Mount(cells, {Req(fn, p, y), Req(gn, s, z)}, reads), fn \notin T, gn \notin T
    PROVE  /\ AsksFor(L, q, x, Req(fn, p, y)) /\ Apart(L, {gn}) => Fresh(T, L, q, x)
           /\ AsksFor(L, q, x, Req(gn, s, z)) /\ Apart(L, {fn}) => Fresh(T, L, q, x)
           /\ Apart(L, {fn}) /\ Apart(L, {gn}) => Asked(T, L, q, x)
<1> DEFINE R == {Req(fn, p, y), Req(gn, s, z)}
<1>1. Simple(T, R)
  BY DEF Simple, Reqs, Req
<1>2. /\ \A r \in R : r = Req(fn, p, y) \/ r = Req(gn, s, z)
      /\ Req(fn, p, y) \in R /\ Req(gn, s, z) \in R
      /\ Req(fn, p, y).fn = fn /\ Req(gn, s, z).fn = gn
  BY DEF Req
<1> HIDE DEF R
<1>3. Mount(cells, R, reads)
  BY DEF R
<1>4. (\A r \in R : Apart(L, {r.fn}) \/ AsksFor(L, q, x, r)) =>
          Asked(T, L, q, x) /\ ((\E r \in R : AsksFor(L, q, x, r)) => Fresh(T, L, q, x))
  BY <1>1, <1>3, MountFresh
<1> QED
  BY <1>2, <1>4

LEMMA UsersStart == ASSUME UsersPage PROVE UsersFresh
<1>1. ui.currentPage = 1
  BY DEF UsersPage, Mount
<1>2. AsksFor(UsersList, 1, None, Req("fetchUsers", 1, None))
  BY DEF AsksFor, Req, UsersList, UserListCommands
<1>3. Fresh(UsersAlone, UsersList, 1, None)
  BY <1>2, MountOne DEF UsersPage
<1> QED
  BY <1>1, <1>3 DEF UsersFresh

LEMMA PendingStart == ASSUME PendingApprovalsPage PROVE PendingFresh
<1>1. ui.currentPage = 1
  BY DEF PendingApprovalsPage, Mount
<1>2. AsksFor(PendingList, 1, None, Req("fetchPending", 1, None))
  BY DEF AsksFor, Req, PendingList, PendingCommands
<1>3. Fresh(UsersAlone, PendingList, 1, None)
  BY <1>2, MountOne DEF PendingApprovalsPage
<1> QED
  BY <1>1, <1>3 DEF PendingFresh

LEMMA AuditLogStart == ASSUME AuditLogPage PROVE AuditLogFresh
<1>1. buildFilters = <<1, "all">>
  BY DEF AuditLogPage, Mount, buildFilters
<1>2. AsksFor(LogList, <<1, "all">>, None, Req("fetchLogs", <<1, "all">>, None))
  BY DEF AsksFor, Req, LogList
<1>3. Fresh(UsersAlone, LogList, <<1, "all">>, None)
  BY <1>2, MountOne DEF AuditLogPage
<1> QED
  BY <1>1, <1>3 DEF AuditLogFresh

LEMMA IntegrationsStart == ASSUME Integrations PROVE IntegrationsFresh
<1>1. PICK s \in Sources :
        Mount([page |-> "IntegrationsPage", source |-> s, open |-> FALSE, connectLoading |-> FALSE,
               importLoading |-> FALSE] ++ Closed,
              {Req("fetchSubnets", 1, None)}, {"handleConnect"})
  BY DEF Integrations
<1>2. ui.step = "connect"
  BY <1>1 DEF Mount, Closed, ++
<1>3. Apart(ConnectList, {"fetchSubnets"})
  BY DEF Apart, ConnectList
<1>4. Asked({}, ConnectList, None, ui.source)
  BY <1>1, <1>3, MountOne
<1> QED
  BY <1>2, <1>4 DEF IntegrationsFresh

LEMMA FilesStart == ASSUME FilesPage PROVE FilesFresh
<1>1. PICK t \in DOMAIN FileTools :
        Mount([page |-> "FilesPage", tool |-> t, pageNum |-> 1, search |-> "all", loading |-> TRUE,
               pending |-> FALSE] ++ FileTools[t],
              {Req("fetchFiles", <<1, "all">>, None)},
              {"fetchFiles", "fetchFileShares"})
  BY DEF FilesPage, FetchFiles
<1>2. ui.tool = t /\ ui.pageNum = 1 /\ ui.search = "all"
  BY <1>1 DEF Mount, FileTools, ++
<1>3. t = "share" => ui.shareTarget = None
  BY <1>1 DEF Mount, FileTools, ++
<1>4. \A L \in {TableOfFiles, PendingFiles} :
          AsksFor(L, <<1, "all">>, None, Req("fetchFiles", <<1, "all">>, None))
  BY DEF AsksFor, Req, TableOfFiles, PendingFiles
<1>5. \A L \in {TableOfFiles, PendingFiles} : Fresh(FilesAlone, L, <<1, "all">>, None)
  BY <1>1, <1>4, MountOne
<1>6. \A L \in {TableOfFiles, PendingFiles} : Fresh(FilesAlone, L, <<ui.pageNum, ui.search>>, None)
  BY <1>2, <1>5
<1> QED
  BY <1>2, <1>3, <1>6 DEF FilesFresh, Fresh

LEMMA SubnetsStart == ASSUME Subnets PROVE SubnetsFresh
<1>1. PICK t \in DOMAIN SubnetsTools :
        Mount([page |-> "SubnetsPage", tool |-> t, filter |-> "all", loading |-> TRUE] ++ SubnetsTools[t],
              {Req("fetchVrfs", None, None), Req("fetchTree", "all", None)},
              {"fetchTree", "fetchRanges", "conflictScan"})
  BY DEF Subnets
<1>2. ui.tool = t /\ ui.filter = "all" /\ (t = "drawer" => ui.drawerSubnet = None)
  BY <1>1 DEF Mount, SubnetsTools, ++
<1>3. AsksFor(TreeList, "all", None, Req("fetchTree", "all", None)) /\ Apart(TreeList, {"fetchVrfs"})
  BY DEF AsksFor, Req, Apart, TreeList, TreeCommands
<1>4. "fetchVrfs" \notin SubnetsAlone /\ "fetchTree" \notin SubnetsAlone
  BY DEF SubnetsAlone, TreeCommands, RangeCommands
<1>5. Fresh(SubnetsAlone, TreeList, "all", None)
  BY <1>1, <1>3, <1>4, MountTwo
<1> QED
  BY <1>2, <1>5 DEF SubnetsFresh

LEMMA DashboardStart == ASSUME Dashboard PROVE DashboardFresh
<1>1. PICK t \in DOMAIN DashboardTools :
        Mount(([page |-> "DashboardPage", tool |-> t, stats |-> FALSE] ++ Loading) ++ DashboardTools[t],
              {Req("fetchStats", None, None), Req("fetchDigest", None, None)},
              {"fetchStats", "fetchDigest", "fetchDuplicates"})
  <2>1. FetchStats \cup {Req("fetchDigest", None, None)}
            = {Req("fetchStats", None, None), Req("fetchDigest", None, None)}
    BY DEF FetchStats
  <2> QED
    BY <2>1 DEF Dashboard
<1>2. ui = ([page |-> "DashboardPage", tool |-> t, stats |-> FALSE] ++ Loading) ++ DashboardTools[t]
  BY <1>1 DEF Mount
<1>3. /\ "fetchStats" \notin DashboardAlone /\ "fetchDigest" \notin DashboardAlone
      /\ AsksFor(DigestList, None, None, Req("fetchDigest", None, None)) /\ Apart(DigestList, {"fetchStats"})
      /\ AsksFor(StatsList, None, None, Req("fetchStats", None, None)) /\ Apart(StatsList, {"fetchDigest"})
      /\ AsksFor(StatsBehind, None, None, Req("fetchStats", None, None)) /\ Apart(StatsBehind, {"fetchDigest"})
  BY DEF DashboardAlone, AsksFor, Req, Apart, DigestList, StatsList, StatsBehind
<1>4. Fresh(DashboardAlone, DigestList, None, None)
  BY <1>1, <1>3, MountTwo
<1>5. Fresh(DashboardAlone, StatsList, None, None) /\ Fresh(DashboardAlone, StatsBehind, None, None)
  BY <1>1, <1>3, MountTwo
<1>6. CASE t = "stale"
  <2>1. DashboardTools[t] = [staleModalOpen |-> FALSE] ++ ScanCells
    BY <1>6 DEF DashboardTools
  <2>2. ui.tool = "stale" /\ ui.scanIds = None
    BY <1>2, <1>6, <2>1 DEF ScanCells, Loading, ++
  <2> QED
    BY <1>4, <1>5, <2>2 DEF DashboardFresh, StaleFresh
<1>7. CASE t = "duplicates"
  <2>1. DashboardTools[t] = DuplicatesCells
    BY <1>7 DEF DashboardTools
  <2>2. ui.tool = "duplicates" /\ ~ui.duplicatesOpen
    BY <1>2, <1>7, <2>1 DEF DuplicatesCells, ScanCells, Loading, ++
  <2> QED
    BY <1>4, <1>5, <2>2 DEF DashboardFresh
<1> QED
  BY <1>1, <1>6, <1>7 DEF DashboardTools

LEMMA PaloAltoStart == ASSUME PaloAltoCheck PROVE PaloAltoFresh
<1>1. PICK t \in DOMAIN PaloAltoTools :
        Mount([page |-> "PaloAltoPage", tool |-> t, mode |-> "single", checkInput |-> None, timer |-> None,
               checkLoading |-> FALSE, checkResult |-> None, found |-> FALSE, recentLoading |-> TRUE]
                   ++ PaloAltoTools[t],
              {Req("loadRecent", None, None)},
              {"loadRecent", "runPaloAltoCheck", "loadTraffic"})
  BY DEF PaloAltoCheck
<1>2. /\ ui.tool = t /\ ui.mode = "single" /\ ui.checkInput = None /\ ui.timer = None /\ ui.checkResult = None
      /\ t = "detail" => ~ui.trafficOpen
  BY <1>1 DEF Mount, PaloAltoTools, DetailCells, ++
<1>3. /\ Apart(TrafficList, {"loadRecent"}) /\ Apart(CheckedList, {"loadRecent"})
      /\ AsksFor(RecentList, None, None, Req("loadRecent", None, None))
  BY DEF Apart, TrafficList, CheckedList, RecentList, AsksFor, Req
<1>4. Asked({}, TrafficList, None, ui.checkInput)
  BY <1>1, <1>3, MountOne
<1>5. Asked({}, CheckedList, None, ui.checkInput)
  BY <1>1, <1>3, MountOne
<1>6. Fresh({}, RecentList, None, None)
  BY <1>1, <1>3, MountOne
<1> QED
  BY <1>2, <1>4, <1>5, <1>6 DEF PaloAltoFresh

LEMMA VaultStart == ASSUME Vault PROVE VaultFresh
<1>1. PICK t \in DOMAIN VaultTools :
        Mount(([page |-> "VaultPage", tool |-> t, cabinetsLoading |-> TRUE] ++ NoCabinet) ++ VaultTools[t],
              {Req("fetchCabinets", None, None)},
              {"fetchCabinets", "fetchFolders", "fetchEntries", "fetchShares"})
  BY DEF Vault, FetchCabinets
<1>2. PICK f : f = [page |-> "VaultPage", tool |-> t, cabinetsLoading |-> TRUE] ++ NoCabinet
  OBVIOUS
<1>3. /\ f.tool = t /\ f.cabinet = None /\ f.folder = "all" /\ f.pageNum = 1
      /\ {"tool", "cabinet", "folder", "pageNum"} \subseteq DOMAIN f /\ "shareEntry" \notin DOMAIN f
  BY <1>2 DEF NoCabinet, ++
<1>4. ui = f ++ VaultTools[t]
  BY <1>1, <1>2 DEF Mount
<1>5. ASSUME t = "shares" PROVE ui.shareEntry = None
  <2>1. VaultTools[t] = [shareEntry |-> None, sharesLoading |-> FALSE, creating |-> FALSE]
    BY <1>5 DEF VaultTools
  <2>2. VaultTools[t].shareEntry = None /\ "shareEntry" \in DOMAIN VaultTools[t]
    BY <2>1
  <2> QED
    BY <1>3, <1>4, <2>2 DEF ++
<1>6. ui.tool = t /\ ui.cabinet = None /\ ui.folder = "all" /\ ui.pageNum = 1
  BY <1>3, <1>4 DEF ++
<1>7. AsksFor(CabinetsList, None, None, Req("fetchCabinets", None, None))
  BY DEF AsksFor, Req, CabinetsList, CabinetCommands
<1>8. Fresh(VaultAlone, CabinetsList, None, None)
  BY <1>1, <1>7, MountOne
<1> QED
  BY <1>5, <1>6, <1>8 DEF VaultFresh, Fresh

LEMMA RecordsStart == ASSUME IPRecords PROVE RecordsFresh
<1>1. PICK t, dialogs :
        /\ t \in DOMAIN RecordsTools
        /\ Mount([page |-> "IPRecordsPage", tool |-> t, currentPage |-> 1, filter |-> "all", loading |-> TRUE,
                  open |-> dialogs] ++ RecordsTools[t],
                 {Req("fetchSubnets", None, None), Req("fetchRecords", <<1, "all">>, None)},
                 {"fetchSubnets", "fetchRecords", "fetchHistory", "fetchDuplicates", "runCheck"})
  BY DEF IPRecords
<1>2. ui = [page |-> "IPRecordsPage", tool |-> t, currentPage |-> 1, filter |-> "all", loading |-> TRUE,
            open |-> dialogs] ++ RecordsTools[t]
  BY <1>1 DEF Mount
<1>3. /\ t = "history" => RecordsTools[t] = [historyRecord |-> None, historyLoading |-> FALSE]
      /\ t = "check" => RecordsTools[t] = CheckCells
      /\ t = "duplicates" => RecordsTools[t] = DuplicatesCells
  <2>1. t = "history" => RecordsTools[t] = [historyRecord |-> None, historyLoading |-> FALSE]
    BY DEF RecordsTools
  <2>2. t = "check" => RecordsTools[t] = CheckCells
    BY DEF RecordsTools
  <2>3. t = "duplicates" => RecordsTools[t] = DuplicatesCells
    BY DEF RecordsTools
  <2> QED
    BY <2>1, <2>2, <2>3
<1>4. {"tool", "currentPage", "filter"} \cap DOMAIN RecordsTools[t] = {}
  BY <1>1 DEF RecordsTools, CheckCells, DuplicatesCells, ScanCells, ++
<1>5. ui.tool = t /\ Query = <<1, "all">>
  BY <1>2, <1>4 DEF Query, ++
<1>6. /\ t = "history" => ui.historyRecord = None
      /\ t = "check" => ui.checkAvailRecord = None
      /\ t = "duplicates" => ~ui.duplicatesOpen
  BY <1>2, <1>3 DEF CheckCells, DuplicatesCells, ScanCells, ++
<1>7. /\ "fetchSubnets" \notin RecordsAlone /\ "fetchRecords" \notin RecordsAlone
      /\ AsksFor(RecordsList, <<1, "all">>, None, Req("fetchRecords", <<1, "all">>, None))
      /\ AsksFor(RecordSubnets, None, None, Req("fetchSubnets", None, None))
      /\ Apart(RecordsList, {"fetchSubnets"}) /\ Apart(RecordSubnets, {"fetchRecords"})
  BY DEF RecordsAlone, TableCommands, AsksFor, Req, Apart, RecordsList, RecordSubnets
<1>8. Fresh(RecordsAlone, RecordsList, <<1, "all">>, None)
  BY <1>1, <1>7, MountTwo
<1>9. Fresh(RecordsAlone, RecordSubnets, None, None)
  BY <1>1, <1>7, MountTwo
<1> QED
  BY <1>5, <1>6, <1>8, <1>9 DEF RecordsFresh

LEMMA UnusedIPsStart == ASSUME UnusedIPs PROVE UnusedIPsFresh
<1>1. PICK s, reqs, load, t :
        /\ s \in Rows \cup {None} /\ t = (IF s = None THEN None ELSE <<s, 1, "all">>)
        /\ reqs = {Req("fetchAllSubnets", 1, None)}
               \cup (IF s = None THEN {} ELSE {Req("fetchUnused", <<s, 1, "all">>, None)})
        /\ Mount([page |-> "UnusedIPsPage", subnetsLoading |-> TRUE, subnetsError |-> FALSE,
                  selectedSubnetId |-> s, pageNum |-> 1, detailSearch |-> "all", detailLoading |-> load,
                  timer |-> t] ++ CheckCells,
                 reqs, {"fetchUnused", "runCheck"})
  BY DEF UnusedIPs
<1>2. /\ ui.selectedSubnetId = s /\ ui.pageNum = 1 /\ ui.detailSearch = "all" /\ ui.timer = t
      /\ ui.checkAvailRecord = None
  BY <1>1 DEF Mount, CheckCells, ++
<1>3. UnusedQuery = <<s, 1, "all">> /\ UnusedTarget = <<s, 1, "all">>
  BY <1>1, <1>2 DEF UnusedQuery, UnusedTarget
<1>4. /\ AsksFor(UnusedList, <<s, 1, "all">>, None, Req("fetchUnused", <<s, 1, "all">>, None))
      /\ Apart(UnusedList, {"fetchAllSubnets"})
  BY DEF AsksFor, Req, Apart, UnusedList
<1>5. CASE s = None
  <2>1. reqs = {Req("fetchAllSubnets", 1, None)}
    BY <1>1, <1>5
  <2>2. Asked({}, UnusedList, <<s, 1, "all">>, None)
    BY <1>1, <1>4, <2>1, MountOne
  <2> QED
    BY <1>1, <1>2, <1>3, <1>5, <2>2 DEF UnusedIPsFresh
<1>6. CASE s # None
  <2>1. reqs = {Req("fetchAllSubnets", 1, None), Req("fetchUnused", <<s, 1, "all">>, None)}
    BY <1>1, <1>6
  <2>2. \E cells, reads :
            Mount(cells, {Req("fetchAllSubnets", 1, None), Req("fetchUnused", <<s, 1, "all">>, None)}, reads)
    BY <1>1, <2>1
  <2>3. "fetchAllSubnets" \notin {} /\ "fetchUnused" \notin {}
    OBVIOUS
  <2>4. Fresh({}, UnusedList, <<s, 1, "all">>, None)
    BY <1>4, <2>2, <2>3, MountTwo
  <2> QED
    BY <1>1, <1>2, <1>3, <1>6, <2>4 DEF UnusedIPsFresh, Fresh
<1> QED
  BY <1>5, <1>6

---------------------------------------------------------------------------
(* The inductive invariant: whichever page it is, its own, with its lists  *)
(* fresh.  The other pages show no list.                                   *)
Bare == RegistrationSound \/ NetworkScanSound \/ SharePageSound \/ UploadRequestSound
AppFresh ==
    /\ HasFn(calls)
    /\ \/ Bare
       \/ UsersSound /\ UsersFresh
       \/ PendingSound /\ PendingFresh
       \/ AuditLogSound /\ AuditLogFresh
       \/ RecordsSound /\ RecordsFresh
       \/ UnusedIPsSound /\ UnusedIPsFresh
       \/ SubnetsSound /\ SubnetsFresh
       \/ PaloAltoSound /\ PaloAltoFresh
       \/ DashboardSound /\ DashboardFresh
       \/ IntegrationsSound /\ IntegrationsFresh
       \/ VaultSound /\ VaultFresh
       \/ FilesSound /\ FilesFresh

LEMMA InitFresh == ASSUME Init PROVE AppFresh
<1>1. UsersPage \/ PendingApprovalsPage \/ AuditLogPage => AppFresh
  BY UsersPageMounted, PendingApprovalsMounted, AuditLogMounted, UsersStart, PendingStart,
     AuditLogStart DEF AppFresh
<1>2. RegistrationPage \/ NetworkScan \/ SharePage \/ UploadRequestPage => AppFresh
  BY RegistrationMounted, NetworkScanMounted, SharePageMounted, UploadRequestMounted DEF AppFresh, Bare
<1>3. IPRecords \/ UnusedIPs \/ Subnets \/ PaloAltoCheck => AppFresh
  BY RecordsMounted, UnusedIPsMounted, SubnetsMounted, PaloAltoMounted, RecordsStart, UnusedIPsStart,
     SubnetsStart, PaloAltoStart DEF AppFresh
<1>4. Dashboard \/ Integrations \/ Vault \/ FilesPage => AppFresh
  BY DashboardMounted, IntegrationsMounted, VaultMounted, FilesPageMounted, DashboardStart, IntegrationsStart,
     VaultStart, FilesStart DEF AppFresh
<1> QED
  BY <1>1, <1>2, <1>3, <1>4 DEF Init, UsersInit, FilesInit

\* The steps of each page.
LEMMA NextOfPage ==
    ASSUME Next
    PROVE  /\ ui.page = "UsersPage" => UsersPageNext \/ Serves(UsersTouches) \/ Refuse
           /\ ui.page = "PendingApprovalsPage" => PendingApprovalsNext \/ Serves(UsersTouches) \/ Refuse
           /\ ui.page = "AuditLogPage" => AuditLogNext \/ Serves(UsersTouches) \/ Refuse
           /\ ui.page = "IPRecordsPage" => RecordsNext
           /\ ui.page = "UnusedIPsPage" => UnusedIPsNext
           /\ ui.page = "SubnetsPage" => SubnetsNext
           /\ ui.page = "PaloAltoPage" => PaloAltoNext
           /\ ui.page = "DashboardPage" => DashboardNext
           /\ ui.page = "IntegrationsPage" => IntegrationsNext
           /\ ui.page = "VaultPage" => VaultNext
           /\ ui.page = "FilesPage" => FilesPageNext \/ Serves(FilesTouches) \/ Refuse
<1>1. CASE UsersNext
  <2>1. /\ ui.page \in DOMAIN UsersSpinners
        /\ \/ UsersPageNext \/ PendingApprovalsNext \/ AuditLogNext \/ RegistrationNext
           \/ Serves(UsersTouches) \/ Refuse
    BY <1>1 DEF UsersNext, Serves
  <2>2. ui.page \in {"UsersPage", "PendingApprovalsPage", "AuditLogPage", "RegistrationPage"}
    BY <2>1 DEF UsersSpinners
  <2>3. /\ UsersPageNext => ui.page = "UsersPage"
        /\ PendingApprovalsNext => ui.page = "PendingApprovalsPage"
        /\ AuditLogNext => ui.page = "AuditLogPage"
        /\ RegistrationNext => ui.page = "RegistrationPage"
    BY DEF UsersPageNext, PendingApprovalsNext, AuditLogNext, RegistrationNext
  <2> QED
    BY <2>1, <2>2, <2>3
<1>2. CASE FilesNext
  <2>1. /\ ui.page \in DOMAIN FilesSpinners
        /\ FilesPageNext \/ SharePageNext \/ UploadRequestNext \/ Serves(FilesTouches) \/ Refuse
    BY <1>2 DEF FilesNext, Serves
  <2>2. ui.page \in {"FilesPage", "SharePage", "UploadRequestPage"}
    BY <2>1 DEF FilesSpinners
  <2>3. /\ SharePageNext => ui.page = "SharePage"
        /\ UploadRequestNext => ui.page = "UploadRequestPage"
    BY DEF SharePageNext, UploadRequestNext
  <2> QED
    BY <2>1, <2>2, <2>3
<1>3. RecordsNext => ui.page = "IPRecordsPage"
  BY DEF RecordsNext
<1>4. UnusedIPsNext => ui.page = "UnusedIPsPage"
  BY DEF UnusedIPsNext
<1>5. SubnetsNext => ui.page = "SubnetsPage"
  BY DEF SubnetsNext
<1>6. NetworkScanNext => ui.page = "NetworkScanPage"
  BY DEF NetworkScanNext
<1>7. PaloAltoNext => ui.page = "PaloAltoPage"
  BY DEF PaloAltoNext
<1>8. DashboardNext => ui.page = "DashboardPage"
  BY DEF DashboardNext
<1>9. IntegrationsNext => ui.page = "IntegrationsPage"
  BY DEF IntegrationsNext
<1>10. VaultNext => ui.page = "VaultPage"
  BY DEF VaultNext
<1> QED
  BY <1>1, <1>2, <1>3, <1>4, <1>5, <1>6, <1>7, <1>8, <1>9, <1>10 DEF Next

LEMMA FreshStutters ==
    ASSUME UNCHANGED web
    PROVE  /\ UsersFresh => UsersFresh'
           /\ PendingFresh => PendingFresh'
           /\ AuditLogFresh => AuditLogFresh'
           /\ RecordsFresh => RecordsFresh'
           /\ UnusedIPsFresh => UnusedIPsFresh'
           /\ SubnetsFresh => SubnetsFresh'
           /\ PaloAltoFresh => PaloAltoFresh'
           /\ DashboardFresh => DashboardFresh'
           /\ IntegrationsFresh => IntegrationsFresh'
           /\ VaultFresh => VaultFresh'
           /\ FilesFresh => FilesFresh'
<1> USE DEF web, Fresh, Asked
<1>1. UsersFresh => UsersFresh'
  BY DEF UsersFresh
<1>2. PendingFresh => PendingFresh'
  BY DEF PendingFresh
<1>3. AuditLogFresh => AuditLogFresh'
  BY DEF AuditLogFresh, buildFilters
<1>4. RecordsFresh => RecordsFresh'
  BY DEF RecordsFresh, Query
<1>5. UnusedIPsFresh => UnusedIPsFresh'
  BY DEF UnusedIPsFresh, UnusedQuery, UnusedTarget
<1>6. SubnetsFresh => SubnetsFresh'
  BY DEF SubnetsFresh
<1>7. PaloAltoFresh => PaloAltoFresh'
  BY DEF PaloAltoFresh
<1>8. DashboardFresh => DashboardFresh'
  BY DEF DashboardFresh, StaleFresh, Lone
<1>9. IntegrationsFresh => IntegrationsFresh'
  BY DEF IntegrationsFresh
<1>10. VaultFresh => VaultFresh'
  BY DEF VaultFresh, EntriesQuery
<1>11. FilesFresh => FilesFresh'
  BY DEF FilesFresh
<1> QED
  BY <1>1, <1>2, <1>3, <1>4, <1>5, <1>6, <1>7, <1>8, <1>9, <1>10, <1>11

LEMMA StepFresh == ASSUME AppFresh, [Next]_web PROVE AppFresh'
<1>1. HasFn(calls) /\ (UNCHANGED web => Answers) /\ (Next \/ UNCHANGED web)
  BY DEF web, Answers, AppFresh, HasFn, Fns, Twice, sent, twice
<1>2. \A touches : Serves(touches) => Answers
  BY <1>1, ServeAnswers DEF Serves
<1>3. Refuse => Answers
  BY <1>1, RefuseAnswers
<1>4. CASE UsersSound /\ UsersFresh
  <2>1. ui.page = "UsersPage"
    BY <1>4 DEF UsersSound, Page
  <2>2. (UsersPageNext \/ Serves(UsersTouches) \/ Refuse) \/ UNCHANGED web
    BY <1>1, <2>1, NextOfPage
  <2>3. UsersPageNext \/ Answers
    BY <1>1, <1>2, <1>3, <2>2
  <2>4. UsersSound' /\ HasFn(calls')
    BY <1>1, <1>4, <2>3, UsersKept
  <2>5. UsersFresh'
    BY <1>1, <1>4, <2>2, UsersFreshKept, FreshStutters
  <2> QED
    BY <2>4, <2>5 DEF AppFresh
<1>5. CASE PendingSound /\ PendingFresh
  <2>1. ui.page = "PendingApprovalsPage"
    BY <1>5 DEF PendingSound, Page
  <2>2. (PendingApprovalsNext \/ Serves(UsersTouches) \/ Refuse) \/ UNCHANGED web
    BY <1>1, <2>1, NextOfPage
  <2>3. PendingApprovalsNext \/ Answers
    BY <1>1, <1>2, <1>3, <2>2
  <2>4. PendingSound' /\ HasFn(calls')
    BY <1>1, <1>5, <2>3, PendingKept
  <2>5. PendingFresh'
    BY <1>1, <1>5, <2>2, PendingFreshKept, FreshStutters
  <2> QED
    BY <2>4, <2>5 DEF AppFresh
<1>6. CASE AuditLogSound /\ AuditLogFresh
  <2>1. ui.page = "AuditLogPage"
    BY <1>6 DEF AuditLogSound, Page
  <2>2. (AuditLogNext \/ Serves(UsersTouches) \/ Refuse) \/ UNCHANGED web
    BY <1>1, <2>1, NextOfPage
  <2>3. AuditLogNext \/ Answers
    BY <1>1, <1>2, <1>3, <2>2
  <2>4. AuditLogSound' /\ HasFn(calls')
    BY <1>1, <1>6, <2>3, AuditLogKept
  <2>5. AuditLogFresh'
    BY <1>1, <1>6, <2>2, AuditLogFreshKept, FreshStutters
  <2> QED
    BY <2>4, <2>5 DEF AppFresh
<1>7. CASE RecordsSound /\ RecordsFresh
  <2>1. ui.page = "IPRecordsPage"
    BY <1>7 DEF RecordsSound, RecordsTable, Page
  <2>2. RecordsNext \/ UNCHANGED web
    BY <1>1, <2>1, NextOfPage
  <2>3. RecordsNext \/ Answers
    BY <1>1, <1>2, <1>3, <2>2
  <2>4. RecordsSound' /\ HasFn(calls')
    BY <1>1, <1>7, <2>3, RecordsKept
  <2>5. RecordsFresh'
    BY <1>1, <1>7, <2>2, RecordsFreshKept, FreshStutters
  <2> QED
    BY <2>4, <2>5 DEF AppFresh
<1>8. CASE UnusedIPsSound /\ UnusedIPsFresh
  <2>1. ui.page = "UnusedIPsPage"
    BY <1>8 DEF UnusedIPsSound, Page
  <2>2. UnusedIPsNext \/ UNCHANGED web
    BY <1>1, <2>1, NextOfPage
  <2>3. UnusedIPsNext \/ Answers
    BY <1>1, <1>2, <1>3, <2>2
  <2>4. UnusedIPsSound' /\ HasFn(calls')
    BY <1>1, <1>8, <2>3, UnusedIPsKept
  <2>5. UnusedIPsFresh'
    BY <1>1, <1>8, <2>2, UnusedIPsFreshKept, FreshStutters
  <2> QED
    BY <2>4, <2>5 DEF AppFresh
<1>9. CASE SubnetsSound /\ SubnetsFresh
  <2>1. ui.page = "SubnetsPage"
    BY <1>9 DEF SubnetsSound, SubnetsTree, Page
  <2>2. SubnetsNext \/ UNCHANGED web
    BY <1>1, <2>1, NextOfPage
  <2>3. SubnetsNext \/ Answers
    BY <1>1, <1>2, <1>3, <2>2
  <2>4. SubnetsSound' /\ HasFn(calls')
    BY <1>1, <1>9, <2>3, SubnetsKept
  <2>5. SubnetsFresh'
    BY <1>1, <1>9, <2>2, SubnetsFreshKept, FreshStutters
  <2> QED
    BY <2>4, <2>5 DEF AppFresh
<1>10. CASE PaloAltoSound /\ PaloAltoFresh
  <2>1. ui.page = "PaloAltoPage"
    BY <1>10 DEF PaloAltoSound, PaloAltoChecks, Page
  <2>2. PaloAltoNext \/ UNCHANGED web
    BY <1>1, <2>1, NextOfPage
  <2>3. PaloAltoNext \/ Answers
    BY <1>1, <1>2, <1>3, <2>2
  <2>4. PaloAltoSound' /\ HasFn(calls')
    BY <1>1, <1>10, <2>3, PaloAltoKept
  <2>5. PaloAltoFresh'
    BY <1>1, <1>10, <2>2, PaloAltoFreshKept, FreshStutters
  <2> QED
    BY <2>4, <2>5 DEF AppFresh
<1>11. CASE DashboardSound /\ DashboardFresh
  <2>1. ui.page = "DashboardPage"
    BY <1>11 DEF DashboardSound, DashboardFrame, Page
  <2>2. DashboardNext \/ UNCHANGED web
    BY <1>1, <2>1, NextOfPage
  <2>3. DashboardNext \/ Answers
    BY <1>1, <1>2, <1>3, <2>2
  <2>4. DashboardSound' /\ HasFn(calls')
    BY <1>1, <1>11, <2>3, DashboardKept
  <2>5. DashboardFresh'
    BY <1>1, <1>11, <2>2, DashboardFreshKept, FreshStutters
  <2> QED
    BY <2>4, <2>5 DEF AppFresh
<1>12. CASE IntegrationsSound /\ IntegrationsFresh
  <2>1. ui.page = "IntegrationsPage"
    BY <1>12 DEF IntegrationsSound, Page
  <2>2. IntegrationsNext \/ UNCHANGED web
    BY <1>1, <2>1, NextOfPage
  <2>3. IntegrationsNext \/ Answers
    BY <1>1, <1>2, <1>3, <2>2
  <2>4. IntegrationsSound' /\ HasFn(calls')
    BY <1>1, <1>12, <2>3, IntegrationsKept
  <2>5. IntegrationsFresh'
    BY <1>1, <1>12, <2>2, IntegrationsFreshKept, FreshStutters
  <2> QED
    BY <2>4, <2>5 DEF AppFresh
<1>13. CASE VaultSound /\ VaultFresh
  <2>1. ui.page = "VaultPage"
    BY <1>13 DEF VaultSound, VaultFrame, Page
  <2>2. VaultNext \/ UNCHANGED web
    BY <1>1, <2>1, NextOfPage
  <2>3. VaultNext \/ Answers
    BY <1>1, <1>2, <1>3, <2>2
  <2>4. VaultSound' /\ HasFn(calls')
    BY <1>1, <1>13, <2>3, VaultKept
  <2>5. VaultFresh'
    BY <1>1, <1>13, <2>2, VaultFreshKept, FreshStutters
  <2> QED
    BY <2>4, <2>5 DEF AppFresh
<1>14. CASE FilesSound /\ FilesFresh
  <2>1. ui.page = "FilesPage"
    BY <1>14 DEF FilesSound, FilesFrame, Page
  <2>2. (FilesPageNext \/ Serves(FilesTouches) \/ Refuse) \/ UNCHANGED web
    BY <1>1, <2>1, NextOfPage
  <2>3. FilesPageNext \/ Answers
    BY <1>1, <1>2, <1>3, <2>2
  <2>4. FilesSound' /\ HasFn(calls')
    BY <1>1, <1>14, <2>3, FilesKept
  <2>5. FilesFresh'
    BY <1>1, <1>14, <2>2, FilesFreshKept, FreshStutters
  <2> QED
    BY <2>4, <2>5 DEF AppFresh
<1>15. CASE Bare
  <2>1. Bare' /\ HasFn(calls')
    <3>1. CASE RegistrationSound
      <4>1. ui.page = "RegistrationPage"
        BY <3>1 DEF RegistrationSound, Page
      <4>2. RegistrationNext \/ Answers
        BY <1>1, <4>1, PagesOfNext
      <4> QED
        BY <1>1, <3>1, <4>2, RegistrationKept DEF Bare
    <3>2. CASE NetworkScanSound
      <4>1. ui.page = "NetworkScanPage"
        BY <3>2 DEF NetworkScanSound, Page
      <4>2. NetworkScanNext \/ Answers
        BY <1>1, <4>1, PagesOfNext
      <4> QED
        BY <1>1, <3>2, <4>2, NetworkScanKept DEF Bare
    <3>3. CASE SharePageSound
      <4>1. ui.page = "SharePage"
        BY <3>3 DEF SharePageSound, Page
      <4>2. SharePageNext \/ Answers
        BY <1>1, <4>1, PagesOfNext
      <4> QED
        BY <1>1, <3>3, <4>2, SharePageKept DEF Bare
    <3>4. CASE UploadRequestSound
      <4>1. ui.page = "UploadRequestPage"
        BY <3>4 DEF UploadRequestSound, Page
      <4>2. UploadRequestNext \/ Answers
        BY <1>1, <4>1, PagesOfNext
      <4> QED
        BY <1>1, <3>4, <4>2, UploadRequestKept DEF Bare
    <3> QED
      BY <1>15, <3>1, <3>2, <3>3, <3>4 DEF Bare
  <2> QED
    BY <2>1 DEF AppFresh
<1> QED
  BY <1>4, <1>5, <1>6, <1>7, <1>8, <1>9, <1>10, <1>11, <1>12, <1>13, <1>14, <1>15 DEF AppFresh

\* A list that is fresh, once nothing is under way.
Current(w) == \E old \in SUBSET LeftBehind[w.fn] : shown[w.fn] = [q |-> w.q, x |-> w.x, since |-> old]

LEMMA CurrentReq ==
    ASSUME NEW T, NEW L, NEW fn, NEW q, NEW x, Fresh(T, L, q, x), L.fn = fn, L.left \subseteq LeftBehind[fn],
           calm, calls = {}
    PROVE  \A w \in {Req(fn, q, x)} : Current(w)
<1>1. \E old \in SUBSET L.left : shown[fn] = [q |-> q, x |-> x, since |-> old]
  BY DEF Fresh, Due, Good
<1>2. Req(fn, q, x).fn = fn /\ Req(fn, q, x).q = q /\ Req(fn, q, x).x = x
  BY DEF Req
<1> QED
  BY <1>1, <1>2 DEF Current

\* What the lists leave is what App says of their pages.
LEMMA LeftThere ==
    /\ ui.page = "IPRecordsPage" => RecordsList.left \subseteq LeftBehind["fetchRecords"]
    /\ ui.page = "DashboardPage" =>
           /\ StatsList.left \subseteq LeftBehind["fetchStats"]
           /\ ui.tool = "duplicates" => StatsBehind.left \subseteq LeftBehind["fetchStats"]
    /\ ui.page = "PaloAltoPage" => RecentList.left \subseteq LeftBehind["loadRecent"]
    /\ ui.page = "VaultPage" => SharesList.left \subseteq LeftBehind["fetchShares"]
    /\ ui.page = "FilesPage" =>
           /\ TableOfFiles.left \subseteq LeftBehind["fetchFiles"]
           /\ ui.pending => PendingFiles.left \subseteq LeftBehind["fetchFiles"]
           /\ FileSharesList.left \subseteq LeftBehind["fetchFileShares"]
<1>1. ui.page = "IPRecordsPage" => RecordsList.left \subseteq LeftBehind["fetchRecords"]
  BY DEF LeftBehind, RecordsList, ++
<1>2. ui.page = "DashboardPage" => StatsList.left \subseteq LeftBehind["fetchStats"]
  BY DEF LeftBehind, StatsList, ++
<1>3. ui.page = "DashboardPage" /\ ui.tool = "duplicates" => StatsBehind.left \subseteq LeftBehind["fetchStats"]
  BY DEF LeftBehind, StatsBehind, ++
<1>4. ui.page = "PaloAltoPage" => RecentList.left \subseteq LeftBehind["loadRecent"]
  BY DEF LeftBehind, RecentList, ++
<1>5. ui.page = "VaultPage" => SharesList.left \subseteq LeftBehind["fetchShares"]
  BY DEF LeftBehind, SharesList, ++
<1>6. ui.page = "FilesPage" => TableOfFiles.left \subseteq LeftBehind["fetchFiles"]
  BY DEF LeftBehind, TableOfFiles, ++
<1>7. ui.page = "FilesPage" /\ ui.pending => PendingFiles.left \subseteq LeftBehind["fetchFiles"]
  BY DEF LeftBehind, PendingFiles, ++
<1>8. ui.page = "FilesPage" => FileSharesList.left \subseteq LeftBehind["fetchFileShares"]
  BY DEF LeftBehind, FileSharesList, ++
<1> QED
  BY <1>1, <1>2, <1>3, <1>4, <1>5, <1>6, <1>7, <1>8

\* The table of App, at each page.
LEMMA WantedAt ==
    /\ ui.page \in {"UsersPage", "PendingApprovalsPage", "AuditLogPage"} => Wanted = UsersWanted
    /\ ui.page = "IPRecordsPage" => Wanted = RecordsWanted
    /\ ui.page = "UnusedIPsPage" => Wanted = UnusedIPsWanted
    /\ ui.page = "SubnetsPage" => Wanted = SubnetsWanted
    /\ ui.page = "PaloAltoPage" => Wanted = PaloAltoWanted
    /\ ui.page = "DashboardPage" => Wanted = DashboardWanted
    /\ ui.page = "IntegrationsPage" => Wanted = IntegrationsWanted
    /\ ui.page = "VaultPage" => Wanted = VaultWanted
    /\ ui.page = "FilesPage" => Wanted = FilesWanted
    /\ ui.page \in {"RegistrationPage", "NetworkScanPage", "SharePage", "UploadRequestPage"} => Wanted = {}
<1>1. /\ DOMAIN UsersSpinners = {"UsersPage", "PendingApprovalsPage", "AuditLogPage", "RegistrationPage"}
      /\ DOMAIN FilesSpinners = {"FilesPage", "SharePage", "UploadRequestPage"}
  BY DEF UsersSpinners, FilesSpinners
<1>2. /\ ui.page = "RegistrationPage" => UsersWanted = {}
      /\ ui.page \in {"SharePage", "UploadRequestPage"} => FilesWanted = {}
  BY DEF UsersWanted, FilesWanted
<1>3. /\ ui.page \in DOMAIN UsersSpinners => Wanted = UsersWanted
      /\ ui.page \in DOMAIN FilesSpinners => Wanted = FilesWanted
  BY <1>1 DEF Wanted
<1>4. /\ ui.page = "IPRecordsPage" => Wanted = RecordsWanted
      /\ ui.page = "UnusedIPsPage" => Wanted = UnusedIPsWanted
      /\ ui.page = "SubnetsPage" => Wanted = SubnetsWanted
      /\ ui.page = "PaloAltoPage" => Wanted = PaloAltoWanted
  BY <1>1 DEF Wanted
<1>5. /\ ui.page = "DashboardPage" => Wanted = DashboardWanted
      /\ ui.page = "IntegrationsPage" => Wanted = IntegrationsWanted
      /\ ui.page = "VaultPage" => Wanted = VaultWanted
      /\ ui.page = "NetworkScanPage" => Wanted = {}
  BY <1>1 DEF Wanted
<1> QED
  BY <1>1, <1>2, <1>3, <1>4, <1>5

\* What each page wants is what its lists are of.
LEMMA UsersCurrent ==
    ASSUME \/ UsersSound /\ UsersFresh
           \/ PendingSound /\ PendingFresh
           \/ AuditLogSound /\ AuditLogFresh,
           calm, calls = {}
    PROVE  \A w \in Wanted : Current(w)
<1>1. /\ UsersList.fn = "fetchUsers" /\ PendingList.fn = "fetchPending" /\ LogList.fn = "fetchLogs"
      /\ UsersList.left = {} /\ PendingList.left = {} /\ LogList.left = {}
  BY DEF UsersList, PendingList, LogList
<1>2. CASE UsersSound /\ UsersFresh
  <2>1. ui.page = "UsersPage"
    BY <1>2 DEF UsersSound, Page
  <2>2. Wanted = {Req("fetchUsers", ui.currentPage, None)}
    BY <2>1, WantedAt DEF UsersWanted
  <2> QED
    BY <1>1, <1>2, <2>2, CurrentReq DEF UsersFresh
<1>3. CASE PendingSound /\ PendingFresh
  <2>1. ui.page = "PendingApprovalsPage"
    BY <1>3 DEF PendingSound, Page
  <2>2. Wanted = {Req("fetchPending", ui.currentPage, None)}
    BY <2>1, WantedAt DEF UsersWanted
  <2> QED
    BY <1>1, <1>3, <2>2, CurrentReq DEF PendingFresh
<1>4. CASE AuditLogSound /\ AuditLogFresh
  <2>1. ui.page = "AuditLogPage"
    BY <1>4 DEF AuditLogSound, Page
  <2>2. Wanted = {Req("fetchLogs", buildFilters, None)}
    BY <2>1, WantedAt DEF UsersWanted
  <2> QED
    BY <1>1, <1>4, <2>2, CurrentReq DEF AuditLogFresh
<1> QED
  BY <1>2, <1>3, <1>4

LEMMA RecordsCurrent ==
    ASSUME RecordsSound, RecordsFresh, calm, calls = {}
    PROVE  \A w \in RecordsWanted : Current(w)
<1>1. /\ Showing("historyRecord") => ui.tool = "history" /\ ui.historyRecord # None
      /\ Showing("checkAvailRecord") => ui.tool = "check" /\ ui.checkAvailRecord # None
  BY DEF RecordsSound, RecordsTool, RecordsEdit, RecordsBulk, RecordsExport, RecordsImport, RecordsHistory,
         RecordsCheck, RecordsDuplicates, Cells, TableCells, DuplicatesDialog, Showing
<1>2. /\ RecordsList.fn = "fetchRecords" /\ RecordSubnets.fn = "fetchSubnets"
      /\ HistoryList.fn = "fetchHistory" /\ CheckList.fn = "runCheck" /\ DuplicatesList.fn = "fetchDuplicates"
      /\ RecordSubnets.left = {} /\ HistoryList.left = {} /\ CheckList.left = {} /\ DuplicatesList.left = {}
  BY DEF RecordsList, RecordSubnets, HistoryList, CheckList, DuplicatesList
<1>3. \A w \in {Req("fetchRecords", Query, None)} : Current(w)
  <2>1. RecordsList.left \subseteq LeftBehind["fetchRecords"]
    BY LeftThere DEF RecordsSound, RecordsTable, Page
  <2> QED
    BY <1>2, <2>1, CurrentReq DEF RecordsFresh
<1>4. \A w \in {Req("fetchSubnets", None, None)} : Current(w)
  BY <1>2, CurrentReq DEF RecordsFresh
<1>5. Showing("historyRecord") => \A w \in {Req("fetchHistory", None, ui.historyRecord)} : Current(w)
  BY <1>1, <1>2, CurrentReq DEF RecordsFresh
<1>6. Showing("checkAvailRecord") => \A w \in {Req("runCheck", Query, ui.checkAvailRecord)} : Current(w)
  BY <1>1, <1>2, CurrentReq DEF RecordsFresh
<1>7. ui.tool = "duplicates" /\ ui.duplicatesOpen => \A w \in {Req("fetchDuplicates", None, None)} : Current(w)
  BY <1>2, CurrentReq DEF RecordsFresh
<1> QED
  BY <1>3, <1>4, <1>5, <1>6, <1>7 DEF RecordsWanted

LEMMA UnusedIPsCurrent ==
    ASSUME UnusedIPsFresh, calm, calls = {}
    PROVE  \A w \in UnusedIPsWanted : Current(w)
<1>1. /\ UnusedList.fn = "fetchUnused" /\ CheckList.fn = "runCheck"
      /\ UnusedList.left = {} /\ CheckList.left = {}
  BY DEF UnusedList, CheckList
<1>2. ui.selectedSubnetId # None /\ ui.timer = None => \A w \in FetchUnused(UnusedQuery) : Current(w)
  BY <1>1, CurrentReq DEF UnusedIPsFresh, FetchUnused
<1>3. ui.checkAvailRecord # None => \A w \in {Req("runCheck", UnusedQuery, ui.checkAvailRecord)} : Current(w)
  BY <1>1, CurrentReq DEF UnusedIPsFresh
<1> QED
  BY <1>2, <1>3 DEF UnusedIPsWanted

LEMMA SubnetsCurrent ==
    ASSUME SubnetsFresh, calm, calls = {}
    PROVE  \A w \in SubnetsWanted : Current(w)
<1>1. /\ TreeList.fn = "fetchTree" /\ RangesList.fn = "fetchRanges"
      /\ TreeList.left = {} /\ RangesList.left = {}
  BY DEF TreeList, RangesList
<1>2. \A w \in {Req("fetchTree", ui.filter, None)} : Current(w)
  BY <1>1, CurrentReq DEF SubnetsFresh
<1>3. ui.tool = "drawer" /\ ui.drawerSubnet # None => \A w \in FetchRanges(ui.drawerSubnet) : Current(w)
  BY <1>1, CurrentReq DEF SubnetsFresh, FetchRanges
<1> QED
  BY <1>2, <1>3 DEF SubnetsWanted

LEMMA PaloAltoCurrent ==
    ASSUME PaloAltoSound, PaloAltoFresh, calm, calls = {}
    PROVE  \A w \in PaloAltoWanted : Current(w)
<1>1. /\ CheckedList.fn = "runPaloAltoCheck" /\ TrafficList.fn = "loadTraffic" /\ RecentList.fn = "loadRecent"
      /\ CheckedList.left = {} /\ TrafficList.left = {}
  BY DEF CheckedList, TrafficList, RecentList
<1>2. ui.mode # "bulk" /\ ui.timer = None /\ ui.checkInput # None =>
          \A w \in {Req("runPaloAltoCheck", None, ui.checkInput)} : Current(w)
  BY <1>1, CurrentReq DEF PaloAltoFresh
<1>3. ui.tool = "detail" /\ ui.trafficOpen => \A w \in {Req("loadTraffic", None, ui.checkInput)} : Current(w)
  BY <1>1, CurrentReq DEF PaloAltoFresh
<1>4. \A w \in {Req("loadRecent", None, None)} : Current(w)
  <2>1. RecentList.left \subseteq LeftBehind["loadRecent"]
    BY LeftThere DEF PaloAltoSound, PaloAltoChecks, Page
  <2> QED
    BY <1>1, <2>1, CurrentReq DEF PaloAltoFresh
<1> QED
  BY <1>2, <1>3, <1>4 DEF PaloAltoWanted

LEMMA DashboardCurrent ==
    ASSUME DashboardSound, DashboardFresh, calm, calls = {}
    PROVE  \A w \in DashboardWanted : Current(w)
<1>1. /\ DigestList.fn = "fetchDigest" /\ StatsList.fn = "fetchStats" /\ StatsBehind.fn = "fetchStats"
      /\ DuplicatesList.fn = "fetchDuplicates" /\ DigestList.left = {} /\ DuplicatesList.left = {}
  BY DEF DigestList, StatsList, StatsBehind, DuplicatesList
<1>2. \A w \in {Req("fetchDigest", None, None)} : Current(w)
  BY <1>1, CurrentReq DEF DashboardFresh
<1>3. \A w \in FetchStats : Current(w)
  <2>1. /\ StatsList.left \subseteq LeftBehind["fetchStats"]
        /\ ui.tool = "duplicates" => StatsBehind.left \subseteq LeftBehind["fetchStats"]
    BY LeftThere DEF DashboardSound, DashboardFrame, Page
  <2>2. CASE ui.tool = "stale"
    BY <1>1, <2>1, <2>2, CurrentReq DEF DashboardFresh, StaleFresh, FetchStats
  <2>3. CASE ui.tool = "duplicates"
    BY <1>1, <2>1, <2>3, CurrentReq DEF DashboardFresh, FetchStats
  <2> QED
    BY <2>2, <2>3 DEF DashboardSound, DashboardTool, DashboardStale, DashboardDuplicates
<1>4. ui.tool = "duplicates" /\ ui.duplicatesOpen => \A w \in FetchDuplicates : Current(w)
  BY <1>1, CurrentReq DEF DashboardFresh, FetchDuplicates
<1> QED
  BY <1>2, <1>3, <1>4 DEF DashboardWanted

LEMMA VaultCurrent ==
    ASSUME VaultSound, VaultFresh, calm, calls = {}
    PROVE  \A w \in VaultWanted : Current(w)
<1>1. /\ CabinetsList.fn = "fetchCabinets" /\ FoldersList.fn = "fetchFolders"
      /\ EntriesList.fn = "fetchEntries" /\ SharesList.fn = "fetchShares"
      /\ CabinetsList.left = {} /\ FoldersList.left = {} /\ EntriesList.left = {}
  BY DEF CabinetsList, FoldersList, EntriesList, SharesList
<1>2. ui.cabinet = None => \A w \in FetchCabinets : Current(w)
  BY <1>1, CurrentReq DEF VaultFresh, FetchCabinets
<1>3. ui.cabinet # None => \A w \in FetchFolders(ui.cabinet) : Current(w)
  BY <1>1, CurrentReq DEF VaultFresh, FetchFolders
<1>4. ui.cabinet # None /\ ~ui.doubled => \A w \in FetchEntries(EntriesQuery) : Current(w)
  BY <1>1, CurrentReq DEF VaultFresh, FetchEntries
<1>5. ui.tool = "shares" /\ ui.shareEntry # None => \A w \in FetchShares(ui.shareEntry) : Current(w)
  <2>1. SharesList.left \subseteq LeftBehind["fetchShares"]
    BY LeftThere DEF VaultSound, VaultFrame, Page
  <2> QED
    BY <1>1, <2>1, CurrentReq DEF VaultFresh, FetchShares
<1> QED
  BY <1>2, <1>3, <1>4, <1>5 DEF VaultWanted

LEMMA IntegrationsCurrent ==
    ASSUME IntegrationsFresh, calm, calls = {}
    PROVE  \A w \in IntegrationsWanted : Current(w)
<1>1. ConnectList.fn = "handleConnect" /\ ConnectList.left = {}
  BY DEF ConnectList
<1>2. ui.step = "select" => \A w \in {Req("handleConnect", None, ui.source)} : Current(w)
  BY <1>1, CurrentReq DEF IntegrationsFresh
<1> QED
  BY <1>2 DEF IntegrationsWanted, AtStep

LEMMA FilesCurrent ==
    ASSUME FilesSound, FilesFresh, calm, calls = {}
    PROVE  \A w \in FilesWanted : Current(w)
<1>1. /\ TableOfFiles.fn = "fetchFiles" /\ PendingFiles.fn = "fetchFiles"
      /\ FileSharesList.fn = "fetchFileShares"
  BY DEF TableOfFiles, PendingFiles, FileSharesList
<1>2. /\ TableOfFiles.left \subseteq LeftBehind["fetchFiles"]
      /\ ui.pending => PendingFiles.left \subseteq LeftBehind["fetchFiles"]
      /\ FileSharesList.left \subseteq LeftBehind["fetchFileShares"]
  BY LeftThere DEF FilesSound, FilesFrame, Page
<1>3. \A w \in TheseFiles : Current(w)
  <2>1. CASE ui.pending
    BY <1>1, <1>2, <2>1, CurrentReq DEF FilesFresh, TheseFiles, FetchFiles
  <2>2. CASE ~ui.pending
    BY <1>1, <1>2, <2>2, CurrentReq DEF FilesFresh, TheseFiles, FetchFiles
  <2> QED
    BY <2>1, <2>2
<1>4. ui.tool = "share" /\ ui.shareTarget # None => \A w \in FetchFileShares(ui.shareTarget) : Current(w)
  BY <1>1, <1>2, CurrentReq DEF FilesFresh, FetchFileShares
<1> QED
  BY <1>3, <1>4 DEF FilesWanted

\* The screens are fresh in every behaviour,
THEOREM AppStaysFresh == Spec => []AppFresh
<1>1. Init => AppFresh
  BY InitFresh
<1>2. AppFresh /\ [Next]_web => AppFresh'
  BY StepFresh
<1> QED
  BY <1>1, <1>2, PTL DEF Spec

\* so that, when every request is answered and none failed, a page shows for
\* the query and the subject that are chosen what the server holds: nothing is
\* left of an older query, of a page before a change, of the dialog of another
\* row, whatever the order of the answers and wherever a timer or an effect
\* asks the same a second time.
THEOREM ScreensUpToDate == Spec => []UpToDate
<1>1. ASSUME AppFresh PROVE UpToDate
  <2> SUFFICES ASSUME calm, calls = {} PROVE \A w \in Wanted : Current(w)
    <3>1. ASSUME NEW w, Current(w)
          PROVE  shown[w.fn].q = w.q /\ shown[w.fn].x = w.x /\ shown[w.fn].since \subseteq LeftBehind[w.fn]
      BY <3>1 DEF Current
    <3> QED
      BY <3>1 DEF UpToDate
  <2>1. CASE (UsersSound /\ UsersFresh) \/ (PendingSound /\ PendingFresh) \/ (AuditLogSound /\ AuditLogFresh)
    BY <2>1, UsersCurrent
  <2>2. CASE RecordsSound /\ RecordsFresh
    <3>1. ui.page = "IPRecordsPage"
      BY <2>2 DEF RecordsSound, RecordsTable, Page
    <3> QED
      BY <2>2, <3>1, WantedAt, RecordsCurrent
  <2>3. CASE UnusedIPsSound /\ UnusedIPsFresh
    <3>1. ui.page = "UnusedIPsPage"
      BY <2>3 DEF UnusedIPsSound, Page
    <3> QED
      BY <2>3, <3>1, WantedAt, UnusedIPsCurrent
  <2>4. CASE SubnetsSound /\ SubnetsFresh
    <3>1. ui.page = "SubnetsPage"
      BY <2>4 DEF SubnetsSound, SubnetsTree, Page
    <3> QED
      BY <2>4, <3>1, WantedAt, SubnetsCurrent
  <2>5. CASE PaloAltoSound /\ PaloAltoFresh
    <3>1. ui.page = "PaloAltoPage"
      BY <2>5 DEF PaloAltoSound, PaloAltoChecks, Page
    <3> QED
      BY <2>5, <3>1, WantedAt, PaloAltoCurrent
  <2>6. CASE DashboardSound /\ DashboardFresh
    <3>1. ui.page = "DashboardPage"
      BY <2>6 DEF DashboardSound, DashboardFrame, Page
    <3> QED
      BY <2>6, <3>1, WantedAt, DashboardCurrent
  <2>7. CASE IntegrationsSound /\ IntegrationsFresh
    <3>1. ui.page = "IntegrationsPage"
      BY <2>7 DEF IntegrationsSound, Page
    <3> QED
      BY <2>7, <3>1, WantedAt, IntegrationsCurrent
  <2>8. CASE VaultSound /\ VaultFresh
    <3>1. ui.page = "VaultPage"
      BY <2>8 DEF VaultSound, VaultFrame, Page
    <3> QED
      BY <2>8, <3>1, WantedAt, VaultCurrent
  <2>9. CASE FilesSound /\ FilesFresh
    <3>1. ui.page = "FilesPage"
      BY <2>9 DEF FilesSound, FilesFrame, Page
    <3> QED
      BY <2>9, <3>1, WantedAt, FilesCurrent
  <2>10. CASE Bare
    <3>1. ui.page \in {"RegistrationPage", "NetworkScanPage", "SharePage", "UploadRequestPage"}
      BY <2>10 DEF Bare, RegistrationSound, NetworkScanSound, SharePageSound, UploadRequestSound, Page
    <3> QED
      BY <3>1, WantedAt
  <2> QED
    BY <1>1, <2>1, <2>2, <2>3, <2>4, <2>5, <2>6, <2>7, <2>8, <2>9, <2>10 DEF AppFresh
<1> QED
  BY <1>1, AppStaysFresh, PTL
===============================================================================
