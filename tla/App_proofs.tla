------------------------------ MODULE App_proofs ------------------------------
(***************************************************************************)
(* Proofs about the pages of the front end, for every set of rows, every   *)
(* role and any number of requests in flight.                              *)
(*                                                                         *)
(* The pages differ in their cells and handlers, not in what can be said   *)
(* of them, so the proof forgets as much as it can.  Of calls it keeps     *)
(* sent, the handlers with a request in flight, and twice, those that may  *)
(* have two.  The first part shows what each form of action of Browser     *)
(* does to these two (Acts, Drops, Takes, Answers), once for all pages.    *)
(*                                                                         *)
(* Then each page has its part: its invariant (...Sound), made of a few    *)
(* clauses per spinner, and a lemma that its actions keep it (...Kept).    *)
(* The cells of a page's tool or dialog and those of the frame around it   *)
(* have invariants of their own, and a step of the one is Beside the other:*)
(* it leaves its cells and its requests alone.  The last part joins them:  *)
(* each page begins with its invariant (...Mounted), AppInv is inductive,  *)
(* and it says what the theorems state (...Says).                          *)
(***************************************************************************)
EXTENDS App, FiniteSetTheorems, TLAPS

---------------------------------------------------------------------------
(* Of the requests in flight the proofs look at the handlers that await    *)
(* them: which have sent one, and which may have sent two.                 *)
Fns(C) == {c.fn : c \in C}
Twice(C) == {f \in Fns(C) : \E c, d \in C : c # d /\ c.fn = f /\ d.fn = f}
HasFn(C) == \A c \in C : "fn" \in DOMAIN c

sent == Fns(calls)
twice == Twice(calls)

\* The requests R are one for each handler of F.
Asks(R, F) == HasFn(R) /\ Fns(R) = F /\ Twice(R) = {}

LEMMA AsksNothing == Asks({}, {})
BY DEF Asks, HasFn, Fns, Twice

LEMMA AsksOnce == ASSUME NEW fn, NEW q, NEW x PROVE Asks({Req(fn, q, x)}, {fn})
<1>1. Req(fn, q, x).fn = fn /\ "fn" \in DOMAIN Req(fn, q, x)
  BY DEF Req
<1> QED
  BY <1>1 DEF Asks, HasFn, Fns, Twice

LEMMA AsksTwo ==
    ASSUME NEW R, NEW Q, NEW F, NEW G, Asks(R, F), Asks(Q, G), F \cap G = {}
    PROVE  Asks(R \cup Q, F \cup G)
<1>1. HasFn(R \cup Q) /\ Fns(R \cup Q) = F \cup G
  BY DEF Asks, HasFn, Fns
<1>2. ASSUME NEW c \in R \cup Q, NEW d \in R \cup Q, c # d, c.fn = d.fn
      PROVE  FALSE
  <2>1. (c.fn \in F <=> c \in R) /\ (d.fn \in F <=> d \in R)
    BY <1>2 DEF Asks, Fns
  <2>2. CASE c \in R
    BY <1>2, <2>1, <2>2 DEF Asks, Twice, Fns
  <2>3. CASE c \in Q
    BY <1>2, <2>1, <2>3 DEF Asks, Twice, Fns
  <2> QED
    BY <2>2, <2>3
<1> QED
  BY <1>1, <1>2 DEF Asks, Twice, Fns

LEMMA NewKeepsFn ==
    ASSUME NEW R, NEW K, HasFn(R)
    PROVE  /\ \A r \in R : \E c \in New(R, K) : c.fn = r.fn
           /\ \A c \in New(R, K) : "fn" \in DOMAIN c /\ \E r \in R : c.fn = r.fn
<1> DEFINE n(r) == [id |-> FreeId(r.fn, K), st |-> "sent", since |-> {}] ++ r
<1>1. \A r \in R : n(r).fn = r.fn /\ "fn" \in DOMAIN n(r)
  <2> SUFFICES ASSUME NEW r \in R PROVE n(r).fn = r.fn /\ "fn" \in DOMAIN n(r)
    OBVIOUS
  <2>1. "fn" \in DOMAIN r
    BY DEF HasFn
  <2> QED
    BY <2>1 DEF ++
<1>2. New(R, K) = {n(r) : r \in R}
  BY DEF New
<1> HIDE DEF n
<1> QED
  BY <1>1, <1>2

\* Follow forgets the field since of the requests, and no other.
LEMMA FollowFns ==
    ASSUME NEW K, NEW R, NEW stays, NEW screen, HasFn(K), HasFn(R),
           Follow(stays, K \cup New(R, K), screen)
    PROVE  /\ HasFn(calls')
           /\ Fns(calls') = Fns(K) \cup Fns(R)
           /\ Twice(calls') \subseteq Twice(K) \cup (Fns(K) \cap Fns(R)) \cup Twice(R)
<1> DEFINE N == K \cup New(R, K)
           g(c) == [c EXCEPT !.since = {}]
           n(r) == [id |-> FreeId(r.fn, K), st |-> "sent", since |-> {}] ++ r
<1>1. \A c \in N : "fn" \in DOMAIN c
  BY NewKeepsFn DEF HasFn
<1>2. calls' = N \/ calls' = {g(c) : c \in N}
  BY DEF Follow
<1>3. \A c \in N : g(c).fn = c.fn /\ "fn" \in DOMAIN g(c)
  BY <1>1
<1>4. HasFn(N) /\ Fns(N) = Fns(K) \cup Fns(R)
  BY NewKeepsFn, <1>1 DEF HasFn, Fns
<1>5. HasFn(calls') /\ Fns(calls') = Fns(N) /\ Twice(calls') \subseteq Twice(N)
  <2>1. CASE calls' = N
    BY <2>1, <1>4
  <2>2. CASE calls' = {g(c) : c \in N}
    <3> HIDE DEF g, N
    <3>1. HasFn(calls') /\ Fns(calls') = Fns(N)
      BY <2>2, <1>3 DEF HasFn, Fns
    <3>2. Twice(calls') \subseteq Twice(N)
      BY <2>2, <1>3, <3>1 DEF Twice, Fns
    <3> QED
      BY <3>1, <3>2
  <2> QED
    BY <1>2, <2>1, <2>2
<1>6. Twice(N) \subseteq Twice(K) \cup (Fns(K) \cap Fns(R)) \cup Twice(R)
  <2> SUFFICES ASSUME NEW c \in N, NEW d \in N, c # d, c.fn = d.fn
               PROVE  c.fn \in Twice(K) \cup (Fns(K) \cap Fns(R)) \cup Twice(R)
    BY DEF Twice, Fns
  <2>1. CASE c \in K /\ d \in K
    BY <2>1 DEF Twice, Fns
  <2>2. CASE c \in K /\ d \in New(R, K)
    BY <2>2, NewKeepsFn DEF Fns
  <2>3. CASE c \in New(R, K) /\ d \in K
    BY <2>3, NewKeepsFn DEF Fns
  <2>4. CASE c \in New(R, K) /\ d \in New(R, K)
    <3>1. New(R, K) = {n(r) : r \in R} /\ \A r \in R : n(r).fn = r.fn
      <4>1. \A r \in R : n(r).fn = r.fn
        <5> SUFFICES ASSUME NEW r \in R PROVE n(r).fn = r.fn
          OBVIOUS
        <5>1. "fn" \in DOMAIN r
          BY DEF HasFn
        <5> QED
          BY <5>1 DEF ++
      <4> QED
        BY <4>1 DEF New
    <3> HIDE DEF n, N
    <3>2. PICK r \in R, t \in R : c = n(r) /\ d = n(t)
      BY <2>4, <3>1
    <3> QED
      BY <3>1, <3>2 DEF Twice, Fns
  <2> QED
    BY <2>1, <2>2, <2>3, <2>4
<1> QED
  BY <1>4, <1>5, <1>6

---------------------------------------------------------------------------
(* What a half of a handler does: it sets cells,                           *)
Moves(cells) ==
    /\ ui' = cells ++ ui
    /\ role' = role
    /\ DOMAIN shown' = DOMAIN shown
    /\ HasFn(calls')
    /\ twice' \subseteq sent'

\* sends a request for each of F,
Acts(cells, F) ==
    /\ Moves(cells)
    /\ sent' = sent \cup F
    /\ twice' \subseteq twice \cup (sent \cap F)

\* drops those of fns before,
Drops(fns, cells, F) ==
    /\ Moves(cells)
    /\ sent' = (sent \ fns) \cup F
    /\ twice' \subseteq (twice \ fns) \cup ((sent \ fns) \cap F)

\* or takes an answer for fn before.
Takes(fn, cells, F) ==
    /\ Moves(cells)
    /\ fn \in sent
    /\ \A f : f # fn => (f \in sent' <=> f \in sent \cup F)
    /\ fn \in sent' => fn \in twice \cup F
    /\ F \subseteq sent'
    /\ twice' \subseteq twice \cup (F \cap (sent \ {fn}))

LEMMA FollowMoves ==
    ASSUME NEW K \in SUBSET calls, NEW cells, NEW R, NEW stays, NEW screen, HasFn(calls), HasFn(R),
           ui' = cells ++ ui, role' = role, DOMAIN screen = DOMAIN shown,
           Follow(stays, K \cup New(R, K), screen)
    PROVE  /\ Moves(cells)
           /\ sent' = Fns(K) \cup Fns(R)
           /\ twice' \subseteq Twice(K) \cup (Fns(K) \cap Fns(R)) \cup Twice(R)
<1>1. HasFn(K)
  BY DEF HasFn
<1>2. DOMAIN shown' = DOMAIN shown
  BY DEF Follow
<1>3. /\ HasFn(calls')
      /\ sent' = Fns(K) \cup Fns(R)
      /\ twice' \subseteq Twice(K) \cup (Fns(K) \cap Fns(R)) \cup Twice(R)
  BY <1>1, FollowFns DEF sent, twice
<1>4. twice' \subseteq sent'
  BY DEF twice, sent, Twice
<1> QED
  BY <1>2, <1>3, <1>4 DEF Moves

KeptBut(fns) == {c \in calls : c.fn \notin fns}

LEMMA KeptFns ==
    ASSUME NEW fns
    PROVE  Fns(KeptBut(fns)) = sent \ fns /\ Twice(KeptBut(fns)) \subseteq twice \ fns
<1>1. Fns(KeptBut(fns)) = sent \ fns
  BY DEF KeptBut, Fns, sent
<1>2. Twice(KeptBut(fns)) \subseteq twice \ fns
  BY DEF KeptBut, Fns, Twice, twice
<1> QED
  BY <1>1, <1>2

LEMMA ReplaceDrops ==
    ASSUME NEW stays, NEW gone, NEW fns, NEW cells, NEW R, NEW F, HasFn(calls), Asks(R, F),
           Replace(stays, gone, fns, cells, R)
    PROVE  Drops(fns, cells, F)
<1> DEFINE screen == [f \in DOMAIN shown |-> IF f \in gone THEN Nothing ELSE shown[f]]
<1>1. DOMAIN screen = DOMAIN shown
  OBVIOUS
<1>2. Follow(stays, KeptBut(fns) \cup New(R, KeptBut(fns)), screen) /\ ui' = cells ++ ui /\ role' = role
  BY DEF Replace, KeptBut
<1>3. KeptBut(fns) \in SUBSET calls
  BY DEF KeptBut
<1> HIDE DEF screen
<1>4. /\ Moves(cells)
      /\ sent' = Fns(KeptBut(fns)) \cup F
      /\ twice' \subseteq Twice(KeptBut(fns)) \cup (Fns(KeptBut(fns)) \cap F)
  BY <1>1, <1>2, <1>3, FollowMoves DEF Asks
<1> QED
  BY <1>4, KeptFns DEF Drops


LEMMA ActClearingMoves ==
    ASSUME NEW gone, NEW cells, NEW R, HasFn(calls), HasFn(R), ActClearing(gone, cells, R)
    PROVE  /\ Moves(cells)
           /\ sent' = sent \cup Fns(R)
           /\ twice' \subseteq twice \cup (sent \cap Fns(R)) \cup Twice(R)
<1> DEFINE screen == [f \in DOMAIN shown |-> IF f \in gone THEN Nothing ELSE shown[f]]
<1>1. DOMAIN screen = DOMAIN shown
  OBVIOUS
<1>2. Follow(calm /\ Idle, calls \cup New(R, calls), screen) /\ ui' = cells ++ ui /\ role' = role
  BY DEF ActClearing
<1> HIDE DEF screen
<1> QED
  BY <1>1, <1>2, FollowMoves DEF sent, twice

LEMMA ActClearingActs ==
    ASSUME NEW gone, NEW cells, NEW R, NEW F, HasFn(calls), Asks(R, F), ActClearing(gone, cells, R)
    PROVE  Acts(cells, F)
BY ActClearingMoves DEF Acts, Asks

LEMMA ActSends ==
    ASSUME NEW cells, NEW fn, NEW q, NEW x, HasFn(calls), Act(cells, {Req(fn, q, x)})
    PROVE  Acts(cells, {fn})
<1>1. Asks({Req(fn, q, x)}, {fn})
  BY AsksOnce
<1>2. ActClearing({}, cells, {Req(fn, q, x)})
  BY DEF Act
<1> QED
  BY <1>1, <1>2, ActClearingActs

LEMMA ActSets ==
    ASSUME NEW cells, HasFn(calls), Act(cells, {})
    PROVE  Acts(cells, {})
BY AsksNothing, ActClearingActs DEF Act

LEMMA ActClearingSends ==
    ASSUME NEW gone, NEW cells, NEW fn, NEW q, NEW x, HasFn(calls),
           ActClearing(gone, cells, {Req(fn, q, x)})
    PROVE  Acts(cells, {fn})
<1>1. Asks({Req(fn, q, x)}, {fn})
  BY AsksOnce
<1> QED
  BY <1>1, ActClearingActs

LEMMA ActClearingSets ==
    ASSUME NEW gone, NEW cells, HasFn(calls), ActClearing(gone, cells, {})
    PROVE  Acts(cells, {})
BY AsksNothing, ActClearingActs

LEMMA FireSets ==
    ASSUME NEW cells, HasFn(calls), Fire(cells, {})
    PROVE  Drops({}, cells, {})
BY AsksNothing, ReplaceDrops DEF Fire, FireOver

LEMMA FireOverSends ==
    ASSUME NEW fns, NEW cells, NEW fn, NEW q, NEW x, HasFn(calls), FireOver(fns, cells, {Req(fn, q, x)})
    PROVE  Drops(fns, cells, {fn})
<1>1. Asks({Req(fn, q, x)}, {fn})
  BY AsksOnce
<1> QED
  BY <1>1, ReplaceDrops DEF FireOver

LEMMA AbortClearingSets ==
    ASSUME NEW gone, NEW fns, NEW cells, HasFn(calls), AbortClearing(gone, fns, cells, {})
    PROVE  Drops(fns, cells, {})
BY AsksNothing, ReplaceDrops DEF AbortClearing

LEMMA AbortSets ==
    ASSUME NEW fns, NEW cells, HasFn(calls), Abort(fns, cells, {})
    PROVE  Drops(fns, cells, {})
BY AbortClearingSets DEF Abort

LEMMA AbortClearingSends ==
    ASSUME NEW gone, NEW fns, NEW cells, NEW fn, NEW q, NEW x, HasFn(calls),
           AbortClearing(gone, fns, cells, {Req(fn, q, x)})
    PROVE  Drops(fns, cells, {fn})
<1>1. Asks({Req(fn, q, x)}, {fn})
  BY AsksOnce
<1> QED
  BY <1>1, ReplaceDrops DEF AbortClearing

LEMMA AbortSends ==
    ASSUME NEW fns, NEW cells, NEW fn, NEW q, NEW x, HasFn(calls), Abort(fns, cells, {Req(fn, q, x)})
    PROVE  Drops(fns, cells, {fn})
BY AbortClearingSends DEF Abort

LEMMA SettleShowingMoves ==
    ASSUME NEW c \in calls, NEW cells, NEW R, NEW screen, HasFn(calls), HasFn(R), DOMAIN screen = DOMAIN shown,
           SettleShowing(c, cells, R, screen)
    PROVE  /\ Moves(cells)
           /\ c.fn \in sent
           /\ \A f : f # c.fn => (f \in sent' <=> f \in sent \cup Fns(R))
           /\ c.fn \in sent' => c.fn \in twice \cup Fns(R)
           /\ Fns(R) \subseteq sent'
           /\ twice' \subseteq twice \cup (Fns(R) \cap (sent \ {c.fn})) \cup Twice(R)
<1> DEFINE K == calls \ {c}
<1>1. /\ Moves(cells)
      /\ sent' = Fns(K) \cup Fns(R)
      /\ twice' \subseteq Twice(K) \cup (Fns(K) \cap Fns(R)) \cup Twice(R)
  BY FollowMoves DEF SettleShowing
<1>2. c.fn \in sent
  BY DEF sent, Fns
<1>3. /\ \A f : f # c.fn => (f \in Fns(K) <=> f \in sent)
      /\ c.fn \in Fns(K) => c.fn \in twice
  BY DEF sent, twice, Fns, Twice
<1>4. Twice(K) \subseteq twice
  BY DEF twice, Fns, Twice
<1> HIDE DEF K
<1> QED
  BY <1>1, <1>2, <1>3, <1>4

LEMMA SettleShowingTakes ==
    ASSUME NEW c \in calls, NEW cells, NEW R, NEW F, NEW screen, HasFn(calls), Asks(R, F),
           DOMAIN screen = DOMAIN shown, SettleShowing(c, cells, R, screen)
    PROVE  Takes(c.fn, cells, F)
BY SettleShowingMoves DEF Takes, Asks

LEMMA SettleTakes ==
    ASSUME NEW c \in calls, NEW cells, HasFn(calls), Settle(c, cells, {})
    PROVE  Takes(c.fn, cells, {})
BY AsksNothing, SettleShowingTakes DEF Settle

LEMMA SettleSends ==
    ASSUME NEW c \in calls, NEW cells, NEW fn, NEW q, NEW x, HasFn(calls), Settle(c, cells, {Req(fn, q, x)})
    PROVE  Takes(c.fn, cells, {fn})
<1>1. Asks({Req(fn, q, x)}, {fn})
  BY AsksOnce
<1> QED
  BY <1>1, SettleShowingTakes DEF Settle

LEMMA DisplayTakes ==
    ASSUME NEW c \in calls, NEW fn, NEW cells, HasFn(calls), Display(c, fn, cells, {})
    PROVE  Takes(c.fn, cells, {})
BY AsksNothing, SettleShowingTakes DEF Display

LEMMA DisplaySends ==
    ASSUME NEW c \in calls, NEW read, NEW cells, NEW fn, NEW q, NEW x, HasFn(calls),
           Display(c, read, cells, {Req(fn, q, x)})
    PROVE  Takes(c.fn, cells, {fn})
<1>1. Asks({Req(fn, q, x)}, {fn})
  BY AsksOnce
<1>2. DOMAIN [shown EXCEPT ![read] = [q |-> c.q, x |-> c.x, since |-> c.since]] = DOMAIN shown
  OBVIOUS
<1> QED
  BY <1>1, <1>2, SettleShowingTakes DEF Display

LEMMA ClearTakes ==
    ASSUME NEW c \in calls, NEW fn, NEW cells, HasFn(calls), Clear(c, fn, cells)
    PROVE  Takes(c.fn, cells, {})
BY AsksNothing, SettleShowingTakes DEF Clear

LEMMA DoneTakes ==
    ASSUME NEW fn, NEW cells, HasFn(calls), Done(fn, cells)
    PROVE  Takes(fn, cells, {})
BY SettleTakes DEF Done, Ok

LEMMA FailsTakes ==
    ASSUME NEW fn, NEW cells, HasFn(calls), Fails(fn, cells)
    PROVE  Takes(fn, cells, {})
BY SettleTakes DEF Fails, Failed

LEMMA ShowTakes ==
    ASSUME NEW fn, NEW cells, HasFn(calls), Show(fn, cells)
    PROVE  Takes(fn, cells, {})
BY DisplayTakes DEF Show, Ok

---------------------------------------------------------------------------
(* What the server and the network do leaves the cells and the handlers.   *)
Answers ==
    /\ ui' = ui
    /\ role' = role
    /\ DOMAIN shown' = DOMAIN shown
    /\ HasFn(calls')
    /\ sent' = sent
    /\ twice' \subseteq twice

LEMMA MappedAnswers ==
    ASSUME NEW stays, NEW C, NEW screen, HasFn(calls), ui' = ui, role' = role, DOMAIN screen = DOMAIN shown,
           HasFn(C), Fns(C) = sent, Twice(C) \subseteq twice, Follow(stays, C, screen)
    PROVE  Answers
<1>1. New({}, C) = {}
  BY DEF New
<1>2. C \cup New({}, C) = C
  BY <1>1
<1>3. Fns({}) = {} /\ Twice({}) = {} /\ HasFn({})
  BY AsksNothing DEF Asks
<1>4. Follow(stays, C \cup New({}, C), screen)
  BY <1>2
<1>5. /\ HasFn(calls')
      /\ Fns(calls') = Fns(C) \cup Fns({})
      /\ Twice(calls') \subseteq Twice(C) \cup (Fns(C) \cap Fns({})) \cup Twice({})
  BY <1>3, <1>4, FollowFns
<1>6. sent' = Fns(calls') /\ twice' = Twice(calls')
  BY DEF sent, twice
<1>7. DOMAIN shown' = DOMAIN shown
  BY DEF Follow
<1> QED
  BY <1>3, <1>5, <1>6, <1>7 DEF Answers

LEMMA ImageFns ==
    ASSUME NEW C, NEW c \in calls, HasFn(calls), NEW e, NEW reads, NEW write, "fn" \in DOMAIN e, e.fn = c.fn,
           \A x \in C : x = e \/ \E d \in calls \ {c} : x = Aged(d, reads, write),
           e \in C, \A d \in calls \ {c} : Aged(d, reads, write) \in C
    PROVE  HasFn(C) /\ Fns(C) = sent /\ Twice(C) \subseteq twice
<1> DEFINE a(d) == Aged(d, reads, write)
<1>1. \A d \in calls : a(d).fn = d.fn /\ "fn" \in DOMAIN a(d)
  BY DEF Aged, HasFn
<1>2. /\ \A x \in C : x = e \/ \E d \in calls \ {c} : x = a(d)
      /\ e \in C /\ \A d \in calls \ {c} : a(d) \in C
  OBVIOUS
<1> HIDE DEF a
<1>3. HasFn(C)
  BY <1>1, <1>2 DEF HasFn
<1>4. Fns(C) = sent
  <2>1. ASSUME NEW x \in C PROVE x.fn \in sent
    BY <1>1, <1>2 DEF Fns, sent
  <2>2. ASSUME NEW d \in calls PROVE \E x \in C : x.fn = d.fn
    <3>1. CASE d = c
      BY <1>2, <3>1
    <3>2. CASE d # c
      BY <1>1, <1>2, <3>2
    <3> QED
      BY <3>1, <3>2
  <2> QED
    BY <2>1, <2>2 DEF Fns, sent
<1>5. ASSUME NEW x \in C, NEW y \in C, x # y, x.fn = y.fn
      PROVE  x.fn \in twice
  <2>1. ASSUME NEW d \in calls \ {c}, NEW b \in calls \ {c}, x = a(d), y = a(b)
        PROVE  x.fn \in twice
    <3>1. d # b /\ d.fn = x.fn /\ b.fn = x.fn
      BY <1>1, <1>5, <2>1
    <3> QED
      BY <3>1 DEF twice, Twice, Fns
  <2>2. ASSUME NEW d \in calls \ {c}, d.fn = c.fn
        PROVE  c.fn \in twice
    BY <2>2 DEF twice, Twice, Fns
  <2>3. CASE x = e
    BY <2>3, <2>2, <1>1, <1>2, <1>5
  <2>4. CASE y = e
    BY <2>4, <2>2, <1>1, <1>2, <1>5
  <2> QED
    BY <2>1, <2>3, <2>4, <1>2
<1>6. Twice(C) \subseteq twice
  BY <1>5 DEF Twice, Fns
<1> QED
  BY <1>3, <1>4, <1>6

LEMMA ServeAnswers ==
    ASSUME NEW touches, NEW maybe, HasFn(calls), Serve(touches, maybe)
    PROVE  Answers
<1>1. PICK c \in calls, st \in {"ok", "same"}, wrote \in BOOLEAN :
        LET changes == IF st = "ok" THEN touches ELSE maybe
            old == IF wrote /\ c.fn \in DOMAIN changes THEN changes[c.fn] ELSE {}
        IN  /\ c.st = "sent"
            /\ IF st = "ok" THEN wrote ELSE c.fn \in DOMAIN maybe
            /\ Follow(calm,
                      {Aged(d, old, <<c.fn, st>>) : d \in calls \ {c}} \cup {[c EXCEPT !.st = st, !.since = {}]},
                      [f \in DOMAIN shown |->
                          IF f \in old THEN [shown[f] EXCEPT !.since = @ \cup {<<c.fn, st>>}] ELSE shown[f]])
            /\ UNCHANGED <<role, ui>>
  BY DEF Serve
<1> DEFINE changes == IF st = "ok" THEN touches ELSE maybe
           old == IF wrote /\ c.fn \in DOMAIN changes THEN changes[c.fn] ELSE {}
           w == <<c.fn, st>>
           e == [c EXCEPT !.st = st, !.since = {}]
           C == {Aged(d, old, w) : d \in calls \ {c}} \cup {e}
           screen == [f \in DOMAIN shown |-> IF f \in old THEN [shown[f] EXCEPT !.since = @ \cup {w}] ELSE shown[f]]
<1>2. Follow(calm, C, screen) /\ ui' = ui /\ role' = role
  BY <1>1
<1>3. "fn" \in DOMAIN e /\ e.fn = c.fn
  BY DEF HasFn
<1>4. DOMAIN screen = DOMAIN shown
  OBVIOUS
<1> HIDE DEF e, screen, old, w, changes
<1>5. /\ \A x \in C : x = e \/ \E d \in calls \ {c} : x = Aged(d, old, w)
      /\ e \in C /\ \A d \in calls \ {c} : Aged(d, old, w) \in C
  OBVIOUS
<1> HIDE DEF C
<1>6. PICK reads, write :
        /\ \A x \in C : x = e \/ \E d \in calls \ {c} : x = Aged(d, reads, write)
        /\ e \in C /\ \A d \in calls \ {c} : Aged(d, reads, write) \in C
  BY <1>5
<1>7. HasFn(C) /\ Fns(C) = sent /\ Twice(C) \subseteq twice
  BY <1>3, <1>6, ImageFns
<1> QED
  BY <1>2, <1>4, <1>7, MappedAnswers

LEMMA RefuseAnswers ==
    ASSUME HasFn(calls), Refuse
    PROVE  Answers
<1>1. PICK c \in calls :
        /\ Follow(FALSE, (calls \ {c}) \cup {[c EXCEPT !.st = "failed"]}, shown)
        /\ UNCHANGED <<role, ui>>
  BY DEF Refuse
<1> DEFINE e == [c EXCEPT !.st = "failed"]
           C == {Aged(d, {}, None) : d \in calls \ {c}} \cup {e}
<1>2. "fn" \in DOMAIN e /\ e.fn = c.fn
  BY DEF HasFn
<1>3. C = (calls \ {c}) \cup {e}
  BY DEF Aged
<1>4. Follow(FALSE, C, shown) /\ ui' = ui /\ role' = role
  BY <1>1, <1>3
<1> HIDE DEF e
<1>5. /\ \A x \in C : x = e \/ \E d \in calls \ {c} : x = Aged(d, {}, None)
      /\ e \in C /\ \A d \in calls \ {c} : Aged(d, {}, None) \in C
  OBVIOUS
<1> HIDE DEF C
<1>6. HasFn(C) /\ Fns(C) = sent /\ Twice(C) \subseteq twice
  BY <1>2, <1>5, ImageFns
<1> QED
  BY <1>4, <1>6, MappedAnswers

---------------------------------------------------------------------------
(* The first render.                                                       *)
LEMMA MountSends ==
    ASSUME NEW cells, NEW R, NEW F, NEW reads, Asks(R, F), Mount(cells, R, reads)
    PROVE  /\ ui = cells
           /\ DOMAIN shown = reads
           /\ HasFn(calls) /\ sent = F /\ twice = {}
<1> DEFINE n(r) == [id |-> FreeId(r.fn, {}), st |-> "sent", since |-> {}] ++ r
<1>1. ui = cells /\ calls = New(R, {}) /\ DOMAIN shown = reads
  BY DEF Mount
<1>2. calls = {n(r) : r \in R}
  BY <1>1 DEF New
<1>3. \A r \in R : n(r).fn = r.fn /\ "fn" \in DOMAIN n(r)
  <2> SUFFICES ASSUME NEW r \in R PROVE n(r).fn = r.fn /\ "fn" \in DOMAIN n(r)
    OBVIOUS
  <2>1. "fn" \in DOMAIN r
    BY DEF Asks, HasFn
  <2> QED
    BY <2>1 DEF ++
<1> HIDE DEF n
<1>4. HasFn(calls) /\ sent = F
  BY <1>2, <1>3 DEF HasFn, sent, Fns, Asks
<1>5. twice = {}
  <2> SUFFICES ASSUME NEW c \in calls, NEW d \in calls, c # d, c.fn = d.fn PROVE FALSE
    BY DEF twice, Twice, Fns
  <2>1. PICK r \in R, t \in R : c = n(r) /\ d = n(t)
    BY <1>2
  <2> QED
    BY <2>1, <1>3 DEF Asks, Twice, Fns
<1> QED
  BY <1>1, <1>4, <1>5

---------------------------------------------------------------------------
(* What holds at every moment of each page.  A spinner Turns only while    *)
(* the request is under way that ends it; a cell that Guards commands is   *)
(* TRUE exactly while one of them is, and then it is one only; and what    *)
(* only some roles may send, and the dialogs that send it, are OnlyFor     *)
(* them.                                                                   *)
Quiet(S) == \A f \in S : f \notin sent
Busy(S) == \E f \in S : f \in sent /\ f \notin twice /\ (\A g \in S : g \in sent => g = f)

Page(p, reads) == ui.page = p /\ DOMAIN shown = reads /\ role \in Roles
Cells(S) == DOMAIN ui = S
Turns(l, S) == ui[l] => \E f \in S : f \in sent
Guards(l, S) == (ui[l] => Busy(S)) /\ (~ui[l] => Quiet(S))
OnlyFor(r, S) == hasRole(r) \/ Quiet(S)
Within(S) == \A f : f \in sent => f \in S

LEMMA RoleKept == ASSUME role' = role PROVE \A r : hasRole(r)' <=> hasRole(r)
BY DEF hasRole

LEMMA TwiceSent == twice \subseteq sent
BY DEF twice, sent, Twice

LEMMA NoCells == DOMAIN <<>> = {}
OBVIOUS

\* Of the cells at most those of D, and of the requests at most those of G.
Has(S) == \A l \in S : l \in DOMAIN ui
Beside(D, G) ==
    /\ DOMAIN ui' = DOMAIN ui /\ \A l \in DOMAIN ui : l \notin D => ui'[l] = ui[l]
    /\ role' = role /\ DOMAIN shown' = DOMAIN shown /\ HasFn(calls')
    /\ \A f : f \in G \/ ((f \in sent' <=> f \in sent) /\ (f \in twice' => f \in twice))

LEMMA AnswersBeside == ASSUME Answers, NEW D, NEW G PROVE Beside(D, G)
BY DEF Answers, Beside

\* Sends requests for F, of which a handler may have two.
Repeats(cells, F) ==
    /\ Moves(cells)
    /\ sent' = sent \cup F
    /\ twice' \subseteq twice \cup F

\* Takes an answer for fn and sends such requests.
Forwards(fn, cells, F) ==
    /\ Moves(cells)
    /\ fn \in sent
    /\ \A f : f # fn => (f \in sent' <=> f \in sent \cup F)
    /\ fn \in sent' => fn \in twice \cup F
    /\ F \subseteq sent'
    /\ twice' \subseteq twice \cup F

SendsFor(R, F) == HasFn(R) /\ Fns(R) = F

LEMMA SendsForOne == ASSUME NEW fn, NEW q, NEW x PROVE SendsFor({Req(fn, q, x)}, {fn})
BY AsksOnce DEF Asks, SendsFor

LEMMA SendsForBoth ==
    ASSUME NEW R, NEW Q, NEW F, NEW G, SendsFor(R, F), SendsFor(Q, G)
    PROVE  SendsFor(R \cup Q, F \cup G)
BY DEF SendsFor, HasFn, Fns

LEMMA ActRepeats ==
    ASSUME NEW cells, NEW R, NEW F, HasFn(calls), SendsFor(R, F), Act(cells, R)
    PROVE  Repeats(cells, F)
<1>1. ActClearing({}, cells, R) /\ Twice(R) \subseteq F
  BY DEF Act, SendsFor, Twice
<1> QED
  BY <1>1, ActClearingMoves DEF Repeats, SendsFor

LEMMA FireRepeats ==
    ASSUME NEW cells, NEW R, NEW F, HasFn(calls), SendsFor(R, F), Fire(cells, R)
    PROVE  Repeats(cells, F)
<1> DEFINE kept == {c \in calls : c.fn \notin {}}
           screen == [f \in DOMAIN shown |-> IF f \in {} THEN Nothing ELSE shown[f]]
<1>1. Replace(calm, {}, {}, cells, R)
  BY DEF Fire, FireOver
<1>2. ui' = cells ++ ui /\ role' = role /\ Follow(calm, kept \cup New(R, kept), screen)
  BY <1>1 DEF Replace
<1>3. kept = calls /\ DOMAIN screen = DOMAIN shown /\ Twice(R) \subseteq F
  BY DEF SendsFor, Twice
<1> HIDE DEF kept, screen
<1>4. Follow(calm, calls \cup New(R, calls), screen)
  BY <1>2, <1>3
<1> QED
  BY <1>2, <1>3, <1>4, FollowMoves DEF Repeats, SendsFor, sent, twice

LEMMA SettleForwards ==
    ASSUME NEW c \in calls, NEW cells, NEW R, NEW F, HasFn(calls), SendsFor(R, F), Settle(c, cells, R)
    PROVE  Forwards(c.fn, cells, F)
<1>1. SettleShowing(c, cells, R, shown) /\ Twice(R) \subseteq F
  BY DEF Settle, SendsFor, Twice
<1> QED
  BY <1>1, SettleShowingMoves DEF Forwards, SendsFor

LEMMA OkSends ==
    ASSUME NEW sender, NEW c \in Ok(sender), NEW cells, NEW fn, NEW q, NEW x, HasFn(calls),
           Settle(c, cells, {Req(fn, q, x)})
    PROVE  Takes(sender, cells, {fn})
BY SettleSends DEF Ok

LEMMA OkTakes ==
    ASSUME NEW sender, NEW c \in Ok(sender), NEW cells, HasFn(calls), Settle(c, cells, {})
    PROVE  Takes(sender, cells, {})
BY SettleTakes DEF Ok

LEMMA OkDisplays ==
    ASSUME NEW sender, NEW c \in Ok(sender), NEW read, NEW cells, HasFn(calls), Display(c, read, cells, {})
    PROVE  Takes(sender, cells, {})
BY DisplayTakes DEF Ok

LEMMA OrFailedTakes ==
    ASSUME NEW sender, NEW c \in Ok(sender) \cup Failed(sender), NEW cells, HasFn(calls), Settle(c, cells, {})
    PROVE  Takes(sender, cells, {})
BY SettleTakes DEF Ok, Failed

---------------------------------------------------------------------------
(* UsersPage.tsx                                                           *)
UserDialogs == {"handleCreateUser", "handleEditUser", "handleResetPassword"}
UserCommands == {"handleEditUser", "handleResetPassword", "handleToggleActive", "handleDeleteUser"}
UsersSound ==
    /\ Page("UsersPage", {"fetchUsers"}) /\ hasRole("Administrator")
    /\ Cells({"page", "currentPage", "loading", "modalMode", "selectedUser", "submitting"})
    /\ Turns("loading", {"fetchUsers"}) /\ Guards("submitting", UserDialogs)
    /\ OnlyFor("SuperAdmin", UserCommands)
    /\ hasRole("SuperAdmin") \/ ui.modalMode \notin {"edit", "reset-password"}
    /\ Within({"fetchUsers"} \cup UserDialogs \cup UserCommands)

LEMMA ReloadUsersTakes ==
    ASSUME NEW fn, NEW cells, HasFn(calls), ReloadUsers(fn, cells)
    PROVE  Takes(fn, [loading |-> TRUE] ++ cells, {"fetchUsers"})
BY SettleSends DEF ReloadUsers, Ok

LEMMA UsersKept ==
    ASSUME HasFn(calls), UsersSound, UsersPageNext \/ Answers
    PROVE  UsersSound' /\ HasFn(calls')
<1> USE RoleKept, TwiceSent, NoCells, UsersAssumption
    DEF Page, Cells, Turns, Guards, OnlyFor, Within, Busy, Quiet, UsersSound, UserDialogs, UserCommands,
        UserDialogDone, ModalModes
<1>1. CASE fetchUsers
  <2>1. \/ Acts([loading |-> TRUE], {"fetchUsers"})
        \/ Takes("fetchUsers", [loading |-> FALSE], {})
    BY <1>1, ActSends, ShowTakes, FailsTakes DEF fetchUsers
  <2> QED
    BY <2>1 DEF Acts, Takes, Moves, ++
<1>2. CASE UsersPageChange
  <2>1. \E q : Acts([currentPage |-> q, loading |-> TRUE], {"fetchUsers"})
    BY <1>2, ActSends DEF UsersPageChange
  <2> QED
    BY <2>1 DEF Acts, Moves, ++
<1>3. CASE openCreate
  <2>1. Acts([selectedUser |-> None, modalMode |-> "create"], {})
    BY <1>3, ActSets DEF openCreate
  <2> QED
    BY <2>1 DEF Acts, Moves, ++
<1>4. CASE openUser
  <2>1. hasRole("SuperAdmin") /\ \E u, m : Acts([selectedUser |-> u, modalMode |-> m], {})
    BY <1>4, ActSets DEF openUser, UserActions
  <2> QED
    BY <2>1 DEF Acts, Moves, ++
<1>5. CASE cancelUser
  <2>1. Acts([modalMode |-> None], {})
    BY <1>5, ActSets DEF cancelUser
  <2> QED
    BY <2>1 DEF Acts, Moves, ++
<1>6. CASE handleCreateUser
  <2>1. \/ ~ui.submitting /\ ui.modalMode = "create" /\ Acts([submitting |-> TRUE], {"handleCreateUser"})
        \/ Takes("handleCreateUser", [loading |-> TRUE] ++ UserDialogDone, {"fetchUsers"})
        \/ Takes("handleCreateUser", [submitting |-> FALSE], {})
    BY <1>6, ActSends, ReloadUsersTakes, DoneTakes, FailsTakes DEF handleCreateUser, SubmitUser
  <2> QED
    BY <2>1 DEF Acts, Takes, Moves, ++
<1>7. CASE handleEditUser
  <2>1. \/ ~ui.submitting /\ ui.modalMode = "edit" /\ Acts([submitting |-> TRUE], {"handleEditUser"})
        \/ Takes("handleEditUser", [loading |-> TRUE] ++ UserDialogDone, {"fetchUsers"})
        \/ Takes("handleEditUser", [submitting |-> FALSE], {})
    BY <1>7, ActSends, ReloadUsersTakes, DoneTakes, FailsTakes DEF handleEditUser, SubmitUser
  <2> QED
    BY <2>1 DEF Acts, Takes, Moves, ++
<1>8. CASE handleResetPassword
  <2>1. \/ ~ui.submitting /\ ui.modalMode = "reset-password"
               /\ Acts([submitting |-> TRUE], {"handleResetPassword"})
        \/ Takes("handleResetPassword", UserDialogDone, {})
        \/ Takes("handleResetPassword", [submitting |-> FALSE], {})
    BY <1>8, ActSends, ReloadUsersTakes, DoneTakes, FailsTakes DEF handleResetPassword, SubmitUser
  <2> QED
    BY <2>1 DEF Acts, Takes, Moves, ++
<1>9. CASE handleToggleActive
  <2>1. \/ hasRole("SuperAdmin") /\ Acts(<<>>, {"handleToggleActive"})
        \/ Takes("handleToggleActive", [loading |-> TRUE] ++ <<>>, {"fetchUsers"})
        \/ Takes("handleToggleActive", <<>>, {})
    BY <1>9, ActSends, ReloadUsersTakes, FailsTakes DEF handleToggleActive, ConfirmUser, UserActions
  <2> QED
    BY <2>1 DEF Acts, Takes, Moves, ++
<1>10. CASE handleDeleteUser
  <2>1. \/ hasRole("SuperAdmin") /\ Acts(<<>>, {"handleDeleteUser"})
        \/ Takes("handleDeleteUser", [loading |-> TRUE] ++ <<>>, {"fetchUsers"})
        \/ Takes("handleDeleteUser", <<>>, {})
    BY <1>10, ActSends, ReloadUsersTakes, FailsTakes DEF handleDeleteUser, ConfirmUser, UserActions
  <2> QED
    BY <2>1 DEF Acts, Takes, Moves, ++
<1>11. CASE Answers
  BY <1>11 DEF Answers
<1> QED
  BY <1>1, <1>2, <1>3, <1>4, <1>5, <1>6, <1>7, <1>8, <1>9, <1>10, <1>11 DEF UsersPageNext

(* PendingApprovalsPage.tsx                                                *)
PendingSound ==
    /\ Page("PendingApprovalsPage", {"fetchPending", "listCabinets"}) /\ hasRole("Administrator")
    /\ Cells({"page", "currentPage", "loading", "user", "approving"})
    /\ Turns("loading", {"fetchPending"}) /\ Guards("approving", {"handleApprove"})
    /\ Within({"fetchPending", "listCabinets", "handleReject", "handleApprove"})

LEMMA ReloadPendingTakes ==
    ASSUME NEW fn, NEW cells, HasFn(calls), ReloadPending(fn, cells)
    PROVE  Takes(fn, [loading |-> TRUE] ++ cells, {"fetchPending"})
BY SettleSends DEF ReloadPending, Ok

LEMMA PendingKept ==
    ASSUME HasFn(calls), PendingSound, PendingApprovalsNext \/ Answers
    PROVE  PendingSound' /\ HasFn(calls')
<1> USE RoleKept, TwiceSent, NoCells
    DEF Page, Cells, Turns, Guards, OnlyFor, Within, Busy, Quiet, PendingSound
<1>1. CASE fetchPending
  <2>1. Takes("fetchPending", [loading |-> FALSE], {})
    BY <1>1, ShowTakes, FailsTakes DEF fetchPending
  <2> QED
    BY <2>1 DEF Takes, Moves, ++
<1>2. CASE PendingPageChange
  <2>1. \E q : Acts([currentPage |-> q, loading |-> TRUE], {"fetchPending"})
    BY <1>2, ActSends DEF PendingPageChange
  <2> QED
    BY <2>1 DEF Acts, Moves, ++
<1>3. CASE handleReject
  <2>1. \/ Acts(<<>>, {"handleReject"})
        \/ Takes("handleReject", [loading |-> TRUE] ++ <<>>, {"fetchPending"})
        \/ Takes("handleReject", <<>>, {})
    BY <1>3, ActSends, ReloadPendingTakes, FailsTakes DEF handleReject
  <2> QED
    BY <2>1 DEF Acts, Takes, Moves, ++
<1>4. CASE openApprove
  <2>1. \E u : Acts([user |-> u], {"listCabinets"})
    BY <1>4, ActSends DEF openApprove
  <2> QED
    BY <2>1 DEF Acts, Moves, ++
<1>5. CASE listCabinets
  <2>1. Takes("listCabinets", <<>>, {})
    BY <1>5, ShowTakes, ClearTakes DEF listCabinets, Failed
  <2> QED
    BY <2>1 DEF Takes, Moves, ++
<1>6. CASE closeApprove
  <2>1. Acts([user |-> None], {})
    BY <1>6, ActSets DEF closeApprove
  <2> QED
    BY <2>1 DEF Acts, Moves, ++
<1>7. CASE handleApprove
  <2>1. \/ ~ui.approving /\ Acts([approving |-> TRUE], {"handleApprove"})
        \/ Takes("handleApprove", [loading |-> TRUE] ++ [user |-> None, approving |-> FALSE], {"fetchPending"})
        \/ Takes("handleApprove", [approving |-> FALSE], {})
    BY <1>7, ActSends, ReloadPendingTakes, FailsTakes DEF handleApprove
  <2> QED
    BY <2>1 DEF Acts, Takes, Moves, ++
<1>8. CASE Answers
  BY <1>8 DEF Answers
<1> QED
  BY <1>1, <1>2, <1>3, <1>4, <1>5, <1>6, <1>7, <1>8 DEF PendingApprovalsNext

(* AuditLogPage.tsx                                                        *)
AuditLogSound ==
    /\ Page("AuditLogPage", {"fetchLogs"}) /\ hasRole("Administrator")
    /\ Cells({"page", "currentPage", "filter", "loading"})
    /\ Turns("loading", {"fetchLogs"})
    /\ Within({"fetchLogs"})

LEMMA AuditLogKept ==
    ASSUME HasFn(calls), AuditLogSound, AuditLogNext \/ Answers
    PROVE  AuditLogSound' /\ HasFn(calls')
<1> USE RoleKept, TwiceSent, NoCells
    DEF Page, Cells, Turns, Guards, OnlyFor, Within, Busy, Quiet, AuditLogSound
<1>1. CASE fetchLogs
  <2>1. \/ Acts([loading |-> TRUE], {"fetchLogs"})
        \/ Takes("fetchLogs", [loading |-> FALSE], {})
    BY <1>1, ActSends, ShowTakes, FailsTakes DEF fetchLogs
  <2> QED
    BY <2>1 DEF Acts, Takes, Moves, ++
<1>2. CASE setLogFilter
  <2>1. \E f : Acts([filter |-> f, loading |-> TRUE], {"fetchLogs"})
    BY <1>2, ActSends DEF setLogFilter
  <2> QED
    BY <2>1 DEF Acts, Moves, ++
<1>3. CASE LogPageChange
  <2>1. \E q : Acts([currentPage |-> q, loading |-> TRUE], {"fetchLogs"})
    BY <1>3, ActSends DEF LogPageChange
  <2> QED
    BY <2>1 DEF Acts, Moves, ++
<1>4. CASE Answers
  BY <1>4 DEF Answers
<1> QED
  BY <1>1, <1>2, <1>3, <1>4 DEF AuditLogNext

(* RegistrationPage.tsx                                                    *)
RegistrationSound ==
    /\ Page("RegistrationPage", {})
    /\ Cells({"page", "loading", "errorMsg", "submitted"})
    /\ Guards("loading", {"register"})
    /\ Within({"register"})

LEMMA RegistrationKept ==
    ASSUME HasFn(calls), RegistrationSound, RegistrationNext \/ Answers
    PROVE  RegistrationSound' /\ HasFn(calls')
<1> USE RoleKept, TwiceSent, NoCells
    DEF Page, Cells, Turns, Guards, OnlyFor, Within, Busy, Quiet, RegistrationSound
<1>1. CASE register
  <2>1. \/ ~ui.loading /\ Acts([loading |-> TRUE, errorMsg |-> FALSE], {"register"})
        \/ Takes("register", [submitted |-> TRUE, loading |-> FALSE], {})
        \/ Takes("register", [errorMsg |-> TRUE, loading |-> FALSE], {})
    BY <1>1, ActSends, DoneTakes, FailsTakes DEF register
  <2> QED
    BY <2>1 DEF Acts, Takes, Moves, ++
<1>2. CASE dismissError
  <2>1. Acts([errorMsg |-> FALSE], {})
    BY <1>2, ActSets DEF dismissError
  <2> QED
    BY <2>1 DEF Acts, Moves, ++
<1>3. CASE Answers
  BY <1>3 DEF Answers
<1> QED
  BY <1>1, <1>2, <1>3 DEF RegistrationNext

(* The dialogs of RecordDialogs.                                           *)
LEMMA OpenCheckMoves ==
    ASSUME NEW q, NEW r, HasFn(calls), openCheck(q, r)
    PROVE  Acts([checkAvailRecord |-> r, running |-> TRUE], {"runCheck"})
BY ActClearingSends DEF openCheck

LEMMA CloseCheckMoves ==
    ASSUME HasFn(calls), closeCheck
    PROVE  Drops({"runCheck"}, [checkAvailRecord |-> None, running |-> FALSE], {})
BY AbortSets DEF closeCheck

LEMMA RunCheckMoves ==
    ASSUME NEW cells, NEW read, HasFn(calls), runCheck(cells, read)
    PROVE  \/ Takes("runCheck", [running |-> FALSE] ++ cells, {read})
           \/ Takes("runCheck", [running |-> FALSE], {})
<1>1. ASSUME NEW c \in Ok("runCheck"),
             Display(c, "runCheck", [running |-> FALSE] ++ cells, {Req(read, c.q, None)})
      PROVE  Takes("runCheck", [running |-> FALSE] ++ cells, {read})
  BY <1>1, DisplaySends DEF Ok
<1>2. ASSUME NEW c \in Same("runCheck"), Display(c, "runCheck", [running |-> FALSE], {})
      PROVE  Takes("runCheck", [running |-> FALSE], {})
  BY <1>2, DisplayTakes DEF Same
<1> QED
  BY <1>1, <1>2, FailsTakes DEF runCheck

LEMMA OpenScanMoves ==
    ASSUME NEW q, HasFn(calls), openScan(q)
    PROVE  \E ids, now : LET cells == [scanIds |-> ids, started |-> now, agreed |-> FALSE]
                         IN  Acts(cells, {"runScan"}) \/ Acts(cells, {})
<1>1. PICK ids \in {"few", "many"} :
        Act([scanIds |-> ids, started |-> ~needsConfirm(ids), agreed |-> FALSE],
            IF ui.started \/ ~needsConfirm(ids) THEN {Req("runScan", q, ids)} ELSE {})
  BY DEF openScan
<1> DEFINE cells == [scanIds |-> ids, started |-> ~needsConfirm(ids), agreed |-> FALSE]
<1>2. Act(cells, {Req("runScan", q, ids)}) \/ Act(cells, {})
  BY <1>1
<1> HIDE DEF cells
<1>3. Acts(cells, {"runScan"}) \/ Acts(cells, {})
  BY <1>2, ActSends, ActSets
<1> QED
  BY <1>3 DEF cells

LEMMA ScanMoves ==
    ASSUME NEW q, NEW cells, NEW read, HasFn(calls), ScanNext(q, cells, read)
    PROVE  \/ Drops({"runScan"}, [started |-> TRUE, agreed |-> TRUE], {"runScan"})
           \/ Drops({"runScan"}, [scanIds |-> None], {})
           \/ Acts([scanIds |-> None], {})
           \/ Takes("runScan", cells, {read})
           \/ Takes("runScan", <<>>, {})
<1>1. CASE startScan(q)
  BY <1>1, AbortSends DEF startScan
<1>2. CASE closeScan
  BY <1>2, AbortSets DEF closeScan
<1>3. CASE cancelScan
  BY <1>3, ActSets DEF cancelScan
<1>4. CASE runScan(cells, read)
  BY <1>4, SettleSends, SettleTakes DEF runScan, Ok, Same, Failed
<1> QED
  BY <1>1, <1>2, <1>3, <1>4 DEF ScanNext

LEMMA OpenDuplicatesMoves ==
    ASSUME HasFn(calls), openDuplicates
    PROVE  Acts([duplicatesOpen |-> TRUE] ++ DuplicatesLoading, {"fetchDuplicates"})
BY ActSends DEF openDuplicates, FetchDuplicates

DuplicatesDialog ==
    {"duplicatesOpen", "duplicatesLoading", "duplicatesError", "data", "scanIds", "started", "agreed"}

LEMMA DuplicatesKept ==
    ASSUME HasFn(calls), Has(DuplicatesDialog), Turns("duplicatesLoading", {"fetchDuplicates"}),
           openDuplicates \/ DuplicatesNext
    PROVE  Turns("duplicatesLoading", {"fetchDuplicates"})'
               /\ Beside(DuplicatesDialog, {"fetchDuplicates", "runScan"})
<1> USE NoCells
    DEF Has, Turns, Beside, DuplicatesDialog, DuplicatesLoading
<1>1. CASE openDuplicates
  <2>1. Acts([duplicatesOpen |-> TRUE] ++ DuplicatesLoading, {"fetchDuplicates"})
    BY <1>1, OpenDuplicatesMoves
  <2> QED
    BY <2>1 DEF Acts, Moves, ++
<1>2. CASE closeDuplicates
  <2>1. Acts([duplicatesOpen |-> FALSE], {})
    BY <1>2, ActSets DEF closeDuplicates
  <2> QED
    BY <2>1 DEF Acts, Moves, ++
<1>3. CASE fetchDuplicates
  <2>1. \/ Takes("fetchDuplicates", [duplicatesLoading |-> FALSE, data |-> TRUE], {})
        \/ Takes("fetchDuplicates", [duplicatesLoading |-> FALSE, duplicatesError |-> TRUE], {})
    BY <1>3, ShowTakes, FailsTakes DEF fetchDuplicates
  <2> QED
    BY <2>1 DEF Takes, Moves, ++
<1>4. CASE scanDuplicates
  <2>1. \E ids, now : LET cells == [scanIds |-> ids, started |-> now, agreed |-> FALSE]
                     IN  Acts(cells, {"runScan"}) \/ Acts(cells, {})
    BY <1>4, OpenScanMoves DEF scanDuplicates
  <2> QED
    BY <2>1 DEF Acts, Moves, ++
<1>5. CASE ScanNext(None, DuplicatesLoading, "fetchDuplicates")
  <2>1. \/ Drops({"runScan"}, [started |-> TRUE, agreed |-> TRUE], {"runScan"})
        \/ Drops({"runScan"}, [scanIds |-> None], {})
        \/ Acts([scanIds |-> None], {})
        \/ Takes("runScan", DuplicatesLoading, {"fetchDuplicates"})
        \/ Takes("runScan", <<>>, {})
    BY <1>5, ScanMoves DEF ScanNext
  <2> QED
    BY <2>1 DEF Acts, Takes, Drops, Moves, ++
<1> QED
  BY <1>1, <1>2, <1>3, <1>4, <1>5 DEF DuplicatesNext

---------------------------------------------------------------------------
(* IPRecordsPage.tsx                                                       *)
EditorFns ==
    {"handleSubmit", "handleQuickCreateSubnet", "handleDelete", "handleReserve", "handleRelease",
     "handleBulkReserve",
     "handleBulkRelease", "handleBulkUpdate", "handleImport", "handleDownloadTemplate", "runCheck"}
EditorDialogs == {"edit", "quick", "bulk", "import"}
TableCells == {"page", "tool", "currentPage", "filter", "loading", "open"}
TableFns == {"fetchSubnets", "fetchRecords"}
RecordsTable ==
    /\ Page("IPRecordsPage", {"fetchSubnets", "fetchRecords", "fetchHistory", "fetchDuplicates", "runCheck"})
    /\ Has(TableCells) /\ Turns("loading", {"fetchRecords"})
    /\ OnlyFor("Administrator", EditorFns)
    /\ hasRole("Administrator") \/ ui.open \cap EditorDialogs = {}

RecordsEdit ==
    /\ ui.tool = "edit" /\ Cells(TableCells \cup {"editingRecord", "submitting", "quickSubnetSubmitting"})
    /\ Guards("submitting", {"handleSubmit"})
    /\ Guards("quickSubnetSubmitting", {"handleQuickCreateSubnet", "quickFetchSubnets"})
    /\ Within(TableFns \cup {"handleSubmit", "handleQuickCreateSubnet", "quickFetchSubnets", "handleDelete",
                             "handleReserve", "handleRelease"})
RecordsBulk ==
    /\ ui.tool = "bulk" /\ Cells(TableCells \cup {"selectedRowKeys", "bulkSubmitting"})
    /\ Guards("bulkSubmitting", {"handleBulkUpdate"})
    /\ Within(TableFns \cup {"handleBulkReserve", "handleBulkRelease", "handleBulkUpdate"})
RecordsExport ==
    /\ ui.tool = "export" /\ Cells(TableCells \cup {"exportFilter", "exporting"})
    /\ Guards("exporting", {"handleExport"})
    /\ Within(TableFns \cup {"handleExport"})
RecordsImport ==
    /\ ui.tool = "import" /\ Cells(TableCells \cup {"fileList", "importing", "result", "templateLoading"})
    /\ Guards("importing", {"handleImport"}) /\ Guards("templateLoading", {"handleDownloadTemplate"})
    /\ Within(TableFns \cup {"handleImport", "handleDownloadTemplate"})
RecordsHistory ==
    /\ ui.tool = "history" /\ Cells(TableCells \cup {"historyRecord", "historyLoading"})
    /\ Turns("historyLoading", {"fetchHistory"})
    /\ Within(TableFns \cup {"fetchHistory"})
RecordsCheck ==
    /\ ui.tool = "check" /\ Cells(TableCells \cup {"checkAvailRecord", "running"})
    /\ Turns("running", {"runCheck"})
    /\ Within(TableFns \cup {"runCheck"})
RecordsDuplicates ==
    /\ ui.tool = "duplicates" /\ Cells(TableCells \cup DuplicatesDialog)
    /\ Turns("duplicatesLoading", {"fetchDuplicates"})
    /\ Within(TableFns \cup {"fetchDuplicates", "runScan"})
RecordsTool ==
    \/ RecordsEdit \/ RecordsBulk \/ RecordsExport \/ RecordsImport \/ RecordsHistory \/ RecordsCheck
    \/ RecordsDuplicates
RecordsSound == RecordsTable /\ RecordsTool

LEMMA ReloadRecordsTakes ==
    ASSUME NEW fn, NEW cells, HasFn(calls), ReloadRecords(fn, cells)
    PROVE  Takes(fn, cells ++ Loading, {"fetchRecords"})
BY SettleSends DEF ReloadRecords, FetchRecords, Ok

LEMMA HandleQuickCreateSubnetMoves ==
    ASSUME HasFn(calls), handleQuickCreateSubnet
    PROVE  \/ "quick" \in ui.open /\ ~ui.quickSubnetSubmitting
              /\ Acts([quickSubnetSubmitting |-> TRUE], {"handleQuickCreateSubnet"})
           \/ Takes("handleQuickCreateSubnet", <<>>, {"quickFetchSubnets"})
           \/ Takes("quickFetchSubnets", [quickSubnetSubmitting |-> FALSE] ++ Shut("quick"), {})
           \/ Takes("handleQuickCreateSubnet", [quickSubnetSubmitting |-> FALSE], {})
<1>1. ASSUME NEW c \in Ok("handleQuickCreateSubnet"), Settle(c, <<>>, {Req("quickFetchSubnets", None, None)})
      PROVE  Takes("handleQuickCreateSubnet", <<>>, {"quickFetchSubnets"})
  BY <1>1, SettleSends DEF Ok
<1>2. ASSUME NEW c \in Ok("quickFetchSubnets"),
             Display(c, "fetchSubnets", [quickSubnetSubmitting |-> FALSE] ++ Shut("quick"), {})
      PROVE  Takes("quickFetchSubnets", [quickSubnetSubmitting |-> FALSE] ++ Shut("quick"), {})
  BY <1>2, DisplayTakes DEF Ok
<1> QED
  BY <1>1, <1>2, ActSends, FailsTakes DEF handleQuickCreateSubnet

LEMMA RecordsTableKept ==
    ASSUME HasFn(calls), RecordsTable, TableNext
    PROVE  RecordsTable' /\ Beside({"currentPage", "filter", "loading"}, TableFns)
<1> USE RoleKept, NoCells
    DEF Page, Has, Turns, OnlyFor, Quiet, TableCells, EditorFns, EditorDialogs, RecordsTable, Loading, Beside,
        TableFns
<1>1. CASE fetchSubnets
  <2>1. Takes("fetchSubnets", <<>>, {})
    BY <1>1, ShowTakes, FailsTakes DEF fetchSubnets
  <2> QED
    BY <2>1 DEF Takes, Moves, ++
<1>2. CASE fetchRecords
  <2>1. \/ Acts(Loading, {"fetchRecords"})
        \/ Takes("fetchRecords", [loading |-> FALSE], {})
    BY <1>2, ActSends, ShowTakes, FailsTakes DEF fetchRecords, FetchRecords
  <2> QED
    BY <2>1 DEF Acts, Takes, Moves, ++
<1>3. CASE handleFilterChange
  <2>1. \E f : Acts([filter |-> f, currentPage |-> 1] ++ Loading, {"fetchRecords"})
    BY <1>3, ActSends DEF handleFilterChange, FetchRecords
  <2> QED
    BY <2>1 DEF Acts, Moves, ++
<1>4. CASE handleTableChange
  <2>1. \E q : Acts([currentPage |-> q] ++ Loading, {"fetchRecords"})
    BY <1>4, ActSends DEF handleTableChange, FetchRecords
  <2> QED
    BY <2>1 DEF Acts, Moves, ++
<1> QED
  BY <1>1, <1>2, <1>3, <1>4 DEF TableNext

LEMMA RecordsEditKept ==
    ASSUME HasFn(calls), RecordsTable, RecordsEdit, RecordNext
    PROVE  RecordsTable' /\ RecordsEdit' /\ HasFn(calls')
<1> USE RoleKept, TwiceSent, NoCells
    DEF Page, Has, Turns, OnlyFor, Quiet, TableCells, EditorFns, EditorDialogs, RecordsTable, Loading, Cells,
        Guards, Within, Busy, TableFns, Open, Shut, RecordsEdit
<1>1. CASE openCreateOrEdit
  <2>1. hasRole("Administrator") /\ \E r : Acts([editingRecord |-> r] ++ Open("edit"), {})
    BY <1>1, ActSets DEF openCreateOrEdit, Editor
  <2> QED
    BY <2>1 DEF Acts, Moves, ++
<1>2. CASE cancelEdit
  <2>1. Acts(Shut("edit"), {})
    BY <1>2, ActSets DEF cancelEdit
  <2> QED
    BY <2>1 DEF Acts, Moves, ++
<1>3. CASE handleSubmit
  <2>1. \/ ui.open = {"edit"} /\ ~ui.submitting /\ Acts([submitting |-> TRUE], {"handleSubmit"})
        \/ Takes("handleSubmit", ([submitting |-> FALSE] ++ Shut("edit")) ++ Loading, {"fetchRecords"})
        \/ Takes("handleSubmit", [submitting |-> FALSE], {})
        \/ Takes("handleSubmit", [submitting |-> FALSE] ++ Open("quick"), {})
    BY <1>3, ActSends, ReloadRecordsTakes, FailsTakes DEF handleSubmit
  <2> QED
    BY <2>1 DEF Acts, Takes, Moves, ++
<1>4. CASE openQuickSubnet
  <2>1. ui.open = {"edit"} /\ Acts(Open("quick"), {})
    BY <1>4, ActSets DEF openQuickSubnet
  <2> QED
    BY <2>1 DEF Acts, Moves, ++
<1>5. CASE cancelQuickSubnet
  <2>1. Acts(Shut("quick"), {})
    BY <1>5, ActSets DEF cancelQuickSubnet
  <2> QED
    BY <2>1 DEF Acts, Moves, ++
<1>6. CASE handleQuickCreateSubnet
  <2>1. \/ "quick" \in ui.open /\ ~ui.quickSubnetSubmitting
               /\ Acts([quickSubnetSubmitting |-> TRUE], {"handleQuickCreateSubnet"})
        \/ Takes("handleQuickCreateSubnet", <<>>, {"quickFetchSubnets"})
        \/ Takes("quickFetchSubnets", [quickSubnetSubmitting |-> FALSE] ++ Shut("quick"), {})
        \/ Takes("handleQuickCreateSubnet", [quickSubnetSubmitting |-> FALSE], {})
    BY <1>6, HandleQuickCreateSubnetMoves
  <2> QED
    BY <2>1 DEF Acts, Takes, Moves, ++
<1>7. CASE handleDelete
  <2>1. \/ hasRole("Administrator") /\ Acts(<<>>, {"handleDelete"})
        \/ Takes("handleDelete", <<>> ++ Loading, {"fetchRecords"})
        \/ Takes("handleDelete", <<>>, {})
    BY <1>7, ActSends, ReloadRecordsTakes, FailsTakes DEF handleDelete, RowCommand, Editor
  <2> QED
    BY <2>1 DEF Acts, Takes, Moves, ++
<1>8. CASE handleReserve
  <2>1. \/ hasRole("Administrator") /\ Acts(<<>>, {"handleReserve"})
        \/ Takes("handleReserve", <<>> ++ Loading, {"fetchRecords"})
        \/ Takes("handleReserve", <<>>, {})
    BY <1>8, ActSends, ReloadRecordsTakes, FailsTakes DEF handleReserve, RowCommand, Editor
  <2> QED
    BY <2>1 DEF Acts, Takes, Moves, ++
<1>9. CASE handleRelease
  <2>1. \/ hasRole("Administrator") /\ Acts(<<>>, {"handleRelease"})
        \/ Takes("handleRelease", <<>> ++ Loading, {"fetchRecords"})
        \/ Takes("handleRelease", <<>>, {})
    BY <1>9, ActSends, ReloadRecordsTakes, FailsTakes DEF handleRelease, RowCommand, Editor
  <2> QED
    BY <2>1 DEF Acts, Takes, Moves, ++
<1> QED
  BY <1>1, <1>2, <1>3, <1>4, <1>5, <1>6, <1>7, <1>8, <1>9 DEF RecordNext

LEMMA RecordsBulkKept ==
    ASSUME HasFn(calls), RecordsTable, RecordsBulk, BulkNext
    PROVE  RecordsTable' /\ RecordsBulk' /\ HasFn(calls')
<1> USE RoleKept, TwiceSent, NoCells
    DEF Page, Has, Turns, OnlyFor, Quiet, TableCells, EditorFns, EditorDialogs, RecordsTable, Loading, Cells,
        Guards, Within, Busy, TableFns, Open, Shut, RecordsBulk
<1>1. CASE rowSelection
  <2>1. \E keys : Acts([selectedRowKeys |-> keys], {})
    BY <1>1, ActSets DEF rowSelection
  <2> QED
    BY <2>1 DEF Acts, Moves, ++
<1>2. CASE handleBulkReserve
  <2>1. \/ hasRole("Administrator") /\ Acts(<<>>, {"handleBulkReserve"})
        \/ Takes("handleBulkReserve", [selectedRowKeys |-> {}] ++ Loading, {"fetchRecords"})
        \/ Takes("handleBulkReserve", <<>>, {})
    BY <1>2, ActSends, ReloadRecordsTakes, FailsTakes DEF handleBulkReserve, BulkCommand, BulkBar, Editor
  <2> QED
    BY <2>1 DEF Acts, Takes, Moves, ++
<1>3. CASE handleBulkRelease
  <2>1. \/ hasRole("Administrator") /\ Acts(<<>>, {"handleBulkRelease"})
        \/ Takes("handleBulkRelease", [selectedRowKeys |-> {}] ++ Loading, {"fetchRecords"})
        \/ Takes("handleBulkRelease", <<>>, {})
    BY <1>3, ActSends, ReloadRecordsTakes, FailsTakes DEF handleBulkRelease, BulkCommand, BulkBar, Editor
  <2> QED
    BY <2>1 DEF Acts, Takes, Moves, ++
<1>4. CASE openBulk
  <2>1. hasRole("Administrator") /\ Acts(Open("bulk"), {})
    BY <1>4, ActSets DEF openBulk, BulkBar, Editor
  <2> QED
    BY <2>1 DEF Acts, Moves, ++
<1>5. CASE cancelBulk
  <2>1. Acts(Shut("bulk"), {})
    BY <1>5, ActSets DEF cancelBulk
  <2> QED
    BY <2>1 DEF Acts, Moves, ++
<1>6. CASE handleBulkUpdate
  <2>1. \/ "bulk" \in ui.open /\ ~ui.bulkSubmitting /\ Acts([bulkSubmitting |-> TRUE], {"handleBulkUpdate"})
        \/ Takes("handleBulkUpdate",
                 ([bulkSubmitting |-> FALSE, selectedRowKeys |-> {}] ++ Shut("bulk")) ++ Loading, {"fetchRecords"})
        \/ Takes("handleBulkUpdate", [bulkSubmitting |-> FALSE], {})
    BY <1>6, ActSends, ReloadRecordsTakes, FailsTakes DEF handleBulkUpdate
  <2> QED
    BY <2>1 DEF Acts, Takes, Moves, ++
<1> QED
  BY <1>1, <1>2, <1>3, <1>4, <1>5, <1>6 DEF BulkNext

LEMMA RecordsExportKept ==
    ASSUME HasFn(calls), RecordsTable, RecordsExport, openExport \/ closeExport \/ setExportFilter \/ handleExport
    PROVE  RecordsTable' /\ RecordsExport' /\ HasFn(calls')
<1> USE RoleKept, TwiceSent, NoCells
    DEF Page, Has, Turns, OnlyFor, Quiet, TableCells, EditorFns, EditorDialogs, RecordsTable, Loading, Cells,
        Guards, Within, Busy, TableFns, Open, Shut, RecordsExport
<1>1. CASE openExport
  <2>1. Acts(Open("export"), {})
    BY <1>1, ActSets DEF openExport
  <2> QED
    BY <2>1 DEF Acts, Moves, ++
<1>2. CASE closeExport
  <2>1. Acts(Shut("export"), {})
    BY <1>2, ActSets DEF closeExport
  <2> QED
    BY <2>1 DEF Acts, Moves, ++
<1>3. CASE setExportFilter
  <2>1. \E f : Acts([exportFilter |-> f], {})
    BY <1>3, ActSets DEF setExportFilter
  <2> QED
    BY <2>1 DEF Acts, Moves, ++
<1>4. CASE handleExport
  <2>1. \/ ~ui.exporting /\ Acts([exporting |-> TRUE], {"handleExport"})
        \/ Takes("handleExport", [exporting |-> FALSE] ++ Shut("export"), {})
        \/ Takes("handleExport", [exporting |-> FALSE], {})
    BY <1>4, ActSends, DoneTakes, FailsTakes DEF handleExport
  <2> QED
    BY <2>1 DEF Acts, Takes, Moves, ++
<1> QED
  BY <1>1, <1>2, <1>3, <1>4

LEMMA RecordsImportKept ==
    ASSUME HasFn(calls), RecordsTable, RecordsImport, openImport \/ closeImport
           \/ handleDownloadTemplate \/ chooseFile \/ handleImport
    PROVE  RecordsTable' /\ RecordsImport' /\ HasFn(calls')
<1> USE RoleKept, TwiceSent, NoCells
    DEF Page, Has, Turns, OnlyFor, Quiet, TableCells, EditorFns, EditorDialogs, RecordsTable, Loading, Cells,
        Guards, Within, Busy, TableFns, Open, Shut, RecordsImport
<1>1. CASE openImport
  <2>1. hasRole("Administrator") /\ Acts(Open("import"), {})
    BY <1>1, ActSets DEF openImport, Editor
  <2> QED
    BY <2>1 DEF Acts, Moves, ++
<1>2. CASE closeImport
  <2>1. Acts([fileList |-> FALSE, result |-> FALSE] ++ Shut("import"), {})
    BY <1>2, ActSets DEF closeImport
  <2> QED
    BY <2>1 DEF Acts, Moves, ++
<1>3. CASE handleDownloadTemplate
  <2>1. \/ "import" \in ui.open /\ ~ui.templateLoading
               /\ Acts([templateLoading |-> TRUE], {"handleDownloadTemplate"})
        \/ Takes("handleDownloadTemplate", [templateLoading |-> FALSE], {})
    BY <1>3, ActSends, DoneTakes, FailsTakes DEF handleDownloadTemplate
  <2> QED
    BY <2>1 DEF Acts, Takes, Moves, ++
<1>4. CASE chooseFile
  <2>1. \E f : Acts([fileList |-> f], {})
    BY <1>4, ActSets DEF chooseFile
  <2> QED
    BY <2>1 DEF Acts, Moves, ++
<1>5. CASE handleImport
  <2>1. \/ "import" \in ui.open /\ ~ui.importing /\ Acts([importing |-> TRUE], {"handleImport"})
        \/ Takes("handleImport", [importing |-> FALSE, result |-> TRUE] ++ Loading, {"fetchRecords"})
        \/ Takes("handleImport", [importing |-> FALSE, result |-> TRUE], {})
        \/ Takes("handleImport", [importing |-> FALSE], {})
    BY <1>5, ActSends, ReloadRecordsTakes, SettleTakes, FailsTakes DEF handleImport, Same
  <2> QED
    BY <2>1 DEF Acts, Takes, Moves, ++
<1> QED
  BY <1>1, <1>2, <1>3, <1>4, <1>5

LEMMA RecordsHistoryKept ==
    ASSUME HasFn(calls), RecordsTable, RecordsHistory, openHistory \/ closeHistory \/ fetchHistory
    PROVE  RecordsTable' /\ RecordsHistory' /\ HasFn(calls')
<1> USE RoleKept, TwiceSent, NoCells
    DEF Page, Has, Turns, OnlyFor, Quiet, TableCells, EditorFns, EditorDialogs, RecordsTable, Loading, Cells,
        Guards, Within, Busy, TableFns, Open, Shut, RecordsHistory
<1>1. CASE openHistory
  <2>1. \E r : Acts([historyRecord |-> r, historyLoading |-> TRUE], {"fetchHistory"})
    BY <1>1, ActSends DEF openHistory
  <2> QED
    BY <2>1 DEF Acts, Moves, ++
<1>2. CASE closeHistory
  <2>1. Acts([historyRecord |-> None], {})
    BY <1>2, ActClearingSets DEF closeHistory
  <2> QED
    BY <2>1 DEF Acts, Moves, ++
<1>3. CASE fetchHistory
  <2>1. Takes("fetchHistory", [historyLoading |-> FALSE], {})
    BY <1>3, ShowTakes, FailsTakes DEF fetchHistory
  <2> QED
    BY <2>1 DEF Takes, Moves, ++
<1> QED
  BY <1>1, <1>2, <1>3

LEMMA RecordsCheckKept ==
    ASSUME HasFn(calls), RecordsTable, RecordsCheck, checkRecord \/ CheckNext(Loading, "fetchRecords")
    PROVE  RecordsTable' /\ RecordsCheck' /\ HasFn(calls')
<1> USE RoleKept, TwiceSent, NoCells
    DEF Page, Has, Turns, OnlyFor, Quiet, TableCells, EditorFns, EditorDialogs, RecordsTable, Loading, Cells,
        Guards, Within, Busy, TableFns, Open, Shut, RecordsCheck
<1>1. CASE checkRecord
  <2>1. hasRole("Administrator") /\ \E r : Acts([checkAvailRecord |-> r, running |-> TRUE], {"runCheck"})
    BY <1>1, OpenCheckMoves DEF checkRecord, Editor
  <2> QED
    BY <2>1 DEF Acts, Moves, ++
<1>2. CASE CheckNext(Loading, "fetchRecords")
  <2>1. \/ Drops({"runCheck"}, [checkAvailRecord |-> None, running |-> FALSE], {})
        \/ Takes("runCheck", [running |-> FALSE] ++ Loading, {"fetchRecords"})
        \/ Takes("runCheck", [running |-> FALSE], {})
    BY <1>2, CloseCheckMoves, RunCheckMoves DEF CheckNext
  <2> QED
    BY <2>1 DEF Takes, Drops, Moves, ++
<1> QED
  BY <1>1, <1>2

LEMMA RecordsToolBeside ==
    ASSUME RecordsTool, Beside({"currentPage", "filter", "loading"}, TableFns)
    PROVE  RecordsTool'
<1> USE RoleKept
    DEF Beside, Cells, Guards, Turns, Within, Busy, Quiet, TableFns, TableCells, DuplicatesDialog
<1>1. ASSUME RecordsEdit PROVE RecordsEdit'
  BY <1>1 DEF RecordsEdit
<1>2. ASSUME RecordsBulk PROVE RecordsBulk'
  BY <1>2 DEF RecordsBulk
<1>3. ASSUME RecordsExport PROVE RecordsExport'
  BY <1>3 DEF RecordsExport
<1>4. ASSUME RecordsImport PROVE RecordsImport'
  BY <1>4 DEF RecordsImport
<1>5. ASSUME RecordsHistory PROVE RecordsHistory'
  BY <1>5 DEF RecordsHistory
<1>6. ASSUME RecordsCheck PROVE RecordsCheck'
  BY <1>6 DEF RecordsCheck
<1>7. ASSUME RecordsDuplicates PROVE RecordsDuplicates'
  BY <1>7 DEF RecordsDuplicates
<1> QED
  BY <1>1, <1>2, <1>3, <1>4, <1>5, <1>6, <1>7 DEF RecordsTool

LEMMA RecordsTableBeside ==
    ASSUME RecordsTable, Beside(DuplicatesDialog, {"fetchDuplicates", "runScan"})
    PROVE  RecordsTable'
BY RoleKept
   DEF Beside, Page, Has, Turns, OnlyFor, Quiet, TableCells, EditorFns, EditorDialogs, RecordsTable, Loading,
       DuplicatesDialog

LEMMA RecordsDuplicatesKept ==
    ASSUME HasFn(calls), RecordsTable, RecordsDuplicates, (AtTable /\ openDuplicates) \/ DuplicatesNext
    PROVE  RecordsTable' /\ RecordsDuplicates' /\ HasFn(calls')
<1>1. Has(DuplicatesDialog) /\ Turns("duplicatesLoading", {"fetchDuplicates"})
  BY DEF RecordsDuplicates, Cells, Has
<1>2. /\ Turns("duplicatesLoading", {"fetchDuplicates"})'
      /\ Beside(DuplicatesDialog, {"fetchDuplicates", "runScan"})
  BY <1>1, DuplicatesKept
<1>3. RecordsTable'
  BY <1>2, RecordsTableBeside
<1>4. RecordsDuplicates'
  BY <1>2 DEF RecordsDuplicates, Beside, Cells, TableCells, Within, DuplicatesDialog
<1> QED
  BY <1>2, <1>3, <1>4 DEF Beside

LEMMA RecordsKept ==
    ASSUME HasFn(calls), RecordsSound, RecordsNext \/ Answers
    PROVE  RecordsSound' /\ HasFn(calls')
<1> USE DEF RecordsSound
<1>1. CASE TableNext
  BY <1>1, RecordsTableKept, RecordsToolBeside DEF Beside
<1>2. CASE RecordsToolNext
  <2>1. CASE RecordsEdit
    BY <1>2, <2>1, RecordsEditKept DEF RecordsToolNext, RecordsEdit, RecordsTool
  <2>2. CASE RecordsBulk
    BY <1>2, <2>2, RecordsBulkKept DEF RecordsToolNext, RecordsBulk, RecordsTool
  <2>3. CASE RecordsExport
    BY <1>2, <2>3, RecordsExportKept DEF RecordsToolNext, RecordsExport, RecordsTool
  <2>4. CASE RecordsImport
    BY <1>2, <2>4, RecordsImportKept DEF RecordsToolNext, RecordsImport, RecordsTool
  <2>5. CASE RecordsHistory
    BY <1>2, <2>5, RecordsHistoryKept DEF RecordsToolNext, RecordsHistory, RecordsTool
  <2>6. CASE RecordsCheck
    BY <1>2, <2>6, RecordsCheckKept DEF RecordsToolNext, RecordsCheck, RecordsTool
  <2>7. CASE RecordsDuplicates
    BY <1>2, <2>7, RecordsDuplicatesKept DEF RecordsToolNext, RecordsDuplicates, RecordsTool
  <2> QED
    BY <2>1, <2>2, <2>3, <2>4, <2>5, <2>6, <2>7 DEF RecordsTool
<1>3. CASE Answers
  BY <1>3, AnswersBeside, RecordsTableBeside, RecordsToolBeside DEF Beside
<1> QED
  BY <1>1, <1>2, <1>3, ServeAnswers, RefuseAnswers DEF RecordsNext

---------------------------------------------------------------------------
(* UnusedIPsPage.tsx                                                       *)
UnusedIPsSound ==
    /\ Page("UnusedIPsPage", {"fetchUnused", "runCheck"})
    /\ Cells({"page", "subnetsLoading", "subnetsError", "selectedSubnetId", "pageNum", "detailSearch",
              "detailLoading", "timer", "checkAvailRecord", "running"})
    /\ Guards("subnetsLoading", {"fetchAllSubnets"})
    /\ Turns("detailLoading", {"fetchUnused"}) /\ Turns("running", {"runCheck"})
    /\ OnlyFor("Administrator", {"runCheck"})
    /\ Within({"fetchAllSubnets", "fetchUnused", "runCheck"})

LEMMA DebouncedSearchMoves ==
    ASSUME HasFn(calls), debouncedSearch
    PROVE  Repeats([timer |-> None, pageNum |-> 1] ++ DetailLoading, {"fetchUnused"})
<1> DEFINE cells == [timer |-> None, pageNum |-> 1] ++ DetailLoading
           again == IF ui.pageNum # 1 /\ ui.selectedSubnetId # None
                    THEN FetchUnused(<<ui.selectedSubnetId, 1, ui.detailSearch>>) ELSE {}
<1>1. Fire(cells, FetchUnused(ui.timer) \cup again)
  BY DEF debouncedSearch
<1>2. \A q : SendsFor(FetchUnused(q), {"fetchUnused"})
  BY SendsForOne DEF FetchUnused
<1>3. again = {} \/ SendsFor(again, {"fetchUnused"})
  BY <1>2
<1> HIDE DEF cells, again
<1>4. SendsFor(FetchUnused(ui.timer) \cup again, {"fetchUnused"})
  <2>1. CASE again = {}
    <3>1. FetchUnused(ui.timer) \cup again = FetchUnused(ui.timer)
      BY <2>1
    <3> QED
      BY <1>2, <3>1
  <2>2. CASE SendsFor(again, {"fetchUnused"})
    <3>1. SendsFor(FetchUnused(ui.timer) \cup again, {"fetchUnused"} \cup {"fetchUnused"})
      BY <1>2, <2>2, SendsForBoth
    <3> QED
      BY <3>1
  <2> QED
    BY <1>3, <2>1, <2>2
<1>5. Repeats(cells, {"fetchUnused"})
  BY <1>1, <1>4, FireRepeats
<1> QED
  BY <1>5 DEF cells

LEMMA UnusedIPsKept ==
    ASSUME HasFn(calls), UnusedIPsSound, UnusedIPsNext \/ Answers
    PROVE  UnusedIPsSound' /\ HasFn(calls')
<1> USE RoleKept, TwiceSent, NoCells
    DEF Page, Cells, Turns, Guards, OnlyFor, Within, Busy, Quiet, UnusedIPsSound, DetailLoading
<1>1. CASE fetchAllSubnets
  <2>1. \/ Takes("fetchAllSubnets", <<>>, {"fetchAllSubnets"})
        \/ Takes("fetchAllSubnets", [subnetsLoading |-> FALSE], {})
        \/ Takes("fetchAllSubnets", [subnetsLoading |-> FALSE, subnetsError |-> TRUE], {})
    BY <1>1, OkSends, DoneTakes, FailsTakes DEF fetchAllSubnets
  <2> QED
    BY <2>1 DEF Takes, Moves, ++
<1>2. CASE fetchUnused
  <2>1. Takes("fetchUnused", [detailLoading |-> FALSE], {})
    BY <1>2, ShowTakes, ClearTakes DEF fetchUnused, Failed
  <2> QED
    BY <2>1 DEF Takes, Moves, ++
<1>3. CASE openSubnet
  <2>1. \E s : Acts([selectedSubnetId |-> s, pageNum |-> 1] ++ DetailLoading, {"fetchUnused"})
    BY <1>3, ActSends DEF openSubnet, FetchUnused
  <2> QED
    BY <2>1 DEF Acts, Moves, ++
<1>4. CASE backToSummary
  <2>1. \E t : Acts([selectedSubnetId |-> None, detailSearch |-> "all", timer |-> t], {})
    BY <1>4, ActClearingSets DEF backToSummary
  <2> QED
    BY <2>1 DEF Acts, Moves, ++
<1>5. CASE setPage
  <2>1. \E q : Acts([pageNum |-> q] ++ DetailLoading, {"fetchUnused"})
    BY <1>5, ActSends DEF setPage, FetchUnused
  <2> QED
    BY <2>1 DEF Acts, Moves, ++
<1>6. CASE setDetailSearch
  <2>1. \E f, t : Acts([detailSearch |-> f, timer |-> t], {})
    BY <1>6, ActSets DEF setDetailSearch
  <2> QED
    BY <2>1 DEF Acts, Moves, ++
<1>7. CASE debouncedSearch
  <2>1. Repeats([timer |-> None, pageNum |-> 1] ++ DetailLoading, {"fetchUnused"})
    BY <1>7, DebouncedSearchMoves
  <2> QED
    BY <2>1 DEF Repeats, Moves, ++
<1>8. CASE checkAddress
  <2>1. hasRole("Administrator") /\ \E ip : Acts([checkAvailRecord |-> ip, running |-> TRUE], {"runCheck"})
    BY <1>8, OpenCheckMoves DEF checkAddress
  <2> QED
    BY <2>1 DEF Acts, Moves, ++
<1>9. CASE closeCheck
  <2>1. Drops({"runCheck"}, [checkAvailRecord |-> None, running |-> FALSE], {})
    BY <1>9, CloseCheckMoves
  <2> QED
    BY <2>1 DEF Drops, Moves, ++
<1>10. CASE checkedAddress
  <2>1. Takes("runCheck", [running |-> FALSE], {})
    BY <1>10, ShowTakes, FailsTakes DEF checkedAddress
  <2> QED
    BY <2>1 DEF Takes, Moves, ++
<1>11. CASE Answers
  BY <1>11 DEF Answers
<1> QED
  BY <1>1, <1>2, <1>3, <1>4, <1>5, <1>6, <1>7, <1>8, <1>9, <1>10, <1>11, ServeAnswers, RefuseAnswers
     DEF UnusedIPsNext

---------------------------------------------------------------------------
(* SubnetsPage.tsx                                                         *)
TreeCells == {"page", "tool", "filter", "loading"}
TreeFns == {"fetchVrfs", "fetchTree"}
SubnetsTree ==
    /\ Page("SubnetsPage", {"fetchTree", "fetchRanges", "conflictScan"})
    /\ Has(TreeCells) /\ Turns("loading", {"fetchTree"})

SubnetsEdit ==
    /\ ui.tool = "edit" /\ Cells(TreeCells \cup {"modalOpen", "editingSubnet", "submitting"})
    /\ Guards("submitting", {"handleSubmit"})
    /\ OnlyFor("Administrator", {"handleSubmit", "handleDelete"})
    /\ hasRole("Administrator") \/ ~ui.modalOpen
    /\ Within(TreeFns \cup {"handleSubmit", "handleDelete"})
SubnetsScan ==
    /\ ui.tool = "scan" /\ Cells(TreeCells \cup {"scanModal", "scanningSubnetId"})
    /\ OnlyFor("Operator", {"handleScanSubnet"})
    /\ Within(TreeFns \cup {"handleScanSubnet"})
SubnetsDrawer ==
    /\ ui.tool = "drawer"
    /\ Cells(TreeCells \cup {"drawerSubnet", "loadingRanges", "rangeModal", "editingRange", "submittingRange",
                            "conflictDrawerOpen", "conflictLoading"})
    /\ Turns("loadingRanges", {"fetchRanges"}) /\ Turns("conflictLoading", {"conflictScan"})
    /\ Guards("submittingRange", {"handleSubmitRange"})
    /\ OnlyFor("Operator", {"handleSubmitRange", "conflictScan"})
    /\ hasRole("Operator") \/ (~ui.rangeModal /\ ~ui.conflictDrawerOpen)
    /\ OnlyFor("Administrator", {"handleDeleteRange"})
    /\ Within(TreeFns \cup {"fetchRanges", "handleSubmitRange", "handleDeleteRange", "conflictScan"})
SubnetsTool == SubnetsEdit \/ SubnetsScan \/ SubnetsDrawer
SubnetsSound == SubnetsTree /\ SubnetsTool

LEMMA ReloadTreeTakes ==
    ASSUME NEW fn, NEW cells, HasFn(calls), ReloadTree(fn, cells)
    PROVE  Takes(fn, cells ++ Loading, {"fetchTree"})
BY OkSends DEF ReloadTree, FetchTree

LEMMA ReloadRangesTakes ==
    ASSUME NEW fn, NEW cells, HasFn(calls), ReloadRanges(fn, cells)
    PROVE  Takes(fn, cells ++ LoadingRanges, {"fetchRanges"})
BY OkSends DEF ReloadRanges, FetchRanges

LEMMA SubnetsTreeKept ==
    ASSUME HasFn(calls), SubnetsTree, TreeNext
    PROVE  SubnetsTree' /\ Beside({"filter", "loading"}, TreeFns)
<1> USE RoleKept, NoCells
    DEF Page, Has, Turns, TreeCells, SubnetsTree, Loading, Beside, TreeFns
<1>1. CASE fetchVrfs
  <2>1. Takes("fetchVrfs", <<>>, {})
    BY <1>1, OrFailedTakes DEF fetchVrfs
  <2> QED
    BY <2>1 DEF Takes, Moves, ++
<1>2. CASE fetchTree
  <2>1. \/ Acts(Loading, {"fetchTree"})
        \/ Takes("fetchTree", [loading |-> FALSE], {})
    BY <1>2, ActSends, ShowTakes, FailsTakes DEF fetchTree, FetchTree
  <2> QED
    BY <2>1 DEF Acts, Takes, Moves, ++
<1>3. CASE setFilter
  <2>1. PICK f : Acts([filter |-> f] ++ Loading, {"fetchTree"})
    BY <1>3, ActSends DEF setFilter, FetchTree
  <2>2. SubnetsTree'
    BY <2>1 DEF Acts, Moves, ++
  <2>3. Beside({"filter", "loading"}, TreeFns)
    BY <2>1 DEF Acts, Moves, ++
  <2> QED
    BY <2>2, <2>3
<1> QED
  BY <1>1, <1>2, <1>3 DEF TreeNext

LEMMA SubnetsEditKept ==
    ASSUME HasFn(calls), SubnetsTree, SubnetsEdit, openSubnetModal \/ cancelSubnet
           \/ handleSubmitSubnet \/ handleDeleteSubnet
    PROVE  SubnetsTree' /\ SubnetsEdit' /\ HasFn(calls')
<1> USE RoleKept, TwiceSent, NoCells
    DEF Page, Has, Turns, TreeCells, SubnetsTree, Loading, Cells, Guards, OnlyFor, Quiet, Within, Busy,
        TreeFns, SubnetsEdit
<1>1. CASE openSubnetModal
  <2>1. hasRole("Administrator") /\ \E s : Acts([editingSubnet |-> s, modalOpen |-> TRUE], {})
    BY <1>1, ActSets DEF openSubnetModal
  <2> QED
    BY <2>1 DEF Acts, Moves, ++
<1>2. CASE cancelSubnet
  <2>1. Acts([modalOpen |-> FALSE], {})
    BY <1>2, ActSets DEF cancelSubnet
  <2> QED
    BY <2>1 DEF Acts, Moves, ++
<1>3. CASE handleSubmitSubnet
  <2>1. \/ ui.modalOpen /\ ~ui.submitting /\ Acts([submitting |-> TRUE], {"handleSubmit"})
        \/ Takes("handleSubmit", [modalOpen |-> FALSE, submitting |-> FALSE] ++ Loading, {"fetchTree"})
        \/ Takes("handleSubmit", [submitting |-> FALSE], {})
    BY <1>3, ActSends, ReloadTreeTakes, FailsTakes DEF handleSubmitSubnet
  <2> QED
    BY <2>1 DEF Acts, Takes, Moves, ++
<1>4. CASE handleDeleteSubnet
  <2>1. \/ hasRole("Administrator") /\ Acts(<<>>, {"handleDelete"})
        \/ Takes("handleDelete", <<>> ++ Loading, {"fetchTree"})
        \/ Takes("handleDelete", <<>>, {})
    BY <1>4, ActSends, ReloadTreeTakes, FailsTakes DEF handleDeleteSubnet
  <2> QED
    BY <2>1 DEF Acts, Takes, Moves, ++
<1> QED
  BY <1>1, <1>2, <1>3, <1>4

LEMMA SubnetsScanKept ==
    ASSUME HasFn(calls), SubnetsTree, SubnetsScan, handleScanSubnet \/ closeScanModal
    PROVE  SubnetsTree' /\ SubnetsScan' /\ HasFn(calls')
<1> USE RoleKept, TwiceSent, NoCells
    DEF Page, Has, Turns, TreeCells, SubnetsTree, Loading, Cells, Guards, OnlyFor, Quiet, Within, Busy,
        TreeFns, SubnetsScan
<1>1. CASE handleScanSubnet
  <2>1. \/ hasRole("Operator")
           /\ \E s : Drops({"handleScanSubnet"}, [scanningSubnetId |-> s, scanModal |-> TRUE],
                          {"handleScanSubnet"})
        \/ Takes("handleScanSubnet", [scanningSubnetId |-> None] ++ Loading, {"fetchTree"})
        \/ Takes("handleScanSubnet", [scanningSubnetId |-> None], {})
    BY <1>1, AbortSends, ReloadTreeTakes, FailsTakes DEF handleScanSubnet, startSubnetScan
  <2>2. CASE hasRole("Operator")
           /\ \E s : Drops({"handleScanSubnet"}, [scanningSubnetId |-> s, scanModal |-> TRUE],
                          {"handleScanSubnet"})
    BY <2>2 DEF Drops, Moves, ++
  <2>3. CASE Takes("handleScanSubnet", [scanningSubnetId |-> None] ++ Loading, {"fetchTree"})
    BY <2>3 DEF Takes, Moves, ++
  <2>4. CASE Takes("handleScanSubnet", [scanningSubnetId |-> None], {})
    BY <2>4 DEF Takes, Moves, ++
  <2> QED
    BY <2>1, <2>2, <2>3, <2>4
<1>2. CASE closeScanModal
  <2>1. Acts([scanModal |-> FALSE], {})
    BY <1>2, ActSets DEF closeScanModal
  <2> QED
    BY <2>1 DEF Acts, Moves, ++
<1> QED
  BY <1>1, <1>2

LEMMA SubnetsDrawerKept ==
    ASSUME HasFn(calls), SubnetsTree, SubnetsDrawer, DrawerNext
    PROVE  SubnetsTree' /\ SubnetsDrawer' /\ HasFn(calls')
<1> USE RoleKept, TwiceSent, NoCells
    DEF Page, Has, Turns, TreeCells, SubnetsTree, Loading, Cells, Guards, OnlyFor, Quiet, Within, Busy,
        TreeFns, LoadingRanges, SubnetsDrawer
<1>1. CASE openDrawer
  <2>1. \E s : Acts([drawerSubnet |-> s] ++ LoadingRanges, {"fetchRanges"})
    BY <1>1, ActSends DEF openDrawer, FetchRanges
  <2> QED
    BY <2>1 DEF Acts, Moves, ++
<1>2. CASE closeDrawer
  <2>1. Acts([drawerSubnet |-> None], {})
    BY <1>2, ActClearingSets DEF closeDrawer
  <2> QED
    BY <2>1 DEF Acts, Moves, ++
<1>3. CASE fetchRanges
  <2>1. Takes("fetchRanges", [loadingRanges |-> FALSE], {})
    BY <1>3, ShowTakes, ClearTakes DEF fetchRanges, Failed
  <2> QED
    BY <2>1 DEF Takes, Moves, ++
<1>4. CASE openRange
  <2>1. hasRole("Operator") /\ \E r : Acts([editingRange |-> r, rangeModal |-> TRUE], {})
    BY <1>4, ActSets DEF openRange
  <2> QED
    BY <2>1 DEF Acts, Moves, ++
<1>5. CASE cancelRange
  <2>1. Acts([rangeModal |-> FALSE], {})
    BY <1>5, ActSets DEF cancelRange
  <2> QED
    BY <2>1 DEF Acts, Moves, ++
<1>6. CASE handleSubmitRange
  <2>1. \/ ui.rangeModal /\ ~ui.submittingRange /\ Acts([submittingRange |-> TRUE], {"handleSubmitRange"})
        \/ Takes("handleSubmitRange",
                 [rangeModal |-> FALSE, submittingRange |-> FALSE] ++ LoadingRanges, {"fetchRanges"})
        \/ Takes("handleSubmitRange", [submittingRange |-> FALSE], {})
    BY <1>6, ActSends, ReloadRangesTakes, FailsTakes DEF handleSubmitRange
  <2> QED
    BY <2>1 DEF Acts, Takes, Moves, ++
<1>7. CASE handleDeleteRange
  <2>1. \/ hasRole("Administrator") /\ Acts(<<>>, {"handleDeleteRange"})
        \/ Takes("handleDeleteRange", <<>> ++ LoadingRanges, {"fetchRanges"})
        \/ Takes("handleDeleteRange", <<>>, {})
    BY <1>7, ActSends, ReloadRangesTakes, FailsTakes DEF handleDeleteRange
  <2> QED
    BY <2>1 DEF Acts, Takes, Moves, ++
<1>8. CASE openConflicts
  <2>1. hasRole("Operator") /\ Acts([conflictDrawerOpen |-> TRUE], {})
    BY <1>8, ActSets DEF openConflicts
  <2> QED
    BY <2>1 DEF Acts, Moves, ++
<1>9. CASE closeConflicts
  <2>1. Acts([conflictDrawerOpen |-> FALSE], {})
    BY <1>9, ActClearingSets DEF closeConflicts
  <2> QED
    BY <2>1 DEF Acts, Moves, ++
<1>10. CASE conflictScan
  <2>1. \/ ui.conflictDrawerOpen /\ Acts([conflictLoading |-> TRUE], {"conflictScan"})
        \/ Takes("conflictScan", [conflictLoading |-> FALSE], {})
    BY <1>10, ActClearingSends, ShowTakes, FailsTakes DEF conflictScan
  <2> QED
    BY <2>1 DEF Acts, Takes, Moves, ++
<1> QED
  BY <1>1, <1>2, <1>3, <1>4, <1>5, <1>6, <1>7, <1>8, <1>9, <1>10 DEF DrawerNext

LEMMA SubnetsToolBeside ==
    ASSUME SubnetsTool, Beside({"filter", "loading"}, TreeFns)
    PROVE  SubnetsTool'
<1> USE RoleKept
    DEF Beside, Cells, Guards, Turns, OnlyFor, Within, Busy, Quiet, TreeFns, TreeCells
<1>1. ASSUME SubnetsEdit PROVE SubnetsEdit'
  BY <1>1 DEF SubnetsEdit
<1>2. ASSUME SubnetsScan PROVE SubnetsScan'
  BY <1>2 DEF SubnetsScan
<1>3. ASSUME SubnetsDrawer PROVE SubnetsDrawer'
  BY <1>3 DEF SubnetsDrawer
<1> QED
  BY <1>1, <1>2, <1>3 DEF SubnetsTool

LEMMA SubnetsKept ==
    ASSUME HasFn(calls), SubnetsSound, SubnetsNext \/ Answers
    PROVE  SubnetsSound' /\ HasFn(calls')
<1> USE DEF SubnetsSound
<1>1. CASE TreeNext
  BY <1>1, SubnetsTreeKept, SubnetsToolBeside DEF Beside
<1>2. CASE SubnetsToolNext
  <2>1. CASE SubnetsEdit
    BY <1>2, <2>1, SubnetsEditKept DEF SubnetsToolNext, SubnetsEdit, SubnetsTool
  <2>2. CASE SubnetsScan
    BY <1>2, <2>2, SubnetsScanKept DEF SubnetsToolNext, SubnetsScan, SubnetsTool
  <2>3. CASE SubnetsDrawer
    BY <1>2, <2>3, SubnetsDrawerKept DEF SubnetsToolNext, SubnetsDrawer, SubnetsTool
  <2> QED
    BY <2>1, <2>2, <2>3 DEF SubnetsTool
<1>3. CASE Answers
  <2>1. SubnetsTree' /\ HasFn(calls')
    BY <1>3 DEF Answers, SubnetsTree, Page, Has, Turns
  <2>2. SubnetsTool'
    BY <1>3, AnswersBeside, SubnetsToolBeside
  <2> QED
    BY <2>1, <2>2
<1> QED
  BY <1>1, <1>2, <1>3, ServeAnswers, RefuseAnswers DEF SubnetsNext

---------------------------------------------------------------------------
(* NetworkScanPage.tsx                                                     *)
NetworkScanSound ==
    /\ Page("NetworkScanPage", {}) /\ hasRole("Operator")
    /\ Cells({"page", "estSecs", "asked", "saveMode", "scanning", "importEnv", "importing", "forIp", "submitting",
              "rows", "loose", "selectedKeys", "result"})
    /\ Guards("scanning", {"handleScan"}) /\ Guards("importing", {"handleImport"})
    /\ Guards("submitting", {"createSubnet", "getSubnet"})
    /\ Within({"fetchSubnets", "handleScan", "handleImport", "createSubnet", "getSubnet"})

LEMMA ScannedMoves ==
    ASSUME HasFn(calls), scanned
    PROVE  \/ \E hosts, loose, keys :
                 Takes("handleScan", [scanning |-> FALSE, rows |-> hosts, loose |-> loose, selectedKeys |-> keys,
                                      result |-> TRUE], {})
           \/ Takes("handleScan", [scanning |-> FALSE, result |-> TRUE], {})
<1>1. PICK c \in Ok("handleScan"), hosts, loose \in SUBSET Rows :
        \/ Settle(c, [scanning |-> FALSE, rows |-> hosts, loose |-> loose, selectedKeys |-> hosts \ loose,
                      result |-> TRUE], {})
        \/ Settle(c, [scanning |-> FALSE, result |-> TRUE], {})
  BY DEF scanned
<1> QED
  BY <1>1, OkTakes

LEMMA ImportedHostMoves ==
    ASSUME HasFn(calls), importedHost
    PROVE  \/ Takes("handleImport", <<>>, {"handleImport"})
           \/ Takes("handleImport", [importing |-> FALSE], {})
           \/ \E shows : Takes("handleImport",
                          [importing |-> FALSE, rows |-> {}, loose |-> {}, selectedKeys |-> {},
                                                result |-> shows], {})
<1>1. PICK c, errors, shows :
        /\ c \in Ok("handleImport") \cup Failed("handleImport")
        /\ \/ Settle(c, <<>>, {ImportOf(c.q[1], errors)})
           \/ Settle(c, [importing |-> FALSE], {})
           \/ Settle(c, [importing |-> FALSE, rows |-> {}, loose |-> {}, selectedKeys |-> {},
                         result |-> shows], {})
  BY DEF importedHost
<1>2. \A hosts : \E q, x : ImportOf(hosts, errors) = Req("handleImport", q, x)
  BY DEF ImportOf
<1>3. c \in calls /\ c.fn = "handleImport"
  BY <1>1 DEF Ok, Failed
<1>4. CASE Settle(c, <<>>, {ImportOf(c.q[1], errors)})
  <2>1. PICK q, x : ImportOf(c.q[1], errors) = Req("handleImport", q, x)
    BY <1>2
  <2>2. Settle(c, <<>>, {Req("handleImport", q, x)})
    BY <1>4, <2>1
  <2>3. Takes(c.fn, <<>>, {"handleImport"})
    BY <1>3, <2>2, SettleSends
  <2> QED
    BY <1>3, <2>3
<1> QED
  BY <1>1, <1>3, <1>4, SettleTakes

LEMMA StartImportMoves ==
    ASSUME HasFn(calls), startImport
    PROVE  ~ui.importing /\ Acts([importing |-> TRUE], {"handleImport"})
<1>1. PICK q, x : ImportOf(importable, FALSE) = Req("handleImport", q, x)
  BY DEF ImportOf
<1>2. ~ui.importing /\ Act([importing |-> TRUE], {Req("handleImport", q, x)})
  BY <1>1 DEF startImport
<1> QED
  BY <1>2, ActSends

LEMMA CreateSubnetMoves ==
    ASSUME HasFn(calls), createSubnet
    PROVE  \/ ~ui.submitting /\ Acts([submitting |-> TRUE], {"createSubnet"})
           \/ Takes("createSubnet", <<>>, {"getSubnet"})
           \/ \E loose, keys : Takes("getSubnet", [forIp |-> None, submitting |-> FALSE]
                                                  ++ [loose |-> loose, selectedKeys |-> keys], {})
           \/ Takes("createSubnet", [submitting |-> FALSE], {})
           \/ Takes("getSubnet", [submitting |-> FALSE], {})
<1>1. ASSUME NEW c \in Ok("getSubnet"),
             Settle(c, [forIp |-> None, submitting |-> FALSE] ++ AssignSubnetToRow(c.x), {})
      PROVE  \E loose, keys : Takes("getSubnet", [forIp |-> None, submitting |-> FALSE]
                                                 ++ [loose |-> loose, selectedKeys |-> keys], {})
  BY <1>1, OkTakes DEF AssignSubnetToRow
<1>2. ASSUME NEW c \in Ok("createSubnet"), Settle(c, <<>>, {Req("getSubnet", None, c.x)})
      PROVE  Takes("createSubnet", <<>>, {"getSubnet"})
  BY <1>2, OkSends
<1> QED
  BY <1>1, <1>2, ActSends, FailsTakes DEF createSubnet

LEMMA NetworkScanKept ==
    ASSUME HasFn(calls), NetworkScanSound, NetworkScanNext \/ Answers
    PROVE  NetworkScanSound' /\ HasFn(calls')
<1> USE RoleKept, TwiceSent, NoCells
    DEF Page, Cells, Turns, Guards, OnlyFor, Within, Busy, Quiet, NetworkScanSound, NoResults
<1>1. CASE fetchScanSubnets
  <2>1. Takes("fetchSubnets", <<>>, {})
    BY <1>1, OrFailedTakes DEF fetchScanSubnets
  <2> QED
    BY <2>1 DEF Takes, Moves, ++
<1>2. CASE setCidrsOrMode
  <2>1. \E e : Acts([estSecs |-> e, asked |-> FALSE], {})
    BY <1>2, ActSets DEF setCidrsOrMode
  <2> QED
    BY <2>1 DEF Acts, Moves, ++
<1>3. CASE setSaveMode
  <2>1. \E s : Acts([saveMode |-> s, asked |-> FALSE] ++ NoResults, {})
    BY <1>3, ActSets DEF setSaveMode
  <2> QED
    BY <2>1 DEF Acts, Moves, ++
<1>4. CASE askScan
  <2>1. Acts([asked |-> TRUE], {})
    BY <1>4, ActSets DEF askScan
  <2> QED
    BY <2>1 DEF Acts, Moves, ++
<1>5. CASE startNetworkScan
  <2>1. ~ui.scanning /\ Acts([scanning |-> TRUE, asked |-> FALSE] ++ NoResults, {"handleScan"})
    BY <1>5, ActSends DEF startNetworkScan
  <2> QED
    BY <2>1 DEF Acts, Moves, ++
<1>6. CASE scanned
  <2>1. \/ \E hosts, loose, keys :
              Takes("handleScan", [scanning |-> FALSE, rows |-> hosts, loose |-> loose, selectedKeys |-> keys,
                                   result |-> TRUE], {})
        \/ Takes("handleScan", [scanning |-> FALSE, result |-> TRUE], {})
    BY <1>6, ScannedMoves
  <2>2. CASE \E hosts, loose, keys :
              Takes("handleScan", [scanning |-> FALSE, rows |-> hosts, loose |-> loose, selectedKeys |-> keys,
                                   result |-> TRUE], {})
    BY <2>2 DEF Takes, Moves, ++
  <2>3. CASE Takes("handleScan", [scanning |-> FALSE, result |-> TRUE], {})
    BY <2>3 DEF Takes, Moves, ++
  <2> QED
    BY <2>1, <2>2, <2>3
<1>7. CASE Fails("handleScan", [scanning |-> FALSE])
  <2>1. Takes("handleScan", [scanning |-> FALSE], {})
    BY <1>7, FailsTakes DEF Fails
  <2> QED
    BY <2>1 DEF Takes, Moves, ++
<1>8. CASE setImportEnv
  <2>1. Acts([importEnv |-> TRUE], {})
    BY <1>8, ActSets DEF setImportEnv
  <2> QED
    BY <2>1 DEF Acts, Moves, ++
<1>9. CASE toggleSelection
  <2>1. \E keys : Acts([selectedKeys |-> keys], {})
    BY <1>9, ActSets DEF toggleSelection
  <2> QED
    BY <2>1 DEF Acts, Moves, ++
<1>10. CASE assignSubnetToRow
  <2>1. \E loose, keys : Acts([loose |-> loose, selectedKeys |-> keys], {})
    BY <1>10, ActSets DEF assignSubnetToRow, AssignSubnetToRow
  <2> QED
    BY <2>1 DEF Acts, Moves, ++
<1>11. CASE startImport
  <2>1. ~ui.importing /\ Acts([importing |-> TRUE], {"handleImport"})
    BY <1>11, StartImportMoves
  <2> QED
    BY <2>1 DEF Acts, Moves, ++
<1>12. CASE importedHost
  <2>1. \/ Takes("handleImport", <<>>, {"handleImport"})
        \/ Takes("handleImport", [importing |-> FALSE], {})
        \/ \E shows : Takes("handleImport", [importing |-> FALSE, rows |-> {}, loose |-> {}, selectedKeys |-> {},
                                             result |-> shows], {})
    BY <1>12, ImportedHostMoves
  <2>2. CASE Takes("handleImport", <<>>, {"handleImport"})
    BY <2>2 DEF Takes, Moves, ++
  <2>3. CASE Takes("handleImport", [importing |-> FALSE], {})
    BY <2>3 DEF Takes, Moves, ++
  <2>4. CASE \E shows : Takes("handleImport",
                    [importing |-> FALSE, rows |-> {}, loose |-> {}, selectedKeys |-> {},
                                             result |-> shows], {})
    BY <2>4 DEF Takes, Moves, ++
  <2> QED
    BY <2>1, <2>2, <2>3, <2>4
<1>13. CASE openCreateSubnet
  <2>1. \E h : Acts([forIp |-> h], {})
    BY <1>13, ActSets DEF openCreateSubnet
  <2> QED
    BY <2>1 DEF Acts, Moves, ++
<1>14. CASE closeCreateSubnet
  <2>1. Acts([forIp |-> None], {})
    BY <1>14, ActSets DEF closeCreateSubnet
  <2> QED
    BY <2>1 DEF Acts, Moves, ++
<1>15. CASE createSubnet
  <2>1. \/ ~ui.submitting /\ Acts([submitting |-> TRUE], {"createSubnet"})
        \/ Takes("createSubnet", <<>>, {"getSubnet"})
        \/ \E loose, keys : Takes("getSubnet", [forIp |-> None, submitting |-> FALSE]
                                               ++ [loose |-> loose, selectedKeys |-> keys], {})
        \/ Takes("createSubnet", [submitting |-> FALSE], {})
        \/ Takes("getSubnet", [submitting |-> FALSE], {})
    BY <1>15, CreateSubnetMoves
  <2>2. CASE ~ui.submitting /\ Acts([submitting |-> TRUE], {"createSubnet"})
    BY <2>2 DEF Acts, Moves, ++
  <2>3. CASE Takes("createSubnet", <<>>, {"getSubnet"})
    BY <2>3 DEF Takes, Moves, ++
  <2>4. CASE \E loose, keys : Takes("getSubnet", [forIp |-> None, submitting |-> FALSE]
                                               ++ [loose |-> loose, selectedKeys |-> keys], {})
    BY <2>4 DEF Takes, Moves, ++
  <2>5. CASE Takes("createSubnet", [submitting |-> FALSE], {})
    BY <2>5 DEF Takes, Moves, ++
  <2>6. CASE Takes("getSubnet", [submitting |-> FALSE], {})
    BY <2>6 DEF Takes, Moves, ++
  <2> QED
    BY <2>1, <2>2, <2>3, <2>4, <2>5, <2>6
<1>16. CASE Answers
  BY <1>16 DEF Answers
<1> QED
  BY <1>1, <1>2, <1>3, <1>4, <1>5, <1>6, <1>7, <1>8, <1>9, <1>10, <1>11, <1>12, <1>13, <1>14, <1>15, <1>16,
     ServeAnswers, RefuseAnswers
     DEF NetworkScanNext, handleScan, handleImportHosts

---------------------------------------------------------------------------
(* PaloAltoCheckPage.tsx                                                   *)
ChecksCells ==
    {"page", "tool", "mode", "checkInput", "timer", "checkLoading", "checkResult", "found", "recentLoading"}
ChecksFns == {"loadRecent", "runPaloAltoCheck"}
PaloAltoChecks ==
    /\ Page("PaloAltoPage", {"loadRecent", "runPaloAltoCheck", "loadTraffic"}) /\ hasRole("Operator")
    /\ Turns("recentLoading", {"loadRecent"}) /\ Turns("checkLoading", {"runPaloAltoCheck"})

PaloAltoDetail ==
    /\ ui.tool = "detail" /\ Cells(ChecksCells \cup {"crossChecking", "saving", "trafficOpen", "trafficLoading"})
    /\ Guards("saving", {"handleSave"}) /\ Turns("trafficLoading", {"loadTraffic"})
    /\ Within(ChecksFns \cup DetailFns)
PaloAltoBulk ==
    /\ ui.tool = "bulk"
    /\ Cells(ChecksCells \cup {"bulkInputValid", "listTooLong", "bulkScanning", "bulkFound", "bulkSaving"})
    /\ Guards("bulkScanning", {"runBulkScan"}) /\ Guards("bulkSaving", {"runBulkSave"})
    /\ Within(ChecksFns \cup {"runBulkScan", "runBulkSave"})
PaloAltoTool == PaloAltoDetail \/ PaloAltoBulk
PaloAltoSound == PaloAltoChecks /\ PaloAltoTool

\* What a text that was typed sets, and the check it leaves running.
TypedCells(mode, ip, runs) ==
    [mode |-> mode, checkInput |-> ip, timer |-> ip, checkResult |-> None, checkLoading |-> runs]

LEMMA TypedMoves ==
    ASSUME NEW mode, NEW ip, HasFn(calls), Typed(mode, ip)
    PROVE  \/ Drops(DetailFns \cup {"runPaloAltoCheck"}, TypedCells(mode, None, FALSE) ++ Unmounted, {})
           \/ \E runs : /\ runs => ui.checkLoading
                        /\ Drops(DetailFns \cup {}, TypedCells(mode, ip, runs) ++ Unmounted, {})
<1>1. PICK runs : /\ runs = (ip # None /\ ui.checkLoading)
                  /\ AbortClearing({"runPaloAltoCheck", "loadTraffic"},
                                   DetailFns \cup (IF ip = None THEN {"runPaloAltoCheck"} ELSE {}),
                                   TypedCells(mode, ip, runs) ++ Unmounted, {})
  BY DEF Typed, TypedCells
<1>2. CASE ip = None
  <2>1. runs = FALSE
    BY <1>1, <1>2
  <2>2. AbortClearing({"runPaloAltoCheck", "loadTraffic"}, DetailFns \cup {"runPaloAltoCheck"},
                      TypedCells(mode, None, FALSE) ++ Unmounted, {})
    BY <1>1, <1>2, <2>1
  <2> QED
    BY <2>2, AbortClearingSets
<1>3. CASE ip # None
  <2>1. runs => ui.checkLoading
    BY <1>1
  <2>2. AbortClearing({"runPaloAltoCheck", "loadTraffic"}, DetailFns \cup {},
                    TypedCells(mode, ip, runs) ++ Unmounted, {})
    BY <1>1, <1>3
  <2> QED
    BY <2>1, <2>2, AbortClearingSets
<1> QED
  BY <1>2, <1>3

LEMMA SetModeMoves ==
    ASSUME HasFn(calls), setMode
    PROVE  \/ Drops(DetailFns, [mode |-> "bulk", timer |-> None] ++ Unmounted, {})
           \/ Drops(DetailFns \cup {"runPaloAltoCheck"}, TypedCells("single", None, FALSE) ++ Unmounted, {})
           \/ \E ip, runs : /\ runs => ui.checkLoading
                            /\ Drops(DetailFns \cup {}, TypedCells("single", ip, runs) ++ Unmounted, {})
BY TypedMoves, AbortClearingSets DEF setMode

LEMMA RunPaloAltoCheckMoves ==
    ASSUME HasFn(calls), runPaloAltoCheck
    PROVE  \/ \E ip, f : Takes("runPaloAltoCheck", [checkLoading |-> FALSE, checkResult |-> ip, found |-> f], {})
           \/ Takes("runPaloAltoCheck", [checkLoading |-> FALSE], {})
BY OkDisplays, OkTakes, FailsTakes DEF runPaloAltoCheck

LEMMA BulkScanOfReq == ASSUME NEW ips PROVE \E q, x : BulkScanOf(ips) = {Req("runBulkScan", q, x)}
BY DEF BulkScanOf

LEMMA RunBulkScanMoves ==
    ASSUME HasFn(calls), runBulkScan
    PROVE  \/ ~ui.bulkScanning /\ Acts([bulkScanning |-> TRUE, bulkFound |-> {}], {"runBulkScan"})
           \/ \E ips : Takes("runBulkScan", [bulkScanning |-> FALSE, bulkFound |-> ips], {})
           \/ \E ips : Takes("runBulkScan", [bulkScanning |-> TRUE, bulkFound |-> ips], {"runBulkScan"})
           \/ Takes("runBulkScan", [bulkScanning |-> FALSE], {})
<1>1. CASE startBulkScan
  <2>1. PICK q, x : BulkScanOf(Rows) = {Req("runBulkScan", q, x)}
    BY BulkScanOfReq
  <2>2. ~ui.bulkScanning /\ Act([bulkScanning |-> TRUE, bulkFound |-> {}], {Req("runBulkScan", q, x)})
    BY <1>1, <2>1 DEF startBulkScan
  <2> QED
    BY <2>2, ActSends
<1>2. ASSUME NEW c \in Ok("runBulkScan"), NEW ips, NEW more, more = (c.q # {}),
             Settle(c, [bulkScanning |-> more, bulkFound |-> ips], IF c.q = {} THEN {} ELSE BulkScanOf(c.q))
      PROVE  \/ Takes("runBulkScan", [bulkScanning |-> FALSE, bulkFound |-> ips], {})
             \/ Takes("runBulkScan", [bulkScanning |-> TRUE, bulkFound |-> ips], {"runBulkScan"})
  <2>1. CASE c.q = {}
    <3>1. more = FALSE
      BY <1>2, <2>1
    <3>2. Settle(c, [bulkScanning |-> FALSE, bulkFound |-> ips], {})
      BY <1>2, <2>1, <3>1
    <3> QED
      BY <3>2, OkTakes
  <2>2. CASE c.q # {}
    <3>1. more = TRUE
      BY <1>2, <2>2
    <3>2. PICK q, x : BulkScanOf(c.q) = {Req("runBulkScan", q, x)}
      BY BulkScanOfReq
    <3>3. Settle(c, [bulkScanning |-> TRUE, bulkFound |-> ips], {Req("runBulkScan", q, x)})
      BY <1>2, <2>2, <3>1, <3>2
    <3> QED
      BY <3>3, OkSends
  <2> QED
    BY <2>1, <2>2
<1>3. CASE Fails("runBulkScan", [bulkScanning |-> FALSE])
  BY <1>3, FailsTakes
<1>4. ASSUME NEW c \in Ok("runBulkScan"), NEW f \in BOOLEAN,
             Settle(c, [bulkScanning |-> c.q # {}, bulkFound |-> ui.bulkFound \cup (IF f THEN {c.x} ELSE {})],
                    IF c.q = {} THEN {} ELSE BulkScanOf(c.q))
      PROVE  \E ips : \/ Takes("runBulkScan", [bulkScanning |-> FALSE, bulkFound |-> ips], {})
                      \/ Takes("runBulkScan", [bulkScanning |-> TRUE, bulkFound |-> ips], {"runBulkScan"})
  BY <1>2, <1>4
<1> QED
  BY <1>1, <1>3, <1>4 DEF runBulkScan

LEMMA PaloAltoDetailKept ==
    ASSUME HasFn(calls), PaloAltoChecks, PaloAltoDetail,
           loadRecent \/ setCheckInput \/ debouncedCheck \/ runPaloAltoCheck \/ runCrossCheck
               \/ handleSave \/ loadTraffic
    PROVE  PaloAltoChecks' /\ PaloAltoDetail' /\ HasFn(calls')
<1> USE RoleKept, TwiceSent, NoCells
    DEF Page, Cells, Turns, Guards, Within, Busy, Quiet, ChecksCells, ChecksFns, DetailFns, DetailCells,
        TypedCells, PaloAltoChecks, PaloAltoDetail
<1>1. CASE loadRecent
  <2>1. \/ Acts([recentLoading |-> TRUE], {"loadRecent"})
        \/ Takes("loadRecent", [recentLoading |-> FALSE], {})
    BY <1>1, ActSends, ShowTakes, FailsTakes DEF loadRecent
  <2> QED
    BY <2>1 DEF Acts, Takes, Moves, ++
<1>2. CASE setCheckInput
  <2>1. \/ Drops(DetailFns \cup {"runPaloAltoCheck"}, TypedCells("single", None, FALSE) ++ DetailCells, {})
        \/ \E ip, runs : /\ runs => ui.checkLoading
                         /\ Drops(DetailFns \cup {}, TypedCells("single", ip, runs) ++ DetailCells, {})
    BY <1>2, TypedMoves DEF setCheckInput, Unmounted
  <2>2. CASE Drops(DetailFns \cup {"runPaloAltoCheck"}, TypedCells("single", None, FALSE) ++ DetailCells, {})
    BY <2>2 DEF Drops, Moves, ++
  <2>3. CASE \E ip, runs : /\ runs => ui.checkLoading
                         /\ Drops(DetailFns \cup {}, TypedCells("single", ip, runs) ++ DetailCells, {})
    BY <2>3 DEF Drops, Moves, ++
  <2> QED
    BY <2>1, <2>2, <2>3
<1>3. CASE debouncedCheck
  <2>1. Drops({"runPaloAltoCheck"} \cup DetailFns,
              [timer |-> None, checkLoading |-> TRUE, checkResult |-> None] ++ DetailCells, {"runPaloAltoCheck"})
    BY <1>3, FireOverSends DEF debouncedCheck, Unmounted
  <2> QED
    BY <2>1 DEF Drops, Moves, ++
<1>4. CASE runPaloAltoCheck
  <2>1. \/ \E ip, f : Takes("runPaloAltoCheck", [checkLoading |-> FALSE, checkResult |-> ip, found |-> f], {})
        \/ Takes("runPaloAltoCheck", [checkLoading |-> FALSE], {})
    BY <1>4, RunPaloAltoCheckMoves
  <2>2. CASE \E ip, f : Takes("runPaloAltoCheck", [checkLoading |-> FALSE, checkResult |-> ip, found |-> f], {})
    BY <2>2 DEF Takes, Moves, ++
  <2>3. CASE Takes("runPaloAltoCheck", [checkLoading |-> FALSE], {})
    BY <2>3 DEF Takes, Moves, ++
  <2> QED
    BY <2>1, <2>2, <2>3
<1>5. CASE runCrossCheck
  <2>1. \/ \E s : Acts([crossChecking |-> s], {"runCrossCheck"})
        \/ Takes("runCrossCheck", [crossChecking |-> None], {})
    BY <1>5, ActSends, DoneTakes, FailsTakes DEF runCrossCheck
  <2>2. CASE \E s : Acts([crossChecking |-> s], {"runCrossCheck"})
    BY <2>2 DEF Acts, Moves, ++
  <2>3. CASE Takes("runCrossCheck", [crossChecking |-> None], {})
    BY <2>3 DEF Takes, Moves, ++
  <2> QED
    BY <2>1, <2>2, <2>3
<1>6. CASE handleSave
  <2>1. \/ ~ui.saving /\ Acts([saving |-> TRUE], {"handleSave"})
        \/ Takes("handleSave", [saving |-> FALSE], {})
    BY <1>6, ActSends, DoneTakes, FailsTakes DEF handleSave
  <2> QED
    BY <2>1 DEF Acts, Takes, Moves, ++
<1>7. CASE loadTraffic
  <2>1. \/ Acts([trafficOpen |-> TRUE, trafficLoading |-> TRUE], {"loadTraffic"})
        \/ Takes("loadTraffic", [trafficLoading |-> FALSE], {})
    BY <1>7, ActSends, ShowTakes, FailsTakes DEF loadTraffic
  <2> QED
    BY <2>1 DEF Acts, Takes, Moves, ++
<1> QED
  BY <1>1, <1>2, <1>3, <1>4, <1>5, <1>6, <1>7

LEMMA PaloAltoBulkKept ==
    ASSUME HasFn(calls), PaloAltoChecks, PaloAltoBulk,
           loadRecent \/ setCheckInput \/ debouncedCheck \/ runPaloAltoCheck \/ setMode \/ setBulkInput
               \/ runBulkScan \/ runBulkSave
    PROVE  PaloAltoChecks' /\ PaloAltoBulk' /\ HasFn(calls')
<1> USE RoleKept, TwiceSent, NoCells
    DEF Page, Cells, Turns, Guards, Within, Busy, Quiet, ChecksCells, ChecksFns, DetailFns, DetailCells,
        TypedCells, PaloAltoChecks, PaloAltoBulk
<1>1. CASE loadRecent
  <2>1. \/ Acts([recentLoading |-> TRUE], {"loadRecent"})
        \/ Takes("loadRecent", [recentLoading |-> FALSE], {})
    BY <1>1, ActSends, ShowTakes, FailsTakes DEF loadRecent
  <2> QED
    BY <2>1 DEF Acts, Takes, Moves, ++
<1>2. CASE setCheckInput
  <2>1. \/ Drops(DetailFns \cup {"runPaloAltoCheck"}, TypedCells("single", None, FALSE) ++ <<>>, {})
        \/ \E ip, runs : /\ runs => ui.checkLoading
                         /\ Drops(DetailFns \cup {}, TypedCells("single", ip, runs) ++ <<>>, {})
    BY <1>2, TypedMoves DEF setCheckInput, Unmounted
  <2>2. CASE Drops(DetailFns \cup {"runPaloAltoCheck"}, TypedCells("single", None, FALSE) ++ <<>>, {})
    BY <2>2 DEF Drops, Moves, ++
  <2>3. CASE \E ip, runs : /\ runs => ui.checkLoading
                         /\ Drops(DetailFns \cup {}, TypedCells("single", ip, runs) ++ <<>>, {})
    BY <2>3 DEF Drops, Moves, ++
  <2> QED
    BY <2>1, <2>2, <2>3
<1>3. CASE debouncedCheck
  <2>1. Drops({"runPaloAltoCheck"} \cup DetailFns,
              [timer |-> None, checkLoading |-> TRUE, checkResult |-> None] ++ <<>>, {"runPaloAltoCheck"})
    BY <1>3, FireOverSends DEF debouncedCheck, Unmounted
  <2> QED
    BY <2>1 DEF Drops, Moves, ++
<1>4. CASE runPaloAltoCheck
  <2>1. \/ \E ip, f : Takes("runPaloAltoCheck", [checkLoading |-> FALSE, checkResult |-> ip, found |-> f], {})
        \/ Takes("runPaloAltoCheck", [checkLoading |-> FALSE], {})
    BY <1>4, RunPaloAltoCheckMoves
  <2>2. CASE \E ip, f : Takes("runPaloAltoCheck", [checkLoading |-> FALSE, checkResult |-> ip, found |-> f], {})
    BY <2>2 DEF Takes, Moves, ++
  <2>3. CASE Takes("runPaloAltoCheck", [checkLoading |-> FALSE], {})
    BY <2>3 DEF Takes, Moves, ++
  <2> QED
    BY <2>1, <2>2, <2>3
<1>5. CASE setMode
  <2>1. \/ Drops(DetailFns, [mode |-> "bulk", timer |-> None] ++ <<>>, {})
        \/ Drops(DetailFns \cup {"runPaloAltoCheck"}, TypedCells("single", None, FALSE) ++ <<>>, {})
        \/ \E ip, runs : /\ runs => ui.checkLoading
                         /\ Drops(DetailFns \cup {}, TypedCells("single", ip, runs) ++ <<>>, {})
    BY <1>5, SetModeMoves DEF setMode, Unmounted
  <2>2. CASE Drops(DetailFns, [mode |-> "bulk", timer |-> None] ++ <<>>, {})
    BY <2>2 DEF Drops, Moves, ++
  <2>3. CASE Drops(DetailFns \cup {"runPaloAltoCheck"}, TypedCells("single", None, FALSE) ++ <<>>, {})
    BY <2>3 DEF Drops, Moves, ++
  <2>4. CASE \E ip, runs : /\ runs => ui.checkLoading
                         /\ Drops(DetailFns \cup {}, TypedCells("single", ip, runs) ++ <<>>, {})
    BY <2>4 DEF Drops, Moves, ++
  <2> QED
    BY <2>1, <2>2, <2>3, <2>4
<1>6. CASE setBulkInput
  <2>1. \E v, l : Acts([bulkInputValid |-> v, listTooLong |-> l], {})
    BY <1>6, ActSets DEF setBulkInput
  <2> QED
    BY <2>1 DEF Acts, Moves, ++
<1>7. CASE runBulkScan
  <2>1. \/ ~ui.bulkScanning /\ Acts([bulkScanning |-> TRUE, bulkFound |-> {}], {"runBulkScan"})
        \/ \E ips : Takes("runBulkScan", [bulkScanning |-> FALSE, bulkFound |-> ips], {})
        \/ \E ips : Takes("runBulkScan", [bulkScanning |-> TRUE, bulkFound |-> ips], {"runBulkScan"})
        \/ Takes("runBulkScan", [bulkScanning |-> FALSE], {})
    BY <1>7, RunBulkScanMoves
  <2>2. CASE ~ui.bulkScanning /\ Acts([bulkScanning |-> TRUE, bulkFound |-> {}], {"runBulkScan"})
    BY <2>2 DEF Acts, Moves, ++
  <2>3. CASE \E ips : Takes("runBulkScan", [bulkScanning |-> FALSE, bulkFound |-> ips], {})
    BY <2>3 DEF Takes, Moves, ++
  <2>4. CASE \E ips : Takes("runBulkScan", [bulkScanning |-> TRUE, bulkFound |-> ips], {"runBulkScan"})
    BY <2>4 DEF Takes, Moves, ++
  <2>5. CASE Takes("runBulkScan", [bulkScanning |-> FALSE], {})
    BY <2>5 DEF Takes, Moves, ++
  <2> QED
    BY <2>1, <2>2, <2>3, <2>4, <2>5
<1>8. CASE runBulkSave
  <2>1. \/ ~ui.bulkSaving /\ Acts([bulkSaving |-> TRUE], {"runBulkSave"})
        \/ Takes("runBulkSave", [bulkSaving |-> FALSE], {})
    BY <1>8, ActSends, DoneTakes, FailsTakes DEF runBulkSave
  <2> QED
    BY <2>1 DEF Acts, Takes, Moves, ++
<1> QED
  BY <1>1, <1>2, <1>3, <1>4, <1>5, <1>6, <1>7, <1>8

LEMMA PaloAltoKept ==
    ASSUME HasFn(calls), PaloAltoSound, PaloAltoNext \/ Answers
    PROVE  PaloAltoSound' /\ HasFn(calls')
<1>1. CASE PaloAltoDetail /\ ~Answers
  <2>1. \/ loadRecent \/ setCheckInput \/ debouncedCheck \/ runPaloAltoCheck
        \/ runCrossCheck \/ handleSave \/ loadTraffic
    BY <1>1, ServeAnswers, RefuseAnswers DEF PaloAltoNext, PaloAltoToolNext, PaloAltoDetail
  <2> QED
    BY <1>1, <2>1, PaloAltoDetailKept DEF PaloAltoSound, PaloAltoTool
<1>2. CASE PaloAltoBulk /\ ~Answers
  <2>1. \/ loadRecent \/ setCheckInput \/ debouncedCheck \/ runPaloAltoCheck
        \/ setMode \/ setBulkInput \/ runBulkScan \/ runBulkSave
    BY <1>2, ServeAnswers, RefuseAnswers DEF PaloAltoNext, PaloAltoToolNext, PaloAltoBulk
  <2> QED
    BY <1>2, <2>1, PaloAltoBulkKept DEF PaloAltoSound, PaloAltoTool
<1>3. CASE Answers
  <2> USE RoleKept DEF Answers, Page, Cells, Turns, Guards, Within, Busy, Quiet
  <2>1. PaloAltoChecks' /\ HasFn(calls')
    BY <1>3 DEF PaloAltoSound, PaloAltoChecks
  <2>2. CASE PaloAltoDetail
    BY <1>3, <2>1, <2>2 DEF PaloAltoDetail, PaloAltoTool, PaloAltoSound
  <2>3. CASE PaloAltoBulk
    BY <1>3, <2>1, <2>3 DEF PaloAltoBulk, PaloAltoTool, PaloAltoSound
  <2> QED
    BY <2>2, <2>3 DEF PaloAltoSound, PaloAltoTool
<1> QED
  BY <1>1, <1>2, <1>3 DEF PaloAltoSound, PaloAltoTool

---------------------------------------------------------------------------
(* DashboardPage.tsx                                                       *)
DashboardCells == {"page", "tool", "stats", "loading"}
DashboardFns == {"fetchStats", "fetchDigest"}
DashboardFrame ==
    /\ Page("DashboardPage", {"fetchStats", "fetchDigest", "fetchDuplicates"})
    /\ Has(DashboardCells) /\ Turns("loading", {"fetchStats"})
DashboardStale ==
    /\ ui.tool = "stale" /\ Cells(DashboardCells \cup {"staleModalOpen", "scanIds", "started", "agreed"})
    /\ Within(DashboardFns \cup {"runScan"})
DashboardDuplicates ==
    /\ ui.tool = "duplicates" /\ Cells(DashboardCells \cup DuplicatesDialog)
    /\ Turns("duplicatesLoading", {"fetchDuplicates"})
    /\ Within(DashboardFns \cup {"fetchDuplicates", "runScan"})
DashboardTool == DashboardStale \/ DashboardDuplicates
DashboardSound == DashboardFrame /\ DashboardTool

LEMMA StatsTakes ==
    ASSUME NEW cells, NEW c \in Ok("fetchStats") \cup Failed("fetchStats"), HasFn(calls),
           \/ Display(c, "fetchStats", cells ++ Remounted, ScannedAgain)
           \/ Settle(c, cells ++ Remounted, ScannedAgain)
    PROVE  \/ Takes("fetchStats", cells ++ <<>>, {})
           \/ \E b, F : /\ ui.tool # "duplicates" /\ F \subseteq {"runScan"}
                        /\ Takes("fetchStats", cells ++ [started |-> b, agreed |-> FALSE], F)
<1>1. c \in calls /\ c.fn = "fetchStats"
  BY DEF Ok, Failed
<1>2. PICK F : F \subseteq {"runScan"} /\ Asks(ScannedAgain, F) /\ (ui.tool = "duplicates" => F = {})
  BY AsksNothing, AsksOnce DEF ScannedAgain
<1>3. Takes("fetchStats", cells ++ Remounted, F)
  <2>1. DOMAIN [shown EXCEPT !["fetchStats"] = [q |-> c.q, x |-> c.x, since |-> c.since]] = DOMAIN shown
    OBVIOUS
  <2> QED
    BY <1>1, <1>2, <2>1, SettleShowingTakes DEF Display, Settle
<1>4. CASE Remounted = <<>> /\ ScannedAgain = {}
  <2>1. F = {}
    BY <1>2, <1>4 DEF Asks, Fns
  <2> QED
    BY <1>3, <1>4, <2>1
<1>5. ASSUME NEW b, ui.tool # "duplicates", Remounted = [started |-> b, agreed |-> FALSE]
      PROVE  \E F1 : /\ ui.tool # "duplicates" /\ F1 \subseteq {"runScan"}
                     /\ Takes("fetchStats", cells ++ [started |-> b, agreed |-> FALSE], F1)
  BY <1>2, <1>3, <1>5
<1> QED
  BY <1>4, <1>5 DEF Remounted, ScannedAgain

LEMMA FetchStatsMoves ==
    ASSUME HasFn(calls), fetchStats
    PROVE  \/ Takes("fetchStats", [loading |-> FALSE, stats |-> TRUE] ++ <<>>, {})
           \/ Takes("fetchStats", [loading |-> FALSE] ++ <<>>, {})
           \/ \E b, F : /\ ui.tool # "duplicates" /\ F \subseteq {"runScan"}
                        /\ Takes("fetchStats", [loading |-> FALSE, stats |-> TRUE]
                                               ++ [started |-> b, agreed |-> FALSE], F)
           \/ \E b, F : /\ ui.tool # "duplicates" /\ F \subseteq {"runScan"}
                        /\ Takes("fetchStats", [loading |-> FALSE] ++ [started |-> b, agreed |-> FALSE], F)
<1>1. CASE \E c \in Ok("fetchStats") :
             Display(c, "fetchStats", [loading |-> FALSE, stats |-> TRUE] ++ Remounted, ScannedAgain)
  BY <1>1, StatsTakes
<1>2. CASE \E c \in Failed("fetchStats") : Settle(c, [loading |-> FALSE] ++ Remounted, ScannedAgain)
  BY <1>2, StatsTakes
<1> QED
  BY <1>1, <1>2 DEF fetchStats

LEMMA DashboardStaleKept ==
    ASSUME HasFn(calls), DashboardFrame, DashboardStale,
           \/ fetchDigest \/ fetchStats \/ openStale \/ closeStale \/ scanStale
           \/ ScanNext(None, Loading, "fetchStats")
    PROVE  DashboardFrame' /\ DashboardStale' /\ HasFn(calls')
<1> USE NoCells
    DEF Page, Has, Turns, DashboardCells, DashboardFrame, Loading, Cells, Within, DashboardFns, DashboardStale
<1>1. CASE fetchDigest
  <2>1. Takes("fetchDigest", <<>>, {})
    BY <1>1, ShowTakes, FailsTakes DEF fetchDigest
  <2> QED
    BY <2>1 DEF Takes, Moves, ++
<1>2. CASE fetchStats
  <2>1. \/ Takes("fetchStats", [loading |-> FALSE, stats |-> TRUE] ++ <<>>, {})
        \/ Takes("fetchStats", [loading |-> FALSE] ++ <<>>, {})
        \/ \E b, F : /\ ui.tool # "duplicates" /\ F \subseteq {"runScan"}
                     /\ Takes("fetchStats", [loading |-> FALSE, stats |-> TRUE]
                              ++ [started |-> b, agreed |-> FALSE], F)
        \/ \E b, F : /\ ui.tool # "duplicates" /\ F \subseteq {"runScan"}
                     /\ Takes("fetchStats", [loading |-> FALSE]
                              ++ [started |-> b, agreed |-> FALSE], F)
    BY <1>2, FetchStatsMoves DEF fetchStats
  <2>2. CASE Takes("fetchStats", [loading |-> FALSE, stats |-> TRUE] ++ <<>>, {})
    BY <2>2 DEF Takes, Moves, ++
  <2>3. CASE Takes("fetchStats", [loading |-> FALSE] ++ <<>>, {})
    BY <2>3 DEF Takes, Moves, ++
  <2>4. CASE \E b, F : /\ ui.tool # "duplicates" /\ F \subseteq {"runScan"}
                     /\ Takes("fetchStats", [loading |-> FALSE, stats |-> TRUE]
                              ++ [started |-> b, agreed |-> FALSE], F)
    BY <2>4 DEF Takes, Moves, ++
  <2>5. CASE \E b, F : /\ ui.tool # "duplicates" /\ F \subseteq {"runScan"}
                     /\ Takes("fetchStats", [loading |-> FALSE]
                              ++ [started |-> b, agreed |-> FALSE], F)
    BY <2>5 DEF Takes, Moves, ++
  <2> QED
    BY <2>1, <2>2, <2>3, <2>4, <2>5
<1>3. CASE openStale
  <2>1. Acts([staleModalOpen |-> TRUE], {})
    BY <1>3, ActSets DEF openStale
  <2> QED
    BY <2>1 DEF Acts, Moves, ++
<1>4. CASE closeStale
  <2>1. Acts([staleModalOpen |-> FALSE], {})
    BY <1>4, ActSets DEF closeStale
  <2> QED
    BY <2>1 DEF Acts, Moves, ++
<1>5. CASE scanStale
  <2>1. \E ids, now : LET cells == [scanIds |-> ids, started |-> now, agreed |-> FALSE]
                     IN  Acts(cells, {"runScan"}) \/ Acts(cells, {})
    BY <1>5, OpenScanMoves DEF scanStale
  <2> QED
    BY <2>1 DEF Acts, Moves, ++
<1>6. CASE ScanNext(None, Loading, "fetchStats")
  <2>1. \/ Drops({"runScan"}, [started |-> TRUE, agreed |-> TRUE], {"runScan"})
        \/ Drops({"runScan"}, [scanIds |-> None], {})
        \/ Acts([scanIds |-> None], {})
        \/ Takes("runScan", Loading, {"fetchStats"})
        \/ Takes("runScan", <<>>, {})
    BY <1>6, ScanMoves DEF ScanNext
  <2> QED
    BY <2>1 DEF Acts, Takes, Drops, Moves, ++
<1> QED
  BY <1>1, <1>2, <1>3, <1>4, <1>5, <1>6

LEMMA DashboardLoadKept ==
    ASSUME HasFn(calls), DashboardFrame, DashboardDuplicates, fetchDigest \/ fetchStats
    PROVE  DashboardFrame' /\ DashboardDuplicates' /\ HasFn(calls')
<1> USE NoCells
    DEF Page, Has, Turns, DashboardCells, DashboardFrame, Loading, Cells, Within, DashboardFns,
        DuplicatesDialog, DashboardDuplicates
<1>1. CASE fetchDigest
  <2>1. Takes("fetchDigest", <<>>, {})
    BY <1>1, ShowTakes, FailsTakes DEF fetchDigest
  <2> QED
    BY <2>1 DEF Takes, Moves, ++
<1>2. CASE fetchStats
  <2>1. \/ Takes("fetchStats", [loading |-> FALSE, stats |-> TRUE] ++ <<>>, {})
        \/ Takes("fetchStats", [loading |-> FALSE] ++ <<>>, {})
        \/ \E b, F : /\ ui.tool # "duplicates" /\ F \subseteq {"runScan"}
                     /\ Takes("fetchStats", [loading |-> FALSE, stats |-> TRUE]
                              ++ [started |-> b, agreed |-> FALSE], F)
        \/ \E b, F : /\ ui.tool # "duplicates" /\ F \subseteq {"runScan"}
                     /\ Takes("fetchStats", [loading |-> FALSE]
                              ++ [started |-> b, agreed |-> FALSE], F)
    BY <1>2, FetchStatsMoves DEF fetchStats
  <2>2. CASE Takes("fetchStats", [loading |-> FALSE, stats |-> TRUE] ++ <<>>, {})
    BY <2>2 DEF Takes, Moves, ++
  <2>3. CASE Takes("fetchStats", [loading |-> FALSE] ++ <<>>, {})
    BY <2>3 DEF Takes, Moves, ++
  <2>4. CASE \E b, F : /\ ui.tool # "duplicates" /\ F \subseteq {"runScan"}
                     /\ Takes("fetchStats", [loading |-> FALSE, stats |-> TRUE]
                              ++ [started |-> b, agreed |-> FALSE], F)
    BY <2>4 DEF Takes, Moves, ++
  <2>5. CASE \E b, F : /\ ui.tool # "duplicates" /\ F \subseteq {"runScan"}
                     /\ Takes("fetchStats", [loading |-> FALSE]
                              ++ [started |-> b, agreed |-> FALSE], F)
    BY <2>5 DEF Takes, Moves, ++
  <2> QED
    BY <2>1, <2>2, <2>3, <2>4, <2>5
<1> QED
  BY <1>1, <1>2

LEMMA DashboardDuplicatesKept ==
    ASSUME HasFn(calls), DashboardFrame, DashboardDuplicates, openDuplicates \/ DuplicatesNext
    PROVE  DashboardFrame' /\ DashboardDuplicates' /\ HasFn(calls')
<1>1. Has(DuplicatesDialog) /\ Turns("duplicatesLoading", {"fetchDuplicates"})
  BY DEF DashboardDuplicates, Cells, Has
<1>2. /\ Turns("duplicatesLoading", {"fetchDuplicates"})'
      /\ Beside(DuplicatesDialog, {"fetchDuplicates", "runScan"})
  BY <1>1, DuplicatesKept
<1>3. DashboardFrame'
  BY <1>2 DEF DashboardFrame, Beside, Page, Has, Turns, DashboardCells, DuplicatesDialog
<1>4. DashboardDuplicates'
  BY <1>2 DEF DashboardDuplicates, DashboardFrame, Has, Beside, Cells, DashboardCells, Within, DuplicatesDialog
<1> QED
  BY <1>2, <1>3, <1>4 DEF Beside

LEMMA DashboardKept ==
    ASSUME HasFn(calls), DashboardSound, DashboardNext \/ Answers
    PROVE  DashboardSound' /\ HasFn(calls')
<1>1. CASE DashboardStale /\ ~Answers
  <2>1. \/ fetchDigest \/ fetchStats \/ openStale \/ closeStale \/ scanStale
        \/ ScanNext(None, Loading, "fetchStats")
    BY <1>1, ServeAnswers, RefuseAnswers DEF DashboardNext, DashboardToolNext, DashboardStale
  <2> QED
    BY <1>1, <2>1, DashboardStaleKept DEF DashboardSound, DashboardTool
<1>2. CASE DashboardDuplicates /\ ~Answers
  <2>1. fetchDigest \/ fetchStats \/ openDuplicates \/ DuplicatesNext
    BY <1>2, ServeAnswers, RefuseAnswers
    DEF DashboardNext, DashboardToolNext, DashboardDuplicates, DuplicateHostnames
  <2> QED
    BY <1>2, <2>1, DashboardLoadKept, DashboardDuplicatesKept DEF DashboardSound, DashboardTool
<1>3. CASE Answers
  <2> USE DEF Answers, Page, Has, Cells, Turns, Within
  <2>1. DashboardFrame' /\ HasFn(calls')
    BY <1>3 DEF DashboardSound, DashboardFrame
  <2>2. CASE DashboardStale
    BY <1>3, <2>1, <2>2 DEF DashboardStale, DashboardTool, DashboardSound
  <2>3. CASE DashboardDuplicates
    BY <1>3, <2>1, <2>3 DEF DashboardDuplicates, DashboardTool, DashboardSound
  <2> QED
    BY <2>2, <2>3 DEF DashboardSound, DashboardTool
<1> QED
  BY <1>1, <1>2, <1>3 DEF DashboardSound, DashboardTool

---------------------------------------------------------------------------
(* IntegrationsPage.tsx and its drawers                                    *)
IntegrationsSound ==
    /\ Page("IntegrationsPage", {"handleConnect"}) /\ hasRole("Operator")
    /\ Cells({"page", "source", "open", "connectLoading", "importLoading", "step", "rows", "assigned",
              "selectedKeys"})
    /\ Turns("connectLoading", {"handleConnect"}) /\ Guards("importLoading", {"handleImport"})
    /\ OnlyFor("SuperAdmin", {"handleConnect", "handleImport"})
    /\ hasRole("SuperAdmin") \/ ~ui.open
    /\ Within({"fetchSubnets", "handleConnect", "handleImport"})

LEMMA HandleConnectMoves ==
    ASSUME HasFn(calls), handleConnect
    PROVE  \/ ui.open /\ Acts([connectLoading |-> TRUE], {"handleConnect"})
           \/ \E found : Takes("handleConnect", [connectLoading |-> FALSE, rows |-> found, assigned |-> {},
                                                 selectedKeys |-> {}, step |-> "select"], {})
           \/ Takes("handleConnect", [connectLoading |-> FALSE], {})
<1>1. ASSUME NEW c \in Ok("handleConnect"), NEW found \in SUBSET Rows,
             Display(c, "handleConnect", [connectLoading |-> FALSE, rows |-> found, assigned |-> {},
                                          selectedKeys |-> {}, step |-> "select"], {})
      PROVE  Takes("handleConnect", [connectLoading |-> FALSE, rows |-> found, assigned |-> {},
                                     selectedKeys |-> {}, step |-> "select"], {})
  BY <1>1, OkDisplays
<1>2. CASE Fails("handleConnect", [connectLoading |-> FALSE])
  BY <1>2, FailsTakes
<1>3. CASE /\ AtStep("connect") /\ ~ui.connectLoading
           /\ Act([connectLoading |-> TRUE], {Req("handleConnect", None, ui.source)})
  BY <1>3, ActSends DEF AtStep
<1> QED
  BY <1>1, <1>2, <1>3 DEF handleConnect

LEMMA IntegrationsKept ==
    ASSUME HasFn(calls), IntegrationsSound, IntegrationsNext \/ Answers
    PROVE  IntegrationsSound' /\ HasFn(calls')
<1> USE RoleKept, TwiceSent, NoCells
    DEF Page, Cells, Turns, Guards, OnlyFor, Within, Busy, Quiet, IntegrationsSound, Closed
<1>1. CASE fetchImportSubnets
  <2>1. \/ Takes("fetchSubnets", <<>>, {"fetchSubnets"})
        \/ Takes("fetchSubnets", <<>>, {})
    BY <1>1, OkSends, DoneTakes, FailsTakes DEF fetchImportSubnets
  <2> QED
    BY <2>1 DEF Takes, Moves, ++
<1>2. CASE openImportDrawer
  <2>1. hasRole("SuperAdmin") /\ Acts([open |-> TRUE], {})
    BY <1>2, ActSets DEF openImportDrawer, canUseIntegrations
  <2> QED
    BY <2>1 DEF Acts, Moves, ++
<1>3. CASE handleClose
  <2>1. Acts([open |-> FALSE] ++ Closed, {"fetchSubnets"})
    BY <1>3, ActClearingSends DEF handleClose
  <2> QED
    BY <2>1 DEF Acts, Moves, ++
<1>4. CASE handleConnect
  <2>1. \/ ui.open /\ Acts([connectLoading |-> TRUE], {"handleConnect"})
        \/ \E found : Takes("handleConnect", [connectLoading |-> FALSE, rows |-> found, assigned |-> {},
                                             selectedKeys |-> {}, step |-> "select"], {})
        \/ Takes("handleConnect", [connectLoading |-> FALSE], {})
    BY <1>4, HandleConnectMoves
  <2>2. CASE ui.open /\ Acts([connectLoading |-> TRUE], {"handleConnect"})
    BY <2>2 DEF Acts, Moves, ++
  <2>3. CASE \E found : Takes("handleConnect", [connectLoading |-> FALSE, rows |-> found, assigned |-> {},
                                             selectedKeys |-> {}, step |-> "select"], {})
    BY <2>3 DEF Takes, Moves, ++
  <2>4. CASE Takes("handleConnect", [connectLoading |-> FALSE], {})
    BY <2>4 DEF Takes, Moves, ++
  <2> QED
    BY <2>1, <2>2, <2>3, <2>4
<1>5. CASE back
  <2>1. Acts([step |-> "connect"], {})
    BY <1>5, ActClearingSets DEF back
  <2> QED
    BY <2>1 DEF Acts, Moves, ++
<1>6. CASE updateRow
  <2>1. \E a : Acts([assigned |-> a], {})
    BY <1>6, ActSets DEF updateRow
  <2> QED
    BY <2>1 DEF Acts, Moves, ++
<1>7. CASE select
  <2>1. \E s : Acts([selectedKeys |-> s], {})
    BY <1>7, ActSets DEF select
  <2> QED
    BY <2>1 DEF Acts, Moves, ++
<1>8. CASE handleImportRows
  <2>1. \/ ui.open /\ ~ui.importLoading /\ Acts([importLoading |-> TRUE], {"handleImport"})
        \/ Takes("handleImport", [importLoading |-> FALSE, step |-> "results"], {})
        \/ Takes("handleImport", [importLoading |-> FALSE], {})
    BY <1>8, ActSends, DoneTakes, FailsTakes DEF handleImportRows, AtStep
  <2> QED
    BY <2>1 DEF Acts, Takes, Moves, ++
<1>9. CASE Answers
  BY <1>9 DEF Answers
<1> QED
  BY <1>1, <1>2, <1>3, <1>4, <1>5, <1>6, <1>7, <1>8, <1>9, ServeAnswers, RefuseAnswers DEF IntegrationsNext

---------------------------------------------------------------------------
(* VaultPage.tsx                                                           *)
FrameCells == {"page", "tool", "cabinetsLoading", "cabinet", "folder", "pageNum", "doubled", "loading"}
FrameFns == {"fetchCabinets", "fetchFolders", "fetchEntries"}
VaultFrame ==
    /\ Page("VaultPage", {"fetchCabinets", "fetchFolders", "fetchEntries", "fetchShares"})
    /\ Has(FrameCells)
    /\ Turns("cabinetsLoading", {"fetchCabinets"}) /\ Turns("loading", {"fetchEntries"})

VaultCabinets ==
    /\ ui.tool = "cabinets" /\ Cells(FrameCells \cup {"modalOpen", "editing", "saving"})
    /\ Guards("saving", {"saveCabinet"})
    /\ ui.cabinet # None => ~ui.modalOpen /\ ~ui.saving
    /\ OnlyFor("Administrator", {"fetchUsers", "saveCabinet"})
    /\ hasRole("Administrator") \/ ~ui.modalOpen
    /\ OnlyFor("SuperAdmin", {"deleteCabinet"})
    /\ Within(FrameFns \cup {"fetchUsers", "saveCabinet", "deleteCabinet"})
VaultFolders ==
    /\ ui.tool = "folders" /\ Cells(FrameCells \cup {"addingIn", "editing"})
    /\ OnlyFor("Operator", {"createFolder", "renameFolder", "deleteFolder"})
    /\ hasRole("Operator") \/ (ui.addingIn = None /\ ui.editing = None)
    /\ Within(FrameFns \cup {"createFolder", "renameFolder", "deleteFolder"})
VaultEntries ==
    /\ ui.tool = "entries" /\ Cells(FrameCells \cup {"modalOpen", "saving"})
    /\ Guards("saving", {"saveEntry"})
    /\ ui.cabinet = None => ~ui.modalOpen /\ ~ui.saving
    /\ OnlyFor("Operator", {"saveEntry", "deleteEntry"})
    /\ hasRole("Operator") \/ ~ui.modalOpen
    /\ Within(FrameFns \cup {"fetchOptions", "saveEntry", "deleteEntry"})
VaultReveal ==
    /\ ui.tool = "reveal"
    /\ Cells(FrameCells \cup {"revealed", "revealing", "timers", "timerRef", "copyingId"})
    /\ Within(FrameFns \cup {"reveal", "copyPassword"})
VaultShares ==
    /\ ui.tool = "shares" /\ Cells(FrameCells \cup {"shareEntry", "sharesLoading", "creating"})
    /\ Guards("creating", {"createShare", "reloadShares"})
    /\ Turns("sharesLoading", {"fetchShares", "reloadShares"})
    /\ ui.cabinet = None => ui.shareEntry = None /\ ~ui.creating
    /\ Within(FrameFns \cup {"fetchShares", "reloadShares", "createShare", "revokeShare"})
VaultDrag ==
    /\ ui.tool = "drag" /\ Cells(FrameCells \cup {"dragging"})
    /\ OnlyFor("Operator", {"move"})
    /\ hasRole("Operator") \/ ui.dragging = None
    /\ Within(FrameFns \cup {"move"})
VaultTool ==
    VaultCabinets \/ VaultFolders \/ VaultEntries \/ VaultReveal \/ VaultShares \/ VaultDrag
VaultSound == VaultFrame /\ VaultTool

Opened(c) == [cabinet |-> c, loading |-> TRUE, cabinetsLoading |-> FALSE]
Left == [cabinetsLoading |-> TRUE] ++ NoCabinet

LEMMA HandleSelectCabinetMoves ==
    ASSUME HasFn(calls), handleSelectCabinet
    PROVE  ui.cabinet = None /\ \E c : Drops(ListFns, Opened(c) ++ Tool, {"fetchFolders", "fetchEntries"})
<1>1. PICK c : AbortClearing({"fetchCabinets"}, ListFns, Opened(c) ++ Tool,
                             FetchFolders(c) \cup FetchEntries(<<c, 1, "all">>))
  BY DEF handleSelectCabinet, Opened
<1>2. Asks(FetchFolders(c) \cup FetchEntries(<<c, 1, "all">>), {"fetchFolders"} \cup {"fetchEntries"})
  <2>1. Asks(FetchFolders(c), {"fetchFolders"}) /\ Asks(FetchEntries(<<c, 1, "all">>), {"fetchEntries"})
    BY AsksOnce DEF FetchFolders, FetchEntries
  <2>2. {"fetchFolders"} \cap {"fetchEntries"} = {}
    OBVIOUS
  <2> QED
    BY <2>1, <2>2, AsksTwo
<1>3. {"fetchFolders"} \cup {"fetchEntries"} = {"fetchFolders", "fetchEntries"}
  OBVIOUS
<1>4. Asks(FetchFolders(c) \cup FetchEntries(<<c, 1, "all">>), {"fetchFolders", "fetchEntries"})
  BY <1>2, <1>3
<1> QED
  BY <1>1, <1>4, ReplaceDrops DEF AbortClearing, handleSelectCabinet, AtList

LEMMA HandleBackMoves ==
    ASSUME HasFn(calls), handleBack
    PROVE  ui.cabinet # None /\ Drops(CabinetFns, Left ++ Tool, {"fetchCabinets"})
BY AbortClearingSends DEF handleBack, AtCabinet, FetchCabinets, Left

\* The table of the folder f, with what clearReveal leaves.
FolderOf(f, d) == [folder |-> f, pageNum |-> 1, loading |-> TRUE, doubled |-> d]

LEMMA FolderFetchesFor == ASSUME NEW f PROVE SendsFor(FolderFetches(f), {"fetchEntries"})
<1>1. SendsFor(FolderFetches(f), {"fetchEntries"} \cup {"fetchEntries"})
  BY SendsForOne, SendsForBoth DEF FolderFetches, FetchEntries
<1> QED
  BY <1>1

LEMMA SelectFolderMoves ==
    ASSUME HasFn(calls), selectFolder
    PROVE  \E f, d : Repeats(FolderOf(f, d) ++ Cleared, {"fetchEntries"})
<1>1. PICK f, d : d = (ui.pageNum = 2) /\ Act(FolderOf(f, d) ++ Cleared, FolderFetches(f))
  BY DEF selectFolder, FolderCells, FolderOf
<1> QED
  BY <1>1, FolderFetchesFor, ActRepeats

LEMMA DeleteFolderMoves ==
    ASSUME HasFn(calls), deleteFolder
    PROVE  \/ canEdit /\ Acts(<<>>, {"deleteFolder"})
           \/ \E f, d : Forwards("deleteFolder", FolderOf(f, d) ++ Cleared, {"fetchFolders", "fetchEntries"})
           \/ Takes("deleteFolder", <<>>, {"fetchFolders"})
           \/ Takes("deleteFolder", <<>>, {})
<1>1. ASSUME NEW c \in Ok("deleteFolder"), NEW d, d = (ui.pageNum = 2),
             Settle(c, FolderOf("all", d) ++ Cleared, FetchFolders(c.x) \cup FolderFetches("all"))
      PROVE  Forwards("deleteFolder", FolderOf("all", d) ++ Cleared, {"fetchFolders", "fetchEntries"})
  <2>1. SendsFor(FetchFolders(c.x), {"fetchFolders"}) /\ SendsFor(FolderFetches("all"), {"fetchEntries"})
    BY SendsForOne, FolderFetchesFor DEF FetchFolders
  <2>2. SendsFor(FetchFolders(c.x) \cup FolderFetches("all"), {"fetchFolders"} \cup {"fetchEntries"})
    BY <2>1, SendsForBoth
  <2>3. {"fetchFolders"} \cup {"fetchEntries"} = {"fetchFolders", "fetchEntries"}
    OBVIOUS
  <2>4. SendsFor(FetchFolders(c.x) \cup FolderFetches("all"), {"fetchFolders", "fetchEntries"})
    BY <2>2, <2>3
  <2>5. c \in calls /\ c.fn = "deleteFolder"
    BY DEF Ok
  <2>6. Forwards(c.fn, FolderOf("all", d) ++ Cleared, {"fetchFolders", "fetchEntries"})
    BY <1>1, <2>4, <2>5, SettleForwards
  <2> QED
    BY <2>5, <2>6
<1>2. ASSUME NEW c \in Ok("deleteFolder"), ReloadFolders(c, <<>>)
      PROVE  Takes("deleteFolder", <<>>, {"fetchFolders"})
  BY <1>2, OkSends DEF ReloadFolders, FetchFolders
<1>3. ASSUME NEW c \in Ok("deleteFolder"),
             Settle(c, FolderCells("all"), FetchFolders(c.x) \cup FolderFetches("all"))
      PROVE  \E f, d : Forwards("deleteFolder", FolderOf(f, d) ++ Cleared, {"fetchFolders", "fetchEntries"})
  <2>1. PICK d : d = (ui.pageNum = 2) /\ FolderCells("all") = FolderOf("all", d) ++ Cleared
    BY DEF FolderCells, FolderOf
  <2> QED
    BY <1>1, <1>3, <2>1
<1> QED
  BY <1>2, <1>3, ActSends, FailsTakes DEF deleteFolder

LEMMA ReloadCabinetsTakes ==
    ASSUME NEW fn, NEW c \in Ok(fn), NEW cells, HasFn(calls), ReloadCabinets(c, cells)
    PROVE  Takes(fn, cells ++ [cabinetsLoading |-> TRUE], {"fetchCabinets"})
BY OkSends DEF ReloadCabinets, FetchCabinets

LEMMA ReloadEntriesTakes ==
    ASSUME NEW fn, NEW cells, HasFn(calls), ReloadEntries(fn, cells)
    PROVE  Takes(fn, cells ++ [loading |-> TRUE], {"fetchEntries"})
BY OkSends DEF ReloadEntries, FetchEntries

LEMMA ReloadFoldersTakes ==
    ASSUME NEW fn, NEW c \in Ok(fn), NEW cells, HasFn(calls), ReloadFolders(c, cells)
    PROVE  Takes(fn, cells, {"fetchFolders"})
BY OkSends DEF ReloadFolders, FetchFolders

LEMMA OpenCabinetMoves ==
    ASSUME HasFn(calls), openCabinet
    PROVE  /\ hasRole("Administrator") /\ ui.cabinet = None
           /\ \E r : \/ Acts([modalOpen |-> TRUE, editing |-> r], {"fetchUsers"})
                     \/ Acts([modalOpen |-> TRUE, editing |-> r], {})
<1>1. PICK r \in Rows \cup {None}, manages \in BOOLEAN :
        /\ AtList /\ hasRole("Administrator")
        /\ hasRole("SuperAdmin") => manages
        /\ Act([modalOpen |-> TRUE, editing |-> r], IF manages THEN {Req("fetchUsers", None, r)} ELSE {})
  BY Zenon DEF openCabinet
<1>2. CASE manages
  BY <1>1, <1>2, ActSends DEF AtList
<1>3. CASE ~manages
  BY <1>1, <1>3, ActSets DEF AtList
<1> QED
  BY <1>2, <1>3

LEMMA SaveCabinetMoves ==
    ASSUME HasFn(calls), saveCabinet
    PROVE  \/ ui.modalOpen /\ ~ui.saving /\ Acts([saving |-> TRUE], {"saveCabinet"})
           \/ Takes("saveCabinet", <<>>, {"saveCabinet"})
           \/ Takes("saveCabinet", [modalOpen |-> FALSE, saving |-> FALSE] ++ [cabinetsLoading |-> TRUE],
                    {"fetchCabinets"})
           \/ Takes("saveCabinet", [saving |-> FALSE], {})
BY ActSends, OkSends, ReloadCabinetsTakes, FailsTakes DEF saveCabinet

LEMMA RevealPasswordMoves ==
    ASSUME HasFn(calls), revealPassword, ui.tool = "reveal"
    PROVE  \/ \E cells : /\ DOMAIN cells = {"revealed", "revealing", "timerRef", "timers"}
                         /\ Acts(cells, {"reveal"})
           \/ \E r, t : Takes("reveal", [revealed |-> r, revealing |-> None, timers |-> t, timerRef |-> TRUE], {})
           \/ Takes("reveal", [revealed |-> None, revealing |-> None], {})
<1>1. DOMAIN Cleared = {"revealed", "revealing", "timerRef", "timers"}
  BY DEF Cleared
<1>2. ASSUME NEW e, Act([Cleared EXCEPT !.revealing = e], {Req("reveal", None, e)})
      PROVE  \E cells : /\ DOMAIN cells = {"revealed", "revealing", "timerRef", "timers"}
                        /\ Acts(cells, {"reveal"})
  <2>1. PICK cells : cells = [Cleared EXCEPT !.revealing = e]
    OBVIOUS
  <2>2. DOMAIN cells = {"revealed", "revealing", "timerRef", "timers"}
    BY <1>1, <2>1
  <2>3. Acts(cells, {"reveal"})
    BY <1>2, <2>1, ActSends
  <2> QED
    BY <2>2, <2>3
<1>3. ASSUME NEW c \in Ok("reveal"), NEW n,
             Settle(c, [revealed |-> c.x, revealing |-> None, timers |-> n, timerRef |-> TRUE], {})
      PROVE  \E r : Takes("reveal", [revealed |-> r, revealing |-> None, timers |-> n, timerRef |-> TRUE], {})
  BY <1>3, OkTakes
<1> QED
  BY <1>2, <1>3, FailsTakes DEF revealPassword

LEMMA ClearedMoves ==
    ASSUME HasFn(calls), ui.tool = "reveal", clearReveal \/ secondsUp
    PROVE  \E t : LET cells == [revealed |-> None, revealing |-> None, timerRef |-> FALSE, timers |-> t]
                  IN  Acts(cells, {}) \/ Drops({}, cells, {})
<1>1. PICK t : Cleared = [revealed |-> None, revealing |-> None, timerRef |-> FALSE, timers |-> t]
  BY DEF Cleared
<1>2. Acts(Cleared, {}) \/ Drops({}, Cleared, {})
  BY ActSets, FireSets DEF clearReveal, secondsUp
<1> QED
  BY <1>1, <1>2

LEMMA CreateShareMoves ==
    ASSUME HasFn(calls), createShare
    PROVE  \/ ui.shareEntry # None /\ ~ui.creating /\ Acts([creating |-> TRUE], {"createShare"})
           \/ Takes("createShare", [sharesLoading |-> TRUE], {"reloadShares"})
           \/ Takes("reloadShares", [sharesLoading |-> FALSE, creating |-> FALSE], {})
           \/ Takes("createShare", [creating |-> FALSE], {})
BY ActSends, OkSends, OkDisplays, FailsTakes DEF createShare

LEMMA HandleDropToFolderMoves ==
    ASSUME HasFn(calls), handleDropToFolder
    PROVE  \/ ui.dragging # None /\ Acts([dragging |-> None], {"move"})
           \/ Takes("move", [dragging |-> None], {})
           \/ Takes("move", [dragging |-> None, loading |-> TRUE], {"fetchEntries"})
<1>1. ASSUME NEW c \in Ok("move"),
             \/ Settle(c, [dragging |-> None], {})
             \/ Settle(c, [dragging |-> None, loading |-> TRUE], FetchEntries(EntriesQuery))
      PROVE  \/ Takes("move", [dragging |-> None], {})
             \/ Takes("move", [dragging |-> None, loading |-> TRUE], {"fetchEntries"})
  BY <1>1, OkTakes, OkSends DEF FetchEntries
<1> QED
  BY <1>1, ActSends, FailsTakes DEF handleDropToFolder

VaultFetch == fetchCabinets \/ fetchEntries \/ fetchFolders

LEMMA VaultFetchKept ==
    ASSUME HasFn(calls), VaultFrame, VaultFetch
    PROVE  VaultFrame' /\ Beside({"cabinetsLoading", "loading"}, FrameFns)
<1> USE RoleKept, NoCells
    DEF Page, Has, Turns, FrameCells, VaultFrame, Beside, FrameFns
<1>1. CASE fetchCabinets
  <2>1. Takes("fetchCabinets", [cabinetsLoading |-> FALSE], {})
    BY <1>1, ShowTakes, FailsTakes DEF fetchCabinets
  <2> QED
    BY <2>1 DEF Takes, Moves, ++
<1>2. CASE fetchEntries
  <2>1. Takes("fetchEntries", [loading |-> FALSE], {})
    BY <1>2, ShowTakes, FailsTakes DEF fetchEntries
  <2> QED
    BY <2>1 DEF Takes, Moves, ++
<1>3. CASE fetchFolders
  <2>1. Takes("fetchFolders", <<>>, {})
    BY <1>3, ShowTakes, FailsTakes DEF fetchFolders
  <2> QED
    BY <2>1 DEF Takes, Moves, ++
<1> QED
  BY <1>1, <1>2, <1>3 DEF VaultFetch

LEMMA VaultCabinetsKept ==
    ASSUME HasFn(calls), VaultFrame, VaultCabinets,
           \/ handleSelectCabinet \/ handleBack \/ selectFolder
           \/ openCabinet \/ fetchCabinetUsers \/ saveCabinet \/ deleteCabinet \/ closeModal
    PROVE  VaultFrame' /\ VaultCabinets' /\ HasFn(calls')
<1> USE RoleKept, TwiceSent, NoCells
    DEF Page, Has, Turns, FrameCells, VaultFrame, Cells, Guards, OnlyFor, Quiet, Within, Busy, FrameFns,
        ListFns, CabinetFns, FolderOf, VaultCabinets
<1>1. CASE handleSelectCabinet
  <2>1. PICK c : ui.cabinet = None
            /\ Drops(ListFns, Opened(c) ++ [modalOpen |-> FALSE, editing |-> None, saving |-> FALSE],
                      {"fetchFolders", "fetchEntries"})
    <3>1. Tool = [modalOpen |-> FALSE, editing |-> None, saving |-> FALSE]
      BY DEF Tool, VaultTools
    <3> QED
      BY <1>1, <3>1, HandleSelectCabinetMoves
  <2>2. /\ DOMAIN ui' = DOMAIN ui /\ ui'.page = ui.page /\ ui'.tool = ui.tool
        /\ ui'.loading = TRUE /\ ui'.cabinetsLoading = FALSE /\ ui'.modalOpen = FALSE
        /\ ui'.editing = None /\ ui'.saving = FALSE
    BY <2>1 DEF Drops, Moves, ++, Opened
  <2> QED
    BY <2>1, <2>2 DEF Drops, Moves
<1>2. CASE handleBack
  <2>1. ui.cabinet # None /\ Drops(CabinetFns, Left ++ [modalOpen |-> FALSE, editing |-> None, saving |-> FALSE],
                      {"fetchCabinets"})
    <3>1. Tool = [modalOpen |-> FALSE, editing |-> None, saving |-> FALSE]
      BY DEF Tool, VaultTools
    <3> QED
      BY <1>2, <3>1, HandleBackMoves
  <2>2. /\ DOMAIN ui' = DOMAIN ui /\ ui'.page = ui.page /\ ui'.tool = ui.tool
        /\ ui'.loading = FALSE /\ ui'.cabinetsLoading = TRUE /\ ui'.modalOpen = FALSE
        /\ ui'.editing = None /\ ui'.saving = FALSE
    BY <2>1 DEF Drops, Moves, ++, Left, NoCabinet
  <2> QED
    BY <2>1, <2>2 DEF Drops, Moves
<1>3. CASE selectFolder
  <2>1. \E f, d : Repeats(FolderOf(f, d) ++ <<>>, {"fetchEntries"})
    BY <1>3, SelectFolderMoves DEF Cleared
  <2> QED
    BY <2>1 DEF Repeats, Moves, ++
<1>4. CASE openCabinet
  <2>1. \/ /\ hasRole("Administrator") /\ ui.cabinet = None
           /\ \E r : Acts([modalOpen |-> TRUE, editing |-> r], {"fetchUsers"})
        \/ /\ hasRole("Administrator") /\ ui.cabinet = None
           /\ \E r : Acts([modalOpen |-> TRUE, editing |-> r], {})
    BY <1>4, OpenCabinetMoves
  <2>2. CASE /\ hasRole("Administrator") /\ ui.cabinet = None
           /\ \E r : Acts([modalOpen |-> TRUE, editing |-> r], {"fetchUsers"})
    BY <2>2 DEF Acts, Moves, ++
  <2>3. CASE /\ hasRole("Administrator") /\ ui.cabinet = None
           /\ \E r : Acts([modalOpen |-> TRUE, editing |-> r], {})
    BY <2>3 DEF Acts, Moves, ++
  <2> QED
    BY <2>1, <2>2, <2>3
<1>5. CASE fetchCabinetUsers
  <2>1. Takes("fetchUsers", <<>>, {})
    BY <1>5, OrFailedTakes DEF fetchCabinetUsers
  <2> QED
    BY <2>1 DEF Takes, Moves, ++
<1>6. CASE saveCabinet
  <2>1. \/ ui.modalOpen /\ ~ui.saving /\ Acts([saving |-> TRUE], {"saveCabinet"})
        \/ Takes("saveCabinet", <<>>, {"saveCabinet"})
        \/ Takes("saveCabinet", [modalOpen |-> FALSE, saving |-> FALSE] ++ [cabinetsLoading |-> TRUE],
              {"fetchCabinets"})
        \/ Takes("saveCabinet", [saving |-> FALSE], {})
    BY <1>6, SaveCabinetMoves
  <2> QED
    BY <2>1 DEF Acts, Takes, Moves, ++
<1>7. CASE deleteCabinet
  <2>1. \/ hasRole("SuperAdmin") /\ Acts(<<>>, {"deleteCabinet"})
        \/ Takes("deleteCabinet", <<>> ++ [cabinetsLoading |-> TRUE], {"fetchCabinets"})
        \/ Takes("deleteCabinet", <<>>, {})
    BY <1>7, ActSends, ReloadCabinetsTakes, FailsTakes DEF deleteCabinet
  <2> QED
    BY <2>1 DEF Acts, Takes, Moves, ++
<1>8. CASE closeModal
  <2>1. Acts([modalOpen |-> FALSE], {})
    BY <1>8, ActSets DEF closeModal
  <2> QED
    BY <2>1 DEF Acts, Moves, ++
<1> QED
  BY <1>1, <1>2, <1>3, <1>4, <1>5, <1>6, <1>7, <1>8

LEMMA VaultFoldersKept ==
    ASSUME HasFn(calls), VaultFrame, VaultFolders,
           \/ handleSelectCabinet \/ handleBack \/ selectFolder
           \/ startAdding \/ startRenaming \/ createFolder \/ renameFolder \/ deleteFolder
    PROVE  VaultFrame' /\ VaultFolders' /\ HasFn(calls')
<1> USE RoleKept, TwiceSent, NoCells
    DEF Page, Has, Turns, FrameCells, VaultFrame, Cells, Guards, OnlyFor, Quiet, Within, Busy, FrameFns,
        ListFns, CabinetFns, FolderOf, canEdit, VaultFolders
<1>1. CASE handleSelectCabinet
  <2>1. PICK c : ui.cabinet = None /\ Drops(ListFns, Opened(c) ++ [addingIn |-> None, editing |-> None],
                      {"fetchFolders", "fetchEntries"})
    <3>1. Tool = [addingIn |-> None, editing |-> None]
      BY DEF Tool, VaultTools
    <3> QED
      BY <1>1, <3>1, HandleSelectCabinetMoves
  <2>2. /\ DOMAIN ui' = DOMAIN ui /\ ui'.page = ui.page /\ ui'.tool = ui.tool
        /\ ui'.loading = TRUE /\ ui'.cabinetsLoading = FALSE /\ ui'.addingIn = None /\ ui'.editing = None
    BY <2>1 DEF Drops, Moves, ++, Opened
  <2> QED
    BY <2>1, <2>2 DEF Drops, Moves
<1>2. CASE handleBack
  <2>1. ui.cabinet # None /\ Drops(CabinetFns, Left ++ [addingIn |-> None, editing |-> None],
                      {"fetchCabinets"})
    <3>1. Tool = [addingIn |-> None, editing |-> None]
      BY DEF Tool, VaultTools
    <3> QED
      BY <1>2, <3>1, HandleBackMoves
  <2>2. /\ DOMAIN ui' = DOMAIN ui /\ ui'.page = ui.page /\ ui'.tool = ui.tool
        /\ ui'.loading = FALSE /\ ui'.cabinetsLoading = TRUE /\ ui'.addingIn = None /\ ui'.editing = None
    BY <2>1 DEF Drops, Moves, ++, Left, NoCabinet
  <2> QED
    BY <2>1, <2>2 DEF Drops, Moves
<1>3. CASE selectFolder
  <2>1. \E f, d : Repeats(FolderOf(f, d) ++ <<>>, {"fetchEntries"})
    BY <1>3, SelectFolderMoves DEF Cleared
  <2> QED
    BY <2>1 DEF Repeats, Moves, ++
<1>4. CASE startAdding
  <2>1. canEdit /\ \E f : Acts([addingIn |-> f], {})
    BY <1>4, ActSets DEF startAdding
  <2> QED
    BY <2>1 DEF Acts, Moves, ++
<1>5. CASE startRenaming
  <2>1. canEdit /\ \E f : Acts([editing |-> f], {})
    BY <1>5, ActSets DEF startRenaming
  <2> QED
    BY <2>1 DEF Acts, Moves, ++
<1>6. CASE createFolder
  <2>1. \/ Acts([addingIn |-> None], {})
        \/ ui.addingIn # None /\ Acts(<<>>, {"createFolder"})
        \/ Takes("createFolder", [addingIn |-> None], {"fetchFolders"})
        \/ Takes("createFolder", <<>>, {})
    BY <1>6, ActSets, ActSends, ReloadFoldersTakes, FailsTakes DEF createFolder
  <2> QED
    BY <2>1 DEF Acts, Takes, Moves, ++
<1>7. CASE renameFolder
  <2>1. \/ Acts([editing |-> None], {})
        \/ ui.editing # None /\ Acts(<<>>, {"renameFolder"})
        \/ Takes("renameFolder", [editing |-> None], {"fetchFolders"})
        \/ Takes("renameFolder", <<>>, {})
    BY <1>7, ActSets, ActSends, ReloadFoldersTakes, FailsTakes DEF renameFolder
  <2> QED
    BY <2>1 DEF Acts, Takes, Moves, ++
<1>8. CASE deleteFolder
  <2>1. \/ canEdit /\ Acts(<<>>, {"deleteFolder"})
        \/ \E f, d : Forwards("deleteFolder", FolderOf(f, d) ++ <<>>, {"fetchFolders", "fetchEntries"})
        \/ Takes("deleteFolder", <<>>, {"fetchFolders"})
        \/ Takes("deleteFolder", <<>>, {})
    BY <1>8, DeleteFolderMoves DEF Cleared
  <2>2. CASE canEdit /\ Acts(<<>>, {"deleteFolder"})
    BY <2>2 DEF Acts, Moves, ++
  <2>3. CASE \E f, d : Forwards("deleteFolder", FolderOf(f, d) ++ <<>>, {"fetchFolders", "fetchEntries"})
    BY <2>3 DEF Forwards, Moves, ++
  <2>4. CASE Takes("deleteFolder", <<>>, {"fetchFolders"})
    BY <2>4 DEF Takes, Moves, ++
  <2>5. CASE Takes("deleteFolder", <<>>, {})
    BY <2>5 DEF Takes, Moves, ++
  <2> QED
    BY <2>1, <2>2, <2>3, <2>4, <2>5
<1> QED
  BY <1>1, <1>2, <1>3, <1>4, <1>5, <1>6, <1>7, <1>8

LEMMA VaultEntriesKept ==
    ASSUME HasFn(calls), VaultFrame, VaultEntries,
           \/ handleSelectCabinet \/ handleBack \/ selectFolder
           \/ setEntriesPage \/ deleteEntry \/ openEntry \/ fetchOptions \/ saveEntry \/ closeModal
    PROVE  VaultFrame' /\ VaultEntries' /\ HasFn(calls')
<1> USE RoleKept, TwiceSent, NoCells
    DEF Page, Has, Turns, FrameCells, VaultFrame, Cells, Guards, OnlyFor, Quiet, Within, Busy, FrameFns,
        ListFns, CabinetFns, FolderOf, canEdit, VaultEntries
<1>1. CASE handleSelectCabinet
  <2>1. PICK c : ui.cabinet = None /\ Drops(ListFns, Opened(c) ++ [modalOpen |-> FALSE, saving |-> FALSE],
                      {"fetchFolders", "fetchEntries"})
    <3>1. Tool = [modalOpen |-> FALSE, saving |-> FALSE]
      BY DEF Tool, VaultTools
    <3> QED
      BY <1>1, <3>1, HandleSelectCabinetMoves
  <2>2. /\ DOMAIN ui' = DOMAIN ui /\ ui'.page = ui.page /\ ui'.tool = ui.tool
        /\ ui'.loading = TRUE /\ ui'.cabinetsLoading = FALSE /\ ui'.modalOpen = FALSE
        /\ ui'.saving = FALSE
    BY <2>1 DEF Drops, Moves, ++, Opened
  <2> QED
    BY <2>1, <2>2 DEF Drops, Moves
<1>2. CASE handleBack
  <2>1. ui.cabinet # None /\ Drops(CabinetFns, Left ++ [modalOpen |-> FALSE, saving |-> FALSE],
                      {"fetchCabinets"})
    <3>1. Tool = [modalOpen |-> FALSE, saving |-> FALSE]
      BY DEF Tool, VaultTools
    <3> QED
      BY <1>2, <3>1, HandleBackMoves
  <2>2. /\ DOMAIN ui' = DOMAIN ui /\ ui'.page = ui.page /\ ui'.tool = ui.tool
        /\ ui'.loading = FALSE /\ ui'.cabinetsLoading = TRUE /\ ui'.modalOpen = FALSE
        /\ ui'.saving = FALSE
    BY <2>1 DEF Drops, Moves, ++, Left, NoCabinet
  <2> QED
    BY <2>1, <2>2 DEF Drops, Moves
<1>3. CASE selectFolder
  <2>1. \E f, d : Repeats(FolderOf(f, d) ++ <<>>, {"fetchEntries"})
    BY <1>3, SelectFolderMoves DEF Cleared
  <2> QED
    BY <2>1 DEF Repeats, Moves, ++
<1>4. CASE setEntriesPage
  <2>1. \E q : Acts([pageNum |-> q, loading |-> TRUE, doubled |-> FALSE], {"fetchEntries"})
    BY <1>4, ActSends DEF setEntriesPage, FetchEntries
  <2> QED
    BY <2>1 DEF Acts, Moves, ++
<1>5. CASE deleteEntry
  <2>1. \/ canEdit /\ Acts(<<>>, {"deleteEntry"})
        \/ Takes("deleteEntry", <<>> ++ [loading |-> TRUE], {"fetchEntries"})
        \/ Takes("deleteEntry", <<>>, {})
    BY <1>5, ActSends, ReloadEntriesTakes, FailsTakes DEF deleteEntry
  <2> QED
    BY <2>1 DEF Acts, Takes, Moves, ++
<1>6. CASE openEntry
  <2>1. canEdit /\ ui.cabinet # None /\ Acts([modalOpen |-> TRUE], {"fetchOptions"})
    BY <1>6, ActSends DEF openEntry, AtCabinet
  <2> QED
    BY <2>1 DEF Acts, Moves, ++
<1>7. CASE fetchOptions
  <2>1. Takes("fetchOptions", <<>>, {})
    BY <1>7, OrFailedTakes DEF fetchOptions
  <2> QED
    BY <2>1 DEF Takes, Moves, ++
<1>8. CASE saveEntry
  <2>1. \/ ui.modalOpen /\ ~ui.saving /\ Acts([saving |-> TRUE], {"saveEntry"})
        \/ Takes("saveEntry", [modalOpen |-> FALSE, saving |-> FALSE] ++ [loading |-> TRUE], {"fetchEntries"})
        \/ Takes("saveEntry", [saving |-> FALSE], {})
    BY <1>8, ActSends, ReloadEntriesTakes, FailsTakes DEF saveEntry
  <2> QED
    BY <2>1 DEF Acts, Takes, Moves, ++
<1>9. CASE closeModal
  <2>1. Acts([modalOpen |-> FALSE], {})
    BY <1>9, ActSets DEF closeModal
  <2> QED
    BY <2>1 DEF Acts, Moves, ++
<1> QED
  BY <1>1, <1>2, <1>3, <1>4, <1>5, <1>6, <1>7, <1>8, <1>9

LEMMA VaultRevealKept ==
    ASSUME HasFn(calls), VaultFrame, VaultReveal,
           \/ handleSelectCabinet \/ handleBack \/ selectFolder
           \/ revealPassword \/ clearReveal \/ secondsUp \/ copyPassword
    PROVE  VaultFrame' /\ VaultReveal' /\ HasFn(calls')
<1> USE RoleKept, TwiceSent, NoCells
    DEF Page, Has, Turns, FrameCells, VaultFrame, Cells, Guards, OnlyFor, Quiet, Within, Busy, FrameFns,
        ListFns, CabinetFns, FolderOf, VaultReveal
<1>1. CASE handleSelectCabinet
  <2>1. PICK c : ui.cabinet = None
            /\ Drops(ListFns, Opened(c) ++ [revealed |-> None, revealing |-> None, timers |-> 0, timerRef |-> FALSE, copyingId |-> None],
                      {"fetchFolders", "fetchEntries"})
    <3>1. Tool = [revealed |-> None, revealing |-> None, timers |-> 0, timerRef |-> FALSE, copyingId |-> None]
      BY DEF Tool, VaultTools
    <3> QED
      BY <1>1, <3>1, HandleSelectCabinetMoves
  <2>2. /\ DOMAIN ui' = DOMAIN ui /\ ui'.page = ui.page /\ ui'.tool = ui.tool
        /\ ui'.loading = TRUE /\ ui'.cabinetsLoading = FALSE /\ ui'.revealed = None
        /\ ui'.revealing = None /\ ui'.timers = 0 /\ ui'.timerRef = FALSE /\ ui'.copyingId = None
    BY <2>1 DEF Drops, Moves, ++, Opened
  <2> QED
    BY <2>1, <2>2 DEF Drops, Moves
<1>2. CASE handleBack
  <2>1. ui.cabinet # None /\ Drops(CabinetFns,
                    Left ++ [revealed |-> None, revealing |-> None, timers |-> 0, timerRef |-> FALSE, copyingId |-> None],
                      {"fetchCabinets"})
    <3>1. Tool = [revealed |-> None, revealing |-> None, timers |-> 0, timerRef |-> FALSE, copyingId |-> None]
      BY DEF Tool, VaultTools
    <3> QED
      BY <1>2, <3>1, HandleBackMoves
  <2>2. /\ DOMAIN ui' = DOMAIN ui /\ ui'.page = ui.page /\ ui'.tool = ui.tool
        /\ ui'.loading = FALSE /\ ui'.cabinetsLoading = TRUE /\ ui'.revealed = None
        /\ ui'.revealing = None /\ ui'.timers = 0 /\ ui'.timerRef = FALSE /\ ui'.copyingId = None
    BY <2>1 DEF Drops, Moves, ++, Left, NoCabinet
  <2> QED
    BY <2>1, <2>2 DEF Drops, Moves
<1>3. CASE selectFolder
  <2>1. \E f, d, t : Repeats(FolderOf(f, d)
                    ++ [revealed |-> None, revealing |-> None, timerRef |-> FALSE, timers |-> t],
                               {"fetchEntries"})
    BY <1>3, SelectFolderMoves DEF Cleared
  <2> QED
    BY <2>1 DEF Repeats, Moves, ++
<1>4. CASE revealPassword
  <2>1. \/ \E cells : /\ DOMAIN cells = {"revealed", "revealing", "timerRef", "timers"}
                     /\ Acts(cells, {"reveal"})
        \/ \E r, t : Takes("reveal", [revealed |-> r, revealing |-> None, timers |-> t, timerRef |-> TRUE], {})
        \/ Takes("reveal", [revealed |-> None, revealing |-> None], {})
    BY <1>4, RevealPasswordMoves
  <2>2. CASE \E cells : /\ DOMAIN cells = {"revealed", "revealing", "timerRef", "timers"}
                     /\ Acts(cells, {"reveal"})
    BY <2>2 DEF Acts, Moves, ++
  <2>3. CASE \E r, t : Takes("reveal", [revealed |-> r, revealing |-> None, timers |-> t, timerRef |-> TRUE], {})
    BY <2>3 DEF Takes, Moves, ++
  <2>4. CASE Takes("reveal", [revealed |-> None, revealing |-> None], {})
    BY <2>4 DEF Takes, Moves, ++
  <2> QED
    BY <2>1, <2>2, <2>3, <2>4
<1>5. CASE clearReveal
  <2>1. \E t : LET cells == [revealed |-> None, revealing |-> None, timerRef |-> FALSE, timers |-> t]
              IN  Acts(cells, {}) \/ Drops({}, cells, {})
    BY <1>5, ClearedMoves DEF clearReveal
  <2> QED
    BY <2>1 DEF Acts, Drops, Moves, ++
<1>6. CASE secondsUp
  <2>1. \E t : LET cells == [revealed |-> None, revealing |-> None, timerRef |-> FALSE, timers |-> t]
              IN  Acts(cells, {}) \/ Drops({}, cells, {})
    BY <1>6, ClearedMoves DEF secondsUp
  <2> QED
    BY <2>1 DEF Acts, Drops, Moves, ++
<1>7. CASE copyPassword
  <2>1. \/ \E e : Acts([copyingId |-> e], {"copyPassword"})
        \/ Takes("copyPassword", [copyingId |-> None], {})
    BY <1>7, ActSends, DoneTakes, FailsTakes DEF copyPassword
  <2>2. CASE \E e : Acts([copyingId |-> e], {"copyPassword"})
    BY <2>2 DEF Acts, Moves, ++
  <2>3. CASE Takes("copyPassword", [copyingId |-> None], {})
    BY <2>3 DEF Takes, Moves, ++
  <2> QED
    BY <2>1, <2>2, <2>3
<1> QED
  BY <1>1, <1>2, <1>3, <1>4, <1>5, <1>6, <1>7

LEMMA VaultSharesKept ==
    ASSUME HasFn(calls), VaultFrame, VaultShares,
           \/ handleSelectCabinet \/ handleBack \/ selectFolder
           \/ openShares \/ closeShares \/ fetchShares \/ createShare \/ revokeShare
    PROVE  VaultFrame' /\ VaultShares' /\ HasFn(calls')
<1> USE RoleKept, TwiceSent, NoCells
    DEF Page, Has, Turns, FrameCells, VaultFrame, Cells, Guards, OnlyFor, Quiet, Within, Busy, FrameFns,
        ListFns, CabinetFns, FolderOf, VaultShares
<1>1. CASE handleSelectCabinet
  <2>1. PICK c : ui.cabinet = None
            /\ Drops(ListFns, Opened(c) ++ [shareEntry |-> None, sharesLoading |-> FALSE, creating |-> FALSE],
                      {"fetchFolders", "fetchEntries"})
    <3>1. Tool = [shareEntry |-> None, sharesLoading |-> FALSE, creating |-> FALSE]
      BY DEF Tool, VaultTools
    <3> QED
      BY <1>1, <3>1, HandleSelectCabinetMoves
  <2>2. /\ DOMAIN ui' = DOMAIN ui /\ ui'.page = ui.page /\ ui'.tool = ui.tool
        /\ ui'.loading = TRUE /\ ui'.cabinetsLoading = FALSE /\ ui'.shareEntry = None
        /\ ui'.sharesLoading = FALSE /\ ui'.creating = FALSE
    BY <2>1 DEF Drops, Moves, ++, Opened
  <2> QED
    BY <2>1, <2>2 DEF Drops, Moves
<1>2. CASE handleBack
  <2>1. ui.cabinet # None /\ Drops(CabinetFns,
                    Left ++ [shareEntry |-> None, sharesLoading |-> FALSE, creating |-> FALSE],
                      {"fetchCabinets"})
    <3>1. Tool = [shareEntry |-> None, sharesLoading |-> FALSE, creating |-> FALSE]
      BY DEF Tool, VaultTools
    <3> QED
      BY <1>2, <3>1, HandleBackMoves
  <2>2. /\ DOMAIN ui' = DOMAIN ui /\ ui'.page = ui.page /\ ui'.tool = ui.tool
        /\ ui'.loading = FALSE /\ ui'.cabinetsLoading = TRUE /\ ui'.shareEntry = None
        /\ ui'.sharesLoading = FALSE /\ ui'.creating = FALSE
    BY <2>1 DEF Drops, Moves, ++, Left, NoCabinet
  <2> QED
    BY <2>1, <2>2 DEF Drops, Moves
<1>3. CASE selectFolder
  <2>1. \E f, d : Repeats(FolderOf(f, d) ++ <<>>, {"fetchEntries"})
    BY <1>3, SelectFolderMoves DEF Cleared
  <2> QED
    BY <2>1 DEF Repeats, Moves, ++
<1>4. CASE openShares
  <2>1. ui.cabinet # None /\ \E e : Acts([shareEntry |-> e, sharesLoading |-> TRUE], {"fetchShares"})
    BY <1>4, ActSends DEF openShares, FetchShares, AtCabinet
  <2> QED
    BY <2>1 DEF Acts, Moves, ++
<1>5. CASE closeShares
  <2>1. Drops({"fetchShares", "reloadShares", "createShare", "revokeShare"},
              [shareEntry |-> None, sharesLoading |-> FALSE, creating |-> FALSE], {})
    BY <1>5, AbortClearingSets DEF closeShares, VaultTools
  <2> QED
    BY <2>1 DEF Drops, Moves, ++
<1>6. CASE fetchShares
  <2>1. Takes("fetchShares", [sharesLoading |-> FALSE], {})
    BY <1>6, ShowTakes, FailsTakes DEF fetchShares
  <2> QED
    BY <2>1 DEF Takes, Moves, ++
<1>7. CASE createShare
  <2>1. \/ ui.shareEntry # None /\ ~ui.creating /\ Acts([creating |-> TRUE], {"createShare"})
        \/ Takes("createShare", [sharesLoading |-> TRUE], {"reloadShares"})
        \/ Takes("reloadShares", [sharesLoading |-> FALSE, creating |-> FALSE], {})
        \/ Takes("createShare", [creating |-> FALSE], {})
    BY <1>7, CreateShareMoves
  <2> QED
    BY <2>1 DEF Acts, Takes, Moves, ++
<1>8. CASE revokeShare
  <2>1. \/ Acts(<<>>, {"revokeShare"})
        \/ Takes("revokeShare", <<>>, {})
    BY <1>8, ActSends, DoneTakes, FailsTakes DEF revokeShare
  <2> QED
    BY <2>1 DEF Acts, Takes, Moves, ++
<1> QED
  BY <1>1, <1>2, <1>3, <1>4, <1>5, <1>6, <1>7, <1>8

LEMMA VaultDragKept ==
    ASSUME HasFn(calls), VaultFrame, VaultDrag,
           \/ handleSelectCabinet \/ handleBack \/ selectFolder
           \/ drag \/ handleDropToFolder
    PROVE  VaultFrame' /\ VaultDrag' /\ HasFn(calls')
<1> USE RoleKept, TwiceSent, NoCells
    DEF Page, Has, Turns, FrameCells, VaultFrame, Cells, Guards, OnlyFor, Quiet, Within, Busy, FrameFns,
        ListFns, CabinetFns, FolderOf, canEdit, VaultDrag
<1>1. CASE handleSelectCabinet
  <2>1. PICK c : ui.cabinet = None /\ Drops(ListFns, Opened(c) ++ [dragging |-> None],
                      {"fetchFolders", "fetchEntries"})
    <3>1. Tool = [dragging |-> None]
      BY DEF Tool, VaultTools
    <3> QED
      BY <1>1, <3>1, HandleSelectCabinetMoves
  <2>2. /\ DOMAIN ui' = DOMAIN ui /\ ui'.page = ui.page /\ ui'.tool = ui.tool
        /\ ui'.loading = TRUE /\ ui'.cabinetsLoading = FALSE /\ ui'.dragging = None
    BY <2>1 DEF Drops, Moves, ++, Opened
  <2> QED
    BY <2>1, <2>2 DEF Drops, Moves
<1>2. CASE handleBack
  <2>1. ui.cabinet # None /\ Drops(CabinetFns, Left ++ [dragging |-> None],
                      {"fetchCabinets"})
    <3>1. Tool = [dragging |-> None]
      BY DEF Tool, VaultTools
    <3> QED
      BY <1>2, <3>1, HandleBackMoves
  <2>2. /\ DOMAIN ui' = DOMAIN ui /\ ui'.page = ui.page /\ ui'.tool = ui.tool
        /\ ui'.loading = FALSE /\ ui'.cabinetsLoading = TRUE /\ ui'.dragging = None
    BY <2>1 DEF Drops, Moves, ++, Left, NoCabinet
  <2> QED
    BY <2>1, <2>2 DEF Drops, Moves
<1>3. CASE selectFolder
  <2>1. \E f, d : Repeats(FolderOf(f, d) ++ <<>>, {"fetchEntries"})
    BY <1>3, SelectFolderMoves DEF Cleared
  <2> QED
    BY <2>1 DEF Repeats, Moves, ++
<1>4. CASE drag
  <2>1. canEdit /\ \E e : Acts([dragging |-> e], {})
    BY <1>4, ActSets DEF drag
  <2> QED
    BY <2>1 DEF Acts, Moves, ++
<1>5. CASE handleDropToFolder
  <2>1. \/ ui.dragging # None /\ Acts([dragging |-> None], {"move"})
        \/ Takes("move", [dragging |-> None], {})
        \/ Takes("move", [dragging |-> None, loading |-> TRUE], {"fetchEntries"})
    BY <1>5, HandleDropToFolderMoves
  <2> QED
    BY <2>1 DEF Acts, Takes, Moves, ++
<1> QED
  BY <1>1, <1>2, <1>3, <1>4, <1>5

LEMMA VaultToolBeside ==
    ASSUME VaultTool, Beside({"cabinetsLoading", "loading"}, FrameFns)
    PROVE  VaultTool'
<1> USE RoleKept
    DEF Beside, Cells, Guards, Turns, OnlyFor, Within, Busy, Quiet, FrameFns, FrameCells
<1>1. ASSUME VaultCabinets PROVE VaultCabinets'
  BY <1>1 DEF VaultCabinets
<1>2. ASSUME VaultFolders PROVE VaultFolders'
  BY <1>2 DEF VaultFolders
<1>3. ASSUME VaultEntries PROVE VaultEntries'
  BY <1>3 DEF VaultEntries
<1>4. ASSUME VaultReveal PROVE VaultReveal'
  BY <1>4 DEF VaultReveal
<1>5. ASSUME VaultShares PROVE VaultShares'
  BY <1>5 DEF VaultShares
<1>6. ASSUME VaultDrag PROVE VaultDrag'
  BY <1>6 DEF VaultDrag
<1> QED
  BY <1>1, <1>2, <1>3, <1>4, <1>5, <1>6 DEF VaultTool

LEMMA VaultKept ==
    ASSUME HasFn(calls), VaultSound, VaultNext \/ Answers
    PROVE  VaultSound' /\ HasFn(calls')
<1> USE DEF VaultSound
<1>1. CASE VaultFetch
  BY <1>1, VaultFetchKept, VaultToolBeside DEF Beside
<1>2. CASE handleSelectCabinet \/ handleBack \/ selectFolder \/ VaultToolNext
  <2>1. CASE VaultCabinets
    BY <1>2, <2>1, VaultCabinetsKept DEF VaultToolNext, VaultCabinets, VaultTool
  <2>2. CASE VaultFolders
    BY <1>2, <2>2, VaultFoldersKept DEF VaultToolNext, VaultFolders, VaultTool
  <2>3. CASE VaultEntries
    BY <1>2, <2>3, VaultEntriesKept DEF VaultToolNext, VaultEntries, VaultTool
  <2>4. CASE VaultReveal
    BY <1>2, <2>4, VaultRevealKept DEF VaultToolNext, VaultReveal, VaultTool
  <2>5. CASE VaultShares
    BY <1>2, <2>5, VaultSharesKept DEF VaultToolNext, VaultShares, VaultTool
  <2>6. CASE VaultDrag
    BY <1>2, <2>6, VaultDragKept DEF VaultToolNext, VaultDrag, VaultTool
  <2> QED
    BY <2>1, <2>2, <2>3, <2>4, <2>5, <2>6 DEF VaultTool
<1>3. CASE Answers
  <2>1. VaultFrame' /\ HasFn(calls')
    BY <1>3 DEF Answers, VaultFrame, Page, Has, Turns
  <2>2. VaultTool'
    BY <1>3, AnswersBeside, VaultToolBeside
  <2> QED
    BY <2>1, <2>2
<1> QED
  BY <1>1, <1>2, <1>3, ServeAnswers, RefuseAnswers DEF VaultNext, VaultFetch

---------------------------------------------------------------------------
(* FilesPage.tsx                                                           *)
ListCells == {"page", "tool", "pageNum", "search", "loading", "pending"}
FilesFrame ==
    /\ Page("FilesPage", {"fetchFiles", "fetchFileShares"})
    /\ Has(ListCells) /\ Turns("loading", {"fetchFiles"})

FilesList ==
    /\ ui.tool = "list" /\ Cells(ListCells \cup {"downloadingId"})
    /\ OnlyFor("Administrator", {"deleteFile"})
    /\ Within({"fetchFiles", "download", "deleteFile"})
FilesUpload ==
    /\ ui.tool = "upload" /\ Cells(ListCells \cup {"uploadOpen", "chosen", "uploading"})
    /\ Guards("uploading", {"upload"})
    /\ OnlyFor("Operator", {"upload"})
    /\ hasRole("Operator") \/ ~ui.uploadOpen
    /\ Within({"fetchFiles", "upload"})
FilesRequest ==
    /\ ui.tool = "request" /\ Cells(ListCells \cup {"requestOpen", "creating", "created"})
    /\ Guards("creating", {"createRequest"})
    /\ OnlyFor("Operator", {"createRequest"})
    /\ hasRole("Operator") \/ ~ui.requestOpen
    /\ Within({"fetchFiles", "createRequest"})
FilesShare ==
    /\ ui.tool = "share" /\ Cells(ListCells \cup {"shareTarget", "sharesLoading", "creating"})
    /\ Guards("creating", {"createFileShare", "reloadFileShares"})
    /\ Turns("sharesLoading", {"fetchFileShares", "reloadFileShares"})
    /\ Within({"fetchFiles", "fetchFileShares", "reloadFileShares", "createFileShare", "revokeFileShare"})
FilesTool == FilesList \/ FilesUpload \/ FilesRequest \/ FilesShare
FilesSound == FilesFrame /\ FilesTool

LEMMA ScanEndsAnswers == ASSUME HasFn(calls), scanEnds PROVE Answers
<1>1. HasFn(calls) /\ Fns(calls) = sent /\ Twice(calls) \subseteq twice
  BY DEF sent, twice
<1>2. /\ Follow(calm, calls, [shown EXCEPT !["fetchFiles"].since = @ \cup {<<"scanEnds", "ok">>}])
      /\ ui' = ui /\ role' = role
  BY DEF scanEnds
<1>3. DOMAIN [shown EXCEPT !["fetchFiles"].since = @ \cup {<<"scanEnds", "ok">>}] = DOMAIN shown
  OBVIOUS
<1> QED
  BY <1>1, <1>2, <1>3, MappedAnswers

LEMMA CreateFileShareMoves ==
    ASSUME HasFn(calls), createFileShare
    PROVE  \/ ~ui.creating /\ Acts([creating |-> TRUE], {"createFileShare"})
           \/ Takes("createFileShare", [sharesLoading |-> TRUE], {"reloadFileShares"})
           \/ Takes("reloadFileShares", [sharesLoading |-> FALSE, creating |-> FALSE], {})
           \/ Takes("createFileShare", [creating |-> FALSE], {})
BY ActSends, OkSends, OkDisplays, FailsTakes DEF createFileShare

FilesListed == fetchFiles \/ setSearch \/ setFilesPage \/ poll

LEMMA FilesListedKept ==
    ASSUME HasFn(calls), FilesFrame, FilesListed
    PROVE  FilesFrame' /\ Beside({"pageNum", "search", "loading", "pending"}, {"fetchFiles"})
<1> USE RoleKept, NoCells
    DEF Page, Has, Turns, ListCells, FilesFrame, Beside
<1>1. CASE fetchFiles
  <2>1. \/ Acts([loading |-> TRUE], {"fetchFiles"})
        \/ \E some : Takes("fetchFiles", [loading |-> FALSE, pending |-> some], {})
        \/ Takes("fetchFiles", [loading |-> FALSE], {})
    BY <1>1, ActSends, ShowTakes, FailsTakes DEF fetchFiles, TheseFiles, FetchFiles
  <2>2. CASE Acts([loading |-> TRUE], {"fetchFiles"})
    BY <2>2 DEF Acts, Moves, ++
  <2>3. CASE \E some : Takes("fetchFiles", [loading |-> FALSE, pending |-> some], {})
    BY <2>3 DEF Takes, Moves, ++
  <2>4. CASE Takes("fetchFiles", [loading |-> FALSE], {})
    BY <2>4 DEF Takes, Moves, ++
  <2> QED
    BY <2>1, <2>2, <2>3, <2>4
<1>2. CASE setSearch
  <2>1. \E s : Acts([search |-> s, pageNum |-> 1, loading |-> TRUE], {"fetchFiles"})
    BY <1>2, ActSends DEF setSearch, FetchFiles
  <2> QED
    BY <2>1 DEF Acts, Moves, ++
<1>3. CASE setFilesPage
  <2>1. \E q : Acts([pageNum |-> q, loading |-> TRUE], {"fetchFiles"})
    BY <1>3, ActSends DEF setFilesPage, FetchFiles
  <2> QED
    BY <2>1 DEF Acts, Moves, ++
<1>4. CASE poll
  <2>1. Acts([loading |-> TRUE], {"fetchFiles"})
    BY <1>4, ActSends DEF poll, TheseFiles, FetchFiles
  <2> QED
    BY <2>1 DEF Acts, Moves, ++
<1> QED
  BY <1>1, <1>2, <1>3, <1>4 DEF FilesListed

LEMMA FilesListKept ==
    ASSUME HasFn(calls), FilesFrame, FilesList, handleDownload \/ handleDeleteFile
    PROVE  FilesFrame' /\ FilesList' /\ HasFn(calls')
<1> USE RoleKept, TwiceSent, NoCells
    DEF Page, Has, Turns, ListCells, FilesFrame, Cells, Guards, OnlyFor, Quiet, Within, Busy, FilesList
<1>1. CASE handleDownload
  <2>1. \/ \E f : Acts([downloadingId |-> f], {"download"})
        \/ Takes("download", [downloadingId |-> None], {})
    BY <1>1, ActSends, DoneTakes, FailsTakes DEF handleDownload
  <2>2. CASE \E f : Acts([downloadingId |-> f], {"download"})
    BY <2>2 DEF Acts, Moves, ++
  <2>3. CASE Takes("download", [downloadingId |-> None], {})
    BY <2>3 DEF Takes, Moves, ++
  <2> QED
    BY <2>1, <2>2, <2>3
<1>2. CASE handleDeleteFile
  <2>1. \/ hasRole("Administrator") /\ Acts(<<>>, {"deleteFile"})
        \/ Takes("deleteFile", [loading |-> TRUE], {"fetchFiles"})
        \/ Takes("deleteFile", <<>>, {})
    BY <1>2, ActSends, OkSends, FailsTakes DEF handleDeleteFile
  <2> QED
    BY <2>1 DEF Acts, Takes, Moves, ++
<1> QED
  BY <1>1, <1>2

LEMMA FilesUploadKept ==
    ASSUME HasFn(calls), FilesFrame, FilesUpload, openUpload \/ chooseUpload \/ closeUpload \/ handleUpload
    PROVE  FilesFrame' /\ FilesUpload' /\ HasFn(calls')
<1> USE RoleKept, TwiceSent, NoCells
    DEF Page, Has, Turns, ListCells, FilesFrame, Cells, Guards, OnlyFor, Quiet, Within, Busy, FilesUpload
<1>1. CASE openUpload
  <2>1. hasRole("Operator") /\ Acts([uploadOpen |-> TRUE], {})
    BY <1>1, ActSets DEF openUpload
  <2> QED
    BY <2>1 DEF Acts, Moves, ++
<1>2. CASE chooseUpload
  <2>1. \E b : Acts([chosen |-> b], {})
    BY <1>2, ActSets DEF chooseUpload
  <2> QED
    BY <2>1 DEF Acts, Moves, ++
<1>3. CASE closeUpload
  <2>1. Acts([uploadOpen |-> FALSE, chosen |-> FALSE], {})
    BY <1>3, ActSets DEF closeUpload
  <2> QED
    BY <2>1 DEF Acts, Moves, ++
<1>4. CASE handleUpload
  <2>1. \/ ui.uploadOpen /\ ~ui.uploading /\ Acts([uploading |-> TRUE], {"upload"})
        \/ Takes("upload", [uploadOpen |-> FALSE, chosen |-> FALSE, uploading |-> FALSE, loading |-> TRUE],
              {"fetchFiles"})
        \/ Takes("upload", [uploading |-> FALSE], {})
    BY <1>4, ActSends, OkSends, FailsTakes DEF handleUpload
  <2> QED
    BY <2>1 DEF Acts, Takes, Moves, ++
<1> QED
  BY <1>1, <1>2, <1>3, <1>4

LEMMA FilesRequestKept ==
    ASSUME HasFn(calls), FilesFrame, FilesRequest, openRequest \/ closeRequest \/ createRequest
    PROVE  FilesFrame' /\ FilesRequest' /\ HasFn(calls')
<1> USE RoleKept, TwiceSent, NoCells
    DEF Page, Has, Turns, ListCells, FilesFrame, Cells, Guards, OnlyFor, Quiet, Within, Busy, FilesRequest
<1>1. CASE openRequest
  <2>1. hasRole("Operator") /\ Acts([requestOpen |-> TRUE], {})
    BY <1>1, ActSets DEF openRequest
  <2> QED
    BY <2>1 DEF Acts, Moves, ++
<1>2. CASE closeRequest
  <2>1. Acts([requestOpen |-> FALSE, created |-> FALSE], {})
    BY <1>2, ActSets DEF closeRequest
  <2> QED
    BY <2>1 DEF Acts, Moves, ++
<1>3. CASE createRequest
  <2>1. \/ ui.requestOpen /\ ~ui.creating /\ Acts([creating |-> TRUE], {"createRequest"})
        \/ Takes("createRequest", [creating |-> FALSE, created |-> TRUE], {})
        \/ Takes("createRequest", [creating |-> FALSE], {})
    BY <1>3, ActSends, DoneTakes, FailsTakes DEF createRequest
  <2> QED
    BY <2>1 DEF Acts, Takes, Moves, ++
<1> QED
  BY <1>1, <1>2, <1>3

LEMMA FilesShareKept ==
    ASSUME HasFn(calls), FilesFrame, FilesShare, openFileShares \/ closeFileShares \/ fetchFileShares
           \/ createFileShare \/ revokeFileShare
    PROVE  FilesFrame' /\ FilesShare' /\ HasFn(calls')
<1> USE RoleKept, TwiceSent, NoCells
    DEF Page, Has, Turns, ListCells, FilesFrame, Cells, Guards, OnlyFor, Quiet, Within, Busy, FilesShare
<1>1. CASE openFileShares
  <2>1. \E f : Acts([shareTarget |-> f, sharesLoading |-> TRUE], {"fetchFileShares"})
    BY <1>1, ActSends DEF openFileShares, FetchFileShares
  <2> QED
    BY <2>1 DEF Acts, Moves, ++
<1>2. CASE closeFileShares
  <2>1. Drops({"fetchFileShares", "reloadFileShares", "createFileShare", "revokeFileShare"},
              [shareTarget |-> None, sharesLoading |-> FALSE, creating |-> FALSE], {})
    BY <1>2, AbortClearingSets DEF closeFileShares, FileTools
  <2> QED
    BY <2>1 DEF Drops, Moves, ++
<1>3. CASE fetchFileShares
  <2>1. Takes("fetchFileShares", [sharesLoading |-> FALSE], {})
    BY <1>3, ShowTakes, FailsTakes DEF fetchFileShares
  <2> QED
    BY <2>1 DEF Takes, Moves, ++
<1>4. CASE createFileShare
  <2>1. \/ ~ui.creating /\ Acts([creating |-> TRUE], {"createFileShare"})
        \/ Takes("createFileShare", [sharesLoading |-> TRUE], {"reloadFileShares"})
        \/ Takes("reloadFileShares", [sharesLoading |-> FALSE, creating |-> FALSE], {})
        \/ Takes("createFileShare", [creating |-> FALSE], {})
    BY <1>4, CreateFileShareMoves
  <2> QED
    BY <2>1 DEF Acts, Takes, Moves, ++
<1>5. CASE revokeFileShare
  <2>1. \/ Acts(<<>>, {"revokeFileShare"})
        \/ Takes("revokeFileShare", <<>>, {})
    BY <1>5, ActSends, DoneTakes, FailsTakes DEF revokeFileShare
  <2> QED
    BY <2>1 DEF Acts, Takes, Moves, ++
<1> QED
  BY <1>1, <1>2, <1>3, <1>4, <1>5

LEMMA FilesToolBeside ==
    ASSUME FilesTool, Beside({"pageNum", "search", "loading", "pending"}, {"fetchFiles"})
    PROVE  FilesTool'
<1> USE RoleKept
    DEF Beside, Cells, Guards, Turns, OnlyFor, Within, Busy, Quiet, ListCells
<1>1. ASSUME FilesList PROVE FilesList'
  BY <1>1 DEF FilesList
<1>2. ASSUME FilesUpload PROVE FilesUpload'
  BY <1>2 DEF FilesUpload
<1>3. ASSUME FilesRequest PROVE FilesRequest'
  BY <1>3 DEF FilesRequest
<1>4. ASSUME FilesShare PROVE FilesShare'
  BY <1>4 DEF FilesShare
<1> QED
  BY <1>1, <1>2, <1>3, <1>4 DEF FilesTool

LEMMA FilesKept ==
    ASSUME HasFn(calls), FilesSound, FilesPageNext \/ Answers
    PROVE  FilesSound' /\ HasFn(calls')
<1> USE DEF FilesSound
<1>1. CASE FilesListed
  BY <1>1, FilesListedKept, FilesToolBeside DEF Beside
<1>2. CASE FilesPageNext /\ ~FilesListed /\ ~scanEnds
  <2>1. CASE FilesList
    BY <1>2, <2>1, FilesListKept DEF FilesPageNext, FilesListed, FilesList, FilesTool
  <2>2. CASE FilesUpload
    BY <1>2, <2>2, FilesUploadKept DEF FilesPageNext, FilesListed, FilesUpload, FilesTool
  <2>3. CASE FilesRequest
    BY <1>2, <2>3, FilesRequestKept DEF FilesPageNext, FilesListed, FilesRequest, FilesTool
  <2>4. CASE FilesShare
    BY <1>2, <2>4, FilesShareKept DEF FilesPageNext, FilesListed, FilesShare, FilesTool
  <2> QED
    BY <2>1, <2>2, <2>3, <2>4 DEF FilesTool
<1>3. CASE Answers
  <2>1. FilesFrame' /\ HasFn(calls')
    BY <1>3 DEF Answers, FilesFrame, Page, Has, Turns
  <2>2. FilesTool'
    BY <1>3, AnswersBeside, FilesToolBeside
  <2> QED
    BY <2>1, <2>2
<1> QED
  BY <1>1, <1>2, <1>3, ScanEndsAnswers DEF FilesPageNext

(* SharePage.tsx                                                           *)
SharePageSound ==
    /\ Page("SharePage", {})
    /\ Cells({"page", "loading", "entry", "needsPassword", "unlocking", "revealed", "downloading"})
    /\ Guards("loading", {"viewLink"}) /\ Guards("downloading", {"downloadShared"})
    /\ Turns("unlocking", {"unlock"})
    /\ Within({"viewLink", "unlock", "downloadShared"})

LEMMA SharePageKept ==
    ASSUME HasFn(calls), SharePageSound, SharePageNext \/ Answers
    PROVE  SharePageSound' /\ HasFn(calls')
<1> USE RoleKept, TwiceSent, NoCells
    DEF Page, Cells, Turns, Guards, OnlyFor, Within, Busy, Quiet, SharePageSound
<1>1. CASE view
  <2>1. \/ \E r : Takes("viewLink", [entry |-> r, loading |-> FALSE], {})
        \/ \E b : Takes("viewLink", [needsPassword |-> b, loading |-> FALSE], {})
    BY <1>1, DoneTakes, FailsTakes DEF view
  <2>2. CASE \E r : Takes("viewLink", [entry |-> r, loading |-> FALSE], {})
    BY <2>2 DEF Takes, Moves, ++
  <2>3. CASE \E b : Takes("viewLink", [needsPassword |-> b, loading |-> FALSE], {})
    BY <2>3 DEF Takes, Moves, ++
  <2> QED
    BY <2>1, <2>2, <2>3
<1>2. CASE handleUnlock
  <2>1. \/ ~ui.loading /\ Acts([unlocking |-> TRUE], {"unlock"})
        \/ \E r : Takes("unlock", [entry |-> r, needsPassword |-> FALSE, unlocking |-> FALSE], {})
        \/ Takes("unlock", [unlocking |-> FALSE], {})
    BY <1>2, ActSends, DoneTakes, FailsTakes DEF handleUnlock
  <2>2. CASE ~ui.loading /\ Acts([unlocking |-> TRUE], {"unlock"})
    BY <2>2 DEF Acts, Moves, ++
  <2>3. CASE \E r : Takes("unlock", [entry |-> r, needsPassword |-> FALSE, unlocking |-> FALSE], {})
    BY <2>3 DEF Takes, Moves, ++
  <2>4. CASE Takes("unlock", [unlocking |-> FALSE], {})
    BY <2>4 DEF Takes, Moves, ++
  <2> QED
    BY <2>1, <2>2, <2>3, <2>4
<1>3. CASE handleDownloadShared
  <2>1. \/ ~ui.downloading /\ Acts([downloading |-> TRUE], {"downloadShared"})
        \/ Takes("downloadShared", [downloading |-> FALSE], {})
    BY <1>3, ActSends, DoneTakes, FailsTakes DEF handleDownloadShared
  <2> QED
    BY <2>1 DEF Acts, Takes, Moves, ++
<1>4. CASE setRevealed
  <2>1. \E b : Acts([revealed |-> b], {})
    BY <1>4, ActSets DEF setRevealed
  <2> QED
    BY <2>1 DEF Acts, Moves, ++
<1>5. CASE hideAgain
  <2>1. Drops({}, [revealed |-> FALSE], {})
    BY <1>5, FireSets DEF hideAgain
  <2> QED
    BY <2>1 DEF Drops, Moves, ++
<1>6. CASE Answers
  BY <1>6 DEF Answers
<1> QED
  BY <1>1, <1>2, <1>3, <1>4, <1>5, <1>6 DEF SharePageNext

(* UploadRequestPage.tsx                                                   *)
UploadRequestSound ==
    /\ Page("UploadRequestPage", {})
    /\ Cells({"page", "loading", "valid", "chosen", "uploading", "done"})
    /\ Guards("loading", {"viewUploadInfo"}) /\ Guards("uploading", {"sendFile"})
    /\ Within({"viewUploadInfo", "sendFile"})

LEMMA UploadRequestKept ==
    ASSUME HasFn(calls), UploadRequestSound, UploadRequestNext \/ Answers
    PROVE  UploadRequestSound' /\ HasFn(calls')
<1> USE RoleKept, TwiceSent, NoCells
    DEF Page, Cells, Turns, Guards, OnlyFor, Within, Busy, Quiet, UploadRequestSound
<1>1. CASE viewUploadInfo
  <2>1. \E b : Takes("viewUploadInfo", [valid |-> b, loading |-> FALSE], {})
    BY <1>1, DoneTakes, FailsTakes DEF viewUploadInfo
  <2> QED
    BY <2>1 DEF Takes, Moves, ++
<1>2. CASE setFileList
  <2>1. \E b : Acts([chosen |-> b], {})
    BY <1>2, ActSets DEF setFileList
  <2> QED
    BY <2>1 DEF Acts, Moves, ++
<1>3. CASE handleSendFile
  <2>1. \/ ~ui.uploading /\ Acts([uploading |-> TRUE], {"sendFile"})
        \/ Takes("sendFile", [uploading |-> FALSE, done |-> TRUE], {})
        \/ Takes("sendFile", [uploading |-> FALSE], {})
    BY <1>3, ActSends, DoneTakes, FailsTakes DEF handleSendFile, AtUpload
  <2> QED
    BY <2>1 DEF Acts, Takes, Moves, ++
<1>4. CASE Answers
  BY <1>4 DEF Answers
<1> QED
  BY <1>1, <1>2, <1>3, <1>4 DEF UploadRequestNext

---------------------------------------------------------------------------
(* The first render of each page.                                          *)
LEMMA MountRole ==
    ASSUME NEW cells, NEW R, NEW reads, Mount(cells, R, reads)
    PROVE  role \in Roles /\ (cells.page \notin Public => hasRole(Routes[cells.page]))
BY DEF Mount, AtLeast, Roles, RoleLevel, hasRole

LEMMA RouteRoles ==
    /\ Routes["UsersPage"] = "Administrator" /\ Routes["PendingApprovalsPage"] = "Administrator"
    /\ Routes["AuditLogPage"] = "Administrator"
    /\ Routes["NetworkScanPage"] = "Operator" /\ Routes["PaloAltoPage"] = "Operator"
    /\ Routes["IntegrationsPage"] = "Operator"
<1>1. DOMAIN [q \in {"DashboardPage", "IPRecordsPage", "SubnetsPage", "UnusedIPsPage", "FilesPage",
                  "VaultPage"} |->
                "Viewer"]
      = {"DashboardPage", "IPRecordsPage", "SubnetsPage", "UnusedIPsPage", "FilesPage", "VaultPage"}
  OBVIOUS
<1> QED
  BY DEF Routes, ++

LEMMA UsersPageMounted ==
    ASSUME UsersPage
    PROVE  UsersSound /\ HasFn(calls) /\ role \in Roles
<1>1. /\ ui = [page |-> "UsersPage", currentPage |-> 1, loading |-> TRUE, modalMode |-> None,
               selectedUser |-> None, submitting |-> FALSE]
      /\ DOMAIN shown = {"fetchUsers"}
      /\ HasFn(calls) /\ sent = {"fetchUsers"} /\ twice = {}
  BY AsksOnce, MountSends DEF UsersPage
<1>2. role \in Roles /\ hasRole("Administrator")
  BY MountRole, RouteRoles DEF UsersPage, Public
<1> QED
  BY <1>1, <1>2, UsersAssumption
     DEF Page, Has, Cells, Turns, Guards, OnlyFor, Within, Busy, Quiet, UsersSound, UserDialogs, UserCommands,
         ModalModes

LEMMA PendingApprovalsMounted ==
    ASSUME PendingApprovalsPage
    PROVE  PendingSound /\ HasFn(calls) /\ role \in Roles
<1>1. /\ ui = [page |-> "PendingApprovalsPage", currentPage |-> 1, loading |-> TRUE, user |-> None,
               approving |-> FALSE]
      /\ DOMAIN shown = {"fetchPending", "listCabinets"}
      /\ HasFn(calls) /\ sent = {"fetchPending"} /\ twice = {}
  BY AsksOnce, MountSends DEF PendingApprovalsPage
<1>2. role \in Roles /\ hasRole("Administrator")
  BY MountRole, RouteRoles DEF PendingApprovalsPage, Public
<1> QED
  BY <1>1, <1>2 DEF Page, Has, Cells, Turns, Guards, OnlyFor, Within, Busy, Quiet, PendingSound

LEMMA AuditLogMounted ==
    ASSUME AuditLogPage
    PROVE  AuditLogSound /\ HasFn(calls) /\ role \in Roles
<1>1. /\ ui = [page |-> "AuditLogPage", currentPage |-> 1, filter |-> "all", loading |-> TRUE]
      /\ DOMAIN shown = {"fetchLogs"}
      /\ HasFn(calls) /\ sent = {"fetchLogs"} /\ twice = {}
  BY AsksOnce, MountSends DEF AuditLogPage
<1>2. role \in Roles /\ hasRole("Administrator")
  BY MountRole, RouteRoles DEF AuditLogPage, Public
<1> QED
  BY <1>1, <1>2 DEF Page, Has, Cells, Turns, Guards, OnlyFor, Within, Busy, Quiet, AuditLogSound

LEMMA RegistrationMounted ==
    ASSUME RegistrationPage
    PROVE  RegistrationSound /\ HasFn(calls) /\ role \in Roles
<1>1. /\ ui = [page |-> "RegistrationPage", loading |-> FALSE, errorMsg |-> FALSE, submitted |-> FALSE]
      /\ DOMAIN shown = {}
      /\ HasFn(calls) /\ sent = {} /\ twice = {}
  BY AsksNothing, MountSends DEF RegistrationPage
<1>2. role \in Roles
  BY MountRole DEF RegistrationPage
<1> QED
  BY <1>1, <1>2 DEF Page, Has, Cells, Turns, Guards, OnlyFor, Within, Busy, Quiet, RegistrationSound

LEMMA SharePageMounted ==
    ASSUME SharePage
    PROVE  SharePageSound /\ HasFn(calls) /\ role \in Roles
<1>1. /\ ui = [page |-> "SharePage", loading |-> TRUE, entry |-> None, needsPassword |-> FALSE,
               unlocking |-> FALSE, revealed |-> FALSE, downloading |-> FALSE]
      /\ DOMAIN shown = {}
      /\ HasFn(calls) /\ sent = {"viewLink"} /\ twice = {}
  BY AsksOnce, MountSends DEF SharePage
<1>2. role \in Roles
  BY MountRole DEF SharePage
<1> QED
  BY <1>1, <1>2 DEF Page, Has, Cells, Turns, Guards, OnlyFor, Within, Busy, Quiet, SharePageSound

LEMMA UploadRequestMounted ==
    ASSUME UploadRequestPage
    PROVE  UploadRequestSound /\ HasFn(calls) /\ role \in Roles
<1>1. /\ ui = [page |-> "UploadRequestPage", loading |-> TRUE, valid |-> FALSE, chosen |-> FALSE,
               uploading |-> FALSE, done |-> FALSE]
      /\ DOMAIN shown = {}
      /\ HasFn(calls) /\ sent = {"viewUploadInfo"} /\ twice = {}
  BY AsksOnce, MountSends DEF UploadRequestPage
<1>2. role \in Roles
  BY MountRole DEF UploadRequestPage
<1> QED
  BY <1>1, <1>2 DEF Page, Has, Cells, Turns, Guards, OnlyFor, Within, Busy, Quiet, UploadRequestSound

LEMMA NetworkScanMounted ==
    ASSUME NetworkScan
    PROVE  NetworkScanSound /\ HasFn(calls) /\ role \in Roles
<1>1. /\ ui = [page |-> "NetworkScanPage", estSecs |-> "none", asked |-> FALSE, saveMode |-> "review",
               scanning |-> FALSE, importEnv |-> FALSE, importing |-> FALSE, forIp |-> None,
               submitting |-> FALSE] ++ NoResults
      /\ DOMAIN shown = {}
      /\ HasFn(calls) /\ sent = {"fetchSubnets"} /\ twice = {}
  BY AsksOnce, MountSends DEF NetworkScan
<1>2. role \in Roles /\ hasRole("Operator")
  BY MountRole, RouteRoles DEF NetworkScan, Public, ++, NoResults
<1> QED
  BY <1>1, <1>2
     DEF Page, Has, Cells, Turns, Guards, OnlyFor, Within, Busy, Quiet, NetworkScanSound, NoResults, ++

LEMMA VaultMounted ==
    ASSUME Vault
    PROVE  VaultSound /\ HasFn(calls) /\ role \in Roles
<1>1. PICK t \in DOMAIN VaultTools :
        Mount(([page |-> "VaultPage", tool |-> t, cabinetsLoading |-> TRUE] ++ NoCabinet) ++ VaultTools[t],
              {Req("fetchCabinets", None, None)},
              {"fetchCabinets", "fetchFolders", "fetchEntries", "fetchShares"})
  BY DEF Vault, FetchCabinets
<1>2. Asks({Req("fetchCabinets", None, None)}, {"fetchCabinets"})
  BY AsksOnce
<1>3. /\ ui = ([page |-> "VaultPage", tool |-> t, cabinetsLoading |-> TRUE] ++ NoCabinet) ++ VaultTools[t]
      /\ DOMAIN shown = {"fetchCabinets", "fetchFolders", "fetchEntries", "fetchShares"}
      /\ HasFn(calls) /\ sent = {"fetchCabinets"} /\ twice = {}
  BY <1>1, <1>2, MountSends
<1>4. role \in Roles
  BY <1>1, MountRole DEF Public, ++
<1>5. CASE t = "cabinets"
  <2>1. VaultTools[t] = [modalOpen |-> FALSE, editing |-> None, saving |-> FALSE]
    BY <1>5 DEF VaultTools
  <2> QED
    BY <1>1, <1>3, <1>4, <1>5, <2>1, NoCells
       DEF Page, Has, Cells, Turns, Guards, OnlyFor, Within, Busy, Quiet, ++, VaultSound, VaultFrame,
           FrameCells, FrameFns, VaultTool, VaultCabinets, NoCabinet
<1>6. CASE t = "folders"
  <2>1. VaultTools[t] = [addingIn |-> None, editing |-> None]
    BY <1>6 DEF VaultTools
  <2> QED
    BY <1>1, <1>3, <1>4, <1>6, <2>1, NoCells
       DEF Page, Has, Cells, Turns, Guards, OnlyFor, Within, Busy, Quiet, ++, VaultSound, VaultFrame,
           FrameCells, FrameFns, VaultTool, VaultFolders, NoCabinet
<1>7. CASE t = "entries"
  <2>1. VaultTools[t] = [modalOpen |-> FALSE, saving |-> FALSE]
    BY <1>7 DEF VaultTools
  <2> QED
    BY <1>1, <1>3, <1>4, <1>7, <2>1, NoCells
       DEF Page, Has, Cells, Turns, Guards, OnlyFor, Within, Busy, Quiet, ++, VaultSound, VaultFrame,
           FrameCells, FrameFns, VaultTool, VaultEntries, NoCabinet
<1>8. CASE t = "reveal"
  <2>1. VaultTools[t] = [revealed |-> None, revealing |-> None, timers |-> 0, timerRef |-> FALSE,
                    copyingId |-> None]
    BY <1>8 DEF VaultTools
  <2> QED
    BY <1>1, <1>3, <1>4, <1>8, <2>1, NoCells
       DEF Page, Has, Cells, Turns, Guards, OnlyFor, Within, Busy, Quiet, ++, VaultSound, VaultFrame,
           FrameCells, FrameFns, VaultTool, VaultReveal, NoCabinet
<1>9. CASE t = "shares"
  <2>1. VaultTools[t] = [shareEntry |-> None, sharesLoading |-> FALSE, creating |-> FALSE]
    BY <1>9 DEF VaultTools
  <2> QED
    BY <1>1, <1>3, <1>4, <1>9, <2>1, NoCells
       DEF Page, Has, Cells, Turns, Guards, OnlyFor, Within, Busy, Quiet, ++, VaultSound, VaultFrame,
           FrameCells, FrameFns, VaultTool, VaultShares, NoCabinet
<1>10. CASE t = "drag"
  <2>1. VaultTools[t] = [dragging |-> None]
    BY <1>10 DEF VaultTools
  <2> QED
    BY <1>1, <1>3, <1>4, <1>10, <2>1, NoCells
       DEF Page, Has, Cells, Turns, Guards, OnlyFor, Within, Busy, Quiet, ++, VaultSound, VaultFrame,
           FrameCells, FrameFns, VaultTool, VaultDrag, NoCabinet
<1> QED
  BY <1>1, <1>5, <1>6, <1>7, <1>8, <1>9, <1>10 DEF VaultTools

LEMMA FilesPageMounted ==
    ASSUME FilesPage
    PROVE  FilesSound /\ HasFn(calls) /\ role \in Roles
<1>1. PICK t \in DOMAIN FileTools :
        Mount([page |-> "FilesPage", tool |-> t, pageNum |-> 1, search |-> "all", loading |-> TRUE,
               pending |-> FALSE] ++ FileTools[t],
              {Req("fetchFiles", <<1, "all">>, None)},
              {"fetchFiles", "fetchFileShares"})
  BY DEF FilesPage, FetchFiles
<1>2. Asks({Req("fetchFiles", <<1, "all">>, None)}, {"fetchFiles"})
  BY AsksOnce
<1>3. /\ ui = [page |-> "FilesPage", tool |-> t, pageNum |-> 1, search |-> "all", loading |-> TRUE,
               pending |-> FALSE] ++ FileTools[t]
      /\ DOMAIN shown = {"fetchFiles", "fetchFileShares"}
      /\ HasFn(calls) /\ sent = {"fetchFiles"} /\ twice = {}
  BY <1>1, <1>2, MountSends
<1>4. role \in Roles
  BY <1>1, MountRole DEF Public, ++
<1>5. CASE t = "list"
  <2>1. FileTools[t] = [downloadingId |-> None]
    BY <1>5 DEF FileTools
  <2> QED
    BY <1>1, <1>3, <1>4, <1>5, <2>1, NoCells
       DEF Page, Has, Cells, Turns, Guards, OnlyFor, Within, Busy, Quiet, ++, FilesSound, FilesFrame,
           ListCells, FilesTool, FilesList
<1>6. CASE t = "upload"
  <2>1. FileTools[t] = [uploadOpen |-> FALSE, chosen |-> FALSE, uploading |-> FALSE]
    BY <1>6 DEF FileTools
  <2> QED
    BY <1>1, <1>3, <1>4, <1>6, <2>1, NoCells
       DEF Page, Has, Cells, Turns, Guards, OnlyFor, Within, Busy, Quiet, ++, FilesSound, FilesFrame,
           ListCells, FilesTool, FilesUpload
<1>7. CASE t = "request"
  <2>1. FileTools[t] = [requestOpen |-> FALSE, creating |-> FALSE, created |-> FALSE]
    BY <1>7 DEF FileTools
  <2> QED
    BY <1>1, <1>3, <1>4, <1>7, <2>1, NoCells
       DEF Page, Has, Cells, Turns, Guards, OnlyFor, Within, Busy, Quiet, ++, FilesSound, FilesFrame,
           ListCells, FilesTool, FilesRequest
<1>8. CASE t = "share"
  <2>1. FileTools[t] = [shareTarget |-> None, sharesLoading |-> FALSE, creating |-> FALSE]
    BY <1>8 DEF FileTools
  <2> QED
    BY <1>1, <1>3, <1>4, <1>8, <2>1, NoCells
       DEF Page, Has, Cells, Turns, Guards, OnlyFor, Within, Busy, Quiet, ++, FilesSound, FilesFrame,
           ListCells, FilesTool, FilesShare
<1> QED
  BY <1>1, <1>5, <1>6, <1>7, <1>8 DEF FileTools

LEMMA PaloAltoMounted ==
    ASSUME PaloAltoCheck
    PROVE  PaloAltoSound /\ HasFn(calls) /\ role \in Roles
<1>1. PICK t \in DOMAIN PaloAltoTools :
        Mount([page |-> "PaloAltoPage", tool |-> t, mode |-> "single", checkInput |-> None, timer |-> None,
               checkLoading |-> FALSE, checkResult |-> None, found |-> FALSE, recentLoading |-> TRUE]
                   ++ PaloAltoTools[t],
              {Req("loadRecent", None, None)},
              {"loadRecent", "runPaloAltoCheck", "loadTraffic"})
  BY DEF PaloAltoCheck
<1>2. Asks({Req("loadRecent", None, None)}, {"loadRecent"})
  BY AsksOnce
<1>3. /\ ui = [page |-> "PaloAltoPage", tool |-> t, mode |-> "single", checkInput |-> None, timer |-> None,
               checkLoading |-> FALSE, checkResult |-> None, found |-> FALSE, recentLoading |-> TRUE]
                   ++ PaloAltoTools[t]
      /\ DOMAIN shown = {"loadRecent", "runPaloAltoCheck", "loadTraffic"}
      /\ HasFn(calls) /\ sent = {"loadRecent"} /\ twice = {}
  BY <1>1, <1>2, MountSends
<1>4. role \in Roles /\ hasRole("Operator")
  BY <1>1, MountRole, RouteRoles DEF Public, ++
<1>5. CASE t = "detail"
  <2>1. PaloAltoTools[t] = [crossChecking |-> None, saving |-> FALSE, trafficOpen |-> FALSE,
                    trafficLoading |-> FALSE]
    BY <1>5 DEF PaloAltoTools, DetailCells
  <2> QED
    BY <1>1, <1>3, <1>4, <1>5, <2>1, NoCells
       DEF Page, Has, Cells, Turns, Guards, OnlyFor, Within, Busy, Quiet, ++, PaloAltoSound, PaloAltoChecks,
           ChecksCells, ChecksFns, PaloAltoTool, PaloAltoDetail, DetailFns
<1>6. CASE t = "bulk"
  <2>1. PaloAltoTools[t] = [bulkInputValid |-> FALSE, listTooLong |-> FALSE, bulkScanning |-> FALSE,
                    bulkFound |-> {},
                           bulkSaving |-> FALSE]
    BY <1>6 DEF PaloAltoTools
  <2> QED
    BY <1>1, <1>3, <1>4, <1>6, <2>1, NoCells
       DEF Page, Has, Cells, Turns, Guards, OnlyFor, Within, Busy, Quiet, ++, PaloAltoSound, PaloAltoChecks,
           ChecksCells, ChecksFns, PaloAltoTool, PaloAltoBulk, DetailFns
<1> QED
  BY <1>1, <1>5, <1>6 DEF PaloAltoTools

LEMMA SubnetsMounted ==
    ASSUME Subnets
    PROVE  SubnetsSound /\ HasFn(calls) /\ role \in Roles
<1>1. PICK t \in DOMAIN SubnetsTools :
        Mount([page |-> "SubnetsPage", tool |-> t, filter |-> "all", loading |-> TRUE] ++ SubnetsTools[t],
              {Req("fetchVrfs", None, None), Req("fetchTree", "all", None)},
              {"fetchTree", "fetchRanges", "conflictScan"})
  BY DEF Subnets
<1>2. Asks({Req("fetchVrfs", None, None), Req("fetchTree", "all", None)}, {"fetchVrfs", "fetchTree"})
  <2>1. Asks({Req("fetchVrfs", None, None)}, {"fetchVrfs"})
            /\ Asks({Req("fetchTree", "all", None)}, {"fetchTree"})
    BY AsksOnce
  <2>2. {"fetchVrfs"} \cap {"fetchTree"} = {} /\ {"fetchVrfs"} \cup {"fetchTree"} = {"fetchVrfs", "fetchTree"}
    OBVIOUS
  <2>3. {Req("fetchVrfs", None, None)} \cup {Req("fetchTree", "all", None)}
            = {Req("fetchVrfs", None, None), Req("fetchTree", "all", None)}
    OBVIOUS
  <2>4. Asks({Req("fetchVrfs", None, None)} \cup {Req("fetchTree", "all", None)},
             {"fetchVrfs"} \cup {"fetchTree"})
    BY <2>1, <2>2, AsksTwo
  <2> QED
    BY <2>2, <2>3, <2>4
<1>3. /\ ui = [page |-> "SubnetsPage", tool |-> t, filter |-> "all", loading |-> TRUE] ++ SubnetsTools[t]
      /\ DOMAIN shown = {"fetchTree", "fetchRanges", "conflictScan"}
      /\ HasFn(calls) /\ sent = {"fetchVrfs", "fetchTree"} /\ twice = {}
  BY <1>1, <1>2, MountSends
<1>4. role \in Roles
  BY <1>1, MountRole DEF Public, ++
<1>5. CASE t = "edit"
  <2>1. SubnetsTools[t] = [modalOpen |-> FALSE, editingSubnet |-> None, submitting |-> FALSE]
    BY <1>5 DEF SubnetsTools
  <2> QED
    BY <1>1, <1>3, <1>4, <1>5, <2>1, NoCells
       DEF Page, Has, Cells, Turns, Guards, OnlyFor, Within, Busy, Quiet, ++, SubnetsSound, SubnetsTree,
           TreeCells, TreeFns, SubnetsTool, SubnetsEdit
<1>6. CASE t = "scan"
  <2>1. SubnetsTools[t] = [scanModal |-> FALSE, scanningSubnetId |-> None]
    BY <1>6 DEF SubnetsTools
  <2> QED
    BY <1>1, <1>3, <1>4, <1>6, <2>1, NoCells
       DEF Page, Has, Cells, Turns, Guards, OnlyFor, Within, Busy, Quiet, ++, SubnetsSound, SubnetsTree,
           TreeCells, TreeFns, SubnetsTool, SubnetsScan
<1>7. CASE t = "drawer"
  <2>1. SubnetsTools[t] = [drawerSubnet |-> None, loadingRanges |-> FALSE, rangeModal |-> FALSE,
                    editingRange |-> None,
                         submittingRange |-> FALSE, conflictDrawerOpen |-> FALSE, conflictLoading |-> FALSE]
    BY <1>7 DEF SubnetsTools
  <2> QED
    BY <1>1, <1>3, <1>4, <1>7, <2>1, NoCells
       DEF Page, Has, Cells, Turns, Guards, OnlyFor, Within, Busy, Quiet, ++, SubnetsSound, SubnetsTree,
           TreeCells, TreeFns, SubnetsTool, SubnetsDrawer
<1> QED
  BY <1>1, <1>5, <1>6, <1>7 DEF SubnetsTools

LEMMA DashboardMounted ==
    ASSUME Dashboard
    PROVE  DashboardSound /\ HasFn(calls) /\ role \in Roles
<1>1. PICK t \in DOMAIN DashboardTools :
        Mount(([page |-> "DashboardPage", tool |-> t, stats |-> FALSE] ++ Loading) ++ DashboardTools[t],
              {Req("fetchStats", None, None), Req("fetchDigest", None, None)},
              {"fetchStats", "fetchDigest", "fetchDuplicates"})
  <2>1. FetchStats \cup {Req("fetchDigest", None, None)}
            = {Req("fetchStats", None, None), Req("fetchDigest", None, None)}
    BY DEF FetchStats
  <2> QED
    BY <2>1 DEF Dashboard
<1>2. Asks({Req("fetchStats", None, None), Req("fetchDigest", None, None)}, {"fetchStats", "fetchDigest"})
  <2>1. Asks({Req("fetchStats", None, None)}, {"fetchStats"})
            /\ Asks({Req("fetchDigest", None, None)}, {"fetchDigest"})
    BY AsksOnce
  <2>2. {"fetchStats"} \cap {"fetchDigest"} = {}
            /\ {"fetchStats"} \cup {"fetchDigest"} = {"fetchStats", "fetchDigest"}
    OBVIOUS
  <2>3. {Req("fetchStats", None, None)} \cup {Req("fetchDigest", None, None)}
            = {Req("fetchStats", None, None), Req("fetchDigest", None, None)}
    OBVIOUS
  <2>4. Asks({Req("fetchStats", None, None)} \cup {Req("fetchDigest", None, None)},
             {"fetchStats"} \cup {"fetchDigest"})
    BY <2>1, <2>2, AsksTwo
  <2> QED
    BY <2>2, <2>3, <2>4
<1>3. /\ ui = ([page |-> "DashboardPage", tool |-> t, stats |-> FALSE] ++ Loading) ++ DashboardTools[t]
      /\ DOMAIN shown = {"fetchStats", "fetchDigest", "fetchDuplicates"}
      /\ HasFn(calls) /\ sent = {"fetchStats", "fetchDigest"} /\ twice = {}
  BY <1>1, <1>2, MountSends
<1>4. role \in Roles
  BY <1>1, MountRole DEF Public, ++
<1>5. CASE t = "stale"
  <2>1. DashboardTools[t] = [staleModalOpen |-> FALSE] ++ ScanCells
    BY <1>5 DEF DashboardTools
  <2> QED
    BY <1>1, <1>3, <1>4, <1>5, <2>1, NoCells
       DEF Page, Has, Cells, Turns, Guards, OnlyFor, Within, Busy, Quiet, ++, DashboardSound, DashboardFrame,
           DashboardCells, DashboardFns, DashboardTool, DashboardStale, ScanCells, DuplicatesCells,
           DuplicatesDialog, Loading
<1>6. CASE t = "duplicates"
  <2>1. DashboardTools[t] = DuplicatesCells
    BY <1>6 DEF DashboardTools
  <2> QED
    BY <1>1, <1>3, <1>4, <1>6, <2>1, NoCells
       DEF Page, Has, Cells, Turns, Guards, OnlyFor, Within, Busy, Quiet, ++, DashboardSound, DashboardFrame,
           DashboardCells, DashboardFns, DashboardTool, DashboardDuplicates, ScanCells, DuplicatesCells,
           DuplicatesDialog, Loading
<1> QED
  BY <1>1, <1>5, <1>6 DEF DashboardTools

LEMMA RecordsMounted ==
    ASSUME IPRecords
    PROVE  RecordsSound /\ HasFn(calls) /\ role \in Roles
<1>1. PICK t, dialogs :
        /\ t \in DOMAIN RecordsTools
        /\ dialogs \in {{}, {"edit"}} /\ (dialogs = {} \/ (t = "edit" /\ hasRole("Administrator")))
        /\ Mount([page |-> "IPRecordsPage", tool |-> t, currentPage |-> 1, filter |-> "all", loading |-> TRUE,
               open |-> dialogs] ++ RecordsTools[t],
              {Req("fetchSubnets", None, None), Req("fetchRecords", <<1, "all">>, None)},
              {"fetchSubnets", "fetchRecords", "fetchHistory", "fetchDuplicates", "runCheck"})
  BY DEF IPRecords, AtLeast, hasRole
<1>2. Asks({Req("fetchSubnets", None, None), Req("fetchRecords", <<1, "all">>, None)},
           {"fetchSubnets", "fetchRecords"})
  <2>1. Asks({Req("fetchSubnets", None, None)}, {"fetchSubnets"})
            /\ Asks({Req("fetchRecords", <<1, "all">>, None)}, {"fetchRecords"})
    BY AsksOnce
  <2>2. {"fetchSubnets"} \cap {"fetchRecords"} = {}
            /\ {"fetchSubnets"} \cup {"fetchRecords"} = {"fetchSubnets", "fetchRecords"}
    OBVIOUS
  <2>3. {Req("fetchSubnets", None, None)} \cup {Req("fetchRecords", <<1, "all">>, None)}
            = {Req("fetchSubnets", None, None), Req("fetchRecords", <<1, "all">>, None)}
    OBVIOUS
  <2>4. Asks({Req("fetchSubnets", None, None)} \cup {Req("fetchRecords", <<1, "all">>, None)},
             {"fetchSubnets"} \cup {"fetchRecords"})
    BY <2>1, <2>2, AsksTwo
  <2> QED
    BY <2>2, <2>3, <2>4
<1>3. /\ ui = [page |-> "IPRecordsPage", tool |-> t, currentPage |-> 1, filter |-> "all", loading |-> TRUE,
               open |-> dialogs] ++ RecordsTools[t]
      /\ DOMAIN shown = {"fetchSubnets", "fetchRecords", "fetchHistory", "fetchDuplicates", "runCheck"}
      /\ HasFn(calls) /\ sent = {"fetchSubnets", "fetchRecords"} /\ twice = {}
  BY <1>1, <1>2, MountSends
<1>4. role \in Roles
  BY <1>1, MountRole DEF Public, ++
<1>5. CASE t = "edit"
  <2>1. RecordsTools[t] = [editingRecord |-> None, submitting |-> FALSE, quickSubnetSubmitting |-> FALSE]
    BY <1>5 DEF RecordsTools
  <2> QED
    BY <1>1, <1>3, <1>4, <1>5, <2>1, NoCells
       DEF Page, Has, Cells, Turns, Guards, OnlyFor, Within, Busy, Quiet, ++, RecordsSound, RecordsTable,
           TableCells, TableFns, EditorFns, EditorDialogs, RecordsTool, RecordsEdit, ScanCells,
           DuplicatesCells, DuplicatesDialog
<1>6. CASE t = "bulk"
  <2>1. RecordsTools[t] = [selectedRowKeys |-> {}, bulkSubmitting |-> FALSE]
    BY <1>6 DEF RecordsTools
  <2> QED
    BY <1>1, <1>3, <1>4, <1>6, <2>1, NoCells
       DEF Page, Has, Cells, Turns, Guards, OnlyFor, Within, Busy, Quiet, ++, RecordsSound, RecordsTable,
           TableCells, TableFns, EditorFns, EditorDialogs, RecordsTool, RecordsBulk, ScanCells,
           DuplicatesCells, DuplicatesDialog
<1>7. CASE t = "export"
  <2>1. RecordsTools[t] = [exportFilter |-> "all", exporting |-> FALSE]
    BY <1>7 DEF RecordsTools
  <2> QED
    BY <1>1, <1>3, <1>4, <1>7, <2>1, NoCells
       DEF Page, Has, Cells, Turns, Guards, OnlyFor, Within, Busy, Quiet, ++, RecordsSound, RecordsTable,
           TableCells, TableFns, EditorFns, EditorDialogs, RecordsTool, RecordsExport, ScanCells,
           DuplicatesCells, DuplicatesDialog
<1>8. CASE t = "import"
  <2>1. RecordsTools[t] = [fileList |-> FALSE, importing |-> FALSE, result |-> FALSE, templateLoading |-> FALSE]
    BY <1>8 DEF RecordsTools
  <2> QED
    BY <1>1, <1>3, <1>4, <1>8, <2>1, NoCells
       DEF Page, Has, Cells, Turns, Guards, OnlyFor, Within, Busy, Quiet, ++, RecordsSound, RecordsTable,
           TableCells, TableFns, EditorFns, EditorDialogs, RecordsTool, RecordsImport, ScanCells,
           DuplicatesCells, DuplicatesDialog
<1>9. CASE t = "history"
  <2>1. RecordsTools[t] = [historyRecord |-> None, historyLoading |-> FALSE]
    BY <1>9 DEF RecordsTools
  <2> QED
    BY <1>1, <1>3, <1>4, <1>9, <2>1, NoCells
       DEF Page, Has, Cells, Turns, Guards, OnlyFor, Within, Busy, Quiet, ++, RecordsSound, RecordsTable,
           TableCells, TableFns, EditorFns, EditorDialogs, RecordsTool, RecordsHistory, ScanCells,
           DuplicatesCells, DuplicatesDialog
<1>10. CASE t = "check"
  <2>1. RecordsTools[t] = [checkAvailRecord |-> None, running |-> FALSE]
    BY <1>10 DEF RecordsTools, CheckCells
  <2> QED
    BY <1>1, <1>3, <1>4, <1>10, <2>1, NoCells
       DEF Page, Has, Cells, Turns, Guards, OnlyFor, Within, Busy, Quiet, ++, RecordsSound, RecordsTable,
           TableCells, TableFns, EditorFns, EditorDialogs, RecordsTool, RecordsCheck, ScanCells,
           DuplicatesCells, DuplicatesDialog
<1>11. CASE t = "duplicates"
  <2>1. RecordsTools[t] = DuplicatesCells
    BY <1>11 DEF RecordsTools
  <2> QED
    BY <1>1, <1>3, <1>4, <1>11, <2>1, NoCells
       DEF Page, Has, Cells, Turns, Guards, OnlyFor, Within, Busy, Quiet, ++, RecordsSound, RecordsTable,
           TableCells, TableFns, EditorFns, EditorDialogs, RecordsTool, RecordsDuplicates, ScanCells,
           DuplicatesCells, DuplicatesDialog
<1> QED
  BY <1>1, <1>5, <1>6, <1>7, <1>8, <1>9, <1>10, <1>11 DEF RecordsTools

LEMMA IntegrationsMounted ==
    ASSUME Integrations
    PROVE  IntegrationsSound /\ HasFn(calls) /\ role \in Roles
<1>1. PICK s \in Sources :
        Mount([page |-> "IntegrationsPage", source |-> s, open |-> FALSE, connectLoading |-> FALSE,
               importLoading |-> FALSE] ++ Closed,
              {Req("fetchSubnets", 1, None)}, {"handleConnect"})
  BY DEF Integrations
<1>2. /\ ui = [page |-> "IntegrationsPage", source |-> s, open |-> FALSE, connectLoading |-> FALSE,
               importLoading |-> FALSE] ++ Closed
      /\ DOMAIN shown = {"handleConnect"}
      /\ HasFn(calls) /\ sent = {"fetchSubnets"} /\ twice = {}
  BY <1>1, AsksOnce, MountSends
<1>3. role \in Roles /\ hasRole("Operator")
  BY <1>1, MountRole, RouteRoles DEF Public, Closed, ++
<1> QED
  BY <1>2, <1>3
  DEF Page, Cells, Turns, Guards, OnlyFor, Within, Busy, Quiet, IntegrationsSound, Closed, ++

LEMMA UnusedIPsMounted ==
    ASSUME UnusedIPs
    PROVE  UnusedIPsSound /\ HasFn(calls) /\ role \in Roles
<1>1. PICK s, reqs, loads, t :
        /\ loads = (s # None)
        /\ reqs = {Req("fetchAllSubnets", 1, None)}
               \cup (IF s = None THEN {} ELSE {Req("fetchUnused", <<s, 1, "all">>, None)})
        /\ Mount([page |-> "UnusedIPsPage", subnetsLoading |-> TRUE, subnetsError |-> FALSE,
                  selectedSubnetId |-> s, pageNum |-> 1, detailSearch |-> "all", detailLoading |-> loads,
                  timer |-> t] ++ CheckCells,
                 reqs, {"fetchUnused", "runCheck"})
  BY DEF UnusedIPs
<1>2. \/ loads = FALSE /\ Asks(reqs, {"fetchAllSubnets"})
      \/ loads = TRUE /\ Asks(reqs, {"fetchAllSubnets", "fetchUnused"})
  <2>1. CASE s = None
    <3>1. reqs = {Req("fetchAllSubnets", 1, None)}
      BY <1>1, <2>1
    <3>2. loads = FALSE
      BY <1>1, <2>1
    <3> QED
      BY <3>1, <3>2, AsksOnce
  <2>2. CASE s # None
    <3>1. reqs = {Req("fetchAllSubnets", 1, None)} \cup {Req("fetchUnused", <<s, 1, "all">>, None)}
      BY <1>1, <2>2
    <3>2. /\ Asks({Req("fetchAllSubnets", 1, None)}, {"fetchAllSubnets"})
          /\ Asks({Req("fetchUnused", <<s, 1, "all">>, None)}, {"fetchUnused"})
      BY AsksOnce
    <3>3. /\ {"fetchAllSubnets"} \cap {"fetchUnused"} = {}
          /\ {"fetchAllSubnets"} \cup {"fetchUnused"} = {"fetchAllSubnets", "fetchUnused"}
      OBVIOUS
    <3>4. Asks(reqs, {"fetchAllSubnets"} \cup {"fetchUnused"})
      BY <3>1, <3>2, <3>3, AsksTwo
    <3>5. loads = TRUE
      BY <1>1, <2>2
    <3> QED
      BY <3>3, <3>4, <3>5
  <2> QED
    BY <2>1, <2>2
<1>3. /\ ui = [page |-> "UnusedIPsPage", subnetsLoading |-> TRUE, subnetsError |-> FALSE,
               selectedSubnetId |-> s, pageNum |-> 1, detailSearch |-> "all", detailLoading |-> loads,
               timer |-> t] ++ CheckCells
      /\ DOMAIN shown = {"fetchUnused", "runCheck"} /\ HasFn(calls) /\ twice = {}
      /\ \/ loads = FALSE /\ sent = {"fetchAllSubnets"}
         \/ loads = TRUE /\ sent = {"fetchAllSubnets", "fetchUnused"}
  BY <1>1, <1>2, MountSends
<1>4. role \in Roles
  BY <1>1, MountRole
<1> QED
  BY <1>3, <1>4 DEF Page, Cells, Turns, Guards, OnlyFor, Within, Busy, Quiet, UnusedIPsSound, CheckCells, ++

---------------------------------------------------------------------------
(* The inductive invariant: whichever page it is, its own.                 *)
PageSound ==
    \/ UsersSound \/ PendingSound \/ AuditLogSound \/ RegistrationSound \/ RecordsSound
    \/ UnusedIPsSound \/ SubnetsSound \/ NetworkScanSound \/ PaloAltoSound \/ DashboardSound
    \/ IntegrationsSound \/ VaultSound \/ FilesSound \/ SharePageSound \/ UploadRequestSound
AppInv == HasFn(calls) /\ PageSound

LEMMA InitSound == ASSUME Init PROVE AppInv
BY UsersPageMounted, PendingApprovalsMounted, AuditLogMounted, RegistrationMounted, RecordsMounted,
   UnusedIPsMounted, SubnetsMounted, NetworkScanMounted, PaloAltoMounted, DashboardMounted,
   IntegrationsMounted, VaultMounted, FilesPageMounted, SharePageMounted, UploadRequestMounted
   DEF Init, UsersInit, FilesInit, AppInv, PageSound

LEMMA PagesOfNext ==
    ASSUME Next, HasFn(calls)
    PROVE  \/ Answers
           \/ ui.page = "UsersPage" /\ UsersPageNext
           \/ ui.page = "PendingApprovalsPage" /\ PendingApprovalsNext
           \/ ui.page = "AuditLogPage" /\ AuditLogNext
           \/ ui.page = "RegistrationPage" /\ RegistrationNext
           \/ ui.page = "IPRecordsPage" /\ RecordsNext
           \/ ui.page = "UnusedIPsPage" /\ UnusedIPsNext
           \/ ui.page = "SubnetsPage" /\ SubnetsNext
           \/ ui.page = "NetworkScanPage" /\ NetworkScanNext
           \/ ui.page = "PaloAltoPage" /\ PaloAltoNext
           \/ ui.page = "DashboardPage" /\ DashboardNext
           \/ ui.page = "IntegrationsPage" /\ IntegrationsNext
           \/ ui.page = "VaultPage" /\ VaultNext
           \/ ui.page = "FilesPage" /\ FilesPageNext
           \/ ui.page = "SharePage" /\ SharePageNext
           \/ ui.page = "UploadRequestPage" /\ UploadRequestNext
<1>1. CASE UsersNext
  <2>1. Answers \/ UsersPageNext \/ PendingApprovalsNext \/ AuditLogNext \/ RegistrationNext
    BY <1>1, ServeAnswers, RefuseAnswers DEF UsersNext
  <2>2. CASE UsersPageNext
    BY <2>2 DEF UsersPageNext
  <2>3. CASE PendingApprovalsNext
    BY <2>3 DEF PendingApprovalsNext
  <2>4. CASE AuditLogNext
    BY <2>4 DEF AuditLogNext
  <2>5. CASE RegistrationNext
    BY <2>5 DEF RegistrationNext
  <2> QED
    BY <2>1, <2>2, <2>3, <2>4, <2>5
<1>2. CASE FilesNext
  <2>1. Answers \/ FilesPageNext \/ SharePageNext \/ UploadRequestNext
    BY <1>2, ServeAnswers, RefuseAnswers DEF FilesNext
  <2>2. CASE FilesPageNext
    BY <2>2 DEF FilesPageNext
  <2>3. CASE SharePageNext
    BY <2>3 DEF SharePageNext
  <2>4. CASE UploadRequestNext
    BY <2>4 DEF UploadRequestNext
  <2> QED
    BY <2>1, <2>2, <2>3, <2>4
<1>3. CASE RecordsNext
  BY <1>3 DEF RecordsNext
<1>4. CASE UnusedIPsNext
  BY <1>4 DEF UnusedIPsNext
<1>5. CASE SubnetsNext
  BY <1>5 DEF SubnetsNext
<1>6. CASE NetworkScanNext
  BY <1>6 DEF NetworkScanNext
<1>7. CASE PaloAltoNext
  BY <1>7 DEF PaloAltoNext
<1>8. CASE DashboardNext
  BY <1>8 DEF DashboardNext
<1>9. CASE IntegrationsNext
  BY <1>9 DEF IntegrationsNext
<1>10. CASE VaultNext
  BY <1>10 DEF VaultNext
<1> QED
  BY <1>1, <1>2, <1>3, <1>4, <1>5, <1>6, <1>7, <1>8, <1>9, <1>10 DEF Next

LEMMA StepSound == ASSUME AppInv, [Next]_web PROVE AppInv'
<1>1. Answers \/ Next
  BY DEF web, Answers, AppInv, HasFn, Fns, Twice, sent, twice
<1>2. CASE UsersSound
  <2>1. ui.page = "UsersPage"
    BY <1>2 DEF UsersSound, Page
  <2>2. UsersPageNext \/ Answers
    BY <1>1, <2>1, PagesOfNext DEF AppInv
  <2> QED
    BY <1>2, <2>2, UsersKept DEF AppInv, PageSound
<1>3. CASE PendingSound
  <2>1. ui.page = "PendingApprovalsPage"
    BY <1>3 DEF PendingSound, Page
  <2>2. PendingApprovalsNext \/ Answers
    BY <1>1, <2>1, PagesOfNext DEF AppInv
  <2> QED
    BY <1>3, <2>2, PendingKept DEF AppInv, PageSound
<1>4. CASE AuditLogSound
  <2>1. ui.page = "AuditLogPage"
    BY <1>4 DEF AuditLogSound, Page
  <2>2. AuditLogNext \/ Answers
    BY <1>1, <2>1, PagesOfNext DEF AppInv
  <2> QED
    BY <1>4, <2>2, AuditLogKept DEF AppInv, PageSound
<1>5. CASE RegistrationSound
  <2>1. ui.page = "RegistrationPage"
    BY <1>5 DEF RegistrationSound, Page
  <2>2. RegistrationNext \/ Answers
    BY <1>1, <2>1, PagesOfNext DEF AppInv
  <2> QED
    BY <1>5, <2>2, RegistrationKept DEF AppInv, PageSound
<1>6. CASE RecordsSound
  <2>1. ui.page = "IPRecordsPage"
    BY <1>6 DEF RecordsSound, RecordsTable, Page
  <2>2. RecordsNext \/ Answers
    BY <1>1, <2>1, PagesOfNext DEF AppInv
  <2> QED
    BY <1>6, <2>2, RecordsKept DEF AppInv, PageSound
<1>7. CASE UnusedIPsSound
  <2>1. ui.page = "UnusedIPsPage"
    BY <1>7 DEF UnusedIPsSound, Page
  <2>2. UnusedIPsNext \/ Answers
    BY <1>1, <2>1, PagesOfNext DEF AppInv
  <2> QED
    BY <1>7, <2>2, UnusedIPsKept DEF AppInv, PageSound
<1>8. CASE SubnetsSound
  <2>1. ui.page = "SubnetsPage"
    BY <1>8 DEF SubnetsSound, SubnetsTree, Page
  <2>2. SubnetsNext \/ Answers
    BY <1>1, <2>1, PagesOfNext DEF AppInv
  <2> QED
    BY <1>8, <2>2, SubnetsKept DEF AppInv, PageSound
<1>9. CASE NetworkScanSound
  <2>1. ui.page = "NetworkScanPage"
    BY <1>9 DEF NetworkScanSound, Page
  <2>2. NetworkScanNext \/ Answers
    BY <1>1, <2>1, PagesOfNext DEF AppInv
  <2> QED
    BY <1>9, <2>2, NetworkScanKept DEF AppInv, PageSound
<1>10. CASE PaloAltoSound
  <2>1. ui.page = "PaloAltoPage"
    BY <1>10 DEF PaloAltoSound, PaloAltoChecks, Page
  <2>2. PaloAltoNext \/ Answers
    BY <1>1, <2>1, PagesOfNext DEF AppInv
  <2> QED
    BY <1>10, <2>2, PaloAltoKept DEF AppInv, PageSound
<1>11. CASE DashboardSound
  <2>1. ui.page = "DashboardPage"
    BY <1>11 DEF DashboardSound, DashboardFrame, Page
  <2>2. DashboardNext \/ Answers
    BY <1>1, <2>1, PagesOfNext DEF AppInv
  <2> QED
    BY <1>11, <2>2, DashboardKept DEF AppInv, PageSound
<1>12. CASE IntegrationsSound
  <2>1. ui.page = "IntegrationsPage"
    BY <1>12 DEF IntegrationsSound, Page
  <2>2. IntegrationsNext \/ Answers
    BY <1>1, <2>1, PagesOfNext DEF AppInv
  <2> QED
    BY <1>12, <2>2, IntegrationsKept DEF AppInv, PageSound
<1>13. CASE VaultSound
  <2>1. ui.page = "VaultPage"
    BY <1>13 DEF VaultSound, VaultFrame, Page
  <2>2. VaultNext \/ Answers
    BY <1>1, <2>1, PagesOfNext DEF AppInv
  <2> QED
    BY <1>13, <2>2, VaultKept DEF AppInv, PageSound
<1>14. CASE FilesSound
  <2>1. ui.page = "FilesPage"
    BY <1>14 DEF FilesSound, FilesFrame, Page
  <2>2. FilesPageNext \/ Answers
    BY <1>1, <2>1, PagesOfNext DEF AppInv
  <2> QED
    BY <1>14, <2>2, FilesKept DEF AppInv, PageSound
<1>15. CASE SharePageSound
  <2>1. ui.page = "SharePage"
    BY <1>15 DEF SharePageSound, Page
  <2>2. SharePageNext \/ Answers
    BY <1>1, <2>1, PagesOfNext DEF AppInv
  <2> QED
    BY <1>15, <2>2, SharePageKept DEF AppInv, PageSound
<1>16. CASE UploadRequestSound
  <2>1. ui.page = "UploadRequestPage"
    BY <1>16 DEF UploadRequestSound, Page
  <2>2. UploadRequestNext \/ Answers
    BY <1>1, <2>1, PagesOfNext DEF AppInv
  <2> QED
    BY <1>16, <2>2, UploadRequestKept DEF AppInv, PageSound
<1> QED
  BY <1>2, <1>3, <1>4, <1>5, <1>6, <1>7, <1>8, <1>9, <1>10, <1>11, <1>12, <1>13, <1>14, <1>15, <1>16
     DEF AppInv, PageSound

\* Whichever page is open, from its first render on and whatever the user, the
\* timers and the server do, the cells of the page agree with the requests its
\* handlers have under way, and both with the role of the session.
THEOREM AppSound == Spec => []AppInv
<1>1. Init => AppInv
  BY InitSound
<1>2. AppInv /\ [Next]_web => AppInv'
  BY StepSound
<1> QED
  BY <1>1, <1>2, PTL DEF Spec

---------------------------------------------------------------------------
(* What the invariant says of the spinners and of the roles of a page.     *)
Lit(spinners) == \A l \in DOMAIN spinners \cap DOMAIN ui : ui[l] => \E f \in spinners[l] : f \in sent
Single(spinners) ==
    \A l \in DOMAIN spinners :
        \A f, g \in spinners[l] \ (DOMAIN shown \cup {"unlock"}) :
            f \in sent /\ g \in sent => f = g /\ f \notin twice
Allowed(required, all) == \A f \in DOMAIN required \ all : f \in sent => hasRole(required[f])

LEMMA RoleLevels ==
    ASSUME role \in Roles
    PROVE  /\ hasRole("Viewer")
           /\ hasRole("SuperAdmin") => hasRole("Administrator")
           /\ hasRole("Administrator") => hasRole("Operator")
BY DEF Roles, RoleLevel, hasRole

LEMMA AloneOnce ==
    ASSUME NEW S, HasFn(calls), \A f, g \in S : f \in sent /\ g \in sent => f = g /\ f \notin twice
    PROVE  Cardinality({c \in calls : c.fn \in S}) <= 1
<1> DEFINE C == {c \in calls : c.fn \in S}
<1>1. ASSUME NEW c \in C, NEW d \in C PROVE c = d
  <2>1. c.fn \in sent /\ d.fn \in sent /\ c.fn = d.fn /\ c.fn \notin twice
    BY DEF sent, Fns
  <2> QED
    BY <2>1 DEF twice, Twice, sent
<1>2. CASE C = {}
  BY <1>2, FS_EmptySet
<1>3. CASE C # {}
  <2>1. PICK c : C = {c}
    BY <1>1, <1>3
  <2> HIDE DEF C
  <2>2. Cardinality(C) = 1
    BY <2>1, FS_Singleton
  <2> QED
    BY <2>2 DEF C
<1> QED
  BY <1>2, <1>3

LEMMA UsersSays ==
    ASSUME UsersSound
    PROVE  /\ Lit(UsersSpinners.UsersPage) /\ Single(UsersSpinners.UsersPage)
           /\ Allowed(UsersRequired, {})
<1>1. Lit(UsersSpinners.UsersPage)
  BY DEF Lit, Page, Cells, Has, Turns, Guards, Busy, UsersSpinners, UsersSound, UserDialogs, UserCommands
<1>2. Single(UsersSpinners.UsersPage)
  BY DEF Single, Page, Guards, Busy, Quiet, Within, UsersSpinners, UsersSound, UserDialogs, UserCommands
<1>3. Allowed(UsersRequired, {})
  BY RoleLevels
     DEF Allowed, Page, OnlyFor, Within, Quiet, ++, UsersRequired, UsersSound, UserDialogs, UserCommands
<1> QED
  BY <1>1, <1>2, <1>3

LEMMA PendingSays ==
    ASSUME PendingSound
    PROVE  /\ Lit(UsersSpinners.PendingApprovalsPage) /\ Single(UsersSpinners.PendingApprovalsPage)
           /\ Allowed(UsersRequired, {})
<1>1. Lit(UsersSpinners.PendingApprovalsPage)
  BY DEF Lit, Page, Cells, Has, Turns, Guards, Busy, UsersSpinners, PendingSound
<1>2. Single(UsersSpinners.PendingApprovalsPage)
  BY DEF Single, Page, Guards, Busy, Quiet, Within, UsersSpinners, PendingSound
<1>3. Allowed(UsersRequired, {})
  BY RoleLevels DEF Allowed, Page, OnlyFor, Within, Quiet, ++, UsersRequired, PendingSound
<1> QED
  BY <1>1, <1>2, <1>3

LEMMA AuditLogSays ==
    ASSUME AuditLogSound
    PROVE  /\ Lit(UsersSpinners.AuditLogPage) /\ Single(UsersSpinners.AuditLogPage)
           /\ Allowed(UsersRequired, {})
<1>1. Lit(UsersSpinners.AuditLogPage)
  BY DEF Lit, Page, Cells, Has, Turns, Guards, Busy, UsersSpinners, AuditLogSound
<1>2. Single(UsersSpinners.AuditLogPage)
  BY DEF Single, Page, Guards, Busy, Quiet, Within, UsersSpinners, AuditLogSound
<1>3. Allowed(UsersRequired, {})
  BY RoleLevels DEF Allowed, Page, OnlyFor, Within, Quiet, ++, UsersRequired, AuditLogSound
<1> QED
  BY <1>1, <1>2, <1>3

LEMMA RegistrationSays ==
    ASSUME RegistrationSound
    PROVE  /\ Lit(UsersSpinners.RegistrationPage) /\ Single(UsersSpinners.RegistrationPage)
           /\ Allowed(UsersRequired, {})
<1>1. Lit(UsersSpinners.RegistrationPage)
  BY DEF Lit, Page, Cells, Has, Turns, Guards, Busy, UsersSpinners, RegistrationSound
<1>2. Single(UsersSpinners.RegistrationPage)
  BY DEF Single, Page, Guards, Busy, Quiet, Within, UsersSpinners, RegistrationSound
<1>3. Allowed(UsersRequired, {})
  BY RoleLevels DEF Allowed, Page, OnlyFor, Within, Quiet, ++, UsersRequired, RegistrationSound
<1> QED
  BY <1>1, <1>2, <1>3

LEMMA UnusedIPsSays ==
    ASSUME UnusedIPsSound
    PROVE  /\ Lit(UnusedIPsSpinners.UnusedIPsPage) /\ Single(UnusedIPsSpinners.UnusedIPsPage)
           /\ Allowed(UnusedIPsRequired, {})
<1>1. Lit(UnusedIPsSpinners.UnusedIPsPage)
  BY DEF Lit, Page, Cells, Has, Turns, Guards, Busy, UnusedIPsSpinners, UnusedIPsSound
<1>2. Single(UnusedIPsSpinners.UnusedIPsPage)
  BY DEF Single, Page, Guards, Busy, Quiet, Within, UnusedIPsSpinners, UnusedIPsSound
<1>3. Allowed(UnusedIPsRequired, {})
  BY RoleLevels DEF Allowed, Page, OnlyFor, Within, Quiet, ++, UnusedIPsRequired, UnusedIPsSound
<1> QED
  BY <1>1, <1>2, <1>3

LEMMA NetworkScanSays ==
    ASSUME NetworkScanSound
    PROVE  /\ Lit(NetworkScanSpinners.NetworkScanPage) /\ Single(NetworkScanSpinners.NetworkScanPage)
           /\ Allowed(NetworkScanRequired, {"handleImport", "createSubnet"})
<1>1. Lit(NetworkScanSpinners.NetworkScanPage)
  BY DEF Lit, Page, Cells, Has, Turns, Guards, Busy, NetworkScanSpinners, NetworkScanSound
<1>2. Single(NetworkScanSpinners.NetworkScanPage)
  BY DEF Single, Page, Guards, Busy, Quiet, Within, NetworkScanSpinners, NetworkScanSound
<1>3. Allowed(NetworkScanRequired, {"handleImport", "createSubnet"})
  BY RoleLevels DEF Allowed, Page, OnlyFor, Within, Quiet, ++, NetworkScanRequired, NetworkScanSound
<1> QED
  BY <1>1, <1>2, <1>3

LEMMA IntegrationsSays ==
    ASSUME IntegrationsSound
    PROVE  /\ Lit(IntegrationsSpinners.IntegrationsPage) /\ Single(IntegrationsSpinners.IntegrationsPage)
           /\ Allowed(IntegrationsRequired, {})
<1>1. Lit(IntegrationsSpinners.IntegrationsPage)
  BY DEF Lit, Page, Cells, Has, Turns, Guards, Busy, IntegrationsSpinners, IntegrationsSound
<1>2. Single(IntegrationsSpinners.IntegrationsPage)
  BY DEF Single, Page, Guards, Busy, Quiet, Within, IntegrationsSpinners, IntegrationsSound
<1>3. Allowed(IntegrationsRequired, {})
  BY RoleLevels DEF Allowed, Page, OnlyFor, Within, Quiet, ++, IntegrationsRequired, IntegrationsSound
<1> QED
  BY <1>1, <1>2, <1>3

LEMMA SharePageSays ==
    ASSUME SharePageSound
    PROVE  /\ Lit(FilesSpinners.SharePage) /\ Single(FilesSpinners.SharePage)
           /\ Allowed(FilesRequired, {})
<1>1. Lit(FilesSpinners.SharePage)
  BY DEF Lit, Page, Cells, Has, Turns, Guards, Busy, FilesSpinners, SharePageSound
<1>2. Single(FilesSpinners.SharePage)
  BY DEF Single, Page, Guards, Busy, Quiet, Within, FilesSpinners, SharePageSound
<1>3. Allowed(FilesRequired, {})
  BY RoleLevels DEF Allowed, Page, OnlyFor, Within, Quiet, ++, FilesRequired, SharePageSound
<1> QED
  BY <1>1, <1>2, <1>3

LEMMA UploadRequestSays ==
    ASSUME UploadRequestSound
    PROVE  /\ Lit(FilesSpinners.UploadRequestPage) /\ Single(FilesSpinners.UploadRequestPage)
           /\ Allowed(FilesRequired, {})
<1>1. Lit(FilesSpinners.UploadRequestPage)
  BY DEF Lit, Page, Cells, Has, Turns, Guards, Busy, FilesSpinners, UploadRequestSound
<1>2. Single(FilesSpinners.UploadRequestPage)
  BY DEF Single, Page, Guards, Busy, Quiet, Within, FilesSpinners, UploadRequestSound
<1>3. Allowed(FilesRequired, {})
  BY RoleLevels DEF Allowed, Page, OnlyFor, Within, Quiet, ++, FilesRequired, UploadRequestSound
<1> QED
  BY <1>1, <1>2, <1>3

LEMMA RecordsSays ==
    ASSUME RecordsSound
    PROVE  /\ Lit(RecordsSpinners.IPRecordsPage) /\ Single(RecordsSpinners.IPRecordsPage)
           /\ Allowed(RecordsRequired, {"handleExport", "fetchDuplicates", "runScan"})
<1>1. CASE RecordsEdit
  <2>1. Lit(RecordsSpinners.IPRecordsPage)
    BY <1>1
       DEF Lit, Page, Cells, Has, Turns, Guards, Busy, RecordsSpinners, RecordsSound, RecordsTable,
           TableCells, TableFns, EditorFns, RecordsEdit
  <2>2. Single(RecordsSpinners.IPRecordsPage)
    BY <1>1
       DEF Single, Page, Guards, Busy, Quiet, Within, RecordsSpinners, RecordsSound, RecordsTable, TableCells,
           TableFns, EditorFns, RecordsEdit
  <2>3. Allowed(RecordsRequired, {"handleExport", "fetchDuplicates", "runScan"})
    BY <1>1, RoleLevels
       DEF Allowed, Page, OnlyFor, Within, Quiet, ++, RecordsRequired, RecordsSound, RecordsTable, TableCells,
           TableFns, EditorFns, RecordsEdit
  <2> QED
    BY <2>1, <2>2, <2>3
<1>2. CASE RecordsBulk
  <2>1. Lit(RecordsSpinners.IPRecordsPage)
    BY <1>2
       DEF Lit, Page, Cells, Has, Turns, Guards, Busy, RecordsSpinners, RecordsSound, RecordsTable,
           TableCells, TableFns, EditorFns, RecordsBulk
  <2>2. Single(RecordsSpinners.IPRecordsPage)
    BY <1>2
       DEF Single, Page, Guards, Busy, Quiet, Within, RecordsSpinners, RecordsSound, RecordsTable, TableCells,
           TableFns, EditorFns, RecordsBulk
  <2>3. Allowed(RecordsRequired, {"handleExport", "fetchDuplicates", "runScan"})
    BY <1>2, RoleLevels
       DEF Allowed, Page, OnlyFor, Within, Quiet, ++, RecordsRequired, RecordsSound, RecordsTable, TableCells,
           TableFns, EditorFns, RecordsBulk
  <2> QED
    BY <2>1, <2>2, <2>3
<1>3. CASE RecordsExport
  <2>1. Lit(RecordsSpinners.IPRecordsPage)
    BY <1>3
       DEF Lit, Page, Cells, Has, Turns, Guards, Busy, RecordsSpinners, RecordsSound, RecordsTable,
           TableCells, TableFns, EditorFns, RecordsExport
  <2>2. Single(RecordsSpinners.IPRecordsPage)
    BY <1>3
       DEF Single, Page, Guards, Busy, Quiet, Within, RecordsSpinners, RecordsSound, RecordsTable, TableCells,
           TableFns, EditorFns, RecordsExport
  <2>3. Allowed(RecordsRequired, {"handleExport", "fetchDuplicates", "runScan"})
    BY <1>3, RoleLevels
       DEF Allowed, Page, OnlyFor, Within, Quiet, ++, RecordsRequired, RecordsSound, RecordsTable, TableCells,
           TableFns, EditorFns, RecordsExport
  <2> QED
    BY <2>1, <2>2, <2>3
<1>4. CASE RecordsImport
  <2>1. Lit(RecordsSpinners.IPRecordsPage)
    BY <1>4
       DEF Lit, Page, Cells, Has, Turns, Guards, Busy, RecordsSpinners, RecordsSound, RecordsTable,
           TableCells, TableFns, EditorFns, RecordsImport
  <2>2. Single(RecordsSpinners.IPRecordsPage)
    BY <1>4
       DEF Single, Page, Guards, Busy, Quiet, Within, RecordsSpinners, RecordsSound, RecordsTable, TableCells,
           TableFns, EditorFns, RecordsImport
  <2>3. Allowed(RecordsRequired, {"handleExport", "fetchDuplicates", "runScan"})
    BY <1>4, RoleLevels
       DEF Allowed, Page, OnlyFor, Within, Quiet, ++, RecordsRequired, RecordsSound, RecordsTable, TableCells,
           TableFns, EditorFns, RecordsImport
  <2> QED
    BY <2>1, <2>2, <2>3
<1>5. CASE RecordsHistory
  <2>1. Lit(RecordsSpinners.IPRecordsPage)
    BY <1>5
       DEF Lit, Page, Cells, Has, Turns, Guards, Busy, RecordsSpinners, RecordsSound, RecordsTable,
           TableCells, TableFns, EditorFns, RecordsHistory
  <2>2. Single(RecordsSpinners.IPRecordsPage)
    BY <1>5
       DEF Single, Page, Guards, Busy, Quiet, Within, RecordsSpinners, RecordsSound, RecordsTable, TableCells,
           TableFns, EditorFns, RecordsHistory
  <2>3. Allowed(RecordsRequired, {"handleExport", "fetchDuplicates", "runScan"})
    BY <1>5, RoleLevels
       DEF Allowed, Page, OnlyFor, Within, Quiet, ++, RecordsRequired, RecordsSound, RecordsTable, TableCells,
           TableFns, EditorFns, RecordsHistory
  <2> QED
    BY <2>1, <2>2, <2>3
<1>6. CASE RecordsCheck
  <2>1. Lit(RecordsSpinners.IPRecordsPage)
    BY <1>6
       DEF Lit, Page, Cells, Has, Turns, Guards, Busy, RecordsSpinners, RecordsSound, RecordsTable,
           TableCells, TableFns, EditorFns, RecordsCheck
  <2>2. Single(RecordsSpinners.IPRecordsPage)
    BY <1>6
       DEF Single, Page, Guards, Busy, Quiet, Within, RecordsSpinners, RecordsSound, RecordsTable, TableCells,
           TableFns, EditorFns, RecordsCheck
  <2>3. Allowed(RecordsRequired, {"handleExport", "fetchDuplicates", "runScan"})
    BY <1>6, RoleLevels
       DEF Allowed, Page, OnlyFor, Within, Quiet, ++, RecordsRequired, RecordsSound, RecordsTable, TableCells,
           TableFns, EditorFns, RecordsCheck
  <2> QED
    BY <2>1, <2>2, <2>3
<1>7. CASE RecordsDuplicates
  <2>1. Lit(RecordsSpinners.IPRecordsPage)
    BY <1>7
       DEF Lit, Page, Cells, Has, Turns, Guards, Busy, RecordsSpinners, RecordsSound, RecordsTable,
           TableCells, TableFns, EditorFns, RecordsDuplicates, DuplicatesDialog
  <2>2. Single(RecordsSpinners.IPRecordsPage)
    BY <1>7
       DEF Single, Page, Guards, Busy, Quiet, Within, RecordsSpinners, RecordsSound, RecordsTable, TableCells,
           TableFns, EditorFns, RecordsDuplicates, DuplicatesDialog
  <2>3. Allowed(RecordsRequired, {"handleExport", "fetchDuplicates", "runScan"})
    BY <1>7, RoleLevels
       DEF Allowed, Page, OnlyFor, Within, Quiet, ++, RecordsRequired, RecordsSound, RecordsTable, TableCells,
           TableFns, EditorFns, RecordsDuplicates, DuplicatesDialog
  <2> QED
    BY <2>1, <2>2, <2>3
<1> QED
  BY <1>1, <1>2, <1>3, <1>4, <1>5, <1>6, <1>7 DEF RecordsSound, RecordsTool

LEMMA SubnetsSays ==
    ASSUME SubnetsSound
    PROVE  /\ Lit(SubnetsSpinners.SubnetsPage) /\ Single(SubnetsSpinners.SubnetsPage)
           /\ Allowed(SubnetsRequired, {})
<1>1. CASE SubnetsEdit
  <2>1. Lit(SubnetsSpinners.SubnetsPage)
    BY <1>1
       DEF Lit, Page, Cells, Has, Turns, Guards, Busy, SubnetsSpinners, SubnetsSound, SubnetsTree, TreeCells,
           TreeFns, SubnetsEdit
  <2>2. Single(SubnetsSpinners.SubnetsPage)
    BY <1>1
       DEF Single, Page, Guards, Busy, Quiet, Within, SubnetsSpinners, SubnetsSound, SubnetsTree, TreeCells,
           TreeFns, SubnetsEdit
  <2>3. Allowed(SubnetsRequired, {})
    BY <1>1, RoleLevels
       DEF Allowed, Page, OnlyFor, Within, Quiet, ++, SubnetsRequired, SubnetsSound, SubnetsTree, TreeCells,
           TreeFns, SubnetsEdit
  <2> QED
    BY <2>1, <2>2, <2>3
<1>2. CASE SubnetsScan
  <2>1. Lit(SubnetsSpinners.SubnetsPage)
    BY <1>2
       DEF Lit, Page, Cells, Has, Turns, Guards, Busy, SubnetsSpinners, SubnetsSound, SubnetsTree, TreeCells,
           TreeFns, SubnetsScan
  <2>2. Single(SubnetsSpinners.SubnetsPage)
    BY <1>2
       DEF Single, Page, Guards, Busy, Quiet, Within, SubnetsSpinners, SubnetsSound, SubnetsTree, TreeCells,
           TreeFns, SubnetsScan
  <2>3. Allowed(SubnetsRequired, {})
    BY <1>2, RoleLevels
       DEF Allowed, Page, OnlyFor, Within, Quiet, ++, SubnetsRequired, SubnetsSound, SubnetsTree, TreeCells,
           TreeFns, SubnetsScan
  <2> QED
    BY <2>1, <2>2, <2>3
<1>3. CASE SubnetsDrawer
  <2>1. Lit(SubnetsSpinners.SubnetsPage)
    BY <1>3
       DEF Lit, Page, Cells, Has, Turns, Guards, Busy, SubnetsSpinners, SubnetsSound, SubnetsTree, TreeCells,
           TreeFns, SubnetsDrawer
  <2>2. Single(SubnetsSpinners.SubnetsPage)
    BY <1>3
       DEF Single, Page, Guards, Busy, Quiet, Within, SubnetsSpinners, SubnetsSound, SubnetsTree, TreeCells,
           TreeFns, SubnetsDrawer
  <2>3. Allowed(SubnetsRequired, {})
    BY <1>3, RoleLevels
       DEF Allowed, Page, OnlyFor, Within, Quiet, ++, SubnetsRequired, SubnetsSound, SubnetsTree, TreeCells,
           TreeFns, SubnetsDrawer
  <2> QED
    BY <2>1, <2>2, <2>3
<1> QED
  BY <1>1, <1>2, <1>3 DEF SubnetsSound, SubnetsTool

LEMMA PaloAltoSays ==
    ASSUME PaloAltoSound
    PROVE  /\ Lit(PaloAltoSpinners.PaloAltoPage) /\ Single(PaloAltoSpinners.PaloAltoPage)
           /\ Allowed(PaloAltoRequired, {"runCrossCheck"})
<1>1. CASE PaloAltoDetail
  <2>1. Lit(PaloAltoSpinners.PaloAltoPage)
    BY <1>1
       DEF Lit, Page, Cells, Has, Turns, Guards, Busy, PaloAltoSpinners, PaloAltoSound, PaloAltoChecks,
           ChecksCells, ChecksFns, DetailFns, PaloAltoDetail
  <2>2. Single(PaloAltoSpinners.PaloAltoPage)
    BY <1>1
       DEF Single, Page, Guards, Busy, Quiet, Within, PaloAltoSpinners, PaloAltoSound, PaloAltoChecks,
           ChecksCells, ChecksFns, DetailFns, PaloAltoDetail
  <2>3. Allowed(PaloAltoRequired, {"runCrossCheck"})
    BY <1>1, RoleLevels
       DEF Allowed, Page, OnlyFor, Within, Quiet, ++, PaloAltoRequired, PaloAltoSound, PaloAltoChecks,
           ChecksCells, ChecksFns, DetailFns, PaloAltoDetail
  <2> QED
    BY <2>1, <2>2, <2>3
<1>2. CASE PaloAltoBulk
  <2>1. Lit(PaloAltoSpinners.PaloAltoPage)
    BY <1>2
       DEF Lit, Page, Cells, Has, Turns, Guards, Busy, PaloAltoSpinners, PaloAltoSound, PaloAltoChecks,
           ChecksCells, ChecksFns, DetailFns, PaloAltoBulk
  <2>2. Single(PaloAltoSpinners.PaloAltoPage)
    BY <1>2
       DEF Single, Page, Guards, Busy, Quiet, Within, PaloAltoSpinners, PaloAltoSound, PaloAltoChecks,
           ChecksCells, ChecksFns, DetailFns, PaloAltoBulk
  <2>3. Allowed(PaloAltoRequired, {"runCrossCheck"})
    BY <1>2, RoleLevels
       DEF Allowed, Page, OnlyFor, Within, Quiet, ++, PaloAltoRequired, PaloAltoSound, PaloAltoChecks,
           ChecksCells, ChecksFns, DetailFns, PaloAltoBulk
  <2> QED
    BY <2>1, <2>2, <2>3
<1> QED
  BY <1>1, <1>2 DEF PaloAltoSound, PaloAltoTool

LEMMA DashboardSays ==
    ASSUME DashboardSound
    PROVE  /\ Lit(DashboardSpinners.DashboardPage) /\ Single(DashboardSpinners.DashboardPage)
           /\ Allowed(DashboardRequired, {"fetchDuplicates", "runScan"})
<1>1. CASE DashboardStale
  <2>1. Lit(DashboardSpinners.DashboardPage)
    BY <1>1
       DEF Lit, Page, Cells, Has, Turns, Guards, Busy, DashboardSpinners, DashboardSound, DashboardFrame,
           DashboardCells, DashboardFns, DashboardStale
  <2>2. Single(DashboardSpinners.DashboardPage)
    BY <1>1
       DEF Single, Page, Guards, Busy, Quiet, Within, DashboardSpinners, DashboardSound, DashboardFrame,
           DashboardCells, DashboardFns, DashboardStale
  <2>3. Allowed(DashboardRequired, {"fetchDuplicates", "runScan"})
    BY <1>1, RoleLevels
       DEF Allowed, Page, OnlyFor, Within, Quiet, ++, DashboardRequired, DashboardSound, DashboardFrame,
           DashboardCells, DashboardFns, DashboardStale
  <2> QED
    BY <2>1, <2>2, <2>3
<1>2. CASE DashboardDuplicates
  <2>1. Lit(DashboardSpinners.DashboardPage)
    BY <1>2
       DEF Lit, Page, Cells, Has, Turns, Guards, Busy, DashboardSpinners, DashboardSound, DashboardFrame,
           DashboardCells, DashboardFns, DashboardDuplicates, DuplicatesDialog
  <2>2. Single(DashboardSpinners.DashboardPage)
    BY <1>2
       DEF Single, Page, Guards, Busy, Quiet, Within, DashboardSpinners, DashboardSound, DashboardFrame,
           DashboardCells, DashboardFns, DashboardDuplicates, DuplicatesDialog
  <2>3. Allowed(DashboardRequired, {"fetchDuplicates", "runScan"})
    BY <1>2, RoleLevels
       DEF Allowed, Page, OnlyFor, Within, Quiet, ++, DashboardRequired, DashboardSound, DashboardFrame,
           DashboardCells, DashboardFns, DashboardDuplicates, DuplicatesDialog
  <2> QED
    BY <2>1, <2>2, <2>3
<1> QED
  BY <1>1, <1>2 DEF DashboardSound, DashboardTool

LEMMA VaultSays ==
    ASSUME VaultSound
    PROVE  /\ Lit(VaultSpinners.VaultPage) /\ Single(VaultSpinners.VaultPage)
           /\ Allowed(VaultRequired, {"createShare", "revokeShare"})
<1>1. CASE VaultCabinets
  <2>1. Lit(VaultSpinners.VaultPage)
    BY <1>1
       DEF Lit, Page, Cells, Has, Turns, Guards, Busy, VaultSpinners, VaultSound, VaultFrame, FrameCells,
           FrameFns, VaultCabinets
  <2>2. Single(VaultSpinners.VaultPage)
    BY <1>1
       DEF Single, Page, Guards, Busy, Quiet, Within, VaultSpinners, VaultSound, VaultFrame, FrameCells,
           FrameFns, VaultCabinets
  <2>3. Allowed(VaultRequired, {"createShare", "revokeShare"})
    BY <1>1, RoleLevels
       DEF Allowed, Page, OnlyFor, Within, Quiet, ++, VaultRequired, VaultSound, VaultFrame, FrameCells,
           FrameFns, VaultCabinets
  <2> QED
    BY <2>1, <2>2, <2>3
<1>2. CASE VaultFolders
  <2>1. Lit(VaultSpinners.VaultPage)
    BY <1>2
       DEF Lit, Page, Cells, Has, Turns, Guards, Busy, VaultSpinners, VaultSound, VaultFrame, FrameCells,
           FrameFns, VaultFolders
  <2>2. Single(VaultSpinners.VaultPage)
    BY <1>2
       DEF Single, Page, Guards, Busy, Quiet, Within, VaultSpinners, VaultSound, VaultFrame, FrameCells,
           FrameFns, VaultFolders
  <2>3. Allowed(VaultRequired, {"createShare", "revokeShare"})
    BY <1>2, RoleLevels
       DEF Allowed, Page, OnlyFor, Within, Quiet, ++, VaultRequired, VaultSound, VaultFrame, FrameCells,
           FrameFns, VaultFolders
  <2> QED
    BY <2>1, <2>2, <2>3
<1>3. CASE VaultEntries
  <2>1. Lit(VaultSpinners.VaultPage)
    BY <1>3
       DEF Lit, Page, Cells, Has, Turns, Guards, Busy, VaultSpinners, VaultSound, VaultFrame, FrameCells,
           FrameFns, VaultEntries
  <2>2. Single(VaultSpinners.VaultPage)
    BY <1>3
       DEF Single, Page, Guards, Busy, Quiet, Within, VaultSpinners, VaultSound, VaultFrame, FrameCells,
           FrameFns, VaultEntries
  <2>3. Allowed(VaultRequired, {"createShare", "revokeShare"})
    BY <1>3, RoleLevels
       DEF Allowed, Page, OnlyFor, Within, Quiet, ++, VaultRequired, VaultSound, VaultFrame, FrameCells,
           FrameFns, VaultEntries
  <2> QED
    BY <2>1, <2>2, <2>3
<1>4. CASE VaultReveal
  <2>1. Lit(VaultSpinners.VaultPage)
    BY <1>4
       DEF Lit, Page, Cells, Has, Turns, Guards, Busy, VaultSpinners, VaultSound, VaultFrame, FrameCells,
           FrameFns, VaultReveal
  <2>2. Single(VaultSpinners.VaultPage)
    BY <1>4
       DEF Single, Page, Guards, Busy, Quiet, Within, VaultSpinners, VaultSound, VaultFrame, FrameCells,
           FrameFns, VaultReveal
  <2>3. Allowed(VaultRequired, {"createShare", "revokeShare"})
    BY <1>4, RoleLevels
       DEF Allowed, Page, OnlyFor, Within, Quiet, ++, VaultRequired, VaultSound, VaultFrame, FrameCells,
           FrameFns, VaultReveal
  <2> QED
    BY <2>1, <2>2, <2>3
<1>5. CASE VaultShares
  <2>1. Lit(VaultSpinners.VaultPage)
    BY <1>5
       DEF Lit, Page, Cells, Has, Turns, Guards, Busy, VaultSpinners, VaultSound, VaultFrame, FrameCells,
           FrameFns, VaultShares
  <2>2. Single(VaultSpinners.VaultPage)
    BY <1>5
       DEF Single, Page, Guards, Busy, Quiet, Within, VaultSpinners, VaultSound, VaultFrame, FrameCells,
           FrameFns, VaultShares
  <2>3. Allowed(VaultRequired, {"createShare", "revokeShare"})
    BY <1>5, RoleLevels
       DEF Allowed, Page, OnlyFor, Within, Quiet, ++, VaultRequired, VaultSound, VaultFrame, FrameCells,
           FrameFns, VaultShares
  <2> QED
    BY <2>1, <2>2, <2>3
<1>6. CASE VaultDrag
  <2>1. Lit(VaultSpinners.VaultPage)
    BY <1>6
       DEF Lit, Page, Cells, Has, Turns, Guards, Busy, VaultSpinners, VaultSound, VaultFrame, FrameCells,
           FrameFns, VaultDrag
  <2>2. Single(VaultSpinners.VaultPage)
    BY <1>6
       DEF Single, Page, Guards, Busy, Quiet, Within, VaultSpinners, VaultSound, VaultFrame, FrameCells,
           FrameFns, VaultDrag
  <2>3. Allowed(VaultRequired, {"createShare", "revokeShare"})
    BY <1>6, RoleLevels
       DEF Allowed, Page, OnlyFor, Within, Quiet, ++, VaultRequired, VaultSound, VaultFrame, FrameCells,
           FrameFns, VaultDrag
  <2> QED
    BY <2>1, <2>2, <2>3
<1> QED
  BY <1>1, <1>2, <1>3, <1>4, <1>5, <1>6 DEF VaultSound, VaultTool

LEMMA FilesPageSays ==
    ASSUME FilesSound
    PROVE  /\ Lit(FilesSpinners.FilesPage) /\ Single(FilesSpinners.FilesPage)
           /\ Allowed(FilesRequired, {"createFileShare", "revokeFileShare"})
<1>1. CASE FilesList
  <2>1. Lit(FilesSpinners.FilesPage)
    BY <1>1
       DEF Lit, Page, Cells, Has, Turns, Guards, Busy, FilesSpinners, FilesSound, FilesFrame, ListCells,
           FilesList
  <2>2. Single(FilesSpinners.FilesPage)
    BY <1>1
       DEF Single, Page, Guards, Busy, Quiet, Within, FilesSpinners, FilesSound, FilesFrame, ListCells,
           FilesList
  <2>3. Allowed(FilesRequired, {"createFileShare", "revokeFileShare"})
    BY <1>1, RoleLevels
       DEF Allowed, Page, OnlyFor, Within, Quiet, ++, FilesRequired, FilesSound, FilesFrame, ListCells,
           FilesList
  <2> QED
    BY <2>1, <2>2, <2>3
<1>2. CASE FilesUpload
  <2>1. Lit(FilesSpinners.FilesPage)
    BY <1>2
       DEF Lit, Page, Cells, Has, Turns, Guards, Busy, FilesSpinners, FilesSound, FilesFrame, ListCells,
           FilesUpload
  <2>2. Single(FilesSpinners.FilesPage)
    BY <1>2
       DEF Single, Page, Guards, Busy, Quiet, Within, FilesSpinners, FilesSound, FilesFrame, ListCells,
           FilesUpload
  <2>3. Allowed(FilesRequired, {"createFileShare", "revokeFileShare"})
    BY <1>2, RoleLevels
       DEF Allowed, Page, OnlyFor, Within, Quiet, ++, FilesRequired, FilesSound, FilesFrame, ListCells,
           FilesUpload
  <2> QED
    BY <2>1, <2>2, <2>3
<1>3. CASE FilesRequest
  <2>1. Lit(FilesSpinners.FilesPage)
    BY <1>3
       DEF Lit, Page, Cells, Has, Turns, Guards, Busy, FilesSpinners, FilesSound, FilesFrame, ListCells,
           FilesRequest
  <2>2. Single(FilesSpinners.FilesPage)
    BY <1>3
       DEF Single, Page, Guards, Busy, Quiet, Within, FilesSpinners, FilesSound, FilesFrame, ListCells,
           FilesRequest
  <2>3. Allowed(FilesRequired, {"createFileShare", "revokeFileShare"})
    BY <1>3, RoleLevels
       DEF Allowed, Page, OnlyFor, Within, Quiet, ++, FilesRequired, FilesSound, FilesFrame, ListCells,
           FilesRequest
  <2> QED
    BY <2>1, <2>2, <2>3
<1>4. CASE FilesShare
  <2>1. Lit(FilesSpinners.FilesPage)
    BY <1>4
       DEF Lit, Page, Cells, Has, Turns, Guards, Busy, FilesSpinners, FilesSound, FilesFrame, ListCells,
           FilesShare
  <2>2. Single(FilesSpinners.FilesPage)
    BY <1>4
       DEF Single, Page, Guards, Busy, Quiet, Within, FilesSpinners, FilesSound, FilesFrame, ListCells,
           FilesShare
  <2>3. Allowed(FilesRequired, {"createFileShare", "revokeFileShare"})
    BY <1>4, RoleLevels
       DEF Allowed, Page, OnlyFor, Within, Quiet, ++, FilesRequired, FilesSound, FilesFrame, ListCells,
           FilesShare
  <2> QED
    BY <2>1, <2>2, <2>3
<1> QED
  BY <1>1, <1>2, <1>3, <1>4 DEF FilesSound, FilesTool

\* The tables of App, at each page.
LEMMA SpinnersAt ==
    /\ DOMAIN Spinners =
         {"UsersPage", "PendingApprovalsPage", "AuditLogPage", "RegistrationPage", "IPRecordsPage",
          "UnusedIPsPage", "SubnetsPage", "NetworkScanPage", "PaloAltoPage", "DashboardPage",
          "IntegrationsPage", "VaultPage", "FilesPage", "SharePage", "UploadRequestPage"}
    /\ Spinners.UsersPage = UsersSpinners.UsersPage
    /\ Spinners.PendingApprovalsPage = UsersSpinners.PendingApprovalsPage
    /\ Spinners.AuditLogPage = UsersSpinners.AuditLogPage
    /\ Spinners.RegistrationPage = UsersSpinners.RegistrationPage
    /\ Spinners.IPRecordsPage = RecordsSpinners.IPRecordsPage
    /\ Spinners.UnusedIPsPage = UnusedIPsSpinners.UnusedIPsPage
    /\ Spinners.SubnetsPage = SubnetsSpinners.SubnetsPage
    /\ Spinners.NetworkScanPage = NetworkScanSpinners.NetworkScanPage
    /\ Spinners.PaloAltoPage = PaloAltoSpinners.PaloAltoPage
    /\ Spinners.DashboardPage = DashboardSpinners.DashboardPage
    /\ Spinners.IntegrationsPage = IntegrationsSpinners.IntegrationsPage
    /\ Spinners.VaultPage = VaultSpinners.VaultPage
    /\ Spinners.FilesPage = FilesSpinners.FilesPage
    /\ Spinners.SharePage = FilesSpinners.SharePage
    /\ Spinners.UploadRequestPage = FilesSpinners.UploadRequestPage
<1>1. DOMAIN UsersSpinners = {"UsersPage", "PendingApprovalsPage", "AuditLogPage", "RegistrationPage"}
  BY DEF UsersSpinners
<1>2. DOMAIN RecordsSpinners = {"IPRecordsPage"}
  BY DEF RecordsSpinners
<1>3. DOMAIN UnusedIPsSpinners = {"UnusedIPsPage"}
  BY DEF UnusedIPsSpinners
<1>4. DOMAIN SubnetsSpinners = {"SubnetsPage"}
  BY DEF SubnetsSpinners
<1>5. DOMAIN NetworkScanSpinners = {"NetworkScanPage"}
  BY DEF NetworkScanSpinners
<1>6. DOMAIN PaloAltoSpinners = {"PaloAltoPage"}
  BY DEF PaloAltoSpinners
<1>7. DOMAIN DashboardSpinners = {"DashboardPage"}
  BY DEF DashboardSpinners
<1>8. DOMAIN IntegrationsSpinners = {"IntegrationsPage"}
  BY DEF IntegrationsSpinners
<1>9. DOMAIN VaultSpinners = {"VaultPage"}
  BY DEF VaultSpinners
<1>10. DOMAIN FilesSpinners = {"FilesPage", "SharePage", "UploadRequestPage"}
  BY DEF FilesSpinners
<1>11. PICK s2 : s2 = UsersSpinners ++ RecordsSpinners
  OBVIOUS
<1>12. /\ DOMAIN s2 =
           {"UsersPage", "PendingApprovalsPage", "AuditLogPage", "RegistrationPage", "IPRecordsPage"}
      /\ \A p \in DOMAIN UsersSpinners : s2[p] = UsersSpinners[p]
      /\ s2.IPRecordsPage = RecordsSpinners.IPRecordsPage
  BY <1>2, <1>1, <1>11 DEF ++
<1>13. PICK s3 : s3 = s2 ++ UnusedIPsSpinners
  OBVIOUS
<1>14. /\ DOMAIN s3 =
           {"UsersPage", "PendingApprovalsPage", "AuditLogPage", "RegistrationPage", "IPRecordsPage",
            "UnusedIPsPage"}
      /\ \A p \in DOMAIN s2 : s3[p] = s2[p]
      /\ s3.UnusedIPsPage = UnusedIPsSpinners.UnusedIPsPage
  BY <1>3, <1>12, <1>13 DEF ++
<1>15. PICK s4 : s4 = s3 ++ SubnetsSpinners
  OBVIOUS
<1>16. /\ DOMAIN s4 =
           {"UsersPage", "PendingApprovalsPage", "AuditLogPage", "RegistrationPage", "IPRecordsPage",
            "UnusedIPsPage", "SubnetsPage"}
      /\ \A p \in DOMAIN s3 : s4[p] = s3[p]
      /\ s4.SubnetsPage = SubnetsSpinners.SubnetsPage
  BY <1>4, <1>14, <1>15 DEF ++
<1>17. PICK s5 : s5 = s4 ++ NetworkScanSpinners
  OBVIOUS
<1>18. /\ DOMAIN s5 =
           {"UsersPage", "PendingApprovalsPage", "AuditLogPage", "RegistrationPage", "IPRecordsPage",
            "UnusedIPsPage", "SubnetsPage", "NetworkScanPage"}
      /\ \A p \in DOMAIN s4 : s5[p] = s4[p]
      /\ s5.NetworkScanPage = NetworkScanSpinners.NetworkScanPage
  BY <1>5, <1>16, <1>17 DEF ++
<1>19. PICK s6 : s6 = s5 ++ PaloAltoSpinners
  OBVIOUS
<1>20. /\ DOMAIN s6 =
           {"UsersPage", "PendingApprovalsPage", "AuditLogPage", "RegistrationPage", "IPRecordsPage",
            "UnusedIPsPage", "SubnetsPage", "NetworkScanPage", "PaloAltoPage"}
      /\ \A p \in DOMAIN s5 : s6[p] = s5[p]
      /\ s6.PaloAltoPage = PaloAltoSpinners.PaloAltoPage
  BY <1>6, <1>18, <1>19 DEF ++
<1>21. PICK s7 : s7 = s6 ++ DashboardSpinners
  OBVIOUS
<1>22. /\ DOMAIN s7 =
           {"UsersPage", "PendingApprovalsPage", "AuditLogPage", "RegistrationPage", "IPRecordsPage",
            "UnusedIPsPage", "SubnetsPage", "NetworkScanPage", "PaloAltoPage", "DashboardPage"}
      /\ \A p \in DOMAIN s6 : s7[p] = s6[p]
      /\ s7.DashboardPage = DashboardSpinners.DashboardPage
  BY <1>7, <1>20, <1>21 DEF ++
<1>23. PICK s8 : s8 = s7 ++ IntegrationsSpinners
  OBVIOUS
<1>24. /\ DOMAIN s8 =
           {"UsersPage", "PendingApprovalsPage", "AuditLogPage", "RegistrationPage", "IPRecordsPage",
            "UnusedIPsPage", "SubnetsPage", "NetworkScanPage", "PaloAltoPage", "DashboardPage",
            "IntegrationsPage"}
      /\ \A p \in DOMAIN s7 : s8[p] = s7[p]
      /\ s8.IntegrationsPage = IntegrationsSpinners.IntegrationsPage
  BY <1>8, <1>22, <1>23 DEF ++
<1>25. PICK s9 : s9 = s8 ++ VaultSpinners
  OBVIOUS
<1>26. /\ DOMAIN s9 =
           {"UsersPage", "PendingApprovalsPage", "AuditLogPage", "RegistrationPage", "IPRecordsPage",
            "UnusedIPsPage", "SubnetsPage", "NetworkScanPage", "PaloAltoPage", "DashboardPage",
            "IntegrationsPage", "VaultPage"}
      /\ \A p \in DOMAIN s8 : s9[p] = s8[p]
      /\ s9.VaultPage = VaultSpinners.VaultPage
  BY <1>9, <1>24, <1>25 DEF ++
<1>27. PICK s10 : s10 = s9 ++ FilesSpinners
  OBVIOUS
<1>28. /\ DOMAIN s10 =
           {"UsersPage", "PendingApprovalsPage", "AuditLogPage", "RegistrationPage", "IPRecordsPage",
            "UnusedIPsPage", "SubnetsPage", "NetworkScanPage", "PaloAltoPage", "DashboardPage",
            "IntegrationsPage", "VaultPage", "FilesPage", "SharePage", "UploadRequestPage"}
      /\ \A p \in DOMAIN s9 : s10[p] = s9[p]
      /\ s10.FilesPage = FilesSpinners.FilesPage
      /\ s10.SharePage = FilesSpinners.SharePage
      /\ s10.UploadRequestPage = FilesSpinners.UploadRequestPage
  BY <1>10, <1>26, <1>27 DEF ++
<1>29. Spinners = s10
  BY <1>11, <1>13, <1>15, <1>17, <1>19, <1>21, <1>23, <1>25, <1>27 DEF Spinners
<1> QED
  BY <1>1, <1>29, <1>12, <1>14, <1>16, <1>18, <1>20, <1>22, <1>24, <1>26, <1>28

LEMMA TablesAt ==
    /\ Required.UsersPage = UsersRequired /\ OfferedToAll.UsersPage = {}
    /\ Required.PendingApprovalsPage = UsersRequired /\ OfferedToAll.PendingApprovalsPage = {}
    /\ Required.AuditLogPage = UsersRequired /\ OfferedToAll.AuditLogPage = {}
    /\ Required.RegistrationPage = UsersRequired /\ OfferedToAll.RegistrationPage = {}
    /\ Required.IPRecordsPage = RecordsRequired
           /\ OfferedToAll.IPRecordsPage = {"handleExport", "fetchDuplicates", "runScan"}
    /\ Required.UnusedIPsPage = UnusedIPsRequired /\ OfferedToAll.UnusedIPsPage = {}
    /\ Required.SubnetsPage = SubnetsRequired /\ OfferedToAll.SubnetsPage = {}
    /\ Required.NetworkScanPage = NetworkScanRequired
           /\ OfferedToAll.NetworkScanPage = {"handleImport", "createSubnet"}
    /\ Required.PaloAltoPage = PaloAltoRequired /\ OfferedToAll.PaloAltoPage = {"runCrossCheck"}
    /\ Required.DashboardPage = DashboardRequired /\ OfferedToAll.DashboardPage = {"fetchDuplicates", "runScan"}
    /\ Required.IntegrationsPage = IntegrationsRequired /\ OfferedToAll.IntegrationsPage = {}
    /\ Required.VaultPage = VaultRequired /\ OfferedToAll.VaultPage = {"createShare", "revokeShare"}
    /\ Required.FilesPage = FilesRequired /\ OfferedToAll.FilesPage = {"createFileShare", "revokeFileShare"}
    /\ Required.SharePage = FilesRequired /\ OfferedToAll.SharePage = {}
    /\ Required.UploadRequestPage = FilesRequired /\ OfferedToAll.UploadRequestPage = {}
<1>1. /\ DOMAIN UsersSpinners = {"UsersPage", "PendingApprovalsPage", "AuditLogPage", "RegistrationPage"}
      /\ DOMAIN FilesSpinners = {"FilesPage", "SharePage", "UploadRequestPage"}
  BY DEF UsersSpinners, FilesSpinners
<1>2. Required.UsersPage = UsersRequired
  BY <1>1 DEF Required, ++
<1>3. OfferedToAll.UsersPage = {}
  BY SpinnersAt DEF OfferedToAll
<1>4. Required.PendingApprovalsPage = UsersRequired
  BY <1>1 DEF Required, ++
<1>5. OfferedToAll.PendingApprovalsPage = {}
  BY SpinnersAt DEF OfferedToAll
<1>6. Required.AuditLogPage = UsersRequired
  BY <1>1 DEF Required, ++
<1>7. OfferedToAll.AuditLogPage = {}
  BY SpinnersAt DEF OfferedToAll
<1>8. Required.RegistrationPage = UsersRequired
  BY <1>1 DEF Required, ++
<1>9. OfferedToAll.RegistrationPage = {}
  BY SpinnersAt DEF OfferedToAll
<1>10. Required.IPRecordsPage = RecordsRequired
  BY <1>1 DEF Required, ++
<1>11. OfferedToAll.IPRecordsPage = {"handleExport", "fetchDuplicates", "runScan"}
  BY SpinnersAt DEF OfferedToAll
<1>12. Required.UnusedIPsPage = UnusedIPsRequired
  BY <1>1 DEF Required, ++
<1>13. OfferedToAll.UnusedIPsPage = {}
  BY SpinnersAt DEF OfferedToAll
<1>14. Required.SubnetsPage = SubnetsRequired
  BY <1>1 DEF Required, ++
<1>15. OfferedToAll.SubnetsPage = {}
  BY SpinnersAt DEF OfferedToAll
<1>16. Required.NetworkScanPage = NetworkScanRequired
  BY <1>1 DEF Required, ++
<1>17. OfferedToAll.NetworkScanPage = {"handleImport", "createSubnet"}
  BY SpinnersAt DEF OfferedToAll
<1>18. Required.PaloAltoPage = PaloAltoRequired
  BY <1>1 DEF Required, ++
<1>19. OfferedToAll.PaloAltoPage = {"runCrossCheck"}
  BY SpinnersAt DEF OfferedToAll
<1>20. Required.DashboardPage = DashboardRequired
  BY <1>1 DEF Required, ++
<1>21. OfferedToAll.DashboardPage = {"fetchDuplicates", "runScan"}
  BY SpinnersAt DEF OfferedToAll
<1>22. Required.IntegrationsPage = IntegrationsRequired
  BY <1>1 DEF Required, ++
<1>23. OfferedToAll.IntegrationsPage = {}
  BY SpinnersAt DEF OfferedToAll
<1>24. Required.VaultPage = VaultRequired
  BY <1>1 DEF Required, ++
<1>25. OfferedToAll.VaultPage = {"createShare", "revokeShare"}
  BY SpinnersAt DEF OfferedToAll
<1>26. Required.FilesPage = FilesRequired
  BY <1>1 DEF Required, ++
<1>27. OfferedToAll.FilesPage = {"createFileShare", "revokeFileShare"}
  BY SpinnersAt DEF OfferedToAll
<1>28. Required.SharePage = FilesRequired
  BY <1>1 DEF Required, ++
<1>29. OfferedToAll.SharePage = {}
  BY SpinnersAt DEF OfferedToAll
<1>30. Required.UploadRequestPage = FilesRequired
  BY <1>1 DEF Required, ++
<1>31. OfferedToAll.UploadRequestPage = {}
  BY SpinnersAt DEF OfferedToAll
<1> QED
  BY <1>2, <1>3, <1>4, <1>5, <1>6, <1>7, <1>8, <1>9, <1>10, <1>11, <1>12, <1>13, <1>14, <1>15, <1>16, <1>17,
     <1>18, <1>19, <1>20, <1>21, <1>22, <1>23, <1>24, <1>25, <1>26, <1>27, <1>28, <1>29, <1>30, <1>31

LEMMA PageSays ==
    ASSUME AppInv
    PROVE  /\ Lit(Spinners[ui.page]) /\ Single(Spinners[ui.page])
           /\ Allowed(Required[ui.page], OfferedToAll[ui.page])
<1>1. CASE UsersSound
  <2>1. ui.page = "UsersPage"
    BY <1>1 DEF UsersSound, Page
  <2>2. /\ Spinners[ui.page] = UsersSpinners.UsersPage
        /\ Required[ui.page] = UsersRequired /\ OfferedToAll[ui.page] = {}
    BY <2>1, SpinnersAt, TablesAt
  <2> QED
    BY <1>1, <2>2, UsersSays
<1>2. CASE PendingSound
  <2>1. ui.page = "PendingApprovalsPage"
    BY <1>2 DEF PendingSound, Page
  <2>2. /\ Spinners[ui.page] = UsersSpinners.PendingApprovalsPage
        /\ Required[ui.page] = UsersRequired /\ OfferedToAll[ui.page] = {}
    BY <2>1, SpinnersAt, TablesAt
  <2> QED
    BY <1>2, <2>2, PendingSays
<1>3. CASE AuditLogSound
  <2>1. ui.page = "AuditLogPage"
    BY <1>3 DEF AuditLogSound, Page
  <2>2. /\ Spinners[ui.page] = UsersSpinners.AuditLogPage
        /\ Required[ui.page] = UsersRequired /\ OfferedToAll[ui.page] = {}
    BY <2>1, SpinnersAt, TablesAt
  <2> QED
    BY <1>3, <2>2, AuditLogSays
<1>4. CASE RegistrationSound
  <2>1. ui.page = "RegistrationPage"
    BY <1>4 DEF RegistrationSound, Page
  <2>2. /\ Spinners[ui.page] = UsersSpinners.RegistrationPage
        /\ Required[ui.page] = UsersRequired /\ OfferedToAll[ui.page] = {}
    BY <2>1, SpinnersAt, TablesAt
  <2> QED
    BY <1>4, <2>2, RegistrationSays
<1>5. CASE RecordsSound
  <2>1. ui.page = "IPRecordsPage"
    BY <1>5 DEF RecordsSound, RecordsTable, Page
  <2>2. /\ Spinners[ui.page] = RecordsSpinners.IPRecordsPage
        /\ Required[ui.page] = RecordsRequired
               /\ OfferedToAll[ui.page] = {"handleExport", "fetchDuplicates", "runScan"}
    BY <2>1, SpinnersAt, TablesAt
  <2> QED
    BY <1>5, <2>2, RecordsSays
<1>6. CASE UnusedIPsSound
  <2>1. ui.page = "UnusedIPsPage"
    BY <1>6 DEF UnusedIPsSound, Page
  <2>2. /\ Spinners[ui.page] = UnusedIPsSpinners.UnusedIPsPage
        /\ Required[ui.page] = UnusedIPsRequired /\ OfferedToAll[ui.page] = {}
    BY <2>1, SpinnersAt, TablesAt
  <2> QED
    BY <1>6, <2>2, UnusedIPsSays
<1>7. CASE SubnetsSound
  <2>1. ui.page = "SubnetsPage"
    BY <1>7 DEF SubnetsSound, SubnetsTree, Page
  <2>2. /\ Spinners[ui.page] = SubnetsSpinners.SubnetsPage
        /\ Required[ui.page] = SubnetsRequired /\ OfferedToAll[ui.page] = {}
    BY <2>1, SpinnersAt, TablesAt
  <2> QED
    BY <1>7, <2>2, SubnetsSays
<1>8. CASE NetworkScanSound
  <2>1. ui.page = "NetworkScanPage"
    BY <1>8 DEF NetworkScanSound, Page
  <2>2. /\ Spinners[ui.page] = NetworkScanSpinners.NetworkScanPage
        /\ Required[ui.page] = NetworkScanRequired /\ OfferedToAll[ui.page] = {"handleImport", "createSubnet"}
    BY <2>1, SpinnersAt, TablesAt
  <2> QED
    BY <1>8, <2>2, NetworkScanSays
<1>9. CASE PaloAltoSound
  <2>1. ui.page = "PaloAltoPage"
    BY <1>9 DEF PaloAltoSound, PaloAltoChecks, Page
  <2>2. /\ Spinners[ui.page] = PaloAltoSpinners.PaloAltoPage
        /\ Required[ui.page] = PaloAltoRequired /\ OfferedToAll[ui.page] = {"runCrossCheck"}
    BY <2>1, SpinnersAt, TablesAt
  <2> QED
    BY <1>9, <2>2, PaloAltoSays
<1>10. CASE DashboardSound
  <2>1. ui.page = "DashboardPage"
    BY <1>10 DEF DashboardSound, DashboardFrame, Page
  <2>2. /\ Spinners[ui.page] = DashboardSpinners.DashboardPage
        /\ Required[ui.page] = DashboardRequired /\ OfferedToAll[ui.page] = {"fetchDuplicates", "runScan"}
    BY <2>1, SpinnersAt, TablesAt
  <2> QED
    BY <1>10, <2>2, DashboardSays
<1>11. CASE IntegrationsSound
  <2>1. ui.page = "IntegrationsPage"
    BY <1>11 DEF IntegrationsSound, Page
  <2>2. /\ Spinners[ui.page] = IntegrationsSpinners.IntegrationsPage
        /\ Required[ui.page] = IntegrationsRequired /\ OfferedToAll[ui.page] = {}
    BY <2>1, SpinnersAt, TablesAt
  <2> QED
    BY <1>11, <2>2, IntegrationsSays
<1>12. CASE VaultSound
  <2>1. ui.page = "VaultPage"
    BY <1>12 DEF VaultSound, VaultFrame, Page
  <2>2. /\ Spinners[ui.page] = VaultSpinners.VaultPage
        /\ Required[ui.page] = VaultRequired /\ OfferedToAll[ui.page] = {"createShare", "revokeShare"}
    BY <2>1, SpinnersAt, TablesAt
  <2> QED
    BY <1>12, <2>2, VaultSays
<1>13. CASE FilesSound
  <2>1. ui.page = "FilesPage"
    BY <1>13 DEF FilesSound, FilesFrame, Page
  <2>2. /\ Spinners[ui.page] = FilesSpinners.FilesPage
        /\ Required[ui.page] = FilesRequired /\ OfferedToAll[ui.page] = {"createFileShare", "revokeFileShare"}
    BY <2>1, SpinnersAt, TablesAt
  <2> QED
    BY <1>13, <2>2, FilesPageSays
<1>14. CASE SharePageSound
  <2>1. ui.page = "SharePage"
    BY <1>14 DEF SharePageSound, Page
  <2>2. /\ Spinners[ui.page] = FilesSpinners.SharePage
        /\ Required[ui.page] = FilesRequired /\ OfferedToAll[ui.page] = {}
    BY <2>1, SpinnersAt, TablesAt
  <2> QED
    BY <1>14, <2>2, SharePageSays
<1>15. CASE UploadRequestSound
  <2>1. ui.page = "UploadRequestPage"
    BY <1>15 DEF UploadRequestSound, Page
  <2>2. /\ Spinners[ui.page] = FilesSpinners.UploadRequestPage
        /\ Required[ui.page] = FilesRequired /\ OfferedToAll[ui.page] = {}
    BY <2>1, SpinnersAt, TablesAt
  <2> QED
    BY <1>15, <2>2, UploadRequestSays
<1> QED
  BY <1>1, <1>2, <1>3, <1>4, <1>5, <1>6, <1>7, <1>8, <1>9, <1>10, <1>11, <1>12, <1>13, <1>14, <1>15
     DEF AppInv, PageSound

\* No page waits for nothing: each way out of each handler that turns a spinner
\* on turns it off, or leaves a request that will.
THEOREM NoDeadSpinners == Spec => []NoDeadSpinner
<1>1. ASSUME AppInv PROVE NoDeadSpinner
  <2>1. Lit(Spinners[ui.page])
    BY <1>1, PageSays
  <2> QED
    BY <2>1 DEF Lit, NoDeadSpinner, InFlight, sent, Fns
<1> QED
  BY <1>1, AppSound, PTL

\* A guarded command is not sent again while it is under way, by a second click,
\* from a dialog opened anew, or by the tail of another handler.
THEOREM CommandsSentOnce == Spec => []SentOnce
<1>1. ASSUME AppInv PROVE SentOnce
  <2>1. HasFn(calls) /\ Single(Spinners[ui.page])
    BY <1>1, PageSays DEF AppInv
  <2> QED
    BY <2>1, AloneOnce DEF Single, SentOnce
<1> QED
  BY <1>1, AppSound, PTL

\* The pages ask the server for nothing it refuses to the role of the session,
\* the commands aside that they offer to everyone: canEdit, canDelete and the
\* like hide each way to the others.
THEOREM RolesObserved == Spec => []AllowedByServer
<1>1. ASSUME AppInv PROVE AllowedByServer
  <2>1. Allowed(Required[ui.page], OfferedToAll[ui.page])
    BY <1>1, PageSays
  <2> QED
    BY <2>1 DEF Allowed, AllowedByServer, sent, Fns
<1> QED
  BY <1>1, AppSound, PTL
==============================================================================
