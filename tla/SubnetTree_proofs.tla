---------------------------- MODULE SubnetTree_proofs ----------------------------
(***************************************************************************)
(* Proofs about the tree of subnets, for any networks, VRFs and requests   *)
(* under way: the types, that a parent contains its children whatever runs *)
(* at the same time, and that no subnet is left between another one and    *)
(* its parent while requests come one at a time.                           *)
(***************************************************************************)
EXTENDS SubnetTree, FiniteSetTheorems, WellFoundedInduction, TLAPS

Pcs == {"idle", "parent", "insert", "siblings", "reparent", "import", "count", "delete",
        "record", "vrf"}
Subnet == [state: {"unborn", "live", "deleted"}, cidr: Cidrs, vrf: Vrfs \union {Global},
           parent: Ids \union {None}]

\* Where a request goes on with a subnet, it has its id.
Request ==
    {r \in [pc: Pcs, cidr: Cidrs, vrf: Vrfs \union {Global}, id: Ids \union {None},
            parent: Ids \union {None}, todo: SUBSET Ids] :
       r.pc \in {"siblings", "reparent", "count", "delete", "record"} => r.id \in Ids}

Typed ==
    /\ docs \in [Ids -> Subnet] /\ used \in SUBSET Ids /\ vrfs \in SUBSET Vrfs
    /\ work \in [Workers -> Request] /\ calm \in BOOLEAN /\ plan \in Plans

-----------------------------------------------------------------------------
(* Types *)

LEMMA RestIsRequest == Rest \in Request /\ Rest.pc = "idle" /\ Rest.parent = None
  BY SubnetTreeAssumption DEF Rest, Request, Pcs

LEMMA PlanIsPlan ==
    ASSUME Typed
    PROVE  plan.cidrs \subseteq Cidrs /\ plan.vrfs \subseteq Vrfs
           /\ Scopes \subseteq Vrfs \union {Global}
  BY SubnetTreeAssumption DEF Typed, Scopes

LEMMA InitTyped == Init => Typed
  <1> SUFFICES ASSUME Init PROVE Typed
    OBVIOUS
  <1>1. NoSubnet \in Subnet
    BY SubnetTreeAssumption DEF NoSubnet, Subnet
  <1>2. plan.vrfs \subseteq Vrfs
    BY SubnetTreeAssumption DEF Init
  <1> QED BY <1>1, <1>2, RestIsRequest DEF Init, Typed

\* How a request begins, at one of pcs: the parent of a new subnet is yet to be
\* looked for, unless parents may be named; a subnet to be deleted has no child.
Started(w, pcs) ==
    /\ work[w].pc = "idle"
    /\ UNCHANGED <<docs, used, vrfs>>
    /\ \E r \in Request :
         /\ work' = [work EXCEPT ![w] = r]
         /\ r.pc \in pcs
         /\ r.pc = "insert" => "explicit" \in plan.uses /\ r.parent \in Ids /\ docs[r.parent].state # "unborn"
         /\ r.pc = "import" => r.parent = None
         /\ r.pc = "count" => r.id \in Live /\ ~\E j \in Live : docs[j].parent = r.id

Quiet(w) == CreateStep(w) \/ DeleteStep(w) \/ RecordStep(w)
QuietStarts == {"parent", "count", "record", "vrf"}

\* The steps that go on with a request.
QuietGoesOn(w) ==
    \/ FindParent(w) \/ InsertSubnet(w) \/ FindSiblings(w) \/ Reparent(w)
    \/ CountRecords(w) \/ Delete(w) \/ DeleteVrf(w) \/ InsertRecord(w)

LEMMA BeginStarts ==
    ASSUME Typed, NEW w \in Workers, NEW n \in plan.cidrs, NEW v \in Scopes,
           NEW p \in Ids \union {None}, NEW pc \in {"parent", "insert"},
           pc = "insert" => "explicit" \in plan.uses /\ p \in Ids /\ docs[p].state # "unborn",
           Begin(w, n, v, pc, p)
    PROVE  Started(w, {pc})
  <1> DEFINE r == [Rest EXCEPT !.pc = pc, !.cidr = n, !.vrf = v, !.parent = p]
  <1>1. r \in Request /\ r.pc = pc /\ r.parent = p
    BY RestIsRequest, PlanIsPlan DEF Request, Pcs
  <1>2. work' = [work EXCEPT ![w] = r] /\ work[w].pc = "idle" /\ UNCHANGED <<docs, used, vrfs>>
    BY DEF Begin
  <1> HIDE DEF r
  <1> QED BY <1>1, <1>2 DEF Started

LEMMA QuietIs ==
    ASSUME Typed, NEW w \in Workers, Quiet(w)
    PROVE  QuietGoesOn(w) \/ Started(w, QuietStarts)
  <1>1. ASSUME NEW n \in plan.cidrs, NEW v \in Scopes, StartCreate(w, n, v)
        PROVE  Started(w, QuietStarts)
    <2>1. Started(w, {"parent"})
      BY <1>1, BeginStarts DEF StartCreate
    <2> QED BY <2>1 DEF Started, QuietStarts
  <1>2. ASSUME NEW i \in Ids, StartDelete(w, i)
        PROVE  Started(w, QuietStarts)
    <2> DEFINE r == [Rest EXCEPT !.pc = "count", !.id = i]
    <2>1. r \in Request /\ r.pc = "count" /\ r.id = i
      BY RestIsRequest DEF Request, Pcs
    <2>2. work' = [work EXCEPT ![w] = r] /\ work[w].pc = "idle" /\ UNCHANGED <<docs, used, vrfs>>
          /\ i \in Live /\ ~\E j \in Live : docs[j].parent = i
      BY <1>2 DEF StartDelete
    <2> HIDE DEF r
    <2> QED BY <2>1, <2>2 DEF Started, QuietStarts
  <1>3. ASSUME NEW i \in Ids, StartRecord(w, i)
        PROVE  Started(w, QuietStarts)
    <2> DEFINE r == [Rest EXCEPT !.pc = "record", !.id = i]
    <2>1. r \in Request /\ r.pc = "record"
      BY RestIsRequest DEF Request, Pcs
    <2>2. work' = [work EXCEPT ![w] = r] /\ work[w].pc = "idle" /\ UNCHANGED <<docs, used, vrfs>>
      BY <1>3 DEF StartRecord
    <2> HIDE DEF r
    <2> QED BY <2>1, <2>2 DEF Started, QuietStarts
  <1>4. ASSUME NEW v \in Vrfs, StartDeleteVrf(w, v)
        PROVE  Started(w, QuietStarts)
    <2> DEFINE r == [Rest EXCEPT !.pc = "vrf", !.vrf = v]
    <2>1. r \in Request /\ r.pc = "vrf"
      BY RestIsRequest DEF Request, Pcs
    <2>2. work' = [work EXCEPT ![w] = r] /\ work[w].pc = "idle" /\ UNCHANGED <<docs, used, vrfs>>
      BY <1>4 DEF StartDeleteVrf
    <2> HIDE DEF r
    <2> QED BY <2>1, <2>2 DEF Started, QuietStarts
  <1> QED BY <1>1, <1>2, <1>3, <1>4 DEF Quiet, QuietGoesOn, CreateStep, DeleteStep, RecordStep

\* The loose steps: those that begin, and those that change a subnet or end.
LEMMA LooseIs ==
    ASSUME Typed, NEW w \in Workers, LooseStep(w)
    PROVE  \/ Started(w, {"insert", "import"})
           \/ ImportSubnet(w) \/ Fail(w) \/ \E i \in Ids, v \in Scopes : MoveVrf(i, v)
  <1>1. ASSUME NEW n \in plan.cidrs, NEW v \in Scopes, NEW p \in Ids, StartCreateUnder(w, n, v, p)
        PROVE  Started(w, {"insert", "import"})
    <2>1. Started(w, {"insert"})
      BY <1>1, BeginStarts DEF StartCreateUnder
    <2> QED BY <2>1 DEF Started
  <1>2. ASSUME NEW n \in plan.cidrs, StartImport(w, n)
        PROVE  Started(w, {"insert", "import"})
    <2> DEFINE r == [Rest EXCEPT !.pc = "import", !.cidr = n]
    <2>1. r \in Request /\ r.pc = "import" /\ r.parent = None
      BY RestIsRequest, PlanIsPlan DEF Request, Pcs
    <2>2. work' = [work EXCEPT ![w] = r] /\ work[w].pc = "idle" /\ UNCHANGED <<docs, used, vrfs>>
      BY <1>2 DEF StartImport
    <2> HIDE DEF r
    <2> QED BY <2>1, <2>2 DEF Started
  <1> QED BY <1>1, <1>2 DEF LooseStep

LEMMA RequestMoves ==
    ASSUME NEW r \in Request
    PROVE  /\ \A p \in Ids \union {None} : [r EXCEPT !.pc = "insert", !.parent = p] \in Request
           /\ \A i \in Ids : [r EXCEPT !.pc = "siblings", !.id = i] \in Request
           /\ r.id \in Ids => \A todo \in SUBSET Ids :
                [r EXCEPT !.pc = "reparent", !.todo = todo] \in Request
           /\ r.id \in Ids => [r EXCEPT !.pc = "delete"] \in Request
  BY DEF Request, Pcs

\* What a step does to the documents and to its own request, as to types.
Keeps == /\ docs' \in [Ids -> Subnet] /\ used' \in SUBSET Ids /\ vrfs' \in SUBSET Vrfs
         /\ work' \in [Workers -> Request]

LEMMA FinishTyped ==
    ASSUME Typed, NEW w \in Workers, Finish(w)
    PROVE  work' \in [Workers -> Request]
  BY RestIsRequest DEF Finish, Typed

LEMMA InsertTyped ==
    ASSUME Typed, NEW w \in Workers, NEW from, NEW next \in {"siblings", "idle"},
           Insert(w, from, next)
    PROVE  Keeps
  <1>0. docs \in [Ids -> Subnet] /\ work \in [Workers -> Request]
    BY DEF Typed
  <1>1. CASE UNCHANGED docs /\ Finish(w)
    BY <1>1, FinishTyped DEF Insert, Typed, Keeps
  <1>2. CASE ~(UNCHANGED docs /\ Finish(w))
    <2> DEFINE new == [state |-> "live", cidr |-> work[w].cidr, vrf |-> work[w].vrf,
                       parent |-> work[w].parent]
    <2>1. PICK i \in Ids : /\ docs' = [docs EXCEPT ![i] = new]
                           /\ IF next = "idle" THEN Finish(w)
                              ELSE work' = [work EXCEPT ![w].pc = next, ![w].id = i]
      BY <1>2 DEF Insert
    <2>2. new \in Subnet
      BY <1>0 DEF Request, Subnet
    <2>3. work' \in [Workers -> Request]
      <3>1. CASE next = "idle"
        BY <2>1, <3>1, FinishTyped
      <3>2. CASE next = "siblings"
        <4>1. next # "idle"
          BY <3>2
        <4>2. work' = [work EXCEPT ![w].pc = "siblings", ![w].id = i]
          BY <2>1, <3>2, <4>1, Zenon
        <4> QED BY <1>0, <4>2, RequestMoves
      <3> QED BY <3>1, <3>2
    <2> HIDE DEF new
    <2> QED BY <1>0, <2>1, <2>2, <2>3 DEF Insert, Typed, Keeps
  <1> QED BY <1>1, <1>2

LEMMA QuietGoesOnTyped ==
    ASSUME Typed, NEW w \in Workers, QuietGoesOn(w)
    PROVE  Keeps
  <1>0. docs \in [Ids -> Subnet] /\ work \in [Workers -> Request] /\ Live \subseteq Ids
    BY DEF Typed, Live
  <1>1. CASE FindParent(w)
    <2>1. PICK p \in Ids \union {None} :
            work' = [work EXCEPT ![w].pc = "insert", ![w].parent = p]
      BY <1>0, <1>1 DEF FindParent, In
    <2> QED BY <1>0, <1>1, <2>1, RequestMoves DEF FindParent, Typed, Keeps
  <1>2. CASE InsertSubnet(w)
    BY <1>2, InsertTyped DEF InsertSubnet
  <1>3. CASE FindSiblings(w)
    <2>1. CASE Finish(w)
      BY <1>3, <2>1, FinishTyped DEF FindSiblings, Typed, Keeps
    <2>2. CASE ~Finish(w)
      <3>1. PICK todo \in SUBSET Ids :
              work' = [work EXCEPT ![w].pc = "reparent", ![w].todo = todo]
        <4>1. {i \in In(work[w].vrf) \ {work[w].id} : /\ docs[i].parent = work[w].parent
                                                     /\ Inside(docs[i].cidr, work[w].cidr)}
                \in SUBSET Ids
          BY <1>0 DEF In
        <4> QED BY <1>3, <2>2, <4>1 DEF FindSiblings
      <3>2. work[w].id \in Ids
        BY <1>0, <1>3 DEF FindSiblings, Request
      <3> QED BY <1>0, <1>3, <3>1, <3>2, RequestMoves DEF FindSiblings, Typed, Keeps
    <2> QED BY <2>1, <2>2
  <1>4. CASE Reparent(w)
    <2>1. work[w].id \in Ids
      BY <1>0, <1>4 DEF Reparent, Request
    <2>2. \A i \in Ids : [docs[i] EXCEPT !.parent = work[w].id] \in Subnet
      BY <1>0, <2>1 DEF Subnet
    <2> QED BY <1>0, <1>4, <2>2, FinishTyped DEF Reparent, Typed, Keeps
  <1>5. CASE CountRecords(w)
    <2>1. work[w].id \in Ids
      BY <1>0, <1>5 DEF CountRecords, Request
    <2>2. CASE Finish(w)
      BY <1>0, <1>5, <2>2, FinishTyped DEF CountRecords, Typed, Keeps
    <2>3. CASE Goto(w, "delete")
      <3> DEFINE r == [work[w] EXCEPT !.pc = "delete"]
      <3>1. r \in Request
        BY <1>0, <2>1, RequestMoves
      <3>2. work' = [work EXCEPT ![w] = r]
        BY <2>3 DEF Goto
      <3> HIDE DEF r
      <3>3. work' \in [Workers -> Request]
        BY <1>0, <3>1, <3>2
      <3> QED BY <1>0, <1>5, <3>3 DEF CountRecords, Typed, Keeps
    <2> QED BY <1>5, <2>2, <2>3 DEF CountRecords
  <1>6. CASE Delete(w)
    <2>1. \A i \in Ids : [docs[i] EXCEPT !.state = "deleted"] \in Subnet
      BY <1>0 DEF Subnet
    <2> QED BY <1>0, <1>6, <2>1, FinishTyped DEF Delete, Typed, Keeps
  <1>7. CASE DeleteVrf(w)
    BY <1>7, FinishTyped DEF DeleteVrf, Typed, Keeps
  <1>8. CASE InsertRecord(w)
    <2>1. work[w].id \in Ids
      BY <1>0, <1>8 DEF InsertRecord, Request
    <2> QED BY <1>8, <2>1, FinishTyped DEF InsertRecord, Typed, Keeps
  <1> QED BY <1>1, <1>2, <1>3, <1>4, <1>5, <1>6, <1>7, <1>8 DEF QuietGoesOn

LEMMA NextTyped == Typed /\ [Next]_vars => Typed'
  <1> SUFFICES ASSUME Typed, [Next]_vars PROVE Typed'
    OBVIOUS
  <1>0. docs \in [Ids -> Subnet] /\ work \in [Workers -> Request] /\ calm \in BOOLEAN
    BY DEF Typed
  <1>1. ASSUME NEW w \in Workers, NEW pcs, Started(w, pcs)
        PROVE  Keeps
    BY <1>0, <1>1 DEF Started, Typed, Keeps
  <1>2. ASSUME NEW w \in Workers, Quiet(w)
        PROVE  Keeps
    BY <1>1, <1>2, QuietIs, QuietGoesOnTyped
  <1>3. ASSUME NEW w \in Workers, LooseStep(w)
        PROVE  Keeps
    <2>1. CASE Started(w, {"insert", "import"})
      BY <1>1, <2>1
    <2>2. CASE ImportSubnet(w)
      BY <2>2, InsertTyped DEF ImportSubnet
    <2>3. CASE Fail(w)
      BY <2>3, FinishTyped DEF Fail, Typed, Keeps
    <2>4. ASSUME NEW i \in Ids, NEW v \in Scopes, MoveVrf(i, v)
          PROVE  Keeps
      <3>1. [docs[i] EXCEPT !.vrf = v] \in Subnet
        BY <1>0, PlanIsPlan DEF Subnet
      <3> QED BY <1>0, <2>4, <3>1 DEF MoveVrf, Typed, Keeps
    <2> QED BY <1>3, <2>1, <2>2, <2>3, <2>4, LooseIs
  <1>4. ASSUME NEW i \in Ids, DropRecords(i)
        PROVE  Keeps
    BY <1>4 DEF DropRecords, Typed, Keeps
  <1>5. Next => calm' \in BOOLEAN /\ plan' = plan
    BY <1>0, Zenon DEF Next
  <1>6. CASE UNCHANGED vars
    BY <1>6 DEF vars, Typed
  <1>7. CASE Next
    <2>1. Keeps
      BY <1>2, <1>3, <1>4, <1>7 DEF Next, Quiet
    <2> QED BY <1>5, <1>7, <2>1 DEF Keeps, Typed
  <1> QED BY <1>6, <1>7

\* The subnets and the requests under way keep their types (models/subnet.py).
THEOREM SubnetTreeTyped == Spec => []TypeOK
<1>1. Typed => TypeOK
  BY DEF Typed, TypeOK, Subnet, Request, Pcs
<1> QED BY <1>1, InitTyped, NextTyped, PTL DEF Spec


-----------------------------------------------------------------------------
(* A parent contains its children *)

\* The parent of a subnet is or was a subnet, and contains it.
Contained(i) ==
    docs[i].state = "live" /\ docs[i].parent # None =>
        /\ docs[i].parent \in Ids
        /\ docs[docs[i].parent].state # "unborn"
        /\ Inside(docs[i].cidr, docs[docs[i].parent].cidr)

\* What a request knows of the subnets it goes on with stays true, because a
\* subnet keeps its network, and ids are not used twice.
Knows(w) ==
    /\ work[w].pc \in {"insert", "siblings"} /\ work[w].parent # None =>
         /\ work[w].parent \in Ids
         /\ docs[work[w].parent].state # "unborn"
         /\ Inside(work[w].cidr, docs[work[w].parent].cidr)
    /\ work[w].pc \in {"siblings", "reparent"} =>
         /\ docs[work[w].id].state # "unborn"
         /\ docs[work[w].id].cidr = work[w].cidr
    /\ work[w].pc = "reparent" =>
         \A i \in work[w].todo : /\ docs[i].state # "unborn"
                                 /\ Inside(docs[i].cidr, work[w].cidr)
    /\ work[w].pc = "import" => work[w].parent = None

Fit == (\A i \in Ids : Contained(i)) /\ (\A w \in Workers : Knows(w))

ContainInv == "explicit" \notin plan.uses => Fit

\* No subnet changes its network, and none comes back.
Settled ==
    \A i \in Ids : docs[i].state # "unborn" =>
                     docs'[i].state # "unborn" /\ docs'[i].cidr = docs[i].cidr

LEMMA SettledKeepsKnown ==
    ASSUME Typed, Settled, NEW v \in Workers, work'[v] = work[v], Knows(v)
    PROVE  Knows(v)'
  <1>0. work[v] \in Request
    BY DEF Typed
  <1>1. work[v].pc \in {"siblings", "reparent"} => work[v].id \in Ids
    BY <1>0 DEF Request
  <1>2. work[v].todo \subseteq Ids
    BY <1>0 DEF Request
  <1> QED BY <1>1, <1>2 DEF Knows, Settled

\* A step of w that makes no subnet and gives none another parent.
LEMMA StaysFit ==
    ASSUME Typed, Fit, Settled, NEW w \in Workers, Knows(w)',
           \A v \in Workers \ {w} : work'[v] = work[v],
           \A i \in Ids : docs'[i].parent = docs[i].parent
                          /\ (docs'[i].state = "live" => docs[i].state = "live")
    PROVE  Fit'
  <1>1. ASSUME NEW i \in Ids PROVE Contained(i)'
    BY DEF Fit, Contained, Settled
  <1>2. ASSUME NEW v \in Workers PROVE Knows(v)'
    BY SettledKeepsKnown DEF Fit
  <1> QED BY <1>1, <1>2 DEF Fit

\* The new subnet has the parent its request found, or none.
LEMMA InsertFits ==
    ASSUME Typed, Fit, NEW w \in Workers, NEW next \in {"siblings", "idle"},
           NEW from \in {"insert", "import"}, Insert(w, from, next)
    PROVE  Fit'
  <1>0. /\ docs \in [Ids -> Subnet] /\ work \in [Workers -> Request]
        /\ work[w].pc = from /\ None \notin Ids
    BY SubnetTreeAssumption DEF Typed, Insert
  <1>1. CASE UNCHANGED docs /\ Finish(w)
    <2>1. Knows(w)'
      BY <1>0, <1>1, RestIsRequest DEF Finish, Knows
    <2>2. \A v \in Workers \ {w} : work'[v] = work[v]
      BY <1>0, <1>1 DEF Finish
    <2> QED BY <1>1, <2>1, <2>2, StaysFit DEF Settled
  <1>2. CASE ~(UNCHANGED docs /\ Finish(w))
    <2> DEFINE new == [state |-> "live", cidr |-> work[w].cidr, vrf |-> work[w].vrf,
                       parent |-> work[w].parent]
    <2>1. PICK n \in Ids : /\ docs[n].state = "unborn"
                           /\ docs' = [docs EXCEPT ![n] = new]
                           /\ IF next = "idle" THEN Finish(w)
                              ELSE work' = [work EXCEPT ![w].pc = next, ![w].id = n]
      BY <1>2 DEF Insert
    <2>2. \A i \in Ids : docs'[i] = IF i = n THEN new ELSE docs[i]
      BY <1>0, <2>1
    <2>3. new.state = "live" /\ new.cidr = work[w].cidr /\ new.parent = work[w].parent
      OBVIOUS
    <2> HIDE DEF new
    <2>4. Settled
      BY <2>1, <2>2 DEF Settled
    <2>5. work[w].parent # None =>
            /\ work[w].parent \in Ids \ {n} /\ docs[work[w].parent].state # "unborn"
            /\ Inside(work[w].cidr, docs[work[w].parent].cidr)
      BY <1>0, <2>1 DEF Fit, Knows
    <2>6. ASSUME NEW i \in Ids PROVE Contained(i)'
      <3>1. CASE i = n
        BY <2>2, <2>3, <2>5, <3>1 DEF Contained
      <3>2. CASE i # n
        BY <2>1, <2>2, <3>2 DEF Fit, Contained
      <3> QED BY <3>1, <3>2
    <2>7. ASSUME NEW v \in Workers PROVE Knows(v)'
      <3>1. CASE v # w
        <4>1. work'[v] = work[v]
          BY <1>0, <2>1, <3>1 DEF Finish
        <4> QED BY <2>4, <4>1, SettledKeepsKnown DEF Fit
      <3>2. CASE v = w /\ next = "idle"
        <4>1. Finish(w)
          BY <2>1, <3>2, Zenon
        <4> QED BY <1>0, <3>2, <4>1, RestIsRequest DEF Finish, Knows
      <3>3. CASE v = w /\ next = "siblings"
        <4>1. work' = [work EXCEPT ![w].pc = "siblings", ![w].id = n]
          <5>1. next # "idle"
            BY <3>3
          <5> QED BY <2>1, <3>3, <5>1, Zenon
        <4>2. /\ work'[w].pc = "siblings" /\ work'[w].id = n
              /\ work'[w].parent = work[w].parent /\ work'[w].cidr = work[w].cidr
          BY <1>0, <4>1 DEF Request
        <4> QED BY <2>2, <2>3, <2>5, <3>3, <4>2 DEF Knows
      <3> QED BY <3>1, <3>2, <3>3
    <2> QED BY <2>6, <2>7 DEF Fit
  <1> QED BY <1>1, <1>2

LEMMA ReparentFits ==
    ASSUME Typed, Fit, NEW w \in Workers, Reparent(w)
    PROVE  Fit'
  <1>0. docs \in [Ids -> Subnet] /\ work \in [Workers -> Request]
    BY DEF Typed
  <1>1. /\ work[w].id \in Ids /\ docs[work[w].id].state # "unborn"
        /\ docs[work[w].id].cidr = work[w].cidr
        /\ \A i \in work[w].todo : Inside(docs[i].cidr, work[w].cidr)
    BY <1>0 DEF Reparent, Request, Fit, Knows
  <1>2. \A i \in Ids : /\ docs'[i].state = docs[i].state /\ docs'[i].cidr = docs[i].cidr
                       /\ docs'[i].parent = IF i \in work[w].todo \intersect Live
                                            THEN work[w].id ELSE docs[i].parent
    BY <1>0 DEF Reparent, Subnet
  <1>3. ASSUME NEW i \in Ids PROVE Contained(i)'
    BY <1>1, <1>2 DEF Fit, Contained
  <1>4. ASSUME NEW v \in Workers PROVE Knows(v)'
    <2>1. CASE v = w
      BY <1>0, <2>1, RestIsRequest DEF Reparent, Finish, Knows
    <2>2. CASE v # w
      <3>1. work'[v] = work[v] /\ Settled
        BY <1>0, <1>2, <2>2 DEF Reparent, Finish, Settled
      <3> QED BY <3>1, SettledKeepsKnown DEF Fit
    <2> QED BY <2>1, <2>2
  <1> QED BY <1>3, <1>4 DEF Fit

LEMMA QuietFits ==
    ASSUME Typed, Fit, "explicit" \notin plan.uses, NEW w \in Workers, Quiet(w)
    PROVE  Fit'
  <1>0. docs \in [Ids -> Subnet] /\ work \in [Workers -> Request] /\ Live \subseteq Ids
    BY DEF Typed, Live
  <1>1. CASE Started(w, QuietStarts)
    <2>1. Knows(w)' /\ \A v \in Workers \ {w} : work'[v] = work[v]
      BY <1>0, <1>1 DEF Started, QuietStarts, Knows
    <2> QED BY <1>1, <2>1, StaysFit DEF Started, Settled
  <1>2. CASE FindParent(w)
    <2>1. PICK p \in {i \in In(work[w].vrf) : Len[docs[i].cidr] < Len[work[w].cidr]
                                              /\ Inside(work[w].cidr, docs[i].cidr)} \union {None} :
            work' = [work EXCEPT ![w].pc = "insert", ![w].parent = p]
      BY <1>2 DEF FindParent
    <2>2. /\ work'[w].pc = "insert" /\ work'[w].parent = p /\ work'[w].cidr = work[w].cidr
          /\ UNCHANGED docs
      BY <1>0, <1>2, <2>1 DEF FindParent, Request
    <2>3. Knows(w)'
      BY <1>0, <2>2 DEF In, Live, Knows
    <2>4. \A v \in Workers \ {w} : work'[v] = work[v]
      BY <1>0, <2>1
    <2> QED BY <2>2, <2>3, <2>4, StaysFit DEF Settled
  <1>3. CASE InsertSubnet(w)
    BY <1>3, InsertFits DEF InsertSubnet
  <1>4. CASE FindSiblings(w)
    <2> DEFINE mine == {i \in In(work[w].vrf) \ {work[w].id} :
                           /\ docs[i].parent = work[w].parent
                           /\ Inside(docs[i].cidr, work[w].cidr)}
    <2>1. work[w].pc = "siblings" /\ UNCHANGED docs
      BY <1>4 DEF FindSiblings
    <2>2. \A i \in mine : docs[i].state # "unborn" /\ Inside(docs[i].cidr, work[w].cidr)
      BY DEF In, Live
    <2>3. Finish(w) \/ work' = [work EXCEPT ![w].pc = "reparent", ![w].todo = mine]
      BY <1>4 DEF FindSiblings
    <2> HIDE DEF mine
    <2>4. \A v \in Workers \ {w} : work'[v] = work[v]
      BY <1>0, <2>3 DEF Finish
    <2>5. Knows(w)'
      <3>1. CASE Finish(w)
        BY <1>0, <3>1, RestIsRequest DEF Finish, Knows
      <3>2. CASE work' = [work EXCEPT ![w].pc = "reparent", ![w].todo = mine]
        <4>1. /\ work'[w].pc = "reparent" /\ work'[w].todo = mine
              /\ work'[w].cidr = work[w].cidr /\ work'[w].id = work[w].id
          BY <1>0, <3>2 DEF Request
        <4> QED BY <2>1, <2>2, <4>1 DEF Fit, Knows
      <3> QED BY <2>3, <3>1, <3>2
    <2> QED BY <2>1, <2>4, <2>5, StaysFit DEF Settled
  <1>5. CASE Reparent(w)
    BY <1>5, ReparentFits
  <1>6. CASE CountRecords(w) \/ DeleteVrf(w) \/ InsertRecord(w)
    <2>1. Knows(w)' /\ \A v \in Workers \ {w} : work'[v] = work[v]
      BY <1>0, <1>6, RestIsRequest
         DEF CountRecords, DeleteVrf, InsertRecord, Finish, Goto, Knows, Request
    <2> QED BY <1>6, <2>1, StaysFit DEF CountRecords, DeleteVrf, InsertRecord, Settled
  <1>7. CASE Delete(w)
    <2>1. Knows(w)' /\ \A v \in Workers \ {w} : work'[v] = work[v]
      BY <1>0, <1>7, RestIsRequest DEF Delete, Finish, Knows
    <2>2. \A i \in Ids : /\ docs'[i].cidr = docs[i].cidr /\ docs'[i].parent = docs[i].parent
                         /\ docs'[i].state = docs[i].state \/ docs'[i].state = "deleted"
      BY <1>0, <1>7 DEF Delete, Subnet
    <2> QED BY <2>1, <2>2, StaysFit DEF Settled
  <1> QED BY <1>1, <1>2, <1>3, <1>4, <1>5, <1>6, <1>7, QuietIs DEF QuietGoesOn

LEMMA LooseFits ==
    ASSUME Typed, Fit, "explicit" \notin plan.uses, NEW w \in Workers, LooseStep(w)
    PROVE  Fit'
  <1>0. docs \in [Ids -> Subnet] /\ work \in [Workers -> Request]
    BY DEF Typed
  <1>1. CASE Started(w, {"insert", "import"})
    <2>1. Knows(w)' /\ \A v \in Workers \ {w} : work'[v] = work[v]
      BY <1>0, <1>1 DEF Started, Knows
    <2> QED BY <1>1, <2>1, StaysFit DEF Started, Settled
  <1>2. CASE ImportSubnet(w)
    BY <1>2, InsertFits DEF ImportSubnet
  <1>3. CASE Fail(w)
    <2>1. Knows(w)' /\ \A v \in Workers \ {w} : work'[v] = work[v]
      BY <1>0, <1>3, RestIsRequest DEF Fail, Finish, Knows
    <2> QED BY <1>3, <2>1, StaysFit DEF Fail, Settled
  <1>4. ASSUME NEW i \in Ids, NEW v \in Scopes, MoveVrf(i, v)
        PROVE  Fit'
    <2>1. UNCHANGED work /\ Knows(w)
      BY <1>4 DEF MoveVrf, Fit
    <2>2. \A j \in Ids : /\ docs'[j].cidr = docs[j].cidr /\ docs'[j].parent = docs[j].parent
                         /\ docs'[j].state = docs[j].state
      BY <1>0, <1>4 DEF MoveVrf, Subnet
    <2>3. Settled
      BY <2>2 DEF Settled
    <2> QED BY <2>1, <2>2, <2>3, SettledKeepsKnown, StaysFit
  <1> QED BY <1>1, <1>2, <1>3, <1>4, LooseIs

LEMMA NextContains == Typed /\ ContainInv /\ [Next]_vars => ContainInv'
  <1> SUFFICES ASSUME Typed, ContainInv, [Next]_vars, "explicit" \notin plan'.uses PROVE Fit'
    BY DEF ContainInv
  <1>1. plan' = plan
    BY DEF Next, vars
  <1>2. Fit /\ "explicit" \notin plan.uses
    BY <1>1 DEF ContainInv
  <1>3. CASE UNCHANGED <<docs, work>>
    BY <1>2, <1>3 DEF Fit, Contained, Knows
  <1>4. ASSUME NEW i \in Ids, DropRecords(i) PROVE UNCHANGED <<docs, work>>
    BY <1>4 DEF DropRecords
  <1>5. CASE UNCHANGED vars
    BY <1>3, <1>5 DEF vars
  <1> QED BY <1>2, <1>3, <1>4, <1>5, QuietFits, LooseFits DEF Next, Quiet

\* Unless users name parents, the parent of a subnet contains it, whatever runs
\* at the same time (subnet_service.py:118-190).
THEOREM SubnetParentsContain == Spec => []ParentsContain
<1>1. Init => ContainInv
  <2> SUFFICES ASSUME Init PROVE Fit
    BY DEF ContainInv
  <2>1. /\ \A i \in Ids : docs[i].state = "unborn"
        /\ \A w \in Workers : work[w].pc = "idle"
    BY RestIsRequest DEF Init, NoSubnet
  <2> QED BY <2>1 DEF Fit, Contained, Knows
<1>2. Typed /\ ContainInv => ParentsContain
  BY DEF Typed, ContainInv, Fit, Contained, ParentsContain, Live
<1> QED BY <1>1, <1>2, InitTyped, NextTyped, NextContains, PTL DEF Spec


-----------------------------------------------------------------------------
(* No subnet between another one and its parent *)

\* Each network is written one way.
OneSpelling == \A m, n \in Cidrs : Cover[m] = Cover[n] => m = n

\* Networks that share an address nest, the longer prefix inside.
LEMMA Networks ==
    ASSUME NEW l \in Cidrs, NEW m \in Cidrs, NEW n \in Cidrs, Inside(l, m), Inside(l, n)
    PROVE  /\ Len[m] < Len[n] => Inside(n, m) /\ Cover[m] # Cover[n]
           /\ Len[m] = Len[n] => Cover[m] = Cover[n]
           /\ Inside(n, m) /\ Cover[m] # Cover[n] => Len[m] < Len[n]
           /\ Len[m] \in Nat /\ Len[n] \in Nat
  <1>1. Cover[m] \intersect Cover[n] # {}
    BY SubnetTreeAssumption DEF Inside
  <1>2. Len[m] \in Nat /\ Len[n] \in Nat
    BY SubnetTreeAssumption
  <1>3. \/ Len[m] < Len[n] /\ Cover[n] \subseteq Cover[m] /\ Cover[n] # Cover[m]
        \/ Len[n] < Len[m] /\ Cover[m] \subseteq Cover[n] /\ Cover[m] # Cover[n]
        \/ Len[n] = Len[m] /\ Cover[m] = Cover[n]
    BY <1>1, SubnetTreeAssumption
  <1> QED BY <1>2, <1>3, SMTT(30) DEF Inside

\* The index on (vrf_id, cidr) is unique.
Unique == \A i, j \in Live : docs[i].vrf = docs[j].vrf /\ docs[i].cidr = docs[j].cidr => i = j

ParentsLive ==
    \A i \in Live : docs[i].parent # None =>
        /\ docs[i].parent \in In(docs[i].vrf) \ {i}
        /\ Inside(docs[i].cidr, docs[docs[i].parent].cidr)

\* The parent found is the smallest network that contains the new one.
Best(w) ==
    /\ work[w].parent # None =>
         /\ work[w].parent \in In(work[w].vrf)
         /\ Len[docs[work[w].parent].cidr] < Len[work[w].cidr]
         /\ Inside(work[w].cidr, docs[work[w].parent].cidr)
    /\ \A j \in In(work[w].vrf) :
         Len[docs[j].cidr] < Len[work[w].cidr] /\ Inside(work[w].cidr, docs[j].cidr) =>
           work[w].parent # None /\ Len[docs[j].cidr] <= Len[docs[work[w].parent].cidr]

\* The new subnet, and the siblings it is to take over.
Inserted(w) ==
    /\ work[w].id \in In(work[w].vrf)
    /\ docs[work[w].id].cidr = work[w].cidr /\ docs[work[w].id].parent = work[w].parent

Mine(w) ==
    {i \in In(work[w].vrf) \ {work[w].id} : /\ docs[i].parent = work[w].parent
                                            /\ Inside(docs[i].cidr, work[w].cidr)}

Childless(i) == ~\E j \in Live : docs[j].parent = i

\* Of the only request under way: the tree is nested, but for the subnet that
\* is about to take over its children.
Nesting(w) ==
    /\ Unique /\ ParentsLive
    /\ work[w].pc \in {"insert", "siblings", "reparent"} => Best(w)
    /\ work[w].pc \in {"siblings", "reparent"} => Inserted(w)
    /\ work[w].pc = "reparent" => work[w].todo = Mine(w)
    /\ work[w].pc \in {"count", "delete"} => Childless(work[w].id)
    /\ \A i, j \in Live : docs[i].vrf = docs[j].vrf /\ Between(i, j) =>
         work[w].pc \in {"siblings", "reparent"} /\ j = work[w].id

\* What lies inside the new subnet without being its child had the same parent:
\* any other parent would be a smaller network that contains the new one.
LEMMA SiblingsAreAll ==
    ASSUME Typed, OneSpelling, NEW w \in Workers, Nesting(w),
           work[w].pc \in {"siblings", "reparent"},
           NEW i \in In(work[w].vrf), Between(i, work[w].id)
    PROVE  i \in Mine(w)
  <1> DEFINE new == work[w].id
             p == work[w].parent
             q == docs[i].parent
             c(j) == docs[j].cidr
  <1>0. docs \in [Ids -> Subnet] /\ work \in [Workers -> Request] /\ Live \subseteq Ids
        /\ \A j \in Live : c(j) \in Cidrs /\ Len[c(j)] \in Nat
    <2>1. docs \in [Ids -> Subnet] /\ work \in [Workers -> Request] /\ Live \subseteq Ids
      BY DEF Typed, Live
    <2> QED BY <2>1, SubnetTreeAssumption DEF Subnet
  <1>1. /\ i \in Live /\ docs[i].vrf = work[w].vrf
        /\ new \in Live /\ docs[new].vrf = work[w].vrf
        /\ c(new) = work[w].cidr /\ docs[new].parent = p
    BY DEF In, Nesting, Inserted
  <1>2. /\ Inside(c(i), c(new)) /\ Cover[c(i)] # Cover[c(new)]
        /\ q # None => Len[c(new)] > Len[c(q)]
    BY DEF Between
  <1>3. i # new
    BY <1>2
  <1>4. Best(w) /\ Unique /\ ParentsLive
    BY DEF Nesting
  <1> SUFFICES ASSUME q # p PROVE FALSE
    BY <1>1, <1>2, <1>3 DEF Mine
  <1>5. p # None => /\ p \in Live /\ docs[p].vrf = work[w].vrf /\ Inside(c(new), c(p))
                    /\ Len[c(p)] < Len[c(new)]
    BY <1>1, <1>4 DEF Best, In
  <1>6. ASSUME p # None PROVE q # None /\ Len[c(p)] <= Len[c(q)]
    <2>1. p # new
      BY <1>0, <1>1, <1>5, <1>6
    <2>2. ~Between(i, p)
      BY <1>1, <1>5, <1>6, <2>1 DEF Nesting
    <2>3. Inside(c(i), c(p)) /\ Cover[c(i)] # Cover[c(p)]
      BY <1>2, <1>5, <1>6 DEF Inside
    <2>4. q # None /\ ~(Len[c(p)] > Len[c(q)])
      BY <2>2, <2>3 DEF Between
    <2>5. q \in Live
      BY <1>1, <1>4, <2>4 DEF ParentsLive, In
    <2> QED BY <1>0, <1>5, <1>6, <2>4, <2>5
  <1>7. q # None
    BY <1>6
  <1>8. q \in Live /\ docs[q].vrf = work[w].vrf /\ Inside(c(i), c(q))
    BY <1>1, <1>4, <1>7 DEF ParentsLive, In
  <1>9. Len[c(q)] < Len[c(new)] /\ Inside(c(new), c(q))
    <2>1. Len[c(q)] < Len[c(new)]
      BY <1>0, <1>1, <1>2, <1>7, <1>8
    <2> QED BY <1>0, <1>1, <1>2, <1>8, <2>1, Networks
  <1>10. p # None /\ Len[c(q)] <= Len[c(p)]
    BY <1>1, <1>4, <1>8, <1>9 DEF Best, In
  <1>11. Len[c(q)] = Len[c(p)]
    BY <1>0, <1>5, <1>6, <1>8, <1>10
  <1>12. Cover[c(q)] = Cover[c(p)]
    BY <1>0, <1>1, <1>5, <1>8, <1>9, <1>10, <1>11, Networks
  <1>13. c(q) = c(p)
    BY <1>0, <1>5, <1>8, <1>10, <1>12 DEF OneSpelling
  <1> QED BY <1>4, <1>5, <1>8, <1>10, <1>13 DEF Unique

\* What Nesting says of the subnets alone.
LEMMA SameSubnetsNest ==
    ASSUME Typed, NEW w \in Workers, Nesting(w), UNCHANGED docs,
           work'[w].pc \in {"insert", "siblings", "reparent"} => Best(w)',
           work'[w].pc \in {"siblings", "reparent"} => Inserted(w)',
           work'[w].pc = "reparent" => work'[w].todo = Mine(w)',
           work'[w].pc \in {"count", "delete"} => Childless(work'[w].id),
           \/ work[w].pc \notin {"siblings", "reparent"}
           \/ work'[w].pc \in {"siblings", "reparent"} /\ work'[w].id = work[w].id
           \/ \A i \in In(work[w].vrf) : ~Between(i, work[w].id)
    PROVE  Nesting(w)'
  <1>1. Unique' /\ ParentsLive' /\ Live' = Live
    BY DEF Nesting, Unique, ParentsLive, In, Live
  <1>2. \A i, j : Between(i, j)' <=> Between(i, j)
    BY DEF Between, Inside
  <1>3. Childless(work[w].id)' <=> Childless(work'[w].id)
    BY <1>1 DEF Childless
  <1>4. ASSUME NEW i \in Live, NEW j \in Live, docs[i].vrf = docs[j].vrf, Between(i, j)
        PROVE  work'[w].pc \in {"siblings", "reparent"} /\ j = work'[w].id
    <2>1. work[w].pc \in {"siblings", "reparent"} /\ j = work[w].id /\ Inserted(w)
      BY <1>4 DEF Nesting
    <2>2. i \in In(work[w].vrf)
      BY <1>4, <2>1 DEF Inserted, In
    <2> QED BY <1>4, <2>1, <2>2
  <1> QED BY <1>1, <1>2, <1>3, <1>4 DEF Nesting

LEMMA FindParentNests ==
    ASSUME Typed, NEW w \in Workers, Nesting(w), FindParent(w)
    PROVE  Nesting(w)'
  <1> DEFINE found == {i \in In(work[w].vrf) : Len[docs[i].cidr] < Len[work[w].cidr]
                                               /\ Inside(work[w].cidr, docs[i].cidr)}
  <1>0. work \in [Workers -> Request] /\ Live \subseteq Ids /\ None \notin Ids
    BY SubnetTreeAssumption DEF Typed, Live
  <1>1. PICK p \in IF found = {} THEN {None}
                   ELSE {i \in found : \A j \in found : Len[docs[j].cidr] <= Len[docs[i].cidr]} :
          work' = [work EXCEPT ![w].pc = "insert", ![w].parent = p]
    BY DEF FindParent
  <1>2. /\ work'[w].pc = "insert" /\ work'[w].parent = p /\ work'[w].cidr = work[w].cidr
        /\ work'[w].vrf = work[w].vrf
        /\ UNCHANGED docs /\ work[w].pc = "parent"
    BY <1>0, <1>1 DEF FindParent, Request
  <1>3. /\ p # None => p \in found
        /\ \A j \in found : p # None /\ Len[docs[j].cidr] <= Len[docs[p].cidr]
    BY <1>0, <1>1 DEF In
  <1>4. Best(w)'
    BY <1>2, <1>3 DEF Best, In, Live, Inside
  <1> QED BY <1>2, <1>4, SameSubnetsNest

LEMMA InsertNests ==
    ASSUME Typed, NEW w \in Workers, Nesting(w), InsertSubnet(w)
    PROVE  Nesting(w)'
  <1>0. /\ docs \in [Ids -> Subnet] /\ work \in [Workers -> Request] /\ Live \subseteq Ids
        /\ work[w].pc = "insert" /\ None \notin Ids
    BY SubnetTreeAssumption DEF Typed, Live, InsertSubnet, Insert
  <1>1. CASE UNCHANGED docs /\ Finish(w)
    <2>1. work'[w].pc = "idle"
      BY <1>0, <1>1, RestIsRequest DEF Finish
    <2> QED BY <1>0, <1>1, <2>1, SameSubnetsNest
  <1>2. CASE ~(UNCHANGED docs /\ Finish(w))
    <2> DEFINE new == [state |-> "live", cidr |-> work[w].cidr, vrf |-> work[w].vrf,
                       parent |-> work[w].parent]
               p == work[w].parent
    <2>1. PICK n \in Ids : /\ docs[n].state = "unborn"
                           /\ docs' = [docs EXCEPT ![n] = new]
                           /\ work' = [work EXCEPT ![w].pc = "siblings", ![w].id = n]
      BY <1>2 DEF InsertSubnet, Insert
    <2>2. ~Taken(work[w].cidr, work[w].vrf)
      BY <1>2 DEF InsertSubnet, Insert
    <2>3. \A i \in Ids : docs'[i] = IF i = n THEN new ELSE docs[i]
      BY <1>0, <2>1
    <2>4. new.state = "live" /\ new.cidr = work[w].cidr /\ new.parent = p /\ new.vrf = work[w].vrf
      OBVIOUS
    <2> HIDE DEF new
    <2>5. Live' = Live \union {n} /\ n \notin Live
      BY <1>0, <2>1, <2>3, <2>4 DEF Live
    <2>6. \A i \in Live : docs'[i] = docs[i]
      BY <1>0, <2>1, <2>3 DEF Live
    <2>7. /\ work'[w].pc = "siblings" /\ work'[w].id = n /\ work'[w].parent = p
          /\ work'[w].cidr = work[w].cidr /\ work'[w].vrf = work[w].vrf
      BY <1>0, <2>1 DEF Request
    <2>8. docs'[n] = new
      BY <2>3
    <2>9. Best(w) /\ Unique /\ ParentsLive /\ work[w].cidr \in Cidrs
      BY <1>0 DEF Nesting, Request
    <2>10. Unique'
      BY <2>2, <2>4, <2>5, <2>6, <2>8, <2>9 DEF Unique, Taken, In
    <2>11. ParentsLive'
      BY <2>4, <2>5, <2>6, <2>8, <2>9 DEF ParentsLive, Best, In, Inside
    <2>12. Best(w)'
      <3>1. ~(Len[work[w].cidr] < Len[work[w].cidr])
        BY <2>9, SubnetTreeAssumption
      <3> QED BY <2>4, <2>5, <2>6, <2>7, <2>8, <2>9, <3>1 DEF Best, In, Inside
    <2>13. Inserted(w)'
      BY <2>4, <2>5, <2>7, <2>8 DEF Inserted, In
    <2>14. ASSUME NEW i \in Live', NEW j \in Live', docs'[i].vrf = docs'[j].vrf, Between(i, j)'
           PROVE  j = n
      <3> SUFFICES ASSUME j # n PROVE FALSE
        OBVIOUS
      <3>1. j \in Live /\ docs'[j] = docs[j] /\ docs[j].cidr \in Cidrs
        BY <1>0, <2>5, <2>6 DEF Subnet
      <3>2. CASE i # n
        <4>1. i \in Live /\ docs'[i] = docs[i]
          BY <2>5, <2>6, <3>2
        <4>2. docs[i].parent # None => docs[i].parent \in Live
          BY <2>9, <4>1 DEF ParentsLive, In
        <4>3. Between(i, j)
          BY <2>6, <2>14, <3>1, <4>1, <4>2 DEF Between, Inside
        <4> QED BY <1>0, <2>14, <3>1, <4>1, <4>3 DEF Nesting
      <3>3. CASE i = n
        <4>1. /\ Inside(work[w].cidr, docs[j].cidr) /\ Cover[work[w].cidr] # Cover[docs[j].cidr]
              /\ docs[j].vrf = work[w].vrf
          BY <2>4, <2>8, <2>14, <3>1, <3>3 DEF Between, Inside
        <4>2. Inside(work[w].cidr, work[w].cidr)
          BY DEF Inside
        <4>3. Len[docs[j].cidr] < Len[work[w].cidr]
          BY <2>9, <3>1, <4>1, <4>2, Networks
        <4>4. p # None /\ Len[docs[j].cidr] <= Len[docs[p].cidr] /\ p \in Live
          BY <2>9, <3>1, <4>1, <4>3 DEF Best, In
        <4>5. Len[docs[j].cidr] > Len[docs[p].cidr]
          BY <2>4, <2>6, <2>8, <2>14, <3>1, <3>3, <4>4 DEF Between
        <4>6. docs[p].cidr \in Cidrs
          BY <1>0, <4>4 DEF Subnet
        <4> QED BY <3>1, <4>4, <4>5, <4>6, SubnetTreeAssumption
      <3> QED BY <3>2, <3>3
    <2> QED BY <2>7, <2>10, <2>11, <2>12, <2>13, <2>14 DEF Nesting
  <1> QED BY <1>1, <1>2

LEMMA FindSiblingsNests ==
    ASSUME Typed, OneSpelling, NEW w \in Workers, Nesting(w), FindSiblings(w)
    PROVE  Nesting(w)'
  <1>0. /\ work \in [Workers -> Request] /\ work[w].pc = "siblings" /\ UNCHANGED docs
        /\ Best(w) /\ Inserted(w)
    BY DEF Typed, FindSiblings, Nesting
  <1>1. CASE Mine(w) = {} /\ Finish(w)
    <2>1. work'[w].pc = "idle"
      BY <1>0, <1>1, RestIsRequest DEF Finish
    <2>2. \A i \in In(work[w].vrf) : ~Between(i, work[w].id)
      BY <1>0, <1>1, SiblingsAreAll
    <2> QED BY <1>0, <2>1, <2>2, SameSubnetsNest
  <1>2. CASE work' = [work EXCEPT ![w].pc = "reparent", ![w].todo = Mine(w)]
    <2>1. /\ work'[w].pc = "reparent" /\ work'[w].todo = Mine(w) /\ work'[w].id = work[w].id
          /\ work'[w].parent = work[w].parent /\ work'[w].cidr = work[w].cidr
          /\ work'[w].vrf = work[w].vrf
      BY <1>0, <1>2 DEF Request
    <2>2. Best(w)' /\ Inserted(w)' /\ Mine(w)' = Mine(w)
      BY <1>0, <2>1 DEF Best, Inserted, Mine, In, Live, Inside
    <2> QED BY <1>0, <2>1, <2>2, SameSubnetsNest
  <1>3. (Mine(w) = {} /\ Finish(w)) \/ work' = [work EXCEPT ![w].pc = "reparent", ![w].todo = Mine(w)]
    BY DEF FindSiblings, Mine
  <1> QED BY <1>1, <1>2, <1>3

\* The siblings it contains become the children of the new subnet.
LEMMA ReparentNests ==
    ASSUME Typed, OneSpelling, NEW w \in Workers, Nesting(w), Reparent(w)
    PROVE  Nesting(w)'
  <1> DEFINE new == work[w].id
             p == work[w].parent
             c(j) == docs[j].cidr
  <1>0. /\ docs \in [Ids -> Subnet] /\ work \in [Workers -> Request] /\ Live \subseteq Ids
        /\ work[w].pc = "reparent" /\ None \notin Ids
        /\ \A j \in Live : c(j) \in Cidrs /\ Len[c(j)] \in Nat
    <2>1. /\ docs \in [Ids -> Subnet] /\ work \in [Workers -> Request] /\ Live \subseteq Ids
          /\ work[w].pc = "reparent" /\ None \notin Ids
      BY SubnetTreeAssumption DEF Typed, Live, Reparent
    <2> QED BY <2>1, SubnetTreeAssumption DEF Subnet
  <1>1. /\ Best(w) /\ Inserted(w) /\ Unique /\ ParentsLive /\ work[w].todo = Mine(w)
        /\ new \in Live /\ docs[new].vrf = work[w].vrf /\ c(new) = work[w].cidr
    BY <1>0 DEF Nesting, Inserted, In
  <1>2. \A i \in Mine(w) : /\ i \in Live \ {new} /\ docs[i].vrf = work[w].vrf /\ docs[i].parent = p
                           /\ Inside(c(i), c(new))
    BY <1>1 DEF Mine, In
  <1>3. work'[w].pc = "idle"
    BY <1>0, RestIsRequest DEF Reparent, Finish
  <1>4. \A i \in Ids : docs'[i] = IF i \in Mine(w) THEN [docs[i] EXCEPT !.parent = new] ELSE docs[i]
    BY <1>0, <1>1, <1>2 DEF Reparent
  <1>5. \A i \in Ids : /\ docs'[i].state = docs[i].state /\ docs'[i].cidr = docs[i].cidr
                       /\ docs'[i].vrf = docs[i].vrf
                       /\ docs'[i].parent = IF i \in Mine(w) THEN new ELSE docs[i].parent
    <2> SUFFICES ASSUME NEW i \in Ids
                 PROVE  /\ docs'[i].state = docs[i].state /\ docs'[i].cidr = docs[i].cidr
                        /\ docs'[i].vrf = docs[i].vrf
                        /\ docs'[i].parent = IF i \in Mine(w) THEN new ELSE docs[i].parent
      OBVIOUS
    <2>1. docs[i] \in Subnet
      BY <1>0
    <2>2. CASE i \in Mine(w)
      <3>1. docs'[i] = [docs[i] EXCEPT !.parent = new]
        BY <1>4, <2>2
      <3> QED BY <2>1, <2>2, <3>1 DEF Subnet
    <2>3. CASE i \notin Mine(w)
      BY <1>4, <2>3
    <2> QED BY <2>2, <2>3
  <1>6. Live' = Live
    BY <1>5 DEF Live
  <1>7. Unique'
    BY <1>0, <1>1, <1>5, <1>6 DEF Unique
  <1>8. ParentsLive'
    <2>1. ASSUME NEW i \in Live, docs'[i].parent # None
          PROVE  /\ docs'[i].parent \in Live \ {i} /\ docs[docs'[i].parent].vrf = docs[i].vrf
                 /\ Inside(c(i), c(docs'[i].parent))
      <3>1. CASE i \in Mine(w)
        BY <1>0, <1>1, <1>2, <1>5, <3>1
      <3>2. CASE i \notin Mine(w)
        BY <1>0, <1>1, <1>5, <2>1, <3>2 DEF ParentsLive, In
      <3> QED BY <3>1, <3>2
    <2> QED BY <1>0, <1>5, <1>6, <2>1 DEF ParentsLive, In, Inside
  <1>9. ASSUME NEW i \in Live, NEW j \in Live, docs[i].vrf = docs[j].vrf, Between(i, j)'
        PROVE  FALSE
    <2>1. Inside(c(i), c(j)) /\ Cover[c(i)] # Cover[c(j)]
      BY <1>0, <1>5, <1>9 DEF Between, Inside
    <2>2. CASE i \in Mine(w)
      <3>1. Len[c(j)] > Len[c(new)]
        BY <1>0, <1>1, <1>5, <1>9, <2>2 DEF Between
      <3>2. p # None => p \in Live /\ Len[c(p)] < Len[c(new)]
        BY <1>1 DEF Best, In
      <3>3. Between(i, j)
        BY <1>0, <1>1, <1>2, <2>1, <2>2, <3>1, <3>2 DEF Between
      <3>4. j = new
        BY <1>9, <3>3 DEF Nesting
      <3> QED BY <1>0, <1>1, <3>1, <3>4
    <2>3. CASE i \notin Mine(w)
      <3>1. docs[i].parent # None => docs[i].parent \in Live
        BY <1>1 DEF ParentsLive, In
      <3>2. Between(i, j)
        BY <1>0, <1>5, <1>9, <2>1, <2>3, <3>1 DEF Between
      <3>3. j = new
        BY <1>9, <3>2 DEF Nesting
      <3>4. i \in In(work[w].vrf) /\ Between(i, work[w].id)
        BY <1>1, <1>9, <3>2, <3>3 DEF In
      <3> QED BY <1>0, <2>3, <3>4, SiblingsAreAll
    <2> QED BY <2>2, <2>3
  <1> QED BY <1>0, <1>3, <1>5, <1>6, <1>7, <1>8, <1>9 DEF Nesting

\* A subnet that is deleted is nobody's parent.
LEMMA DeleteNests ==
    ASSUME Typed, NEW w \in Workers, Nesting(w), Delete(w)
    PROVE  Nesting(w)'
  <1> DEFINE gone == work[w].id
  <1>0. /\ docs \in [Ids -> Subnet] /\ work \in [Workers -> Request] /\ Live \subseteq Ids
        /\ work[w].pc = "delete" /\ gone \in Ids /\ None \notin Ids
    <2>1. /\ docs \in [Ids -> Subnet] /\ work \in [Workers -> Request] /\ Live \subseteq Ids
          /\ work[w].pc = "delete" /\ None \notin Ids
      BY SubnetTreeAssumption DEF Typed, Live, Delete
    <2> QED BY <2>1 DEF Request
  <1>1. Unique /\ ParentsLive /\ Childless(gone)
    BY <1>0 DEF Nesting
  <1>2. work'[w].pc = "idle"
    BY <1>0, RestIsRequest DEF Delete, Finish
  <1>3. \A i \in Ids : /\ docs'[i].cidr = docs[i].cidr /\ docs'[i].vrf = docs[i].vrf
                       /\ docs'[i].parent = docs[i].parent
                       /\ docs'[i].state = IF i = gone THEN "deleted" ELSE docs[i].state
    BY <1>0 DEF Delete, Subnet
  <1>4. Live' = Live \ {gone}
    BY <1>0, <1>3 DEF Live
  <1>5. Unique'
    BY <1>0, <1>1, <1>3, <1>4 DEF Unique
  <1>6. \A i \in Live : docs[i].parent # None =>
          /\ docs[i].parent \in Live \ {gone, i} /\ docs[docs[i].parent].vrf = docs[i].vrf
          /\ Inside(docs[i].cidr, docs[docs[i].parent].cidr)
    BY <1>1 DEF ParentsLive, In, Childless
  <1>7. ParentsLive'
    <2>1. ASSUME NEW i \in Live', docs'[i].parent # None
          PROVE  /\ docs'[i].parent \in Live' \ {i} /\ docs'[docs'[i].parent].vrf = docs'[i].vrf
                 /\ Inside(docs'[i].cidr, docs'[docs'[i].parent].cidr)
      <3>1. i \in Live /\ docs'[i].parent = docs[i].parent
        BY <1>0, <1>3, <1>4
      <3>2. docs[i].parent \in Live \ {gone, i} /\ docs[docs[i].parent].vrf = docs[i].vrf
            /\ Inside(docs[i].cidr, docs[docs[i].parent].cidr)
        BY <1>6, <2>1, <3>1
      <3> QED BY <1>0, <1>3, <1>4, <3>1, <3>2
    <2> QED BY <2>1 DEF ParentsLive, In, Inside
  <1>8. ASSUME NEW i \in Live', NEW j \in Live', docs'[i].vrf = docs'[j].vrf, Between(i, j)'
        PROVE  FALSE
    <2>1. i \in Live /\ j \in Live /\ docs[i].vrf = docs[j].vrf
      BY <1>0, <1>3, <1>4, <1>8
    <2>2. Between(i, j)
      BY <1>0, <1>3, <1>6, <1>8, <2>1 DEF Between, Inside
    <2> QED BY <1>0, <2>1, <2>2 DEF Nesting
  <1> QED BY <1>2, <1>5, <1>7, <1>8 DEF Nesting

LEMMA QuietNests ==
    ASSUME Typed, OneSpelling, NEW w \in Workers, Nesting(w), Quiet(w)
    PROVE  Nesting(w)'
  <1>0. work \in [Workers -> Request]
    BY DEF Typed
  <1>1. CASE Started(w, QuietStarts)
    <2>1. /\ UNCHANGED docs /\ work[w].pc = "idle"
          /\ work'[w].pc \in QuietStarts
          /\ work'[w].pc = "count" => Childless(work'[w].id)
      BY <1>0, <1>1 DEF Started, Childless
    <2> QED BY <2>1, SameSubnetsNest DEF QuietStarts
  <1>2. CASE CountRecords(w)
    <2>1. /\ UNCHANGED docs /\ work[w].pc = "count"
          /\ \/ work'[w].pc = "idle"
             \/ work'[w].pc = "delete" /\ work'[w].id = work[w].id
      BY <1>0, <1>2, RestIsRequest DEF CountRecords, Finish, Goto, Request
    <2>2. Childless(work[w].id)
      BY <2>1 DEF Nesting
    <2> QED BY <2>1, <2>2, SameSubnetsNest
  <1>3. CASE DeleteVrf(w) \/ InsertRecord(w)
    <2>1. UNCHANGED docs /\ work[w].pc \in {"vrf", "record"} /\ work'[w].pc = "idle"
      BY <1>0, <1>3, RestIsRequest DEF DeleteVrf, InsertRecord, Finish
    <2> QED BY <2>1, SameSubnetsNest
  <1> QED BY <1>1, <1>2, <1>3, QuietIs, FindParentNests, InsertNests, FindSiblingsNests,
             ReparentNests, DeleteNests DEF QuietGoesOn

-----------------------------------------------------------------------------
(* One request at a time *)

Idle(w) == work[w].pc = "idle"
OneBusy == \A v, w \in Workers : ~Idle(v) /\ ~Idle(w) => v = w

\* Nobody but w has a request under way.
Alone(w) == \A v \in Workers \ {w} : Idle(v)

LEMMA AtMostOne ==
    ASSUME NEW S, IsFiniteSet(S), Cardinality(S) <= 1, NEW x \in S, NEW y \in S
    PROVE  x = y
  <1> SUFFICES ASSUME x # y PROVE FALSE
    OBVIOUS
  <1>1. IsFiniteSet({x}) /\ Cardinality({x}) = 1
    BY FS_Singleton
  <1>2. Cardinality({x} \union {y}) = 2
    BY <1>1, FS_AddElement
  <1>3. Cardinality({x} \union {y}) <= Cardinality(S) /\ Cardinality(S) \in Nat
    BY FS_Subset, FS_CardinalityType
  <1> QED BY <1>2, <1>3

\* Only one request moves, and it is under way before or after.
LEMMA OneMoves ==
    ASSUME Typed, NEW w \in Workers, Quiet(w)
    PROVE  /\ \A v \in Workers \ {w} : work'[v] = work[v]
           /\ ~Idle(w) \/ ~Idle(w)'
  <1>0. work \in [Workers -> Request]
    BY DEF Typed
  <1>1. CASE Started(w, QuietStarts)
    BY <1>0, <1>1 DEF Started, QuietStarts, Idle
  <1>2. CASE InsertSubnet(w)
    <2>1. ~Idle(w)
      BY <1>2 DEF InsertSubnet, Insert, Idle
    <2>2. \/ Finish(w)
          \/ \E i \in Ids : work' = [work EXCEPT ![w].pc = "siblings", ![w].id = i]
      BY <1>2 DEF InsertSubnet, Insert
    <2> QED BY <1>0, <2>1, <2>2 DEF Finish
  <1>3. CASE QuietGoesOn(w) /\ ~InsertSubnet(w)
    BY <1>0, <1>3 DEF QuietGoesOn, FindParent, FindSiblings, Reparent, CountRecords, Delete,
       DeleteVrf, InsertRecord, Finish, Goto, Idle
  <1> QED BY <1>1, <1>2, <1>3, QuietIs

\* While it is calm, the request that moves is the only one.
LEMMA MovesAlone ==
    ASSUME Typed, OneBusy, NEW w \in Workers, Quiet(w), Cardinality(Busy') <= 1
    PROVE  Alone(w) /\ Alone(w)' /\ OneBusy'
  <1>1. \A v \in Workers \ {w} : Idle(v)' <=> Idle(v)
    BY OneMoves DEF Idle
  <1>2. CASE ~Idle(w)
    BY <1>1, <1>2 DEF OneBusy, Alone
  <1>3. CASE ~Idle(w)'
    <2>1. Busy' = {v \in Workers : ~Idle(v)'}
      BY DEF Busy, Idle
    <2>2. IsFiniteSet(Busy')
      BY <2>1, FS_Subset, SubnetTreeAssumption
    <2>3. \A v \in Workers : ~Idle(v)' => v = w
      <3> DEFINE S == Busy'
      <3>1. w \in S /\ \A v \in Workers : ~Idle(v)' => v \in S
        BY <1>3, <2>1
      <3>2. IsFiniteSet(S) /\ Cardinality(S) <= 1
        BY <2>2
      <3> HIDE DEF S
      <3> QED BY <3>1, <3>2, AtMostOne
    <2> QED BY <1>1, <2>3 DEF OneBusy, Alone
  <1> QED BY <1>2, <1>3, OneMoves

NestInv ==
    /\ calm => OneBusy /\ \A w \in Workers : Alone(w) => Nesting(w)
    /\ Nested

LEMMA NextNests == OneSpelling /\ Typed /\ NestInv /\ [Next]_vars => NestInv'
  <1> SUFFICES ASSUME OneSpelling, Typed, NestInv, [Next]_vars, calm' PROVE NestInv'
    BY DEF NestInv, Nested
  <1>1. ASSUME NEW w \in Workers, Quiet(w),
               calm' = (calm /\ Cardinality(Busy') <= 1)
        PROVE  NestInv'
    <2>1. calm /\ Cardinality(Busy') <= 1
      BY <1>1, Zenon
    <2>2. Alone(w) /\ Alone(w)' /\ OneBusy'
      BY <1>1, <2>1, MovesAlone DEF NestInv
    <2>3. Nesting(w)'
      BY <1>1, <2>1, <2>2, QuietNests DEF NestInv
    <2>4. ASSUME NEW v \in Workers, Alone(v)'
          PROVE  Nesting(v)'
      <3>1. CASE v = w
        BY <2>3, <3>1
      <3>2. CASE v # w
        <4>1. Idle(v)' /\ Idle(w)'
          BY <2>2, <2>4, <3>2 DEF Alone
        <4> QED BY <2>3, <4>1 DEF Nesting, Idle
      <3> QED BY <3>1, <3>2
    <2>5. Nested'
      BY <2>3 DEF Nesting, Nested, Busy, In
    <2> QED BY <2>2, <2>4, <2>5 DEF NestInv
  <1>2. CASE UNCHANGED <<docs, work, calm, plan>>
    <2>1. Nested' <=> Nested
      BY <1>2 DEF Nested, Scopes, Busy, In, Live, Between, Inside
    <2>2. \A w \in Workers : (Alone(w)' <=> Alone(w)) /\ (OneBusy' <=> OneBusy)
      BY <1>2 DEF Alone, OneBusy, Idle
    <2>3. ASSUME NEW w \in Workers, Nesting(w) PROVE Nesting(w)'
      BY <1>2, <2>3 DEF Nesting, Unique, ParentsLive, Best, Inserted, Mine, Childless, In, Live,
         Between, Inside
    <2> QED BY <1>2, <2>1, <2>2, <2>3 DEF NestInv, OneBusy
  <1>3. ASSUME NEW i \in Ids, DropRecords(i), UNCHANGED <<calm, plan>>
        PROVE  UNCHANGED <<docs, work, calm, plan>>
    BY <1>3 DEF DropRecords
  <1>4. CASE UNCHANGED vars
    BY <1>2, <1>4 DEF vars
  <1> QED BY <1>1, <1>2, <1>3, <1>4 DEF Next, Quiet

LEMMA SubnetsNestInv == ASSUME OneSpelling PROVE Spec => [](Typed /\ NestInv)
<1>1. Init => NestInv
  <2> SUFFICES ASSUME Init PROVE NestInv
    OBVIOUS
  <2>1. Live = {} /\ \A w \in Workers : work[w].pc = "idle"
    BY RestIsRequest DEF Init, Live, NoSubnet
  <2> QED BY <2>1 DEF NestInv, Nested, OneBusy, Idle, Nesting, Unique, ParentsLive, In
<1>2. Typed /\ NestInv /\ [Next]_vars => NestInv'
  BY NextNests
<1> QED BY <1>1, <1>2, InitTyped, NextTyped, PTL DEF Spec

\* If each network is written one way, then while requests neither overlap nor
\* stop half-way no subnet is left between another one and its parent, whatever
\* is created and deleted (subnet_service.py:118-190, 384-420).
THEOREM SubnetsNested == ASSUME OneSpelling PROVE Spec => []Nested
<1>1. NestInv => Nested
  BY DEF NestInv
<1> QED BY <1>1, SubnetsNestInv, PTL

-----------------------------------------------------------------------------
(* The tree shows all *)

\* Natural numbers given to the elements of a set have a smallest one.
LEMMA SomeIsLeast ==
    ASSUME NEW T, T # {}, NEW f, \A x \in T : f[x] \in Nat
    PROVE  \E x \in T : \A y \in T : f[x] <= f[y]
  <1> DEFINE Values == {f[x] : x \in T}
             Smaller == {p \in Nat \X Nat : p[1] < p[2]}
  <1>1. Values \subseteq Nat /\ Values # {}
    OBVIOUS
  <1>2. IsWellFoundedOn(Smaller, Nat)
    BY NatLessThanWellFounded DEF OpToRel
  <1> HIDE DEF Smaller
  <1>3. PICK n \in Values : \A m \in Values : ~(<<m, n>> \in Smaller)
    <2> HIDE DEF Values
    <2> QED BY <1>1, <1>2, WFMin
  <1>4. PICK x \in T : n = f[x]
    OBVIOUS
  <1>5. \A y \in T : ~(f[y] < f[x])
    BY <1>1, <1>3, <1>4 DEF Smaller
  <1> QED BY <1>5

\* The networks that a tree left out would have parents that it left out, with
\* shorter and shorter prefixes.
LEMMA NestingShowsAll ==
    ASSUME Typed, OneSpelling, NEW w \in Workers, Nesting(w), NEW i \in Live
    PROVE  i \in Tree(docs[i].vrf)
  <1> DEFINE v == docs[i].vrf
             L(j) == Len[docs[j].cidr]
  <1> SUFFICES ASSUME NEW S \in SUBSET In(v), Grown(v, S), i \notin S PROVE FALSE
    BY DEF Tree, In
  <1> DEFINE Hidden == In(v) \ S
             length == [j \in Hidden |-> L(j)]
  <1>0. /\ Live \subseteq Ids /\ \A j \in Live : docs[j].cidr \in Cidrs
        /\ \A n \in Cidrs : Len[n] \in Nat
    BY SubnetTreeAssumption DEF Typed, Subnet, Live
  <1>1. ASSUME NEW j \in Live, docs[j].parent # None
        PROVE  docs[j].parent \in In(docs[j].vrf) /\ L(docs[j].parent) < L(j)
    <2> DEFINE q == docs[j].parent
    <2>1. q \in In(docs[j].vrf) /\ q # j /\ Inside(docs[j].cidr, docs[q].cidr) /\ q \in Live
      BY <1>1 DEF Nesting, ParentsLive, In
    <2>2. Cover[docs[j].cidr] # Cover[docs[q].cidr]
      BY <1>0, <2>1 DEF Nesting, Unique, OneSpelling, In
    <2>3. Inside(docs[j].cidr, docs[j].cidr)
      BY DEF Inside
    <2> QED BY <1>0, <2>1, <2>2, <2>3, Networks
  <1>2. ASSUME NEW j \in Hidden
        PROVE  docs[j].parent \in Hidden /\ L(docs[j].parent) < L(j)
    <2>1. docs[j].parent # None /\ docs[j].parent \notin S
      BY DEF Grown
    <2>2. j \in Live /\ docs[j].vrf = v
      BY DEF In
    <2> QED BY <1>1, <2>1, <2>2
  <1>3. i \in Hidden
    BY DEF In
  <1>4. \A j \in Hidden : length[j] \in Nat
    BY <1>0 DEF In
  <1>5. PICK j \in Hidden : \A k \in Hidden : length[j] <= length[k]
    <2> HIDE DEF Hidden, length
    <2> QED BY <1>3, <1>4, SomeIsLeast
  <1>6. docs[j].parent \in Hidden /\ length[j] <= length[docs[j].parent]
    BY <1>2, <1>5
  <1>7. L(docs[j].parent) < L(j) /\ L(j) <= L(docs[j].parent) /\ L(j) \in Nat /\ L(docs[j].parent) \in Nat
    BY <1>2, <1>4, <1>6
  <1> QED BY <1>7

\* If each network is written one way, then while requests neither overlap nor
\* stop half-way, build_tree shows every subnet of its VRF, whatever is created
\* and deleted (subnet_service.py:118-190, 364-420, 449-536).
THEOREM SubnetsAllVisible == ASSUME OneSpelling PROVE Spec => []AllVisible
<1>1. ASSUME Typed, NestInv
      PROVE  AllVisible
  <2> SUFFICES ASSUME calm PROVE \A i \in Live : i \in Tree(docs[i].vrf)
    BY DEF AllVisible
  <2>1. \E w \in Workers : Alone(w)
    <3>1. CASE \E w \in Workers : ~Idle(w)
      BY <1>1, <3>1 DEF NestInv, OneBusy, Alone
    <3>2. CASE \A w \in Workers : Idle(w)
      BY <3>2, SubnetTreeAssumption DEF Alone
    <3> QED BY <3>1, <3>2
  <2>2. PICK w \in Workers : Nesting(w)
    BY <1>1, <2>1 DEF NestInv
  <2> QED BY <1>1, <2>2, NestingShowsAll
<1> QED BY <1>1, SubnetsNestInv, PTL

-----------------------------------------------------------------------------
(* No cycle *)

(* A subnet that is inserted hangs below its parent and what is above that *)
(* one; U[i] is what was above i then, and O[i] what had been inserted     *)
(* before.  Neither changes, and a later parent of i is still below U[i].  *)

Born == {i \in Ids : docs[i].state # "unborn"}
Line(U, p) == IF p = None THEN {} ELSE {p} \union U[p]

\* A wider network than that of i, or an older document of the same network.
Around(O, i, a) ==
    /\ Inside(docs[i].cidr, docs[a].cidr)
    /\ Cover[docs[i].cidr] # Cover[docs[a].cidr] \/ a \in O[i]

\* With p as its parent, i stays below U[i], and between them is only what is
\* around i.
Under(U, O, i, p) ==
    /\ p # None => p \in Born
    /\ U[i] \subseteq Line(U, p) /\ i \notin Line(U, p)
    /\ \A a \in Line(U, p) \ U[i] : Around(O, i, a)

Lineage(U, O) ==
    \A i \in Born :
      /\ i \notin O[i] /\ O[i] \subseteq Born /\ U[i] \subseteq O[i]
      /\ \A j \in O[i] : O[j] \subseteq O[i]
      /\ \A j \in U[i] : U[j] \subseteq U[i]
      /\ \A j, k \in U[i] : j = k \/ j \in U[k] \/ k \in U[j]

\* Of two documents of one network, the one that is left is the younger one.
Replaced(O) ==
    \A i \in Live, j \in Born :
      docs[j].vrf = docs[i].vrf /\ docs[j].cidr = docs[i].cidr /\ j # i =>
        docs[j].state = "deleted" /\ j \in O[i]

\* What a request knows of what it goes on with.
Traces(U, O, w) ==
    /\ work[w].pc \in {"insert", "siblings"} /\ work[w].parent # None => work[w].parent \in Born
    /\ work[w].pc \in {"siblings", "reparent"} =>
         /\ work[w].id \in Born
         /\ docs[work[w].id].cidr = work[w].cidr /\ docs[work[w].id].vrf = work[w].vrf
    /\ work[w].pc = "siblings" => U[work[w].id] = Line(U, work[w].parent)
    /\ work[w].pc = "reparent" =>
         \A i \in work[w].todo : i \in Born /\ Under(U, O, i, work[w].id)
    /\ work[w].pc \in {"count", "delete"} => work[w].id \in Born
    /\ work[w].pc = "import" => work[w].parent = None

Descent(U, O) ==
    /\ Lineage(U, O) /\ Replaced(O)
    /\ \A i \in Born : Under(U, O, i, docs[i].parent)
    /\ \A i \in Ids \ Born : docs[i].parent = None
    /\ \A w \in Workers : Traces(U, O, w)

Families == [Ids -> SUBSET Ids]
DescentInv == "move" \notin plan.uses => \E U, O \in Families : Descent(U, O)

-----------------------------------------------------------------------------
(* Along the parents of a subnet, one gets ever farther: up the line it was *)
(* inserted in, or to a wider network in its place.                         *)

Farther(U, O, x, y) ==
    \/ y \in U[x]
    \/ \E a \in {x} \union U[x], b \in {y} \union U[y] : U[a] = U[b] /\ Around(O, a, b)

LEMMA AroundIsOrder ==
    ASSUME NEW U, NEW O, Lineage(U, O), NEW a \in Born
    PROVE  /\ ~Around(O, a, a)
           /\ \A b \in Born, c \in Born :
                Around(O, a, b) /\ Around(O, b, c) => Around(O, a, c)
  <1>1. ~Around(O, a, a)
    BY DEF Around, Lineage
  <1>2. ASSUME NEW b \in Born, NEW c \in Born, Around(O, a, b), Around(O, b, c)
        PROVE  Around(O, a, c)
    <2>1. Inside(docs[a].cidr, docs[c].cidr)
      BY <1>2 DEF Around, Inside
    <2>2. CASE Cover[docs[a].cidr] = Cover[docs[c].cidr]
      <3>1. b \in O[a] /\ c \in O[b]
        BY <1>2, <2>2 DEF Around, Inside
      <3>2. c \in O[a]
        BY <3>1 DEF Lineage
      <3> QED BY <2>1, <3>2 DEF Around
    <2> QED BY <2>1, <2>2 DEF Around
  <1> QED BY <1>1, <1>2

\* A subnet and those of its line.
LEMMA LineFacts ==
    ASSUME NEW U, NEW O, Lineage(U, O), NEW x \in Born
    PROVE  /\ \A a \in {x} \union U[x] : a \in Born /\ U[a] \subseteq U[x] /\ a \notin U[a]
           /\ \A a, b \in {x} \union U[x] : a = b \/ a \in U[b] \/ b \in U[a]
  <1>1. U[x] \subseteq Born
    BY DEF Lineage
  <1>2. \A a \in Born : a \notin U[a]
    BY DEF Lineage
  <1>3. \A a \in U[x] : U[a] \subseteq U[x]
    BY DEF Lineage
  <1>4. \A a, b \in U[x] : a = b \/ a \in U[b] \/ b \in U[a]
    BY DEF Lineage
  <1> QED BY <1>1, <1>2, <1>3, <1>4

LEMMA FartherIsOrder ==
    ASSUME NEW U, NEW O, Lineage(U, O), NEW x \in Born
    PROVE  /\ ~Farther(U, O, x, x)
           /\ \A y \in Born, z \in Born :
                Farther(U, O, x, y) /\ Farther(U, O, y, z) => Farther(U, O, x, z)
  <1>1. ASSUME Farther(U, O, x, x) PROVE FALSE
    <2>1. x \notin U[x]
      BY LineFacts
    <2>2. PICK a \in {x} \union U[x], b \in {x} \union U[x] : U[a] = U[b] /\ Around(O, a, b)
      BY <1>1, <2>1 DEF Farther
    <2>3. a = b \/ a \in U[b] \/ b \in U[a]
      BY LineFacts
    <2>4. a \notin U[a] /\ b \notin U[b] /\ a \in Born
      BY LineFacts
    <2>5. a = b
      BY <2>2, <2>3, <2>4
    <2> QED BY <2>2, <2>4, <2>5, AroundIsOrder
  <1>2. ASSUME NEW y \in Born, NEW z \in Born, Farther(U, O, x, y), Farther(U, O, y, z)
        PROVE  Farther(U, O, x, z)
    <2>1. CASE y \in U[x]
      <3>1. {y} \union U[y] \subseteq U[x]
        BY <2>1, LineFacts
      <3> QED BY <1>2, <3>1 DEF Farther
    <2>2. CASE y \notin U[x]
      <3>1. PICK a \in {x} \union U[x], b \in {y} \union U[y] : U[a] = U[b] /\ Around(O, a, b)
        BY <1>2, <2>2 DEF Farther
      <3>2. a \in Born /\ b \in Born /\ U[a] \subseteq U[x]
        BY LineFacts
      <3>3. CASE z \in U[y]
        <4>1. b = z \/ b \in U[z] \/ z \in U[b]
          BY <3>3, LineFacts
        <4> QED BY <3>1, <3>2, <4>1 DEF Farther
      <3>4. CASE z \notin U[y]
        <4>1. PICK c \in {y} \union U[y], d \in {z} \union U[z] : U[c] = U[d] /\ Around(O, c, d)
          BY <1>2, <3>4 DEF Farther
        <4>2. b = c \/ b \in U[c] \/ c \in U[b]
          BY LineFacts
        <4>3. c \in Born /\ d \in Born /\ U[d] \subseteq U[z]
          BY LineFacts
        <4>4. CASE b = c
          <5>1. Around(O, a, d) /\ U[a] = U[d]
            BY <3>1, <3>2, <4>1, <4>3, <4>4, AroundIsOrder
          <5> QED BY <5>1 DEF Farther
        <4>5. CASE b \in U[c]
          BY <3>1, <4>1, <4>3, <4>5 DEF Farther
        <4>6. CASE c \in U[b]
          BY <3>1, <3>2, <4>1, <4>6 DEF Farther
        <4> QED BY <4>2, <4>4, <4>5, <4>6
      <3> QED BY <3>3, <3>4
    <2> QED BY <2>1, <2>2
  <1> QED BY <1>1, <1>2

\* Of finite sets given to the elements of a set, one has no smaller one.
SetsAreFinite(T, F) == \A x \in T : IsFiniteSet(F[x])
NoneSmaller(T, F, x) == \A y \in T : ~(F[y] \subseteq F[x] /\ F[y] # F[x])

LEMMA SomeIsSmallest ==
    ASSUME NEW T, T # {}, NEW F, SetsAreFinite(T, F)
    PROVE  \E x \in T : NoneSmaller(T, F, x)
  <1> DEFINE size == [x \in T |-> Cardinality(F[x])]
  <1>1. \A x \in T : size[x] \in Nat
    BY FS_CardinalityType DEF SetsAreFinite
  <1>2. PICK x \in T : \A y \in T : size[x] <= size[y]
    <2> HIDE DEF size
    <2> QED BY <1>1, SomeIsLeast
  <1>3. ASSUME NEW y \in T, F[y] \subseteq F[x], F[y] # F[x]
        PROVE  FALSE
    <2>1. size[x] = Cardinality(F[x]) /\ size[y] = Cardinality(F[y])
      OBVIOUS
    <2>2. IsFiniteSet(F[x])
      BY DEF SetsAreFinite
    <2>3. size[y] <= size[x] /\ size[y] # size[x]
      BY <1>3, <2>1, <2>2, FS_Subset
    <2>4. size[x] <= size[y] /\ size[x] \in Nat /\ size[y] \in Nat
      BY <1>1, <1>2
    <2> HIDE DEF size
    <2> QED BY <2>3, <2>4
  <1> QED BY <1>3 DEF NoneSmaller

\* Between i and the line it was inserted in, the topmost subnet is in its
\* place.
LEMMA ParentIsFarther ==
    ASSUME NEW U, NEW O, Lineage(U, O), NEW x \in Born, NEW p \in Born, p # None, Under(U, O, x, p)
    PROVE  Farther(U, O, x, p)
  <1> DEFINE new == ({p} \union U[p]) \ U[x]
  <1> SUFFICES ASSUME p \notin U[x] PROVE Farther(U, O, x, p)
    BY DEF Farther
  <1>1. p \in new
    OBVIOUS
  <1>2. SetsAreFinite(new, U)
    <2>1. \A a \in Born : U[a] \subseteq Born
      BY DEF Lineage
    <2>2. Born \subseteq Ids /\ IsFiniteSet(Ids)
      BY SubnetTreeAssumption DEF Born
    <2>3. \A a \in new : a \in Born
      BY LineFacts
    <2> HIDE DEF new
    <2>4. \A a \in new : U[a] \subseteq Ids
      BY <2>1, <2>2, <2>3
    <2> QED BY <2>2, <2>4, FS_Subset DEF SetsAreFinite
  <1>3. PICK b \in new : NoneSmaller(new, U, b)
    <2> HIDE DEF new
    <2> QED BY <1>1, <1>2, SomeIsSmallest
  <1>4. b \in Born /\ b \notin U[x] /\ b \in {p} \union U[p]
    BY LineFacts
  <1>5. ASSUME NEW a \in U[b] PROVE a \in U[x]
    <2> SUFFICES ASSUME a \notin U[x] PROVE FALSE
      OBVIOUS
    <2>1. U[b] \subseteq U[p]
      BY <1>4, LineFacts
    <2>2. a \in new
      BY <2>1
    <2>3. U[a] \subseteq U[b] /\ a \notin U[a]
      BY <1>4, LineFacts
    <2> QED BY <1>3, <2>2, <2>3 DEF NoneSmaller
  <1>6. ASSUME NEW a \in U[x] PROVE a \in U[b]
    <2>1. a \in {p} \union U[p]
      BY DEF Under, Line
    <2>2. a = b \/ a \in U[b] \/ b \in U[a]
      BY <1>4, <2>1, LineFacts
    <2>3. U[a] \subseteq U[x]
      BY LineFacts
    <2> QED BY <1>4, <2>2, <2>3
  <1>7. U[x] = U[b] /\ Around(O, x, b)
    BY <1>4, <1>5, <1>6 DEF Under, Line
  <1> QED BY <1>4, <1>7 DEF Farther

LEMMA DescentHasNoCycle ==
    ASSUME Typed, NEW U, NEW O, Descent(U, O), NEW S \in SUBSET Ids, S # {},
           \A i \in S : docs[i].parent \in S
    PROVE  FALSE
  <1> DEFINE Beyond == [x \in S |-> {y \in S : Farther(U, O, x, y)}]
  <1>0. None \notin Ids /\ IsFiniteSet(Ids) /\ Lineage(U, O)
    BY SubnetTreeAssumption DEF Descent
  <1>1. S \subseteq Born
    BY <1>0 DEF Descent
  <1>2. ASSUME NEW x \in S PROVE Farther(U, O, x, docs[x].parent)
    <2>1. x \in Born /\ docs[x].parent \in Born /\ docs[x].parent # None
      BY <1>0, <1>1
    <2> QED BY <1>0, <2>1, ParentIsFarther DEF Descent
  <1>3. SetsAreFinite(S, Beyond)
    <2>1. \A x \in S : Beyond[x] \subseteq Ids
      OBVIOUS
    <2> QED BY <1>0, <2>1, FS_Subset DEF SetsAreFinite
  <1>4. PICK x \in S : NoneSmaller(S, Beyond, x)
    <2> HIDE DEF Beyond
    <2> QED BY <1>3, SomeIsSmallest
  <1> DEFINE p == docs[x].parent
  <1>5. p \in S /\ p \in Beyond[x]
    BY <1>2
  <1>6. p \notin Beyond[p]
    BY <1>0, <1>1, <1>5, FartherIsOrder
  <1>7. Beyond[p] \subseteq Beyond[x]
    <2>1. x \in Born /\ p \in Born /\ Farther(U, O, x, p)
      BY <1>1, <1>2, <1>5
    <2>2. \A z \in Born : Farther(U, O, p, z) => Farther(U, O, x, z)
      BY <1>0, <2>1, FartherIsOrder
    <2> QED BY <1>1, <1>5, <2>2
  <1> QED BY <1>4, <1>5, <1>6, <1>7 DEF NoneSmaller

-----------------------------------------------------------------------------
(* How the lines come about *)

\* Two subnets that stay in place stay as they are to each other.
Placed == \A i \in Born : i \in Born' /\ docs'[i].cidr = docs[i].cidr /\ docs'[i].vrf = docs[i].vrf

LEMMA UnderStays ==
    ASSUME Placed, NEW U, NEW O, Lineage(U, O), NEW V, NEW P, NEW i \in Born,
           \A j \in Born : V[j] = U[j] /\ P[j] = O[j],
           NEW p, Under(U, O, i, p)
    PROVE  Under(V, P, i, p)'
  <1>1. Line(V, p) = Line(U, p) /\ V[i] = U[i] /\ P[i] = O[i]
    BY DEF Line, Under
  <1>2. \A a \in Line(U, p) : a \in Born
    BY LineFacts DEF Line, Under
  <1>3. p # None => p \in Born'
    BY DEF Under, Placed
  <1>4. \A a \in Born : Around(O, i, a) => Around(P, i, a)'
    BY <1>1 DEF Around, Inside, Placed
  <1> QED BY <1>1, <1>2, <1>3, <1>4 DEF Under, Line

LEMMA TracesStay ==
    ASSUME Typed, Placed, NEW U, NEW O, Lineage(U, O), NEW V, NEW P,
           \A j \in Born : V[j] = U[j] /\ P[j] = O[j],
           NEW v \in Workers, work'[v] = work[v], Traces(U, O, v)
    PROVE  Traces(V, P, v)'
  <1>0. work[v] \in Request
    BY DEF Typed
  <1>1. work[v].pc \in {"siblings", "reparent", "count", "delete"} => work[v].id \in Born
    BY DEF Traces
  <1>2. work[v].pc = "siblings" => V[work[v].id] = Line(V, work[v].parent)
    BY <1>1 DEF Traces, Line
  <1>3. ASSUME work[v].pc = "reparent", NEW i \in work[v].todo
        PROVE  i \in Born' /\ Under(V, P, i, work[v].id)'
    <2>1. i \in Born /\ Under(U, O, i, work[v].id)
      BY <1>3 DEF Traces
    <2> QED BY <2>1, UnderStays DEF Placed
  <1>4. \A j \in Born : j \in Born' /\ docs'[j].cidr = docs[j].cidr /\ docs'[j].vrf = docs[j].vrf
    BY DEF Placed
  <1>5. (work[v].pc = "reparent" =>
           \A i \in work[v].todo : i \in Born /\ Under(V, P, i, work[v].id))'
    <2>1. work'[v].pc = work[v].pc /\ work'[v].todo = work[v].todo
      OBVIOUS
    <2> QED BY <1>3, <2>1
  <1> QED BY <1>1, <1>2, <1>4, <1>5 DEF Traces, Line

\* A step that inserts nothing, gives nobody another parent, and brings nothing
\* back.
SameTree ==
    \A i \in Ids : /\ docs'[i].cidr = docs[i].cidr /\ docs'[i].vrf = docs[i].vrf
                   /\ docs'[i].parent = docs[i].parent
                   /\ \/ docs'[i].state = docs[i].state
                      \/ docs[i].state = "live" /\ docs'[i].state = "deleted"

OthersWait(w) == \A v \in Workers \ {w} : work'[v] = work[v]

LEMMA SameLines ==
    ASSUME Typed, NEW U, NEW O, Descent(U, O), NEW w \in Workers,
           Traces(U, O, w)', OthersWait(w), SameTree
    PROVE  Descent(U, O)'
  <1>1. Born' = Born /\ Live' \subseteq Live
    BY DEF Born, Live, SameTree
  <1>2. Placed /\ Lineage(U, O) /\ \A i \in Born : docs'[i].parent = docs[i].parent
    BY <1>1 DEF Placed, Descent, Born, SameTree
  <1>3. Lineage(U, O)'
    BY <1>1, <1>2 DEF Lineage
  <1>4. Replaced(O)'
    BY <1>1 DEF Descent, Replaced, Born, Live, SameTree
  <1>5. ASSUME NEW i \in Born PROVE Under(U, O, i, docs[i].parent)'
    <2>1. Under(U, O, i, docs[i].parent)
      BY DEF Descent
    <2>2. PICK p : p = docs[i].parent /\ p = docs'[i].parent
      BY <1>2
    <2>3. Under(U, O, i, p)'
      BY <1>2, <2>1, <2>2, UnderStays
    <2> QED BY <2>2, <2>3
  <1>6. \A v \in Workers \ {w} : Traces(U, O, v)'
    BY <1>2, TracesStay DEF Descent, OthersWait
  <1>7. \A i \in Ids \ Born : docs'[i].parent = None
    BY DEF Descent, SameTree
  <1> QED BY <1>1, <1>3, <1>4, <1>5, <1>6, <1>7 DEF Descent

\* A new subnet comes below its parent and the line of that one, and after all
\* there are.
LEMMA InsertDescends ==
    ASSUME Typed, NEW U \in Families, NEW O \in Families, Descent(U, O), NEW w \in Workers,
           NEW next \in {"siblings", "idle"}, NEW from \in {"insert", "import"},
           Insert(w, from, next)
    PROVE  \E V, P \in Families : Descent(V, P)'
  <1>0. /\ docs \in [Ids -> Subnet] /\ work \in [Workers -> Request]
        /\ work[w].pc = from /\ None \notin Ids /\ Lineage(U, O) /\ Born \subseteq Ids
    BY SubnetTreeAssumption DEF Typed, Insert, Descent, Born
  <1>1. CASE UNCHANGED docs /\ Finish(w)
    <2>1. work'[w].pc = "idle" /\ OthersWait(w)
      BY <1>0, <1>1, RestIsRequest DEF Finish, OthersWait
    <2>2. Traces(U, O, w)'
      BY <2>1 DEF Traces
    <2>3. SameTree
      BY <1>1 DEF SameTree
    <2>4. Descent(U, O)'
      BY <2>1, <2>2, <2>3, SameLines
    <2> QED BY <2>4
  <1>2. CASE ~(UNCHANGED docs /\ Finish(w))
    <2> DEFINE new == [state |-> "live", cidr |-> work[w].cidr, vrf |-> work[w].vrf,
                       parent |-> work[w].parent]
               q == work[w].parent
    <2>1. PICK n \in Ids : /\ docs[n].state = "unborn"
                           /\ docs' = [docs EXCEPT ![n] = new]
                           /\ IF next = "idle" THEN Finish(w)
                              ELSE work' = [work EXCEPT ![w].pc = next, ![w].id = n]
      BY <1>2 DEF Insert
    <2>2. ~Taken(work[w].cidr, work[w].vrf)
      BY <1>2 DEF Insert
    <2>3. \A i \in Ids : docs'[i] = IF i = n THEN new ELSE docs[i]
      BY <1>0, <2>1
    <2>4. new.state = "live" /\ new.cidr = work[w].cidr /\ new.parent = q /\ new.vrf = work[w].vrf
      OBVIOUS
    <2> HIDE DEF new
    <2>5. /\ Born' = Born \union {n} /\ n \notin Born /\ Live' = Live \union {n}
          /\ \A i \in Born : docs'[i] = docs[i]
      BY <1>0, <2>1, <2>3, <2>4 DEF Born, Live
    <2>6. Placed
      BY <2>5 DEF Placed
    <2>7. q # None => q \in Born
      BY <1>0 DEF Descent, Traces
    <2>8. Line(U, q) \subseteq Born /\ \A j \in Line(U, q) : U[j] \subseteq Line(U, q)
      BY <1>0, <2>7, LineFacts DEF Line
    <2>9. /\ [U EXCEPT ![n] = Line(U, q)] \in Families /\ [O EXCEPT ![n] = Born] \in Families
      BY <1>0, <2>8 DEF Families
    <2>10. PICK V \in Families, P \in Families :
             /\ V = [U EXCEPT ![n] = Line(U, q)] /\ P = [O EXCEPT ![n] = Born]
      BY <2>9
    <2>11. /\ \A j \in Born : V[j] = U[j] /\ P[j] = O[j]
           /\ V[n] = Line(U, q) /\ P[n] = Born
      BY <2>5, <2>10 DEF Families
    <2>12. Lineage(V, P)'
      <3>1. ASSUME NEW i \in Born
            PROVE  /\ i \notin O[i] /\ O[i] \subseteq Born /\ U[i] \subseteq O[i]
                   /\ \A j \in O[i] : O[j] \subseteq O[i]
                   /\ \A j \in U[i] : U[j] \subseteq U[i]
                   /\ \A j, k \in U[i] : j = k \/ j \in U[k] \/ k \in U[j]
        BY <1>0 DEF Lineage
      <3>2. ASSUME NEW i \in Born
            PROVE  /\ i \notin P[i] /\ P[i] \subseteq Born /\ V[i] \subseteq P[i]
                   /\ \A j \in P[i] : P[j] \subseteq P[i]
                   /\ \A j \in V[i] : V[j] \subseteq V[i]
                   /\ \A j, k \in V[i] : j = k \/ j \in V[k] \/ k \in V[j]
        <4>1. V[i] = U[i] /\ P[i] = O[i]
          BY <2>11
        <4>2. \A j \in O[i] : j \in Born /\ P[j] = O[j]
          BY <2>11, <3>1
        <4>3. \A j \in U[i] : j \in Born /\ V[j] = U[j]
          BY <2>11, <3>1
        <4> QED BY <3>1, <4>1, <4>2, <4>3
      <3>3. \A j \in Born : P[j] \subseteq Born
        BY <3>2
      <3>4. \A j, k \in Line(U, q) : j = k \/ j \in V[k] \/ k \in V[j]
        <4>1. \A j, k \in Line(U, q) : j = k \/ j \in U[k] \/ k \in U[j]
          BY <1>0, <2>7, LineFacts DEF Line
        <4> QED BY <2>8, <2>11, <4>1
      <3>5. \A j \in V[n] : V[j] \subseteq V[n]
        BY <2>8, <2>11
      <3>6. n \notin P[n] /\ V[n] \subseteq P[n] /\ \A j \in P[n] : P[j] \subseteq P[n]
        BY <2>5, <2>8, <2>11, <3>3
      <3>7. \A j, k \in V[n] : j = k \/ j \in V[k] \/ k \in V[j]
        BY <2>11, <3>4
      <3> QED BY <2>5, <2>11, <3>2, <3>5, <3>6, <3>7 DEF Lineage
    <2>13. Replaced(P)'
      <3>1. ASSUME NEW i \in Live', NEW j \in Born', docs'[j].vrf = docs'[i].vrf,
                   docs'[j].cidr = docs'[i].cidr, j # i
            PROVE  docs'[j].state = "deleted" /\ j \in P[i]
        <4>1. \A k \in Ids : docs[k].state \in {"unborn", "live", "deleted"}
          BY <1>0 DEF Subnet
        <4>2. CASE i = n
          <5>1. j \in Born /\ docs'[j] = docs[j]
            BY <2>5, <3>1, <4>2
          <5>2. j \notin Live
            BY <2>2, <2>3, <2>4, <3>1, <4>2, <5>1 DEF Taken, In
          <5> QED BY <2>11, <4>1, <4>2, <5>1, <5>2 DEF Born, Live
        <4>3. CASE i # n /\ j = n
          <5>1. i \in Live /\ docs'[i] = docs[i]
            BY <2>5, <4>3 DEF Live, Born
          <5> QED BY <2>2, <2>3, <2>4, <3>1, <4>3, <5>1 DEF Taken, In
        <4>4. CASE i # n /\ j # n
          <5>1. i \in Live /\ j \in Born /\ docs'[i] = docs[i] /\ docs'[j] = docs[j] /\ P[i] = O[i]
            BY <2>5, <2>11, <4>4 DEF Live, Born
          <5> QED BY <3>1, <5>1 DEF Descent, Replaced
        <4> QED BY <4>2, <4>3, <4>4
      <3> QED BY <3>1 DEF Replaced
    <2>14. ASSUME NEW i \in Born' PROVE Under(V, P, i, docs[i].parent)'
      <3>1. CASE i = n
        <4>1. q # None => q \in Born /\ q # n
          BY <2>5, <2>7
        <4>2. Line(V, q) = Line(U, q)
          BY <2>11, <4>1 DEF Line
        <4>3. V[n] = Line(V, q) /\ n \notin Line(V, q)
          BY <2>5, <2>8, <2>11, <4>2
        <4>4. docs'[n].parent = q
          BY <2>3, <2>4
        <4> QED BY <2>5, <3>1, <4>1, <4>3, <4>4 DEF Under
      <3>2. CASE i # n
        <4>1. i \in Born /\ docs'[i] = docs[i]
          BY <2>5, <3>2
        <4>2. PICK p : p = docs[i].parent /\ p = docs'[i].parent
          BY <4>1
        <4>3. Under(U, O, i, p)
          BY <4>1, <4>2 DEF Descent
        <4>4. Under(V, P, i, p)'
          BY <1>0, <2>6, <2>11, <4>1, <4>3, UnderStays
        <4> QED BY <4>2, <4>4
      <3> QED BY <3>1, <3>2
    <2>15. ASSUME NEW v \in Workers PROVE Traces(V, P, v)'
      <3>1. CASE v # w
        <4>1. work'[v] = work[v]
          BY <1>0, <2>1, <3>1 DEF Finish
        <4> QED BY <1>0, <2>6, <2>11, <4>1, TracesStay DEF Descent
      <3>2. CASE v = w /\ next = "idle"
        <4>1. Finish(w)
          BY <2>1, <3>2, Zenon
        <4>2. work'[v].pc = "idle"
          BY <1>0, <3>2, <4>1, RestIsRequest DEF Finish
        <4> QED BY <4>2 DEF Traces
      <3>3. CASE v = w /\ next = "siblings"
        <4>1. work' = [work EXCEPT ![w].pc = "siblings", ![w].id = n]
          <5>1. next # "idle"
            BY <3>3
          <5> QED BY <2>1, <3>3, <5>1, Zenon
        <4>2. /\ work'[w].pc = "siblings" /\ work'[w].id = n /\ work'[w].parent = q
              /\ work'[w].cidr = work[w].cidr /\ work'[w].vrf = work[w].vrf
          BY <1>0, <4>1 DEF Request
        <4>3. /\ docs'[n].cidr = work[w].cidr /\ docs'[n].vrf = work[w].vrf
              /\ n \in Born' /\ (q # None => q \in Born')
          BY <2>3, <2>4, <2>5, <2>7
        <4>4. V[n] = Line(V, q)
          BY <2>5, <2>7, <2>11 DEF Line
        <4> QED BY <3>3, <4>2, <4>3, <4>4 DEF Traces, Line
      <3> QED BY <3>1, <3>2, <3>3
    <2>16. \A i \in Ids \ Born' : docs'[i].parent = None
      BY <2>3, <2>5 DEF Descent
    <2>17. Descent(V, P)'
      BY <2>12, <2>13, <2>14, <2>15, <2>16 DEF Descent
    <2> QED BY <2>17
  <1> QED BY <1>1, <1>2

\* The siblings have the parent of the new subnet, so that it fits in between.
LEMMA FindSiblingsDescends ==
    ASSUME Typed, OneSpelling, NEW U, NEW O, Descent(U, O), NEW w \in Workers, FindSiblings(w)
    PROVE  Descent(U, O)'
  <1> DEFINE new == work[w].id
             p == work[w].parent
  <1>0. /\ docs \in [Ids -> Subnet] /\ work \in [Workers -> Request]
        /\ work[w].pc = "siblings" /\ UNCHANGED docs /\ Lineage(U, O) /\ None \notin Ids
    BY SubnetTreeAssumption DEF Typed, FindSiblings, Descent
  <1>1. /\ p # None => p \in Born
        /\ new \in Born /\ docs[new].cidr = work[w].cidr /\ docs[new].vrf = work[w].vrf
        /\ U[new] = Line(U, p) /\ new # None
    BY <1>0 DEF Descent, Traces, Born
  <1>2. SameTree
    BY <1>0 DEF SameTree
  <1>3. CASE Finish(w)
    <2>1. work'[w].pc = "idle" /\ OthersWait(w)
      BY <1>0, <1>3, RestIsRequest DEF Finish, OthersWait
    <2>2. Traces(U, O, w)'
      BY <2>1 DEF Traces
    <2> QED BY <1>2, <2>1, <2>2, SameLines
  <1>4. CASE work' = [work EXCEPT ![w].pc = "reparent", ![w].todo = Mine(w)]
    <2>1. /\ work'[w].pc = "reparent" /\ work'[w].todo = Mine(w) /\ work'[w].id = new
          /\ work'[w].cidr = work[w].cidr /\ work'[w].vrf = work[w].vrf
      BY <1>0, <1>4 DEF Request
    <2>2. OthersWait(w)
      BY <1>0, <1>4 DEF OthersWait
    <2>3. ASSUME NEW i \in Mine(w) PROVE i \in Born /\ Under(U, O, i, new)
      <3>1. /\ i \in Live /\ docs[i].vrf = work[w].vrf /\ i # new /\ docs[i].parent = p
            /\ Inside(docs[i].cidr, work[w].cidr)
        BY DEF Mine, In
      <3>2. i \in Born
        BY <3>1 DEF Born, Live
      <3>3. Under(U, O, i, p)
        BY <3>1, <3>2 DEF Descent
      <3>4. Around(O, i, new)
        <4>1. CASE Cover[docs[i].cidr] = Cover[docs[new].cidr]
          <5>1. docs[i].cidr = docs[new].cidr
            BY <1>0, <1>1, <3>2, <4>1 DEF OneSpelling, Born, Subnet
          <5>2. new \in O[i]
            BY <1>1, <3>1, <5>1 DEF Descent, Replaced
          <5> QED BY <1>1, <3>1, <5>2 DEF Around
        <4> QED BY <1>1, <3>1, <4>1 DEF Around
      <3>5. Line(U, new) = {new} \union Line(U, p)
        BY <1>1 DEF Line
      <3> QED BY <1>1, <3>1, <3>2, <3>3, <3>4, <3>5 DEF Under
    <2>4. Born' = Born
      BY <1>0 DEF Born
    <2>5. \A i \in Mine(w) : Under(U, O, i, work[w].id)'
      <3>1. Placed /\ work'[w].id = new
        BY <1>0, <2>1, <2>4 DEF Placed
      <3>2. PICK n : n = new /\ n = work'[w].id
        BY <3>1
      <3>3. \A i \in Mine(w) : Under(U, O, i, n)'
        BY <1>0, <2>3, <3>1, <3>2, UnderStays
      <3> QED BY <3>2, <3>3
    <2>6. Traces(U, O, w)'
      BY <1>0, <1>1, <2>1, <2>3, <2>4, <2>5 DEF Traces
    <2> QED BY <1>2, <2>2, <2>6, SameLines
  <1> QED BY <1>3, <1>4 DEF FindSiblings, Mine

LEMMA ReparentDescends ==
    ASSUME Typed, NEW U, NEW O, Descent(U, O), NEW w \in Workers, Reparent(w)
    PROVE  Descent(U, O)'
  <1> DEFINE new == work[w].id
             mine == work[w].todo \intersect Live
  <1>0. /\ docs \in [Ids -> Subnet] /\ work \in [Workers -> Request]
        /\ work[w].pc = "reparent" /\ Lineage(U, O) /\ new \in Ids
    BY DEF Typed, Reparent, Descent, Request
  <1>1. \A i \in Ids : /\ docs'[i].state = docs[i].state /\ docs'[i].cidr = docs[i].cidr
                       /\ docs'[i].vrf = docs[i].vrf
                       /\ docs'[i].parent = IF i \in mine THEN new ELSE docs[i].parent
    BY <1>0 DEF Reparent, Subnet
  <1>2. work'[w].pc = "idle" /\ OthersWait(w)
    BY <1>0, RestIsRequest DEF Reparent, Finish, OthersWait
  <1>3. Born' = Born /\ Live' = Live /\ mine \subseteq Born
    BY <1>1 DEF Born, Live
  <1>4. Placed
    BY <1>1, <1>3 DEF Placed, Born
  <1>5. Lineage(U, O)'
    BY <1>0, <1>3 DEF Lineage
  <1>6. Replaced(O)'
    BY <1>1, <1>3 DEF Descent, Replaced, Born, Live
  <1>7. ASSUME NEW i \in Born PROVE Under(U, O, i, docs[i].parent)'
    <2>1. PICK p : p = docs'[i].parent /\ p = IF i \in mine THEN new ELSE docs[i].parent
      BY <1>1 DEF Born
    <2>2. Under(U, O, i, p)
      BY <1>0, <2>1 DEF Descent, Traces
    <2>3. Under(U, O, i, p)'
      BY <1>0, <1>4, <2>2, UnderStays
    <2> QED BY <2>1, <2>3
  <1>8. ASSUME NEW v \in Workers PROVE Traces(U, O, v)'
    <2>1. CASE v = w
      BY <1>2, <2>1 DEF Traces
    <2>2. CASE v # w
      BY <1>0, <1>2, <1>4, <2>2, TracesStay DEF Descent, OthersWait
    <2> QED BY <2>1, <2>2
  <1>9. \A i \in Ids \ Born : docs'[i].parent = None
    BY <1>1, <1>3 DEF Descent
  <1> QED BY <1>3, <1>5, <1>6, <1>7, <1>8, <1>9 DEF Descent

\* The steps that change neither subnets nor their parents.
LEMMA OthersDescend ==
    ASSUME Typed, NEW U, NEW O, Descent(U, O), NEW w \in Workers,
           \/ Started(w, QuietStarts) \/ Started(w, {"insert", "import"})
           \/ FindParent(w) \/ CountRecords(w) \/ Delete(w) \/ DeleteVrf(w) \/ InsertRecord(w)
           \/ Fail(w)
    PROVE  Descent(U, O)'
  <1>0. /\ docs \in [Ids -> Subnet] /\ work \in [Workers -> Request] /\ Live \subseteq Born
        /\ None \notin Ids
    BY SubnetTreeAssumption DEF Typed, Live, Born
  <1>1. CASE Started(w, QuietStarts) \/ Started(w, {"insert", "import"})
    <2>1. SameTree /\ OthersWait(w) /\ Born' = Born
      BY <1>0, <1>1 DEF Started, SameTree, OthersWait, Born
    <2>2. /\ work'[w].pc \in QuietStarts \union {"insert", "import"}
          /\ work'[w].pc = "insert" => work'[w].parent \in Born
          /\ work'[w].pc = "import" => work'[w].parent = None
          /\ work'[w].pc = "count" => work'[w].id \in Live
      BY <1>0, <1>1 DEF Started, Born
    <2>3. Traces(U, O, w)'
      BY <1>0, <2>1, <2>2 DEF Traces, QuietStarts
    <2> QED BY <2>1, <2>3, SameLines
  <1>2. CASE FindParent(w)
    <2>1. PICK p \in Live \union {None} :
            work' = [work EXCEPT ![w].pc = "insert", ![w].parent = p]
      BY <1>2 DEF FindParent, In
    <2>2. work'[w].pc = "insert" /\ work'[w].parent = p /\ OthersWait(w)
      BY <1>0, <2>1 DEF Request, OthersWait
    <2>3. SameTree /\ Born' = Born
      BY <1>2 DEF FindParent, SameTree, Born
    <2>4. Traces(U, O, w)'
      BY <1>0, <2>1, <2>2, <2>3 DEF Traces
    <2> QED BY <2>2, <2>3, <2>4, SameLines
  <1>3. CASE CountRecords(w) \/ DeleteVrf(w) \/ InsertRecord(w) \/ Fail(w)
    <2>1. /\ SameTree /\ OthersWait(w)
          /\ \/ work'[w].pc = "idle"
             \/ work[w].pc = "count" /\ work'[w].pc = "delete" /\ work'[w].id = work[w].id
      BY <1>0, <1>3, RestIsRequest DEF CountRecords, DeleteVrf, InsertRecord, Fail, Finish, Goto,
         SameTree, OthersWait, Request
    <2>2. Born' = Born
      BY <1>3 DEF CountRecords, DeleteVrf, InsertRecord, Fail, Born
    <2>3. Traces(U, O, w)
      BY DEF Descent
    <2>4. Traces(U, O, w)'
      BY <2>1, <2>2, <2>3 DEF Traces
    <2> QED BY <2>1, <2>4, SameLines
  <1>4. CASE Delete(w)
    <2>1. OthersWait(w) /\ work'[w].pc = "idle"
      BY <1>0, <1>4, RestIsRequest DEF Delete, Finish, OthersWait
    <2>2. Traces(U, O, w)'
      BY <2>1 DEF Traces
    <2>3. work[w].id \in Born
      BY <1>4 DEF Delete, Descent, Traces
    <2>4. \A i \in Ids : docs'[i] = IF i = work[w].id THEN [docs[i] EXCEPT !.state = "deleted"]
                                    ELSE docs[i]
      BY <1>0, <1>4 DEF Delete
    <2>5. ASSUME NEW i \in Ids
          PROVE  /\ docs'[i].cidr = docs[i].cidr /\ docs'[i].vrf = docs[i].vrf
                 /\ docs'[i].parent = docs[i].parent
                 /\ \/ docs'[i].state = docs[i].state
                    \/ docs[i].state = "live" /\ docs'[i].state = "deleted"
      <3>1. CASE i = work[w].id
        <4>1. docs[i] \in Subnet /\ docs'[i] = [docs[i] EXCEPT !.state = "deleted"]
          BY <1>0, <2>4, <3>1
        <4>2. /\ docs'[i].cidr = docs[i].cidr /\ docs'[i].vrf = docs[i].vrf
              /\ docs'[i].parent = docs[i].parent /\ docs'[i].state = "deleted"
          BY <4>1 DEF Subnet
        <4>3. docs[i].state = "live" \/ docs[i].state = "deleted"
          BY <2>3, <3>1, <4>1 DEF Subnet, Born
        <4> QED BY <4>2, <4>3
      <3>2. CASE i # work[w].id
        BY <2>4, <3>2
      <3> QED BY <3>1, <3>2
    <2>6. SameTree
      BY <2>5 DEF SameTree
    <2> QED BY <2>1, <2>2, <2>6, SameLines
  <1> QED BY <1>1, <1>2, <1>3, <1>4

LEMMA NextDescends == OneSpelling /\ Typed /\ DescentInv /\ [Next]_vars => DescentInv'
  <1> SUFFICES ASSUME OneSpelling, Typed, DescentInv, [Next]_vars, "move" \notin plan'.uses
               PROVE  \E V, P \in Families : Descent(V, P)'
    BY DEF DescentInv
  <1>1. plan' = plan
    BY DEF Next, vars
  <1>2. PICK U \in Families, O \in Families : Descent(U, O)
    BY <1>1 DEF DescentInv
  <1>3. CASE UNCHANGED <<docs, work>>
    <2>1. Born' = Born /\ Live' = Live
      BY <1>3 DEF Born, Live
    <2>2. \A i, p : Under(U, O, i, p)' <=> Under(U, O, i, p)
      BY <1>3, <2>1 DEF Under, Around, Inside, Line
    <2>3. \A v \in Workers : Traces(U, O, v)' <=> Traces(U, O, v)
      BY <1>3, <2>1, <2>2 DEF Traces, Line
    <2>4. Lineage(U, O)' <=> Lineage(U, O)
      BY <2>1 DEF Lineage
    <2>5. Replaced(O)' <=> Replaced(O)
      BY <1>3, <2>1 DEF Replaced
    <2>6. Descent(U, O)'
      BY <1>2, <1>3, <2>1, <2>2, <2>3, <2>4, <2>5 DEF Descent
    <2> QED BY <2>6
  <1>4. ASSUME NEW w \in Workers, Quiet(w)
        PROVE  \E V, P \in Families : Descent(V, P)'
    <2>1. CASE InsertSubnet(w)
      BY <1>2, <2>1, InsertDescends DEF InsertSubnet
    <2>2. CASE ~InsertSubnet(w)
      <3>1. Descent(U, O)'
        BY <1>2, <1>4, <2>2, QuietIs, FindSiblingsDescends, ReparentDescends, OthersDescend
           DEF QuietGoesOn
      <3> QED BY <3>1
    <2> QED BY <2>1, <2>2
  <1>5. ASSUME NEW w \in Workers, LooseStep(w)
        PROVE  \E V, P \in Families : Descent(V, P)'
    <2>1. CASE ImportSubnet(w)
      BY <1>2, <2>1, InsertDescends DEF ImportSubnet
    <2>2. CASE Fail(w) \/ Started(w, {"insert", "import"})
      <3>1. Descent(U, O)'
        BY <1>2, <2>2, OthersDescend
      <3> QED BY <3>1
    <2>3. ~\E i \in Ids, v \in Scopes : MoveVrf(i, v)
      BY <1>1 DEF MoveVrf
    <2> QED BY <1>5, <2>1, <2>2, <2>3, LooseIs
  <1>6. ASSUME NEW i \in Ids, DropRecords(i) PROVE UNCHANGED <<docs, work>>
    BY <1>6 DEF DropRecords
  <1>7. CASE UNCHANGED vars
    BY <1>3, <1>7 DEF vars
  <1> QED BY <1>3, <1>4, <1>5, <1>6, <1>7 DEF Next, Quiet

\* If each network is written one way and subnets do not move between VRFs, no
\* subnets are each other's ancestors, whatever parents were named, whatever ran
\* at the same time and wherever requests stopped (subnet_service.py:76-195,
\* 364-420, device42_sync.py:140-205).
THEOREM SubnetsAcyclic == ASSUME OneSpelling PROVE Spec => []Acyclic
<1>1. Init => DescentInv
  <2> SUFFICES ASSUME Init PROVE \E U, O \in Families : Descent(U, O)
    BY DEF DescentInv
  <2>1. /\ Born = {} /\ Live = {} /\ \A i \in Ids : docs[i].parent = None
        /\ \A w \in Workers : work[w].pc = "idle"
    BY RestIsRequest DEF Init, NoSubnet, Born, Live
  <2>2. PICK U \in Families : U = [i \in Ids |-> {}]
    BY DEF Families
  <2>3. Descent(U, U)
    BY <2>1 DEF Descent, Lineage, Replaced, Traces
  <2> QED BY <2>3
<1>2. Typed /\ DescentInv => Acyclic
  BY DescentHasNoCycle DEF DescentInv, Acyclic
<1>3. Typed /\ DescentInv /\ [Next]_vars => DescentInv'
  BY NextDescends
<1> QED BY <1>1, <1>2, <1>3, InitTyped, NextTyped, PTL DEF Spec
=============================================================================
