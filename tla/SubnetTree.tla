------------------------------ MODULE SubnetTree ------------------------------
(***************************************************************************)
(* Subnets, the tree they form through parent_id, and what hangs on them:  *)
(* IP records and VRFs.                                                    *)
(*                                                                         *)
(* A subnet is put into the tree by three separate operations (look for    *)
(* its parent, insert, take over the siblings it contains), and taken out  *)
(* by three more (look for children, count records, delete).  Importers    *)
(* insert without either search.  Each worker carries out one request      *)
(* after another, one operation of the database per step.                  *)
(***************************************************************************)
EXTENDS Naturals, FiniteSets

CONSTANTS
    Ids,      \* document ids, never used twice
    Cidrs,    \* the prefixes as they are written: one network may have several
    Len,      \* cidr -> prefix length
    Cover,    \* cidr -> the addresses of the network
    Vrfs,
    Global,   \* no VRF
    None,     \* no parent, no document
    Workers,  \* bound: requests handled at the same time
    Plans     \* bound: what a behaviour does, to which networks, and with which VRFs

AllUses == {"create", "explicit", "import", "move", "delete", "record", "vrf", "fail"}

\* Prefixes nest or are disjoint, and the longer one is the inner one.
ASSUME SubnetTreeAssumption ==
    /\ None \notin Ids /\ Global \notin Vrfs /\ IsFiniteSet(Ids)
    /\ IsFiniteSet(Workers) /\ Workers # {}
    /\ Plans \subseteq [uses: SUBSET AllUses, cidrs: SUBSET Cidrs, vrfs: SUBSET Vrfs]
    /\ Cidrs # {} /\ \A n \in Cidrs : Len[n] \in Nat /\ Cover[n] # {}
    /\ \A m, n \in Cidrs :
         \/ Cover[m] \intersect Cover[n] = {}
         \/ Len[m] < Len[n] /\ Cover[n] \subseteq Cover[m] /\ Cover[n] # Cover[m]
         \/ Len[n] < Len[m] /\ Cover[m] \subseteq Cover[n] /\ Cover[m] # Cover[n]
         \/ Len[n] = Len[m] /\ Cover[m] = Cover[n]

VARIABLES
    plan,     \* one of Plans; it does not change
    docs,     \* id -> subnet document
    used,     \* the ids some IP record has as its subnet_id
    vrfs,     \* the VRFs that exist
    work,     \* worker -> the request it handles
    calm      \* history, no code counterpart: so far there were only creations
              \* with a parent that was looked for, records and deletions, one
              \* at a time and each to its end

vars == <<plan, docs, used, vrfs, work, calm>>

-----------------------------------------------------------------------------
(* Documents *)

Scopes == plan.vrfs \union {Global}

\* A document that was deleted keeps its fields in the model, for the
\* properties only.
NoSubnet == [state |-> "unborn", cidr |-> CHOOSE n \in Cidrs : TRUE, vrf |-> Global,
             parent |-> None]
Rest == [pc |-> "idle", cidr |-> CHOOSE n \in Cidrs : TRUE, vrf |-> Global,
         id |-> None, parent |-> None, todo |-> {}]

Live == {i \in Ids : docs[i].state = "live"}
In(v) == {i \in Live : docs[i].vrf = v}

\* The unique index on (vrf_id, cidr) compares what is written.
Taken(n, v) == \E i \in In(v) : docs[i].cidr = n

Inside(m, n) == Cover[m] \subseteq Cover[n]

Init ==
    /\ plan \in Plans
    /\ docs = [i \in Ids |-> NoSubnet]
    /\ used = {}
    /\ vrfs = plan.vrfs
    /\ work = [w \in Workers |-> Rest]
    /\ calm = TRUE

Busy == {w \in Workers : work[w].pc # "idle"}

Goto(w, pc) == work' = [work EXCEPT ![w].pc = pc]
Finish(w) == work' = [work EXCEPT ![w] = Rest]

-----------------------------------------------------------------------------
(* SubnetService.create *)

\* The VRF exists and find_by_cidr finds nothing.
Begin(w, n, v, pc, parent) ==
    /\ work[w].pc = "idle"
    /\ v \in vrfs \union {Global}
    /\ ~Taken(n, v)
    /\ work' = [work EXCEPT ![w] =
                  [Rest EXCEPT !.pc = pc, !.cidr = n, !.vrf = v, !.parent = parent]]
    /\ UNCHANGED <<docs, used, vrfs>>

StartCreate(w, n, v) == "create" \in plan.uses /\ Begin(w, n, v, "parent", None)

\* A parent that is named in the request is taken as it is: any subnet the
\* client has ever seen, wherever it is and if it is still there.
StartCreateUnder(w, n, v, p) ==
    /\ "explicit" \in plan.uses
    /\ docs[p].state # "unborn"
    /\ Begin(w, n, v, "insert", p)

\* Broken variant: the widest network that contains the new one.
FindParentWidest(w) ==
    /\ work[w].pc = "parent"
    /\ LET found == {i \in In(work[w].vrf) : Len[docs[i].cidr] < Len[work[w].cidr]
                                             /\ Inside(work[w].cidr, docs[i].cidr)}
       IN \E p \in IF found = {} THEN {None}
                   ELSE {i \in found : \A j \in found : Len[docs[i].cidr] <= Len[docs[j].cidr]} :
            work' = [work EXCEPT ![w].pc = "insert", ![w].parent = p]
    /\ UNCHANGED <<docs, used, vrfs>>

\* Broken variant: the longest prefix, whether it contains the new one or not.
FindParentAny(w) ==
    /\ work[w].pc = "parent"
    /\ LET found == {i \in In(work[w].vrf) : Len[docs[i].cidr] < Len[work[w].cidr]}
       IN \E p \in IF found = {} THEN {None} ELSE found :
            work' = [work EXCEPT ![w].pc = "insert", ![w].parent = p]
    /\ UNCHANGED <<docs, used, vrfs>>

\* The longest shorter prefix that contains the new one; of two spellings of
\* the same network the one the cursor returns first.
FindParent(w) ==
    /\ work[w].pc = "parent"
    /\ LET found == {i \in In(work[w].vrf) : Len[docs[i].cidr] < Len[work[w].cidr]
                                             /\ Inside(work[w].cidr, docs[i].cidr)}
       IN \E p \in IF found = {} THEN {None}
                   ELSE {i \in found : \A j \in found : Len[docs[j].cidr] <= Len[docs[i].cidr]} :
            work' = [work EXCEPT ![w].pc = "insert", ![w].parent = p]
    /\ UNCHANGED <<docs, used, vrfs>>

\* insert_one, and what the unique index says.
Insert(w, from, next) ==
    /\ work[w].pc = from
    /\ \/ /\ Taken(work[w].cidr, work[w].vrf)
          /\ Finish(w)
          /\ UNCHANGED docs
       \/ /\ ~Taken(work[w].cidr, work[w].vrf)
          /\ \E i \in Ids :
               /\ docs[i].state = "unborn"
               /\ docs' = [docs EXCEPT ![i] = [state |-> "live", cidr |-> work[w].cidr,
                             vrf |-> work[w].vrf, parent |-> work[w].parent]]
               /\ IF next = "idle" THEN Finish(w)
                  ELSE work' = [work EXCEPT ![w].pc = next, ![w].id = i]
    /\ UNCHANGED <<used, vrfs>>

InsertSubnet(w) == Insert(w, "insert", "siblings")

\* Broken variant: the new subnet counts among its siblings.
FindSiblingsAndSelf(w) ==
    /\ work[w].pc = "siblings"
    /\ LET mine == {i \in In(work[w].vrf) : /\ docs[i].parent = work[w].parent
                                            /\ Inside(docs[i].cidr, work[w].cidr)}
       IN IF mine = {} THEN Finish(w)
          ELSE work' = [work EXCEPT ![w].pc = "reparent", ![w].todo = mine]
    /\ UNCHANGED <<docs, used, vrfs>>

\* The subnets under the same parent that the new one contains.
FindSiblings(w) ==
    /\ work[w].pc = "siblings"
    /\ LET mine == {i \in In(work[w].vrf) \ {work[w].id} :
                        /\ docs[i].parent = work[w].parent
                        /\ Inside(docs[i].cidr, work[w].cidr)}
       IN IF mine = {} THEN Finish(w)
          ELSE work' = [work EXCEPT ![w].pc = "reparent", ![w].todo = mine]
    /\ UNCHANGED <<docs, used, vrfs>>

\* update_many by id: whatever their parent is by now.
Reparent(w) ==
    /\ work[w].pc = "reparent"
    /\ docs' = [i \in Ids |-> IF i \in work[w].todo \intersect Live
                              THEN [docs[i] EXCEPT !.parent = work[w].id] ELSE docs[i]]
    /\ Finish(w)
    /\ UNCHANGED <<used, vrfs>>

-----------------------------------------------------------------------------
(* Importers, updates and deletions *)

\* get_or_create_subnet of the Device42 job and the automatic subnets of a
\* network scan: no parent is looked for and no sibling is taken over.
StartImport(w, n) ==
    /\ "import" \in plan.uses
    /\ work[w].pc = "idle"
    /\ ~Taken(n, Global)
    /\ work' = [work EXCEPT ![w] = [Rest EXCEPT !.pc = "import", !.cidr = n]]
    /\ UNCHANGED <<docs, used, vrfs>>

ImportSubnet(w) == Insert(w, "import", "idle")

\* SubnetService.update with a vrf_id: one blind $set, which the unique index
\* may refuse.
MoveVrf(i, v) ==
    /\ "move" \in plan.uses
    /\ i \in Live
    /\ ~Taken(docs[i].cidr, v)
    /\ docs' = [docs EXCEPT ![i].vrf = v]
    /\ UNCHANGED <<used, vrfs, work>>

\* SubnetService.delete: a subnet with children is refused ...
StartDelete(w, i) ==
    /\ "delete" \in plan.uses
    /\ work[w].pc = "idle"
    /\ i \in Live
    /\ ~\E j \in Live : docs[j].parent = i
    /\ work' = [work EXCEPT ![w] = [Rest EXCEPT !.pc = "count", !.id = i]]
    /\ UNCHANGED <<docs, used, vrfs>>

\* ... and so is one with IP records.
CountRecords(w) ==
    /\ work[w].pc = "count"
    /\ IF work[w].id \in used THEN Finish(w) ELSE Goto(w, "delete")
    /\ UNCHANGED <<docs, used, vrfs>>

Delete(w) ==
    /\ work[w].pc = "delete"
    /\ docs' = [docs EXCEPT ![work[w].id].state = "deleted"]
    /\ Finish(w)
    /\ UNCHANGED <<used, vrfs>>

\* IPRecordService.create and the jobs: the subnet is read, the record comes
\* later.
StartRecord(w, i) ==
    /\ "record" \in plan.uses
    /\ work[w].pc = "idle"
    /\ i \in Live \ used
    /\ work' = [work EXCEPT ![w] = [Rest EXCEPT !.pc = "record", !.id = i]]
    /\ UNCHANGED <<docs, used, vrfs>>

InsertRecord(w) ==
    /\ work[w].pc = "record"
    /\ used' = used \union {work[w].id}
    /\ Finish(w)
    /\ UNCHANGED <<docs, vrfs>>

\* The last IP record of a subnet is deleted.
DropRecords(i) ==
    /\ i \in used
    /\ used' = used \ {i}
    /\ UNCHANGED <<docs, vrfs, work>>

\* VRFService.delete: a VRF with subnets is refused, and then it is deleted.
StartDeleteVrf(w, v) ==
    /\ "vrf" \in plan.uses
    /\ work[w].pc = "idle"
    /\ v \in vrfs
    /\ In(v) = {}
    /\ work' = [work EXCEPT ![w] = [Rest EXCEPT !.pc = "vrf", !.vrf = v]]
    /\ UNCHANGED <<docs, used, vrfs>>

DeleteVrf(w) ==
    /\ work[w].pc = "vrf"
    /\ vrfs' = vrfs \ {work[w].vrf}
    /\ Finish(w)
    /\ UNCHANGED <<docs, used>>

\* The request ends where it stands: an error of the database, or the process
\* stops.
Fail(w) ==
    /\ "fail" \in plan.uses
    /\ work[w].pc # "idle"
    /\ Finish(w)
    /\ UNCHANGED <<docs, used, vrfs>>

-----------------------------------------------------------------------------

CreateStep(w) ==
    \/ \E n \in plan.cidrs, v \in Scopes : StartCreate(w, n, v)
    \/ FindParent(w) \/ InsertSubnet(w) \/ FindSiblings(w) \/ Reparent(w)

DeleteStep(w) ==
    \/ \E i \in Ids : StartDelete(w, i)
    \/ CountRecords(w) \/ Delete(w)
    \/ \E v \in Vrfs : StartDeleteVrf(w, v)
    \/ DeleteVrf(w)

RecordStep(w) == (\E i \in Ids : StartRecord(w, i)) \/ InsertRecord(w)

\* What nests no subnet, names its parent, or leaves a request unfinished.
LooseStep(w) ==
    \/ \E n \in plan.cidrs, v \in Scopes, p \in Ids : StartCreateUnder(w, n, v, p)
    \/ \E n \in plan.cidrs : StartImport(w, n)
    \/ ImportSubnet(w)
    \/ \E i \in Ids, v \in Scopes : MoveVrf(i, v)
    \/ Fail(w)

Next ==
    /\ \/ /\ \E w \in Workers : CreateStep(w) \/ DeleteStep(w) \/ RecordStep(w)
          /\ calm' = (calm /\ Cardinality(Busy') <= 1)
       \/ (\E w \in Workers : LooseStep(w)) /\ calm' = FALSE
       \/ (\E i \in Ids : DropRecords(i)) /\ UNCHANGED calm
    /\ UNCHANGED plan

Spec == Init /\ [][Next]_vars

-----------------------------------------------------------------------------
(* SubnetService.build_tree *)

\* Subnets without a parent, and then children of what is in the tree: nothing
\* else is shown.
Grown(v, S) == \A i \in In(v) : docs[i].parent \in S \union {None} => i \in S
Tree(v) == {i \in In(v) : \A S \in SUBSET In(v) : Grown(v, S) => i \in S}

(* Properties *)

TypeOK ==
    /\ docs \in [Ids -> [state: {"unborn", "live", "deleted"}, cidr: Cidrs,
                         vrf: Vrfs \union {Global}, parent: Ids \union {None}]]
    /\ used \in SUBSET Ids
    /\ vrfs \in SUBSET Vrfs
    /\ work \in [Workers -> [pc: {"idle", "parent", "insert", "siblings", "reparent", "import",
                                  "count", "delete", "record", "vrf"},
                             cidr: Cidrs, vrf: Vrfs \union {Global}, id: Ids \union {None},
                             parent: Ids \union {None}, todo: SUBSET Ids]]
    /\ calm \in BOOLEAN
    /\ plan \in Plans

\* The subnet j lies strictly between i and the parent of i.
Between(i, j) ==
    /\ Inside(docs[i].cidr, docs[j].cidr) /\ Cover[docs[i].cidr] # Cover[docs[j].cidr]
    /\ docs[i].parent # None =>
         Len[docs[j].cidr] > Len[docs[docs[i].parent].cidr]

\* "smaller CIDRs become children of larger ones": unless requests overlap or
\* stop half-way, no subnet lies between another one and its parent when a
\* request is over, in whatever order subnets came and went, if each network is
\* written one way.
Nested ==
    calm /\ Busy = {} => \A v \in Scopes : \A i, j \in In(v) : ~Between(i, j)

\* "Load all subnets for a VRF and assemble a nested tree": unless requests
\* overlap or stop half-way, the tree shows every subnet of its VRF, also in
\* the middle of a creation.
AllVisible == calm => \A i \in Live : i \in Tree(docs[i].vrf)

\* A parent that was found automatically, or that took a subnet over, contains
\* it, whatever ran at the same time.
ParentsContain ==
    "explicit" \notin plan.uses =>
        \A i \in Live : docs[i].parent # None => Inside(docs[i].cidr, docs[docs[i].parent].cidr)

\* No subnets are each other's ancestors, whatever parents were named and
\* whatever ran at the same time, if no network is there twice: not in two
\* spellings, and not in two VRFs between which subnets move.
Acyclic ==
    "move" \notin plan.uses =>
        \A S \in SUBSET Ids : S # {} => \E i \in S : docs[i].parent \notin S

==============================================================================
