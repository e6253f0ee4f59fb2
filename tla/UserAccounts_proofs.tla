-------------------------- MODULE UserAccounts_proofs --------------------------
(***************************************************************************)
(* Proofs about the accounts, for any number of accounts, names and        *)
(* requests under way: the documents keep their types and a name has one   *)
(* account; nobody signs in whose registration is undecided; and, while    *)
(* requests come one at a time, decisions stay, an Administrator remains   *)
(* and accounts lock in time.                                              *)
(*                                                                         *)
(* The second needs to know what a request still knows when it writes: an  *)
(* account that a login found approved may have been rejected or deleted   *)
(* since, but is never undecided again, because ids are not used twice and *)
(* no write makes an account pending.                                      *)
(***************************************************************************)
EXTENDS UserAccounts, FiniteSetTheorems, TLAPS

Request == [pc : Pcs, id : Ids \union {None}, doc : Account]

\* The account exists and, unless it was deleted, its registration is decided.
Settled(i) ==
    /\ docs[i].state # "unborn"
    /\ docs[i].state = "live" => docs[i].approval # "pending"

\* What a request holds: a new account that nobody has signed in to yet, or the
\* id of an account, and a settled one when a login has accepted it.
Holds(r) ==
    /\ r.pc \in {"insert", "provision"} => r.doc.state = "live" /\ ~r.doc.signed
    /\ r.pc = "provision" => r.doc.approval = "approved"
    /\ r.pc \notin {"idle", "insert", "provision"} => r.id \in Ids
    /\ r.pc = "success" => r.id \in Ids /\ Settled(r.id)

Held == \A w \in Workers : Holds(work[w])

IInv == Typed /\ OneAccountPerName /\ UndecidedStaysOut /\ Held

-----------------------------------------------------------------------------
(* Records *)

LEMMA NoFailures == 0 \in 0 .. (Attempts - 1)
  BY UserAccountsAssumption

LEMMA RestIsRequest == NoAccount \in Account /\ Rest \in Request
  BY UserAccountsAssumption DEF NoAccount, Rest, Account, Request, Pcs, Roles

LEMMA SeedIsAccount ==
    /\ Seed \in Account
    /\ Seed.state = "live" /\ Seed.approval = "approved" /\ Seed.name = Root
  <1>1. NoAccount \in Account /\ NoAccount.name = Root
    BY RestIsRequest DEF NoAccount
  <1> QED BY <1>1 DEF Seed, Account, Roles

LEMMA Initially == Init => IInv
  <1> SUFFICES ASSUME Init PROVE IInv
    OBVIOUS
  <1>1. PICK i \in Ids : docs = [j \in Ids |-> IF j = i THEN Seed ELSE NoAccount]
    BY DEF Init
  <1>2. NoAccount.state = "unborn" /\ Rest.pc = "idle"
    BY DEF NoAccount, Rest
  <1>3. Typed
    BY <1>1, RestIsRequest, SeedIsAccount DEF Init, Typed, Request
  <1>4. OneAccountPerName /\ UndecidedStaysOut
    BY <1>1, <1>2, SeedIsAccount DEF OneAccountPerName, UndecidedStaysOut, Live
  <1>5. Held
    BY <1>2 DEF Init, Held, Holds
  <1> QED BY <1>3, <1>4, <1>5 DEF IInv

-----------------------------------------------------------------------------
(* One document changes, or one request moves on *)

\* What a step owes to the rest of the invariant when it touches the documents.
DocsKept ==
    /\ docs' \in [Ids -> Account]
    /\ OneAccountPerName' /\ UndecidedStaysOut'
    /\ \A j \in Ids : Settled(j) => Settled(j)'

LEMMA DocsUnchanged == IInv /\ UNCHANGED docs => DocsKept
  BY DEF IInv, Typed, OneAccountPerName, UndecidedStaysOut, Live, DocsKept, Settled

\* A live account is changed or deleted, keeps its name, and does not become
\* undecided, nor signed in while it is.
LEMMA WriteKeeps ==
    ASSUME IInv, NEW i \in Ids, NEW d \in Account,
           docs[i].state = "live", d.state # "unborn",
           d.state = "live" => /\ d.name = docs[i].name
                               /\ d.approval = "pending" =>
                                    docs[i].approval = "pending" /\ ~d.signed,
           docs' = [docs EXCEPT ![i] = d]
    PROVE  DocsKept
  <1>1. docs \in [Ids -> Account]
    BY DEF IInv, Typed
  <1>2. docs' \in [Ids -> Account] /\ \A j \in Ids : docs'[j] = IF j = i THEN d ELSE docs[j]
    BY <1>1
  <1>3. OneAccountPerName'
    BY <1>2 DEF IInv, OneAccountPerName, Live
  <1>4. UndecidedStaysOut'
    BY <1>2 DEF IInv, UndecidedStaysOut, Live
  <1>5. \A j \in Ids : Settled(j) => Settled(j)'
    BY <1>2 DEF Settled
  <1> QED BY <1>2, <1>3, <1>4, <1>5 DEF DocsKept

\* A new account, under a name that nobody has.
LEMMA InsertKeeps ==
    ASSUME IInv, NEW i \in Ids, NEW d \in Account,
           docs[i].state = "unborn", d.state = "live", Named(d.name) = {},
           d.approval = "pending" => ~d.signed,
           docs' = [docs EXCEPT ![i] = d]
    PROVE  DocsKept
  <1>1. docs \in [Ids -> Account]
    BY DEF IInv, Typed
  <1>2. docs' \in [Ids -> Account] /\ \A j \in Ids : docs'[j] = IF j = i THEN d ELSE docs[j]
    BY <1>1
  <1>3. OneAccountPerName'
    BY <1>2 DEF IInv, OneAccountPerName, Live, Named
  <1>4. UndecidedStaysOut'
    BY <1>2 DEF IInv, UndecidedStaysOut, Live
  <1>5. \A j \in Ids : Settled(j) => Settled(j)'
    BY <1>2 DEF Settled
  <1> QED BY <1>2, <1>3, <1>4, <1>5 DEF DocsKept

\* The request of one worker becomes one that holds what it must.
LEMMA RequestKeeps ==
    ASSUME IInv, DocsKept, guesses' \in [Ids -> Nat],
           NEW w \in Workers, NEW r \in Request,
           work' = [work EXCEPT ![w] = r],
           r.pc \in {"insert", "provision"} => r.doc.state = "live" /\ ~r.doc.signed,
           r.pc = "provision" => r.doc.approval = "approved",
           r.pc \notin {"idle", "insert", "provision"} => r.id \in Ids,
           r.pc = "success" => r.id \in Ids /\ Settled(r.id)'
    PROVE  IInv'
  <1>1. work \in [Workers -> Request]
    BY DEF IInv, Typed, Request
  <1>2. work' \in [Workers -> Request] /\ \A v \in Workers : work'[v] = IF v = w THEN r ELSE work[v]
    BY <1>1
  <1>3. Typed'
    BY <1>2 DEF DocsKept, Typed, Request
  <1>4. Held'
    <2> SUFFICES ASSUME NEW v \in Workers PROVE Holds(work[v])'
      BY DEF Held
    <2>1. CASE v = w
      BY <1>2, <2>1 DEF Holds
    <2>2. CASE v # w
      <3>1. Holds(work[v]) /\ work'[v] = work[v]
        BY <1>2, <2>2 DEF IInv, Held
      <3>2. work[v].pc = "success" => Settled(work[v].id)'
        BY <3>1 DEF Holds, DocsKept
      <3> QED BY <3>1, <3>2 DEF Holds
    <2> QED BY <2>1, <2>2
  <1> QED BY <1>3, <1>4 DEF IInv, DocsKept

\* The common case: the request ends.
LEMMA EndKeeps ==
    ASSUME IInv, DocsKept, guesses' \in [Ids -> Nat], NEW w \in Workers, Finish(w)
    PROVE  IInv'
  <1>1. Rest \in Request /\ Rest.pc = "idle"
    BY RestIsRequest DEF Rest
  <1> QED BY <1>1, RequestKeeps DEF Finish

\* A request starts, or goes on, about the account i.
LEMMA TakeKeeps ==
    ASSUME IInv, DocsKept, guesses' \in [Ids -> Nat], NEW w \in Workers,
           NEW pc \in Pcs \ {"idle", "insert", "provision"}, NEW i \in Ids,
           NEW d \in Account, pc = "success" => Settled(i)', Take(w, pc, i, d)
    PROVE  IInv'
  <1> DEFINE r == [pc |-> pc, id |-> i, doc |-> d]
  <1>1. r \in Request /\ r.pc = pc /\ r.id = i
    BY DEF Request
  <1>2. work' = [work EXCEPT ![w] = r]
    BY DEF Take
  <1> HIDE DEF r
  <1> QED BY <1>1, <1>2, RequestKeeps

\* An update by id, which the code sends whether or not the account is still
\* there: what d may be is asked only if it is.
LEMMA SetKeeps ==
    ASSUME IInv, NEW i \in Ids, NEW d \in Account, Set(i, d),
           docs[i].state = "live" => d.state # "unborn",
           docs[i].state = "live" /\ d.state = "live" =>
             /\ d.name = docs[i].name
             /\ d.approval = "pending" => docs[i].approval = "pending" /\ ~d.signed
    PROVE  DocsKept
  <1>1. CASE docs[i].state = "live"
    BY <1>1, WriteKeeps DEF Set
  <1>2. CASE docs[i].state # "live"
    BY <1>2, DocsUnchanged DEF Set
  <1> QED BY <1>1, <1>2

-----------------------------------------------------------------------------
(* A new account *)

LEMMA StartAddKeeps ==
    ASSUME IInv, NEW w \in Workers, NEW n \in Names, StartAdd(w, n)
    PROVE  IInv'
  <1> DEFINE new == [NoAccount EXCEPT !.state = "live", !.name = n]
  <1>1. new \in Account /\ new.state = "live" /\ ~new.signed
    <2>1. NoAccount \in Account /\ ~NoAccount.signed
      BY RestIsRequest DEF NoAccount
    <2> QED BY <2>1 DEF Account
  <1>2. PICK pc \in {"insert", "provision"}, d \in Account :
          /\ d.state = "live" /\ ~d.signed /\ (pc = "provision" => d.approval = "approved")
          /\ Take(w, pc, None, d)
    <2>1. CASE Take(w, "insert", None, new)
      BY <1>1, <2>1
    <2>2. CASE \E r \in Roles : Take(w, "insert", None,
                 [new EXCEPT !.role = r, !.active = TRUE, !.approval = "approved"])
      <3>1. PICK r \in Roles : Take(w, "insert", None,
                   [new EXCEPT !.role = r, !.active = TRUE, !.approval = "approved"])
        BY <2>2
      <3> DEFINE d == [new EXCEPT !.role = r, !.active = TRUE, !.approval = "approved"]
      <3> HIDE DEF new
      <3>2. d \in Account /\ d.state = "live" /\ ~d.signed
        BY <1>1 DEF Account
      <3> HIDE DEF d
      <3> QED BY <3>1, <3>2 DEF d
    <2>3. CASE Take(w, "provision", None,
                 [new EXCEPT !.active = TRUE, !.approval = "approved", !.ldap = TRUE])
      <3> DEFINE d == [new EXCEPT !.active = TRUE, !.approval = "approved", !.ldap = TRUE]
      <3> HIDE DEF new
      <3>2. d \in Account /\ d.state = "live" /\ ~d.signed /\ d.approval = "approved"
        BY <1>1 DEF Account
      <3> HIDE DEF d
      <3> QED BY <2>3, <3>2 DEF d
    <2> QED BY <2>1, <2>2, <2>3 DEF StartAdd
  <1> DEFINE r == [pc |-> pc, id |-> None, doc |-> d]
  <1>3. /\ r \in Request
        /\ r.pc = pc /\ r.doc = d
        /\ work' = [work EXCEPT ![w] = r]
    BY <1>2 DEF Request, Pcs, Take
  <1>4. DocsKept /\ guesses' \in [Ids -> Nat]
    BY DocsUnchanged DEF StartAdd, IInv, Typed
  <1> HIDE DEF r
  <1> QED BY <1>2, <1>3, <1>4, RequestKeeps

LEMMA InsertStepKeeps ==
    ASSUME IInv, NEW w \in Workers, Insert(w)
    PROVE  IInv'
  <1> DEFINE d == work[w].doc
  <1>1. /\ work[w].pc \in {"insert", "provision"}
        /\ d \in Account /\ d.state = "live" /\ ~d.signed
        /\ work[w].pc = "provision" => d.approval = "approved"
    BY DEF Insert, IInv, Typed, Held, Holds
  <1>2. guesses' \in [Ids -> Nat]
    BY DEF Insert, IInv, Typed
  <1>3. CASE UNCHANGED docs /\ Finish(w)
    BY <1>2, <1>3, DocsUnchanged, EndKeeps
  <1>4. ASSUME NEW i \in Ids, docs[i].state = "unborn", Named(d.name) = {},
               docs' = [docs EXCEPT ![i] = d],
               IF work[w].pc = "provision" THEN Take(w, "success", i, NoAccount) ELSE Finish(w)
        PROVE  IInv'
    <2>1. DocsKept
      BY <1>1, <1>4, InsertKeeps
    <2>2. CASE work[w].pc = "provision"
      <3>1. Settled(i)'
        BY <1>1, <1>4, <2>2 DEF Settled, IInv, Typed
      <3> QED BY <1>2, <1>4, <2>1, <2>2, <3>1, TakeKeeps, RestIsRequest DEF Pcs
    <2>3. CASE work[w].pc # "provision"
      BY <1>2, <1>4, <2>1, <2>3, EndKeeps
    <2> QED BY <2>2, <2>3
  <1> QED BY <1>3, <1>4 DEF Insert

-----------------------------------------------------------------------------
(* Decisions *)

\* The requests that go on with an account hold its id.
LEMMA HeldId ==
    ASSUME IInv, NEW w \in Workers,
           work[w].pc \notin {"idle", "insert", "provision"}
    PROVE  /\ work[w].id \in Ids /\ docs[work[w].id] \in Account
           /\ work[w].doc \in Account /\ guesses \in [Ids -> Nat]
  BY DEF IInv, Typed, Held, Holds

LEMMA StartDecideKeeps ==
    ASSUME IInv, NEW w \in Workers, NEW i \in Ids, StartDecide(w, i)
    PROVE  IInv'
  <1>1. DocsKept /\ guesses' \in [Ids -> Nat]
    BY DocsUnchanged DEF StartDecide, IInv, Typed
  <1>2. ASSUME NEW r \in Roles PROVE [NoAccount EXCEPT !.role = r] \in Account
    BY <1>2, RestIsRequest DEF Account
  <1>3. \E pc \in {"approve", "reject"}, d \in Account : Take(w, pc, i, d)
    BY <1>2, RestIsRequest DEF StartDecide
  <1> QED BY <1>1, <1>3, TakeKeeps DEF Pcs

LEMMA ApproveKeeps ==
    ASSUME IInv, NEW w \in Workers, Approve(w)
    PROVE  IInv'
  <1> DEFINE i == work[w].id
             d == [docs[i] EXCEPT !.approval = "approved", !.active = TRUE,
                                  !.role = work[w].doc.role]
  <1>1. i \in Ids /\ docs[i] \in Account /\ work[w].doc.role \in Roles
        /\ guesses' \in [Ids -> Nat]
    BY HeldId DEF Approve, Account
  <1>2. d \in Account /\ d.approval = "approved" /\ d.state = docs[i].state
        /\ d.name = docs[i].name
    BY <1>1 DEF Account
  <1>3. Set(i, d) /\ Finish(w)
    BY DEF Approve
  <1> HIDE DEF d
  <1>4. DocsKept
    BY <1>1, <1>2, <1>3, SetKeeps
  <1> QED BY <1>1, <1>3, <1>4, EndKeeps

LEMMA RejectKeeps ==
    ASSUME IInv, NEW w \in Workers, Reject(w)
    PROVE  IInv'
  <1> DEFINE i == work[w].id
             d == [docs[i] EXCEPT !.approval = "rejected"]
  <1>1. i \in Ids /\ docs[i] \in Account /\ guesses' \in [Ids -> Nat]
    BY HeldId DEF Reject
  <1>2. d \in Account /\ d.approval = "rejected" /\ d.state = docs[i].state
        /\ d.name = docs[i].name
    BY <1>1 DEF Account
  <1>3. Set(i, d) /\ Finish(w)
    BY DEF Reject
  <1> HIDE DEF d
  <1>4. DocsKept
    BY <1>1, <1>2, <1>3, SetKeeps
  <1> QED BY <1>1, <1>3, <1>4, EndKeeps

-----------------------------------------------------------------------------
(* Administration *)

\* delete, deactivate and activate read the account, or count, and go on.
LEMMA StartRemoveKeeps ==
    ASSUME IInv, NEW w \in Workers, NEW i \in Ids,
           StartDelete(w, i) \/ StartDeactivate(w, i) \/ StartActivate(w, i)
    PROVE  IInv'
  <1>1. DocsKept /\ guesses' \in [Ids -> Nat]
    BY DocsUnchanged DEF StartDelete, StartDeactivate, StartActivate, IInv, Typed
  <1>2. \E pc \in {"count_delete", "delete", "count_deactivate", "deactivate", "activate"} :
          Take(w, pc, i, NoAccount)
    BY DEF StartDelete, StartDeactivate, StartActivate
  <1> QED BY <1>1, <1>2, RestIsRequest, TakeKeeps DEF Pcs

LEMMA CountAdminsKeeps ==
    ASSUME IInv, NEW w \in Workers, CountAdmins(w)
    PROVE  IInv'
  <1>1. /\ DocsKept /\ guesses' \in [Ids -> Nat]
        /\ work[w].pc \in {"count_delete", "count_deactivate"}
    BY DocsUnchanged DEF CountAdmins, IInv, Typed
  <1>2. \/ Finish(w)
        \/ \E pc \in {"delete", "deactivate"} : Take(w, pc, work[w].id, NoAccount)
    BY DEF CountAdmins
  <1>3. work[w].id \in Ids
    BY <1>1, HeldId
  <1> QED BY <1>1, <1>2, <1>3, EndKeeps, TakeKeeps, RestIsRequest DEF Pcs

\* A deleted account is none; an active or inactive one keeps name and status.
LEMMA RemoveKeeps ==
    ASSUME IInv, NEW w \in Workers, Delete(w) \/ Deactivate(w) \/ Activate(w)
    PROVE  IInv'
  <1> DEFINE i == work[w].id
             gone == [NoAccount EXCEPT !.state = "deleted"]
             off == [docs[i] EXCEPT !.active = FALSE]
             on == [docs[i] EXCEPT !.active = TRUE]
  <1>1. i \in Ids /\ docs[i] \in Account /\ guesses' \in [Ids -> Nat]
    BY HeldId DEF Delete, Deactivate, Activate
  <1>2. gone \in Account /\ gone.state = "deleted"
    BY RestIsRequest DEF Account
  <1>3. /\ off \in Account /\ on \in Account
        /\ \A d \in {off, on} : /\ d.state = docs[i].state /\ d.name = docs[i].name
                               /\ d.approval = docs[i].approval /\ d.signed = docs[i].signed
    BY <1>1 DEF Account
  <1>4. Finish(w) /\ \E d \in {gone, off, on} : Set(i, d)
    BY DEF Delete, Deactivate, Activate
  <1> HIDE DEF gone, off, on
  <1>5. docs[i].state = "live" /\ docs[i].approval = "pending" => ~docs[i].signed
    BY <1>1 DEF IInv, UndecidedStaysOut, Live
  <1>6. DocsKept
    BY <1>1, <1>2, <1>3, <1>4, <1>5, SetKeeps
  <1> QED BY <1>1, <1>4, <1>6, EndKeeps

\* A step of the invariant that leaves the requests alone.
LEMMA WorkUnchanged ==
    ASSUME IInv, DocsKept, guesses' \in [Ids -> Nat], UNCHANGED work
    PROVE  IInv'
  <1>1. Typed'
    BY DEF IInv, DocsKept, Typed
  <1>2. Held'
    BY DEF IInv, Held, Holds, DocsKept
  <1> QED BY <1>1, <1>2 DEF IInv, DocsKept

LEMMA ChangeRoleKeeps ==
    ASSUME IInv, NEW w \in Workers, NEW i \in Ids, ChangeRole(w, i)
    PROVE  IInv'
  <1>1. PICK r \in Roles : docs' = [docs EXCEPT ![i].role = r]
    BY DEF ChangeRole
  <1> DEFINE d == [docs[i] EXCEPT !.role = r]
  <1>2. docs \in [Ids -> Account] /\ docs[i].state = "live"
    BY DEF ChangeRole, IInv, Typed, Live
  <1>3. /\ d \in Account /\ d.state = docs[i].state /\ d.name = docs[i].name
        /\ d.approval = docs[i].approval /\ d.signed = docs[i].signed
        /\ docs' = [docs EXCEPT ![i] = d]
    BY <1>1, <1>2 DEF Account
  <1> HIDE DEF d
  <1>4. DocsKept
    BY <1>2, <1>3, WriteKeeps DEF IInv, UndecidedStaysOut, Live
  <1> QED BY <1>4, WorkUnchanged DEF ChangeRole, IInv, Typed

-----------------------------------------------------------------------------
(* Signing in *)

\* The account that is accepted is settled.
LEMMA StartLoginKeeps ==
    ASSUME IInv, NEW w \in Workers, NEW i \in Ids, StartLogin(w, i)
    PROVE  IInv'
  <1>1. DocsKept /\ guesses' \in [Ids -> Nat]
    BY DocsUnchanged DEF StartLogin, Guess, IInv, Typed
  <1>2. Settled(i)'
    BY DEF StartLogin, Settled, Live
  <1> DEFINE d == [NoAccount EXCEPT !.fails = docs[i].fails]
  <1>3. d \in Account
    BY RestIsRequest DEF Account, IInv, Typed
  <1>4. Take(w, "success", i, NoAccount) \/ Take(w, "failure", i, d)
    BY DEF StartLogin
  <1> HIDE DEF d
  <1> QED BY <1>1, <1>2, <1>3, <1>4, RestIsRequest, TakeKeeps DEF Pcs

\* The count of failures stays below the limit: at the limit it starts again.
LEMMA CountFailureKeeps ==
    ASSUME IInv, NEW w \in Workers, CountFailure(w)
    PROVE  IInv'
  <1> DEFINE i == work[w].id
             n == work[w].doc.fails + 1
             locks == [docs[i] EXCEPT !.locked = TRUE, !.fails = 0]
             counts == [docs[i] EXCEPT !.fails = n]
             d == IF n >= Attempts THEN locks ELSE counts
  <1>1. /\ i \in Ids /\ docs[i] \in Account /\ guesses' \in [Ids -> Nat]
        /\ work[w].doc.fails \in 0 .. (Attempts - 1)
    BY HeldId DEF CountFailure, Account
  <1>2. /\ locks \in Account
        /\ locks.state = docs[i].state /\ locks.name = docs[i].name
        /\ locks.approval = docs[i].approval /\ locks.signed = docs[i].signed
    BY <1>1, NoFailures DEF Account
  <1>3. /\ n < Attempts => counts \in Account
        /\ counts.state = docs[i].state /\ counts.name = docs[i].name
        /\ counts.approval = docs[i].approval /\ counts.signed = docs[i].signed
    BY <1>1, UserAccountsAssumption DEF Account
  <1>4. n \in Nat /\ Attempts \in Nat
    BY <1>1, UserAccountsAssumption
  <1>5. Set(i, d) /\ Finish(w)
    BY DEF CountFailure
  <1> HIDE DEF locks, counts, n
  <1>6. /\ d \in Account
        /\ d.state = docs[i].state /\ d.name = docs[i].name
        /\ d.approval = docs[i].approval /\ d.signed = docs[i].signed
    BY <1>2, <1>3, <1>4
  <1> HIDE DEF d
  <1>7. docs[i].state = "live" /\ docs[i].approval = "pending" => ~docs[i].signed
    BY <1>1 DEF IInv, UndecidedStaysOut, Live
  <1>8. DocsKept
    BY <1>1, <1>5, <1>6, <1>7, SetKeeps
  <1> QED BY <1>1, <1>5, <1>8, EndKeeps

\* Whatever has become of the account, it is not undecided.
LEMMA SignInKeeps ==
    ASSUME IInv, NEW w \in Workers, SignIn(w)
    PROVE  IInv'
  <1> DEFINE i == work[w].id
             d == [docs[i] EXCEPT !.signed = TRUE, !.fails = 0, !.locked = FALSE]
  <1>1. i \in Ids /\ docs[i] \in Account /\ guesses' \in [Ids -> Nat] /\ Settled(i)
    BY HeldId DEF SignIn, IInv, Held, Holds
  <1>2. d \in Account /\ d.state = docs[i].state /\ d.name = docs[i].name
        /\ d.approval = docs[i].approval
    BY <1>1, NoFailures DEF Account
  <1>3. Set(i, d) /\ Finish(w)
    BY DEF SignIn
  <1> HIDE DEF d
  <1>4. DocsKept
    BY <1>1, <1>2, <1>3, SetKeeps DEF Settled
  <1> QED BY <1>1, <1>3, <1>4, EndKeeps

LEMMA UnlockKeeps ==
    ASSUME IInv, NEW i \in Ids, Unlock(i)
    PROVE  IInv'
  <1> DEFINE d == [docs[i] EXCEPT !.locked = FALSE]
  <1>1. docs \in [Ids -> Account] /\ docs[i].state = "live"
    BY DEF Unlock, IInv, Typed, Live
  <1>2. /\ d \in Account /\ d.state = docs[i].state /\ d.name = docs[i].name
        /\ d.approval = docs[i].approval /\ d.signed = docs[i].signed
        /\ docs' = [docs EXCEPT ![i] = d]
    BY <1>1 DEF Account, Unlock
  <1> HIDE DEF d
  <1>3. DocsKept
    BY <1>1, <1>2, WriteKeeps DEF IInv, UndecidedStaysOut, Live
  <1> QED BY <1>3, WorkUnchanged DEF Unlock, IInv, Typed

\* The requests under way are lost; the seed finds its name taken or free.
LEMMA RestartKeeps ==
    ASSUME IInv, Restart
    PROVE  IInv'
  <1>1. DocsKept
    <2>1. CASE UNCHANGED docs
      BY <2>1, DocsUnchanged
    <2>2. CASE Named(Root) = {} /\ \E i \in Ids : docs[i].state = "unborn"
                                                /\ docs' = [docs EXCEPT ![i] = Seed]
      BY <2>2, SeedIsAccount, InsertKeeps
    <2> QED BY <2>1, <2>2 DEF Restart
  <1>2. Rest \in Request /\ Rest.pc = "idle"
    BY RestIsRequest DEF Rest
  <1>3. Typed' /\ Held'
    BY <1>1, <1>2 DEF Restart, IInv, DocsKept, Typed, Request, Held, Holds
  <1> QED BY <1>1, <1>3 DEF IInv, DocsKept

-----------------------------------------------------------------------------
(* Theorems *)

\* The invariant is inductive.
THEOREM Inductive == Spec => []IInv
  <1>1. ASSUME IInv, [Next]_vars PROVE IInv'
    <2>1. ASSUME NEW w \in Workers, AddStep(w) PROVE IInv'
      BY <1>1, <2>1, StartAddKeeps, InsertStepKeeps DEF AddStep
    <2>2. ASSUME NEW w \in Workers, DecideStep(w) PROVE IInv'
      BY <1>1, <2>2, StartDecideKeeps, ApproveKeeps, RejectKeeps DEF DecideStep
    <2>3. ASSUME NEW w \in Workers, RemoveStep(w) PROVE IInv'
      BY <1>1, <2>3, StartRemoveKeeps, CountAdminsKeeps, RemoveKeeps DEF RemoveStep
    <2>4. ASSUME NEW w \in Workers, LoginStep(w) PROVE IInv'
      BY <1>1, <2>4, StartLoginKeeps, CountFailureKeeps, SignInKeeps DEF LoginStep
    <2>5. ASSUME NEW w \in Workers, NEW i \in Ids, ChangeRole(w, i) PROVE IInv'
      BY <1>1, <2>5, ChangeRoleKeeps
    <2>6. ASSUME NEW i \in Ids, Unlock(i) PROVE IInv'
      BY <1>1, <2>6, UnlockKeeps
    <2>7. CASE Restart
      BY <1>1, <2>7, RestartKeeps
    <2>8. CASE UNCHANGED vars
      BY <1>1, <2>8, DocsUnchanged, WorkUnchanged DEF vars, IInv, Typed
    <2> QED BY <1>1, <2>1, <2>2, <2>3, <2>4, <2>5, <2>6, <2>7, <2>8 DEF Next, HandlerStep
  <1> QED BY <1>1, Initially, PTL DEF Spec

\* The documents and the requests keep their types; the count of failures stays
\* below the limit.
THEOREM TypeCorrect == Spec => []TypeOK
  <1> DEFINE C == calm \in BOOLEAN
  <1>1. Init => C
    BY DEF Init
  <1>2. C /\ [Next]_vars => C'
    BY DEF Next, vars
  <1>3. IInv /\ C => TypeOK
    BY DEF IInv, TypeOK
  <1> HIDE DEF C
  <1> QED BY <1>1, <1>2, <1>3, Inductive, PTL DEF Spec

\* However many requests register, create, provision and seed accounts at the
\* same time, a name has one account.
THEOREM NamesAreUnique == Spec => []OneAccountPerName
  <1>1. IInv => OneAccountPerName
    BY DEF IInv
  <1> QED BY <1>1, Inductive, PTL

\* However many requests decide, activate, change and sign in at the same time,
\* nobody signs in whose registration is undecided.
THEOREM UndecidedNeverSignsIn == Spec => []UndecidedStaysOut
  <1>1. IInv => UndecidedStaysOut
    BY DEF IInv
  <1> QED BY <1>1, Inductive, PTL

-----------------------------------------------------------------------------
(* One request at a time *)

Idle(w) == work[w].pc = "idle"
OneBusy == \A v, w \in Workers : ~Idle(v) /\ ~Idle(w) => v = w

\* Nobody but w has a request under way.
Alone(w) == \A v \in Workers \ {w} : Idle(v)

LEMMA AtMostOne ==
    ASSUME NEW S, IsFiniteSet(S), Cardinality(S) <= 1, NEW x \in S, NEW y \in S
    PROVE  x = y
  <1> SUFFICES ASSUME x # y PROVE FALSE
    OBVIOUS
  <1>1. IsFiniteSet({x}) /\ Cardinality({x}) = 1
    BY FS_Singleton
  <1>2. Cardinality({x} \union {y}) = 2
    BY <1>1, FS_AddElement
  <1>3. Cardinality({x} \union {y}) <= Cardinality(S) /\ Cardinality(S) \in Nat
    BY FS_Subset, FS_CardinalityType
  <1> QED BY <1>2, <1>3

\* A request begins, moves on or ends: it alone, and it is under way before or
\* after.
LEMMA OneMoves ==
    ASSUME IInv, NEW w \in Workers, HandlerStep(w)
    PROVE  /\ \E r : work' = [work EXCEPT ![w] = r]
           /\ ~Idle(w) \/ ~Idle(w)'
  <1>0. work \in [Workers -> Request]
    BY DEF IInv, Typed, Request
  <1>1. ASSUME NEW pc, NEW i, NEW d, Take(w, pc, i, d)
        PROVE  (\E r : work' = [work EXCEPT ![w] = r]) /\ work'[w].pc = pc
    BY <1>0, <1>1 DEF Take
  <1>2. Finish(w) => \E r : work' = [work EXCEPT ![w] = r]
    BY DEF Finish
  <1>3. CASE AddStep(w)
    <2>1. CASE Insert(w)
      <3>1. ~Idle(w)
        BY <2>1 DEF Insert, Idle
      <3>2. \/ Finish(w)
            \/ \E i \in Ids : Take(w, "success", i, NoAccount)
        BY <2>1 DEF Insert
      <3> QED BY <1>1, <1>2, <3>1, <3>2
    <2>2. ASSUME NEW n \in Names, StartAdd(w, n)
          PROVE  \E pc \in {"insert", "provision"} : \E d : Take(w, pc, None, d)
      BY <2>2 DEF StartAdd
    <2> QED BY <1>1, <1>3, <2>1, <2>2 DEF AddStep, Idle
  <1>4. CASE DecideStep(w)
    <2>1. CASE Approve(w) \/ Reject(w)
      BY <1>2, <2>1 DEF Approve, Reject, Idle
    <2>2. ASSUME NEW i \in Ids, StartDecide(w, i)
          PROVE  \E pc \in {"approve", "reject"} : \E d : Take(w, pc, i, d)
      BY <2>2 DEF StartDecide
    <2> QED BY <1>1, <1>4, <2>1, <2>2 DEF DecideStep, Idle
  <1>5. CASE RemoveStep(w)
    <2>1. CASE Delete(w) \/ Deactivate(w) \/ Activate(w)
      BY <1>2, <2>1 DEF Delete, Deactivate, Activate, Idle
    <2>2. CASE CountAdmins(w)
      <3>1. Finish(w) \/ \E pc, i : Take(w, pc, i, NoAccount)
        BY <2>2 DEF CountAdmins
      <3>2. ~Idle(w)
        BY <2>2 DEF CountAdmins, Idle
      <3> QED BY <1>1, <1>2, <3>1, <3>2
    <2>3. ASSUME NEW i \in Ids, StartDelete(w, i) \/ StartDeactivate(w, i) \/ StartActivate(w, i)
          PROVE  \E pc \in Pcs \ {"idle"} : Take(w, pc, i, NoAccount)
      BY <2>3 DEF StartDelete, StartDeactivate, StartActivate, Pcs
    <2> QED BY <1>1, <1>5, <2>1, <2>2, <2>3 DEF RemoveStep, Idle
  <1>6. CASE LoginStep(w)
    <2>1. CASE CountFailure(w) \/ SignIn(w)
      BY <1>2, <2>1 DEF CountFailure, SignIn, Idle
    <2>2. ASSUME NEW i \in Ids, StartLogin(w, i)
          PROVE  \E pc \in {"success", "failure"} : \E d : Take(w, pc, i, d)
      BY <2>2 DEF StartLogin
    <2> QED BY <1>1, <1>6, <2>1, <2>2 DEF LoginStep, Idle
  <1> QED BY <1>3, <1>4, <1>5, <1>6 DEF HandlerStep

\* While it is calm, the request that moves is the only one.
LEMMA MovesAlone ==
    ASSUME IInv, OneBusy, NEW w \in Workers, HandlerStep(w), Cardinality(Busy') <= 1
    PROVE  Alone(w) /\ Alone(w)' /\ OneBusy'
  <1>1. \A v \in Workers \ {w} : Idle(v)' <=> Idle(v)
    BY OneMoves DEF Idle, IInv, Typed
  <1>2. CASE ~Idle(w)
    BY <1>1, <1>2 DEF OneBusy, Alone
  <1>3. CASE ~Idle(w)'
    <2>1. Busy' = {v \in Workers : ~Idle(v)'}
      BY DEF Busy, Idle
    <2>2. IsFiniteSet(Busy')
      BY <2>1, FS_Subset, UserAccountsAssumption
    <2>3. \A v \in Workers : ~Idle(v)' => v = w
      <3> DEFINE S == Busy'
      <3>1. w \in S /\ \A v \in Workers : ~Idle(v)' => v \in S
        BY <1>3, <2>1
      <3>2. IsFiniteSet(S) /\ Cardinality(S) <= 1
        BY <2>2
      <3> HIDE DEF S
      <3> QED BY <3>1, <3>2, AtMostOne
    <2> QED BY <1>1, <2>3 DEF OneBusy, Alone
  <1> QED BY <1>2, <1>3, OneMoves

-----------------------------------------------------------------------------
(* What the only request knows *)

\* A wrong password has been compared and is not counted yet.
Failed(w) ==
    LET i == work[w].id
    IN /\ docs[i].state = "live" /\ ~docs[i].locked
       /\ work[w].doc.fails = docs[i].fails /\ guesses[i] = docs[i].fails + 1

\* What a request found still holds when it writes, if nobody else was there.
Knows(w) ==
    /\ work[w].pc \in {"insert", "provision"} => work[w].doc.fails = 0 /\ ~work[w].doc.locked
    /\ work[w].pc \in {"approve", "reject"} =>
         (docs[work[w].id].state = "live" => docs[work[w].id].approval = "pending")
    /\ work[w].pc \in {"delete", "deactivate"} => ActiveAdmins # {work[w].id}
    /\ work[w].pc = "failure" => Failed(w)

\* The count in the document is the number of wrong passwords, or they have
\* locked the account.
Plain(i) ==
    /\ docs[i].state = "unborn" => guesses[i] = 0
    /\ docs[i].state = "live" =>
         IF docs[i].locked THEN docs[i].fails = 0 /\ guesses[i] <= Attempts
         ELSE guesses[i] = docs[i].fails

Failing(i) == \E w \in Workers : work[w].pc = "failure" /\ work[w].id = i

Counted == \A i \in Ids : Plain(i) \/ Failing(i)

CalmInv ==
    calm => OneBusy /\ (\A w \in Workers : Alone(w) => Knows(w)) /\ Counted

\* Only the request that is alone can have a password not counted.
LEMMA OthersPlain ==
    ASSUME Counted, NEW w \in Workers, Alone(w), NEW i \in Ids,
           work[w].pc = "failure" => work[w].id # i
    PROVE  Plain(i)
  BY DEF Counted, Alone, Idle, Failing

\* An update by id, document by document.
LEMMA SetIs ==
    ASSUME IInv, NEW i \in Ids, NEW d, Set(i, d)
    PROVE  \A j \in Ids : docs'[j] = IF j = i /\ docs[i].state = "live" THEN d ELSE docs[j]
  BY DEF Set, IInv, Typed

LEMMA FinishIs ==
    ASSUME IInv, NEW w \in Workers, Finish(w)
    PROVE  work'[w].pc = "idle"
  BY DEF Finish, Rest, IInv, Typed

LEMMA TakeIs ==
    ASSUME IInv, NEW w \in Workers, NEW pc, NEW i, NEW d, Take(w, pc, i, d)
    PROVE  work'[w].pc = pc /\ work'[w].id = i /\ work'[w].doc = d
  BY DEF Take, IInv, Typed

LEMMA AddStepKnows ==
    ASSUME IInv, NEW w \in Workers, AddStep(w), Alone(w), Knows(w), Counted
    PROVE  Knows(w)' /\ Counted'
  <1>1. ASSUME NEW n \in Names, StartAdd(w, n)
        PROVE  Knows(w)' /\ Counted'
    <2>1. \E pc \in {"insert", "provision"} : \E d : /\ Take(w, pc, None, d)
                                                 /\ d.fails = 0 /\ ~d.locked
      <3> DEFINE new == [NoAccount EXCEPT !.state = "live", !.name = n]
      <3>1. new.fails = 0 /\ ~new.locked /\ DOMAIN new = DOMAIN NoAccount
        BY DEF NoAccount
      <3>2. \A r \in Roles : LET d == [new EXCEPT !.role = r, !.active = TRUE, !.approval = "approved"]
                             IN d.fails = 0 /\ ~d.locked
        BY <3>1
      <3>3. LET d == [new EXCEPT !.active = TRUE, !.approval = "approved", !.ldap = TRUE]
            IN d.fails = 0 /\ ~d.locked
        BY <3>1
      <3> HIDE DEF new
      <3>4. \/ Take(w, "insert", None, new)
            \/ \E r \in Roles : Take(w, "insert", None,
                 [new EXCEPT !.role = r, !.active = TRUE, !.approval = "approved"])
            \/ Take(w, "provision", None,
                 [new EXCEPT !.active = TRUE, !.approval = "approved", !.ldap = TRUE])
        BY <1>1 DEF StartAdd, new
      <3> QED BY <3>1, <3>2, <3>3, <3>4
    <2>2. Knows(w)'
      BY <2>1, TakeIs DEF Knows
    <2>3. UNCHANGED <<docs, guesses>> /\ work[w].pc # "failure"
      BY <1>1 DEF StartAdd
    <2>4. \A i \in Ids : Plain(i)
      BY <2>3, OthersPlain
    <2> QED BY <2>2, <2>3, <2>4 DEF Counted, Plain
  <1>2. CASE Insert(w)
    <2> DEFINE d == work[w].doc
    <2>1. /\ work[w].pc \in {"insert", "provision"} /\ UNCHANGED guesses
          /\ d.fails = 0 /\ ~d.locked /\ d.state = "live"
      BY <1>2 DEF Insert, Knows, IInv, Held, Holds
    <2>2. \A i \in Ids : Plain(i)
      BY <2>1, OthersPlain
    <2>3. Knows(w)'
      <3>1. Finish(w) \/ \E i \in Ids : Take(w, "success", i, NoAccount)
        BY <1>2 DEF Insert
      <3> QED BY <3>1, FinishIs, TakeIs DEF Knows
    <2>4. \/ UNCHANGED docs
          \/ \E i \in Ids : docs[i].state = "unborn" /\ docs' = [docs EXCEPT ![i] = d]
      BY <1>2 DEF Insert
    <2> QED BY <2>1, <2>2, <2>3, <2>4 DEF Counted, Plain, IInv, Typed
  <1> QED BY <1>1, <1>2 DEF AddStep

\* A change of an account that leaves its count and its lock alone, or deletes
\* it.
LEMMA SetCounts ==
    ASSUME IInv, NEW i \in Ids, NEW d, Set(i, d), UNCHANGED guesses, \A j \in Ids : Plain(j),
           docs[i].state = "live" =>
             \/ d.state = "deleted"
             \/ d.state = "live" /\ d.fails = docs[i].fails /\ d.locked = docs[i].locked
    PROVE  Counted'
  BY SetIs DEF Counted, Plain

LEMMA DecideStepKnows ==
    ASSUME IInv, NEW w \in Workers, DecideStep(w), Alone(w), Knows(w), Counted
    PROVE  Knows(w)' /\ Counted'
  <1>0. work[w].pc # "failure" => \A i \in Ids : Plain(i)
    BY OthersPlain
  <1>1. ASSUME NEW i \in Ids, StartDecide(w, i)
        PROVE  Knows(w)' /\ Counted'
    <2>1. /\ \E pc \in {"approve", "reject"} : \E d : Take(w, pc, i, d)
          /\ docs[i].approval = "pending" /\ UNCHANGED <<docs, guesses>>
          /\ work[w].pc # "failure"
      BY <1>1 DEF StartDecide
    <2>2. Knows(w)'
      BY <2>1, TakeIs DEF Knows
    <2> QED BY <1>0, <2>1, <2>2 DEF Counted, Plain
  <1>2. CASE Approve(w)
    <2> DEFINE i == work[w].id
               d == [docs[i] EXCEPT !.approval = "approved", !.active = TRUE,
                                    !.role = work[w].doc.role]
    <2>1. i \in Ids /\ docs[i] \in Account /\ work[w].pc # "failure"
      BY <1>2, HeldId DEF Approve
    <2>2. d.state = docs[i].state /\ d.fails = docs[i].fails /\ d.locked = docs[i].locked
      BY <2>1 DEF Account
    <2>3. Set(i, d) /\ Finish(w) /\ UNCHANGED guesses
      BY <1>2 DEF Approve
    <2> HIDE DEF d
    <2>4. Counted'
      BY <1>0, <2>1, <2>2, <2>3, SetCounts
    <2> QED BY <2>3, <2>4, FinishIs DEF Knows
  <1>3. CASE Reject(w)
    <2> DEFINE i == work[w].id
               d == [docs[i] EXCEPT !.approval = "rejected"]
    <2>1. i \in Ids /\ docs[i] \in Account /\ work[w].pc # "failure"
      BY <1>3, HeldId DEF Reject
    <2>2. d.state = docs[i].state /\ d.fails = docs[i].fails /\ d.locked = docs[i].locked
      BY <2>1 DEF Account
    <2>3. Set(i, d) /\ Finish(w) /\ UNCHANGED guesses
      BY <1>3 DEF Reject
    <2> HIDE DEF d
    <2>4. Counted'
      BY <1>0, <2>1, <2>2, <2>3, SetCounts
    <2> QED BY <2>3, <2>4, FinishIs DEF Knows
  <1> QED BY <1>1, <1>2, <1>3 DEF DecideStep

LEMMA RemoveStepKnows ==
    ASSUME IInv, NEW w \in Workers, RemoveStep(w), Alone(w), Knows(w), Counted
    PROVE  Knows(w)' /\ Counted'
  <1>0. work[w].pc # "failure" => \A i \in Ids : Plain(i)
    BY OthersPlain
  <1>1. ASSUME NEW pc \in {"count_delete", "delete", "count_deactivate", "deactivate", "activate"},
               NEW i, Take(w, pc, i, NoAccount), work[w].pc # "failure", UNCHANGED <<docs, guesses>>,
               pc \in {"delete", "deactivate"} => ActiveAdmins # {i}
        PROVE  Knows(w)' /\ Counted'
    <2>1. work'[w].pc = pc /\ work'[w].id = i /\ ActiveAdmins' = ActiveAdmins
      BY <1>1, TakeIs DEF ActiveAdmins, Live
    <2>2. Knows(w)'
      BY <1>1, <2>1 DEF Knows
    <2> QED BY <1>0, <1>1, <2>2 DEF Counted, Plain
  <1>2. ASSUME NEW i \in Ids, StartDelete(w, i)
        PROVE  Knows(w)' /\ Counted'
    <2>1. \E pc \in {"count_delete", "delete"} : Take(w, pc, i, NoAccount)
                                                 /\ (pc = "delete" => i \notin ActiveAdmins)
      BY <1>2 DEF StartDelete
    <2> QED BY <1>1, <1>2, <2>1 DEF StartDelete
  <1>3. ASSUME NEW i \in Ids, StartDeactivate(w, i)
        PROVE  Knows(w)' /\ Counted'
    <2>1. \E pc \in {"count_deactivate", "deactivate"} :
            Take(w, pc, i, NoAccount) /\ (pc = "deactivate" => i \notin ActiveAdmins)
      BY <1>3 DEF StartDeactivate, ActiveAdmins
    <2> QED BY <1>1, <1>3, <2>1 DEF StartDeactivate
  <1>4. ASSUME NEW i \in Ids, StartActivate(w, i)
        PROVE  Knows(w)' /\ Counted'
    BY <1>1, <1>4 DEF StartActivate
  <1>5. CASE CountAdmins(w)
    <2>1. work[w].pc # "failure" /\ UNCHANGED <<docs, guesses>>
      BY <1>5 DEF CountAdmins
    <2>2. CASE Finish(w)
      BY <1>0, <2>1, <2>2, FinishIs DEF Knows, Counted, Plain
    <2>3. CASE ~Finish(w)
      <3>1. /\ Cardinality(ActiveAdmins) > 1
            /\ \E pc \in {"delete", "deactivate"} : Take(w, pc, work[w].id, NoAccount)
        BY <1>5, <2>3 DEF CountAdmins
      <3>2. Cardinality({work[w].id}) = 1
        BY FS_Singleton
      <3>3. ActiveAdmins # {work[w].id}
        BY <3>1, <3>2
      <3> QED BY <1>1, <2>1, <3>1, <3>3
    <2> QED BY <2>2, <2>3
  <1>6. CASE Delete(w) \/ Deactivate(w) \/ Activate(w)
    <2> DEFINE i == work[w].id
               gone == [NoAccount EXCEPT !.state = "deleted"]
               off == [docs[i] EXCEPT !.active = FALSE]
               on == [docs[i] EXCEPT !.active = TRUE]
    <2>1. i \in Ids /\ docs[i] \in Account /\ work[w].pc # "failure"
      BY <1>6, HeldId DEF Delete, Deactivate, Activate
    <2>2. gone.state = "deleted"
      BY DEF NoAccount
    <2>3. \A d \in {off, on} : /\ d.state = docs[i].state /\ d.fails = docs[i].fails
                               /\ d.locked = docs[i].locked
      BY <2>1 DEF Account
    <2>4. Finish(w) /\ UNCHANGED guesses /\ \E d \in {gone, off, on} : Set(i, d)
      BY <1>6 DEF Delete, Deactivate, Activate
    <2> HIDE DEF gone, off, on
    <2>5. Counted'
      BY <1>0, <2>1, <2>2, <2>3, <2>4, SetCounts
    <2> QED BY <2>4, <2>5, FinishIs DEF Knows
  <1> QED BY <1>2, <1>3, <1>4, <1>5, <1>6 DEF RemoveStep

LEMMA LoginStepKnows ==
    ASSUME IInv, NEW w \in Workers, LoginStep(w), Alone(w), Knows(w), Counted
    PROVE  Knows(w)' /\ Counted'
  <1>0. /\ docs \in [Ids -> Account] /\ guesses \in [Ids -> Nat] /\ Attempts \in Nat \ {0}
        /\ \A i \in Ids : docs[i].fails \in 0 .. (Attempts - 1)
    BY UserAccountsAssumption DEF IInv, Typed, Account
  <1>1. ASSUME NEW i \in Ids, StartLogin(w, i)
        PROVE  Knows(w)' /\ Counted'
    <2>1. /\ work[w].pc = "idle" /\ UNCHANGED docs
          /\ docs[i].state = "live" /\ ~docs[i].locked
      BY <1>1 DEF StartLogin, Live
    <2>2. \A j \in Ids : Plain(j)
      BY <2>1, OthersPlain
    <2>3. CASE Take(w, "success", i, NoAccount) /\ UNCHANGED guesses
      <3>1. work'[w].pc = "success"
        BY <2>3, TakeIs
      <3> QED BY <2>1, <2>2, <2>3, <3>1 DEF Knows, Counted, Plain
    <2>4. CASE Take(w, "failure", i, [NoAccount EXCEPT !.fails = docs[i].fails]) /\ Guess(i)
      <3> DEFINE d == [NoAccount EXCEPT !.fails = docs[i].fails]
      <3>1. d.fails = docs[i].fails
        BY DEF NoAccount
      <3> HIDE DEF d
      <3>2. work'[w].pc = "failure" /\ work'[w].id = i /\ work'[w].doc = d
        BY <2>4, TakeIs DEF d
      <3>3. guesses[i] = docs[i].fails /\ ~(guesses[i] > Attempts)
        BY <1>0, <2>1, <2>2 DEF Plain
      <3>4. \A j \in Ids : guesses'[j] = IF j = i THEN docs[i].fails + 1 ELSE guesses[j]
        BY <1>0, <2>4, <3>3 DEF Guess
      <3>5. Knows(w)'
        BY <2>1, <3>1, <3>2, <3>4 DEF Knows, Failed
      <3>6. \A j \in Ids \ {i} : Plain(j)'
        BY <2>1, <2>2, <3>4 DEF Plain
      <3>7. Failing(i)'
        BY <3>2 DEF Failing
      <3> QED BY <3>5, <3>6, <3>7 DEF Counted
    <2> QED BY <1>1, <2>3, <2>4 DEF StartLogin
  <1>2. CASE CountFailure(w)
    <2> DEFINE i == work[w].id
               n == work[w].doc.fails + 1
               locks == [docs[i] EXCEPT !.locked = TRUE, !.fails = 0]
               counts == [docs[i] EXCEPT !.fails = n]
               d == IF n >= Attempts THEN locks ELSE counts
    <2>1. i \in Ids /\ docs[i] \in Account /\ Failed(w)
      BY <1>2, HeldId DEF CountFailure, Knows
    <2>2. locks.locked /\ locks.fails = 0 /\ locks.state = docs[i].state
      BY <2>1 DEF Account
    <2>3. counts.locked = docs[i].locked /\ counts.fails = n /\ counts.state = docs[i].state
      BY <2>1 DEF Account
    <2>4. Set(i, d) /\ Finish(w) /\ UNCHANGED guesses
      BY <1>2 DEF CountFailure
    <2> HIDE DEF locks, counts
    <2>5. docs[i].state = "live" /\ ~docs[i].locked /\ n = docs[i].fails + 1 /\ guesses[i] = n
          /\ n <= Attempts
      BY <1>0, <2>1 DEF Failed
    <2> HIDE DEF d, n
    <2>6. /\ d.state = "live" /\ (IF d.locked THEN d.fails = 0 ELSE d.fails = n)
      BY <2>2, <2>3, <2>5 DEF d
    <2>7. \A j \in Ids : docs'[j] = IF j = i THEN d ELSE docs[j]
      BY <2>1, <2>4, <2>5, SetIs
    <2>8. \A j \in Ids \ {i} : Plain(j)
      BY OthersPlain
    <2>9. Counted'
      BY <2>1, <2>4, <2>5, <2>6, <2>7, <2>8 DEF Counted, Plain
    <2> QED BY <2>4, <2>9, FinishIs DEF Knows
  <1>3. CASE SignIn(w)
    <2> DEFINE i == work[w].id
               d == [docs[i] EXCEPT !.signed = TRUE, !.fails = 0, !.locked = FALSE]
    <2>1. i \in Ids /\ docs[i] \in Account /\ work[w].pc = "success"
      BY <1>3, HeldId DEF SignIn
    <2>2. d.fails = 0 /\ ~d.locked
      BY <2>1 DEF Account
    <2>3. Set(i, d) /\ Finish(w) /\ guesses' = [guesses EXCEPT ![i] = 0]
      BY <1>3 DEF SignIn
    <2> HIDE DEF d
    <2>4. \A j \in Ids : Plain(j)
      BY <2>1, OthersPlain
    <2>5. \A j \in Ids : guesses'[j] = IF j = i THEN 0 ELSE guesses[j]
      BY <1>0, <2>3
    <2>6. \A j \in Ids : Plain(j)'
      BY <2>1, <2>2, <2>3, <2>4, <2>5, SetIs DEF Plain
    <2> QED BY <2>3, <2>6, FinishIs DEF Knows, Counted
  <1> QED BY <1>1, <1>2, <1>3 DEF LoginStep

-----------------------------------------------------------------------------
(* What holds while it is calm *)

\* The seed is an account that nobody has tried yet.
LEMMA RestartCounts ==
    ASSUME IInv, Restart, \A i \in Ids : Plain(i)
    PROVE  Counted'
  <1>1. Seed.fails = 0 /\ ~Seed.locked
    BY DEF Seed, NoAccount
  <1> QED BY <1>1 DEF Restart, Counted, Plain, IInv, Typed

LEMMA CalmNext == IInv /\ CalmInv /\ [Next]_vars => CalmInv'
  <1> SUFFICES ASSUME IInv, CalmInv, [Next]_vars, calm' PROVE CalmInv'
    BY DEF CalmInv
  <1>1. ASSUME NEW w \in Workers, HandlerStep(w), calm' = (calm /\ Cardinality(Busy') <= 1)
        PROVE  CalmInv'
    <2>1. calm /\ Cardinality(Busy') <= 1
      BY <1>1, Zenon
    <2>2. Alone(w) /\ Alone(w)' /\ OneBusy' /\ Knows(w) /\ Counted
      BY <1>1, <2>1, MovesAlone DEF CalmInv
    <2>3. Knows(w)' /\ Counted'
      BY <1>1, <2>2, AddStepKnows, DecideStepKnows, RemoveStepKnows, LoginStepKnows DEF HandlerStep
    <2>4. ASSUME NEW v \in Workers, Alone(v)'
          PROVE  Knows(v)'
      <3>1. CASE v = w
        BY <2>3, <3>1
      <3>2. CASE v # w
        BY <2>2, <3>2 DEF Alone, Idle, Knows
      <3> QED BY <3>1, <3>2
    <2> QED BY <2>2, <2>3, <2>4 DEF CalmInv
  <1>2. ASSUME calm' = (calm /\ Busy = {}), Restart \/ \E w \in Workers, i \in Ids : ChangeRole(w, i)
        PROVE  CalmInv'
    <2>1. calm /\ Busy = {}
      BY <1>2, Zenon
    <2>2. \A w \in Workers : Idle(w)
      BY <2>1 DEF Busy, Idle
    <2>3. \A i \in Ids : Plain(i)
      BY <2>1, <2>2 DEF CalmInv, Counted, Failing, Idle
    <2>4. CASE Restart
      <3>1. \A w \in Workers : Idle(w)'
        BY <2>4 DEF Restart, Rest, Idle
      <3> QED BY <2>3, <2>4, <3>1, RestartCounts DEF CalmInv, OneBusy, Knows, Idle
    <2>5. ASSUME NEW w \in Workers, NEW i \in Ids, ChangeRole(w, i)
          PROVE  CalmInv'
      <3>1. UNCHANGED <<work, guesses>> /\ \E r \in Roles : docs' = [docs EXCEPT ![i].role = r]
        BY <2>5 DEF ChangeRole
      <3>2. \A j \in Ids : /\ docs'[j].state = docs[j].state /\ docs'[j].fails = docs[j].fails
                           /\ docs'[j].locked = docs[j].locked
        BY <3>1 DEF IInv, Typed, Account
      <3>3. \A v \in Workers : Idle(v)'
        BY <2>2, <3>1 DEF Idle
      <3> QED BY <2>3, <3>1, <3>2, <3>3 DEF CalmInv, OneBusy, Knows, Idle, Counted, Plain
    <2> QED BY <1>2, <2>4, <2>5
  <1>3. ASSUME NEW i \in Ids, Unlock(i), UNCHANGED calm
        PROVE  CalmInv'
    <2>1. /\ docs \in [Ids -> Account] /\ guesses \in [Ids -> Nat]
          /\ docs[i].locked /\ docs[i].state = "live" /\ UNCHANGED work /\ calm
      BY <1>3 DEF Unlock, IInv, Typed, Live
    <2>2. \A j \in Ids : /\ docs'[j].state = docs[j].state /\ docs'[j].fails = docs[j].fails
                         /\ docs'[j].approval = docs[j].approval
                         /\ docs'[j].role = docs[j].role /\ docs'[j].active = docs[j].active
                         /\ j # i => docs'[j].locked = docs[j].locked /\ guesses'[j] = guesses[j]
      BY <1>3, <2>1 DEF Unlock, Account
    <2>3. ~docs'[i].locked /\ guesses'[i] = 0
      BY <1>3, <2>1 DEF Unlock, Account
    <2>4. ActiveAdmins' = ActiveAdmins
      BY <2>2 DEF ActiveAdmins, Live
    <2>5. OneBusy' /\ Counted /\ \A w \in Workers : Alone(w)' => Alone(w) /\ Knows(w)
      BY <2>1 DEF CalmInv, OneBusy, Alone, Idle
    <2>6. ASSUME NEW w \in Workers, Knows(w)
          PROVE  Knows(w)'
      <3>1. work[w].pc \notin {"idle", "insert", "provision"} => work[w].id \in Ids
        BY DEF IInv, Held, Holds
      <3>2. work[w].pc = "failure" => Failed(w)'
        BY <2>1, <2>2, <2>6, <3>1 DEF Knows, Failed
      <3> QED BY <2>1, <2>2, <2>4, <2>6, <3>1, <3>2 DEF Knows
    <2>7. ASSUME NEW j \in Ids
          PROVE  Plain(j)' \/ Failing(j)'
      <3>1. CASE Failing(j)
        BY <2>1, <3>1 DEF Failing
      <3>2. CASE ~Failing(j)
        <4>1. Plain(j)
          BY <2>5, <3>2 DEF Counted
        <4> QED BY <2>1, <2>2, <2>3, <4>1 DEF Plain
      <3> QED BY <3>1, <3>2
    <2> QED BY <2>5, <2>6, <2>7 DEF CalmInv, Counted
  <1>4. CASE UNCHANGED vars
    BY <1>4 DEF vars, CalmInv, OneBusy, Alone, Idle, Knows, Failed, ActiveAdmins, Live, Counted, Plain,
       Failing
  <1> QED BY <1>1, <1>2, <1>3, <1>4 DEF Next

LEMMA CalmFirst == Init => CalmInv
  <1> SUFFICES ASSUME Init PROVE CalmInv
    OBVIOUS
  <1>1. \A w \in Workers : work[w].pc = "idle"
    BY DEF Init, Rest
  <1>2. \A i \in Ids : docs[i].fails = 0 /\ ~docs[i].locked /\ guesses[i] = 0
    <2>1. Seed.fails = 0 /\ ~Seed.locked /\ NoAccount.fails = 0 /\ ~NoAccount.locked
      BY DEF Seed, NoAccount
    <2> QED BY <2>1 DEF Init
  <1> QED BY <1>1, <1>2 DEF CalmInv, OneBusy, Idle, Knows, Counted, Plain

\* While requests do not overlap, the Attempts-th wrong password in a row locks
\* the account (auth_service.py:193), and none is compared until it unlocks.
THEOREM AccountsLockInTime == Spec => []LockedInTime
  <1>1. IInv /\ CalmInv => LockedInTime
    <2> SUFFICES ASSUME IInv, CalmInv, calm, NEW i \in Live
                 PROVE  /\ guesses[i] <= Attempts
                        /\ guesses[i] = Attempts => docs[i].locked \/ \E w \in Busy : work[w].id = i
      BY DEF LockedInTime
    <2>1. /\ i \in Ids /\ docs[i].state = "live" /\ docs[i].fails \in 0 .. (Attempts - 1)
          /\ guesses[i] \in Nat /\ Attempts \in Nat
      BY UserAccountsAssumption DEF Live, IInv, Typed, Account
    <2>2. CASE Failing(i)
      <3>1. PICK w \in Workers : work[w].pc = "failure" /\ work[w].id = i
        BY <2>2 DEF Failing
      <3>2. Alone(w) /\ w \in Busy
        BY <3>1 DEF CalmInv, OneBusy, Alone, Idle, Busy
      <3>3. guesses[i] = docs[i].fails + 1
        BY <3>1, <3>2 DEF CalmInv, Knows, Failed
      <3> QED BY <2>1, <3>1, <3>2, <3>3
    <2>3. CASE ~Failing(i)
      <3>1. Plain(i)
        BY <2>1, <2>3 DEF CalmInv, Counted
      <3> QED BY <2>1, <3>1 DEF Plain
    <2> QED BY <2>2, <2>3
  <1> QED BY <1>1, Inductive, CalmFirst, CalmNext, PTL DEF Spec

-----------------------------------------------------------------------------
(* What a step may not do while it is calm *)

\* The decision about an account is made, and a step leaves it or the account
\* goes.
Decided(i) == docs[i].state = "live" /\ docs[i].approval # "pending"
StaysDecided(i) == docs'[i].state = "deleted" \/ docs'[i].approval = docs[i].approval

\* The last active Administrator stays, unless a role was taken away.
OneRemains ==
    ActiveAdmins # {} =>
        \/ ActiveAdmins' # {}
        \/ \E i \in ActiveAdmins : docs'[i].active /\ docs'[i].role # docs[i].role

\* A change of one account that keeps it active, or that is not of an active
\* Administrator.
LEMMA OthersRemain ==
    ASSUME IInv, NEW i \in Ids, \A j \in Ids \ {i} : docs'[j] = docs[j],
           \/ i \notin ActiveAdmins
           \/ docs'[i].state = "live" /\ docs'[i].active
           \/ ActiveAdmins # {i}
    PROVE  OneRemains
  BY DEF OneRemains, ActiveAdmins, Live

LEMMA HandlerStepMay ==
    ASSUME IInv, NEW w \in Workers, HandlerStep(w), Knows(w)
    PROVE  OneRemains /\ \A j \in Ids : Decided(j) => StaysDecided(j)
  <1> DEFINE i == work[w].id
  <1>0. docs \in [Ids -> Account]
    BY DEF IInv, Typed
  <1>1. CASE UNCHANGED docs
    BY <1>1 DEF OneRemains, ActiveAdmins, Live, StaysDecided
  <1>2. ASSUME NEW n \in Ids, docs[n].state = "unborn", docs' = [docs EXCEPT ![n] = work[w].doc]
        PROVE  OneRemains /\ \A j \in Ids : Decided(j) => StaysDecided(j)
    <2>1. \A j \in Ids \ {n} : docs'[j] = docs[j]
      BY <1>0, <1>2
    <2>2. n \notin ActiveAdmins
      BY <1>2 DEF ActiveAdmins, Live
    <2> QED BY <1>2, <2>1, <2>2, OthersRemain DEF Decided, StaysDecided
  <1>3. ASSUME NEW d, i \in Ids, Set(i, d),
               docs[i].state = "live" =>
                 /\ d.state = "deleted" \/ d.approval = docs[i].approval \/ docs[i].approval = "pending"
                 /\ i \notin ActiveAdmins \/ (d.state = "live" /\ d.active) \/ ActiveAdmins # {i}
        PROVE  OneRemains /\ \A j \in Ids : Decided(j) => StaysDecided(j)
    <2>1. CASE docs[i].state # "live"
      BY <1>1, <1>3, <2>1 DEF Set
    <2>2. CASE docs[i].state = "live"
      <3>1. \A j \in Ids : docs'[j] = IF j = i THEN d ELSE docs[j]
        BY <1>3, <2>2, SetIs
      <3>2. OneRemains
        BY <1>3, <2>2, <3>1, OthersRemain
      <3> QED BY <1>3, <2>2, <3>1, <3>2 DEF Decided, StaysDecided
    <2> QED BY <2>1, <2>2
  <1>4. CASE Approve(w)
    <2> DEFINE d == [docs[i] EXCEPT !.approval = "approved", !.active = TRUE,
                                    !.role = work[w].doc.role]
    <2>1. i \in Ids /\ docs[i] \in Account /\ (docs[i].state = "live" => docs[i].approval = "pending")
      BY <1>4, HeldId DEF Approve, Knows
    <2>2. d.active /\ d.state = docs[i].state
      BY <2>1 DEF Account
    <2>3. Set(i, d)
      BY <1>4 DEF Approve
    <2> HIDE DEF d
    <2> QED BY <1>3, <2>1, <2>2, <2>3
  <1>5. CASE Reject(w)
    <2> DEFINE d == [docs[i] EXCEPT !.approval = "rejected"]
    <2>1. i \in Ids /\ docs[i] \in Account /\ (docs[i].state = "live" => docs[i].approval = "pending")
      BY <1>5, HeldId DEF Reject, Knows
    <2>2. d.active = docs[i].active /\ d.state = docs[i].state
      BY <2>1 DEF Account
    <2>3. Set(i, d)
      BY <1>5 DEF Reject
    <2> HIDE DEF d
    <2> QED BY <1>3, <2>1, <2>2, <2>3 DEF ActiveAdmins, Live
  <1>6. CASE Delete(w)
    <2> DEFINE d == [NoAccount EXCEPT !.state = "deleted"]
    <2>1. i \in Ids /\ ActiveAdmins # {i}
      BY <1>6, HeldId DEF Delete, Knows
    <2>2. d.state = "deleted"
      BY DEF NoAccount
    <2>3. Set(i, d)
      BY <1>6 DEF Delete
    <2> HIDE DEF d
    <2> QED BY <1>3, <2>1, <2>2, <2>3
  <1>7. CASE Deactivate(w)
    <2> DEFINE d == [docs[i] EXCEPT !.active = FALSE]
    <2>1. i \in Ids /\ docs[i] \in Account /\ ActiveAdmins # {i}
      BY <1>7, HeldId DEF Deactivate, Knows
    <2>2. d.approval = docs[i].approval
      BY <2>1 DEF Account
    <2>3. Set(i, d)
      BY <1>7 DEF Deactivate
    <2> HIDE DEF d
    <2> QED BY <1>3, <2>1, <2>2, <2>3
  <1>8. CASE Activate(w)
    <2> DEFINE d == [docs[i] EXCEPT !.active = TRUE]
    <2>1. i \in Ids /\ docs[i] \in Account
      BY <1>8, HeldId DEF Activate
    <2>2. d.approval = docs[i].approval /\ d.active /\ d.state = docs[i].state
      BY <2>1 DEF Account
    <2>3. Set(i, d)
      BY <1>8 DEF Activate
    <2> HIDE DEF d
    <2> QED BY <1>3, <2>1, <2>2, <2>3
  <1>9. CASE CountFailure(w)
    <2> DEFINE n == work[w].doc.fails + 1
               locks == [docs[i] EXCEPT !.locked = TRUE, !.fails = 0]
               counts == [docs[i] EXCEPT !.fails = n]
               d == IF n >= Attempts THEN locks ELSE counts
    <2>1. i \in Ids /\ docs[i] \in Account
      BY <1>9, HeldId DEF CountFailure
    <2>2. \A e \in {locks, counts} : /\ e.approval = docs[i].approval /\ e.active = docs[i].active
                                     /\ e.state = docs[i].state
      BY <2>1 DEF Account
    <2>3. Set(i, d)
      BY <1>9 DEF CountFailure
    <2> HIDE DEF locks, counts
    <2>4. d \in {locks, counts}
      OBVIOUS
    <2> HIDE DEF d
    <2> QED BY <1>3, <2>1, <2>2, <2>3, <2>4 DEF ActiveAdmins, Live
  <1>10. CASE SignIn(w)
    <2> DEFINE d == [docs[i] EXCEPT !.signed = TRUE, !.fails = 0, !.locked = FALSE]
    <2>1. i \in Ids /\ docs[i] \in Account
      BY <1>10, HeldId DEF SignIn
    <2>2. d.approval = docs[i].approval /\ d.active = docs[i].active /\ d.state = docs[i].state
      BY <2>1 DEF Account
    <2>3. Set(i, d)
      BY <1>10 DEF SignIn
    <2> HIDE DEF d
    <2> QED BY <1>3, <2>1, <2>2, <2>3 DEF ActiveAdmins, Live
  <1>11. CASE AddStep(w)
    <2>1. \/ UNCHANGED docs
          \/ \E n \in Ids : docs[n].state = "unborn" /\ docs' = [docs EXCEPT ![n] = work[w].doc]
      BY <1>11 DEF AddStep, StartAdd, Insert
    <2> QED BY <1>1, <1>2, <2>1
  <1>12. \/ UNCHANGED docs
         \/ AddStep(w) \/ Approve(w) \/ Reject(w) \/ Delete(w) \/ Deactivate(w) \/ Activate(w)
         \/ CountFailure(w) \/ SignIn(w)
    BY DEF HandlerStep, DecideStep, RemoveStep, LoginStep, StartDecide, StartDelete, StartDeactivate,
       StartActivate, CountAdmins, StartLogin
  <1> QED BY <1>1, <1>4, <1>5, <1>6, <1>7, <1>8, <1>9, <1>10, <1>11, <1>12

LEMMA CalmStepMay ==
    ASSUME IInv, CalmInv, [Next]_vars, calm'
    PROVE  OneRemains /\ \A j \in Ids : Decided(j) => StaysDecided(j)
  <1>0. docs \in [Ids -> Account]
    BY DEF IInv, Typed
  <1>1. ASSUME NEW w \in Workers, HandlerStep(w), calm' = (calm /\ Cardinality(Busy') <= 1)
        PROVE  OneRemains /\ \A j \in Ids : Decided(j) => StaysDecided(j)
    <2>1. calm /\ Cardinality(Busy') <= 1
      BY <1>1, Zenon
    <2>2. Knows(w)
      BY <1>1, <2>1, MovesAlone DEF CalmInv
    <2> QED BY <1>1, <2>2, HandlerStepMay
  <1>2. CASE Restart
    <2>1. \A j \in Ids : docs[j].state = "live" => docs'[j] = docs[j]
      BY <1>0, <1>2 DEF Restart
    <2> QED BY <2>1 DEF OneRemains, ActiveAdmins, Live, Decided, StaysDecided
  <1>3. ASSUME NEW w \in Workers, NEW i \in Ids, ChangeRole(w, i)
        PROVE  OneRemains /\ \A j \in Ids : Decided(j) => StaysDecided(j)
    <2>1. PICK r \in Roles : docs' = [docs EXCEPT ![i].role = r]
      BY <1>3 DEF ChangeRole
    <2>2. \A j \in Ids : /\ docs'[j].state = docs[j].state /\ docs'[j].approval = docs[j].approval
                         /\ docs'[j].active = docs[j].active
                         /\ j # i => docs'[j] = docs[j]
      BY <1>0, <2>1 DEF Account
    <2> QED BY <2>2, OthersRemain DEF ActiveAdmins, Live, Decided, StaysDecided
  <1>4. ASSUME NEW i \in Ids, Unlock(i)
        PROVE  OneRemains /\ \A j \in Ids : Decided(j) => StaysDecided(j)
    <2>1. \A j \in Ids : /\ docs'[j].state = docs[j].state /\ docs'[j].approval = docs[j].approval
                         /\ docs'[j].active = docs[j].active
                         /\ j # i => docs'[j] = docs[j]
      BY <1>0, <1>4 DEF Unlock, Account
    <2> QED BY <2>1, OthersRemain DEF ActiveAdmins, Live, Decided, StaysDecided
  <1>5. CASE UNCHANGED vars
    BY <1>5 DEF vars, OneRemains, ActiveAdmins, Live, StaysDecided
  <1> QED BY <1>1, <1>2, <1>3, <1>4, <1>5 DEF Next

\* While requests do not overlap, what was approved or rejected stays so
\* (user_service.py:289).
THEOREM RegistrationsDecidedOnce == Spec => DecidedOnce
  <1>1. IInv /\ CalmInv /\ [Next]_vars =>
          (calm' => \A i \in Ids :
             docs[i].state = "live" /\ docs[i].approval # "pending"
               => docs'[i].state = "deleted" \/ docs'[i].approval = docs[i].approval)
    BY CalmStepMay DEF Decided, StaysDecided
  <1> QED BY <1>1, Inductive, CalmFirst, CalmNext, PTL DEF Spec, DecidedOnce

\* While requests do not overlap, deleting and deactivating leave an active
\* Administrator (user_service.py:192).
THEOREM AnAdministratorRemains == Spec => AdministratorRemains
  <1>1. IInv /\ CalmInv /\ [Next]_vars =>
          (calm' /\ ActiveAdmins # {} =>
             \/ ActiveAdmins' # {}
             \/ \E i \in ActiveAdmins : docs'[i].active /\ docs'[i].role # docs[i].role)
    BY CalmStepMay DEF OneRemains
  <1> QED BY <1>1, Inductive, CalmFirst, CalmNext, PTL DEF Spec, AdministratorRemains
=============================================================================
