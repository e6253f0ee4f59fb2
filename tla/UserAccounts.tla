----------------------------- MODULE UserAccounts -----------------------------
(***************************************************************************)
(* The accounts: self-registration and the decision about it, the          *)
(* administration of accounts, and signing in with its lock.               *)
(*                                                                         *)
(* Every handler reads an account, decides, and writes what it decided by  *)
(* the id of the account: the two are separate operations, and whatever    *)
(* was decided from the read may no longer be true when the write comes.   *)
(* Each worker handles one request after another.                          *)
(***************************************************************************)
EXTENDS Naturals, FiniteSets

CONSTANTS
    Ids,       \* document ids, never used twice
    Names,     \* user names
    Root,      \* the name of the account the application creates when it starts
    None,      \* no document
    Attempts,  \* wrong passwords in a row that lock an account (5)
    Workers,   \* bound: requests handled at the same time
    Uses       \* bound: what is done in an instance, a subset of AllUses

AllUses == {"register", "create", "ldap", "decide", "remove", "role", "login", "restart"}

Roles == {"Viewer", "Administrator", "SuperAdmin"}

ASSUME UserAccountsAssumption ==
    /\ None \notin Ids /\ Root \in Names
    /\ Attempts \in Nat \ {0} /\ IsFiniteSet(Workers)
    /\ Uses \subseteq AllUses

VARIABLES
    docs,      \* id -> account
    work,      \* worker -> the request it handles
    guesses,   \* history: id -> wrong passwords compared since the account was
               \*   created, signed in or came out of a lock; many are one more
               \*   than Attempts
    calm       \* history: no two requests have been under way at the same time,
               \*   and none was lost in a restart

vars == <<docs, work, guesses, calm>>

-----------------------------------------------------------------------------
(* Documents *)

\* locked stands for a locked_until that has not come, signed for a last_login.
NoAccount == [state |-> "unborn", name |-> Root, role |-> "Viewer", active |-> FALSE,
              approval |-> "pending", ldap |-> FALSE, signed |-> FALSE, fails |-> 0,
              locked |-> FALSE]

\* What a request holds: the id and, of the account as it was read or as it is
\* to be, the fields that it uses later.
Rest == [pc |-> "idle", id |-> None, doc |-> NoAccount]

Live == {i \in Ids : docs[i].state = "live"}
Named(n) == {i \in Live : docs[i].name = n}

\* get_current_user and require_role: the role and the activity are those of
\* the document now, not those of the token.
Callers(roles) == {i \in Live : docs[i].active /\ docs[i].role \in roles}
Admins == {"Administrator", "SuperAdmin"}
Supers == {"SuperAdmin"}

\* What the guards of delete and deactivate count.
ActiveAdmins == {i \in Live : docs[i].active /\ docs[i].role = "Administrator"}

Seed == [NoAccount EXCEPT !.state = "live", !.role = "SuperAdmin", !.active = TRUE,
                          !.approval = "approved"]

\* The application has started once on an empty database.
Init ==
    /\ \E i \in Ids : docs = [j \in Ids |-> IF j = i THEN Seed ELSE NoAccount]
    /\ work = [w \in Workers |-> Rest]
    /\ guesses = [i \in Ids |-> 0]
    /\ calm = TRUE

Take(w, pc, i, doc) == work' = [work EXCEPT ![w] = [pc |-> pc, id |-> i, doc |-> doc]]
Finish(w) == work' = [work EXCEPT ![w] = Rest]

\* update by id writes the given fields of a document that is there; Set keeps
\* every other field as it is at that moment.
Set(i, doc) == docs' = IF docs[i].state = "live" THEN [docs EXCEPT ![i] = doc] ELSE docs

Guess(i) == guesses' = [guesses EXCEPT ![i] = IF @ > Attempts THEN @ ELSE @ + 1]

Busy == {w \in Workers : work[w].pc # "idle"}

-----------------------------------------------------------------------------
(* A new account: register, UserService.create, an LDAP user's first sign-in *)

\* find_by_username finds nothing.
StartAdd(w, n) ==
    /\ work[w].pc = "idle"
    /\ Named(n) = {}
    /\ LET new == [NoAccount EXCEPT !.state = "live", !.name = n]
       IN \/ /\ "register" \in Uses
             /\ Take(w, "insert", None, new)
          \/ /\ "create" \in Uses /\ Callers(Admins) # {}
             /\ \E r \in Roles :
                  Take(w, "insert", None,
                       [new EXCEPT !.role = r, !.active = TRUE, !.approval = "approved"])
          \/ /\ "ldap" \in Uses
             /\ Take(w, "provision", None,
                     [new EXCEPT !.active = TRUE, !.approval = "approved", !.ldap = TRUE])
    /\ UNCHANGED <<docs, guesses>>

\* insert_one and the unique index on the name; an LDAP user goes on to sign in.
Insert(w) ==
    /\ work[w].pc \in {"insert", "provision"}
    /\ \/ Named(work[w].doc.name) # {} /\ Finish(w) /\ UNCHANGED docs
       \/ /\ Named(work[w].doc.name) = {}
          /\ \E i \in Ids :
               /\ docs[i].state = "unborn"
               /\ docs' = [docs EXCEPT ![i] = work[w].doc]
               /\ IF work[w].pc = "provision" THEN Take(w, "success", i, NoAccount)
                  ELSE Finish(w)
    /\ UNCHANGED guesses

-----------------------------------------------------------------------------
(* approve and reject *)

\* Broken variant: the status of the registration is not looked at.
StartDecideAnyway(w, i) ==
    /\ "decide" \in Uses
    /\ work[w].pc = "idle"
    /\ Callers(Admins) # {} /\ i \in Live
    /\ \/ \E r \in Roles : Take(w, "approve", i, [NoAccount EXCEPT !.role = r])
       \/ Take(w, "reject", i, NoAccount)
    /\ UNCHANGED <<docs, guesses>>

\* The account is there and pending; an approval comes with a role.
StartDecide(w, i) ==
    /\ "decide" \in Uses
    /\ work[w].pc = "idle"
    /\ Callers(Admins) # {} /\ i \in Live
    /\ docs[i].approval = "pending"
    /\ \/ \E r \in Roles : Take(w, "approve", i, [NoAccount EXCEPT !.role = r])
       \/ Take(w, "reject", i, NoAccount)
    /\ UNCHANGED <<docs, guesses>>

\* The write does not look at the status again.
Approve(w) ==
    /\ work[w].pc = "approve"
    /\ LET i == work[w].id
       IN Set(i, [docs[i] EXCEPT !.approval = "approved", !.active = TRUE,
                                 !.role = work[w].doc.role])
    /\ Finish(w)
    /\ UNCHANGED guesses

\* A rejection leaves is_active as it is.
Reject(w) ==
    /\ work[w].pc = "reject"
    /\ Set(work[w].id, [docs[work[w].id] EXCEPT !.approval = "rejected"])
    /\ Finish(w)
    /\ UNCHANGED guesses

-----------------------------------------------------------------------------
(* delete, deactivate, activate, update *)

\* Broken variant: every Administrator may be deleted.
StartDeleteUnguarded(w, i) ==
    /\ "remove" \in Uses
    /\ work[w].pc = "idle"
    /\ Callers(Supers) \ {i} # {} /\ i \in Live
    /\ Take(w, "delete", i, NoAccount)
    /\ UNCHANGED <<docs, guesses>>

\* Nobody deletes the own account; an active Administrator only after a count.
StartDelete(w, i) ==
    /\ "remove" \in Uses
    /\ work[w].pc = "idle"
    /\ Callers(Supers) \ {i} # {} /\ i \in Live
    /\ Take(w, IF i \in ActiveAdmins THEN "count_delete" ELSE "delete", i, NoAccount)
    /\ UNCHANGED <<docs, guesses>>

StartDeactivate(w, i) ==
    /\ "remove" \in Uses
    /\ work[w].pc = "idle"
    /\ Callers(Supers) # {} /\ i \in Live /\ docs[i].active
    /\ Take(w, IF docs[i].role = "Administrator" THEN "count_deactivate" ELSE "deactivate",
            i, NoAccount)
    /\ UNCHANGED <<docs, guesses>>

\* The guard counts after the account was read, and before it is written.
CountAdmins(w) ==
    /\ \/ /\ Cardinality(ActiveAdmins) <= 1
          /\ work[w].pc \in {"count_delete", "count_deactivate"}
          /\ Finish(w)
       \/ /\ Cardinality(ActiveAdmins) > 1
          /\ \/ work[w].pc = "count_delete" /\ Take(w, "delete", work[w].id, NoAccount)
             \/ work[w].pc = "count_deactivate"
                /\ Take(w, "deactivate", work[w].id, NoAccount)
    /\ UNCHANGED <<docs, guesses>>

Delete(w) ==
    /\ work[w].pc = "delete"
    /\ Set(work[w].id, [NoAccount EXCEPT !.state = "deleted"])
    /\ Finish(w)
    /\ UNCHANGED guesses

Deactivate(w) ==
    /\ work[w].pc = "deactivate"
    /\ Set(work[w].id, [docs[work[w].id] EXCEPT !.active = FALSE])
    /\ Finish(w)
    /\ UNCHANGED guesses

\* activate does not ask whether the registration was decided.
StartActivate(w, i) ==
    /\ "remove" \in Uses
    /\ work[w].pc = "idle"
    /\ Callers(Supers) # {} /\ i \in Live /\ ~docs[i].active
    /\ Take(w, "activate", i, NoAccount)
    /\ UNCHANGED <<docs, guesses>>

Activate(w) ==
    /\ work[w].pc = "activate"
    /\ Set(work[w].id, [docs[work[w].id] EXCEPT !.active = TRUE])
    /\ Finish(w)
    /\ UNCHANGED guesses

\* update reads the account only to see that it is there and to log it: the
\* write alone decides.  No guard looks at the role it takes away.
ChangeRole(w, i) ==
    /\ "role" \in Uses
    /\ work[w].pc = "idle"
    /\ Callers(Supers) # {} /\ i \in Live
    /\ \E r \in Roles : docs' = [docs EXCEPT ![i].role = r]
    /\ UNCHANGED <<work, guesses>>

-----------------------------------------------------------------------------
(* login *)

\* Broken variant: a pending registration is not turned away.
StartLoginUndecided(w, i) ==
    /\ "login" \in Uses
    /\ work[w].pc = "idle"
    /\ i \in Live
    /\ docs[i].active
    /\ ~docs[i].locked
    /\ docs[i].approval # "rejected"
    /\ \/ Take(w, "success", i, NoAccount) /\ UNCHANGED guesses
       \/ /\ ~docs[i].ldap
          /\ Take(w, "failure", i, [NoAccount EXCEPT !.fails = docs[i].fails])
          /\ Guess(i)
    /\ UNCHANGED docs

\* Broken variant: the lock is not looked at.
StartLoginLocked(w, i) ==
    /\ "login" \in Uses
    /\ work[w].pc = "idle"
    /\ i \in Live
    /\ docs[i].active
    /\ docs[i].approval = "approved"
    /\ \/ Take(w, "success", i, NoAccount) /\ UNCHANGED guesses
       \/ /\ ~docs[i].ldap
          /\ Take(w, "failure", i, [NoAccount EXCEPT !.fails = docs[i].fails])
          /\ Guess(i)
    /\ UNCHANGED docs

\* The account is read and checked, and the password compared, with no other
\* request in between.  An LDAP account has no password to count.
StartLogin(w, i) ==
    /\ "login" \in Uses
    /\ work[w].pc = "idle"
    /\ i \in Live
    /\ docs[i].active
    /\ ~docs[i].locked
    /\ docs[i].approval = "approved"
    /\ \/ Take(w, "success", i, NoAccount) /\ UNCHANGED guesses
       \/ /\ ~docs[i].ldap
          /\ Take(w, "failure", i, [NoAccount EXCEPT !.fails = docs[i].fails])
          /\ Guess(i)
    /\ UNCHANGED docs

\* The new count comes from the count that was read.
CountFailure(w) ==
    /\ work[w].pc = "failure"
    /\ LET i == work[w].id
           n == work[w].doc.fails + 1
       IN Set(i, IF n >= Attempts THEN [docs[i] EXCEPT !.locked = TRUE, !.fails = 0]
                 ELSE [docs[i] EXCEPT !.fails = n])
    /\ Finish(w)
    /\ UNCHANGED guesses

\* The tokens are handed out whether or not the update finds the account.
SignIn(w) ==
    /\ work[w].pc = "success"
    /\ LET i == work[w].id
       IN /\ Set(i, [docs[i] EXCEPT !.signed = TRUE, !.fails = 0, !.locked = FALSE])
          /\ guesses' = [guesses EXCEPT ![i] = 0]
    /\ Finish(w)

\* locked_until comes.
Unlock(i) ==
    /\ i \in Live /\ docs[i].locked
    /\ docs' = [docs EXCEPT ![i].locked = FALSE]
    /\ guesses' = [guesses EXCEPT ![i] = 0]
    /\ UNCHANGED work

-----------------------------------------------------------------------------
(* The process stops, and starts again: _seed_default_admin *)

\* The account of that name is created if there is none, and left alone if
\* there is one, whatever has become of it.
Restart ==
    /\ "restart" \in Uses
    /\ work' = [w \in Workers |-> Rest]
    /\ \/ Named(Root) # {} /\ UNCHANGED docs
       \/ /\ Named(Root) = {}
          /\ \E i \in Ids : docs[i].state = "unborn" /\ docs' = [docs EXCEPT ![i] = Seed]
    /\ UNCHANGED guesses

AddStep(w) == (\E n \in Names : StartAdd(w, n)) \/ Insert(w)
DecideStep(w) == (\E i \in Ids : StartDecide(w, i)) \/ Approve(w) \/ Reject(w)
RemoveStep(w) ==
    \/ \E i \in Ids : StartDelete(w, i) \/ StartDeactivate(w, i) \/ StartActivate(w, i)
    \/ CountAdmins(w) \/ Delete(w) \/ Deactivate(w) \/ Activate(w)
LoginStep(w) == (\E i \in Ids : StartLogin(w, i)) \/ CountFailure(w) \/ SignIn(w)

HandlerStep(w) == AddStep(w) \/ DecideStep(w) \/ RemoveStep(w) \/ LoginStep(w)

Next ==
    \/ (\E w \in Workers : HandlerStep(w)) /\ calm' = (calm /\ Cardinality(Busy') <= 1)
    \/ /\ Restart \/ \E w \in Workers, i \in Ids : ChangeRole(w, i)
       /\ calm' = (calm /\ Busy = {})
    \/ (\E i \in Ids : Unlock(i)) /\ UNCHANGED calm

Spec == Init /\ [][Next]_vars

-----------------------------------------------------------------------------
(* Properties *)

Account == [state : {"unborn", "live", "deleted"}, name : Names, role : Roles,
            active : BOOLEAN, approval : {"pending", "approved", "rejected"},
            ldap : BOOLEAN, signed : BOOLEAN, fails : 0 .. (Attempts - 1), locked : BOOLEAN]

Pcs == {"idle", "insert", "provision", "approve", "reject", "count_delete", "delete",
        "count_deactivate", "deactivate", "activate", "failure", "success"}

\* The types of the account documents and of the requests under way
\* (models/user.py): the count of failures stays below the limit.
Typed ==
    /\ docs \in [Ids -> Account]
    /\ work \in [Workers -> [pc : Pcs, id : Ids \union {None}, doc : Account]]
    /\ guesses \in [Ids -> Nat]

TypeOK == Typed /\ calm \in BOOLEAN

\* However requests interleave, a name has one account (the unique index of
\* init.js behind the look-ups of register, create, login and the seed).
OneAccountPerName == \A i, j \in Live : docs[i].name = docs[j].name => i = j

\* However decisions, activations, role changes and sign-ins interleave, nobody
\* signs in whose registration is still undecided (auth_service.py:142).
UndecidedStaysOut == \A i \in Live : docs[i].approval = "pending" => ~docs[i].signed

\* Unless requests overlap, a registration is decided once: what was approved or
\* rejected stays so (the guards of approve and reject).
DecidedOnce ==
    [][calm' => \A i \in Ids :
          docs[i].state = "live" /\ docs[i].approval # "pending"
             => docs'[i].state = "deleted" \/ docs'[i].approval = docs[i].approval]_vars

\* Unless requests overlap, an active Administrator is left when one is deleted
\* or deactivated (the guards of delete and deactivate); what they do not guard
\* is a role that is taken away.
AdministratorRemains ==
    [][calm' /\ ActiveAdmins # {} =>
          \/ ActiveAdmins' # {}
          \/ \E i \in ActiveAdmins : docs'[i].active /\ docs'[i].role # docs[i].role]_vars

\* Unless requests overlap, an account is locked by the Attempts-th wrong
\* password in a row, and none is compared while it is
\* (_MAX_FAILED_LOGIN_ATTEMPTS).
LockedInTime ==
    calm => \A i \in Live :
        /\ guesses[i] <= Attempts
        /\ guesses[i] = Attempts => docs[i].locked \/ \E w \in Busy : work[w].id = i

=============================================================================
