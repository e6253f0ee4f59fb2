--------------------------------- MODULE Vault ---------------------------------
(***************************************************************************)
(* The password vault: cabinets with their members, the folders of a       *)
(* cabinet, and the entries in them.  Three collections that refer to each *)
(* other by id, and no transaction: a deletion goes through them one       *)
(* operation at a time, and so does every check that a reference is good.  *)
(* Each worker carries out one request after another.                      *)
(***************************************************************************)
EXTENDS Naturals, FiniteSets

CONSTANTS
    Cabinets, Folders, Entries,   \* document ids, never used twice
    Names,                        \* folder names
    Users,
    Role,                         \* user -> role
    None,                         \* no folder: the root of a cabinet
    Workers,                      \* bound: requests handled at the same time
    Plans                         \* bound: what is done in an instance, and how many folders
                                  \*   are made

AllUses == {"member", "drop_cabinet", "folder", "rename", "drop_folder", "entry", "move",
            "drop_entry", "fail"}
Roles == {"Viewer", "Operator", "Administrator", "SuperAdmin"}

ASSUME VaultAssumption ==
    /\ None \notin Folders /\ None \notin Cabinets /\ None \notin Entries
    /\ IsFiniteSet(Workers)
    /\ Role \in [Users -> Roles]
    /\ Plans \subseteq [uses : SUBSET AllUses, folders : Nat]

VARIABLES
    cabinets,   \* id -> cabinet
    folders,    \* id -> folder
    entries,    \* id -> password entry
    work,       \* worker -> the request it handles
    calm,       \* history: no two requests have been under way at the same time,
                \*   and none has stopped half-way
    plan        \* bound: the plan of this behaviour

vaultVars == <<cabinets, folders, entries, work, calm, plan>>

-----------------------------------------------------------------------------
(* Documents *)

NoCabinet == [state |-> "unborn", by |-> None, members |-> {}]
NoFolder  == [state |-> "unborn", cabinet |-> None, parent |-> None, name |-> None]
NoEntry   == [state |-> "unborn", cabinet |-> None, folder |-> None]
Rest == [pc |-> "idle", cabinet |-> None, folder |-> None, entry |-> None, name |-> None,
         todo |-> {}]

Alive(docs) == {i \in DOMAIN docs : docs[i].state = "live"}

InCabinet(c) == {f \in Alive(folders) : folders[f].cabinet = c}

\* What a client may know of.
Seen == {f \in Folders : folders[f].state # "unborn"}

\* find_by_name_in_parent finds a folder.
NameTaken(c, p, n) == \E f \in InCabinet(c) : folders[f].parent = p /\ folders[f].name = n

Administers(u) == Role[u] \in {"Administrator", "SuperAdmin"}
OperatesUp(u)  == Role[u] \in {"Operator", "Administrator", "SuperAdmin"}

\* _assert_cabinet_access: what a cabinet and its folders look like.
MayBrowse(u, c) == c \in Alive(cabinets) /\ (Administers(u) \/ u \in cabinets[c].members)

\* _assert_member: what is in it.  No role stands in for membership.
MayRead(u, c) == c \in Alive(cabinets) /\ u \in cabinets[c].members

\* _assert_can_manage_members.
MayManage(u, c) ==
    \/ Role[u] = "SuperAdmin"
    \/ Role[u] = "Administrator" /\ cabinets[c].by = u

VaultInit ==
    /\ cabinets = [c \in Cabinets |-> NoCabinet]
    /\ folders = [f \in Folders |-> NoFolder]
    /\ entries = [e \in Entries |-> NoEntry]
    /\ work = [w \in Workers |-> Rest]
    /\ calm = TRUE
    /\ plan \in Plans

Idle(w) == work[w].pc = "idle"
Busy == {w \in Workers : ~Idle(w)}
Begins(w, r) == work' = [work EXCEPT ![w] = r]
GoesTo(w, pc) == work' = [work EXCEPT ![w].pc = pc]
Finish(w) == work' = [work EXCEPT ![w] = Rest]

-----------------------------------------------------------------------------
(* CabinetService *)

\* Whoever creates a cabinet is a member of it.  The names of cabinets, which a
\* unique index keeps apart, are left out, and so is update_cabinet, which
\* changes nothing else.
CreateCabinet(u) ==
    /\ Administers(u)
    /\ \E c \in Cabinets, chosen \in SUBSET Users :
         /\ cabinets[c].state = "unborn"
         /\ cabinets' = [cabinets EXCEPT ![c] =
                           [state |-> "live", by |-> u, members |-> chosen \union {u}]]
    /\ UNCHANGED <<folders, entries, work>>

\* The write adds or removes one member of the cabinet as it is then; who may do
\* it depends on the creator, who does not change.
SetMember(u, c) ==
    /\ "member" \in plan.uses
    /\ c \in Alive(cabinets) /\ MayManage(u, c)
    /\ \E v \in Users :
         \/ cabinets' = [cabinets EXCEPT ![c].members = @ \union {v}]
         \/ cabinets' = [cabinets EXCEPT ![c].members = @ \ {v}]
    /\ UNCHANGED <<folders, entries, work>>

StartDropCabinet(w, u, c) ==
    /\ "drop_cabinet" \in plan.uses
    /\ Idle(w)
    /\ Role[u] = "SuperAdmin" /\ c \in Alive(cabinets)
    /\ Begins(w, [Rest EXCEPT !.pc = "drop_entries", !.cabinet = c])
    /\ UNCHANGED <<cabinets, folders, entries>>

\* Broken variant: the entries stay.
KeepEntries(w) ==
    /\ work[w].pc = "drop_entries"
    /\ GoesTo(w, "drop_cabinet")
    /\ UNCHANGED <<cabinets, folders, entries>>

\* delete_many on the entries.  The folders of the cabinet are left alone.
DropEntries(w) ==
    /\ work[w].pc = "drop_entries"
    /\ entries' = [e \in Entries |-> IF e \in Alive(entries) /\ entries[e].cabinet = work[w].cabinet
                                     THEN [NoEntry EXCEPT !.state = "deleted"] ELSE entries[e]]
    /\ GoesTo(w, "drop_cabinet")
    /\ UNCHANGED <<cabinets, folders>>

DropCabinet(w) ==
    /\ work[w].pc = "drop_cabinet"
    /\ cabinets' = [cabinets EXCEPT ![work[w].cabinet] = [NoCabinet EXCEPT !.state = "deleted"]]
    /\ Finish(w)
    /\ UNCHANGED <<folders, entries>>

-----------------------------------------------------------------------------
(* FolderService *)

StartFolder(w, u, c, p, n) ==
    /\ "folder" \in plan.uses
    /\ Idle(w)
    /\ OperatesUp(u) /\ MayBrowse(u, c)
    /\ Begins(w, [Rest EXCEPT !.pc = IF p = None THEN "folder_name" ELSE "folder_parent",
                             !.cabinet = c, !.folder = p, !.name = n])
    /\ UNCHANGED <<cabinets, folders, entries>>

\* Broken variant: a parent in another cabinet will do.
FindParentAnywhere(w) ==
    /\ work[w].pc = "folder_parent"
    /\ IF work[w].folder \in Alive(folders) THEN GoesTo(w, "folder_name") ELSE Finish(w)
    /\ UNCHANGED <<cabinets, folders, entries>>

\* The parent is there, in the same cabinet.
FindParent(w) ==
    /\ work[w].pc = "folder_parent"
    /\ IF work[w].folder \in InCabinet(work[w].cabinet) THEN GoesTo(w, "folder_name")
       ELSE Finish(w)
    /\ UNCHANGED <<cabinets, folders, entries>>

\* No folder of that name in the parent: the index on it is not a unique one.
FindName(w) ==
    /\ work[w].pc = "folder_name"
    /\ IF NameTaken(work[w].cabinet, work[w].folder, work[w].name) THEN Finish(w)
       ELSE GoesTo(w, "folder_insert")
    /\ UNCHANGED <<cabinets, folders, entries>>

InsertFolder(w) ==
    /\ work[w].pc = "folder_insert"
    /\ Cardinality(Seen) < plan.folders
    /\ \E f \in Folders :
         /\ folders[f].state = "unborn"
         /\ folders' = [folders EXCEPT ![f] =
                          [state |-> "live", cabinet |-> work[w].cabinet,
                           parent |-> work[w].folder, name |-> work[w].name]]
    /\ Finish(w)
    /\ UNCHANGED <<cabinets, entries>>

\* The new name is free.
StartRename(w, u, f, n) ==
    /\ "rename" \in plan.uses
    /\ Idle(w)
    /\ f \in Alive(folders) /\ OperatesUp(u) /\ MayBrowse(u, folders[f].cabinet)
    /\ n # folders[f].name
    /\ ~NameTaken(folders[f].cabinet, folders[f].parent, n)
    /\ Begins(w, [Rest EXCEPT !.pc = "rename", !.folder = f, !.name = n])
    /\ UNCHANGED <<cabinets, folders, entries>>

\* The write finds nothing if the folder is gone.
Rename(w) ==
    /\ work[w].pc = "rename"
    /\ folders' = IF work[w].folder \in Alive(folders)
                  THEN [folders EXCEPT ![work[w].folder].name = work[w].name] ELSE folders
    /\ Finish(w)
    /\ UNCHANGED <<cabinets, entries>>

StartDropFolder(w, u, f) ==
    /\ "drop_folder" \in plan.uses
    /\ Idle(w)
    /\ f \in Alive(folders) /\ OperatesUp(u) /\ MayBrowse(u, folders[f].cabinet)
    /\ Begins(w, [Rest EXCEPT !.pc = "collect", !.folder = f])
    /\ UNCHANGED <<cabinets, folders, entries>>

\* f and everything below it, among the folders of its cabinet: what belongs to
\* every set that has f and, with a folder, its children.
Below(f) ==
    LET tree == InCabinet(folders[f].cabinet)
        Closed(S) == \A g \in tree : folders[g].parent \in S => g \in S
    IN {g \in tree : \A S \in SUBSET tree : f \in S /\ Closed(S) => g \in S}

\* Broken variant: only the folder and its children.
CollectChildren(w) ==
    /\ work[w].pc = "collect"
    /\ LET f == work[w].folder
       IN work' = [work EXCEPT ![w].pc = "drop_folders",
                     ![w].todo = {f} \union {g \in Alive(folders) : folders[g].parent = f}]
    /\ UNCHANGED <<cabinets, folders, entries>>

\* _collect_subtree: one look at the folders of the cabinet.
Collect(w) ==
    /\ work[w].pc = "collect"
    /\ LET f == work[w].folder
       IN work' = [work EXCEPT ![w].pc = "drop_folders",
                     ![w].todo = IF f \in Alive(folders) THEN Below(f) ELSE {f}]
    /\ UNCHANGED <<cabinets, folders, entries>>

\* One deletion after the other, a folder before those below it.  The entries
\* are left as they are.
DropFolder(w) ==
    /\ work[w].pc = "drop_folders"
    /\ \E f \in work[w].todo :
         /\ folders[f].parent \notin work[w].todo
         /\ folders' = [folders EXCEPT ![f].state = "deleted"]
         /\ IF work[w].todo = {f} THEN Finish(w)
            ELSE work' = [work EXCEPT ![w].todo = @ \ {f}]
    /\ UNCHANGED <<cabinets, entries>>

-----------------------------------------------------------------------------
(* PasswordService *)

\* The folder of the request is not looked up: it may be one of another cabinet,
\* or gone.
StartEntry(w, u, c, f) ==
    /\ "entry" \in plan.uses
    /\ Idle(w)
    /\ OperatesUp(u) /\ MayRead(u, c)
    /\ f \in Seen \union {None}
    /\ Begins(w, [Rest EXCEPT !.pc = "entry_insert", !.cabinet = c, !.folder = f])
    /\ UNCHANGED <<cabinets, folders, entries>>

InsertEntry(w) ==
    /\ work[w].pc = "entry_insert"
    /\ \E e \in Entries :
         /\ entries[e].state = "unborn"
         /\ entries' = [entries EXCEPT ![e] = [state |-> "live", cabinet |-> work[w].cabinet,
                                               folder |-> work[w].folder]]
    /\ Finish(w)
    /\ UNCHANGED <<cabinets, folders>>

\* update_entry and move_entry: the folder is written as it comes.
StartMove(w, u, e, f) ==
    /\ "move" \in plan.uses
    /\ Idle(w)
    /\ e \in Alive(entries) /\ OperatesUp(u) /\ MayRead(u, entries[e].cabinet)
    /\ f \in Seen \union {None}
    /\ Begins(w, [Rest EXCEPT !.pc = "move", !.entry = e, !.folder = f])
    /\ UNCHANGED <<cabinets, folders, entries>>

Move(w) ==
    /\ work[w].pc = "move"
    /\ entries' = IF work[w].entry \in Alive(entries)
                  THEN [entries EXCEPT ![work[w].entry].folder = work[w].folder] ELSE entries
    /\ Finish(w)
    /\ UNCHANGED <<cabinets, folders>>

StartDropEntry(w, u, e) ==
    /\ "drop_entry" \in plan.uses
    /\ Idle(w)
    /\ e \in Alive(entries) /\ OperatesUp(u) /\ MayRead(u, entries[e].cabinet)
    /\ Begins(w, [Rest EXCEPT !.pc = "drop_entry", !.entry = e])
    /\ UNCHANGED <<cabinets, folders, entries>>

DropEntry(w) ==
    /\ work[w].pc = "drop_entry"
    /\ entries' = [entries EXCEPT ![work[w].entry] = [NoEntry EXCEPT !.state = "deleted"]]
    /\ Finish(w)
    /\ UNCHANGED <<cabinets, folders>>

-----------------------------------------------------------------------------
(* A request stops between two operations *)

Fail(w) ==
    /\ "fail" \in plan.uses
    /\ ~Idle(w)
    /\ Finish(w)
    /\ UNCHANGED <<cabinets, folders, entries>>

FolderStep(w, u) ==
    \/ \E c \in Cabinets, p \in Alive(folders) \union {None}, n \in Names :
         StartFolder(w, u, c, p, n)
    \/ \E f \in Folders : StartDropFolder(w, u, f) \/ \E n \in Names : StartRename(w, u, f, n)
EntryStep(w, u) ==
    \/ \E c \in Cabinets, f \in Folders \union {None} : StartEntry(w, u, c, f)
    \/ \E e \in Entries : \/ StartDropEntry(w, u, e)
                          \/ \E f \in Folders \union {None} : StartMove(w, u, e, f)
GoOn(w) ==
    \/ DropEntries(w) \/ DropCabinet(w)
    \/ FindParent(w) \/ FindName(w) \/ InsertFolder(w) \/ Rename(w)
    \/ Collect(w) \/ DropFolder(w)
    \/ InsertEntry(w) \/ Move(w) \/ DropEntry(w)

HandlerStep(w) ==
    \/ \E u \in Users : (\E c \in Cabinets : StartDropCabinet(w, u, c)) \/ FolderStep(w, u) \/ EntryStep(w, u)
    \/ GoOn(w)

\* What is done in one operation of the database, beside a request under way.
AtOnce(u) == CreateCabinet(u) \/ \E c \in Cabinets : SetMember(u, c)

VaultNext ==
    /\ \/ (\E w \in Workers : HandlerStep(w)) /\ calm' = (calm /\ Cardinality(Busy') <= 1)
       \/ (\E w \in Workers : Fail(w)) /\ calm' = FALSE
       \/ (\E u \in Users : AtOnce(u)) /\ UNCHANGED calm
    /\ UNCHANGED plan

VaultSpec == VaultInit /\ [][VaultNext]_vaultVars

-----------------------------------------------------------------------------
(* Properties *)

Pcs == {"idle", "drop_entries", "drop_cabinet", "folder_parent", "folder_name",
        "folder_insert", "rename", "collect", "drop_folders", "entry_insert", "move",
        "drop_entry"}
States == {"unborn", "live", "deleted"}

\* The types of the three collections and of the requests under way.
VaultTypeOK ==
    /\ cabinets \in [Cabinets -> [state : States, by : Users \union {None},
                                  members : SUBSET Users]]
    /\ folders \in [Folders -> [state : States, cabinet : Cabinets \union {None},
                                parent : Folders \union {None}, name : Names \union {None}]]
    /\ entries \in [Entries -> [state : States, cabinet : Cabinets \union {None},
                                folder : Folders \union {None}]]
    /\ work \in [Workers -> [pc : Pcs, cabinet : Cabinets \union {None},
                             folder : Folders \union {None}, entry : Entries \union {None},
                             name : Names \union {None}, todo : SUBSET Folders]]
    /\ calm \in BOOLEAN
    /\ plan \in Plans

\* However requests interleave and stop, the tree of a cabinet stays its own:
\* the parent of a folder is or was a folder of the same cabinet
\* (the check of create_folder).
TreesApart ==
    \A f \in Alive(folders) : folders[f].parent # None =>
        /\ folders[folders[f].parent].state # "unborn"
        /\ folders[folders[f].parent].cabinet = folders[f].cabinet

\* Unless requests overlap or stop half-way, deleting a folder takes everything
\* below it: no folder is left under one that is gone (delete_folder).
NoLooseFolder ==
    calm /\ Busy = {} =>
        \A f \in Alive(folders) : folders[f].parent \in Alive(folders) \union {None}

\* Unless requests overlap, a cabinet is deleted with all its entries.
EntriesHaveCabinet == calm => \A e \in Alive(entries) : entries[e].cabinet \in Alive(cabinets)

=============================================================================
